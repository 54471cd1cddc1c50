------------------------------ MODULE Delivery ------------------------------
(***************************************************************************)
(* What the Dispatcher of notify/notify.go promises to those who enqueue   *)
(* and to those who close it, without batches, windows, timers and         *)
(* goroutines: an accepted event reaches a channel or is reported, at any  *)
(* time before Close returns and never afterwards.                         *)
(***************************************************************************)
EXTENDS Integers

CONSTANT Channels

VARIABLES
    phase,      \* "open", "closing", "closed"
    accepted,   \* number of events accepted
    delivered,  \* channel -> the events it was sent
    givenUp     \* channel -> the events reported as undeliverable

vars == <<phase, accepted, delivered, givenUp>>

Init ==
    /\ phase = "open" /\ accepted = 0
    /\ delivered = [ch \in Channels |-> {}]
    /\ givenUp = [ch \in Channels |-> {}]

Accept ==
    /\ phase = "open"
    /\ accepted' = accepted + 1
    /\ UNCHANGED <<phase, delivered, givenUp>>

\* Some accepted events reach a channel, perhaps not for the first time.
Deliver(ch) ==
    /\ phase # "closed"
    /\ \E part \in SUBSET (1 .. accepted) :
          delivered' = [delivered EXCEPT ![ch] = @ \cup part]
    /\ UNCHANGED <<phase, accepted, givenUp>>

\* Some are reported; the last attempt may have delivered a part of them.
Report(ch) ==
    /\ phase # "closed"
    /\ \E lost \in SUBSET (1 .. accepted) : \E part \in SUBSET lost :
          /\ givenUp' = [givenUp EXCEPT ![ch] = @ \cup lost]
          /\ delivered' = [delivered EXCEPT ![ch] = @ \cup part]
    /\ UNCHANGED <<phase, accepted>>

BeginClose ==
    /\ phase = "open"
    /\ phase' = "closing"
    /\ UNCHANGED <<accepted, delivered, givenUp>>

EndClose ==
    /\ phase = "closing"
    /\ \A n \in 1 .. accepted, ch \in Channels : n \in delivered[ch] \cup givenUp[ch]
    /\ phase' = "closed"
    /\ UNCHANGED <<accepted, delivered, givenUp>>

Next ==
    \/ Accept \/ BeginClose \/ EndClose
    \/ \E ch \in Channels : Deliver(ch) \/ Report(ch)

Spec == Init /\ [][Next]_vars
=============================================================================
