------------------------------ MODULE Picking -------------------------------
(***************************************************************************)
(* The loop that several components share: it goes over a slice and        *)
(* appends the elements it keeps, in their order, to another.  It is a     *)
(* recursive function, and not SelectSeq, so that it can be proved about.  *)
(***************************************************************************)
EXTENDS Integers, Sequences

\* The elements of s at the positions in K.
Picked(s, K) ==
    LET kept[i \in 0 .. Len(s)] ==
            IF i = 0 THEN <<>>
            ELSE IF i \in K THEN Append(kept[i - 1], s[i]) ELSE kept[i - 1]
    IN kept[Len(s)]
=============================================================================
