------------------------------ MODULE License -------------------------------
(***************************************************************************)
(* license/license.go, and the limits cmd/loglight/main.go puts in front   *)
(* of its tables: what a key is worth.                                     *)
(*                                                                         *)
(* A key is what reading its text gives: whether it has the wire format,   *)
(* whether the signature is the issuer's, and the statement it carries.    *)
(* long stands for the length of the text, which matters only where two    *)
(* keys are written over one another.                                      *)
(***************************************************************************)
EXTENDS Integers, Sequences, FiniteSets

CONSTANTS
    Issuer,     \* whether the build holds an issuer's public key
    FreeCap,    \* MaxTargets of loglightTierLimits, free and pro; team has none
    ProCap,
    FloorCap    \* MaxTargets of the free tier in license.TierLimits

ASSUME LicenseAssumption ==
    Issuer \in BOOLEAN /\ FreeCap \in Nat \ {0} /\ ProCap \in Nat \ {0} /\ FloorCap \in Nat \ {0}

\* The empty text; and what is left when a key has been written over a longer one.
NoKey == [text |-> "empty", good |-> FALSE, genuine |-> FALSE, product |-> "", tier |-> "",
          expires |-> 0, long |-> 0]
Garbled(long) == [NoKey EXCEPT !.text = "garbled", !.long = long]

-----------------------------------------------------------------------------

\* Mutant: the date is not looked at.
VerifyForever(key, now) ==
    CASE ~ key.good -> "malformed"
      [] key.good /\ ~ (Issuer /\ key.genuine) -> "signature"
      [] key.good /\ Issuer /\ key.genuine /\ key.product # "loglight" -> "product"
      [] OTHER -> "valid"

\* Verify: the first check that fails.
Verify(key, now) ==
    CASE ~ key.good -> "malformed"
      [] key.good /\ ~ (Issuer /\ key.genuine) -> "signature"
      [] key.good /\ Issuer /\ key.genuine /\ key.product # "loglight" -> "product"
      [] key.good /\ Issuer /\ key.genuine /\ key.product = "loglight" ->
            IF now > key.expires THEN "expired" ELSE "valid"

\* Activate: the tier the product runs under; never an error.
Activate(key, now) ==
    [tier |-> IF Verify(key, now) = "valid" THEN key.tier ELSE "free", key |-> key, at |-> now]

\* 0 is no limit.
Fits(cap, count) == cap = 0 \/ count < cap

\* effLimits: the product's own table, and for a tier it does not know the
\* limits limitsFor found, which are those of the license package's free tier.
Cap(act) ==
    CASE act.tier = "free" -> FreeCap
      [] act.tier = "pro" -> ProCap
      [] act.tier = "team" -> 0
      [] OTHER -> FloorCap
=============================================================================
