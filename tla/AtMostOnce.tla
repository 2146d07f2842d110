----------------------------- MODULE AtMostOnce -----------------------------
(***************************************************************************)
(* What agents/dedupe.py promises of the write path: "the same action      *)
(* against the same target yields exactly one side-effect, even across     *)
(* re-runs".  A decision, named by its signature, is performed at most     *)
(* once, however often and by whomever it is asked for.                    *)
(***************************************************************************)
EXTENDS Naturals

CONSTANT Signature

VARIABLE count   \* count[s]: how often the decision s took effect

Init == count = [s \in Signature |-> 0]

Perform(s) ==
  /\ count[s] = 0
  /\ count' = [count EXCEPT ![s] = 1]

Next == \E s \in Signature : Perform(s)

Spec == Init /\ [][Next]_count
=============================================================================
