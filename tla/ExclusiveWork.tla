---------------------------- MODULE ExclusiveWork ----------------------------
(***************************************************************************)
(* What the leader lock promises to the rest of the warden: the work that  *)
(* reads boards, plans, applies and drains is done by one worker at a      *)
(* time, and a worker begins only after the one before it has finished.    *)
(***************************************************************************)
CONSTANT Workers

VARIABLE working      \* the workers that are at work

Init == working = {}

Begin(w) == working = {} /\ working' = {w}

Finish(w) == working = {w} /\ working' = {}

Next == \E w \in Workers : Begin(w) \/ Finish(w)

Spec == Init /\ [][Next]_working

=============================================================================
