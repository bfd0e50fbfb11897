----------------------------- MODULE SoleRunner -----------------------------
(***************************************************************************)
(* What TravasService promises of a periodic task: at most one process is  *)
(* at it ("Aqui so um processo pega a trava; os outros pulam a rodada").   *)
(***************************************************************************)
EXTENDS Naturals

CONSTANT Processes

VARIABLE at    \* the processes that are at the task

Init == at = {}

Enter(p) == at = {} /\ at' = {p}
Leave(p) == at = {p} /\ at' = {}

Next == \E p \in Processes : Enter(p) \/ Leave(p)

Spec == Init /\ [][Next]_at
=============================================================================
