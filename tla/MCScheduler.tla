---------------------------- MODULE MCScheduler ----------------------------
(* Two one-time tasks and a periodic one; one1 and the periodic task share a *)
(* tag, so that a task can meet another one registered in its place.         *)
EXTENDS Scheduler, TLC

CONSTANTS one1, one2, per, A, B

MCTasks == {one1, one2, per}
MCTags == {A, B}
MCTag == one1 :> A @@ per :> A @@ one2 :> B
MCPeriodic == {per}
=============================================================================
