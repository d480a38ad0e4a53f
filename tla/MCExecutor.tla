----------------------------- MODULE MCExecutor -----------------------------
(* Two workers, three jobs and a restart: see MCExecutor.cfg.  The run       *)
(* MCExecutorIdle.cfg gives two workers two jobs that need not return.       *)
EXTENDS Executor
=============================================================================
