------------------------------ MODULE JobPool ------------------------------
(***************************************************************************)
(* What the Executor promises its callers (src/executor/executor.h, the    *)
(* class comment): jobs are taken in FIFO order by a fixed number of       *)
(* workers, none is cancelled, none is taken twice, and a closed pool      *)
(* (shutdown has returned, or start was never called) runs nothing.        *)
(* Executor.tla implements this specification; Scheduler.tla and           *)
(* Wrapper.tla use their one-thread executor through it.                   *)
(***************************************************************************)
EXTENDS Sequences

CONSTANTS Jobs,      \* the jobs clients may submit
          Workers,   \* the worker slots of the pool
          None       \* no job

VARIABLES queue,     \* submitted, not yet taken
          run,       \* the job each worker is executing
          ended,     \* the jobs whose execution is over
          open       \* FALSE while the pool is shut down

vars == <<queue, run, ended, open>>

Init == /\ queue = <<>>
        /\ run = [w \in Workers |-> None]
        /\ ended = {}
        /\ open = FALSE

Fresh(j) == /\ j \notin ended
            /\ \A w \in Workers : run[w] # j
            /\ \A i \in DOMAIN queue : queue[i] # j

Submit(j) == /\ Fresh(j)
             /\ queue' = Append(queue, j)
             /\ UNCHANGED <<run, ended, open>>

Take(w) == /\ open
           /\ run[w] = None
           /\ queue # <<>>
           /\ run' = [run EXCEPT ![w] = Head(queue)]
           /\ queue' = Tail(queue)
           /\ UNCHANGED <<ended, open>>

End(w) == /\ run[w] # None
          /\ ended' = ended \cup {run[w]}
          /\ run' = [run EXCEPT ![w] = None]
          /\ UNCHANGED <<queue, open>>

Open == /\ ~open
        /\ open' = TRUE
        /\ UNCHANGED <<queue, run, ended>>

Close == /\ open
         /\ \A w \in Workers : run[w] = None
         /\ open' = FALSE
         /\ UNCHANGED <<queue, run, ended>>

Next == \/ \E j \in Jobs : Submit(j)
        \/ \E w \in Workers : Take(w) \/ End(w)
        \/ Open
        \/ Close

Spec == Init /\ [][Next]_vars
=============================================================================
