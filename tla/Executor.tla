------------------------------ MODULE Executor ------------------------------
(***************************************************************************)
(* src/executor/executor.cc: a fixed pool of boost threads serving one     *)
(* FIFO queue.  m_mutex protects the queue and m_cond parks idle workers;  *)
(* every critical section is one action, cut where cond.wait releases the  *)
(* lock.  m_needStop is volatile and read without the lock.                *)
(*                                                                         *)
(* One owner thread calls start() and shutdown() (the destructor calls     *)
(* shutdown() too); any thread, workers included, may call execute().      *)
(* Boost's interruption is part of the model: interrupt_all() flags each   *)
(* worker in turn and broadcasts on the condition the worker is parked on, *)
(* and cond.wait throws thread_interrupted (ending the worker) when it     *)
(* finds the flag set, on entry or after a wake-up.                        *)
(***************************************************************************)
EXTENDS Naturals, Sequences, FiniteSets, SequencesExt

CONSTANTS Jobs,       \* job identities; a job is submitted at most once
          PoolSize,   \* m_poolSize
          MaxStarts,  \* bound: how often the owner calls start()
          None        \* not a job

ASSUME PoolAssumption == PoolSize \in Nat \ {0}
ASSUME BoundAssumption == MaxStarts \in Nat
ASSUME NoneAssumption == None \notin Jobs

Workers == 1..PoolSize

VARIABLES needStop,   \* m_needStop
          queue,      \* m_queue
          pc,         \* where each worker of the current generation is
          intr,       \* boost's interrupt_requested flag of each worker
          job,        \* the job a worker is executing
          owner,      \* where the owner is inside start() or shutdown()
          made,       \* the owner's loop index over the workers
          starts,     \* start() calls so far; the group holds starts * PoolSize threads
          submitted,  \* history: jobs in the order execute() accepted them
          taken,      \* history: jobs in the order workers took them
          ended,      \* history: jobs whose execution returned
          cut         \* history: jobs left at an interruption point

vars == <<needStop, queue, pc, intr, job, owner, made, starts,
          submitted, taken, ended, cut>>

history == <<submitted, taken, ended, cut>>

Init == /\ needStop = TRUE
        /\ queue = <<>>
        /\ pc = [w \in Workers |-> "none"]
        /\ intr = [w \in Workers |-> FALSE]
        /\ job = [w \in Workers |-> None]
        /\ owner = "idle"
        /\ made = 0
        /\ starts = 0
        /\ submitted = <<>> /\ taken = <<>> /\ ended = {} /\ cut = {}

-----------------------------------------------------------------------------
(* The owner: start() and shutdown(). *)

Start == /\ owner = "idle" /\ needStop
         /\ starts < MaxStarts
         /\ needStop' = FALSE
         /\ owner' = "creating" /\ made' = 0
         /\ starts' = starts + 1
         /\ UNCHANGED <<queue, pc, intr, job, history>>

CreateThread ==
  /\ owner = "creating"
  /\ made' = made + 1
  /\ pc' = [pc EXCEPT ![made + 1] = "check"]
  /\ intr' = [intr EXCEPT ![made + 1] = FALSE]
  /\ owner' = IF made + 1 = PoolSize THEN "idle" ELSE "creating"
  /\ UNCHANGED <<needStop, queue, job, starts, history>>

\* Mutant: shutdown() drops the jobs still queued.
Shutdown_Clears == /\ owner = "idle" /\ ~needStop
                   /\ needStop' = TRUE
                   /\ owner' = "interrupting" /\ made' = 0
                   /\ queue' = <<>>
                   /\ UNCHANGED <<pc, intr, job, starts, history>>

Shutdown == /\ owner = "idle" /\ ~needStop
            /\ needStop' = TRUE
            /\ owner' = "interrupting" /\ made' = 0
            /\ UNCHANGED <<queue, pc, intr, job, starts, history>>

\* Mutant: the flag is set but the parked worker is not woken up.
InterruptThread_FlagOnly ==
  /\ owner = "interrupting"
  /\ made' = made + 1
  /\ intr' = [intr EXCEPT ![made + 1] = TRUE]
  /\ owner' = IF made + 1 = PoolSize THEN "joining" ELSE "interrupting"
  /\ UNCHANGED <<needStop, queue, pc, job, starts, history>>

\* thread::interrupt() on a parked worker broadcasts on the shared condition.
InterruptThread ==
  LET w == made + 1 IN
  /\ owner = "interrupting"
  /\ made' = w
  /\ intr' = [intr EXCEPT ![w] = TRUE]
  /\ pc' = IF pc[w] = "parked"
             THEN [v \in Workers |-> IF pc[v] = "parked" THEN "woken" ELSE pc[v]]
             ELSE pc
  /\ owner' = IF w = PoolSize THEN "joining" ELSE "interrupting"
  /\ UNCHANGED <<needStop, queue, job, starts, history>>

\* Mutant: shutdown() returns without joining.
JoinAll_NoWait == /\ owner = "joining"
                  /\ owner' = "idle"
                  /\ UNCHANGED <<needStop, queue, pc, intr, job, made, starts, history>>

JoinAll == /\ owner = "joining"
           /\ \A w \in Workers : pc[w] = "done"
           /\ owner' = "idle"
           /\ UNCHANGED <<needStop, queue, pc, intr, job, made, starts, history>>

-----------------------------------------------------------------------------
(* Clients: execute(). *)

\* notify_one: one parked worker wakes up, if there is one.
NotifyOne ==
  \/ \E w \in Workers : pc[w] = "parked" /\ pc' = [pc EXCEPT ![w] = "woken"]
  \/ (\A w \in Workers : pc[w] # "parked") /\ pc' = pc

\* Mutant: the queue is tested for emptiness after push_back.
Execute_LateTest(j) ==
  /\ ~ Contains(submitted, j)
  /\ queue' = Append(queue, j)
  /\ submitted' = Append(submitted, j)
  /\ UNCHANGED <<needStop, pc, intr, job, owner, made, starts, taken, ended, cut>>

Execute(j) ==
  /\ ~ Contains(submitted, j)
  /\ queue' = Append(queue, j)
  /\ submitted' = Append(submitted, j)
  /\ IF queue = <<>> THEN NotifyOne ELSE pc' = pc
  /\ UNCHANGED <<needStop, intr, job, owner, made, starts, taken, ended, cut>>

-----------------------------------------------------------------------------
(* A worker: run() and waitForJob(). *)

Goto(w, l) == pc' = [pc EXCEPT ![w] = l]

CheckStop(w) == /\ pc[w] = "check"
                /\ Goto(w, IF needStop THEN "done" ELSE "enter")
                /\ UNCHANGED <<needStop, queue, intr, job, owner, made, starts, history>>

\* Mutant: waitForJob() serves the queue from its back.
TakeJob_Back(w) == /\ queue # <<>>
                   /\ pc[w] \in {"enter", "woken"}
                   /\ job' = [job EXCEPT ![w] = Last(queue)]
                   /\ queue' = Front(queue)
                   /\ taken' = Append(taken, Last(queue))
                   /\ Goto(w, "job")
                   /\ UNCHANGED <<needStop, intr, owner, made, starts, submitted, ended, cut>>

TakeJob(w) == /\ queue # <<>>
              /\ \/ pc[w] = "enter"
                 \/ pc[w] = "woken" /\ ~ intr[w]
              /\ job' = [job EXCEPT ![w] = Head(queue)]
              /\ queue' = Tail(queue)
              /\ taken' = Append(taken, Head(queue))
              /\ Goto(w, "job")
              /\ UNCHANGED <<needStop, intr, owner, made, starts, submitted, ended, cut>>

Park(w) == /\ pc[w] \in {"enter", "woken"}
           /\ queue = <<>>
           /\ ~ intr[w]
           /\ Goto(w, "parked")
           /\ UNCHANGED <<needStop, queue, intr, job, owner, made, starts, history>>

\* cond.wait throws thread_interrupted: on entry only if the queue was empty,
\* after a wake-up whatever the queue holds.
Interrupted(w) == /\ intr[w]
                  /\ \/ pc[w] = "enter" /\ queue = <<>>
                     \/ pc[w] = "woken"
                  /\ Goto(w, "done")
                  /\ UNCHANGED <<needStop, queue, intr, job, owner, made, starts, history>>

\* Condition variables may wake up without a notification.
SpuriousWake(w) == /\ pc[w] = "parked"
                   /\ Goto(w, "woken")
                   /\ UNCHANGED <<needStop, queue, intr, job, owner, made, starts, history>>

FinishJob(w) == /\ pc[w] = "job"
                /\ ended' = ended \cup {job[w]}
                /\ job' = [job EXCEPT ![w] = None]
                /\ Goto(w, "check")
                /\ UNCHANGED <<needStop, queue, intr, owner, made, starts,
                               submitted, taken, cut>>

\* The job itself reached one of boost's interruption points.
CutJob(w) == /\ pc[w] = "job" /\ intr[w]
             /\ cut' = cut \cup {job[w]}
             /\ job' = [job EXCEPT ![w] = None]
             /\ Goto(w, "done")
             /\ UNCHANGED <<needStop, queue, intr, owner, made, starts,
                            submitted, taken, ended>>

-----------------------------------------------------------------------------
OwnerStep == CreateThread \/ InterruptThread \/ JoinAll

ServeStep(w) == CheckStop(w) \/ TakeJob(w) \/ Park(w) \/ Interrupted(w)

JobStep(w) == FinishJob(w) \/ CutJob(w)

Next == \/ Start \/ Shutdown \/ OwnerStep
        \/ \E j \in Jobs : Execute(j)
        \/ \E w \in Workers : ServeStep(w) \/ SpuriousWake(w) \/ JobStep(w)

Spec == Init /\ [][Next]_vars

\* The OS runs every runnable thread, and an owner inside start() or
\* shutdown() goes on.  Nothing here says that a job ends.
ThreadFairness == /\ WF_vars(OwnerStep)
                  /\ \A w \in Workers : WF_vars(ServeStep(w))

SpecLongJobs == Spec /\ ThreadFairness

\* Every job returns (or is cut).
SpecFair == Spec /\ ThreadFairness /\ \A w \in Workers : WF_vars(JobStep(w))

-----------------------------------------------------------------------------
(* Properties. *)

Running == {w \in Workers : pc[w] = "job"}

TypeOK ==
  /\ needStop \in BOOLEAN
  /\ queue \in Seq(Jobs)
  /\ pc \in [Workers -> {"none", "check", "enter", "parked", "woken", "job", "done"}]
  /\ intr \in [Workers -> BOOLEAN]
  /\ job \in [Workers -> Jobs \cup {None}]
  /\ owner \in {"idle", "creating", "interrupting", "joining"}
  /\ made \in 0..PoolSize
  /\ starts \in 0..MaxStarts
  /\ submitted \in Seq(Jobs) /\ taken \in Seq(Jobs)
  /\ ended \in SUBSET Jobs /\ cut \in SUBSET Jobs

\* "The policy is FIFO. No cancellation of submitted tasks" (executor.h:27):
\* across interleaved execute(), wake-ups, shutdown and restart, the jobs taken
\* followed by the jobs still queued are the jobs accepted, in that order.
Fifo == submitted = taken \o queue

\* execute() notifies only when the queue was empty.  That is enough to keep
\* the pool from going to sleep on work: while it is up and the queue holds a
\* job, some worker is on its way to the queue or will come back to it.
NoLostWakeup ==
  ~needStop /\ queue # <<>> /\ owner = "idle"
    => \E w \in Workers : pc[w] \in {"check", "enter", "woken", "job"}

\* Once shutdown() has returned (and before start()) no worker exists that could
\* take or be executing a job, so what the jobs refer to may be destroyed.
QuietWhenStopped ==
  needStop /\ owner = "idle" => \A w \in Workers : pc[w] \in {"none", "done"}

\* "execute the job immediately or sometime in the future" (executor.h:39):
\* when jobs return, every accepted job is taken unless the pool is stopped.
EveryJobTaken ==
  \A j \in Jobs : Contains(submitted, j) ~> (Contains(taken, j) \/ needStop)

\* shutdown() returns: no worker stays parked behind the interruption.
ShutdownReturns == (owner = "interrupting") ~> (owner = "idle")

\* The pool as its callers see it: closed from the return of shutdown() on.
Pool == INSTANCE JobPool WITH
          run   <- job,
          ended <- ended \cup cut,
          open  <- ~(needStop /\ owner = "idle")

\* The pool implements its contract, JobPool: FIFO hand-over, nothing taken
\* twice, nothing running once shutdown() has returned.
ImplementsPool == Pool!Spec
=============================================================================
