----------------------------- MODULE Scheduler -----------------------------
(***************************************************************************)
(* src/scheduler: tasks kept by tag in m_taskMap, one libevent timer per   *)
(* task, an event-loop thread that turns an expired timer into a job, and  *)
(* a one-thread Executor that calls Task::run() for each job.              *)
(*                                                                         *)
(* m_mutex is recursive and held for the whole of every map operation, so  *)
(* these are single actions.  addTask() is not: it takes the lock only in  *)
(* addToMap() and arms the timer after releasing it.  m_invoked and the    *)
(* user's callback are outside the lock too.  Client actions may be taken  *)
(* by any thread, a running callback included (except shutdown(), which    *)
(* would join its own thread).  Delays are abstracted: an armed timer may  *)
(* expire at any moment the loop runs.  Clients keep their TaskPtrs, so    *)
(* no Task is destroyed.  Callbacks have no boost interruption points (the *)
(* Executor module models what these do).                                  *)
(***************************************************************************)
EXTENDS Naturals, Sequences, SequencesExt

CONSTANTS Tasks, Tags, None,
          Tag,        \* [Tasks -> Tags], m_tag
          Periodic,   \* the PeriodicTasks; the others are OneTimeTasks
          MaxOps,     \* bound: client calls that touch tasks
          MaxStarts   \* bound: calls of start()

ASSUME TagAssumption == Tag \in [Tasks -> Tags]
ASSUME PeriodicAssumption == Periodic \subseteq Tasks
ASSUME NoneAssumption == None \notin Tasks
ASSUME BoundAssumption == MaxOps \in Nat /\ MaxStarts \in Nat

VARIABLES taskMap,   \* m_taskMap
          armed,     \* tasks whose timer is pending in libevent
          invoked,   \* m_invoked of each task
          adding,    \* tasks whose addTask() is between addToMap() and evtimer_add
          jobs,      \* the executor's queue of Task::run() calls
          worker,    \* the executor thread: which task it runs, how far
          exec,      \* the executor: closed, open, or inside shutdown()
          running,   \* m_running
          loop,      \* the event-loop thread
          brk,       \* libevent's event_break
          owner,     \* where the owner is inside shutdown()
          ops, starts,
          raced,     \* history: tasks deleted while adding
          fresh      \* history: task was reset since its callback last began

vars == <<taskMap, armed, invoked, adding, jobs, worker, exec, running, loop,
          brk, owner, ops, starts, raced, fresh>>

taskVars  == <<taskMap, armed, invoked, adding, jobs, raced, fresh>>
threadVars == <<exec, running, loop, brk, owner, starts>>

Idle == [task |-> None, at |-> "idle"]

Init == /\ taskMap = [g \in Tags |-> None]
        /\ armed = {} /\ adding = {} /\ raced = {}
        /\ invoked = [t \in Tasks |-> FALSE]
        /\ fresh = [t \in Tasks |-> TRUE]
        /\ jobs = <<>>
        /\ worker = Idle
        /\ exec = "closed"
        /\ running = FALSE
        /\ loop = "none" /\ brk = FALSE
        /\ owner = "idle"
        /\ ops = 0 /\ starts = 0

-----------------------------------------------------------------------------
(* Client operations on tasks. *)

Client == ops < MaxOps /\ ops' = ops + 1

\* Task::reset(), then evtimer_add (which moves a pending timer).
ResetAndArm(t) == /\ invoked' = [invoked EXCEPT ![t] = FALSE]
                  /\ fresh' = [fresh EXCEPT ![t] = TRUE]
                  /\ armed' = armed \cup {t}

\* addTask(), first half: addToMap().  With the tag taken, it returns false.
AddToMap(t) == /\ Client
               /\ t \notin adding
               /\ taskMap[Tag[t]] = None
               /\ taskMap' = [taskMap EXCEPT ![Tag[t]] = t]
               /\ adding' = adding \cup {t}
               /\ UNCHANGED <<armed, invoked, jobs, worker, raced, fresh, threadVars>>

\* addTask(), second half: reset() and evtimer_add, without the lock.
ArmAdded(t) == /\ t \in adding
               /\ adding' = adding \ {t}
               /\ ResetAndArm(t)
               /\ UNCHANGED <<taskMap, jobs, worker, ops, raced, threadVars>>

\* What deleteTask() does for every tag of G, under the lock.
Unregister(G) == LET gone == {taskMap[g] : g \in G} IN
             /\ armed' = armed \ gone
             /\ taskMap' = [g \in Tags |-> IF g \in G THEN None ELSE taskMap[g]]
             /\ raced' = raced \cup (adding \cap gone)

DeleteTask(g) == /\ Client
                 /\ Unregister({g})
                 /\ UNCHANGED <<invoked, adding, jobs, worker, fresh, threadVars>>

DeleteMatching(M) == /\ Client
                     /\ Unregister({g \in Tags : taskMap[g] \in M})
                     /\ UNCHANGED <<invoked, adding, jobs, worker, fresh, threadVars>>

\* rescheduleTask(tag) and rescheduleTaskAt(tag, time): no effect without a task.
RescheduleFound(g) == IF taskMap[g] = None
                        THEN UNCHANGED <<invoked, fresh, armed>>
                        ELSE ResetAndArm(taskMap[g])

RescheduleTag(g) == /\ Client
                    /\ RescheduleFound(g)
                    /\ UNCHANGED <<taskMap, adding, jobs, worker, raced, threadVars>>

\* rescheduleTask(TaskPtr): the task registered under the tag, which need not
\* be t, is re-armed; without one, t is added (all under the lock).
RescheduleTask(t) ==
  /\ Client
  /\ IF taskMap[Tag[t]] = None
       THEN taskMap' = [taskMap EXCEPT ![Tag[t]] = t] /\ ResetAndArm(t)
       ELSE RescheduleFound(Tag[t]) /\ UNCHANGED taskMap
  /\ UNCHANGED <<adding, jobs, worker, raced, threadVars>>

\* rescheduleTaskAt(TaskPtr, time): as above, but a task that is added is not reset.
RescheduleTaskAt(t) ==
  /\ Client
  /\ IF taskMap[Tag[t]] = None
       THEN /\ taskMap' = [taskMap EXCEPT ![Tag[t]] = t]
            /\ armed' = armed \cup {t}
            /\ UNCHANGED <<invoked, fresh>>
       ELSE RescheduleFound(Tag[t]) /\ UNCHANGED taskMap
  /\ UNCHANGED <<adding, jobs, worker, raced, threadVars>>

-----------------------------------------------------------------------------
(* The event-loop thread. *)

\* event_base_loop() forgets an earlier loopbreak as it starts.
EnterLoop == /\ loop = "entering"
             /\ loop' = "looping" /\ brk' = FALSE
             /\ UNCHANGED <<taskVars, worker, exec, running, owner, ops, starts>>

\* A timer expires: eventCallback, Task::execute(), Executor::execute().
Fire(t) == /\ loop = "looping"
           /\ t \in armed
           /\ armed' = armed \ {t}
           /\ jobs' = Append(jobs, t)
           /\ UNCHANGED <<taskMap, invoked, adding, worker, ops, raced, fresh, threadVars>>

LeaveLoop == /\ loop = "looping" /\ brk
             /\ loop' = "left"
             /\ UNCHANGED <<taskVars, worker, exec, running, brk, owner, ops, starts>>

CheckRunning == /\ loop = "left"
                /\ loop' = IF running THEN "entering" ELSE "done"
                /\ UNCHANGED <<taskVars, worker, exec, running, brk, owner, ops, starts>>

-----------------------------------------------------------------------------
(* The executor's thread: OneTimeTask::run() and PeriodicTask::run(). *)

At(l) == worker' = [worker EXCEPT !.at = l]

\* A worker that finishes a job inside Executor::shutdown() ends.
Finished == worker' = [Idle EXCEPT !.at = IF exec = "stopping" THEN "gone" ELSE "idle"]

\* The job is taken; run() does nothing for a task already invoked.
BeginRun == LET t == Head(jobs) IN
  /\ exec \in {"open", "stopping"} /\ worker = Idle /\ jobs # <<>>
  /\ jobs' = Tail(jobs)
  /\ IF invoked[t]
       THEN Finished /\ UNCHANGED <<invoked, fresh>>
       ELSE /\ worker' = [task |-> t, at |-> "callback"]
            /\ invoked' = [invoked EXCEPT ![t] = t \in Periodic]
            /\ fresh' = [fresh EXCEPT ![t] = FALSE]
  /\ UNCHANGED <<taskMap, armed, adding, ops, raced, threadVars>>

\* Mutant: a one-time task does not remember that it ran.
EndOneTime_NotMarked ==
  /\ worker.at = "callback" /\ worker.task \notin Periodic
  /\ At("deregister")
  /\ UNCHANGED <<taskMap, armed, invoked, adding, jobs, ops, raced, fresh, threadVars>>

\* The callback of a one-time task returns: m_invoked = true ...
EndOneTime == /\ worker.at = "callback" /\ worker.task \notin Periodic
              /\ invoked' = [invoked EXCEPT ![worker.task] = TRUE]
              /\ At("deregister")
              /\ UNCHANGED <<taskMap, armed, adding, jobs, ops, raced, fresh, threadVars>>

\* ... and deregisterSelf() deletes whatever task has the tag.
DeregisterSelf == /\ worker.at = "deregister"
                  /\ Unregister({Tag[worker.task]})
                  /\ Finished
                  /\ UNCHANGED <<invoked, adding, jobs, ops, fresh, threadVars>>

\* The callback of a periodic task returns: m_invoked is false again if the
\* task was rescheduled meanwhile, and run() then leaves it alone.
EndPeriodic == /\ worker.at = "callback" /\ worker.task \in Periodic
               /\ IF invoked[worker.task] THEN At("reschedule") ELSE Finished
               /\ UNCHANGED <<taskVars, ops, threadVars>>

\* Mutant: the next interval is computed but the timer is not armed.
RescheduleSelf_NoTimer ==
  LET t == taskMap[Tag[worker.task]] IN
  /\ worker.at = "reschedule"
  /\ IF t = None
       THEN UNCHANGED <<invoked, fresh>>
       ELSE /\ invoked' = [invoked EXCEPT ![t] = FALSE]
            /\ fresh' = [fresh EXCEPT ![t] = TRUE]
  /\ Finished
  /\ UNCHANGED <<taskMap, armed, adding, jobs, ops, raced, threadVars>>

RescheduleSelf == /\ worker.at = "reschedule"
                  /\ RescheduleFound(Tag[worker.task])
                  /\ Finished
                  /\ UNCHANGED <<taskMap, adding, jobs, ops, raced, threadVars>>

-----------------------------------------------------------------------------
(* The owner: start() and shutdown(). *)

\* Mutant: the executor is not started.
Start_NoExecutor == /\ owner = "idle" /\ ~running /\ starts < MaxStarts
                    /\ starts' = starts + 1
                    /\ running' = TRUE
                    /\ loop' = "entering"
                    /\ UNCHANGED <<taskVars, exec, worker, brk, owner, ops>>

Start == /\ owner = "idle" /\ ~running /\ starts < MaxStarts
         /\ starts' = starts + 1
         /\ running' = TRUE
         /\ loop' = "entering"
         /\ exec' = "open" /\ worker' = Idle
         /\ UNCHANGED <<taskVars, brk, owner, ops>>

Shutdown == /\ owner = "idle" /\ running
            /\ running' = FALSE
            /\ owner' = "breaking"
            /\ UNCHANGED <<taskVars, worker, exec, loop, brk, ops, starts>>

\* event_base_loopbreak(), then Executor::shutdown() begins.
LoopBreak == /\ owner = "breaking"
             /\ brk' = TRUE
             /\ owner' = "stopping" /\ exec' = "stopping"
             /\ UNCHANGED <<taskVars, worker, running, loop, ops, starts>>

ExecutorStopped == /\ owner = "stopping"
                   /\ worker.at \in {"idle", "gone"}
                   /\ exec' = "closed" /\ owner' = "joining"
                   /\ UNCHANGED <<taskVars, worker, running, loop, brk, ops, starts>>

JoinLoop == /\ owner = "joining" /\ loop = "done"
            /\ owner' = "idle"
            /\ UNCHANGED <<taskVars, worker, exec, running, loop, brk, ops, starts>>

-----------------------------------------------------------------------------
LoopStep == EnterLoop \/ LeaveLoop \/ CheckRunning

WorkerStep == BeginRun \/ EndOneTime \/ DeregisterSelf \/ EndPeriodic \/ RescheduleSelf

OwnerStep == LoopBreak \/ ExecutorStopped \/ JoinLoop

Next == \/ \E t \in Tasks : AddToMap(t) \/ ArmAdded(t) \/ RescheduleTask(t)
                            \/ RescheduleTaskAt(t) \/ Fire(t)
        \/ \E g \in Tags : DeleteTask(g) \/ RescheduleTag(g)
        \/ \E M \in SUBSET Tasks : DeleteMatching(M)
        \/ Start \/ Shutdown
        \/ LoopStep \/ WorkerStep \/ OwnerStep

Spec == Init /\ [][Next]_vars

\* Threads that can run do; callbacks return; an armed timer expires.
Fairness == /\ WF_vars(LoopStep) /\ WF_vars(WorkerStep) /\ WF_vars(OwnerStep)
            /\ \A t \in Tasks : WF_vars(ArmAdded(t)) /\ WF_vars(Fire(t))

SpecFair == Spec /\ Fairness

-----------------------------------------------------------------------------
(* Properties. *)

Registered(t) == taskMap[Tag[t]] = t

\* A pending timer belongs to a registered task: no path through delete,
\* reschedule, deregister or re-add leaves a timer ticking for a task the
\* scheduler no longer knows, except a deletion inside addTask()'s unlocked gap.
NoOrphanTimer == \A t \in armed : Registered(t) \/ t \in raced

\* A registered task that has not been invoked is on its way to be: its timer
\* is armed or about to be, its job is queued, or it is being run.  Nothing the
\* client interleaves with run() makes the scheduler forget such a task.
NotForgotten ==
  \A t \in Tasks : Registered(t) /\ ~invoked[t] =>
    t \in armed \/ t \in adding \/ Contains(jobs, t) \/ worker.task = t

\* Timers follow the task map: none is left behind and none is missing, however
\* the client's calls interleave with the loop and with run().
TimersFollowMap == NoOrphanTimer /\ NotForgotten

\* After a callback began, the task cannot begin again until some reset():
\* a timer that fires twice, or a rescheduleTaskAt() that re-adds a task
\* without resetting it, runs nothing.
RunsOncePerReset ==
  \A t \in Tasks : ~fresh[t] => invoked[t] \/ worker.task = t

\* While the scheduler stays up, a registered task that is not marked invoked is
\* run, invoked or removed: timers fire, the loop does not exit, run() is called.
RegisteredTaskRuns ==
  \A t \in Tasks : (running /\ Registered(t) /\ ~invoked[t])
                     ~> (worker.task = t \/ ~Registered(t) \/ ~running \/ invoked[t])

=============================================================================
