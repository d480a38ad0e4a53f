-------------------------- MODULE SchedulerProofs --------------------------
(***************************************************************************)
(* The scheduler for every set of tasks and tags, any number of client     *)
(* calls and any number of restarts.  SchedInv is the inductive invariant: *)
(* the map files a task under its own tag (MapByTag), the executor's       *)
(* thread is quiet while the executor is closed (Phases), a task inside    *)
(* addTask() is registered or was deleted there (AddingIsKnown), and what  *)
(* run() has still to do leaves its task marked or waiting (RunIsMarked,   *)
(* RunIsAwaited).                                                          *)
(***************************************************************************)
EXTENDS Scheduler, TLAPS

TypeOK ==
  /\ taskMap \in [Tags -> Tasks \cup {None}]
  /\ armed \in SUBSET Tasks /\ adding \in SUBSET Tasks /\ raced \in SUBSET Tasks
  /\ invoked \in [Tasks -> BOOLEAN] /\ fresh \in [Tasks -> BOOLEAN]
  /\ jobs \in Seq(Tasks)
  /\ worker \in [task : Tasks \cup {None},
                 at : {"idle", "callback", "deregister", "reschedule", "gone"}]
  /\ exec \in {"closed", "open", "stopping"}
  /\ loop \in {"none", "entering", "looping", "left", "done"}
  /\ owner \in {"idle", "breaking", "stopping", "joining"}

MapByTag == \A g \in Tags : taskMap[g] # None => Tag[taskMap[g]] = g

\* The executor is open exactly while the scheduler runs, and its thread holds a
\* task only while it is inside run().
Phases ==
  /\ (worker.task = None) <=> worker.at \in {"idle", "gone"}
  /\ running => owner = "idle" /\ exec = "open"
  /\ ~running /\ owner = "idle" => exec = "closed"
  /\ owner = "joining" => exec = "closed"
  /\ exec = "closed" => worker.task = None

AddingIsKnown == \A t \in adding : Registered(t) \/ t \in raced

\* A timer, an addTask() or a queued job will lead to another run() of t.
Awaited(t) == t \in armed \/ t \in adding \/ Contains(jobs, t)

\* Once run() has marked its task, the mark goes only by a reset().
RunIsMarked ==
  (worker.at \in {"deregister", "reschedule"} \/ (worker.at = "callback" /\ worker.task \in Periodic))
    => (invoked[worker.task] \/ fresh[worker.task])

\* A periodic task that is reset during its callback is on its way to the next
\* one, because run() will not reschedule it.
RunIsAwaited ==
  worker.at = "callback" /\ worker.task \in Periodic =>
    (Registered(worker.task) /\ ~invoked[worker.task] => Awaited(worker.task))

SchedInv == /\ TypeOK /\ MapByTag /\ Phases /\ AddingIsKnown /\ RunIsMarked /\ RunIsAwaited
            /\ TimersFollowMap /\ RunsOncePerReset

-----------------------------------------------------------------------------
(* The queue of jobs. *)

LEMMA ContainsAppend ==
  ASSUME NEW S, NEW s \in Seq(S), NEW x \in S, NEW e
  PROVE  Contains(Append(s, x), e) <=> Contains(s, e) \/ e = x
<1>1. Contains(s, e) => Contains(Append(s, x), e)
  BY DEF Contains
<1>2. e = x => Contains(Append(s, x), e)
  <2>1. Len(Append(s, x)) \in 1..Len(Append(s, x)) /\ Append(s, x)[Len(Append(s, x))] = x
    OBVIOUS
  <2> QED
    BY <2>1 DEF Contains
<1>3. Contains(Append(s, x), e) => Contains(s, e) \/ e = x
  BY DEF Contains
<1> QED
  BY <1>1, <1>2, <1>3

LEMMA ContainsTail ==
  ASSUME NEW S, NEW s \in Seq(S), s # <<>>, NEW e, Contains(s, e), e # Head(s)
  PROVE  Contains(Tail(s), e)
<1>1. PICK i \in 1..Len(s) : s[i] = e
  BY DEF Contains
<1>2. i - 1 \in 1..Len(Tail(s)) /\ Tail(s)[i - 1] = e
  BY <1>1
<1> QED
  BY <1>2 DEF Contains

-----------------------------------------------------------------------------
(* The inductive step, one lemma per part of the invariant. *)

LEMMA SchedInit == Init => SchedInv
<1> SUFFICES ASSUME Init PROVE SchedInv
  OBVIOUS
<1> USE TagAssumption, NoneAssumption DEF Init, Idle
<1>1. TypeOK
  BY DEF TypeOK
<1>2. MapByTag /\ AddingIsKnown /\ RunIsMarked /\ RunIsAwaited
  BY DEF MapByTag, AddingIsKnown, RunIsMarked, RunIsAwaited
<1>3. Phases
  BY DEF Phases
<1>4. TimersFollowMap /\ RunsOncePerReset
  BY DEF TimersFollowMap, NoOrphanTimer, NotForgotten, RunsOncePerReset, Registered
<1> QED
  BY <1>1, <1>2, <1>3, <1>4 DEF SchedInv

\* What a reset() with the timer armed does to the tasks, pointwise.
WasReset(u) ==
  /\ armed' = armed \cup {u}
  /\ ~invoked'[u] /\ fresh'[u]
  /\ \A t \in Tasks \ {u} : invoked'[t] = invoked[t] /\ fresh'[t] = fresh[t]

LEMMA ResetEffect ==
  ASSUME TypeOK, NEW u \in Tasks, ResetAndArm(u)
  PROVE  /\ invoked' \in [Tasks -> BOOLEAN] /\ fresh' \in [Tasks -> BOOLEAN]
         /\ armed' \in SUBSET Tasks
         /\ WasReset(u)
  BY DEF TypeOK, ResetAndArm, WasReset

\* rescheduleTask of a tag resets the task registered there, if there is one.
LEMMA FoundEffect ==
  ASSUME TypeOK, NEW g \in Tags, RescheduleFound(g)
  PROVE  /\ invoked' \in [Tasks -> BOOLEAN] /\ fresh' \in [Tasks -> BOOLEAN]
         /\ armed' \in SUBSET Tasks
         /\ taskMap[g] = None => UNCHANGED <<invoked, fresh, armed>>
         /\ taskMap[g] # None => taskMap[g] \in Tasks /\ WasReset(taskMap[g])
<1>1. CASE taskMap[g] = None
  BY <1>1 DEF RescheduleFound, TypeOK
<1>2. CASE taskMap[g] # None
  <2>1. taskMap[g] \in Tasks /\ ResetAndArm(taskMap[g])
    BY <1>2 DEF RescheduleFound, TypeOK
  <2> QED
    BY <1>2, <2>1, ResetEffect
<1> QED
  BY <1>1, <1>2

LEMMA TypeStep == TypeOK /\ Phases /\ [Next]_vars => TypeOK'
<1> SUFFICES ASSUME TypeOK, Phases, [Next]_vars PROVE TypeOK'
  OBVIOUS
<1> USE TagAssumption, NoneAssumption DEF TypeOK, taskVars, threadVars
<1>1. ASSUME NEW t \in Tasks, AddToMap(t) PROVE TypeOK'
  BY <1>1 DEF AddToMap
<1>2. ASSUME NEW t \in Tasks, ArmAdded(t) PROVE TypeOK'
  BY <1>2 DEF ArmAdded, ResetAndArm
<1>3. ASSUME NEW t \in Tasks, RescheduleTask(t) PROVE TypeOK'
  <2>1. invoked' \in [Tasks -> BOOLEAN] /\ fresh' \in [Tasks -> BOOLEAN] /\ armed' \in SUBSET Tasks
    BY <1>3, ResetEffect, FoundEffect DEF RescheduleTask
  <2> QED
    BY <1>3, <2>1 DEF RescheduleTask
<1>4. ASSUME NEW t \in Tasks, RescheduleTaskAt(t) PROVE TypeOK'
  <2>1. invoked' \in [Tasks -> BOOLEAN] /\ fresh' \in [Tasks -> BOOLEAN] /\ armed' \in SUBSET Tasks
    BY <1>4, FoundEffect DEF RescheduleTaskAt
  <2> QED
    BY <1>4, <2>1 DEF RescheduleTaskAt
<1>5. ASSUME NEW t \in Tasks, Fire(t) PROVE TypeOK'
  BY <1>5 DEF Fire
<1>6. ASSUME NEW g \in Tags, DeleteTask(g) PROVE TypeOK'
  BY <1>6 DEF DeleteTask, Unregister
<1>7. ASSUME NEW g \in Tags, RescheduleTag(g) PROVE TypeOK'
  BY <1>7, FoundEffect DEF RescheduleTag
<1>8. ASSUME NEW M \in SUBSET Tasks, DeleteMatching(M) PROVE TypeOK'
  BY <1>8 DEF DeleteMatching, Unregister
<1>9. CASE Start \/ Shutdown \/ LoopBreak \/ ExecutorStopped \/ JoinLoop
  BY <1>9 DEF Start, Shutdown, LoopBreak, ExecutorStopped, JoinLoop, Idle
<1>10. CASE EnterLoop \/ LeaveLoop \/ CheckRunning
  BY <1>10 DEF EnterLoop, LeaveLoop, CheckRunning
<1>11. CASE BeginRun
  <2>1. Head(jobs) \in Tasks /\ jobs' \in Seq(Tasks)
    BY <1>11 DEF BeginRun
  <2>2. worker' \in [task : Tasks \cup {None},
                     at : {"idle", "callback", "deregister", "reschedule", "gone"}]
    BY <1>11, <2>1 DEF BeginRun, Finished, Idle
  <2>3. invoked' \in [Tasks -> BOOLEAN] /\ fresh' \in [Tasks -> BOOLEAN]
    <3>1. (Head(jobs) \in Periodic) \in BOOLEAN
      OBVIOUS
    <3> QED
      BY <1>11, <2>1, <3>1 DEF BeginRun
  <2> QED
    BY <1>11, <2>1, <2>2, <2>3 DEF BeginRun
<1>12. CASE EndOneTime
  <2>1. worker.task \in Tasks
    BY <1>12 DEF EndOneTime, Phases
  <2> QED
    BY <1>12, <2>1 DEF EndOneTime, At
<1>13. CASE DeregisterSelf
  BY <1>13 DEF DeregisterSelf, Unregister, Finished, Idle
<1>14. CASE EndPeriodic
  BY <1>14 DEF EndPeriodic, At, Finished, Idle
<1>15. CASE RescheduleSelf
  <2>1. Tag[worker.task] \in Tags
    BY <1>15 DEF RescheduleSelf, Phases
  <2> QED
    BY <1>15, <2>1, FoundEffect DEF RescheduleSelf, Finished, Idle
<1>16. CASE UNCHANGED vars
  BY <1>16 DEF vars
<1> HIDE DEF TypeOK
<1> QED
  BY <1>1, <1>2, <1>3, <1>4, <1>5, <1>6, <1>7, <1>8, <1>9, <1>10, <1>11, <1>12, <1>13,
     <1>14, <1>15, <1>16 DEF Next, LoopStep, WorkerStep, OwnerStep

\* The executor's thread is inside run() only between start() and the end of
\* shutdown().
LEMMA PhasesStep == TypeOK /\ Phases /\ [Next]_vars => Phases'
<1> SUFFICES ASSUME TypeOK, Phases, [Next]_vars PROVE Phases'
  OBVIOUS
<1> USE TagAssumption, NoneAssumption DEF TypeOK, Phases, taskVars, threadVars
<1>1. CASE \E t \in Tasks : AddToMap(t) \/ ArmAdded(t) \/ RescheduleTask(t)
                            \/ RescheduleTaskAt(t) \/ Fire(t)
  BY <1>1 DEF AddToMap, ArmAdded, RescheduleTask, RescheduleTaskAt, Fire
<1>2. CASE \E g \in Tags : DeleteTask(g) \/ RescheduleTag(g)
  BY <1>2 DEF DeleteTask, RescheduleTag
<1>3. CASE \E M \in SUBSET Tasks : DeleteMatching(M)
  BY <1>3 DEF DeleteMatching
<1>4. CASE Start \/ Shutdown \/ LoopBreak \/ ExecutorStopped \/ JoinLoop
  BY <1>4 DEF Start, Shutdown, LoopBreak, ExecutorStopped, JoinLoop, Idle
<1>5. CASE EnterLoop \/ LeaveLoop \/ CheckRunning
  BY <1>5 DEF EnterLoop, LeaveLoop, CheckRunning
<1>6. CASE BeginRun
  <2>1. Head(jobs) \in Tasks
    BY <1>6 DEF BeginRun
  <2> QED
    BY <1>6, <2>1 DEF BeginRun, Finished, Idle
<1>7. CASE EndOneTime \/ EndPeriodic
  BY <1>7 DEF EndOneTime, EndPeriodic, At, Finished, Idle
<1>8. CASE DeregisterSelf \/ RescheduleSelf
  BY <1>8 DEF DeregisterSelf, RescheduleSelf, Finished, Idle
<1>9. CASE UNCHANGED vars
  BY <1>9 DEF vars
<1> HIDE DEF Phases, TypeOK
<1> QED
  BY <1>1, <1>2, <1>3, <1>4, <1>5, <1>6, <1>7, <1>8, <1>9 DEF Next, LoopStep, WorkerStep, OwnerStep

\* deleteTask of the tags in G, pointwise: a task goes with its registration.
WasUnregistered(G) ==
  /\ \A g \in Tags : taskMap'[g] = IF g \in G THEN None ELSE taskMap[g]
  /\ \A t \in Tasks : LET gone == Registered(t) /\ Tag[t] \in G IN
       /\ t \in armed' <=> t \in armed /\ ~gone
       /\ t \in raced' <=> t \in raced \/ (t \in adding /\ gone)

LEMMA UnregisterEffect ==
  ASSUME TypeOK, MapByTag, NEW G \in SUBSET Tags, Unregister(G)
  PROVE  WasUnregistered(G)
<1> USE TagAssumption, NoneAssumption
<1>1. \A t \in Tasks : t \in {taskMap[g] : g \in G} <=> Registered(t) /\ Tag[t] \in G
  <2> TAKE t \in Tasks
  <2>1. ASSUME NEW g \in G, taskMap[g] = t PROVE Registered(t) /\ Tag[t] \in G
    BY <2>1 DEF MapByTag, Registered
  <2> QED
    BY <2>1 DEF Registered
<1> QED
  BY <1>1 DEF Unregister, WasUnregistered, TypeOK

\* The map, the timers and the gap in addTask() stay in step.
MapPart == MapByTag /\ AddingIsKnown /\ NoOrphanTimer

LEMMA MapStep == TypeOK /\ Phases /\ MapPart /\ [Next]_vars => MapPart'
<1> SUFFICES ASSUME TypeOK, Phases, MapPart, [Next]_vars PROVE MapPart'
  OBVIOUS
<1> USE TagAssumption, NoneAssumption
        DEF MapPart, MapByTag, AddingIsKnown, NoOrphanTimer, Registered, taskVars, threadVars
<1>1. ASSUME NEW t \in Tasks, AddToMap(t) PROVE MapPart'
  BY <1>1 DEF AddToMap, TypeOK
<1>2. ASSUME NEW t \in Tasks, ArmAdded(t) PROVE MapPart'
  BY <1>2, ResetEffect DEF ArmAdded, TypeOK, WasReset
<1>3. ASSUME NEW g \in Tags, RescheduleFound(g), UNCHANGED <<taskMap, adding, raced>> PROVE MapPart'
  BY <1>3, FoundEffect DEF TypeOK, WasReset
<1>4. ASSUME NEW t \in Tasks, taskMap[Tag[t]] = None, taskMap' = [taskMap EXCEPT ![Tag[t]] = t],
             armed' = armed \cup {t}, UNCHANGED <<adding, raced>>
      PROVE  MapPart'
  BY <1>4 DEF TypeOK
<1>5. ASSUME NEW t \in Tasks, RescheduleTask(t) PROVE MapPart'
  <2>1. Tag[t] \in Tags
    OBVIOUS
  <2> QED
    BY <1>3, <1>4, <1>5, <2>1 DEF RescheduleTask, ResetAndArm
<1>6. ASSUME NEW t \in Tasks, RescheduleTaskAt(t) PROVE MapPart'
  <2>1. Tag[t] \in Tags
    OBVIOUS
  <2> QED
    BY <1>3, <1>4, <1>6, <2>1 DEF RescheduleTaskAt
<1>7. ASSUME NEW t \in Tasks, Fire(t) PROVE MapPart'
  BY <1>7 DEF Fire, TypeOK
<1>8. ASSUME NEW G \in SUBSET Tags, Unregister(G), UNCHANGED adding PROVE MapPart'
  <2>1. WasUnregistered(G) /\ armed' \subseteq armed
    BY <1>8, UnregisterEffect DEF Unregister
  <2> QED
    BY <1>8, <2>1 DEF WasUnregistered, TypeOK
<1>9. CASE \E g \in Tags : DeleteTask(g)
  BY <1>8, <1>9 DEF DeleteTask
<1>10. CASE \E g \in Tags : RescheduleTag(g)
  BY <1>3, <1>10 DEF RescheduleTag
<1>11. ASSUME NEW M \in SUBSET Tasks, DeleteMatching(M) PROVE MapPart'
  <2>1. {g \in Tags : taskMap[g] \in M} \in SUBSET Tags
    OBVIOUS
  <2> QED
    BY <1>8, <1>11, <2>1 DEF DeleteMatching
<1>12. CASE Start \/ Shutdown \/ LoopBreak \/ ExecutorStopped \/ JoinLoop
  BY <1>12 DEF Start, Shutdown, LoopBreak, ExecutorStopped, JoinLoop
<1>13. CASE EnterLoop \/ LeaveLoop \/ CheckRunning
  BY <1>13 DEF EnterLoop, LeaveLoop, CheckRunning
<1>14. CASE BeginRun \/ EndOneTime \/ EndPeriodic
  BY <1>14 DEF BeginRun, EndOneTime, EndPeriodic
<1>15. CASE DeregisterSelf
  <2>1. {Tag[worker.task]} \in SUBSET Tags
    BY <1>15 DEF DeregisterSelf, Phases, TypeOK
  <2> QED
    BY <1>8, <1>15, <2>1 DEF DeregisterSelf
<1>16. CASE RescheduleSelf
  <2>1. Tag[worker.task] \in Tags
    BY <1>16 DEF RescheduleSelf, Phases, TypeOK
  <2> QED
    BY <1>3, <1>16, <2>1 DEF RescheduleSelf
<1>17. CASE UNCHANGED vars
  BY <1>17 DEF vars
<1> HIDE DEF MapPart
<1> QED
  BY <1>1, <1>2, <1>5, <1>6, <1>7, <1>9, <1>10, <1>11, <1>12, <1>13, <1>14, <1>15, <1>16, <1>17
     DEF Next, LoopStep, WorkerStep, OwnerStep

\* The marks of run(): a reset() clears m_invoked and makes the task fresh in
\* one step, everything else that takes the mark leaves it to the worker.
RunPart == RunIsMarked /\ RunsOncePerReset

LEMMA RunStep == TypeOK /\ Phases /\ RunPart /\ [Next]_vars => RunPart'
<1> SUFFICES ASSUME TypeOK, Phases, RunPart, [Next]_vars PROVE RunPart'
  OBVIOUS
<1> USE TagAssumption, NoneAssumption, PeriodicAssumption
        DEF RunPart, RunIsMarked, RunsOncePerReset, taskVars, threadVars
<1>1. CASE UNCHANGED <<invoked, fresh, worker>>
  BY <1>1
<1>2. ASSUME NEW u \in Tasks, WasReset(u), UNCHANGED worker PROVE RunPart'
  <2>1. RunIsMarked'
    BY <1>2 DEF WasReset, TypeOK, Phases
  <2>2. RunsOncePerReset'
    BY <1>2 DEF WasReset, TypeOK
  <2> QED
    BY <2>1, <2>2
<1>3. ASSUME NEW g \in Tags, RescheduleFound(g), UNCHANGED worker PROVE RunPart'
  BY <1>1, <1>2, <1>3, FoundEffect
<1>4. ASSUME NEW t \in Tasks, ResetAndArm(t), UNCHANGED worker PROVE RunPart'
  BY <1>2, <1>4, ResetEffect
<1>5. ASSUME NEW t \in Tasks, AddToMap(t) \/ Fire(t) PROVE RunPart'
  BY <1>1, <1>5 DEF AddToMap, Fire
<1>6. ASSUME NEW t \in Tasks, ArmAdded(t) \/ RescheduleTask(t) \/ RescheduleTaskAt(t) PROVE RunPart'
  <2>1. Tag[t] \in Tags
    OBVIOUS
  <2> QED
    BY <1>1, <1>3, <1>4, <1>6, <2>1 DEF ArmAdded, RescheduleTask, RescheduleTaskAt
<1>7. CASE \E g \in Tags : DeleteTask(g) \/ RescheduleTag(g)
  BY <1>1, <1>3, <1>7 DEF DeleteTask, RescheduleTag
<1>8. CASE \E M \in SUBSET Tasks : DeleteMatching(M)
  BY <1>1, <1>8 DEF DeleteMatching
<1>9. CASE Start
  BY <1>9 DEF Start, Idle, Phases
<1>10. CASE Shutdown \/ LoopBreak \/ ExecutorStopped \/ JoinLoop
  BY <1>1, <1>10 DEF Shutdown, LoopBreak, ExecutorStopped, JoinLoop
<1>11. CASE EnterLoop \/ LeaveLoop \/ CheckRunning
  BY <1>1, <1>11 DEF EnterLoop, LeaveLoop, CheckRunning
<1>12. CASE BeginRun
  <2>1. Head(jobs) \in Tasks /\ worker.task = None
    BY <1>12 DEF BeginRun, TypeOK, Idle
  <2>2. CASE invoked[Head(jobs)]
    BY <1>12, <2>1, <2>2 DEF BeginRun, Finished, Idle
  <2>3. CASE ~invoked[Head(jobs)]
    <3>1. worker' = [task |-> Head(jobs), at |-> "callback"]
      BY <1>12, <2>3 DEF BeginRun
    <3>2. Head(jobs) \in Periodic => invoked'[Head(jobs)]
      BY <1>12, <2>1, <2>3 DEF BeginRun, TypeOK
    <3>3. \A t \in Tasks : t # Head(jobs) => invoked'[t] = invoked[t] /\ fresh'[t] = fresh[t]
      BY <1>12, <2>1, <2>3 DEF BeginRun, TypeOK
    <3> QED
      BY <2>1, <3>1, <3>2, <3>3
  <2> QED
    BY <2>2, <2>3
<1>13. CASE EndOneTime
  <2>1. worker.task \in Tasks /\ worker' = [worker EXCEPT !.at = "deregister"]
    BY <1>13 DEF EndOneTime, Phases, TypeOK, At
  <2>2. invoked'[worker.task] /\ UNCHANGED fresh
    BY <1>13, <2>1 DEF EndOneTime, TypeOK
  <2>3. \A t \in Tasks : t # worker.task => invoked'[t] = invoked[t]
    BY <1>13, <2>1 DEF EndOneTime, TypeOK
  <2> QED
    BY <2>1, <2>2, <2>3 DEF TypeOK
<1>14. CASE EndPeriodic
  BY <1>14 DEF EndPeriodic, At, Finished, Idle, TypeOK
<1>15. CASE DeregisterSelf
  BY <1>15 DEF DeregisterSelf, Finished, Idle, TypeOK
<1>16. CASE RescheduleSelf
  <2>1. worker.task \in Tasks /\ Tag[worker.task] \in Tags
    BY <1>16 DEF RescheduleSelf, Phases, TypeOK
  <2>2. \A t \in Tasks : ~fresh[t] => invoked[t]
    BY <1>16, <2>1 DEF RescheduleSelf
  <2>3. RunsOncePerReset'
    BY <1>16, <2>1, <2>2, FoundEffect DEF RescheduleSelf, WasReset, TypeOK
  <2>4. worker'.at \in {"idle", "gone"}
    BY <1>16 DEF RescheduleSelf, Finished, Idle
  <2> QED
    BY <2>3, <2>4
<1>17. CASE UNCHANGED vars
  BY <1>1, <1>17 DEF vars
<1> HIDE DEF RunPart
<1> QED
  BY <1>5, <1>6, <1>7, <1>8, <1>9, <1>10, <1>11, <1>12, <1>13, <1>14, <1>15, <1>16, <1>17
     DEF Next, LoopStep, WorkerStep, OwnerStep

\* No registered task is forgotten.
AwaitPart == RunIsAwaited /\ NotForgotten

LEMMA AwaitStep == TypeOK /\ MapByTag /\ Phases /\ AwaitPart /\ [Next]_vars => AwaitPart'
<1> SUFFICES ASSUME TypeOK, MapByTag, Phases, AwaitPart, [Next]_vars PROVE AwaitPart'
  OBVIOUS
<1> USE TagAssumption, NoneAssumption, PeriodicAssumption
        DEF AwaitPart, RunIsAwaited, NotForgotten, taskVars, threadVars
\* A step of another thread than the worker's.
<1>1. ASSUME UNCHANGED worker,
             \A t \in Tasks : Registered(t)' /\ ~invoked'[t] =>
                \/ Awaited(t)'
                \/ Registered(t) /\ ~invoked[t] /\ (Awaited(t) => Awaited(t)')
      PROVE  AwaitPart'
  BY <1>1 DEF Awaited, TypeOK, Phases
<1>2. ASSUME NEW u \in Tasks, WasReset(u), UNCHANGED <<taskMap, jobs, worker>>,
             adding' = adding \/ adding' = adding \ {u}
      PROVE  AwaitPart'
  BY <1>1, <1>2 DEF WasReset, Awaited, Registered, TypeOK
<1>3. ASSUME NEW g \in Tags, RescheduleFound(g), UNCHANGED <<taskMap, adding, jobs, worker>>
      PROVE  AwaitPart'
  <2>1. CASE taskMap[g] = None
    BY <1>1, <1>3, <2>1, FoundEffect DEF Awaited, Registered
  <2>2. CASE taskMap[g] # None
    BY <1>2, <1>3, <2>2, FoundEffect
  <2> QED
    BY <2>1, <2>2
<1>4. ASSUME NEW t \in Tasks, taskMap' = [taskMap EXCEPT ![Tag[t]] = t],
             t \in armed' \/ t \in adding', armed \subseteq armed', adding \subseteq adding',
             \A u \in Tasks \ {t} : invoked'[u] = invoked[u],
             UNCHANGED <<jobs, worker>>
      PROVE  AwaitPart'
  <2>1. \A u \in Tasks \ {t} : Registered(u)' => Registered(u)
    BY <1>4 DEF Registered, TypeOK
  <2> QED
    BY <1>1, <1>4, <2>1 DEF Awaited
<1>5. ASSUME NEW t \in Tasks, AddToMap(t) PROVE AwaitPart'
  BY <1>4, <1>5 DEF AddToMap
<1>6. ASSUME NEW t \in Tasks, ArmAdded(t) PROVE AwaitPart'
  BY <1>2, <1>6, ResetEffect DEF ArmAdded
<1>7. ASSUME NEW t \in Tasks, RescheduleTask(t) \/ RescheduleTaskAt(t) PROVE AwaitPart'
  <2>1. Tag[t] \in Tags
    OBVIOUS
  <2>2. CASE taskMap[Tag[t]] = None
    <3>1. CASE RescheduleTask(t)
      BY <1>4, <2>2, <3>1, ResetEffect DEF RescheduleTask, WasReset
    <3>2. CASE RescheduleTaskAt(t)
      BY <1>4, <2>2, <3>2 DEF RescheduleTaskAt
    <3> QED
      BY <1>7, <3>1, <3>2
  <2>3. CASE taskMap[Tag[t]] # None
    BY <1>3, <1>7, <2>1, <2>3 DEF RescheduleTask, RescheduleTaskAt
  <2> QED
    BY <2>2, <2>3
<1>8. ASSUME NEW t \in Tasks, Fire(t) PROVE AwaitPart'
  <2>1. \A u \in Tasks : Awaited(u) => Awaited(u)'
    BY <1>8, ContainsAppend DEF Fire, Awaited, TypeOK
  <2> QED
    BY <1>1, <1>8, <2>1 DEF Fire, Registered
\* What is unregistered is not looked for any more.
<1>9. ASSUME NEW G \in SUBSET Tags, WasUnregistered(G), UNCHANGED <<invoked, adding, jobs>>
      PROVE  \A t \in Tasks : Registered(t)' => Registered(t) /\ (Awaited(t) => Awaited(t)')
  BY <1>9 DEF WasUnregistered, Awaited, Registered
<1>10. ASSUME NEW G \in SUBSET Tags, Unregister(G), UNCHANGED <<invoked, adding, jobs, worker>>
       PROVE  AwaitPart'
  BY <1>1, <1>9, <1>10, UnregisterEffect
<1>11. CASE \E g \in Tags : DeleteTask(g) \/ RescheduleTag(g)
  BY <1>3, <1>10, <1>11 DEF DeleteTask, RescheduleTag
<1>12. ASSUME NEW M \in SUBSET Tasks, DeleteMatching(M) PROVE AwaitPart'
  <2>1. {g \in Tags : taskMap[g] \in M} \in SUBSET Tags
    OBVIOUS
  <2> QED
    BY <1>10, <1>12, <2>1 DEF DeleteMatching
<1>13. CASE Start
  BY <1>13 DEF Start, Idle, Phases, Registered, Awaited
<1>14. CASE Shutdown \/ LoopBreak \/ ExecutorStopped \/ JoinLoop
  BY <1>1, <1>14 DEF Shutdown, LoopBreak, ExecutorStopped, JoinLoop, Registered, Awaited
<1>15. CASE EnterLoop \/ LeaveLoop \/ CheckRunning
  BY <1>1, <1>15 DEF EnterLoop, LeaveLoop, CheckRunning, Registered, Awaited
<1>16. CASE BeginRun
  <2>1. Head(jobs) \in Tasks /\ worker.task = None
    BY <1>16 DEF BeginRun, TypeOK, Idle
  <2>2. UNCHANGED <<taskMap, armed, adding>>
    BY <1>16 DEF BeginRun
  <2>3. \A t \in Tasks : t # Head(jobs) /\ Awaited(t) => Awaited(t)'
    BY <1>16, <2>2, ContainsTail DEF BeginRun, Awaited, TypeOK
  <2>4. CASE invoked[Head(jobs)]
    BY <1>16, <2>1, <2>2, <2>3, <2>4 DEF BeginRun, Finished, Idle, Registered, Awaited
  <2>5. CASE ~invoked[Head(jobs)]
    <3>1. worker' = [task |-> Head(jobs), at |-> "callback"]
      BY <1>16, <2>5 DEF BeginRun
    <3>2. Head(jobs) \in Periodic => invoked'[Head(jobs)]
      BY <1>16, <2>1, <2>5 DEF BeginRun, TypeOK
    <3>3. \A t \in Tasks : t # Head(jobs) => invoked'[t] = invoked[t]
      BY <1>16, <2>1, <2>5 DEF BeginRun, TypeOK
    <3> QED
      BY <2>1, <2>2, <2>3, <3>1, <3>2, <3>3 DEF Registered, Awaited
  <2> QED
    BY <2>4, <2>5
<1>17. CASE EndOneTime
  <2>1. worker' = [worker EXCEPT !.at = "deregister"] /\ worker.task \in Tasks
    BY <1>17 DEF EndOneTime, Phases, TypeOK, At
  <2>2. \A t \in Tasks : t # worker.task => invoked'[t] = invoked[t]
    BY <1>17, <2>1 DEF EndOneTime, TypeOK
  <2> QED
    BY <1>17, <2>1, <2>2 DEF EndOneTime, Registered, TypeOK
<1>18. CASE EndPeriodic
  BY <1>18 DEF EndPeriodic, At, Finished, Idle, TypeOK, Registered, Awaited
<1>19. CASE DeregisterSelf
  <2>1. worker.task \in Tasks /\ {Tag[worker.task]} \in SUBSET Tags
    BY <1>19 DEF DeregisterSelf, Phases, TypeOK
  <2>2. WasUnregistered({Tag[worker.task]})
    BY <1>19, <2>1, UnregisterEffect DEF DeregisterSelf
  <2>3. \A t \in Tasks : Registered(t)' => Registered(t) /\ (Awaited(t) => Awaited(t)')
    BY <1>9, <1>19, <2>1, <2>2 DEF DeregisterSelf
  <2>4. \A t \in Tasks : t = worker.task => ~Registered(t)'
    BY <1>19, <2>1, <2>2 DEF WasUnregistered, Registered, DeregisterSelf
  <2>5. worker'.at \in {"idle", "gone"}
    BY <1>19 DEF DeregisterSelf, Finished, Idle
  <2> QED
    BY <1>19, <2>1, <2>3, <2>4, <2>5 DEF DeregisterSelf, Awaited
<1>20. CASE RescheduleSelf
  <2>1. worker.task \in Tasks /\ Tag[worker.task] \in Tags
    BY <1>20 DEF RescheduleSelf, Phases, TypeOK
  <2>2. worker'.at \in {"idle", "gone"}
    BY <1>20 DEF RescheduleSelf, Finished, Idle
  <2>3. \A t \in Tasks : Registered(t)' /\ ~invoked'[t] => Awaited(t)'
    <3>1. CASE taskMap[Tag[worker.task]] = None
      BY <1>20, <2>1, <3>1, FoundEffect DEF RescheduleSelf, Registered, Awaited
    <3>2. CASE taskMap[Tag[worker.task]] # None
      BY <1>20, <2>1, <3>2, FoundEffect DEF RescheduleSelf, WasReset, Registered, Awaited
    <3> QED
      BY <3>1, <3>2
  <2> QED
    BY <2>2, <2>3 DEF Awaited
<1>21. CASE UNCHANGED vars
  BY <1>1, <1>21 DEF vars, Registered, Awaited
<1> HIDE DEF AwaitPart
<1> QED
  BY <1>5, <1>6, <1>7, <1>8, <1>11, <1>12, <1>13, <1>14, <1>15, <1>16, <1>17, <1>18, <1>19,
     <1>20, <1>21 DEF Next, LoopStep, WorkerStep, OwnerStep

LEMMA SchedStep == SchedInv /\ [Next]_vars => SchedInv'
  BY TypeStep, PhasesStep, MapStep, RunStep, AwaitStep
     DEF SchedInv, MapPart, RunPart, AwaitPart, TimersFollowMap

-----------------------------------------------------------------------------
\* Every variable of the scheduler keeps its type.
THEOREM SchedulerTypes == Spec => []TypeOK
<1>1. SchedInv => TypeOK
  BY DEF SchedInv
<1> QED
  BY <1>1, SchedInit, SchedStep, PTL DEF Spec

\* Timers follow the task map: addTask, deleteTask, the reschedule calls and
\* run() leave no timer of a task the scheduler does not know (but for a
\* deletion inside addTask()) and forget no registered task, in any interleaving.
THEOREM TimersAlwaysFollowMap == Spec => []TimersFollowMap
<1>1. SchedInv => TimersFollowMap
  BY DEF SchedInv
<1> QED
  BY <1>1, SchedInit, SchedStep, PTL DEF Spec

\* A callback that began does not begin again without a reset() of its task.
THEOREM CallbackRunsOncePerReset == Spec => []RunsOncePerReset
<1>1. SchedInv => RunsOncePerReset
  BY DEF SchedInv
<1> QED
  BY <1>1, SchedInit, SchedStep, PTL DEF Spec
=============================================================================
