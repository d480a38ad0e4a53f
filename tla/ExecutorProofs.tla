--------------------------- MODULE ExecutorProofs ---------------------------
(***************************************************************************)
(* The executor for every pool size, every set of jobs and any number of   *)
(* restarts.  ExecInv is the inductive invariant: what the owner's loop    *)
(* index says about the workers (Phases), where a job in a worker's hands  *)
(* comes from (Hands), and the three properties it carries.                *)
(***************************************************************************)
EXTENDS Executor, TLAPS

Awake == {"check", "enter", "woken", "job"}

\* Which workers exist in each phase of start() and shutdown().
Phases ==
  /\ owner = "creating" => ~needStop /\ made < PoolSize
  /\ owner = "idle" /\ ~needStop => made = PoolSize
  /\ owner = "interrupting" => needStop /\ made < PoolSize
  /\ owner = "joining" => needStop
  /\ ~needStop => /\ \A w \in 1..made : pc[w] \in Awake \cup {"parked"} /\ ~intr[w]
                  /\ \A w \in Workers : w > made => pc[w] \in {"none", "done"}
  /\ needStop /\ owner = "idle" => \A w \in Workers : pc[w] \in {"none", "done"}

\* A worker holds a job exactly while it executes one.
Hands == \A w \in Workers : pc[w] = "job" <=> job[w] # None

\* NoLostWakeup, for the workers created so far.
Attended == ~needStop /\ made > 0 /\ queue # <<>>
              => \E w \in 1..made : pc[w] \in Awake

ExecInv == TypeOK /\ Phases /\ Hands /\ Attended /\ Fifo

-----------------------------------------------------------------------------
\* Moving the head of a queue to the end of what was taken before it.
LEMMA MoveHead ==
  ASSUME NEW S, NEW s \in Seq(S), NEW t \in Seq(S), t # <<>>
  PROVE  /\ Head(t) \in S
         /\ Tail(t) \in Seq(S)
         /\ s \o t = Append(s, Head(t)) \o Tail(t)
  OBVIOUS

-----------------------------------------------------------------------------
(* The inductive step, one lemma per part of the invariant. *)

LEMMA ExecInit == Init => ExecInv
<1> SUFFICES ASSUME Init PROVE ExecInv
  OBVIOUS
<1> USE PoolAssumption, BoundAssumption, NoneAssumption DEF Init, Workers
<1>1. TypeOK
  BY DEF TypeOK
<1>2. Phases /\ Hands /\ Attended
  BY DEF Phases, Hands, Attended
<1>3. Fifo
  BY DEF Fifo
<1> QED
  BY <1>1, <1>2, <1>3 DEF ExecInv

\* The owner's loop index stays in range because of Phases.
LEMMA TypeStep == TypeOK /\ Phases /\ Hands /\ [Next]_vars => TypeOK'
<1> SUFFICES ASSUME TypeOK, Phases, Hands, [Next]_vars PROVE TypeOK'
  OBVIOUS
<1> USE PoolAssumption, BoundAssumption, NoneAssumption DEF TypeOK, Workers
<1>1. CASE Start
  <2>1. starts' \in 0..MaxStarts /\ made' \in 0..PoolSize
    BY <1>1 DEF Start
  <2> QED
    BY <1>1, <2>1 DEF Start, history
<1>2. CASE CreateThread
  BY <1>2 DEF CreateThread, Phases, history
<1>3. CASE Shutdown
  BY <1>3 DEF Shutdown, history
<1>4. CASE InterruptThread
  BY <1>4 DEF InterruptThread, Phases, history
<1>5. CASE JoinAll
  BY <1>5 DEF JoinAll, history
<1>6. ASSUME NEW j \in Jobs, Execute(j) PROVE TypeOK'
  <2>1. queue' \in Seq(Jobs) /\ submitted' \in Seq(Jobs)
    BY <1>6 DEF Execute
  <2>2. pc' \in [Workers -> {"none", "check", "enter", "parked", "woken", "job", "done"}]
    BY <1>6 DEF Execute, NotifyOne
  <2> QED
    BY <1>6, <2>1, <2>2 DEF Execute
<1>7. ASSUME NEW w \in Workers, CheckStop(w) PROVE TypeOK'
  BY <1>7 DEF CheckStop, Goto, history
<1>8. ASSUME NEW w \in Workers, TakeJob(w) PROVE TypeOK'
  <2>1. queue \in Seq(Jobs) /\ queue # <<>>
    BY <1>8 DEF TakeJob
  <2>2. Head(queue) \in Jobs /\ Tail(queue) \in Seq(Jobs)
    BY <2>1
  <2>3. queue' \in Seq(Jobs) /\ taken' \in Seq(Jobs)
    BY <1>8, <2>2 DEF TakeJob
  <2>4. job' \in [Workers -> Jobs \cup {None}]
    BY <1>8, <2>2 DEF TakeJob
  <2>5. pc' \in [Workers -> {"none", "check", "enter", "parked", "woken", "job", "done"}]
    BY <1>8 DEF TakeJob, Goto
  <2> QED
    BY <1>8, <2>3, <2>4, <2>5 DEF TakeJob
<1>9. ASSUME NEW w \in Workers, Park(w) PROVE TypeOK'
  BY <1>9 DEF Park, Goto, history
<1>10. ASSUME NEW w \in Workers, Interrupted(w) PROVE TypeOK'
  BY <1>10 DEF Interrupted, Goto, history
<1>11. ASSUME NEW w \in Workers, SpuriousWake(w) PROVE TypeOK'
  BY <1>11 DEF SpuriousWake, Goto, history
<1>12. ASSUME NEW w \in Workers, FinishJob(w) PROVE TypeOK'
  BY <1>12 DEF FinishJob, Goto, Hands
<1>13. ASSUME NEW w \in Workers, CutJob(w) PROVE TypeOK'
  BY <1>13 DEF CutJob, Goto, Hands
<1>14. CASE UNCHANGED vars
  BY <1>14 DEF vars
<1> HIDE DEF TypeOK, Workers
<1> QED
  BY <1>1, <1>2, <1>3, <1>4, <1>5, <1>6, <1>7, <1>8, <1>9, <1>10, <1>11, <1>12, <1>13, <1>14
     DEF Next, OwnerStep, ServeStep, JobStep

\* The phases of the owner and the life of the workers stay in step.
LEMMA PhasesStep == TypeOK /\ Phases /\ [Next]_vars => Phases'
<1> SUFFICES ASSUME TypeOK, Phases, [Next]_vars PROVE Phases'
  OBVIOUS
<1> USE PoolAssumption, BoundAssumption, NoneAssumption DEF TypeOK, Workers, Phases, Awake
<1>1. CASE Start
  BY <1>1 DEF Start, history
<1>2. CASE CreateThread
  BY <1>2 DEF CreateThread, history
<1>3. CASE Shutdown
  BY <1>3 DEF Shutdown, history
<1>4. CASE InterruptThread
  BY <1>4 DEF InterruptThread, history
<1>5. CASE JoinAll
  BY <1>5 DEF JoinAll, history
<1>6. ASSUME NEW j \in Jobs, Execute(j) PROVE Phases'
  <2>1. UNCHANGED <<needStop, owner, made, intr>>
    BY <1>6 DEF Execute
  <2>2. CASE pc' = pc
    BY <2>1, <2>2
  <2>3. ASSUME NEW w \in Workers, pc[w] = "parked", pc' = [pc EXCEPT ![w] = "woken"]
        PROVE  Phases'
    BY <2>1, <2>3
  <2> QED
    BY <1>6, <2>2, <2>3 DEF Execute, NotifyOne
<1>7. ASSUME NEW w \in Workers, CheckStop(w) PROVE Phases'
  BY <1>7 DEF CheckStop, Goto, history
<1>8. ASSUME NEW w \in Workers, TakeJob(w) PROVE Phases'
  BY <1>8 DEF TakeJob, Goto, history
<1>9. ASSUME NEW w \in Workers, Park(w) PROVE Phases'
  BY <1>9 DEF Park, Goto, history
<1>10. ASSUME NEW w \in Workers, Interrupted(w) PROVE Phases'
  BY <1>10 DEF Interrupted, Goto, history
<1>11. ASSUME NEW w \in Workers, SpuriousWake(w) PROVE Phases'
  BY <1>11 DEF SpuriousWake, Goto, history
<1>12. ASSUME NEW w \in Workers, FinishJob(w) PROVE Phases'
  BY <1>12 DEF FinishJob, Goto, history
<1>13. ASSUME NEW w \in Workers, CutJob(w) PROVE Phases'
  BY <1>13 DEF CutJob, Goto, history
<1>14. CASE UNCHANGED vars
  BY <1>14 DEF vars
<1> HIDE DEF TypeOK, Workers, Phases, Awake
<1> QED
  BY <1>1, <1>2, <1>3, <1>4, <1>5, <1>6, <1>7, <1>8, <1>9, <1>10, <1>11, <1>12, <1>13, <1>14
     DEF Next, OwnerStep, ServeStep, JobStep

\* Taking a job, finishing it and being cut move pc and job together.
LEMMA HandsStep == TypeOK /\ Phases /\ Hands /\ [Next]_vars => Hands'
<1> SUFFICES ASSUME TypeOK, Phases, Hands, [Next]_vars PROVE Hands'
  OBVIOUS
<1> USE PoolAssumption, BoundAssumption, NoneAssumption DEF TypeOK, Workers, Hands
<1>1. CASE Start
  BY <1>1 DEF Start, history
<1>2. CASE CreateThread
  BY <1>2 DEF CreateThread, Phases, history
<1>3. CASE Shutdown
  BY <1>3 DEF Shutdown, history
<1>4. CASE InterruptThread
  BY <1>4 DEF InterruptThread, history
<1>5. CASE JoinAll
  BY <1>5 DEF JoinAll, history
<1>6. ASSUME NEW j \in Jobs, Execute(j) PROVE Hands'
  <2>1. job' = job
    BY <1>6 DEF Execute
  <2>2. CASE pc' = pc
    BY <2>1, <2>2
  <2>3. ASSUME NEW w \in Workers, pc[w] = "parked", pc' = [pc EXCEPT ![w] = "woken"]
        PROVE  Hands'
    BY <2>1, <2>3
  <2> QED
    BY <1>6, <2>2, <2>3 DEF Execute, NotifyOne
<1>7. ASSUME NEW w \in Workers, CheckStop(w) PROVE Hands'
  BY <1>7 DEF CheckStop, Goto, history
<1>8. ASSUME NEW w \in Workers, TakeJob(w) PROVE Hands'
  <2>1. queue \in Seq(Jobs) /\ queue # <<>>
    BY <1>8 DEF TakeJob, TypeOK
  <2>2. Head(queue) \in Jobs /\ Head(queue) # None
    BY <2>1
  <2> QED
    BY <1>8, <2>2 DEF TakeJob, Goto
<1>9. ASSUME NEW w \in Workers, Park(w) PROVE Hands'
  BY <1>9 DEF Park, Goto, history
<1>10. ASSUME NEW w \in Workers, Interrupted(w) PROVE Hands'
  BY <1>10 DEF Interrupted, Goto, history
<1>11. ASSUME NEW w \in Workers, SpuriousWake(w) PROVE Hands'
  BY <1>11 DEF SpuriousWake, Goto, history
<1>12. ASSUME NEW w \in Workers, FinishJob(w) PROVE Hands'
  BY <1>12 DEF FinishJob, Goto, history
<1>13. ASSUME NEW w \in Workers, CutJob(w) PROVE Hands'
  BY <1>13 DEF CutJob, Goto, history
<1>14. CASE UNCHANGED vars
  BY <1>14 DEF vars
<1> HIDE DEF TypeOK, Workers, Hands
<1> QED
  BY <1>1, <1>2, <1>3, <1>4, <1>5, <1>6, <1>7, <1>8, <1>9, <1>10, <1>11, <1>12, <1>13, <1>14
     DEF Next, OwnerStep, ServeStep, JobStep

\* A worker parks only on an empty queue, and the first job wakes one up.
LEMMA AttendedStep == TypeOK /\ Phases /\ Attended /\ [Next]_vars => Attended'
<1> SUFFICES ASSUME TypeOK, Phases, Attended, [Next]_vars PROVE Attended'
  OBVIOUS
<1> USE PoolAssumption, BoundAssumption, NoneAssumption DEF TypeOK, Workers, Phases, Awake, Attended
<1>1. CASE Start
  BY <1>1 DEF Start, history
<1>2. CASE CreateThread
  BY <1>2 DEF CreateThread, history
<1>3. CASE Shutdown
  BY <1>3 DEF Shutdown, history
<1>4. CASE InterruptThread
  BY <1>4 DEF InterruptThread, history
<1>5. CASE JoinAll
  BY <1>5 DEF JoinAll, history
<1>6. ASSUME NEW j \in Jobs, Execute(j) PROVE Attended'
  <2>1. UNCHANGED <<needStop, made>>
    BY <1>6 DEF Execute
  <2>2. CASE pc' = pc /\ queue # <<>>
    BY <2>1, <2>2
  <2>3. CASE pc' = pc /\ \A w \in Workers : pc[w] # "parked"
    BY <2>1, <2>3
  <2>4. ASSUME NEW w \in Workers, pc[w] = "parked", pc' = [pc EXCEPT ![w] = "woken"]
        PROVE  Attended'
    <3>1. ASSUME ~needStop PROVE w \in 1..made
      <4>1. ~(w > made)
        BY <2>4, <3>1
      <4> QED
        BY <4>1
    <3>2. pc'[w] \in Awake
      BY <2>4
    <3> QED
      BY <2>1, <3>1, <3>2
  <2> QED
    BY <1>6, <2>2, <2>3, <2>4 DEF Execute, NotifyOne
<1>7. ASSUME NEW w \in Workers, CheckStop(w) PROVE Attended'
  BY <1>7 DEF CheckStop, Goto, history
<1>8. ASSUME NEW w \in Workers, TakeJob(w) PROVE Attended'
  BY <1>8 DEF TakeJob, Goto, history
<1>9. ASSUME NEW w \in Workers, Park(w) PROVE Attended'
  BY <1>9 DEF Park, Goto, history
<1>10. ASSUME NEW w \in Workers, Interrupted(w) PROVE Attended'
  BY <1>10 DEF Interrupted, Goto, history
<1>11. ASSUME NEW w \in Workers, SpuriousWake(w) PROVE Attended'
  BY <1>11 DEF SpuriousWake, Goto, history
<1>12. ASSUME NEW w \in Workers, FinishJob(w) PROVE Attended'
  BY <1>12 DEF FinishJob, Goto, history
<1>13. ASSUME NEW w \in Workers, CutJob(w) PROVE Attended'
  BY <1>13 DEF CutJob, Goto, history
<1>14. CASE UNCHANGED vars
  BY <1>14 DEF vars
<1> HIDE DEF TypeOK, Workers, Phases, Awake, Attended
<1> QED
  BY <1>1, <1>2, <1>3, <1>4, <1>5, <1>6, <1>7, <1>8, <1>9, <1>10, <1>11, <1>12, <1>13, <1>14
     DEF Next, OwnerStep, ServeStep, JobStep

\* Jobs enter at the back of the queue and leave at its front.
LEMMA FifoStep == TypeOK /\ Fifo /\ [Next]_vars => Fifo'
<1> SUFFICES ASSUME TypeOK, Fifo, [Next]_vars PROVE Fifo'
  OBVIOUS
<1> USE PoolAssumption, BoundAssumption, NoneAssumption DEF Fifo
<1>1. CASE Start
  BY <1>1 DEF Start, history
<1>2. CASE CreateThread
  BY <1>2 DEF CreateThread, history
<1>3. CASE Shutdown
  BY <1>3 DEF Shutdown, history
<1>4. CASE InterruptThread
  BY <1>4 DEF InterruptThread, history
<1>5. CASE JoinAll
  BY <1>5 DEF JoinAll, history
<1>6. ASSUME NEW j \in Jobs, Execute(j) PROVE Fifo'
  <2>1. submitted' = Append(submitted, j) /\ queue' = Append(queue, j) /\ taken' = taken
    BY <1>6 DEF Execute
  <2>2. taken \in Seq(Jobs) /\ queue \in Seq(Jobs) /\ submitted = taken \o queue
    BY DEF TypeOK
  <2>3. Append(taken \o queue, j) = taken \o Append(queue, j)
    BY <2>2
  <2> QED
    BY <2>1, <2>2, <2>3
<1>7. ASSUME NEW w \in Workers, CheckStop(w) PROVE Fifo'
  BY <1>7 DEF CheckStop, Goto, history
<1>8. ASSUME NEW w \in Workers, TakeJob(w) PROVE Fifo'
  <2>1. /\ queue' = Tail(queue) /\ taken' = Append(taken, Head(queue))
        /\ submitted' = submitted /\ queue # <<>>
    BY <1>8 DEF TakeJob
  <2>2. taken \in Seq(Jobs) /\ queue \in Seq(Jobs) /\ submitted = taken \o queue
    BY DEF TypeOK
  <2>3. taken \o queue = Append(taken, Head(queue)) \o Tail(queue)
    BY <2>1, <2>2, MoveHead
  <2> QED
    BY <2>1, <2>2, <2>3
<1>9. ASSUME NEW w \in Workers, Park(w) PROVE Fifo'
  BY <1>9 DEF Park, Goto, history
<1>10. ASSUME NEW w \in Workers, Interrupted(w) PROVE Fifo'
  BY <1>10 DEF Interrupted, Goto, history
<1>11. ASSUME NEW w \in Workers, SpuriousWake(w) PROVE Fifo'
  BY <1>11 DEF SpuriousWake, Goto, history
<1>12. ASSUME NEW w \in Workers, FinishJob(w) PROVE Fifo'
  BY <1>12 DEF FinishJob, Goto, history
<1>13. ASSUME NEW w \in Workers, CutJob(w) PROVE Fifo'
  BY <1>13 DEF CutJob, Goto, history
<1>14. CASE UNCHANGED vars
  BY <1>14 DEF vars
<1> HIDE DEF Fifo
<1> QED
  BY <1>1, <1>2, <1>3, <1>4, <1>5, <1>6, <1>7, <1>8, <1>9, <1>10, <1>11, <1>12, <1>13, <1>14
     DEF Next, OwnerStep, ServeStep, JobStep

LEMMA ExecStep == ExecInv /\ [Next]_vars => ExecInv'
  BY TypeStep, PhasesStep, HandsStep, AttendedStep, FifoStep DEF ExecInv

LEMMA ExecInvariant == Spec => []ExecInv
  BY ExecInit, ExecStep, PTL DEF Spec

-----------------------------------------------------------------------------
\* Type correctness of the executor, for every pool size and set of jobs.
THEOREM ExecutorTypes == Spec => []TypeOK
<1>1. ExecInv => TypeOK
  BY DEF ExecInv
<1> QED
  BY <1>1, ExecInvariant, PTL

\* executor.h:27 for every pool: jobs are taken in the order execute() accepted
\* them and none is lost, whatever shutdowns, restarts and wake-ups interleave.
THEOREM ExecutorFifo == Spec => []Fifo
<1>1. ExecInv => Fifo
  BY DEF ExecInv
<1> QED
  BY <1>1, ExecInvariant, PTL

\* notify_one only on the empty-to-nonempty transition never leaves a running
\* pool asleep with work queued.
THEOREM ExecutorNoLostWakeup == Spec => []NoLostWakeup
<1>1. ExecInv => NoLostWakeup
  BY PoolAssumption DEF ExecInv, TypeOK, Phases, Attended, NoLostWakeup, Workers, Awake
<1> QED
  BY <1>1, ExecInvariant, PTL

\* After shutdown() returns no worker of the pool is alive.
THEOREM ExecutorQuiet == Spec => []QuietWhenStopped
<1>1. ExecInv => QuietWhenStopped
  BY DEF ExecInv, Phases, QuietWhenStopped
<1> QED
  BY <1>1, ExecInvariant, PTL

-----------------------------------------------------------------------------
(* The executor implements JobPool. *)

\* A job that a worker has, or had, was taken from the queue.
Accounted == \A j \in Jobs :
  j \in ended \cup cut \/ (\E w \in Workers : job[w] = j) => Contains(taken, j)

\* Jobs reach a worker through the queue only.
LEMMA AccountedStep == TypeOK /\ Accounted /\ [Next]_vars => Accounted'
<1> SUFFICES ASSUME TypeOK, Accounted, [Next]_vars PROVE Accounted'
  OBVIOUS
<1>k. ASSUME UNCHANGED <<job, taken, ended, cut>>  PROVE Accounted'
  BY <1>k DEF Accounted
<1>1. CASE Start \/ Shutdown \/ OwnerStep
  BY <1>1, <1>k DEF Start, Shutdown, OwnerStep, CreateThread, InterruptThread, JoinAll, history
<1>2. ASSUME NEW j \in Jobs, Execute(j) PROVE Accounted'
  BY <1>2, <1>k DEF Execute
<1>3. ASSUME NEW w \in Workers, CheckStop(w) \/ Park(w) \/ Interrupted(w) \/ SpuriousWake(w)
      PROVE  Accounted'
  BY <1>3, <1>k DEF CheckStop, Park, Interrupted, SpuriousWake, history
<1>4. ASSUME NEW w \in Workers, TakeJob(w) PROVE Accounted'
  <2>1. /\ taken' = Append(taken, Head(queue)) /\ job' = [job EXCEPT ![w] = Head(queue)]
        /\ UNCHANGED <<ended, cut>> /\ queue \in Seq(Jobs) /\ queue # <<>> /\ taken \in Seq(Jobs)
    BY <1>4 DEF TakeJob, TypeOK
  <2>2. \A j \in Jobs : Contains(taken, j) \/ j = Head(queue) => Contains(taken', j)
    <3>1. Head(queue) \in Jobs
      BY <2>1
    <3>2. /\ Len(taken') = Len(taken) + 1 /\ taken'[Len(taken) + 1] = Head(queue) /\ Len(taken) \in Nat
          /\ \A i \in 1..Len(taken) : taken'[i] = taken[i]
      BY <2>1, <3>1
    <3> QED  BY <3>2 DEF Contains
  <2>3. \A v \in Workers : job'[v] = IF v = w THEN Head(queue) ELSE job[v]
    BY <2>1 DEF TypeOK
  <2> QED  BY <2>1, <2>2, <2>3 DEF Accounted
<1>5. ASSUME NEW w \in Workers, FinishJob(w) \/ CutJob(w) PROVE Accounted'
  <2>1. /\ ended' \cup cut' = ended \cup cut \cup {job[w]} /\ UNCHANGED taken
        /\ job' = [job EXCEPT ![w] = None]
    BY <1>5 DEF FinishJob, CutJob
  <2>2. \A v \in Workers : job'[v] = IF v = w THEN None ELSE job[v]
    BY <2>1 DEF TypeOK
  <2> QED  BY <2>1, <2>2, NoneAssumption DEF Accounted
<1>6. CASE UNCHANGED vars
  BY <1>6, <1>k DEF vars
<1> QED  BY <1>1, <1>2, <1>3, <1>4, <1>5, <1>6 DEF Next, ServeStep, JobStep

\* The initial states of the executor are initial states of the pool.
LEMMA PoolInit == Init => Pool!Init
  BY DEF Init, Pool!Init

\* A job that execute() accepts is new to the pool.
LEMMA FreshJob ==
  ASSUME ExecInv, Accounted, NEW j \in Jobs, ~ Contains(submitted, j)
  PROVE  Pool!Fresh(j)
<1>1. taken \in Seq(Jobs) /\ queue \in Seq(Jobs) /\ submitted = taken \o queue
  BY DEF ExecInv, TypeOK, Fifo
<1>2. /\ Len(submitted) = Len(taken) + Len(queue) /\ Len(taken) \in Nat /\ Len(queue) \in Nat
      /\ DOMAIN queue = 1..Len(queue)
      /\ \A i \in 1..Len(taken) : submitted[i] = taken[i]
      /\ \A i \in 1..Len(queue) : submitted[Len(taken) + i] = queue[i]
  BY <1>1
<1>3. ~ Contains(taken, j)
  BY <1>2 DEF Contains
<1>4. \A i \in DOMAIN queue : queue[i] # j
  <2> SUFFICES ASSUME NEW i \in DOMAIN queue, queue[i] = j PROVE FALSE
    OBVIOUS
  <2>1. Len(taken) + i \in 1..Len(submitted) /\ submitted[Len(taken) + i] = j
    BY <1>2
  <2> QED  BY <2>1 DEF Contains
<1> QED  BY <1>3, <1>4 DEF Accounted, Pool!Fresh

\* Every step of the executor is a step of the pool or leaves it unchanged.
LEMMA PoolStep == ExecInv /\ Accounted /\ [Next]_vars => [Pool!Next]_(Pool!vars)
<1> SUFFICES ASSUME ExecInv, Accounted, [Next]_vars PROVE [Pool!Next]_(Pool!vars)
  OBVIOUS
<1> DEFINE up == ~(needStop /\ owner = "idle")
<1>s. ASSUME UNCHANGED <<queue, job, ended, cut>>, up' = up
      PROVE  UNCHANGED Pool!vars
  BY <1>s DEF Pool!vars
<1>1. CASE Start
  <2>1. ~ up /\ up' = TRUE /\ UNCHANGED <<queue, job, ended, cut>>
    BY <1>1 DEF Start, history
  <2> QED  BY <2>1 DEF Pool!Next, Pool!Open
<1>2. CASE CreateThread \/ Shutdown \/ InterruptThread
  <2>1. up /\ up'
    BY <1>2 DEF CreateThread, Shutdown, InterruptThread, ExecInv, Phases
  <2>2. UNCHANGED <<queue, job, ended, cut>>
    BY <1>2 DEF CreateThread, Shutdown, InterruptThread, history
  <2> QED  BY <2>1, <2>2, <1>s
<1>3. CASE JoinAll
  <2>1. up /\ up' = FALSE /\ UNCHANGED <<queue, job, ended, cut>>
    BY <1>3 DEF JoinAll, history, ExecInv, Phases
  <2>2. \A w \in Workers : job[w] = None
    BY <1>3 DEF JoinAll, ExecInv, Hands
  <2> QED  BY <2>1, <2>2 DEF Pool!Next, Pool!Close
<1>4. ASSUME NEW j \in Jobs, Execute(j) PROVE Pool!Next
  <2>1. Pool!Fresh(j)
    BY <1>4, FreshJob DEF Execute
  <2>2. queue' = Append(queue, j) /\ UNCHANGED <<job, ended, cut, needStop, owner>>
    BY <1>4 DEF Execute
  <2> QED  BY <2>1, <2>2 DEF Pool!Next, Pool!Submit
<1>5. ASSUME NEW w \in Workers, CheckStop(w) \/ Park(w) \/ Interrupted(w) \/ SpuriousWake(w)
      PROVE  UNCHANGED Pool!vars
  BY <1>5, <1>s DEF CheckStop, Park, Interrupted, SpuriousWake, history
<1>6. ASSUME NEW w \in Workers, TakeJob(w) PROVE Pool!Next
  <2>1. up /\ job[w] = None
    BY <1>6 DEF TakeJob, ExecInv, Phases, Hands
  <2>2. /\ queue # <<>> /\ queue' = Tail(queue) /\ job' = [job EXCEPT ![w] = Head(queue)]
        /\ UNCHANGED <<ended, cut, needStop, owner>>
    BY <1>6 DEF TakeJob
  <2> QED  BY <2>1, <2>2 DEF Pool!Next, Pool!Take
<1>7. ASSUME NEW w \in Workers, FinishJob(w) \/ CutJob(w) PROVE Pool!Next
  <2>1. job[w] # None
    BY <1>7 DEF FinishJob, CutJob, ExecInv, Hands
  <2>2. /\ ended' \cup cut' = ended \cup cut \cup {job[w]} /\ job' = [job EXCEPT ![w] = None]
        /\ UNCHANGED <<queue, needStop, owner>>
    BY <1>7 DEF FinishJob, CutJob
  <2> QED  BY <2>1, <2>2 DEF Pool!Next, Pool!End
<1>8. CASE UNCHANGED vars
  BY <1>8, <1>s DEF vars
<1> QED
  BY <1>1, <1>2, <1>3, <1>4, <1>5, <1>6, <1>7, <1>8 DEF Next, OwnerStep, ServeStep, JobStep

\* The executor implements its contract for every pool size: a closed pool runs
\* nothing, and an open one hands every job out once, in order (ImplementsPool).
THEOREM ExecutorImplementsPool == Spec => ImplementsPool
<1>1. Init => Accounted
  BY NoneAssumption DEF Init, Accounted
<1>2. Spec => []Accounted
  <2>1. Spec => []TypeOK
    BY ExecutorTypes
  <2> QED  BY <1>1, <2>1, AccountedStep, PTL DEF Spec
<1> QED
  BY <1>2, ExecInvariant, PoolInit, PoolStep, PTL DEF Spec, ImplementsPool, Pool!Spec
=============================================================================
