--------------------------- MODULE WrapperProofs ---------------------------
(***************************************************************************)
(* The Wrapper for every set of prefixes, callbacks and interests, any     *)
(* number of deaths of the daemon and any length of the queue.  WrapInv is *)
(* the inductive invariant: what the place of the ndn thread says about    *)
(* the session (Links), what the place of shutdown() says about the        *)
(* executor (Phases), and the two properties.                              *)
(***************************************************************************)
EXTENDS Wrapper, TLAPS

Flags == /\ daemon \in BOOLEAN /\ session \in BOOLEAN /\ connected \in BOOLEAN
         /\ running \in BOOLEAN /\ joined \in BOOLEAN

TypeOK ==
  /\ thread \in {"serve", "retry", "sleep", "done"}
  /\ recorded \in [Prefixes -> Callbacks \cup {None}]
  /\ active \in [Prefixes -> Callbacks \cup {None}]
  /\ apart \in SUBSET Prefixes
  /\ sending \in SUBSET Interests /\ pending \in SUBSET Interests /\ dropped \in SUBSET Interests
  /\ queue \in Seq(Callbacks \cup Interests)
  /\ worker \in {"idle", "busy", "gone"}
  /\ exec \in {"open", "stopping", "closed"}
  /\ owner \in {"up", "executor", "flag", "test", "join", "down"}
  /\ deaths \in Nat /\ ops \in Nat

\* A thread that reconnects has no session, and without a session nothing is served.
Links == /\ thread \in {"retry", "sleep"} => ~session
         /\ ~session => \A p \in Prefixes : active[p] = None

\* Once shutdown() has passed the executor, that is closed and stays so.
Phases == /\ owner = "executor" => exec # "open"
          /\ owner \in {"flag", "test", "join", "down"} => exec = "closed"
          /\ exec = "closed" => worker # "busy"

WrapInv == TypeOK /\ Flags /\ Links /\ Phases /\ FiltersMatchRecord /\ QuietAfterShutdown

-----------------------------------------------------------------------------

LEMMA WrapInit == Init => WrapInv
<1> SUFFICES ASSUME Init PROVE WrapInv
  OBVIOUS
<1> USE DEF Init
<1>1. TypeOK
  BY DEF TypeOK
<1>2. Flags /\ Links /\ Phases
  BY DEF Flags, Links, Phases
<1>3. FiltersMatchRecord /\ QuietAfterShutdown
  BY DEF FiltersMatchRecord, QuietAfterShutdown
<1> QED
  BY <1>1, <1>2, <1>3 DEF WrapInv

\* A call of ndn_set_interest_filter without a session changes no filter.
LEMMA LibraryCall ==
  ASSUME TypeOK, NEW p \in Prefixes, NEW cb \in Callbacks \cup {None}, NEW record,
         LibrarySets(p, cb, record)
  PROVE  /\ active' \in [Prefixes -> Callbacks \cup {None}]
         /\ apart' \in SUBSET Prefixes
         /\ ~session => active' = active
         /\ \A q \in Prefixes : q # p => active'[q] = active[q] /\ (q \in apart' <=> q \in apart)
         /\ p \notin apart' => record /\ active'[p] = cb
  BY DEF TypeOK, LibrarySets, FilterCall

LEMMA TypeStep == TypeOK /\ [Next]_vars => TypeOK'
<1> SUFFICES ASSUME TypeOK, [Next]_vars PROVE TypeOK'
  OBVIOUS
<1> USE DEF TypeOK, filterVars, interestVars, execVars, linkVars
<1>1. ASSUME NEW p \in Prefixes, NEW record, NEW cb \in Callbacks, SetInterestFilter(p, cb, record)
      PROVE  TypeOK'
  BY <1>1, LibraryCall DEF SetInterestFilter
<1>2. ASSUME NEW p \in Prefixes, NEW record, ClearInterestFilter(p, record) PROVE TypeOK'
  <2>1. recorded' \in [Prefixes -> Callbacks \cup {None}]
    BY <1>2 DEF ClearInterestFilter
  <2>2. active' \in [Prefixes -> Callbacks \cup {None}] /\ apart' \in SUBSET Prefixes
    BY <1>2, LibraryCall, Zenon DEF ClearInterestFilter
  <2> QED
    BY <1>2, <2>1, <2>2 DEF ClearInterestFilter
<1>3. ASSUME NEW p \in Prefixes, IncomingInterest(p) PROVE TypeOK'
  <2>1. active[p] \in Callbacks
    BY <1>3 DEF IncomingInterest
  <2>2. queue' \in Seq(Callbacks \cup Interests)
    BY <1>3, <2>1 DEF IncomingInterest, Enqueue
  <2> QED
    BY <1>3, <2>2 DEF IncomingInterest
<1>4. ASSUME NEW i \in Interests, SendBegin(i) \/ SendEnd(i) PROVE TypeOK'
  BY <1>4 DEF SendBegin, SendEnd
<1>5. ASSUME NEW i \in Interests, IncomingData(i) PROVE TypeOK'
  <2>1. queue' \in Seq(Callbacks \cup Interests)
    BY <1>5 DEF IncomingData, Enqueue
  <2> QED
    BY <1>5, <2>1 DEF IncomingData
<1>6. CASE ServeStops \/ ConnectionLost \/ RetryTop \/ ReconnectFails
  BY <1>6 DEF ServeStops, ConnectionLost, RetryTop, ReconnectFails
<1>7. CASE Reconnect
  <2>1. active' \in [Prefixes -> Callbacks \cup {None}] /\ apart' \in SUBSET Prefixes
    BY <1>7 DEF Reconnect, Restored
  <2> QED
    BY <1>7, <2>1 DEF Reconnect
<1>8. CASE RunCallback
  <2>1. queue' \in Seq(Callbacks \cup Interests)
    BY <1>8 DEF RunCallback
  <2> QED
    BY <1>8, <2>1 DEF RunCallback
<1>9. CASE CallbackReturns
  BY <1>9 DEF CallbackReturns
<1>10. CASE Shutdown \/ ExecutorStopped \/ ClearRunning \/ TestConnected
  BY <1>10 DEF Shutdown, ExecutorStopped, ClearRunning, TestConnected
<1>11. CASE JoinThread
  BY <1>11 DEF JoinThread
<1>12. CASE DaemonDies \/ DaemonStarts
  BY <1>12 DEF DaemonDies, DaemonStarts
<1>13. CASE UNCHANGED vars
  BY <1>13 DEF vars
<1> HIDE DEF TypeOK
<1> QED
  BY <1>1, <1>2, <1>3, <1>4, <1>5, <1>6, <1>7, <1>8, <1>9, <1>10, <1>11, <1>12, <1>13
     DEF Next, FilterStep, ThreadStep, WorkerStep, OwnerStep

LEMMA FlagsStep == Flags /\ [Next]_vars => Flags'
<1> SUFFICES ASSUME Flags, [Next]_vars PROVE Flags'
  OBVIOUS
<1> USE DEF Flags, filterVars, interestVars, execVars, linkVars
<1>1. CASE FilterStep \/ \E p \in Prefixes : IncomingInterest(p)
  BY <1>1, Zenon DEF FilterStep, SetInterestFilter, ClearInterestFilter, IncomingInterest
<1>2. CASE \E i \in Interests : SendBegin(i) \/ SendEnd(i) \/ IncomingData(i)
  BY <1>2, Zenon DEF SendBegin, SendEnd, IncomingData
<1>3. CASE ServeStops \/ ConnectionLost \/ RetryTop \/ Reconnect \/ ReconnectFails
  BY <1>3, Zenon DEF ServeStops, ConnectionLost, RetryTop, ReconnectFails, Reconnect
<1>4. CASE RunCallback \/ CallbackReturns
  BY <1>4, Zenon DEF RunCallback, CallbackReturns
<1>5. CASE Shutdown \/ ExecutorStopped \/ ClearRunning \/ TestConnected
  BY <1>5, Zenon DEF Shutdown, ExecutorStopped, ClearRunning, TestConnected
<1>6. CASE JoinThread \/ DaemonDies \/ DaemonStarts
  BY <1>6, Zenon DEF JoinThread, DaemonDies, DaemonStarts
<1>7. CASE UNCHANGED vars
  BY <1>7, Zenon DEF vars
<1> QED
  BY <1>1, <1>2, <1>3, <1>4, <1>5, <1>6, <1>7 DEF Next, FilterStep, ThreadStep, WorkerStep, OwnerStep

\* What is served goes with the session, and a session with the thread.
LEMMA LinksStep == TypeOK /\ Links /\ [Next]_vars => Links'
<1> SUFFICES ASSUME TypeOK, Links, [Next]_vars PROVE Links'
  OBVIOUS
<1> USE DEF TypeOK, Links, filterVars, interestVars, execVars, linkVars
<1>1. ASSUME NEW p \in Prefixes, NEW record, NEW cb \in Callbacks, SetInterestFilter(p, cb, record)
      PROVE  Links'
  BY <1>1, LibraryCall DEF SetInterestFilter
<1>2. ASSUME NEW p \in Prefixes, NEW record, ClearInterestFilter(p, record) PROVE Links'
  BY <1>2, LibraryCall DEF ClearInterestFilter
<1>3. CASE (\E p \in Prefixes : IncomingInterest(p))
           \/ \E i \in Interests : SendBegin(i) \/ SendEnd(i) \/ IncomingData(i)
  BY <1>3 DEF IncomingInterest, SendBegin, SendEnd, IncomingData
<1>4. CASE ServeStops \/ ConnectionLost \/ RetryTop \/ ReconnectFails
  BY <1>4 DEF ServeStops, ConnectionLost, RetryTop, ReconnectFails
<1>5. CASE Reconnect
  BY <1>5 DEF Reconnect
<1>6. CASE RunCallback \/ CallbackReturns
  BY <1>6 DEF RunCallback, CallbackReturns
<1>7. CASE Shutdown \/ ExecutorStopped \/ ClearRunning \/ TestConnected
  BY <1>7 DEF Shutdown, ExecutorStopped, ClearRunning, TestConnected
<1>8. CASE JoinThread \/ DaemonDies \/ DaemonStarts
  BY <1>8 DEF JoinThread, DaemonDies, DaemonStarts
<1>9. CASE UNCHANGED vars
  BY <1>9 DEF vars
<1> HIDE DEF Links, TypeOK
<1> QED
  BY <1>1, <1>2, <1>3, <1>4, <1>5, <1>6, <1>7, <1>8, <1>9
     DEF Next, FilterStep, ThreadStep, WorkerStep, OwnerStep

\* No callback begins once the executor is closed, and nothing opens it again.
LEMMA PhasesStep == TypeOK /\ Phases /\ [Next]_vars => Phases'
<1> SUFFICES ASSUME TypeOK, Phases, [Next]_vars PROVE Phases'
  OBVIOUS
<1> USE DEF TypeOK, Phases, filterVars, interestVars, execVars, linkVars
<1>1. CASE FilterStep \/ \E p \in Prefixes : IncomingInterest(p)
  BY <1>1 DEF FilterStep, SetInterestFilter, ClearInterestFilter, IncomingInterest
<1>2. CASE \E i \in Interests : SendBegin(i) \/ SendEnd(i) \/ IncomingData(i)
  BY <1>2 DEF SendBegin, SendEnd, IncomingData
<1>3. CASE ThreadStep
  BY <1>3 DEF ThreadStep, ServeStops, ConnectionLost, RetryTop, ReconnectFails, Reconnect
<1>4. CASE RunCallback \/ CallbackReturns
  BY <1>4 DEF RunCallback, CallbackReturns
<1>5. CASE Shutdown \/ ExecutorStopped
  BY <1>5 DEF Shutdown, ExecutorStopped
<1>6. CASE ClearRunning \/ TestConnected \/ JoinThread
  BY <1>6 DEF ClearRunning, TestConnected, JoinThread
<1>7. CASE DaemonDies \/ DaemonStarts
  BY <1>7 DEF DaemonDies, DaemonStarts
<1>8. CASE UNCHANGED vars
  BY <1>8 DEF vars
<1> HIDE DEF Phases, TypeOK
<1> QED
  BY <1>1, <1>2, <1>3, <1>4, <1>5, <1>6, <1>7, <1>8 DEF Next, FilterStep, WorkerStep, OwnerStep

\* A filter goes on record and into service together, and a reconnect restores
\* what is on record because before it nothing is served (Links).
LEMMA FiltersStep == TypeOK /\ Links /\ FiltersMatchRecord /\ [Next]_vars => FiltersMatchRecord'
<1> SUFFICES ASSUME TypeOK, Links, FiltersMatchRecord, [Next]_vars PROVE FiltersMatchRecord'
  OBVIOUS
<1> USE NoneAssumption DEF TypeOK, FiltersMatchRecord, filterVars, interestVars, execVars, linkVars
<1>1. ASSUME NEW p \in Prefixes, NEW record, NEW cb \in Callbacks, SetInterestFilter(p, cb, record)
      PROVE  FiltersMatchRecord'
  <2>1. (record => recorded'[p] # None) /\ \A q \in Prefixes : q # p => recorded'[q] = recorded[q]
    BY <1>1 DEF SetInterestFilter
  <2> QED
    BY <1>1, <2>1, LibraryCall DEF SetInterestFilter
<1>2. ASSUME NEW p \in Prefixes, NEW record, ClearInterestFilter(p, record) PROVE FiltersMatchRecord'
  <2>1. (record => recorded'[p] = None) /\ \A q \in Prefixes : q # p => recorded'[q] = recorded[q]
    BY <1>2 DEF ClearInterestFilter
  <2> QED
    BY <1>2, <2>1, LibraryCall DEF ClearInterestFilter
<1>3. CASE (\E p \in Prefixes : IncomingInterest(p))
           \/ \E i \in Interests : SendBegin(i) \/ SendEnd(i) \/ IncomingData(i)
  BY <1>3 DEF IncomingInterest, SendBegin, SendEnd, IncomingData
<1>4. CASE ServeStops \/ ConnectionLost \/ RetryTop \/ ReconnectFails
  BY <1>4 DEF ServeStops, ConnectionLost, RetryTop, ReconnectFails
<1>5. CASE Reconnect
  <2>1. \A p \in Prefixes : active[p] = None
    BY <1>5 DEF Reconnect, Links
  <2> QED
    BY <1>5, <2>1 DEF Reconnect, Restored
<1>6. CASE RunCallback \/ CallbackReturns
  BY <1>6 DEF RunCallback, CallbackReturns
<1>7. CASE Shutdown \/ ExecutorStopped \/ ClearRunning \/ TestConnected
  BY <1>7 DEF Shutdown, ExecutorStopped, ClearRunning, TestConnected
<1>8. CASE JoinThread \/ DaemonDies \/ DaemonStarts
  BY <1>8 DEF JoinThread, DaemonDies, DaemonStarts
<1>9. CASE UNCHANGED vars
  BY <1>9 DEF vars
<1> HIDE DEF FiltersMatchRecord, TypeOK
<1> QED
  BY <1>1, <1>2, <1>3, <1>4, <1>5, <1>6, <1>7, <1>8, <1>9
     DEF Next, FilterStep, ThreadStep, WorkerStep, OwnerStep

\* A thread that is done does not reconnect, whatever the daemon does.
LEMMA QuietStep ==
  TypeOK /\ Phases /\ QuietAfterShutdown /\ [Next]_vars => QuietAfterShutdown'
<1> SUFFICES ASSUME TypeOK, Phases, QuietAfterShutdown, [Next]_vars PROVE QuietAfterShutdown'
  OBVIOUS
<1>0. Phases'
  BY PhasesStep
<1>1. (owner = "down" => exec = "closed" /\ worker # "busy")'
  BY <1>0 DEF Phases
<1> USE DEF TypeOK, QuietAfterShutdown, filterVars, interestVars, execVars, linkVars
<1>2. (joined => thread = "done" /\ ~session /\ ~connected)'
  <2>1. CASE FilterStep \/ \E p \in Prefixes : IncomingInterest(p)
    BY <2>1 DEF FilterStep, SetInterestFilter, ClearInterestFilter, IncomingInterest
  <2>2. CASE \E i \in Interests : SendBegin(i) \/ SendEnd(i) \/ IncomingData(i)
    BY <2>2 DEF SendBegin, SendEnd, IncomingData
  <2>3. CASE ThreadStep
    BY <2>3 DEF ThreadStep, ServeStops, ConnectionLost, RetryTop, ReconnectFails, Reconnect
  <2>4. CASE RunCallback \/ CallbackReturns
    BY <2>4 DEF RunCallback, CallbackReturns
  <2>5. CASE Shutdown \/ ExecutorStopped \/ ClearRunning \/ TestConnected
    BY <2>5 DEF Shutdown, ExecutorStopped, ClearRunning, TestConnected
  <2>6. CASE JoinThread \/ DaemonDies \/ DaemonStarts
    BY <2>6 DEF JoinThread, DaemonDies, DaemonStarts
  <2>7. CASE UNCHANGED vars
    BY <2>7 DEF vars
  <2> QED
    BY <2>1, <2>2, <2>3, <2>4, <2>5, <2>6, <2>7 DEF Next, FilterStep, WorkerStep, OwnerStep
<1> QED
  BY <1>1, <1>2

LEMMA WrapStep == WrapInv /\ [Next]_vars => WrapInv'
  BY TypeStep, FlagsStep, LinksStep, PhasesStep, FiltersStep, QuietStep DEF WrapInv

-----------------------------------------------------------------------------
\* Every variable of the Wrapper keeps its type.
THEOREM WrapperTypes == Spec => [](TypeOK /\ Flags)
<1>1. WrapInv => TypeOK /\ Flags
  BY DEF WrapInv
<1> QED
  BY <1>1, WrapInit, WrapStep, PTL DEF Spec

\* On a working session ndnd serves exactly the filters on record, apart from
\* prefixes whose last call the library refused or that called with record =
\* false: setInterestFilter, clearInterestFilter and
\* connectNdnd keep the two in step through every loss of the connection.
THEOREM FiltersAreRestored == Spec => []FiltersMatchRecord
<1>1. WrapInv => FiltersMatchRecord
  BY DEF WrapInv
<1> QED
  BY <1>1, WrapInit, WrapStep, PTL DEF Spec

\* After shutdown() no callback runs, and a thread it joined is gone with its
\* session.
THEOREM ShutdownIsQuiet == Spec => []QuietAfterShutdown
<1>1. WrapInv => QuietAfterShutdown
  BY DEF WrapInv
<1> QED
  BY <1>1, WrapInit, WrapStep, PTL DEF Spec
=============================================================================
