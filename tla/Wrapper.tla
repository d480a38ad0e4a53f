------------------------------ MODULE Wrapper ------------------------------
(***************************************************************************)
(* src/ndn.cxx/wrapper/wrapper.cc after its constructor: the ndn thread    *)
(* (ndnLoop) that serves the connection to ndnd and reconnects, the        *)
(* interest filters it restores, interests in flight, the callbacks queued *)
(* on a one-thread executor, and shutdown().                               *)
(*                                                                         *)
(* m_mutex is recursive and held for whole operations, except that         *)
(* sendInterest releases it between its test and ndn_express_interest,     *)
(* that the ndn thread clears m_connected without it, and that shutdown()  *)
(* reads m_connected without it.  ndnd and the ndn client library are      *)
(* external: the daemon may die and come back, which loses the             *)
(* registrations; a call into the library may fail.                        *)
(***************************************************************************)
EXTENDS Naturals, Sequences

CONSTANTS Prefixes, Callbacks, Interests, None,
          MaxDeaths,   \* bound: how often the daemon dies
          MaxOps,      \* bound: filter calls by the application
          MaxQueue     \* bound: executor jobs queued by incoming packets

ASSUME NoneAssumption == None \notin Callbacks
ASSUME BoundAssumption == MaxDeaths \in Nat /\ MaxOps \in Nat /\ MaxQueue \in Nat

VARIABLES daemon,      \* ndnd is up
          session,     \* the socket to ndnd works
          connected,   \* m_connected
          running,     \* m_running
          thread,      \* the ndn thread
          recorded,    \* m_registeredInterests: prefix -> callback
          active,      \* the filters ndnd and the client library serve
          apart,       \* history: prefixes whose last filter call on this session failed
                       \* in the library or was not to be recorded
          sending,     \* interests between sendInterest's test and its lock
          pending,     \* interests expressed and not answered
          dropped,     \* interests whose ndn_express_interest failed
          queue,       \* the executor's jobs
          worker,      \* the executor's thread: idle, busy, gone
          exec,        \* the executor: open, stopping, closed
          owner,       \* where shutdown() is
          joined,      \* history: shutdown() joined the ndn thread
          deaths, ops

vars == <<daemon, session, connected, running, thread, recorded, active, apart,
          sending, pending, dropped, queue, worker, exec, owner, joined, deaths, ops>>

filterVars   == <<recorded, active, apart>>
interestVars == <<sending, pending, dropped>>
execVars     == <<queue, worker, exec>>
linkVars     == <<daemon, session, deaths>>

\* The constructor connected (otherwise it threw) and started both threads.
Init == /\ daemon = TRUE /\ session = TRUE /\ connected = TRUE /\ running = TRUE
        /\ thread = "serve"
        /\ recorded = [p \in Prefixes |-> None]
        /\ active = [p \in Prefixes |-> None]
        /\ apart = {} /\ sending = {} /\ pending = {} /\ dropped = {}
        /\ queue = <<>> /\ worker = "idle" /\ exec = "open"
        /\ owner = "up" /\ joined = FALSE
        /\ deaths = 0 /\ ops = 0

-----------------------------------------------------------------------------
(* Application calls. *)

\* The test every operation makes under the lock; otherwise it returns -1.
Usable == running /\ connected

\* ndn_set_interest_filter reaches a live session or fails.
FilterCall == IF session THEN {TRUE, FALSE} ELSE {FALSE}

LibrarySets(p, cb, record) ==
  \E ok \in FilterCall :
    /\ active' = IF ok THEN [active EXCEPT ![p] = cb] ELSE active
    /\ apart' = IF ok /\ record THEN apart \ {p} ELSE apart \cup {p}

\* setInterestFilter(prefix, callback, record): recorded even when the library
\* call failed; map::insert keeps an earlier callback of the prefix.
SetInterestFilter(p, cb, record) ==
  /\ Usable /\ ops < MaxOps /\ ops' = ops + 1
  /\ LibrarySets(p, cb, record)
  /\ recorded' = [recorded EXCEPT ![p] = IF record /\ @ = None THEN cb ELSE @]
  /\ UNCHANGED <<linkVars, connected, running, thread, interestVars, execVars, owner, joined>>

\* clearInterestFilter(prefix, record): without a connection, nothing happens;
\* a failure of the library is ignored.
ClearInterestFilter(p, record) ==
  /\ Usable /\ ops < MaxOps /\ ops' = ops + 1
  /\ LibrarySets(p, None, record)
  /\ recorded' = [recorded EXCEPT ![p] = IF record THEN None ELSE @]
  /\ UNCHANGED <<linkVars, connected, running, thread, interestVars, execVars, owner, joined>>

\* sendInterest: the test ...
SendBegin(i) == /\ Usable
                /\ i \notin sending \cup pending \cup dropped
                /\ sending' = sending \cup {i}
                /\ UNCHANGED <<linkVars, connected, running, thread, filterVars, pending, dropped,
                               execVars, owner, joined, ops>>

\* ... and ndn_express_interest under a second lock; its failure is only logged.
SendEnd(i) == /\ i \in sending
              /\ sending' = sending \ {i}
              /\ \/ pending' = pending \cup {i} /\ UNCHANGED dropped
                 \/ dropped' = dropped \cup {i} /\ UNCHANGED pending
              /\ UNCHANGED <<linkVars, connected, running, thread, filterVars, execVars,
                             owner, joined, ops>>

-----------------------------------------------------------------------------
(* The ndn thread. *)

\* An upcall from ndn_run queues a job on the executor, stopped or not.
Enqueue(job) == Len(queue) < MaxQueue /\ queue' = Append(queue, job)

\* incomingInterest for a prefix with a filter.
IncomingInterest(p) ==
  /\ thread = "serve" /\ session /\ active[p] # None
  /\ Enqueue(active[p])
  /\ UNCHANGED <<linkVars, connected, running, thread, filterVars, interestVars,
                 worker, exec, owner, joined, ops>>

\* incomingData: INTEREST_TIMED_OUT, or content and the verdict of verifyData.
\* An interest whose data waits for certificates counts as pending until then
\* (Verification has the details); a reconnect keeps pending interests.
IncomingData(i) ==
  /\ thread = "serve" /\ session /\ i \in pending
  /\ pending' = pending \ {i}
  /\ Enqueue(i)
  /\ UNCHANGED <<linkVars, connected, running, thread, filterVars, sending, dropped,
                 worker, exec, owner, joined, ops>>

\* The loop's tests of m_running: at its head and after ndn_run.
ServeStops == /\ thread = "serve" /\ ~running
              /\ thread' = "done"
              /\ UNCHANGED <<linkVars, connected, running, filterVars, interestVars, execVars,
                             owner, joined, ops>>

\* ndn_run or poll fails: m_connected is cleared without the lock.
ConnectionLost == /\ thread = "serve" /\ ~session
                  /\ connected' = FALSE
                  /\ thread' = "retry"
                  /\ UNCHANGED <<linkVars, running, filterVars, interestVars, execVars,
                                 owner, joined, ops>>

\* Mutant: the reconnect loop does not look at m_running.
RetryTop_Forever == /\ thread = "retry"
                    /\ thread' = "sleep"
                    /\ UNCHANGED <<linkVars, connected, running, filterVars, interestVars,
                                   execVars, owner, joined, ops>>

\* while (m_running) of the reconnect loop; then the thread sleeps.
RetryTop == /\ thread = "retry"
            /\ thread' = IF running THEN "sleep" ELSE "done"
            /\ UNCHANGED <<linkVars, connected, running, filterVars, interestVars, execVars,
                           owner, joined, ops>>

\* Mutant: the recorded filters are not restored.
Restored_Nothing(F) == active

\* The filters connectNdnd restores when those in F fail.  clear- and
\* setInterestFilter do nothing once m_running is false.
Restored(F) == [p \in Prefixes |-> IF recorded[p] = None \/ ~running \/ p \in F
                                     THEN active[p] ELSE recorded[p]]

\* connectNdnd after the sleep; it does not look at m_running.
Reconnect ==
  /\ thread = "sleep" /\ daemon
  /\ session' = TRUE /\ connected' = TRUE
  /\ \E F \in SUBSET {p \in Prefixes : recorded[p] # None /\ running} :
       /\ active' = Restored(F)
       /\ apart' = IF running THEN F ELSE apart
  /\ thread' = "serve"
  /\ UNCHANGED <<daemon, deaths, running, recorded, interestVars, execVars, owner, joined, ops>>

\* ndn_connect fails: another sleep with a longer interval.
ReconnectFails == /\ thread = "sleep" /\ ~daemon
                  /\ thread' = "retry"
                  /\ UNCHANGED <<linkVars, connected, running, filterVars, interestVars, execVars,
                                 owner, joined, ops>>

-----------------------------------------------------------------------------
(* The executor's thread, as in JobPool with one worker. *)

RunCallback == /\ exec # "closed" /\ worker = "idle" /\ queue # <<>>
               /\ worker' = "busy"
               /\ queue' = Tail(queue)
               /\ UNCHANGED <<linkVars, connected, running, thread, filterVars, interestVars,
                              exec, owner, joined, ops>>

CallbackReturns == /\ worker = "busy"
                   /\ worker' = IF exec = "open" THEN "idle" ELSE "gone"
                   /\ UNCHANGED <<linkVars, connected, running, thread, filterVars, interestVars,
                                  queue, exec, owner, joined, ops>>

-----------------------------------------------------------------------------
(* shutdown(). *)

\* Mutant: shutdown() leaves the executor alone.
Shutdown_KeepExecutor ==
  /\ owner \in {"up", "down"}
  /\ owner' = "executor"
  /\ UNCHANGED <<linkVars, connected, running, thread, filterVars, interestVars, execVars,
                 joined, ops>>

\* Called by hand and once more by the destructor.
Shutdown == /\ owner \in {"up", "down"}
            /\ owner' = "executor"
            /\ exec' = IF exec = "open" THEN "stopping" ELSE exec
            /\ UNCHANGED <<linkVars, connected, running, thread, filterVars, interestVars,
                           queue, worker, joined, ops>>

ExecutorStopped == /\ owner = "executor" /\ worker # "busy"
                   /\ exec' = IF exec = "stopping" THEN "closed" ELSE exec
                   /\ owner' = "flag"
                   /\ UNCHANGED <<linkVars, connected, running, thread, filterVars, interestVars,
                                  queue, worker, joined, ops>>

ClearRunning == /\ owner = "flag"
                /\ running' = FALSE
                /\ owner' = "test"
                /\ UNCHANGED <<linkVars, connected, thread, filterVars, interestVars, execVars,
                               joined, ops>>

\* if (m_connected), read without the lock: a wrapper that is reconnecting
\* is left to itself.
TestConnected == /\ owner = "test"
                 /\ owner' = IF connected THEN "join" ELSE "down"
                 /\ UNCHANGED <<linkVars, connected, running, thread, filterVars, interestVars,
                                execVars, joined, ops>>

\* join, ndn_disconnect, m_connected = false.
JoinThread == /\ owner = "join" /\ thread = "done"
              /\ owner' = "down" /\ joined' = TRUE
              /\ connected' = FALSE /\ session' = FALSE
              /\ active' = [p \in Prefixes |-> None]
              /\ UNCHANGED <<daemon, deaths, running, thread, recorded, apart, interestVars,
                             execVars, ops>>

-----------------------------------------------------------------------------
(* ndnd. *)

DaemonDies == /\ daemon /\ deaths < MaxDeaths
              /\ deaths' = deaths + 1
              /\ daemon' = FALSE /\ session' = FALSE
              /\ active' = [p \in Prefixes |-> None]
              /\ UNCHANGED <<connected, running, thread, recorded, apart, interestVars, execVars,
                             owner, joined, ops>>

DaemonStarts == /\ ~daemon
                /\ daemon' = TRUE
                /\ UNCHANGED <<session, deaths, connected, running, thread, filterVars, interestVars,
                               execVars, owner, joined, ops>>

-----------------------------------------------------------------------------
ThreadStep == ServeStops \/ ConnectionLost \/ RetryTop \/ Reconnect \/ ReconnectFails

WorkerStep == RunCallback \/ CallbackReturns

OwnerStep == ExecutorStopped \/ ClearRunning \/ TestConnected \/ JoinThread

FilterStep == \E p \in Prefixes, record \in BOOLEAN :
                \/ \E cb \in Callbacks : SetInterestFilter(p, cb, record)
                \/ ClearInterestFilter(p, record)

Next == \/ FilterStep
        \/ \E p \in Prefixes : IncomingInterest(p)
        \/ \E i \in Interests : SendBegin(i) \/ SendEnd(i) \/ IncomingData(i)
        \/ ThreadStep \/ WorkerStep \/ Shutdown \/ OwnerStep
        \/ DaemonDies \/ DaemonStarts

Spec == Init /\ [][Next]_vars

\* The threads run, callbacks return, sleeps end.
SpecFair == Spec /\ WF_vars(ThreadStep) /\ WF_vars(WorkerStep) /\ WF_vars(OwnerStep)

-----------------------------------------------------------------------------
(* Properties. *)

\* On a working session of a running wrapper ndnd serves exactly the filters the
\* wrapper has on record, apart from prefixes whose last call on this session the
\* library refused or the application did not want recorded: reconnecting restores
\* every filter on record and no other, and a filter cleared on record never comes
\* back.
FiltersMatchRecord ==
  session /\ running =>
    \A p \in Prefixes \ apart : active[p] # None <=> recorded[p] # None

\* After shutdown() has returned no callback of the application is running or
\* will be, whatever the ndn thread still queues; and when shutdown() waited for
\* that thread, it is gone and the session is closed for good.
QuietAfterShutdown ==
  /\ owner = "down" => exec = "closed" /\ worker # "busy"
  /\ joined => thread = "done" /\ ~session /\ ~connected

\* shutdown() comes back whether or not the daemon does, and the ndn thread ends
\* after it even when it was not joined because the wrapper was reconnecting.
ShutdownCompletes == /\ (owner = "executor") ~> (owner = "down")
                     /\ ~running ~> thread = "done"
=============================================================================
