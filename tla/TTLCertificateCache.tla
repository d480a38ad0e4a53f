------------------------ MODULE TTLCertificateCache ------------------------
(***************************************************************************)
(* src/ndn.cxx/security/cache/ttl-certificate-cache.cc: certificates by    *)
(* name (without version) in m_cache, the names in order of use in         *)
(* m_lruList, and a thread that removes expired entries every m_interval   *)
(* seconds.  m_mutex is held for the whole of an insertion, a lookup and a *)
(* cleaning round, but the expiry time of an insertion and the time of a   *)
(* round are read before the lock is taken.  Lookups do not look at the    *)
(* expiry.  A round is modelled erasure by erasure, with the lock held.    *)
(* A tick of the clock is long compared to a cleaning round.               *)
(***************************************************************************)
EXTENDS Naturals, Sequences, SequencesExt

CONSTANTS Names, NoEntry,
          Writers,    \* the threads that insert (executor, application)
          MaxSize,    \* m_maxSize
          Interval,   \* m_interval
          Freshness,  \* the freshness periods certificates come with
          MaxTime     \* bound: the clock

\* With a maximum of 0 insertCertificate would pop an empty list for ever.
ASSUME SizeAssumption == MaxSize \in Nat \ {0}
ASSUME TimeAssumption == /\ Interval \in Nat \ {0} /\ MaxTime \in Nat
                         /\ Freshness \subseteq Nat
ASSUME EntryAssumption == NoEntry \notin [expire : Nat, since : Nat] \cup [name : Names, expire : Nat]

VARIABLES clock,
          entry,      \* m_cache: name -> [expire, since], or NoEntry
          lru,        \* m_lruList, least recently used first
          inserting,  \* per writer: an insertion that has not taken the lock yet
          cleaner,    \* the cleaning thread; in "erase" it holds m_mutex
          now, wake,  \* its local clock reading, and when its sleep ends
          running,    \* m_running
          owner,      \* shutdown(): up, stopping, down
          older       \* history: per name, those not used since it was

vars == <<clock, entry, lru, inserting, cleaner, now, wake, running, owner, older>>

Cached == {n \in Names : entry[n] # NoEntry}

Init == /\ clock = 0
        /\ entry = [n \in Names |-> NoEntry]
        /\ lru = <<>> /\ older = [n \in Names |-> {}]
        /\ inserting = [w \in Writers |-> NoEntry]
        /\ cleaner = "top" /\ now = 0 /\ wake = 0
        /\ running = TRUE /\ owner = "up"

Unlocked == cleaner # "erase"

\* list::erase of the node an entry points to.
Erase(s, n) == RemoveAt(s, CHOOSE i \in DOMAIN s : s[i] = n)

\* Mutant: a name that is used again keeps its place.
ToEnd_KeepPlace(s, n) == s

\* list::splice of that node to the end.
ToEnd(s, n) == Append(Erase(s, n), n)

\* n is used: nothing was used since.
Use(n) == older' = [m \in Names |-> IF m = n THEN Names \ {n} ELSE older[m] \ {n}]

-----------------------------------------------------------------------------

\* insertCertificate up to the lock: the expiry time is computed.
InsertBegin(w, n, f) ==
  /\ inserting[w] = NoEntry
  /\ inserting' = [inserting EXCEPT ![w] = [name |-> n, expire |-> clock + f]]
  /\ UNCHANGED <<clock, entry, lru, cleaner, now, wake, running, owner, older>>

\* while (m_lruList.size () >= m_maxSize): the oldest names leave list and map.
MakeRoom == LET surplus == IF Len(lru) >= MaxSize THEN Len(lru) - MaxSize + 1 ELSE 0 IN
            [left |-> SubSeq(lru, surplus + 1, Len(lru)),
             evicted |-> {lru[i] : i \in 1..surplus}]

\* insertCertificate under the lock.
InsertCommit(w) ==
  LET i == inserting[w]
      hit == i.name \in Cached
      evicted == IF hit THEN {} ELSE MakeRoom.evicted IN
  /\ i # NoEntry /\ Unlocked
  /\ inserting' = [inserting EXCEPT ![w] = NoEntry]
  /\ lru' = IF hit THEN ToEnd(lru, i.name) ELSE Append(MakeRoom.left, i.name)
  /\ entry' = [n \in Names |-> IF n = i.name THEN [expire |-> i.expire, since |-> clock]
                               ELSE IF n \in evicted THEN NoEntry ELSE entry[n]]
  /\ Use(i.name)
  /\ UNCHANGED <<clock, cleaner, now, wake, running, owner>>

\* getCertificate of a name in the cache; a miss changes nothing.
GetCertificate(n) ==
  /\ n \in Cached /\ Unlocked
  /\ lru' = ToEnd(lru, n)
  /\ Use(n)
  /\ UNCHANGED <<clock, entry, inserting, cleaner, now, wake, running, owner>>

-----------------------------------------------------------------------------
(* cleanLoop(). *)

CleanTop == /\ cleaner = "top"
            /\ IF running THEN cleaner' = "scan" /\ now' = clock
                          ELSE cleaner' = "done" /\ UNCHANGED now
            /\ UNCHANGED <<clock, entry, lru, inserting, wake, running, owner, older>>

\* The lock is taken, ...
CleanLock == /\ cleaner = "scan"
             /\ cleaner' = "erase"
             /\ UNCHANGED <<clock, entry, lru, inserting, now, wake, running, owner, older>>

Expired == {n \in Cached : now > entry[n].expire}

\* ... every expired entry leaves list and map, ...
CleanErase(n) == /\ cleaner = "erase" /\ n \in Expired
                 /\ lru' = Erase(lru, n)
                 /\ entry' = [entry EXCEPT ![n] = NoEntry]
                 /\ UNCHANGED <<clock, inserting, cleaner, now, wake, running, owner, older>>

\* Mutant: the sleep is twice the interval.
CleanUnlock_Oversleep ==
  /\ cleaner = "erase" /\ Expired = {}
  /\ cleaner' = "sleep" /\ wake' = clock + 2 * Interval
  /\ UNCHANGED <<clock, entry, lru, inserting, now, running, owner, older>>

\* ... and it is released for the sleep.
CleanUnlock == /\ cleaner = "erase" /\ Expired = {}
               /\ cleaner' = "sleep" /\ wake' = clock + Interval
               /\ UNCHANGED <<clock, entry, lru, inserting, now, running, owner, older>>

\* The sleep ends, or shutdown() interrupts it.
CleanWake == /\ cleaner = "sleep"
             /\ \/ owner = "stopping" /\ cleaner' = "done"
                \/ clock >= wake /\ cleaner' = "top"
             /\ UNCHANGED <<clock, entry, lru, inserting, now, wake, running, owner, older>>

-----------------------------------------------------------------------------
Shutdown == /\ owner = "up" /\ Unlocked
            /\ owner' = "stopping" /\ running' = FALSE
            /\ UNCHANGED <<clock, entry, lru, inserting, cleaner, now, wake, older>>

Join == /\ owner = "stopping" /\ cleaner = "done"
        /\ owner' = "down"
        /\ UNCHANGED <<clock, entry, lru, inserting, cleaner, now, wake, running, older>>

Tick == /\ clock < MaxTime
        /\ cleaner = "done" \/ (cleaner = "sleep" /\ clock < wake)
        /\ clock' = clock + 1
        /\ UNCHANGED <<entry, lru, inserting, cleaner, now, wake, running, owner, older>>

Next == \/ \E w \in Writers : \/ InsertCommit(w)
                              \/ \E n \in Names, f \in Freshness : InsertBegin(w, n, f)
        \/ \E n \in Names : GetCertificate(n) \/ CleanErase(n)
        \/ CleanTop \/ CleanLock \/ CleanUnlock \/ CleanWake
        \/ Shutdown \/ Join \/ Tick

Spec == Init /\ [][Next]_vars

-----------------------------------------------------------------------------
(* Properties. *)

\* The list holds the cached names, each once and in the order of their last
\* use, and never more than m_maxSize: the iterator every entry keeps into the
\* list stays valid and what is evicted first is what was unused longest,
\* whatever insertions, lookups and cleaning rounds interleave.
ListInOrderOfUse == /\ IsInjective(lru) /\ Range(lru) = Cached
                    /\ \A i, j \in DOMAIN lru : i < j => lru[i] \in older[lru[j]]
                    /\ Len(lru) <= MaxSize

\* A lookup may return an expired certificate, but not for long: while the
\* cleaning thread lives an entry outlives its expiry (or its late insertion)
\* by at most one interval.
StaleAtMostOneInterval ==
  cleaner # "done" =>
    \A n \in Cached : \/ clock <= entry[n].expire + Interval
                      \/ clock <= entry[n].since + Interval
=============================================================================
