----------------------- MODULE CertificateCacheProofs -----------------------
(***************************************************************************)
(* The certificate cache for every set of names and threads, every size,   *)
(* interval and freshness.  The list is in order of use whatever thread    *)
(* moves, adds or erases a node; the bound on stale entries rests on what  *)
(* the last cleaning round left (Swept).                                   *)
(***************************************************************************)
EXTENDS TTLCertificateCache, SequenceTheorems, TLAPS

Entries == [expire : Nat, since : Nat]
Insertions == [name : Names, expire : Nat]

TypeOK ==
  /\ clock \in Nat /\ now \in Nat /\ wake \in Nat
  /\ entry \in [Names -> Entries \cup {NoEntry}]
  /\ inserting \in [Writers -> Insertions \cup {NoEntry}]
  /\ older \in [Names -> SUBSET Names]
  /\ lru \in Seq(Names)
  /\ cleaner \in {"top", "scan", "erase", "sleep", "done"}

\* Since the last round began less than an interval passed, and what it left is
\* not older; during a round the clock stands still.
Swept ==
  /\ now <= clock
  /\ cleaner \in {"scan", "erase"} => now = clock
  /\ cleaner = "sleep" => wake = now + Interval /\ clock <= wake
  /\ cleaner \in {"top", "sleep"} =>
       clock <= now + Interval /\ \A n \in Cached : now <= entry[n].expire \/ now <= entry[n].since

CacheInv == TypeOK /\ ListInOrderOfUse /\ Swept /\ StaleAtMostOneInterval

-----------------------------------------------------------------------------
(* The list. *)

InOrder(s) == \A i, j \in DOMAIN s : i < j => s[i] \in older[s[j]]

\* s without a node: the others in their order.
LEMMA EraseList ==
  ASSUME NEW s \in Seq(Names), IsInjective(s), NEW n \in Range(s)
  PROVE  LET t == Erase(s, n) IN
         /\ t \in Seq(Names) /\ Len(t) = Len(s) - 1 /\ IsInjective(t)
         /\ Range(t) = Range(s) \ {n}
         /\ \A i, j \in DOMAIN t : i < j => \E k, l \in DOMAIN s : k < l /\ t[i] = s[k] /\ t[j] = s[l]
<1> DEFINE i == CHOOSE i \in DOMAIN s : s[i] = n
           a == SubSeq(s, 1, i - 1)
           b == SubSeq(s, i + 1, Len(s))
           t == Erase(s, n)
<1>1. i \in DOMAIN s /\ s[i] = n
  BY DEF Range
<1>2. i \in 1..Len(s) /\ DOMAIN s = 1..Len(s) /\ Len(s) \in Nat
  BY <1>1, LenProperties
<1> HIDE DEF i
<1>3. a \in Seq(Names) /\ Len(a) = i - 1 /\ \A j \in 1..(i - 1) : a[j] = s[j]
  BY <1>2, SubSeqProperties
<1>4. b \in Seq(Names) /\ Len(b) = Len(s) - i /\ \A j \in 1..(Len(s) - i) : b[j] = s[i + j]
  <2>1. i + 1 \in Int /\ Len(s) \in Int /\ \A j \in (i + 1)..Len(s) : s[j] \in Names
    BY <1>2
  <2>2. /\ b \in Seq(Names) /\ Len(b) = IF i + 1 <= Len(s) THEN Len(s) - (i + 1) + 1 ELSE 0
        /\ \A j \in 1..(Len(s) - (i + 1) + 1) : b[j] = s[(i + 1) + j - 1]
    BY <2>1, SubSeqProperties
  <2> HIDE DEF b
  <2>3. ASSUME NEW j \in 1..(Len(s) - i)  PROVE b[j] = s[i + j]
    <3>1. j \in 1..(Len(s) - (i + 1) + 1) /\ (i + 1) + j - 1 = i + j
      BY <1>2
    <3> QED  BY <2>2, <3>1
  <2>4. Len(b) = Len(s) - i
    <3>1. i \in 1..Len(s) /\ Len(s) \in Nat
      BY <1>2
    <3>2. Len(b) = IF i + 1 <= Len(s) THEN Len(s) - (i + 1) + 1 ELSE 0
      BY <2>2
    <3>3. (IF i + 1 <= Len(s) THEN Len(s) - (i + 1) + 1 ELSE 0) = Len(s) - i
      BY <3>1
    <3> QED  BY <3>2, <3>3
  <2> QED  BY <2>2, <2>3, <2>4
<1>5. t = a \o b
  BY DEF Erase, RemoveAt, i
<1> HIDE DEF a, b, t
<1>6. t \in Seq(Names) /\ Len(t) = Len(s) - 1 /\ DOMAIN t = 1..(Len(s) - 1)
  <2>1. t \in Seq(Names) /\ Len(t) = Len(a) + Len(b)
    BY <1>3, <1>4, <1>5, ConcatProperties
  <2>2. Len(t) = Len(s) - 1
    BY <2>1, <1>2, <1>3, <1>4
  <2> QED  BY <2>1, <2>2, LenProperties
<1>7. \A j \in 1..(Len(s) - 1) : t[j] = IF j < i THEN s[j] ELSE s[j + 1]
  BY <1>2, <1>3, <1>4, <1>5, ConcatProperties
<1>8. IsInjective(t)
  BY <1>2, <1>6, <1>7 DEF IsInjective
<1>9. Range(t) = Range(s) \ {n}
  <2>1. \A x \in DOMAIN t : t[x] \in Range(s)
    BY <1>2, <1>6, <1>7 DEF Range
  <2>2. \A x \in DOMAIN t : t[x] # n
    BY <1>1, <1>2, <1>6, <1>7 DEF IsInjective
  <2>3. ASSUME NEW x \in DOMAIN s, s[x] # n
        PROVE  \E y \in DOMAIN t : t[y] = s[x]
    <3>1. CASE x < i
      BY <1>2, <1>6, <1>7, <3>1
    <3>2. CASE x > i
      <4>1. x - 1 \in 1..(Len(s) - 1) /\ ~ (x - 1 < i) /\ (x - 1) + 1 = x
        BY <1>2, <3>2
      <4> QED  BY <4>1, <1>6, <1>7
    <3> QED  BY <1>1, <1>2, <2>3, <3>1, <3>2
  <2> QED  BY <2>1, <2>2, <2>3 DEF Range
<1>10. \A x, y \in DOMAIN t : x < y => \E k, l \in DOMAIN s : k < l /\ t[x] = s[k] /\ t[y] = s[l]
  BY <1>2, <1>6, <1>7
<1> QED  BY <1>6, <1>8, <1>9, <1>10 DEF t

\* s with a node at its end.
LEMMA AppendList ==
  ASSUME NEW s \in Seq(Names), IsInjective(s), NEW n \in Names \ Range(s)
  PROVE  LET t == Append(s, n) IN
         /\ t \in Seq(Names) /\ Len(t) = Len(s) + 1 /\ IsInjective(t)
         /\ Range(t) = Range(s) \cup {n} /\ DOMAIN t = 1..(Len(s) + 1)
         /\ t[Len(s) + 1] = n /\ \A i \in 1..Len(s) : t[i] = s[i]
<1> DEFINE t == Append(s, n)
<1>1. /\ t \in Seq(Names) /\ Len(t) = Len(s) + 1 /\ Len(s) \in Nat /\ DOMAIN t = 1..(Len(s) + 1)
      /\ DOMAIN s = 1..Len(s) /\ t[Len(s) + 1] = n /\ \A i \in 1..Len(s) : t[i] = s[i]
  BY AppendProperties, LenProperties
<1> HIDE DEF t
<1>2. IsInjective(t)
  BY <1>1 DEF IsInjective, Range
<1>3. Range(t) = Range(s) \cup {n}
  <2>1. \A x \in DOMAIN t : t[x] \in Range(s) \cup {n}
    BY <1>1 DEF Range
  <2>2. \A x \in DOMAIN s : \E y \in DOMAIN t : t[y] = s[x]
    BY <1>1
  <2>3. \E y \in DOMAIN t : t[y] = n
    BY <1>1
  <2> QED  BY <2>1, <2>2, <2>3 DEF Range
<1> QED  BY <1>1, <1>2, <1>3 DEF t

\* s without its first k nodes.
LEMMA TailList ==
  ASSUME NEW s \in Seq(Names), IsInjective(s), NEW k \in 0..Len(s)
  PROVE  LET t == SubSeq(s, k + 1, Len(s)) IN
         /\ t \in Seq(Names) /\ Len(t) = Len(s) - k /\ IsInjective(t)
         /\ Range(t) = Range(s) \ {s[i] : i \in 1..k}
         /\ DOMAIN t = 1..(Len(s) - k) /\ \A i \in 1..(Len(s) - k) : t[i] = s[k + i]
<1> DEFINE t == SubSeq(s, k + 1, Len(s))
<1>1. /\ t \in Seq(Names) /\ Len(t) = Len(s) - k /\ DOMAIN t = 1..(Len(s) - k)
      /\ DOMAIN s = 1..Len(s) /\ Len(s) \in Nat /\ \A i \in 1..(Len(s) - k) : t[i] = s[k + i]
  BY SubSeqProperties, LenProperties
<1> HIDE DEF t
<1>2. IsInjective(t)
  <2> SUFFICES ASSUME NEW x \in DOMAIN t, NEW y \in DOMAIN t, t[x] = t[y]
               PROVE  x = y
    BY DEF IsInjective
  <2>1. t[x] = s[k + x] /\ t[y] = s[k + y] /\ k + x \in DOMAIN s /\ k + y \in DOMAIN s
    BY <1>1
  <2>2. k + x = k + y
    BY <2>1 DEF IsInjective
  <2> QED  BY <2>2, <1>1
<1>3. Range(t) = Range(s) \ {s[i] : i \in 1..k}
  <2>1. \A x \in DOMAIN t : t[x] \in Range(s) /\ t[x] \notin {s[i] : i \in 1..k}
    <3> SUFFICES ASSUME NEW x \in DOMAIN t
                 PROVE  t[x] \in Range(s) /\ \A i \in 1..k : s[i] # t[x]
      OBVIOUS
    <3>1. t[x] = s[k + x] /\ k + x \in DOMAIN s /\ \A i \in 1..k : i \in DOMAIN s /\ i # k + x
      BY <1>1
    <3> QED  BY <3>1 DEF Range, IsInjective
  <2>2. \A x \in DOMAIN s : s[x] \notin {s[i] : i \in 1..k} => \E y \in DOMAIN t : t[y] = s[x]
    <3> SUFFICES ASSUME NEW x \in DOMAIN s, s[x] \notin {s[i] : i \in 1..k}
                 PROVE  \E y \in DOMAIN t : t[y] = s[x]
      OBVIOUS
    <3>1. x > k /\ x - k \in DOMAIN t /\ t[x - k] = s[x]
      BY <1>1
    <3> QED  BY <3>1
  <2> QED  BY <2>1, <2>2 DEF Range
<1> QED  BY <1>1, <1>2, <1>3 DEF t

-----------------------------------------------------------------------------
(* The steps. *)

\* A name that is used moves to the end of a list it is not in, in order.
LEMMA UsedLast ==
  ASSUME TypeOK, NEW s \in Seq(Names), IsInjective(s), InOrder(s), NEW n \in Names \ Range(s), Use(n)
  PROVE  LET t == Append(s, n) IN \A i, j \in DOMAIN t : i < j => t[i] \in older'[t[j]]
<1> DEFINE t == Append(s, n)
<1>1. /\ DOMAIN t = 1..(Len(s) + 1) /\ Len(s) \in Nat /\ DOMAIN s = 1..Len(s)
      /\ t[Len(s) + 1] = n /\ \A i \in 1..Len(s) : t[i] = s[i] /\ s[i] \in Names /\ s[i] # n
  BY AppendList, LenProperties DEF Range
<1> HIDE DEF t
<1>2. \A m \in Names : older'[m] = IF m = n THEN Names \ {n} ELSE older[m] \ {n}
  BY DEF Use
<1>3. ASSUME NEW i \in DOMAIN t, NEW j \in DOMAIN t, i < j
      PROVE  t[i] \in older'[t[j]]
  <2>1. i \in DOMAIN s /\ t[i] = s[i] /\ s[i] \in Names /\ s[i] # n
    BY <1>1, <1>3
  <2>2. CASE j = Len(s) + 1
    BY <2>1, <2>2, <1>1, <1>2
  <2>3. CASE j # Len(s) + 1
    <3>1. j \in DOMAIN s /\ t[j] = s[j] /\ s[j] \in Names /\ s[j] # n
      BY <1>1, <2>3
    <3> QED  BY <2>1, <3>1, <1>2, <1>3 DEF InOrder
  <2> QED  BY <2>2, <2>3
<1> QED  BY <1>3 DEF t

\* A lookup or a second insertion: the node of the name is spliced to the end.
LEMMA SpliceList ==
  ASSUME TypeOK, ListInOrderOfUse, NEW n \in Cached, lru' = ToEnd(lru, n), Use(n), Cached' = Cached
  PROVE  lru' \in Seq(Names) /\ ListInOrderOfUse'
<1> DEFINE s == Erase(lru, n)
<1>1. IsInjective(lru) /\ lru \in Seq(Names) /\ n \in Range(lru) /\ InOrder(lru) /\ Len(lru) \in Nat
  BY LenProperties DEF TypeOK, ListInOrderOfUse, InOrder
<1>2. /\ s \in Seq(Names) /\ Len(s) = Len(lru) - 1 /\ IsInjective(s) /\ Range(s) = Range(lru) \ {n}
      /\ \A i, j \in DOMAIN s : i < j => \E k, l \in DOMAIN lru : k < l /\ s[i] = lru[k] /\ s[j] = lru[l]
  BY <1>1, EraseList
<1> HIDE DEF s
<1>3. InOrder(s)
  BY <1>1, <1>2 DEF InOrder
<1>4. n \in Names \ Range(s)
  BY <1>2 DEF Cached
<1>5. lru' = Append(s, n)
  BY DEF ToEnd, s
<1>6. /\ lru' \in Seq(Names) /\ Len(lru') = Len(s) + 1 /\ IsInjective(lru')
      /\ Range(lru') = Range(s) \cup {n}
  BY <1>2, <1>4, <1>5, AppendList
<1>7. \A i, j \in DOMAIN lru' : i < j => lru'[i] \in older'[lru'[j]]
  BY <1>2, <1>3, <1>4, <1>5, UsedLast
<1>8. Range(lru') = Cached' /\ Len(lru') <= MaxSize
  BY <1>1, <1>2, <1>6, SizeAssumption DEF ListInOrderOfUse
<1> QED  BY <1>6, <1>7, <1>8 DEF ListInOrderOfUse

\* The first insertion of a name: the oldest make room.
LEMMA RoomList ==
  ASSUME TypeOK, ListInOrderOfUse, NEW n \in Names \ Cached, lru' = Append(MakeRoom.left, n), Use(n),
         Cached' = (Cached \ MakeRoom.evicted) \cup {n}
  PROVE  lru' \in Seq(Names) /\ ListInOrderOfUse'
<1> DEFINE k == IF Len(lru) >= MaxSize THEN Len(lru) - MaxSize + 1 ELSE 0
           s == SubSeq(lru, k + 1, Len(lru))
<1>1. IsInjective(lru) /\ lru \in Seq(Names) /\ InOrder(lru) /\ Len(lru) \in Nat /\ Len(lru) <= MaxSize
      /\ DOMAIN lru = 1..Len(lru) /\ Range(lru) = Cached
  BY LenProperties DEF TypeOK, ListInOrderOfUse, InOrder
<1>2. k \in 0..Len(lru) /\ Len(lru) - k + 1 <= MaxSize
  BY <1>1, SizeAssumption
<1>3. MakeRoom = [left |-> s, evicted |-> {lru[i] : i \in 1..k}]
  BY DEF MakeRoom
<1> HIDE DEF k
<1>4. /\ s \in Seq(Names) /\ Len(s) = Len(lru) - k /\ IsInjective(s)
      /\ Range(s) = Range(lru) \ {lru[i] : i \in 1..k}
      /\ DOMAIN s = 1..(Len(lru) - k) /\ \A i \in 1..(Len(lru) - k) : s[i] = lru[k + i]
  BY <1>1, <1>2, TailList
<1> HIDE DEF s
<1>5. MakeRoom.left = s /\ MakeRoom.evicted = {lru[i] : i \in 1..k}
  BY <1>3
<1>6. InOrder(s)
  <2> SUFFICES ASSUME NEW i \in DOMAIN s, NEW j \in DOMAIN s, i < j
               PROVE  s[i] \in older[s[j]]
    BY DEF InOrder
  <2>1. s[i] = lru[k + i] /\ s[j] = lru[k + j] /\ k + i < k + j /\ k + i \in DOMAIN lru /\ k + j \in DOMAIN lru
    BY <1>1, <1>2, <1>4
  <2> QED  BY <2>1, <1>1 DEF InOrder
<1>7. n \in Names \ Range(s)
  BY <1>1, <1>4
<1>8. /\ lru' \in Seq(Names) /\ Len(lru') = Len(s) + 1 /\ IsInjective(lru')
      /\ Range(lru') = Range(s) \cup {n}
  BY <1>4, <1>5, <1>7, AppendList
<1>9. \A i, j \in DOMAIN lru' : i < j => lru'[i] \in older'[lru'[j]]
  BY <1>4, <1>5, <1>6, <1>7, UsedLast
<1>10. Range(lru') = Cached'
  BY <1>1, <1>4, <1>5, <1>8
<1>11. Len(lru') <= MaxSize
  BY <1>2, <1>4, <1>8
<1> QED  BY <1>8, <1>9, <1>10, <1>11 DEF ListInOrderOfUse

\* An expired entry leaves list and map.
LEMMA ErasedList ==
  ASSUME TypeOK, ListInOrderOfUse, NEW n \in Cached, lru' = Erase(lru, n), UNCHANGED older,
         Cached' = Cached \ {n}
  PROVE  lru' \in Seq(Names) /\ ListInOrderOfUse'
<1>1. IsInjective(lru) /\ lru \in Seq(Names) /\ n \in Range(lru) /\ InOrder(lru) /\ Len(lru) \in Nat
      /\ Len(lru) <= MaxSize /\ Range(lru) = Cached
  BY LenProperties DEF TypeOK, ListInOrderOfUse, InOrder
<1>2. /\ lru' \in Seq(Names) /\ Len(lru') = Len(lru) - 1 /\ IsInjective(lru') /\ Range(lru') = Range(lru) \ {n}
      /\ \A i, j \in DOMAIN lru' : i < j => \E k, l \in DOMAIN lru : k < l /\ lru'[i] = lru[k] /\ lru'[j] = lru[l]
  BY <1>1, EraseList
<1>3. \A i, j \in DOMAIN lru' : i < j => lru'[i] \in older'[lru'[j]]
  BY <1>1, <1>2 DEF InOrder
<1>4. Range(lru') = Cached' /\ Len(lru') <= MaxSize
  BY <1>1, <1>2, SizeAssumption
<1> QED  BY <1>2, <1>3, <1>4 DEF ListInOrderOfUse

\* A step that leaves list, map and history alone.
LEMMA ListKept ==
  ASSUME ListInOrderOfUse, UNCHANGED <<lru, entry, older>>
  PROVE  ListInOrderOfUse'
  BY DEF ListInOrderOfUse, Cached

\* What is in the map has a record.
LEMMA CachedEntries ==
  ASSUME TypeOK
  PROVE  \A n \in Cached : n \in Names /\ entry[n] \in Entries /\ entry[n].expire \in Nat /\ entry[n].since \in Nat
  BY DEF TypeOK, Cached, Entries

\* Insertion under the lock.
LEMMA CommitStep ==
  ASSUME CacheInv, NEW w \in Writers, InsertCommit(w)
  PROVE  CacheInv'
<1> DEFINE i == inserting[w]
           n == i.name
           e == [expire |-> i.expire, since |-> clock]
           evicted == IF n \in Cached THEN {} ELSE MakeRoom.evicted
<1>1. i \in Insertions /\ n \in Names /\ i.expire \in Nat
  BY DEF CacheInv, TypeOK, InsertCommit, Insertions
<1>2. e \in Entries /\ e # NoEntry /\ e.since = clock
  BY <1>1, EntryAssumption DEF Entries, CacheInv, TypeOK
<1>3. \A m \in Names : entry'[m] = IF m = n THEN e ELSE IF m \in evicted THEN NoEntry ELSE entry[m]
  BY DEF InsertCommit
<1>4. entry' \in [Names -> Entries \cup {NoEntry}]
  <2>1. entry' = [m \in Names |-> IF m = n THEN e ELSE IF m \in evicted THEN NoEntry ELSE entry[m]]
    BY DEF InsertCommit
  <2> HIDE DEF e, n, evicted
  <2> QED  BY <1>2, <2>1 DEF CacheInv, TypeOK
<1>u. /\ UNCHANGED <<clock, cleaner, now, wake, running, owner>> /\ Use(n)
      /\ inserting' = [inserting EXCEPT ![w] = NoEntry]
      /\ lru' = IF n \in Cached THEN ToEnd(lru, n) ELSE Append(MakeRoom.left, n)
  BY DEF InsertCommit
<1> HIDE DEF i, n, e, evicted
<1>5. Cached' = (Cached \ evicted) \cup {n}
  BY <1>1, <1>2, <1>3 DEF Cached
<1>6. lru' \in Seq(Names) /\ ListInOrderOfUse'
  <2>1. CASE n \in Cached
    <3>1. Cached' = Cached
      BY <1>5, <2>1 DEF evicted
    <3> QED  BY <1>u, <2>1, <3>1, SpliceList DEF CacheInv
  <2>2. CASE n \notin Cached
    <3>1. Cached' = (Cached \ MakeRoom.evicted) \cup {n}
      BY <1>5, <2>2 DEF evicted
    <3> QED  BY <1>1, <1>u, <2>2, <3>1, RoomList DEF CacheInv
  <2> QED  BY <2>1, <2>2
<1>7. older' \in [Names -> SUBSET Names] /\ inserting' \in [Writers -> Insertions \cup {NoEntry}]
  BY <1>u DEF Use, CacheInv, TypeOK
<1>8. TypeOK'
  BY <1>4, <1>6, <1>7, <1>u DEF CacheInv, TypeOK
<1>9. \A m \in Cached' : (m \in Cached /\ entry'[m] = entry[m]) \/ entry'[m].since = clock
  BY <1>1, <1>2, <1>3, <1>5 DEF Cached
<1>10. Swept'
  <2>1. cleaner \in {"top", "sleep"} => \A m \in Cached' : now <= entry'[m].expire \/ now <= entry'[m].since
    BY <1>9 DEF CacheInv, Swept
  <2> QED  BY <2>1, <1>u DEF CacheInv, Swept
<1>11. StaleAtMostOneInterval'
  <2>1. clock <= clock + Interval
    BY TimeAssumption DEF CacheInv, TypeOK
  <2>2. cleaner # "done" => \A m \in Cached' : \/ clock <= entry'[m].expire + Interval
                                               \/ clock <= entry'[m].since + Interval
    BY <1>9, <2>1 DEF CacheInv, StaleAtMostOneInterval
  <2> QED  BY <2>2, <1>u DEF StaleAtMostOneInterval
<1> QED  BY <1>6, <1>8, <1>10, <1>11 DEF CacheInv

\* Every step keeps the invariant.
LEMMA CacheStep ==
  ASSUME CacheInv, [Next]_vars
  PROVE  CacheInv'
<1> USE DEF CacheInv
<1>e. \A n \in Cached : n \in Names /\ entry[n] \in Entries /\ entry[n].expire \in Nat /\ entry[n].since \in Nat
  BY CachedEntries
<1>c. clock \in Nat /\ now \in Nat /\ Interval \in Nat
  BY TimeAssumption DEF TypeOK
<1>1. ASSUME NEW w \in Writers, NEW n \in Names, NEW f \in Freshness, InsertBegin(w, n, f)
      PROVE  CacheInv'
  <2>1. [name |-> n, expire |-> clock + f] \in Insertions
    BY <1>c, TimeAssumption DEF Insertions
  <2>2. inserting' \in [Writers -> Insertions \cup {NoEntry}]
    BY <1>1, <2>1 DEF InsertBegin, TypeOK
  <2>3. UNCHANGED <<clock, entry, lru, cleaner, now, wake, running, owner, older>>
    BY <1>1 DEF InsertBegin
  <2>4. TypeOK' /\ Swept' /\ StaleAtMostOneInterval'
    BY <2>2, <2>3 DEF TypeOK, Swept, StaleAtMostOneInterval, Cached
  <2> QED  BY <2>3, <2>4, ListKept
<1>2. ASSUME NEW n \in Names, GetCertificate(n)
      PROVE  CacheInv'
  <2>1. UNCHANGED <<clock, entry, inserting, cleaner, now, wake, running, owner>> /\ Use(n) /\ n \in Cached
        /\ lru' = ToEnd(lru, n)
    BY <1>2 DEF GetCertificate
  <2>2. Cached' = Cached
    BY <2>1 DEF Cached
  <2>3. lru' \in Seq(Names) /\ ListInOrderOfUse'
    BY <2>1, <2>2, SpliceList
  <2>4. older' \in [Names -> SUBSET Names]
    BY <2>1 DEF Use, TypeOK
  <2>5. TypeOK' /\ Swept' /\ StaleAtMostOneInterval'
    BY <2>1, <2>2, <2>3, <2>4 DEF TypeOK, Swept, StaleAtMostOneInterval
  <2> QED  BY <2>3, <2>5
<1>3. ASSUME NEW n \in Names, CleanErase(n)
      PROVE  CacheInv'
  <2>1. /\ UNCHANGED <<clock, inserting, cleaner, now, wake, running, owner, older>> /\ n \in Cached
        /\ lru' = Erase(lru, n) /\ entry' = [entry EXCEPT ![n] = NoEntry] /\ cleaner = "erase"
    BY <1>3 DEF CleanErase, Expired
  <2>2. Cached' = Cached \ {n} /\ \A m \in Cached' : entry'[m] = entry[m]
    BY <2>1 DEF Cached, TypeOK
  <2>3. lru' \in Seq(Names) /\ ListInOrderOfUse'
    BY <2>1, <2>2, ErasedList
  <2>4. TypeOK'
    BY <2>1, <2>3 DEF TypeOK
  <2>5. Swept' /\ StaleAtMostOneInterval'
    BY <2>1, <2>2 DEF Swept, StaleAtMostOneInterval
  <2> QED  BY <2>3, <2>4, <2>5
<1>4. CASE CleanTop
  <2>1. /\ UNCHANGED <<clock, entry, lru, inserting, wake, older>>
        /\ (cleaner' = "scan" /\ now' = clock) \/ (cleaner' = "done" /\ now' = now)
        /\ cleaner = "top"
    BY <1>4 DEF CleanTop
  <2>2. TypeOK' /\ Swept'
    BY <2>1, <1>c DEF TypeOK, Swept
  <2>3. StaleAtMostOneInterval'
    BY <2>1 DEF StaleAtMostOneInterval, Cached
  <2> QED  BY <2>1, <2>2, <2>3, ListKept
<1>5. CASE CleanLock
  <2>1. UNCHANGED <<clock, entry, lru, inserting, now, wake, older>> /\ cleaner = "scan" /\ cleaner' = "erase"
    BY <1>5 DEF CleanLock
  <2>2. TypeOK' /\ Swept' /\ StaleAtMostOneInterval'
    BY <2>1 DEF TypeOK, Swept, StaleAtMostOneInterval, Cached
  <2> QED  BY <2>1, <2>2, ListKept
<1>6. CASE CleanUnlock
  <2>1. /\ UNCHANGED <<clock, entry, lru, inserting, now, older>> /\ cleaner = "erase" /\ cleaner' = "sleep"
        /\ wake' = clock + Interval /\ \A n \in Cached : ~ (now > entry[n].expire)
    BY <1>6 DEF CleanUnlock, Expired
  <2>2. TypeOK'
    BY <2>1, <1>c DEF TypeOK
  <2>3. \A n \in Cached : now <= entry[n].expire
    BY <2>1, <1>e, <1>c
  <2>4. Swept'
    BY <2>1, <2>3, <1>c DEF Swept, Cached
  <2>5. StaleAtMostOneInterval'
    BY <2>1 DEF StaleAtMostOneInterval, Cached
  <2> QED  BY <2>1, <2>2, <2>4, <2>5, ListKept
<1>7. CASE CleanWake
  <2>1. UNCHANGED <<clock, entry, lru, inserting, now, wake, older>> /\ cleaner = "sleep" /\ cleaner' \in {"done", "top"}
    BY <1>7 DEF CleanWake
  <2>2. TypeOK' /\ Swept' /\ StaleAtMostOneInterval'
    BY <2>1 DEF TypeOK, Swept, StaleAtMostOneInterval, Cached
  <2> QED  BY <2>1, <2>2, ListKept
<1>8. CASE Tick
  <2>1. UNCHANGED <<entry, lru, inserting, cleaner, now, wake, older>> /\ clock' = clock + 1
        /\ (cleaner = "done" \/ (cleaner = "sleep" /\ clock < wake))
    BY <1>8 DEF Tick
  <2>2. TypeOK' /\ Swept'
    BY <2>1, <1>c DEF TypeOK, Swept, Cached
  <2>3. StaleAtMostOneInterval'
    <3> SUFFICES ASSUME cleaner = "sleep", NEW n \in Cached
                 PROVE  clock' <= entry[n].expire + Interval \/ clock' <= entry[n].since + Interval
      BY <2>1 DEF StaleAtMostOneInterval, Cached
    <3>1. clock' <= now + Interval /\ (now <= entry[n].expire \/ now <= entry[n].since)
      BY <2>1, <1>c DEF Swept
    <3> QED  BY <3>1, <1>e, <1>c, <2>1
  <2> QED  BY <2>1, <2>2, <2>3, ListKept
<1>9. CASE Shutdown \/ Join \/ UNCHANGED vars
  <2>1. UNCHANGED <<clock, entry, lru, inserting, cleaner, now, wake, older>>
    BY <1>9 DEF Shutdown, Join, vars
  <2>2. TypeOK' /\ Swept' /\ StaleAtMostOneInterval'
    BY <2>1 DEF TypeOK, Swept, StaleAtMostOneInterval, Cached
  <2> QED  BY <2>1, <2>2, ListKept
<1> QED
  BY <1>1, <1>2, <1>3, <1>4, <1>5, <1>6, <1>7, <1>8, <1>9, CommitStep DEF Next

\* CacheInv is an invariant.
LEMMA Invariance == Spec => []CacheInv
<1>1. Init => CacheInv
  <2> SUFFICES ASSUME Init  PROVE CacheInv
    OBVIOUS
  <2>1. Cached = {} /\ lru = <<>> /\ Range(lru) = {} /\ DOMAIN lru = {} /\ Len(lru) = 0
    BY DEF Init, Cached, Range
  <2>2. TypeOK
    BY DEF Init, TypeOK
  <2>3. ListInOrderOfUse
    BY <2>1, SizeAssumption DEF ListInOrderOfUse, IsInjective
  <2>4. Swept /\ StaleAtMostOneInterval
    BY <2>1, TimeAssumption DEF Init, Swept, StaleAtMostOneInterval
  <2> QED  BY <2>2, <2>3, <2>4 DEF CacheInv
<1>2. CacheInv /\ [Next]_vars => CacheInv'
  BY CacheStep
<1> QED  BY <1>1, <1>2, PTL DEF Spec

\* m_lruList holds the names of m_cache once each, in the order of their last
\* use and never more than m_maxSize, whatever threads interleave (ListInOrderOfUse).
THEOREM ListStaysInOrderOfUse == Spec => []ListInOrderOfUse
<1>1. CacheInv => ListInOrderOfUse
  BY DEF CacheInv
<1> QED  BY <1>1, Invariance, PTL

\* While the cleaning thread lives, an entry outlives its expiry, or its late
\* insertion, by at most m_interval (StaleAtMostOneInterval).
THEOREM StaleEntriesAreBounded == Spec => []StaleAtMostOneInterval
<1>1. CacheInv => StaleAtMostOneInterval
  BY DEF CacheInv
<1> QED  BY <1>1, Invariance, PTL
=============================================================================
