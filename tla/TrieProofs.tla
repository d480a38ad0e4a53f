----------------------------- MODULE TrieProofs -----------------------------
(***************************************************************************)
(* TrieWithPolicy, for every set of names, every policy and all bounds: the *)
(* container and the trie agree after every call, the trie has exactly the  *)
(* nodes it needs, lookups find what they should, and undefined behaviour   *)
(* is confined to the empty name.                                           *)
(***************************************************************************)
EXTENDS TrieWithPolicy, TLAPS

-----------------------------------------------------------------------------
(* Lists. *)

\* Taking entry j out of a list without repetitions takes out that name only.
LEMMA UnlinkedFacts ==
  ASSUME NEW s \in Seq(Names), Distinct(s), NEW j \in 1..Len(s)
  PROVE  /\ Unlinked(s, j) \in Seq(Names)
         /\ Len(Unlinked(s, j)) = Len(s) - 1
         /\ Distinct(Unlinked(s, j))
         /\ Entries(Unlinked(s, j)) = Entries(s) \ {s[j]}
<1> DEFINE t == Unlinked(s, j)
<1>1. t \in Seq(Names) /\ Len(t) = Len(s) - 1
  BY DEF Unlinked
<1>2. \A i \in 1..(Len(s) - 1) : t[i] = IF i < j THEN s[i] ELSE s[i + 1]
  BY DEF Unlinked
<1> HIDE DEF t
<1>3. Distinct(t)
  BY <1>1, <1>2 DEF Distinct
<1>4. \A x \in Entries(t) : x \in Entries(s) \ {s[j]}
  BY <1>1, <1>2 DEF Entries, Distinct
<1>5. ASSUME NEW i \in 1..Len(s), i # j  PROVE s[i] \in Entries(t)
  <2>1. CASE i < j
    BY <1>1, <1>2, <2>1 DEF Entries
  <2>2. CASE i > j
    <3>1. i - 1 \in 1..Len(t) /\ t[i - 1] = s[i]
      BY <1>1, <1>2, <2>2
    <3> QED BY <3>1 DEF Entries
  <2> QED BY <1>5, <2>1, <2>2
<1>6. \A x \in Entries(s) \ {s[j]} : x \in Entries(t)
  BY <1>5 DEF Entries
<1> QED BY <1>1, <1>3, <1>4, <1>6 DEF t

\* Linking a name that is not in a list without repetitions adds that name only.
LEMMA LinkedAtFacts ==
  ASSUME NEW s \in Seq(Names), Distinct(s), NEW p \in 1..(Len(s) + 1),
         NEW n \in Names, n \notin Entries(s)
  PROVE  /\ LinkedAt(s, p, n) \in Seq(Names)
         /\ Len(LinkedAt(s, p, n)) = Len(s) + 1
         /\ Distinct(LinkedAt(s, p, n))
         /\ Entries(LinkedAt(s, p, n)) = Entries(s) \cup {n}
<1> DEFINE t == LinkedAt(s, p, n)
<1>1. t \in Seq(Names) /\ Len(t) = Len(s) + 1
  BY DEF LinkedAt
<1>2. \A i \in 1..(Len(s) + 1) : t[i] = IF i < p THEN s[i] ELSE IF i = p THEN n ELSE s[i - 1]
  BY DEF LinkedAt
<1> HIDE DEF t
<1>3. \A i \in 1..Len(s) : s[i] # n
  BY DEF Entries
<1>4. Distinct(t)
  <2> SUFFICES ASSUME NEW i \in 1..Len(t), NEW k \in 1..Len(t), t[i] = t[k], i < k
               PROVE  FALSE
    BY <1>1 DEF Distinct
  <2>0. i \in Nat /\ k \in Nat /\ p \in Nat
    BY <1>1
  <2>1. CASE k < p
    BY <1>1, <1>2, <2>1 DEF Distinct
  <2>2. CASE i = p \/ k = p
    BY <1>1, <1>2, <1>3, <2>2
  <2>3. CASE i < p /\ k > p
    <3>1. t[i] = s[i] /\ t[k] = s[k - 1] /\ i \in 1..Len(s) /\ k - 1 \in 1..Len(s) /\ i # k - 1
      BY <1>1, <1>2, <2>3
    <3> QED BY <3>1 DEF Distinct
  <2>4. CASE i > p
    <3>1. /\ t[i] = s[i - 1] /\ t[k] = s[k - 1] /\ i - 1 # k - 1
          /\ i - 1 \in 1..Len(s) /\ k - 1 \in 1..Len(s)
      BY <1>1, <1>2, <2>4
    <3> QED BY <3>1 DEF Distinct
  <2>5. k < p \/ (i = p \/ k = p) \/ (i < p /\ k > p) \/ i > p
    BY <2>0
  <2> QED BY <2>1, <2>2, <2>3, <2>4, <2>5
<1>5. ASSUME NEW i \in 1..Len(t)  PROVE t[i] \in Entries(s) \cup {n}
  <2>1. CASE i < p
    BY <1>1, <1>2, <2>1 DEF Entries
  <2>2. CASE i = p
    BY <1>1, <1>2, <2>2
  <2>3. CASE i > p
    <3>1. t[i] = s[i - 1] /\ i - 1 \in 1..Len(s)
      BY <1>1, <1>2, <2>3
    <3> QED BY <3>1 DEF Entries
  <2> QED BY <2>1, <2>2, <2>3
<1>6. n \in Entries(t)
  BY <1>1, <1>2 DEF Entries
<1>7. ASSUME NEW i \in 1..Len(s)  PROVE s[i] \in Entries(t)
  <2>1. CASE i < p
    BY <1>1, <1>2, <2>1 DEF Entries
  <2>2. CASE i >= p
    <3>1. i + 1 \in 1..Len(t) /\ t[i + 1] = s[i]
      BY <1>1, <1>2, <2>2
    <3> QED BY <3>1 DEF Entries
  <2> QED BY <2>1, <2>2
<1>8. \A x \in Entries(s) : x \in Entries(t)
  BY <1>7 DEF Entries
<1>9. \A x \in Entries(t) : x \in Entries(s) \cup {n}
  BY <1>5 DEF Entries
<1> QED BY <1>1, <1>4, <1>6, <1>8, <1>9 DEF t

\* A sorted list stays sorted when an entry is taken out ...
LEMMA UnlinkedSorted ==
  ASSUME NEW s \in Seq(Names), NEW j \in 1..Len(s), NEW f \in [Names -> Nat], Sorted(s, f)
  PROVE  Sorted(Unlinked(s, j), f)
<1> DEFINE t == Unlinked(s, j)
<1>0. t \in Seq(Names) /\ Len(t) = Len(s) - 1
  BY DEF Unlinked
<1>1. \A i \in 1..Len(t) : t[i] = IF i < j THEN s[i] ELSE s[i + 1]
  BY DEF Unlinked
<1> HIDE DEF t
<1> SUFFICES ASSUME NEW i \in 1..Len(t), NEW k \in 1..Len(t), i < k
             PROVE  f[t[i]] <= f[t[k]]
  BY DEF Sorted, t
<1>2. /\ Len(s) \in Nat /\ Len(t) = Len(s) - 1
      /\ i \in Nat /\ k \in Nat /\ j \in Nat /\ 1 <= i /\ k <= Len(t) /\ 1 <= j /\ j <= Len(s)
  BY <1>0
<1>3. CASE k < j
  <2>1. t[i] = s[i] /\ t[k] = s[k] /\ i \in 1..Len(s) /\ k \in 1..Len(s)
    BY <1>1, <1>2, <1>3
  <2> QED BY <2>1 DEF Sorted
<1>4. CASE i < j /\ k >= j
  <2>1. t[i] = s[i] /\ t[k] = s[k + 1] /\ i \in 1..Len(s) /\ k + 1 \in 1..Len(s) /\ i < k + 1
    BY <1>1, <1>2, <1>4
  <2> QED BY <2>1 DEF Sorted
<1>5. CASE i >= j
  <2>1. /\ t[i] = s[i + 1] /\ t[k] = s[k + 1] /\ i + 1 < k + 1
        /\ i + 1 \in 1..Len(s) /\ k + 1 \in 1..Len(s)
    BY <1>1, <1>2, <1>5
  <2> QED BY <2>1 DEF Sorted
<1> QED BY <1>2, <1>3, <1>4, <1>5

\* ... and when a name is put behind all that are used as rarely.
LEMMA LinkedAtSorted ==
  ASSUME NEW s \in Seq(Names), NEW p \in 1..(Len(s) + 1), NEW n \in Names,
         NEW f \in [Names -> Nat], Sorted(s, f),
         \A i \in 1..(p - 1) : f[s[i]] <= f[n],
         p <= Len(s) => f[s[p]] > f[n]
  PROVE  Sorted(LinkedAt(s, p, n), f)
<1> DEFINE t == LinkedAt(s, p, n)
<1>1. /\ t \in Seq(Names) /\ Len(t) = Len(s) + 1
      /\ \A i \in 1..(Len(s) + 1) : t[i] = IF i < p THEN s[i] ELSE IF i = p THEN n ELSE s[i - 1]
  BY DEF LinkedAt
<1> HIDE DEF t
<1>2. \A i \in 1..Len(s) : s[i] \in Names /\ f[s[i]] \in Nat
  OBVIOUS
<1>3. f[n] \in Nat
  OBVIOUS
<1>4. \A i \in 1..Len(s) : i >= p => f[s[i]] > f[n]
  BY <1>2, <1>3 DEF Sorted
<1> SUFFICES ASSUME NEW i \in 1..Len(t), NEW k \in 1..Len(t), i < k
             PROVE  f[t[i]] <= f[t[k]]
  BY DEF Sorted, t
<1>5. Len(s) \in Nat /\ Len(t) \in Nat /\ i \in Nat /\ k \in Nat /\ p \in Nat
  BY <1>1
<1>6. CASE k < p
  <2>1. t[i] = s[i] /\ t[k] = s[k] /\ i \in 1..Len(s) /\ k \in 1..Len(s)
    BY <1>1, <1>5, <1>6
  <2> QED BY <2>1 DEF Sorted
<1>7. CASE k = p
  <2>1. t[i] = s[i] /\ t[k] = n /\ i \in 1..(p - 1)
    BY <1>1, <1>5, <1>7
  <2> QED BY <2>1
<1>8. CASE i = p
  <2>1. t[i] = n /\ t[k] = s[k - 1] /\ k - 1 \in 1..Len(s) /\ k - 1 >= p
    BY <1>1, <1>5, <1>8
  <2>2. f[s[k - 1]] > f[n] /\ f[s[k - 1]] \in Nat
    BY <2>1, <1>2, <1>4
  <2> QED BY <2>1, <2>2, <1>3
<1>9. CASE i < p /\ k > p
  <2>1. t[i] = s[i] /\ t[k] = s[k - 1] /\ i \in 1..(p - 1) /\ k - 1 \in 1..Len(s) /\ k - 1 >= p
    BY <1>1, <1>5, <1>9
  <2>2. f[s[i]] <= f[n] /\ f[s[k - 1]] > f[n] /\ f[s[i]] \in Nat /\ f[s[k - 1]] \in Nat
    <3>1. i \in 1..Len(s)
      BY <2>1, <1>5
    <3> QED BY <2>1, <3>1, <1>2, <1>4
  <2> QED BY <2>1, <2>2, <1>3
<1>10. CASE i > p
  <2>1. /\ t[i] = s[i - 1] /\ t[k] = s[k - 1] /\ i - 1 < k - 1
        /\ i - 1 \in 1..Len(s) /\ k - 1 \in 1..Len(s)
    BY <1>1, <1>5, <1>10
  <2> QED BY <2>1 DEF Sorted
<1> QED BY <1>5, <1>6, <1>7, <1>8, <1>9, <1>10

\* A list is as sorted as it was when only the frequency of other names changes.
LEMMA SortedElsewhere ==
  ASSUME NEW s \in Seq(Names), NEW f, NEW g,
         \A i \in 1..Len(s) : g[s[i]] = f[s[i]], Sorted(s, f)
  PROVE  Sorted(s, g)
BY DEF Sorted

-----------------------------------------------------------------------------
(* Names. *)

LEMMA RootPrefixes == Pre[Root] = {Root}
BY PrefixAssumption

\* Every non-empty set of prefixes of a name has a longest one, which Found names.
LEMMA FoundLongest ==
  ASSUME NEW k \in Names, NEW c \in SUBSET Names
  PROVE  LET hits == Walked(k) \cap c IN
         IF hits = {} THEN Found(k, c) = NoNode
         ELSE Found(k, c) \in hits /\ hits \subseteq Pre[Found(k, c)]
<1> DEFINE hits == Walked(k) \cap c
<1>1. hits \in SUBSET Pre[k]
  BY PrefixAssumption DEF Walked
<1>2. hits # {} => \E m \in hits : hits \subseteq Pre[m]
  <2> HIDE DEF hits
  <2> QED BY <1>1, PrefixAssumption
<1> QED BY <1>2 DEF Found

\* Adding a name to the trie adds the nodes on the way to it.
LEMMA CoverAdd ==
  ASSUME NEW st \in SUBSET Names, NEW n \in Names
  PROVE  Cover(st) \cup Pre[n] = Cover(st \cup {n})
BY DEF Cover

\* prune() after n lost its payload leaves what the other payloads need.
LEMMA PruneExact ==
  ASSUME NEW st \in SUBSET Names, NEW n \in Names
  PROVE  Prune(Cover(st \cup {n}), st, n) = Cover(st)
<1> DEFINE ns == Cover(st \cup {n})
<1>1. ASSUME NEW x \in Prune(ns, st, n)  PROVE x \in Cover(st)
  <2>1. x \in ns
    BY DEF Prune
  <2>2. CASE x \notin Pre[n]
    BY <2>1, <2>2 DEF Cover
  <2>3. CASE x = Root
    BY <2>3 DEF Cover
  <2>4. CASE \E m \in ns : x \in Pre[m] /\ (m \in st \/ m \notin Pre[n])
    <3>1. PICK m \in ns : x \in Pre[m] /\ (m \in st \/ m \notin Pre[n])
      BY <2>4
    <3>2. CASE m \in st
      BY <3>1, <3>2 DEF Cover
    <3>3. CASE m = Root
      BY <3>1, <3>3, RootPrefixes DEF Cover
    <3>4. CASE m \notin Pre[n] /\ m # Root
      <4>1. PICK l \in st : m \in Pre[l]
        BY <3>4 DEF Cover
      <4>2. Pre[m] \subseteq Pre[l]
        BY <4>1, PrefixAssumption
      <4> QED BY <3>1, <4>1, <4>2 DEF Cover
    <3> QED BY <3>1, <3>2, <3>3, <3>4
  <2> QED BY <2>2, <2>3, <2>4 DEF Prune
<1>2. ASSUME NEW x \in Cover(st)  PROVE x \in Prune(ns, st, n)
  <2>1. x \in ns
    BY DEF Cover
  <2>2. CASE x = Root
    BY <2>1, <2>2 DEF Prune
  <2>3. CASE x # Root
    <3>1. PICK l \in st : x \in Pre[l]
      BY <2>3 DEF Cover
    <3>2. l \in ns
      BY <3>1, PrefixAssumption DEF Cover
    <3> QED BY <2>1, <3>1, <3>2 DEF Prune
  <2> QED BY <2>2, <2>3
<1> QED BY <1>1, <1>2

\* A node with a payload is reached by walking down to it.
LEMMA StoredWalked ==
  ASSUME Pruned, stored \subseteq Names, NEW k \in Names
  PROVE  /\ Walked(k) \cap stored = Pre[k] \cap stored
         /\ k \in Walked(k) <=> k \in nodes
<1>1. ASSUME NEW m \in nodes  PROVE Pre[m] \subseteq nodes
  BY RootPrefixes, PrefixAssumption DEF Pruned, Cover
<1>2. stored \subseteq nodes
  BY PrefixAssumption DEF Pruned, Cover
<1> QED BY <1>1, <1>2, PrefixAssumption DEF Walked

-----------------------------------------------------------------------------
(* The inductive invariant. *)

TrieInv == TypeOK /\ LinkedOnce /\ Pruned /\ LookupsAnswer /\ CrashNeedsRoot

\* What a call may do to the container and must keep true of it.
Sound(s, f) == /\ s \in Seq(Names) /\ Len(s) <= MaxStored /\ Distinct(s)
               /\ f \in [Names -> 0..MaxFreq]
               /\ policy = "lfu" => Sorted(s, f)

\* Linking n, with frequency x, into a sound container that does not have it.
LEMMA LinkSound ==
  ASSUME NEW s, NEW f, Sound(s, f), NEW n \in Names, n \notin Entries(s), Len(s) < MaxStored,
         NEW p \in 1..(Len(s) + 1), NEW x \in 0..MaxFreq,
         policy = "lfu" => /\ \A i \in 1..(p - 1) : f[s[i]] <= x
                           /\ p <= Len(s) => f[s[p]] > x
  PROVE  /\ Sound(LinkedAt(s, p, n), [f EXCEPT ![n] = x])
         /\ Entries(LinkedAt(s, p, n)) = Entries(s) \cup {n}
<1> DEFINE g == [f EXCEPT ![n] = x]
<1>1. /\ LinkedAt(s, p, n) \in Seq(Names)
      /\ Len(LinkedAt(s, p, n)) = Len(s) + 1
      /\ Distinct(LinkedAt(s, p, n))
      /\ Entries(LinkedAt(s, p, n)) = Entries(s) \cup {n}
  BY LinkedAtFacts DEF Sound
<1>2. g \in [Names -> 0..MaxFreq] /\ g[n] = x /\ \A i \in 1..Len(s) : g[s[i]] = f[s[i]]
  BY DEF Sound, Entries
<1>3. ASSUME policy = "lfu"  PROVE Sorted(LinkedAt(s, p, n), g)
  <2>1. g \in [Names -> Nat] /\ s \in Seq(Names) /\ Len(s) \in Nat
    BY <1>2, BoundAssumption DEF Sound
  <2> HIDE DEF g
  <2>2. Sorted(s, g)
    <3>1. Sorted(s, f)
      BY <1>3 DEF Sound
    <3> QED BY <1>2, <2>1, <3>1, SortedElsewhere
  <2>3. /\ \A i \in 1..(p - 1) : g[s[i]] <= g[n]
        /\ p <= Len(s) => g[s[p]] > g[n]
    BY <1>2, <1>3, <2>1
  <2> QED BY <2>1, <2>2, <2>3, LinkedAtSorted
<1>4. Len(LinkedAt(s, p, n)) <= MaxStored
  BY <1>1, BoundAssumption DEF Sound
<1> QED BY <1>1, <1>2, <1>3, <1>4 DEF Sound

\* Unlinking entry j, with any new frequency for it.
LEMMA UnlinkSound ==
  ASSUME NEW s, NEW f, Sound(s, f), NEW j \in 1..Len(s), NEW x \in 0..MaxFreq
  PROVE  /\ Sound(Unlinked(s, j), [f EXCEPT ![s[j]] = x])
         /\ Sound(Unlinked(s, j), f)
         /\ Entries(Unlinked(s, j)) = Entries(s) \ {s[j]}
         /\ Len(Unlinked(s, j)) = Len(s) - 1
<1> DEFINE t == Unlinked(s, j)
<1> DEFINE g == [f EXCEPT ![s[j]] = x]
<1>1. t \in Seq(Names) /\ Len(t) = Len(s) - 1 /\ Distinct(t) /\ Entries(t) = Entries(s) \ {s[j]}
  BY UnlinkedFacts DEF Sound
<1>2. s \in Seq(Names) /\ s[j] \in Names /\ Len(s) \in Nat /\ f \in [Names -> Nat]
  BY BoundAssumption DEF Sound
<1>3. policy = "lfu" => Sorted(t, f)
  BY <1>2, UnlinkedSorted DEF Sound
<1>4. g \in [Names -> 0..MaxFreq]
  BY DEF Sound
<1>5. \A i \in 1..Len(t) : g[t[i]] = f[t[i]]
  <2> SUFFICES ASSUME NEW i \in 1..Len(t)  PROVE g[t[i]] = f[t[i]]
    OBVIOUS
  <2>1. t[i] \in Entries(t) /\ t[i] \in Names
    <3> HIDE DEF t
    <3> QED BY <1>1 DEF Entries
  <2>2. t[i] # s[j]
    BY <2>1, <1>1
  <2> QED BY <2>1, <2>2, <1>2
<1>6. policy = "lfu" => Sorted(t, g)
  <2> HIDE DEF t, g
  <2> QED BY <1>1, <1>3, <1>5, SortedElsewhere
<1>7. Len(t) <= MaxStored
  BY <1>1, <1>2, BoundAssumption DEF Sound
<1> QED BY <1>1, <1>3, <1>4, <1>6, <1>7 DEF Sound

\* update() and lookup() keep the container sound, and its entries.
LEMMA RelocateSound ==
  ASSUME Sound(order, freq), NEW n \in Names, Relocate(n)
  PROVE  Sound(order', freq') /\ Entries(order') = Entries(order)
<1>1. CASE ~ MovesEntries
  BY <1>1 DEF Relocate
<1>2. CASE MovesEntries
  <2> DEFINE f == IF policy = "lfu" THEN freq[n] + 1 ELSE 0
  <2>1. PICK j \in 1..Len(order), p \in 1..Len(order) :
           /\ order[j] = n /\ f <= MaxFreq
           /\ Place(Unlinked(order, j), p, f)
           /\ order' = LinkedAt(Unlinked(order, j), p, n)
           /\ freq' = [freq EXCEPT ![n] = f]
    BY <1>2 DEF Relocate
  <2>2. f \in 0..MaxFreq
    BY <2>1, BoundAssumption DEF Sound
  <2> HIDE DEF f
  <2> DEFINE s == Unlinked(order, j)
  <2>3. 0 \in 0..MaxFreq
    BY BoundAssumption
  <2>4. Sound(s, freq) /\ Entries(s) = Entries(order) \ {n} /\ Len(s) = Len(order) - 1
    BY <2>1, <2>3, UnlinkSound
  <2>5. order \in Seq(Names) /\ Len(order) \in Nat /\ Len(order) <= MaxStored
    BY DEF Sound
  <2>6. n \notin Entries(s) /\ Len(s) < MaxStored /\ p \in 1..(Len(s) + 1)
    BY <2>4, <2>5, BoundAssumption
  <2>7. policy = "lfu" => /\ \A i \in 1..(p - 1) : freq[s[i]] <= f
                          /\ p <= Len(s) => freq[s[p]] > f
    BY <2>1 DEF Place
  <2>8. /\ Sound(LinkedAt(s, p, n), [freq EXCEPT ![n] = f])
        /\ Entries(LinkedAt(s, p, n)) = Entries(s) \cup {n}
    <3> HIDE DEF s
    <3> QED BY <2>2, <2>4, <2>6, <2>7, LinkSound
  <2>9. n \in Entries(order)
    BY <2>1 DEF Entries
  <2> QED BY <2>1, <2>4, <2>8, <2>9
<1> QED BY <1>1, <1>2

-----------------------------------------------------------------------------
(* One lemma per operation. *)

LEMMA InitInv == Init => TrieInv
<1> SUFFICES ASSUME Init PROVE TrieInv
  OBVIOUS
<1>1. TypeOK
  BY PrefixAssumption, BoundAssumption DEF Init, TypeOK, Nothing
<1>2. LinkedOnce
  BY DEF Init, LinkedOnce, Linked, Entries, Distinct, Sorted
<1>3. Pruned
  BY DEF Init, Pruned, Cover
<1>4. LookupsAnswer /\ CrashNeedsRoot
  BY DEF Init, Nothing, LookupsAnswer, CrashNeedsRoot
<1> QED BY <1>1, <1>2, <1>3, <1>4 DEF TrieInv

LEMMA SoundNow == ASSUME TypeOK, LinkedOnce PROVE Sound(order, freq)
BY DEF TypeOK, LinkedOnce, Sound

\* The invariant follows from the parts a step has to establish.
LEMMA SoundNext ==
  ASSUME TypeOK, policy' = policy, Sound(order', freq'),
         stored' \subseteq Names, nodes' = Cover(stored'), max' \in Sizes \cup {MaxStored},
         Entries(order') \subseteq stored', stored' \subseteq Entries(order') \cup {Root},
         answer' \in [op : {"none", "longest", "longestIf", "deepest", "deepestIf", "crash"},
                     key : Names, pred : SUBSET Names, found : Names \cup {NoNode}]
  PROVE  TypeOK' /\ LinkedOnce' /\ Pruned'
<1>1. nodes' \subseteq Names
  BY PrefixAssumption DEF Cover
<1>2. TypeOK'
  BY <1>1 DEF TypeOK, Sound
<1>3. LinkedOnce'
  BY DEF LinkedOnce, Linked, Entries, Sound
<1> QED BY <1>2, <1>3 DEF Pruned

LEMMA NothingSays ==
  ASSUME answer' = Nothing
  PROVE  /\ LookupsAnswer' /\ CrashNeedsRoot'
         /\ answer' \in [op : {"none", "longest", "longestIf", "deepest", "deepestIf", "crash"},
                        key : Names, pred : SUBSET Names, found : Names \cup {NoNode}]
BY PrefixAssumption DEF Nothing, LookupsAnswer, CrashNeedsRoot

\* The two ways to a crash the code has.
LEMMA CrashInv ==
  ASSUME TrieInv, NEW k \in Names, NEW n \in Names \cup {NoNode}, Crash(k, n),
         (n = Root /\ Root \in stored) \/ (n = NoNode /\ k = Root /\ stored = {})
  PROVE  TrieInv'
<1> USE DEF TrieInv
<1>1. /\ answer' = [op |-> "crash", key |-> k, pred |-> {}, found |-> n]
      /\ UNCHANGED <<policy, nodes, stored, order, freq, max>>
  BY DEF Crash, Nothing
<1>2. Sound(order, freq)
  BY SoundNow
<1>3. TypeOK' /\ LinkedOnce' /\ Pruned'
  BY <1>1, <1>2, SoundNext DEF TypeOK, Pruned, LinkedOnce, Linked
<1>4. LookupsAnswer' /\ CrashNeedsRoot'
  BY <1>1 DEF LookupsAnswer, CrashNeedsRoot
<1> QED BY <1>3, <1>4

LEMMA InsertInv == ASSUME TrieInv, NEW n \in Names, Insert(n) PROVE TrieInv'
<1> USE DEF TrieInv
<1>1. Sound(order, freq) /\ order \in Seq(Names) /\ Len(order) \in Nat /\ 0 \in 0..MaxFreq
  BY SoundNow, BoundAssumption DEF TypeOK
<1>2. /\ policy' = policy /\ max' \in Sizes \cup {MaxStored} /\ stored \subseteq Names
      /\ nodes = Cover(stored) /\ Entries(order) \subseteq stored
      /\ stored \subseteq Entries(order) \cup {Root} /\ answer' = Nothing
  BY DEF Insert, TypeOK, Pruned, LinkedOnce, Linked
<1>3. CASE n \in stored
  <2>1. UNCHANGED <<nodes, stored, order, freq>>
    BY <1>3 DEF Insert
  <2> QED BY <1>1, <1>2, <2>1, SoundNext, NothingSays
<1>4. CASE n \notin stored /\ Refuses
  <2>1. UNCHANGED <<stored, order, freq>> /\ nodes' = Prune(nodes \cup Pre[n], stored, n)
    BY <1>4 DEF Insert, Reject, Refuses, WithPath
  <2>2. nodes' = Cover(stored)
    BY <1>2, <2>1, CoverAdd, PruneExact
  <2> QED BY <1>1, <1>2, <2>1, <2>2, SoundNext, NothingSays
<1>5. CASE n \notin stored /\ Full /\ ~ Refuses
  <2> DEFINE v == order[1]
  <2> DEFINE s == Unlinked(order, 1)
  <2> DEFINE g == [freq EXCEPT ![v] = 0]
  <2>1. 1 \in 1..Len(order)
    BY <1>1, <1>5, BoundAssumption DEF Full, TypeOK
  <2>2. /\ Sound(s, g) /\ Entries(s) = Entries(order) \ {v} /\ Len(s) = Len(order) - 1
    BY <1>1, <2>1, UnlinkSound
  <2>3. v \in Entries(order) /\ v \in stored /\ v # n
    BY <1>2, <1>5, <2>1 DEF Entries
  <2>4. PICK p \in 1..Len(order) : Place(s, p, 0) /\ order' = LinkedAt(s, p, n)
    BY <1>5 DEF Insert
  <2>5. freq' = [g EXCEPT ![n] = 0]
    BY <1>5 DEF Insert
  <2>6. p \in 1..(Len(s) + 1) /\ Len(s) < MaxStored /\ n \notin Entries(s)
    BY <1>1, <1>2, <1>5, <2>2, BoundAssumption DEF TypeOK
  <2>7. policy = "lfu" => /\ \A i \in 1..(p - 1) : g[s[i]] <= 0
                          /\ p <= Len(s) => g[s[p]] > 0
    <3>1. \A i \in 1..Len(s) : g[s[i]] = freq[s[i]]
      <4> SUFFICES ASSUME NEW i \in 1..Len(s)  PROVE g[s[i]] = freq[s[i]]
        OBVIOUS
      <4>1. s[i] \in Entries(s)
        BY DEF Entries
      <4>2. s[i] # v /\ s[i] \in Names
        BY <4>1, <2>2, <1>2
      <4>3. freq \in [Names -> 0..MaxFreq]
        BY DEF TypeOK
      <4> QED BY <4>2, <4>3
    <3>2. policy = "lfu" => /\ \A i \in 1..(p - 1) : freq[s[i]] <= 0
                            /\ p <= Len(s) => freq[s[p]] > 0
      BY <2>4 DEF Place
    <3>3. Len(s) \in Nat
      BY <2>2, <1>1, <2>1
    <3>4. \A i \in 1..(p - 1) : i \in 1..Len(s)
      BY <3>3, <2>6
    <3>5. p <= Len(s) => p \in 1..Len(s)
      BY <3>3, <2>6
    <3> HIDE DEF s, g
    <3> QED BY <3>1, <3>2, <3>4, <3>5
  <2>8. Sound(order', freq') /\ Entries(order') = Entries(s) \cup {n}
    <3> HIDE DEF s, g
    <3> QED BY <2>2, <2>4, <2>5, <2>6, <2>7, <1>1, LinkSound
  <2>9. stored' = (stored \cup {n}) \ {v} /\ nodes' = Prune(nodes \cup Pre[n], stored', v)
    BY <1>5 DEF Insert, Replace, WithPath
  <2>10. nodes' = Cover(stored')
    <3>1. stored' \subseteq Names /\ v \in Names /\ stored' \cup {v} = stored \cup {n}
      BY <1>2, <2>3, <2>9
    <3>2. nodes \cup Pre[n] = Cover(stored \cup {n})
      BY <1>2, CoverAdd
    <3>3. nodes \cup Pre[n] = Cover(stored' \cup {v})
      BY <3>1, <3>2
    <3> QED BY <3>1, <3>3, <2>9, PruneExact
  <2>11. stored' \subseteq Names /\ Entries(order') \subseteq stored'
         /\ stored' \subseteq Entries(order') \cup {Root}
    <3> HIDE DEF v, s
    <3> QED BY <1>2, <2>2, <2>3, <2>8, <2>9
  <2> QED BY <1>2, <2>8, <2>10, <2>11, SoundNext, NothingSays
<1>6. CASE n \notin stored /\ ~ Full
  <2>1. PICK p \in 1..(Len(order) + 1) : Place(order, p, 0) /\ order' = LinkedAt(order, p, n)
    BY <1>6 DEF Insert, Refuses
  <2>2. freq' = [freq EXCEPT ![n] = 0] /\ stored' = stored \cup {n} /\ nodes' = nodes \cup Pre[n]
    BY <1>6 DEF Insert, Refuses, WithPath
  <2>3. Len(order) < MaxStored /\ n \notin Entries(order)
    BY <1>2, <1>6 DEF Insert
  <2>4. policy = "lfu" => /\ \A i \in 1..(p - 1) : freq[order[i]] <= 0
                          /\ p <= Len(order) => freq[order[p]] > 0
    BY <2>1 DEF Place
  <2>5. Sound(order', freq') /\ Entries(order') = Entries(order) \cup {n}
    BY <1>1, <2>1, <2>2, <2>3, <2>4, LinkSound
  <2>6. nodes' = Cover(stored')
    BY <1>2, <2>2, CoverAdd
  <2> QED BY <1>2, <2>2, <2>5, <2>6, SoundNext, NothingSays
<1> QED BY <1>3, <1>4, <1>5, <1>6

LEMMA EraseInv == ASSUME TrieInv, NEW n \in Names, Erase(n) PROVE TrieInv'
<1> USE DEF TrieInv
<1>1. Sound(order, freq) /\ 0 \in 0..MaxFreq
  BY SoundNow, BoundAssumption
<1>2. /\ stored \subseteq Names /\ max \in Sizes \cup {MaxStored}
      /\ nodes = Cover(stored) /\ Entries(order) \subseteq stored
      /\ stored \subseteq Entries(order) \cup {Root}
  BY DEF TypeOK, Pruned, LinkedOnce, Linked
<1>3. CASE n \in Walked(n) \cap stored /\ n \in Linked
  <2>1. PICK j \in 1..Len(order) : order[j] = n /\ order' = Unlinked(order, j)
    BY <1>3 DEF Erase
  <2>2. /\ freq' = [freq EXCEPT ![n] = 0] /\ answer' = Nothing /\ policy' = policy /\ max' = max
        /\ stored' = stored \ {n} /\ nodes' = Prune(nodes, stored \ {n}, n)
    BY <1>3 DEF Erase
  <2>3. Sound(order', freq') /\ Entries(order') = Entries(order) \ {n}
    BY <1>1, <2>1, <2>2, UnlinkSound
  <2>4. nodes' = Cover(stored')
    <3>1. (stored \ {n}) \cup {n} = stored
      BY <1>3
    <3> QED BY <1>2, <2>2, <3>1, PruneExact
  <2> QED BY <1>2, <2>2, <2>3, <2>4, SoundNext, NothingSays
<1>4. CASE n \in (Walked(n) \cap stored) \ Linked
  <2>1. Crash(n, n)
    BY <1>4 DEF Erase
  <2>2. n = Root /\ Root \in stored 
    BY <1>4 DEF LinkedOnce
  <2> HIDE DEF TrieInv
  <2> QED BY <2>1, <2>2, CrashInv
<1>5. CASE n \notin Walked(n) \cap stored
  BY <1>1, <1>2, <1>5, SoundNext, NothingSays DEF Erase
<1> QED BY <1>3, <1>4, <1>5

LEMMA ClearInv == ASSUME TrieInv, Clear PROVE TrieInv'
<1> USE DEF TrieInv
<1>1. /\ order' = <<>> /\ freq' = [n \in Names |-> 0] /\ answer' = Nothing /\ policy' = policy
      /\ nodes' = {Root} /\ stored' = stored \cap {Root} /\ max' = max
  BY DEF Clear
<1>2. Sound(order', freq') /\ Entries(order') = {}
  BY <1>1, BoundAssumption DEF Sound, Entries, Distinct, Sorted
<1>3. nodes' = Cover(stored')
  BY <1>1, RootPrefixes DEF Cover
<1> QED BY <1>1, <1>2, <1>3, SoundNext, NothingSays DEF TypeOK

LEMMA SetMaxSizeInv == ASSUME TrieInv, NEW s \in Sizes, SetMaxSize(s) PROVE TrieInv'
<1> USE DEF TrieInv
<1>1. Sound(order, freq)
  BY SoundNow
<1> QED BY <1>1, SoundNext, NothingSays DEF SetMaxSize, TypeOK, Pruned, LinkedOnce, Linked

LEMMA ModifyInv == ASSUME TrieInv, NEW n \in Names, Modify(n) PROVE TrieInv'
<1> USE DEF TrieInv
<1>1. Sound(order, freq)
  BY SoundNow
<1>2. CASE MovesEntries /\ n \notin Linked /\ Crash(n, n)
  <2>1. n = Root /\ Root \in stored
    BY <1>2 DEF LinkedOnce, Modify
  <2> HIDE DEF TrieInv
  <2> QED BY <1>2, <2>1, CrashInv
<1>3. CASE Relocate(n) /\ answer' = Nothing /\ UNCHANGED <<policy, nodes, stored, max>>
  <2>1. Sound(order', freq') /\ Entries(order') = Entries(order)
    BY <1>1, <1>3, RelocateSound
  <2> QED BY <1>3, <2>1, SoundNext, NothingSays DEF TypeOK, Pruned, LinkedOnce, Linked
<1> QED BY <1>2, <1>3 DEF Modify

\* A lookup whose answer is right for the stored names keeps the invariant.
LEMMA AnswerInv ==
  ASSUME TrieInv, NEW op \in {"longest", "longestIf", "deepest", "deepestIf"}, NEW k \in Names,
         NEW pred \in SUBSET Names, NEW n \in stored \cup {NoNode}, Answer(op, k, pred, n),
         answer' = [op |-> op, key |-> k, pred |-> pred, found |-> n] /\ stored' = stored
           => LookupsAnswer'
  PROVE  TrieInv'
<1> USE DEF TrieInv
<1>1. Sound(order, freq) /\ stored \subseteq Names
  BY SoundNow DEF TypeOK
<1>2. CASE MovesEntries /\ n \notin Linked \cup {NoNode} /\ Crash(k, n)
  <2>1. n = Root /\ Root \in stored /\ n \in Names \cup {NoNode}
    BY <1>1, <1>2 DEF LinkedOnce
  <2> HIDE DEF TrieInv
  <2> QED BY <1>2, <2>1, CrashInv
<1>3. CASE /\ answer' = [op |-> op, key |-> k, pred |-> pred, found |-> n]
           /\ IF n = NoNode THEN UNCHANGED <<order, freq>> ELSE Relocate(n)
           /\ UNCHANGED <<policy, nodes, stored, max>>
  <2>1. Sound(order', freq') /\ Entries(order') = Entries(order)
    BY <1>1, <1>3, RelocateSound
  <2>2. answer' \in [op : {"none", "longest", "longestIf", "deepest", "deepestIf", "crash"},
                    key : Names, pred : SUBSET Names, found : Names \cup {NoNode}]
    BY <1>1, <1>3
  <2>3. TypeOK' /\ LinkedOnce' /\ Pruned'
    BY <1>3, <2>1, <2>2, SoundNext DEF TypeOK, Pruned, LinkedOnce, Linked
  <2>4. CrashNeedsRoot'
    BY <1>3 DEF CrashNeedsRoot
  <2> QED BY <1>3, <2>3, <2>4
<1> QED BY <1>2, <1>3 DEF Answer

LEMMA LongestInv ==
  ASSUME TrieInv, NEW op \in {"longest", "longestIf"}, NEW k \in Names, NEW pred \in SUBSET Names,
         Answer(op, k, pred, Found(k, stored \cap (pred \cup {Root})))
  PROVE  TrieInv'
<1> DEFINE c == stored \cap (pred \cup {Root})
<1> DEFINE n == Found(k, c)
<1>1. stored \subseteq Names /\ Pruned
  BY DEF TrieInv, TypeOK
<1>2. Walked(k) \cap stored = Pre[k] \cap stored
  BY <1>1, StoredWalked
<1>3. Walked(k) \cap c = Pre[k] \cap c
  BY <1>2
<1>4. IF Pre[k] \cap c = {} THEN n = NoNode
      ELSE n \in Pre[k] \cap c /\ Pre[k] \cap c \subseteq Pre[n]
  <2>1. c \in SUBSET Names
    BY <1>1
  <2> HIDE DEF c
  <2> QED BY <1>3, <2>1, FoundLongest
<1>5. n \in stored \cup {NoNode}
  BY <1>4
<1>6. ASSUME answer' = [op |-> op, key |-> k, pred |-> pred, found |-> n], stored' = stored
      PROVE  LookupsAnswer'
  <2>1. /\ Pre[k] \cap c = (Pre[k] \cap stored) \cap (pred \cup {Root})
        /\ NoNode \notin Pre[k] \cap c
    BY <1>1, BoundAssumption
  <2> HIDE DEF n, c
  <2>2. IF n = NoNode THEN (Pre[k] \cap stored) \cap pred = {}
        ELSE /\ n \in (Pre[k] \cap stored) \cap (pred \cup {Root})
             /\ (Pre[k] \cap stored) \cap pred \subseteq Pre[n]
    BY <1>4, <2>1
  <2> QED BY <1>6, <2>2 DEF LookupsAnswer
<1> HIDE DEF n
<1> QED BY <1>5, <1>6, AnswerInv DEF n

LEMMA LongestPrefixMatchInv == ASSUME TrieInv, NEW k \in Names, LongestPrefixMatch(k) PROVE TrieInv'
<1>1. stored \cap (Names \cup {Root}) = stored
  BY DEF TrieInv, TypeOK
<1> QED BY <1>1, LongestInv DEF LongestPrefixMatch

LEMMA LongestPrefixMatchIfInv ==
  ASSUME TrieInv, NEW k \in Names, NEW p \in Preds, LongestPrefixMatchIf(k, p) PROVE TrieInv'
BY LongestInv, BoundAssumption DEF LongestPrefixMatchIf

\* Nothing is stored below a name exactly when the walk does not reach it, except
\* for the root of an empty trie.
LEMMA BelowEmpty ==
  ASSUME Pruned, NEW k \in Names, stored \subseteq Names
  PROVE  /\ k \notin nodes => Below(k) = {}
         /\ k \in nodes /\ Below(k) = {} => k = Root /\ stored = {}
<1>1. k \notin nodes => Below(k) = {}
  BY DEF Pruned, Cover, Below
<1>2. k \in nodes /\ Below(k) = {} => k = Root
  BY DEF Pruned, Cover, Below
<1>3. Below(Root) = stored
  BY PrefixAssumption DEF Below
<1> QED BY <1>1, <1>2, <1>3

LEMMA DeepestPrefixMatchInv == ASSUME TrieInv, NEW k \in Names, DeepestPrefixMatch(k) PROVE TrieInv'
<1> DEFINE n == Found(k, stored)
<1> DEFINE prefixes == Pre[k] \cap stored
<1>1. stored \subseteq Names /\ Pruned
  BY DEF TrieInv, TypeOK
<1>2. Walked(k) \cap stored = prefixes /\ (k \in Walked(k) <=> k \in nodes)
  BY <1>1, StoredWalked
<1>3. IF prefixes = {} THEN n = NoNode ELSE n \in prefixes /\ prefixes \subseteq Pre[n]
  <2>1. stored \in SUBSET Names
    BY <1>1
  <2> HIDE DEF prefixes
  <2> QED BY <1>2, <2>1, FoundLongest
<1>4. NoNode \notin Names /\ Names \in SUBSET Names
  BY BoundAssumption
<1>5. /\ k \notin nodes => Below(k) = {}
      /\ k \in nodes /\ Below(k) = {} => k = Root /\ stored = {}
  BY <1>1, BelowEmpty
<1> HIDE DEF n
<1>6. CASE k \notin Walked(k) /\ Answer("deepest", k, Names, NoNode)
  <2>1. ASSUME answer' = [op |-> "deepest", key |-> k, pred |-> Names, found |-> NoNode], stored' = stored
        PROVE  LookupsAnswer'
    BY <1>2, <1>5, <1>6, <2>1 DEF LookupsAnswer, Below
  <2> QED BY <1>4, <1>6, <2>1, AnswerInv
<1>7. CASE k \in Walked(k) /\ n # NoNode /\ Answer("deepest", k, Names, n)
  <2>1. n \in prefixes /\ prefixes \subseteq Pre[n] /\ n \in stored
    BY <1>3, <1>7
  <2>2. Below(k) # {}
    BY <1>2, <1>5, <1>7, <2>1
  <2>3. ASSUME answer' = [op |-> "deepest", key |-> k, pred |-> Names, found |-> n], stored' = stored
        PROVE  LookupsAnswer'
    BY <2>1, <2>2, <2>3 DEF LookupsAnswer, Below
  <2> QED BY <1>4, <1>7, <2>1, <2>3, AnswerInv
<1>8. ASSUME n = NoNode, NEW m \in Below(k), Answer("deepest", k, Names, m)  PROVE TrieInv'
  <2>1. prefixes = {} /\ m \in stored
    BY <1>1, <1>3, <1>4, <1>8 DEF Below
  <2>2. ASSUME answer' = [op |-> "deepest", key |-> k, pred |-> Names, found |-> m], stored' = stored
        PROVE  LookupsAnswer'
    BY <1>8, <2>1, <2>2 DEF LookupsAnswer, Below
  <2> QED BY <1>4, <1>8, <2>1, <2>2, AnswerInv
<1>9. CASE /\ k \in Walked(k) /\ Below(k) = {}
           /\ IF MovesEntries THEN Crash(k, NoNode) ELSE Answer("deepest", k, Names, NoNode)
  <2>1. k = Root /\ stored = {}
    BY <1>2, <1>5, <1>9
  <2>2. ASSUME answer' = [op |-> "deepest", key |-> k, pred |-> Names, found |-> NoNode], stored' = stored
        PROVE  LookupsAnswer'
    BY <1>9, <2>2 DEF LookupsAnswer, Below
  <2>3. CASE MovesEntries
    BY <1>4, <1>9, <2>1, <2>3, CrashInv
  <2>4. CASE ~ MovesEntries
    BY <1>4, <1>9, <2>2, <2>4, AnswerInv
  <2> QED BY <2>3, <2>4
<1> QED BY <1>6, <1>7, <1>8, <1>9 DEF DeepestPrefixMatch, n

LEMMA DeepestPrefixMatchIfInv ==
  ASSUME TrieInv, NEW k \in Names, NEW p \in Preds, DeepestPrefixMatchIf(k, p) PROVE TrieInv'
<1>1. stored \subseteq Names /\ Pruned /\ p \in SUBSET Names
  BY BoundAssumption DEF TrieInv, TypeOK
<1>2. k \notin Walked(k) => Below(k) = {}
  BY <1>1, StoredWalked, BelowEmpty
<1>3. CASE (k \notin Walked(k) \/ Below(k) \cap p = {}) /\ Answer("deepestIf", k, p, NoNode)
  <2>1. ASSUME answer' = [op |-> "deepestIf", key |-> k, pred |-> p, found |-> NoNode], stored' = stored
        PROVE  LookupsAnswer'
    BY <1>2, <1>3, <2>1 DEF LookupsAnswer, Below
  <2> QED BY <1>1, <1>3, <2>1, AnswerInv
<1>4. ASSUME NEW m \in Below(k) \cap p, Answer("deepestIf", k, p, m)  PROVE TrieInv'
  <2>1. ASSUME answer' = [op |-> "deepestIf", key |-> k, pred |-> p, found |-> m], stored' = stored
        PROVE  LookupsAnswer'
    BY <1>4, <2>1 DEF LookupsAnswer, Below
  <2>2. m \in stored \cup {NoNode}
    BY DEF Below
  <2> QED BY <1>1, <1>4, <2>1, <2>2, AnswerInv
<1> QED BY <1>3, <1>4 DEF DeepestPrefixMatchIf

LEMMA NextInv == TrieInv /\ [Next]_vars => TrieInv'
<1> SUFFICES ASSUME TrieInv, [Next]_vars PROVE TrieInv'
  OBVIOUS
<1>1. CASE UNCHANGED vars
  <2>1. /\ TypeOK' = TypeOK /\ LinkedOnce' = LinkedOnce /\ Pruned' = Pruned
        /\ LookupsAnswer' = LookupsAnswer /\ CrashNeedsRoot' = CrashNeedsRoot
    BY <1>1 DEF vars, TypeOK, LinkedOnce, Linked, Pruned, LookupsAnswer, Below, CrashNeedsRoot
  <2> QED BY <2>1 DEF TrieInv
<1>2. ASSUME NEW n \in Names, Insert(n) \/ Erase(n) \/ Modify(n)  PROVE TrieInv'
  BY <1>2, InsertInv, EraseInv, ModifyInv
<1>3. ASSUME Clear \/ \E s \in Sizes : SetMaxSize(s)  PROVE TrieInv'
  BY <1>3, ClearInv, SetMaxSizeInv
<1>4. ASSUME NEW k \in Names, LongestPrefixMatch(k) \/ DeepestPrefixMatch(k)  PROVE TrieInv'
  BY <1>4, LongestPrefixMatchInv, DeepestPrefixMatchInv
<1>5. ASSUME NEW k \in Names, NEW p \in Preds,
             LongestPrefixMatchIf(k, p) \/ DeepestPrefixMatchIf(k, p)
      PROVE  TrieInv'
  BY <1>5, LongestPrefixMatchIfInv, DeepestPrefixMatchIfInv
<1>6. CASE Crashed
  BY <1>1, <1>6 DEF Crashed
<1> QED BY <1>1, <1>2, <1>3, <1>4, <1>5, <1>6 DEF Next

LEMMA Invariant == Spec => []TrieInv
<1> QED BY InitInv, NextInv, PTL DEF Spec

\* The variables of the trie and of its container keep their types and bounds.
THEOREM TrieTypes == Spec => []TypeOK
<1>1. TrieInv => TypeOK
  BY DEF TrieInv
<1> QED BY <1>1, Invariant, PTL

\* After every call the policy container (lru, fifo, lfu, persistent or counting)
\* holds exactly the nodes with a payload, once each and, for LFU, least used first;
\* insert(), with its eviction inside, erase() and clear() never let them diverge
\* except for the payload of the root.
THEOREM TrieLinkedOnce == Spec => []LinkedOnce
<1>1. TrieInv => LinkedOnce
  BY DEF TrieInv
<1> QED BY <1>1, Invariant, PTL

\* prune() leaves no dead node and deletes no node that is needed.
THEOREM TriePruned == Spec => []Pruned
<1>1. TrieInv => Pruned
  BY DEF TrieInv
<1> QED BY <1>1, Invariant, PTL

\* The four prefix searches find what a search of all stored names would, as far
\* as LookupsAnswer says.
THEOREM TrieLookupsAnswer == Spec => []LookupsAnswer
<1>1. TrieInv => LookupsAnswer
  BY DEF TrieInv
<1> QED BY <1>1, Invariant, PTL

\* Undefined behaviour needs the empty name.
THEOREM TrieCrashNeedsRoot == Spec => []CrashNeedsRoot
<1>1. TrieInv => CrashNeedsRoot
  BY DEF TrieInv
<1> QED BY <1>1, Invariant, PTL

\* No call makes a container grow that is at its limit or above it.
THEOREM TrieFullNeverGrows == Spec => FullNeverGrows
<1> DEFINE atLimit == policy # "counting" /\ max # 0 /\ Len(order) >= max
<1>1. ASSUME TrieInv, [Next]_vars, atLimit  PROVE Len(order') <= Len(order)
  <2>1. order \in Seq(Names) /\ Len(order) \in Nat /\ Distinct(order) /\ Sound(order, freq)
    BY <1>1, SoundNow DEF TrieInv, TypeOK, LinkedOnce
  <2>2. Full
    BY <1>1 DEF Full
  <2>3. CASE order' = order
    BY <2>1, <2>3
  <2>4. ASSUME NEW n \in Names, Insert(n)  PROVE Len(order') <= Len(order)
    <3>1. CASE order' = order
      BY <2>1, <3>1
    <3>2. CASE \E p \in 1..Len(order) : order' = LinkedAt(Unlinked(order, 1), p, n)
      <4>1. Len(order') = Len(Unlinked(order, 1)) + 1
        BY <3>2 DEF LinkedAt, Unlinked
      <4>2. 1 \in 1..Len(order)
        BY <2>1, <3>2
      <4>3. Len(Unlinked(order, 1)) = Len(order) - 1
        BY <2>1, <4>2, UnlinkedFacts
      <4> QED BY <2>1, <4>1, <4>3
    <3> QED BY <2>2, <2>4, <3>1, <3>2 DEF Insert, Refuses
  <2>5. ASSUME NEW n \in Names, Relocate(n)  PROVE Len(order') <= Len(order)
    <3>1. CASE order' = order
      BY <2>1, <3>1
    <3>2. ASSUME NEW j \in 1..Len(order), NEW p \in 1..Len(order),
                 order' = LinkedAt(Unlinked(order, j), p, n)
          PROVE  Len(order') <= Len(order)
      <4>1. Len(Unlinked(order, j)) = Len(order) - 1
        BY <2>1, UnlinkedFacts
      <4>2. Len(order') = Len(Unlinked(order, j)) + 1
        BY <2>1, <3>2, <4>1 DEF LinkedAt
      <4> QED BY <2>1, <4>1, <4>2
    <3> QED BY <2>5, <3>1, <3>2 DEF Relocate
  <2>6. ASSUME NEW n \in Names, Erase(n)  PROVE Len(order') <= Len(order)
    <3>1. CASE order' = order
      BY <2>1, <3>1
    <3>2. ASSUME NEW j \in 1..Len(order), order' = Unlinked(order, j)
          PROVE  Len(order') <= Len(order)
      BY <2>1, <3>2, UnlinkedFacts
    <3> QED BY <2>6, <3>1, <3>2 DEF Erase, Crash
  <2>7. CASE Clear
    BY <2>1, <2>7 DEF Clear
  <2>8. ASSUME NEW op, NEW k, NEW pred, NEW n \in Names \cup {NoNode}, Answer(op, k, pred, n)
        PROVE  Len(order') <= Len(order)
    BY <2>3, <2>5, <2>8 DEF Answer, Crash
  <2>9. ASSUME NEW k \in Names, NEW c \in SUBSET stored  PROVE Found(k, c) \in Names \cup {NoNode}
    <3>1. c \in SUBSET Names
      BY <1>1, <2>9 DEF TrieInv, TypeOK
    <3> QED BY <3>1, FoundLongest
  <2>10. ASSUME NEW k \in Names, LongestPrefixMatch(k) \/ \E p \in Preds : LongestPrefixMatchIf(k, p)
         PROVE  Len(order') <= Len(order)
    BY <2>8, <2>9, <2>10 DEF LongestPrefixMatch, LongestPrefixMatchIf
  <2>11. \A k : Below(k) \subseteq Names
    BY <1>1 DEF TrieInv, TypeOK, Below
  <2>12. ASSUME NEW k \in Names, DeepestPrefixMatch(k) \/ \E p \in Preds : DeepestPrefixMatchIf(k, p)
         PROVE  Len(order') <= Len(order)
    BY <2>3, <2>8, <2>9, <2>11, <2>12 DEF DeepestPrefixMatch, DeepestPrefixMatchIf, Crash
  <2>13. ASSUME NEW n \in Names, Modify(n)  PROVE Len(order') <= Len(order)
    BY <2>3, <2>5, <2>13 DEF Modify, Crash
  <2> QED BY <1>1, <2>3, <2>4, <2>6, <2>7, <2>10, <2>12, <2>13 DEF Next, SetMaxSize, Crashed, vars
<1>2. TrieInv /\ [Next]_vars => [atLimit => Len(order') <= Len(order)]_vars
  BY <1>1
<1> QED BY <1>2, Invariant, PTL DEF Spec, FullNeverGrows
=============================================================================
