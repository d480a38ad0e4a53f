---------------------------- MODULE FieldProofs ----------------------------
(***************************************************************************)
(* Proofs about the fields of packets (src/ndn.cxx/fields) and the blocks  *)
(* that carry them on the wire (src/ndn.cxx/wire).                         *)
(*                                                                         *)
(* Exclude filters, for every set of components, finite or not: the map    *)
(* stays searchable, nothing is excluded that no call asked for, what the  *)
(* last call asked for is, and exclusions are lost only as described.      *)
(*                                                                         *)
(* Names, for every sequence of bytes, every number and every name:        *)
(* components and slash-free names come back from their URIs, numbers from *)
(* their components, and Name::compare is a total order.                   *)
(*                                                                         *)
(* Blocks, for every number, blob and time: what the encoder writes the    *)
(* parser reads back, and it has the size that was announced.              *)
(*                                                                         *)
(* Recursive functions are shown to exist by the lemma Recursion, and      *)
(* induction is over the set of the numbers or positions that have a       *)
(* property, so that no lemma takes an operator as a parameter.            *)
(***************************************************************************)
EXTENDS Exclude, NameLife, NdnbBlocks, SequenceTheorems, WellFoundedInduction, TLAPS

-----------------------------------------------------------------------------
(* Exclude filters. *)

\* Keys E of which A have the flag, in which lower_bound finds an entry
\* wherever there is one.
Sound(E, A) ==
  /\ E \subseteq Nat /\ A \subseteq E
  /\ \A c \in Nat, j \in E : j <= c => \E k \in E : LowerBound(E, k, c)

\* Starting a range leaves a sound map in which from lies under ANY.
LEMMA StartedSound ==
  ASSUME NEW E, NEW A, Sound(E, A), NEW from \in Nat,
         NEW W, W = E \cup {from}, NEW B, B = A \cup {from}
  PROVE  /\ Sound(W, B)
         /\ \A k \in W : LowerBound(W, k, from) => k \in B
<1>1. ASSUME NEW c \in Nat, NEW j \in W, j <= c
      PROVE  \E k \in W : LowerBound(W, k, c)
  <2>1. CASE \E i \in E : i <= c
    <3>1. PICK k \in E : LowerBound(E, k, c)
      BY <2>1 DEF Sound
    <3>2. CASE from <= c /\ k <= from
      BY <3>1, <3>2 DEF LowerBound, Sound
    <3>3. CASE ~(from <= c /\ k <= from)
      BY <3>1, <3>3 DEF LowerBound, Sound
    <3> QED BY <3>2, <3>3
  <2>2. CASE ~\E i \in E : i <= c
    BY <1>1, <2>2 DEF LowerBound
  <2> QED BY <2>1, <2>2
<1> QED BY <1>1 DEF Sound, LowerBound

\* The map R, C after [from, to] was added to W, B: it excludes the range, and
\* outside it only what an entry of W other than from excludes; and what of the
\* exclusions of W, B is kept.
Closed(W, B, R, C, from, to) ==
  /\ Sound(R, C)
  /\ \A c \in Nat : from <= c /\ c <= to => Excludes(R, C, c)
  /\ \A c \in Nat : ~(from <= c /\ c <= to) /\ Excludes(R, C, c) =>
       \E k \in W : k # from /\ LowerBound(W, k, c) /\ (k \in B \/ k = c)
KeptBelow(W, B, R, C, to) ==
  /\ \A c \in Nat : c < to /\ Excludes(W, B, c) => Excludes(R, C, c)
  /\ \A c \in Nat, k \in W : LowerBound(W, k, c) /\ k >= to /\ (k \in B \/ k = c) => Excludes(R, C, c)
Kept(W, B, R, C) == \A c \in Nat : Excludes(W, B, c) => Excludes(R, C, c)

Without(S, low, high) == S \ {k \in S : low < k /\ k < high}
Through(S, low, high) == S \ {k \in S : low < k /\ k <= high}

LEMMA EndedAtTo ==
  ASSUME NEW W, NEW B, Sound(W, B), NEW from \in Nat, NEW to \in Nat, from < to,
         NEW newFrom, newFrom \in B, LowerBound(W, newFrom, from),
         NEW R, R = Without(W, newFrom, to) \cup {to},
         NEW C, C = Without(B, newFrom, to)
  PROVE  Closed(W, B, R, C, from, to) /\ KeptBelow(W, B, R, C, to)
<1> USE DEF Closed, KeptBelow
<1> USE DEF Without
<1>0. newFrom \in W /\ newFrom \in Nat /\ newFrom <= from /\ W \subseteq Nat /\ B \subseteq W
  BY DEF Sound, LowerBound
<1>1. newFrom \in R /\ newFrom \in C /\ to \in R /\ R \subseteq Nat /\ C \subseteq R /\ newFrom <= from
  <2>1. ~(newFrom < newFrom)
    BY <1>0
  <2>2. newFrom \in R /\ newFrom \in C /\ to \in R
    BY <1>0, <2>1
  <2>3. R \subseteq Nat
    BY <1>0
  <2>4. C \subseteq R
    BY <1>0
  <2> QED BY <1>0, <2>2, <2>3, <2>4
<1>2. ASSUME NEW c \in Nat, newFrom <= c, c < to
      PROVE  LowerBound(R, newFrom, c)
  BY <1>1, <1>2 DEF LowerBound, Sound
<1>3. ASSUME NEW c \in Nat, c < newFrom, NEW k \in Nat
      PROVE  LowerBound(R, k, c) <=> LowerBound(W, k, c)
  BY <1>1, <1>3 DEF LowerBound, Sound
<1>4. ASSUME NEW c \in Nat, c >= to, NEW k \in Nat, k >= to, k # to
      PROVE  LowerBound(R, k, c) <=> LowerBound(W, k, c)
  BY <1>1, <1>4 DEF LowerBound, Sound
<1>5. Sound(R, C)
  <2> SUFFICES ASSUME NEW c \in Nat, NEW j \in R, j <= c
               PROVE  \E k \in R : LowerBound(R, k, c)
    BY <1>1 DEF Sound
  <2>1. CASE c < newFrom
    <3>1. PICK k \in W : LowerBound(W, k, c)
      BY <2>1, <1>1 DEF Sound
    <3> QED BY <3>1, <2>1, <1>0, <1>3 DEF LowerBound
  <2>2. CASE newFrom <= c /\ c < to
    BY <2>2, <1>1, <1>2
  <2>3. CASE c >= to
    <3>1. PICK k \in W : LowerBound(W, k, c)
      BY <2>3, <1>0 DEF Sound
    <3>2. CASE k > to
      BY <3>1, <3>2, <2>3, <1>1, <1>4 DEF LowerBound, Sound
    <3>3. CASE k <= to
      BY <3>1, <3>3, <2>3, <1>1 DEF LowerBound, Sound
    <3> QED BY <3>2, <3>3, <1>0
  <2> QED BY <2>1, <2>2, <2>3, <1>1
<1>6. ASSUME NEW c \in Nat, from <= c, c <= to
      PROVE  Excludes(R, C, c)
  <2>1. CASE c < to
    BY <2>1, <1>1, <1>2, <1>6 DEF Excludes, Sound
  <2>2. CASE c = to
    BY <2>2, <1>1 DEF Excludes, LowerBound
  <2> QED BY <2>1, <2>2, <1>6
<1>7. ASSUME NEW c \in Nat, ~(from <= c /\ c <= to), Excludes(R, C, c)
      PROVE  \E k \in W : k # from /\ LowerBound(W, k, c) /\ (k \in B \/ k = c)
  <2>1. PICK k \in R : LowerBound(R, k, c) /\ (k \in C \/ k = c)
    BY <1>7 DEF Excludes
  <2>2. CASE c < newFrom
    BY <2>1, <2>2, <1>1, <1>3 DEF Excludes, LowerBound
  <2>3. CASE newFrom <= c /\ c < from
    BY <2>3 DEF Excludes, LowerBound, Sound
  <2>4. CASE c > to
    <3>1. k >= to /\ k \in Nat
      BY <2>1, <2>4, <1>1 DEF LowerBound
    <3>2. CASE k = to
      BY <3>2, <2>1, <2>4, <1>1 DEF LowerBound, Excludes, Sound
    <3>3. CASE k # to
      BY <3>1, <3>3, <2>1, <2>4, <1>4 DEF Excludes, LowerBound
    <3> QED BY <3>2, <3>3
  <2> QED BY <2>2, <2>3, <2>4, <1>7, <1>1 DEF Sound
<1>8. ASSUME NEW c \in Nat, c < to, Excludes(W, B, c)
      PROVE  Excludes(R, C, c)
  <2>1. CASE newFrom <= c
    BY <2>1, <1>1, <1>2, <1>8 DEF Excludes
  <2>2. CASE c < newFrom
    BY <2>2, <1>1, <1>3, <1>8 DEF Excludes, LowerBound, Sound
  <2> QED BY <2>1, <2>2, <1>1
<1>9. ASSUME NEW c \in Nat, NEW k \in W, LowerBound(W, k, c), k >= to, k \in B \/ k = c
      PROVE  Excludes(R, C, c)
  BY <1>1, <1>9 DEF Excludes, LowerBound, Sound
<1> QED BY <1>5, <1>6, <1>7, <1>8, <1>9

LEMMA EndedInRange ==
  ASSUME NEW W, NEW B, Sound(W, B), NEW from \in Nat, NEW to \in Nat, from < to,
         NEW newFrom, newFrom \in B, LowerBound(W, newFrom, from),
         NEW newTo, newTo \in B, LowerBound(W, newTo, to), newTo # newFrom,
         NEW R, R = Through(W, newFrom, newTo),
         NEW C, C = Through(B, newFrom, newTo)
  PROVE  Closed(W, B, R, C, from, to) /\ Kept(W, B, R, C)
<1> USE DEF Closed, Kept
<1> USE DEF Through
<1>0. /\ newFrom \in W /\ newFrom \in Nat /\ newFrom <= from /\ W \subseteq Nat /\ B \subseteq W
      /\ newTo \in Nat /\ newTo <= to /\ newFrom <= newTo
  BY DEF Sound, LowerBound
<1>1. /\ newFrom \in R /\ newFrom \in C /\ R \subseteq Nat /\ C \subseteq R
      /\ newFrom <= from /\ newFrom < newTo /\ newTo <= to /\ newTo \in Nat /\ newFrom \in Nat
  <2>1. ~(newFrom < newFrom) /\ newFrom < newTo
    BY <1>0
  <2>2. newFrom \in R /\ newFrom \in C
    BY <1>0, <2>1
  <2>3. R \subseteq Nat /\ C \subseteq R
    BY <1>0
  <2> QED BY <1>0, <2>1, <2>2, <2>3
<1>2. ASSUME NEW c \in Nat, newFrom <= c, c <= to
      PROVE  LowerBound(R, newFrom, c)
  BY <1>1, <1>2 DEF LowerBound, Sound
<1>3. ASSUME NEW c \in Nat, c < newFrom, NEW k \in Nat
      PROVE  LowerBound(R, k, c) <=> LowerBound(W, k, c)
  BY <1>1, <1>3 DEF LowerBound, Sound
<1>4. ASSUME NEW c \in Nat, c > to, LowerBound(W, newTo, c)
      PROVE  LowerBound(R, newFrom, c)
  BY <1>1, <1>4 DEF LowerBound, Sound
<1>5. ASSUME NEW c \in Nat, c > to, ~LowerBound(W, newTo, c), NEW k \in Nat
      PROVE  LowerBound(R, k, c) <=> LowerBound(W, k, c)
  <2>1. PICK i \in W : LowerBound(W, i, c)
    BY <1>0, <1>5 DEF Sound
  <2>2. i > to
    BY <2>1, <1>1, <1>5 DEF Sound, LowerBound
  <2> QED BY <2>1, <2>2, <1>1, <1>5 DEF Sound, LowerBound
<1>6. Sound(R, C)
  <2> SUFFICES ASSUME NEW c \in Nat, NEW j \in R, j <= c
               PROVE  \E k \in R : LowerBound(R, k, c)
    BY <1>1 DEF Sound
  <2>1. PICK k \in W : LowerBound(W, k, c)
    BY <1>1 DEF Sound
  <2>2. CASE c < newFrom
    BY <2>1, <2>2, <1>0, <1>3 DEF LowerBound
  <2>3. CASE newFrom <= c /\ c <= to
    BY <2>3, <1>1, <1>2
  <2>4. CASE c > to
    BY <2>1, <2>4, <1>1, <1>4, <1>5 DEF LowerBound
  <2> QED BY <2>2, <2>3, <2>4, <1>1
<1>7. ASSUME NEW c \in Nat, from <= c, c <= to
      PROVE  Excludes(R, C, c)
  BY <1>1, <1>2, <1>7 DEF Excludes
<1>8. ASSUME NEW c \in Nat, ~(from <= c /\ c <= to), Excludes(R, C, c)
      PROVE  \E k \in W : k # from /\ LowerBound(W, k, c) /\ (k \in B \/ k = c)
  <2>1. CASE c < newFrom
    BY <2>1, <1>1, <1>3, <1>8 DEF Excludes, LowerBound
  <2>2. CASE newFrom <= c /\ c < from
    BY <2>2 DEF Excludes, LowerBound, Sound
  <2>3. CASE c > to /\ LowerBound(W, newTo, c)
    <3>1. newTo # from
      BY <1>1 DEF LowerBound
    <3> QED BY <2>3, <3>1 DEF LowerBound
  <2>4. CASE c > to /\ ~LowerBound(W, newTo, c)
    BY <2>4, <1>1, <1>5, <1>8 DEF Excludes, LowerBound
  <2> QED BY <2>1, <2>2, <2>3, <2>4, <1>1, <1>8
<1>9. ASSUME NEW c \in Nat, Excludes(W, B, c)
      PROVE  Excludes(R, C, c)
  <2>1. CASE c < newFrom
    BY <2>1, <1>1, <1>3, <1>9 DEF Excludes, LowerBound, Sound
  <2>2. CASE newFrom <= c /\ c <= to
    BY <2>2, <1>1, <1>2 DEF Excludes
  <2>3. CASE c > to /\ LowerBound(W, newTo, c)
    BY <2>3, <1>1, <1>4 DEF Excludes
  <2>4. CASE c > to /\ ~LowerBound(W, newTo, c)
    <3>1. PICK k \in W : LowerBound(W, k, c) /\ (k \in B \/ k = c)
      BY <1>9 DEF Excludes
    <3>2. k > to
      BY <3>1, <2>4, <1>1 DEF LowerBound, Sound
    <3> QED BY <3>1, <3>2, <2>4, <1>1, <1>5 DEF Excludes, LowerBound, Sound
  <2> QED BY <2>1, <2>2, <2>3, <2>4, <1>1
<1> QED BY <1>6, <1>7, <1>8, <1>9

\* What a call about the components cs does to the filter.
Effect(cs) ==
  /\ Sound(entries', any')
  /\ entries' \subseteq Universe
  /\ \A c \in cs : Excludes(entries', any', c)
  /\ \A c \in Universe : Excludes(entries', any', c) => IsExcluded(c) \/ c \in cs
  /\ \A c \in Universe : IsExcluded(c) /\ ~Excludes(entries', any', c) => \A d \in cs : d < c /\ IsExcluded(d)

LEMMA OneEffect ==
  ASSUME Sound(entries, any), entries \subseteq Universe, NEW x \in Universe, ExcludeOne(x)
  PROVE  Effect({x})
<1> USE UniverseAssumption
<1>1. CASE IsExcluded(x)
  BY <1>1 DEF ExcludeOne, Effect, IsExcluded
<1>2. CASE ~IsExcluded(x)
  <2>0. entries' = entries \cup {x} /\ any' = any /\ x \in Nat /\ x \notin any /\ x \notin entries
    BY <1>2 DEF ExcludeOne, IsExcluded, Excludes, LowerBound, Sound
  <2>1. ASSUME NEW c \in Nat, NEW k \in entries, LowerBound(entries, k, c)
        PROVE  IF k <= x /\ x <= c THEN LowerBound(entries', x, c) ELSE LowerBound(entries', k, c)
    BY <2>0, <2>1 DEF LowerBound, Sound
  <2>2. Sound(entries', any')
    <3> SUFFICES ASSUME NEW c \in Nat, NEW j \in entries', j <= c
                 PROVE  \E k \in entries' : LowerBound(entries', k, c)
      BY <2>0 DEF Sound
    <3>1. CASE \E i \in entries : i <= c
      <4>1. PICK k \in entries : LowerBound(entries, k, c)
        BY <3>1 DEF Sound
      <4> QED BY <4>1, <2>0, <2>1
    <3>2. CASE ~\E i \in entries : i <= c
      BY <3>2, <2>0 DEF LowerBound
    <3> QED BY <3>1, <3>2
  <2>3. Excludes(entries', any', x)
    BY <2>0 DEF Excludes, LowerBound
  <2>4. ASSUME NEW c \in Universe, Excludes(entries', any', c), c # x
        PROVE  IsExcluded(c)
    <3>1. PICK k \in entries' : LowerBound(entries', k, c) /\ (k \in any' \/ k = c)
      BY <2>4 DEF Excludes
    <3>2. k \in entries
      BY <3>1, <2>0, <2>4
    <3> QED BY <3>1, <3>2, <2>0 DEF IsExcluded, Excludes, LowerBound, Sound
  <2>5. ASSUME NEW c \in Universe, IsExcluded(c)
        PROVE  Excludes(entries', any', c)
    <3>1. PICK k \in entries : LowerBound(entries, k, c) /\ (k \in any \/ k = c)
      BY <2>5 DEF IsExcluded, Excludes
    <3>2. CASE k <= x /\ x <= c
      <4>1. k \in any
        BY <3>1, <3>2, <2>0 DEF Sound
      <4>2. LowerBound(entries, k, x)
        BY <3>1, <3>2, <2>0 DEF LowerBound, Sound
      <4> QED BY <4>1, <4>2, <1>2 DEF IsExcluded, Excludes
    <3>3. CASE ~(k <= x /\ x <= c)
      BY <3>1, <3>3, <2>0, <2>1 DEF Excludes
    <3> QED BY <3>2, <3>3
  <2> QED BY <2>0, <2>2, <2>3, <2>4, <2>5 DEF Effect
<1> QED BY <1>1, <1>2

\* Starting a range at from, as the sets the calls work on.
LEMMA StartFacts ==
  ASSUME Sound(entries, any), entries \subseteq Universe, NEW from \in Universe,
         NEW E, E = Started(entries, from), NEW A, A = Started(any, from),
         NEW newFrom \in E, LowerBound(E, newFrom, from)
  PROVE  /\ Sound(E, A) /\ E \subseteq Universe /\ newFrom \in A
         /\ entries \subseteq E /\ any \subseteq A
         /\ E \subseteq entries \cup {from} /\ A \subseteq any \cup {from}
         /\ (newFrom = from /\ ~Covered(from)) \/ (E = entries /\ A = any)
<1>1. CASE Covered(from)
  BY <1>1, UniverseAssumption DEF Started, Covered, LowerBound, Sound
<1>2. CASE ~Covered(from)
  <2>1. E = entries \cup {from} /\ A = any \cup {from}
    BY <1>2 DEF Started
  <2>2. Sound(E, A) /\ newFrom \in A
    BY <2>1, UniverseAssumption, StartedSound
  <2>3. newFrom = from
    BY <2>1, UniverseAssumption DEF LowerBound
  <2> QED BY <1>2, <2>1, <2>2, <2>3
<1> QED BY <1>1, <1>2

LEMMA RangeEffect ==
  ASSUME Sound(entries, any), entries \subseteq Universe, NEW from \in Universe, NEW to \in Universe,
         ExcludeRange(from, to)
  PROVE  Effect(Between(from, to))
<1> USE UniverseAssumption
<1> DEFINE E == Started(entries, from)
           A == Started(any, from)
<1>1. from < to /\ from \in Nat /\ to \in Nat
  BY DEF ExcludeRange
<1>2. PICK newFrom \in E, newTo \in E : /\ LowerBound(E, newFrom, from)
                                       /\ LowerBound(E, newTo, to)
                                       /\ Ended(E, A, newFrom, newTo, to)
  BY Zenon DEF ExcludeRange
<1>3. /\ Sound(E, A) /\ E \subseteq Universe /\ newFrom \in A
      /\ entries \subseteq E /\ any \subseteq A
      /\ E \subseteq entries \cup {from} /\ A \subseteq any \cup {from}
      /\ (newFrom = from /\ ~Covered(from)) \/ (E = entries /\ A = any)
  BY <1>2, StartFacts
<1> HIDE DEF E, A
<1>4. ASSUME NEW c \in Universe, NEW k \in E, k # from, LowerBound(E, k, c), k \in A \/ k = c
      PROVE  IsExcluded(c)
  BY <1>3, <1>4 DEF IsExcluded, Excludes, LowerBound
<1>5. ASSUME NEW c \in Universe, IsExcluded(c)
      PROVE  Excludes(E, A, c)
  <2>1. CASE E = entries /\ A = any
    BY <2>1, <1>5 DEF IsExcluded
  <2>2. CASE newFrom = from /\ ~Covered(from)
    <3>1. PICK k \in entries : LowerBound(entries, k, c) /\ (k \in any \/ k = c)
      BY <1>5 DEF IsExcluded, Excludes
    <3>2. CASE k <= from /\ from <= c
      <4>1. LowerBound(E, from, c)
        BY <3>1, <3>2, <2>2, <1>1, <1>3 DEF LowerBound, Sound
      <4> QED BY <4>1, <2>2, <1>3 DEF Excludes, LowerBound
    <3>3. CASE ~(k <= from /\ from <= c)
      <4>1. LowerBound(E, k, c)
        BY <3>1, <3>3, <1>1, <1>3 DEF LowerBound, Sound
      <4> QED BY <4>1, <3>1, <1>3 DEF Excludes
    <3> QED BY <3>2, <3>3
  <2> QED BY <2>1, <2>2, <1>3
<1>a. CASE newTo = newFrom \/ newTo \notin A
  <2>1. entries' = Without(E, newFrom, to) \cup {to} /\ any' = Without(A, newFrom, to)
    BY <1>2, <1>a DEF Ended, Without
  <2>2. Closed(E, A, entries', any', from, to) /\ KeptBelow(E, A, entries', any', to)
    BY <2>1, <1>1, <1>2, <1>3, EndedAtTo
  <2>3. entries' \subseteq Universe
    BY <2>1, <1>3 DEF Without, Through
  <2>4. ASSUME NEW c \in Universe, IsExcluded(c), ~Excludes(entries', any', c),
               NEW d \in Between(from, to)
        PROVE  d < c /\ IsExcluded(d)
    <3>1. PICK k \in E : LowerBound(E, k, c) /\ (k \in A \/ k = c)
      BY <2>4, <1>5 DEF Excludes
    <3>2. c > to /\ k < to /\ k \in A /\ k \in Nat
      BY <3>1, <2>2, <2>4, <1>1, <1>3, <1>5 DEF Sound, Closed, KeptBelow
    <3>3. k = newTo
      BY <3>1, <3>2, <1>1, <1>2, <1>3 DEF LowerBound, Sound
    <3>4. k = newFrom
      BY <3>2, <3>3, <1>a
    <3>5. d \in Nat /\ from <= d /\ d <= to
      BY DEF Between
    <3>6. LowerBound(E, k, d)
      BY <3>1, <3>2, <3>4, <3>5, <1>1, <1>2, <1>3 DEF LowerBound, Sound
    <3>7. CASE E = entries /\ A = any
      BY <3>1, <3>2, <3>5, <3>6, <3>7, <1>1 DEF IsExcluded, Excludes
    <3>8. CASE newFrom = from /\ ~Covered(from)
      <4>1. PICK j \in entries : LowerBound(entries, j, c) /\ (j \in any \/ j = c)
        BY <2>4 DEF IsExcluded, Excludes
      <4>2. j <= from /\ j \in Nat
        BY <4>1, <3>1, <3>4, <3>8, <1>3 DEF LowerBound, Sound
      <4>3. LowerBound(entries, j, from) /\ j \in any
        BY <4>1, <4>2, <3>2, <1>1 DEF LowerBound, Sound
      <4> QED BY <4>3, <3>8 DEF Covered
    <3> QED BY <3>7, <3>8, <1>3
  <2> QED BY <2>2, <2>3, <2>4, <1>4 DEF Effect, Between, Closed
<1>b. CASE ~(newTo = newFrom \/ newTo \notin A)
  <2>1. entries' = Through(E, newFrom, newTo) /\ any' = Through(A, newFrom, newTo)
    BY <1>2, <1>b DEF Ended, Through
  <2>2. Closed(E, A, entries', any', from, to) /\ Kept(E, A, entries', any')
    BY <2>1, <1>b, <1>1, <1>2, <1>3, EndedInRange
  <2>3. entries' \subseteq Universe
    BY <2>1, <1>3 DEF Without, Through
  <2> QED BY <2>2, <2>3, <1>4, <1>5 DEF Effect, Between, Closed, Kept
<1> QED BY <1>a, <1>b

LEMMA AfterEffect ==
  ASSUME Sound(entries, any), entries \subseteq Universe, NEW from \in Universe, ExcludeAfter(from)
  PROVE  Effect(Above(from))
<1> USE UniverseAssumption
<1> DEFINE E == Started(entries, from)
           A == Started(any, from)
<1>1. PICK newFrom \in E : /\ LowerBound(E, newFrom, from)
                           /\ entries' = {k \in E : k <= newFrom}
                           /\ any' = {k \in A : k <= newFrom}
  BY Zenon DEF ExcludeAfter
<1>2. /\ Sound(E, A) /\ E \subseteq Universe /\ newFrom \in A
      /\ entries \subseteq E /\ any \subseteq A
      /\ E \subseteq entries \cup {from} /\ A \subseteq any \cup {from}
      /\ (newFrom = from /\ ~Covered(from)) \/ (E = entries /\ A = any)
  BY <1>1, StartFacts
<1> HIDE DEF E, A
<1>3. newFrom <= from /\ newFrom \in Nat /\ from \in Nat /\ newFrom \in entries' /\ newFrom \in any'
  BY <1>1, <1>2 DEF LowerBound
<1>4. ASSUME NEW c \in Nat, newFrom <= c
      PROVE  LowerBound(entries', newFrom, c)
  BY <1>1, <1>3, <1>4 DEF LowerBound
<1>5. ASSUME NEW c \in Nat, c < newFrom, NEW k \in Nat
      PROVE  LowerBound(entries', k, c) <=> LowerBound(entries, k, c)
  BY <1>1, <1>2, <1>3, <1>5 DEF LowerBound, Sound
<1>6. Sound(entries', any')
  <2> SUFFICES ASSUME NEW c \in Nat, NEW j \in entries', j <= c
               PROVE  \E k \in entries' : LowerBound(entries', k, c)
    BY <1>1, <1>2 DEF Sound
  <2>1. CASE newFrom <= c
    BY <2>1, <1>3, <1>4
  <2>2. CASE c < newFrom
    <3>1. j \in entries
      BY <2>2, <1>1, <1>2, <1>3
    <3>2. PICK k \in entries : LowerBound(entries, k, c)
      BY <3>1 DEF Sound
    <3> QED BY <3>2, <2>2, <1>5 DEF LowerBound
  <2> QED BY <2>1, <2>2, <1>3
<1>7. ASSUME NEW c \in Universe, newFrom <= c
      PROVE  Excludes(entries', any', c)
  BY <1>3, <1>4, <1>7 DEF Excludes
<1>8. ASSUME NEW c \in Universe, c < newFrom
      PROVE  Excludes(entries', any', c) <=> IsExcluded(c)
  <2>1. ASSUME NEW k \in Nat, k < newFrom
        PROVE  k \in any' <=> k \in any
    BY <2>1, <1>1, <1>2, <1>3 DEF Sound
  <2> QED BY <2>1, <1>1, <1>2, <1>3, <1>5, <1>8 DEF Excludes, IsExcluded, LowerBound, Sound
<1>9. ASSUME NEW c \in Universe, newFrom <= c, c < from
      PROVE  IsExcluded(c)
  BY <1>1, <1>2, <1>9 DEF IsExcluded, Excludes, LowerBound
<1>10. entries' \subseteq Universe
  BY <1>1, <1>2
<1> QED BY <1>3, <1>6, <1>7, <1>8, <1>9, <1>10 DEF Effect, Above

\* The inductive invariant.
Inv == /\ Sound(entries, any) /\ entries \subseteq Universe
       /\ asked \subseteq Universe /\ last \subseteq asked
       /\ ExcludedWasAsked /\ LastIsExcluded

\* A step is a call about some components.
LEMMA StepEffect ==
  ASSUME Inv, ExcludeNext
  PROVE  \E cs \in SUBSET Universe : Effect(cs) /\ Ask(cs)
<1> USE UniverseAssumption DEF Inv
<1>1. CASE \E c \in Universe : ExcludeOne(c)
  BY <1>1, OneEffect DEF ExcludeOne
<1>2. ASSUME NEW from \in Universe, NEW to \in Universe, ExcludeRange(from, to)
      PROVE  \E cs \in SUBSET Universe : Effect(cs) /\ Ask(cs)
  <2>1. Ask(Between(from, to)) /\ Between(from, to) \subseteq Universe
    BY <1>2 DEF ExcludeRange, Between
  <2> QED BY <2>1, <1>2, RangeEffect
<1>3. CASE \E c \in Universe : ExcludeAfter(c)
  <2>1. PICK c \in Universe : ExcludeAfter(c)
    BY <1>3
  <2>2. Ask(Above(c)) /\ Above(c) \subseteq Universe
    BY <2>1 DEF ExcludeAfter, Above
  <2> QED BY <2>1, <2>2, AfterEffect
<1> QED BY <1>1, <1>2, <1>3 DEF ExcludeNext, ExcludeBefore

LEMMA InvInductive == Inv /\ [ExcludeNext]_excludeVars => Inv'
<1> SUFFICES ASSUME Inv, [ExcludeNext]_excludeVars PROVE Inv'
  OBVIOUS
<1>1. CASE UNCHANGED excludeVars
  BY <1>1 DEF excludeVars, Inv, ExcludedWasAsked, LastIsExcluded, IsExcluded
<1>2. CASE ExcludeNext
  <2>1. PICK cs \in SUBSET Universe : Effect(cs) /\ Ask(cs)
    BY <1>2, StepEffect
  <2> QED BY <2>1 DEF Effect, Ask, Inv, ExcludedWasAsked, LastIsExcluded, IsExcluded
<1> QED BY <1>1, <1>2

LEMMA InvAlways == ExcludeSpec => []Inv
<1>1. ExcludeInit => Inv
  BY UniverseAssumption DEF ExcludeInit, Inv, Sound, ExcludedWasAsked, LastIsExcluded, IsExcluded, Excludes
<1> QED BY <1>1, InvInductive, PTL DEF ExcludeSpec

\* The map of the filter is one that lower_bound can search, for every set of
\* components: excludeRange finds the entry it says it finds.
THEOREM ExcludeTypes == ExcludeSpec => []ExcludeTypeOK
<1>1. Inv => ExcludeTypeOK
  BY UniverseAssumption DEF Inv, ExcludeTypeOK, Sound
<1> QED BY <1>1, InvAlways, PTL

\* No sequence of calls makes the filter exclude what none of them asked for.
THEOREM ExcludeOnlyAsked == ExcludeSpec => []ExcludedWasAsked
<1> QED BY InvAlways, PTL DEF Inv

\* After every call, what it asked for is excluded.
THEOREM ExcludeLast == ExcludeSpec => []LastIsExcluded
<1> QED BY InvAlways, PTL DEF Inv

\* A component is lost only above a range that was put inside another one.
THEOREM ExcludeLost == ExcludeSpec => LostOnlyAboveNested
<1>1. Inv /\ [ExcludeNext]_excludeVars => [\A c \in Universe : IsExcluded(c) /\ ~IsExcluded(c)' =>
                              \A d \in last' : d < c /\ IsExcluded(d)]_excludeVars
  <2> SUFFICES ASSUME Inv, ExcludeNext
               PROVE  \A c \in Universe : IsExcluded(c) /\ ~IsExcluded(c)' =>
                        \A d \in last' : d < c /\ IsExcluded(d)
    OBVIOUS
  <2>1. PICK cs \in SUBSET Universe : Effect(cs) /\ Ask(cs)
    BY StepEffect
  <2> QED BY <2>1 DEF Effect, Ask, IsExcluded
<1> QED BY <1>1, InvAlways, PTL DEF ExcludeSpec, LostOnlyAboveNested

-----------------------------------------------------------------------------
(* Recursion and induction, stated with sets and functions. *)

\* Every non-empty set of natural numbers has a least element.
LEMMA Least ==
  ASSUME NEW S, S \subseteq Nat, S # {}
  PROVE  \E m \in S : \A k \in S : m <= k
<1>1. \E x \in S : \A y \in S : ~(<<y, x>> \in OpToRel(<, Nat))
  BY NatLessThanWellFounded, WFMin
<1>2. PICK x \in S : \A y \in S : ~(<<y, x>> \in OpToRel(<, Nat))
  BY <1>1
<1>3. ASSUME NEW y \in S PROVE x <= y
  <2>1. ~(<<y, x>> \in OpToRel(<, Nat)) /\ x \in Nat /\ y \in Nat
    BY <1>2
  <2>2. y < x => <<y, x>> \in OpToRel(<, Nat)
    BY <2>1 DEF OpToRel
  <2>3. ~(y < x)
    BY <2>1, <2>2, Zenon
  <2>4. x \in Nat /\ y \in Nat
    BY <2>1
  <2> QED BY <2>3, <2>4
<1> QED BY <1>3

\* Induction, for the set of the numbers that have a property.
LEMMA SetInduction ==
  ASSUME NEW S, 0 \in S, \A n \in Nat : n \in S => n + 1 \in S
  PROVE  Nat \subseteq S
<1> SUFFICES ASSUME Nat \ S # {} PROVE FALSE
  OBVIOUS
<1>1. PICK m \in Nat \ S : \A k \in Nat \ S : m <= k
  BY Least
<1>2. m # 0 /\ m - 1 \in Nat /\ m - 1 \in S
  BY <1>1
<1> QED BY <1>1, <1>2

\* G defines f[d] in terms of those f[e] with a smaller measure m.
Causal(D, m, T, G) ==
  \A d \in D : \A f, g \in [D -> T] :
    (\A e \in D : m[e] < m[d] => f[e] = g[e]) => G[d][f] = G[d][g]

WellFounded(D, T, n, m, G) ==
  /\ n \in Nat /\ m \in [D -> 0..n] /\ T # {}
  /\ G \in [D -> [[D -> T] -> T]] /\ Causal(D, m, T, G)
Solvable(D, T, G) == \E f \in [D -> T] : \A d \in D : f[d] = G[d][f]

\* A recursive definition that is causal for a bounded measure has a solution.
LEMMA Recursion ==
  ASSUME NEW D, NEW T, NEW n, NEW m, NEW G, WellFounded(D, T, n, m, G)
  PROVE  Solvable(D, T, G)
<1> USE DEF WellFounded, Solvable
<1> DEFINE S == {k \in Nat : \E f \in [D -> T] : \A d \in D : m[d] < k => f[d] = G[d][f]}
<1>1. 0 \in S
  <2>1. PICK t : t \in T
    OBVIOUS
  <2> DEFINE f == [d \in D |-> t]
  <2>2. f \in [D -> T] /\ \A d \in D : ~(m[d] < 0)
    BY <2>1
  <2> HIDE DEF f
  <2>3. \A d \in D : m[d] < 0 => f[d] = G[d][f]
    BY <2>2
  <2> QED BY <2>2, <2>3
<1>2. ASSUME NEW k \in Nat, k \in S PROVE k + 1 \in S
  <2>1. PICK f \in [D -> T] : \A d \in D : m[d] < k => f[d] = G[d][f]
    BY <1>2
  <2> DEFINE g == [d \in D |-> IF m[d] < k THEN f[d] ELSE G[d][f]]
  <2>2. g \in [D -> T]
    OBVIOUS
  <2>3. ASSUME NEW d \in D, m[d] < k + 1 PROVE g[d] = G[d][g]
    <3>1. \A e \in D : m[e] < m[d] => f[e] = g[e]
      BY <2>3
    <3>2. G[d][f] = G[d][g]
      BY <2>2, <3>1 DEF Causal
    <3>3. g[d] = G[d][f]
      BY <2>1
    <3> QED BY <3>2, <3>3
  <2> HIDE DEF g
  <2> QED BY <2>2, <2>3
<1>3. n + 1 \in S
  <2> HIDE DEF S
  <2> QED BY <1>1, <1>2, SetInduction
<1> QED BY <1>3

-----------------------------------------------------------------------------
(* The order of components and names. *)

LEMMA MinIsLeast ==
  ASSUME NEW S, S \subseteq Nat, S # {}
  PROVE  Min(S) \in S /\ \A k \in S : Min(S) <= k
BY Least DEF Min

LEMMA SgnCases ==
  ASSUME NEW x \in Int
  PROVE  /\ x < 0 => Sgn(x) = -1
         /\ x = 0 => Sgn(x) = 0
         /\ x > 0 => Sgn(x) = 1
BY DEF Sgn

LEMMA SignedCharInjective ==
  ASSUME NEW a \in Byte, NEW b \in Byte
  PROVE  SignedChar(a) \in Int /\ (SignedChar(a) = SignedChar(b) => a = b)
BY DEF SignedChar, Byte

\* c comes before d: it is shorter, or as long and smaller where they first differ.
ComponentLess(c, d) ==
  \/ Len(c) < Len(d)
  \/ /\ Len(c) = Len(d)
     /\ \E i \in 1..Len(c) : /\ \A j \in 1..(i - 1) : c[j] = d[j]
                             /\ SignedChar(c[i]) < SignedChar(d[i])

\* The result x of a comparison says which of the three cases it is.
Decides(x, less, equal, greater) ==
  \/ x = -1 /\ less
  \/ x = 0 /\ equal
  \/ x = 1 /\ greater

LEMMA FirstDifferenceFound ==
  ASSUME NEW c \in Seq(Byte), NEW d \in Seq(Byte), Len(c) = Len(d), c # d
  PROVE  LET i == FirstDifference(c, d)
         IN i \in 1..Len(c) /\ c[i] # d[i] /\ \A j \in 1..(i - 1) : c[j] = d[j]
<1> DEFINE S == {i \in 1..Len(c) : i > Len(d) \/ c[i] # d[i]}
<1>1. Len(c) \in Nat /\ \A i \in 1..Len(c) : i \in Nat /\ ~(i > Len(d))
  OBVIOUS
<1>2. S \subseteq Nat /\ S # {}
  <2>1. \E i \in 1..Len(c) : c[i] # d[i]
    BY SeqEqual
  <2> QED BY <1>1, <2>1
<1>3. Min(S) \in S /\ \A k \in S : Min(S) <= k
  <2> HIDE DEF S
  <2> QED BY <1>2, MinIsLeast
<1> DEFINE i == Min(S)
<1>4. i \in 1..Len(c) /\ c[i] # d[i]
  BY <1>1, <1>3
<1>5. ASSUME NEW j \in 1..(i - 1) PROVE c[j] = d[j]
  <2>1. j \in 1..Len(c) /\ ~(i <= j)
    BY <1>1, <1>4
  <2> QED BY <1>3, <2>1
<1>6. FirstDifference(c, d) = i
  BY DEF FirstDifference
<1> QED BY <1>4, <1>5, <1>6

\* Component::compare decides between the two orders and equality.
LEMMA ComponentDecided ==
  ASSUME NEW c \in Seq(Byte), NEW d \in Seq(Byte)
  PROVE  Decides(CompareComponent(c, d), ComponentLess(c, d), c = d, ComponentLess(d, c))
<1>0. Len(c) \in Nat /\ Len(d) \in Nat
  OBVIOUS
<1>1. CASE Len(c) # Len(d)
  <2>1. CompareComponent(c, d) = Sgn(Len(c) - Len(d)) /\ Len(c) - Len(d) \in Int
    BY <1>0, <1>1 DEF CompareComponent
  <2>2. CASE Len(c) < Len(d)
    <3>1. Sgn(Len(c) - Len(d)) = -1
      BY <1>0, <2>2 DEF Sgn
    <3> QED BY <2>1, <2>2, <3>1 DEF Decides, ComponentLess
  <2>3. CASE Len(d) < Len(c)
    <3>1. Sgn(Len(c) - Len(d)) = 1
      BY <1>0, <2>3 DEF Sgn
    <3> QED BY <2>1, <2>3, <3>1 DEF Decides, ComponentLess
  <2> QED BY <1>0, <1>1, <2>2, <2>3
<1>2. CASE c = d
  BY <1>2 DEF CompareComponent, Decides
<1>3. CASE Len(c) = Len(d) /\ c # d
  <2> DEFINE i == FirstDifference(c, d)
             x == SignedChar(c[i])
             y == SignedChar(d[i])
  <2>1. i \in 1..Len(c) /\ c[i] # d[i] /\ \A j \in 1..(i - 1) : c[j] = d[j]
    BY <1>3, FirstDifferenceFound
  <2>2. CompareComponent(c, d) = Sgn(x - y)
    BY <1>3 DEF CompareComponent
  <2> HIDE DEF i
  <2>3. c[i] \in Byte /\ d[i] \in Byte
    BY <1>3, <2>1
  <2>4. x \in Int /\ y \in Int /\ x # y
    BY <2>1, <2>3, SignedCharInjective
  <2>5. x < y => ComponentLess(c, d)
    BY <1>3, <2>1 DEF ComponentLess
  <2>6. y < x => ComponentLess(d, c)
    <3>1. i \in 1..Len(d) /\ \A j \in 1..(i - 1) : d[j] = c[j]
      BY <1>3, <2>1
    <3> QED BY <1>3, <3>1 DEF ComponentLess
  <2> HIDE DEF x, y
  <2>7. CASE x < y
    <3>1. Sgn(x - y) = -1
      BY <2>4, <2>7 DEF Sgn
    <3> QED BY <2>2, <2>5, <2>7, <3>1 DEF Decides
  <2>8. CASE y < x
    <3>1. Sgn(x - y) = 1
      BY <2>4, <2>8 DEF Sgn
    <3> QED BY <2>2, <2>6, <2>8, <3>1 DEF Decides
  <2> QED BY <2>4, <2>7, <2>8
<1> QED BY <1>1, <1>2, <1>3

LEMMA ComponentLessIrreflexive ==
  ASSUME NEW c \in Seq(Byte), ComponentLess(c, c)
  PROVE  FALSE
<1>1. Len(c) \in Nat /\ \A i \in 1..Len(c) : c[i] \in Byte
  OBVIOUS
<1>2. \A i \in 1..Len(c) : SignedChar(c[i]) \in Int
  BY <1>1, SignedCharInjective
<1>3. ~(Len(c) < Len(c)) /\ \A i \in 1..Len(c) : ~(SignedChar(c[i]) < SignedChar(c[i]))
  BY <1>1, <1>2
<1> QED BY <1>3 DEF ComponentLess

LEMMA ComponentLessTransitive ==
  ASSUME NEW a \in Seq(Byte), NEW b \in Seq(Byte), NEW c \in Seq(Byte),
         ComponentLess(a, b), ComponentLess(b, c)
  PROVE  ComponentLess(a, c)
<1>0. Len(a) \in Nat /\ Len(b) \in Nat /\ Len(c) \in Nat /\ Len(a) <= Len(b) /\ Len(b) <= Len(c)
  BY DEF ComponentLess
<1>1. CASE Len(a) < Len(c)
  BY <1>1 DEF ComponentLess
<1>2. CASE Len(a) = Len(c)
  <2>0. Len(a) = Len(b) /\ Len(b) = Len(c)
    BY <1>0, <1>2
  <2>1. PICK i \in 1..Len(a) : /\ \A j \in 1..(i - 1) : a[j] = b[j]
                               /\ SignedChar(a[i]) < SignedChar(b[i])
    BY <1>0, <2>0 DEF ComponentLess
  <2>2. PICK k \in 1..Len(b) : /\ \A j \in 1..(k - 1) : b[j] = c[j]
                               /\ SignedChar(b[k]) < SignedChar(c[k])
    BY <1>0, <2>0 DEF ComponentLess
  <2>3. i \in Nat /\ k \in Nat /\ i \in 1..Len(b) /\ i \in 1..Len(c) /\ k \in 1..Len(a) /\ k \in 1..Len(c)
    BY <1>0, <2>0, <2>1, <2>2
  <2>4. /\ a[i] \in Byte /\ b[i] \in Byte /\ c[i] \in Byte
        /\ a[k] \in Byte /\ b[k] \in Byte /\ c[k] \in Byte
    BY <2>1, <2>2, <2>3, ElementOfSeq
  <2>5. /\ SignedChar(a[i]) \in Int /\ SignedChar(b[i]) \in Int /\ SignedChar(c[i]) \in Int
        /\ SignedChar(a[k]) \in Int /\ SignedChar(b[k]) \in Int /\ SignedChar(c[k]) \in Int
    BY <2>4, SignedCharInjective
  <2>6. CASE i < k
    <3>1. \A j \in 1..(i - 1) : j \in 1..(k - 1)
      BY <2>3, <2>6
    <3>2. i \in 1..(k - 1)
      BY <2>1, <2>2, <2>3, <2>6
    <3>3. (\A j \in 1..(i - 1) : a[j] = c[j]) /\ b[i] = c[i]
      BY <2>1, <2>2, <3>1, <3>2
    <3>4. SignedChar(a[i]) < SignedChar(c[i])
      BY <2>1, <3>3
    <3> QED BY <1>2, <2>1, <3>3, <3>4 DEF ComponentLess
  <2>7. CASE i = k
    <3>1. \A j \in 1..(i - 1) : a[j] = c[j]
      BY <2>1, <2>2, <2>7
    <3>2. SignedChar(a[i]) < SignedChar(c[i])
      BY <2>1, <2>2, <2>5, <2>7
    <3> QED BY <1>2, <2>1, <3>1, <3>2 DEF ComponentLess
  <2>8. CASE k < i
    <3>1. \A j \in 1..(k - 1) : j \in 1..(i - 1)
      BY <2>3, <2>8
    <3>2. k \in 1..(i - 1)
      BY <2>1, <2>2, <2>3, <2>8
    <3>3. (\A j \in 1..(k - 1) : a[j] = c[j]) /\ a[k] = b[k]
      BY <2>1, <2>2, <3>1, <3>2
    <3>4. SignedChar(a[k]) < SignedChar(c[k])
      BY <2>2, <3>3
    <3> QED BY <1>2, <2>3, <3>3, <3>4 DEF ComponentLess
  <2> QED BY <2>3, <2>6, <2>7, <2>8
<1> QED BY <1>0, <1>1, <1>2

\* n comes before m: where they first differ its component is smaller, or it ends.
NameLess(n, m) ==
  \E i \in 1..Len(m) :
    /\ i <= Len(n) + 1
    /\ \A j \in 1..(i - 1) : n[j] = m[j]
    /\ i = Len(n) + 1 \/ ComponentLess(n[i], m[i])

NameSet == Seq(Seq(Byte))

LEMMA CommonDecided ==
  ASSUME NEW n \in NameSet, NEW m \in NameSet, NEW i \in 1..Len(n), i \in 1..Len(m)
  PROVE  /\ n[i] \in Seq(Byte) /\ m[i] \in Seq(Byte)
         /\ Decides(CompareComponent(n[i], m[i]), ComponentLess(n[i], m[i]), n[i] = m[i],
                    ComponentLess(m[i], n[i]))
         /\ (CompareComponent(n[i], m[i]) = 0) = (n[i] = m[i])
<1>1. n[i] \in Seq(Byte) /\ m[i] \in Seq(Byte)
  BY ElementOfSeq DEF NameSet
<1> DEFINE c == n[i]
           d == m[i]
<1>2. Decides(CompareComponent(c, d), ComponentLess(c, d), c = d, ComponentLess(d, c))
  BY <1>1, ComponentDecided
<1>3. c = d => CompareComponent(c, d) = 0
  BY DEF CompareComponent
<1>4. CompareComponent(c, d) = 0 => c = d
  BY <1>2 DEF Decides
<1> QED BY <1>1, <1>2, <1>3, <1>4

\* Name::compare decides between the two orders and equality.
LEMMA NameDecided ==
  ASSUME NEW n \in NameSet, NEW m \in NameSet
  PROVE  Decides(Compare(n, m), NameLess(n, m), n = m, NameLess(m, n))
<1> DEFINE common == 1..(IF Len(n) < Len(m) THEN Len(n) ELSE Len(m))
           differ == {i \in common : CompareComponent(n[i], m[i]) # 0}
<1>0. Len(n) \in Nat /\ Len(m) \in Nat
  BY DEF NameSet
<1>1. \A i \in Nat : i \in common <=> i \in 1..Len(n) /\ i \in 1..Len(m)
  BY <1>0
<1>2. common \subseteq Nat
  BY <1>0
<1> HIDE DEF common
<1>3. CASE differ # {}
  <2> DEFINE i == Min(differ)
  <2>1. i \in differ /\ \A k \in differ : i <= k
    <3>1. differ \subseteq Nat
      BY <1>2
    <3> HIDE DEF differ
    <3> QED BY <1>3, <3>1, MinIsLeast
  <2>2. Compare(n, m) = CompareComponent(n[i], m[i])
    BY <1>3 DEF Compare, common
  <2> HIDE DEF i
  <2>3. i \in Nat /\ i \in 1..Len(n) /\ i \in 1..Len(m) /\ CompareComponent(n[i], m[i]) # 0
    BY <1>1, <1>2, <2>1
  <2>4. ASSUME NEW j \in 1..(i - 1) PROVE n[j] = m[j]
    <3>1. j \in Nat /\ j \in 1..Len(n) /\ j \in 1..Len(m) /\ ~(i <= j)
      BY <1>0, <2>3
    <3>2. j \notin differ /\ j \in common
      BY <1>1, <2>1, <3>1
    <3>3. CompareComponent(n[j], m[j]) = 0
      BY <3>2
    <3> QED BY <3>1, <3>3, CommonDecided
  <2>5. Decides(CompareComponent(n[i], m[i]), ComponentLess(n[i], m[i]), n[i] = m[i],
                ComponentLess(m[i], n[i]))
    BY <2>3, CommonDecided
  <2>6. i <= Len(n) + 1 /\ i <= Len(m) + 1
    BY <1>0, <2>3
  <2>7. ComponentLess(n[i], m[i]) => NameLess(n, m)
    BY <2>3, <2>4, <2>6 DEF NameLess
  <2>8. ComponentLess(m[i], n[i]) => NameLess(m, n)
    BY <2>3, <2>4, <2>6 DEF NameLess
  <2> QED BY <2>2, <2>3, <2>5, <2>7, <2>8 DEF Decides
<1>4. CASE differ = {}
  <2>1. Compare(n, m) = Sgn(Len(n) - Len(m))
    BY <1>4 DEF Compare, common
  <2>2. \A j \in Nat : j \in 1..Len(n) /\ j \in 1..Len(m) => n[j] = m[j]
    <3> SUFFICES ASSUME NEW j \in Nat, j \in 1..Len(n), j \in 1..Len(m) PROVE n[j] = m[j]
      OBVIOUS
    <3>1. CompareComponent(n[j], m[j]) = 0
      BY <1>1, <1>4
    <3> QED BY <3>1, CommonDecided
  <2>3. CASE Len(n) < Len(m)
    <3>1. Sgn(Len(n) - Len(m)) = -1
      BY <1>0, <2>3 DEF Sgn
    <3>2. Len(n) + 1 \in 1..Len(m) /\ \A j \in 1..Len(n) : j \in Nat /\ j \in 1..Len(m)
      BY <1>0, <2>3
    <3>3. (Len(n) + 1) - 1 = Len(n) /\ Len(n) + 1 <= Len(n) + 1
      BY <1>0
    <3>4. NameLess(n, m)
      BY <2>2, <3>2, <3>3 DEF NameLess
    <3> QED BY <2>1, <3>1, <3>4 DEF Decides
  <2>4. CASE Len(m) < Len(n)
    <3>1. Sgn(Len(n) - Len(m)) = 1
      BY <1>0, <2>4 DEF Sgn
    <3>2. Len(m) + 1 \in 1..Len(n) /\ \A j \in 1..Len(m) : j \in Nat /\ j \in 1..Len(n)
      BY <1>0, <2>4
    <3>3. (Len(m) + 1) - 1 = Len(m) /\ Len(m) + 1 <= Len(m) + 1
      BY <1>0
    <3>4. NameLess(m, n)
      BY <2>2, <3>2, <3>3 DEF NameLess
    <3> QED BY <2>1, <3>1, <3>4 DEF Decides
  <2>5. CASE Len(m) = Len(n)
    <3>1. Sgn(Len(n) - Len(m)) = 0
      BY <1>0, <2>5 DEF Sgn
    <3>2. \A j \in 1..Len(n) : n[j] = m[j]
      BY <1>0, <2>2, <2>5
    <3>3. n = m
      BY <2>5, <3>2, SeqEqual DEF NameSet
    <3> QED BY <2>1, <3>1, <3>3 DEF Decides
  <2> QED BY <1>0, <2>3, <2>4, <2>5
<1> QED BY <1>3, <1>4

LEMMA NameLessIrreflexive ==
  ASSUME NEW n \in NameSet, NameLess(n, n)
  PROVE  FALSE
<1>1. PICK i \in 1..Len(n) : i = Len(n) + 1 \/ ComponentLess(n[i], n[i])
  BY DEF NameLess
<1>2. Len(n) \in Nat /\ n[i] \in Seq(Byte) /\ i # Len(n) + 1
  BY ElementOfSeq DEF NameSet
<1> QED BY <1>1, <1>2, ComponentLessIrreflexive

LEMMA NameLessTransitive ==
  ASSUME NEW a \in NameSet, NEW b \in NameSet, NEW c \in NameSet,
         NameLess(a, b), NameLess(b, c)
  PROVE  NameLess(a, c)
<1>0. Len(a) \in Nat /\ Len(b) \in Nat /\ Len(c) \in Nat
  BY DEF NameSet
<1>1. PICK i \in 1..Len(b) : /\ i <= Len(a) + 1
                             /\ \A j \in 1..(i - 1) : a[j] = b[j]
                             /\ i = Len(a) + 1 \/ ComponentLess(a[i], b[i])
  BY DEF NameLess
<1>2. PICK k \in 1..Len(c) : /\ k <= Len(b) + 1
                             /\ \A j \in 1..(k - 1) : b[j] = c[j]
                             /\ k = Len(b) + 1 \/ ComponentLess(b[k], c[k])
  BY DEF NameLess
<1>3. i \in Nat /\ k \in Nat /\ i <= Len(b) /\ k <= Len(c) /\ i >= 1 /\ k >= 1
  BY <1>0
<1>4. CASE i < k
  <2>1. i \in 1..Len(c) /\ i \in 1..(k - 1) /\ \A j \in 1..(i - 1) : j \in 1..(k - 1)
    BY <1>0, <1>3, <1>4
  <2>2. b[i] = c[i] /\ \A j \in 1..(i - 1) : a[j] = c[j]
    BY <1>1, <1>2, <2>1
  <2>3. i = Len(a) + 1 \/ ComponentLess(a[i], c[i])
    BY <1>1, <2>2
  <2> QED BY <1>1, <2>1, <2>2, <2>3 DEF NameLess
<1>5. CASE k < i
  <2>1. k \in 1..(i - 1) /\ k <= Len(a) /\ k # Len(b) + 1 /\ \A j \in 1..(k - 1) : j \in 1..(i - 1)
    BY <1>0, <1>1, <1>3, <1>5
  <2>2. a[k] = b[k] /\ \A j \in 1..(k - 1) : a[j] = c[j]
    BY <1>1, <1>2, <2>1
  <2>3. ComponentLess(a[k], c[k]) /\ k <= Len(a) + 1
    BY <1>0, <1>2, <1>3, <2>1, <2>2
  <2> QED BY <2>2, <2>3 DEF NameLess
<1>6. CASE i = k
  <2>1. \A j \in 1..(i - 1) : a[j] = c[j]
    BY <1>1, <1>2, <1>6
  <2>2. CASE i = Len(a) + 1
    BY <1>1, <1>2, <1>6, <2>1, <2>2 DEF NameLess
  <2>3. CASE i # Len(a) + 1
    <3>1. i \in 1..Len(a) /\ i \in 1..Len(b) /\ i \in 1..Len(c) /\ k # Len(b) + 1
      BY <1>0, <1>1, <1>3, <1>6, <2>3
    <3>2. a[i] \in Seq(Byte) /\ b[i] \in Seq(Byte) /\ c[i] \in Seq(Byte)
      BY <3>1, ElementOfSeq DEF NameSet
    <3>3. ComponentLess(a[i], b[i]) /\ ComponentLess(b[i], c[i])
      BY <1>1, <1>2, <1>6, <2>3, <3>1
    <3>4. ComponentLess(a[i], c[i])
      BY <3>2, <3>3, ComponentLessTransitive
    <3> QED BY <1>1, <2>1, <3>1, <3>4 DEF NameLess
  <2> QED BY <2>2, <2>3
<1> QED BY <1>3, <1>4, <1>5, <1>6

\* compare is antisymmetric, zero only for equal names, and transitive.
THEOREM NamesTotallyOrdered ==
  \A n, m, k \in Seq(Seq(Byte)) :
    /\ Compare(n, m) \in {-1, 0, 1}
    /\ Compare(n, m) = -Compare(m, n)
    /\ (Compare(n, m) = 0) = (n = m)
    /\ ~Precedes(m, k) /\ ~Precedes(n, m) => ~Precedes(n, k)
<1> SUFFICES ASSUME NEW n \in NameSet, NEW m \in NameSet, NEW k \in NameSet
             PROVE  /\ Compare(n, m) \in {-1, 0, 1}
                    /\ Compare(n, m) = -Compare(m, n)
                    /\ (Compare(n, m) = 0) = (n = m)
                    /\ ~Precedes(m, k) /\ ~Precedes(n, m) => ~Precedes(n, k)
  BY DEF NameSet
<1>1. \A a, b \in NameSet : Decides(Compare(a, b), NameLess(a, b), a = b, NameLess(b, a))
  BY NameDecided
<1>2. \A a, b \in NameSet : ~(NameLess(a, b) /\ NameLess(b, a))
  BY NameLessIrreflexive, NameLessTransitive
<1>3. \A a \in NameSet : ~NameLess(a, a)
  BY NameLessIrreflexive
<1>4. \A a, b \in NameSet : /\ Compare(a, b) = -1 <=> NameLess(a, b)
                            /\ Compare(a, b) = 0 <=> a = b
                            /\ Compare(a, b) = 1 <=> NameLess(b, a)
                            /\ Compare(a, b) \in {-1, 0, 1}
  BY <1>1, <1>2, <1>3 DEF Decides
<1>5. \A a, b \in NameSet : ~Precedes(a, b) <=> (a = b \/ NameLess(b, a))
  BY <1>4 DEF Precedes
<1>6. ~Precedes(m, k) /\ ~Precedes(n, m) => ~Precedes(n, k)
  BY <1>5, NameLessTransitive
<1>7. Compare(n, m) = -Compare(m, n)
  BY <1>4
<1> QED BY <1>4, <1>6, <1>7

-----------------------------------------------------------------------------
(* FlattenSeq *)

FlatEq(f, seqs) == f = [i \in 1..Len(seqs) |-> IF i = 1 THEN seqs[i] ELSE f[i - 1] \o seqs[i]]

\* FlattenSeq is the last value of a function that follows its recursion.
LEMMA FlattenFcn ==
  ASSUME NEW B, NEW seqs \in Seq(Seq(B)), Len(seqs) > 0
  PROVE  \E f : FlatEq(f, seqs) /\ FlattenSeq(seqs) = f[Len(seqs)]
<1> DEFINE D == 1..Len(seqs)
           body(f, i) == IF i = 1 THEN seqs[i] ELSE f[i - 1] \o seqs[i]
           F == CHOOSE f : f = [i \in D |-> body(f, i)]
           G == [i \in D |-> [f \in [D -> Seq(B)] |-> body(f, i)]]
           m == [i \in D |-> i]
<1>0. \A i \in D : i \in Nat /\ (i # 1 => i - 1 \in D) /\ seqs[i] \in Seq(B)
  OBVIOUS
<1>b. \A i \in D, f \in [D -> Seq(B)] : body(f, i) \in Seq(B)
  <2> SUFFICES ASSUME NEW i \in D, NEW f \in [D -> Seq(B)] PROVE body(f, i) \in Seq(B)
    OBVIOUS
  <2>1. i # 1 => f[i - 1] \in Seq(B)
    BY <1>0
  <2> QED BY <1>0, <2>1
<1>1. G \in [D -> [[D -> Seq(B)] -> Seq(B)]]
  <2> HIDE DEF D, body
  <2> QED BY <1>b
<1>2. Causal(D, m, Seq(B), G)
  <2> SUFFICES ASSUME NEW d \in D, NEW f \in [D -> Seq(B)], NEW g \in [D -> Seq(B)],
                      \A e \in D : e < d => f[e] = g[e]
               PROVE  body(f, d) = body(g, d)
    <3> HIDE DEF D, body
    <3> QED BY DEF Causal
  <2> QED BY <1>0
<1>3. WellFounded(D, Seq(B), Len(seqs), m, G)
  <2>1. m \in [D -> 0..Len(seqs)] /\ Seq(B) # {} /\ Len(seqs) \in Nat
    OBVIOUS
  <2> HIDE DEF G, m, D, F
  <2> QED BY <1>1, <1>2, <2>1 DEF WellFounded
<1>f. PICK f \in [D -> Seq(B)] : \A d \in D : f[d] = G[d][f]
  <2> HIDE DEF G, m, D, F
  <2>1. Solvable(D, Seq(B), G)
    BY <1>3, Recursion
  <2> QED BY <2>1 DEF Solvable
<1>4. \E h : h = [i \in D |-> body(h, i)]
  <2>1. \A d \in D : f[d] = body(f, d)
    <3> HIDE DEF D, body, F
    <3> QED BY <1>f
  <2>2. f = [i \in D |-> body(f, i)]
    <3> HIDE DEF D, body, F
    <3> QED BY <2>1
  <2> QED BY <2>2
<1>5. F = [i \in D |-> body(F, i)]
  BY <1>4
<1>6. FlattenSeq(seqs) = F[Len(seqs)]
  BY DEF FlattenSeq
<1> QED BY <1>5, <1>6 DEF FlatEq

\* f[i] is the concatenation of the first i blocks.
Concats(B, f, seqs, n) ==
  /\ n \in Nat /\ seqs \in [1..n -> Seq(B)]
  /\ n > 0 => f[1] = seqs[1]
  /\ \A i \in 1..n : i # 1 => f[i] = f[i - 1] \o seqs[i]

\* f[i] is a sequence, of which each f[k] before it is a prefix.
Grown(B, f, i) ==
  /\ f[i] \in Seq(B)
  /\ \A k \in 1..i : /\ Len(f[k]) <= Len(f[i])
                     /\ \A j \in 1..Len(f[k]) : f[i][j] = f[k][j]

LEMMA GrownStep ==
  ASSUME NEW B, NEW f, NEW i \in Nat, i > 0, NEW t \in Seq(B), f[i + 1] = f[i] \o t,
         \A k \in 1..i : f[k] \in Seq(B), Grown(B, f, i)
  PROVE  Grown(B, f, i + 1)
<1>1. /\ f[i] \in Seq(B) /\ f[i + 1] \in Seq(B) /\ Len(f[i + 1]) = Len(f[i]) + Len(t)
      /\ Len(f[i]) \in Nat /\ Len(t) \in Nat
      /\ \A j \in 1..Len(f[i]) : f[i + 1][j] = f[i][j]
  BY ConcatProperties DEF Grown
<1>2. ASSUME NEW k \in 1..(i + 1)
      PROVE  /\ Len(f[k]) <= Len(f[i + 1])
             /\ \A j \in 1..Len(f[k]) : f[i + 1][j] = f[k][j]
  <2>1. CASE k = i + 1
    BY <1>1, <2>1
  <2>2. CASE k # i + 1
    <3>1. k \in 1..i
      BY <2>2
    <3>2. Len(f[k]) \in Nat
      BY <3>1, LenProperties
    <3>3. Len(f[k]) <= Len(f[i]) /\ \A j \in 1..Len(f[k]) : f[i][j] = f[k][j]
      BY <3>1 DEF Grown
    <3>4. \A j \in 1..Len(f[k]) : j \in 1..Len(f[i])
      BY <3>2, <3>3, <1>1
    <3> QED BY <1>1, <3>2, <3>3, <3>4
  <2> QED BY <2>1, <2>2
<1> QED BY <1>1, <1>2 DEF Grown

LEMMA AllGrown ==
  ASSUME NEW B, NEW f, NEW seqs, NEW n, Concats(B, f, seqs, n)
  PROVE  \A i \in 1..n : Grown(B, f, i)
<1> DEFINE S == {i \in Nat : i <= n => \A k \in 1..i : Grown(B, f, k)}
<1>1. 0 \in S
  OBVIOUS
<1>2. ASSUME NEW i \in Nat, i \in S  PROVE i + 1 \in S
  <2> SUFFICES ASSUME i + 1 <= n  PROVE Grown(B, f, i + 1)
    <3>1. \A k \in 1..(i + 1) : k \in 1..i \/ k = i + 1
      OBVIOUS
    <3>2. i + 1 <= n => i <= n
      BY DEF Concats
    <3> QED BY <1>2, <3>1, <3>2
  <2>1. i <= n /\ \A k \in 1..i : Grown(B, f, k)
    BY <1>2 DEF Concats
  <2> HIDE DEF S
  <2>2. CASE i = 0
    <3>1. f[i + 1] = seqs[i + 1] /\ seqs[i + 1] \in Seq(B)
      BY <2>2 DEF Concats
    <3>2. f[i + 1] \in Seq(B) /\ Len(f[i + 1]) \in Nat /\ \A k \in 1..(i + 1) : k = i + 1
      BY <2>2, <3>1
    <3> HIDE <2>1
    <3> QED BY <3>2 DEF Grown
  <2>3. CASE i # 0
    <3>1. f[i + 1] = f[i] \o seqs[i + 1] /\ seqs[i + 1] \in Seq(B)
      <4>1. i + 1 \in 1..n /\ i + 1 # 1 /\ (i + 1) - 1 = i
        BY <2>3 DEF Concats
      <4> QED BY <4>1 DEF Concats
    <3>2. \A k \in 1..i : f[k] \in Seq(B)
      BY <2>1 DEF Grown
    <3>3. i > 0 /\ Grown(B, f, i)
      BY <2>1, <2>3
    <3> QED BY <3>1, <3>2, <3>3, GrownStep
  <2> QED BY <2>2, <2>3
<1>3. Nat \subseteq S
  <2> HIDE DEF S
  <2> QED BY <1>1, <1>2, SetInduction
<1>4. n \in S /\ n \in Nat
  BY <1>3 DEF Concats
<1> QED BY <1>4

\* Block i of seqs starts at p[i] in u, and u is nothing but those blocks.
Starts(p, seqs, u) ==
  /\ p \in [1..(Len(seqs) + 1) -> 1..(Len(u) + 1)]
  /\ p[1] = 1 /\ p[Len(seqs) + 1] = Len(u) + 1
  /\ \A i \in 1..Len(seqs) : /\ p[i + 1] = p[i] + Len(seqs[i])
                             /\ \A j \in 1..Len(seqs[i]) : u[p[i] + j - 1] = seqs[i][j]

\* Where the blocks start, from the concatenations of the blocks before them.
LEMMA StartsOfConcats ==
  ASSUME NEW B, NEW f, NEW n \in Nat, n > 0, NEW seqs \in [1..n -> Seq(B)], Len(seqs) = n,
         Concats(B, f, seqs, n)
  PROVE  f[n] \in Seq(B) /\ \E p : Starts(p, seqs, f[n])
<1>1. \A i \in 1..n : Grown(B, f, i)
  BY AllGrown
<1>2. \A i \in 1..n : f[i] \in Seq(B) /\ Len(f[i]) \in Nat
  BY <1>1, LenProperties DEF Grown
<1>3. \A i \in 1..n : /\ Len(f[i]) <= Len(f[n])
                      /\ \A j \in 1..Len(f[i]) : f[n][j] = f[i][j]
  <2>1. n \in 1..n
    OBVIOUS
  <2> QED BY <1>1, <2>1 DEF Grown
<1>n. n \in 1..n /\ Len(f[n]) \in Nat
  BY <1>2
<1> DEFINE P(i) == IF i = 1 THEN 1 ELSE Len(f[i - 1]) + 1
           p == [i \in 1..(n + 1) |-> P(i)]
<1>4. \A i \in 1..(n + 1) : i = 1 \/ i - 1 \in 1..n
  OBVIOUS
<1>5. \A i \in 1..(n + 1) : P(i) \in 1..(Len(f[n]) + 1)
  <2> SUFFICES ASSUME NEW i \in 1..(n + 1) PROVE P(i) \in 1..(Len(f[n]) + 1)
    OBVIOUS
  <2>1. CASE i = 1
    BY <2>1, <1>n
  <2>2. CASE i # 1
    <3>1. i - 1 \in 1..n /\ P(i) = Len(f[i - 1]) + 1
      BY <1>4, <2>2
    <3>2. Len(f[i - 1]) \in Nat /\ Len(f[i - 1]) <= Len(f[n])
      BY <1>2, <1>3, <3>1
    <3> QED BY <1>n, <3>1, <3>2
  <2> QED BY <2>1, <2>2
<1>6. P(1) = 1 /\ P(n + 1) = Len(f[n]) + 1
  OBVIOUS
<1>7. ASSUME NEW i \in 1..n
      PROVE  /\ P(i + 1) = P(i) + Len(seqs[i])
             /\ \A j \in 1..Len(seqs[i]) : f[n][P(i) + j - 1] = seqs[i][j]
  <2>0. seqs[i] \in Seq(B) /\ Len(seqs[i]) \in Nat /\ P(i + 1) = Len(f[i]) + 1 /\ i \in Nat
    <3>1. i + 1 # 1 /\ (i + 1) - 1 = i /\ i \in Nat
      OBVIOUS
    <3> QED BY <3>1, LenProperties
  <2>1. CASE i = 1
    <3>1. f[i] = seqs[i] /\ P(i) = 1
      BY <2>1 DEF Concats
    <3>2. \A j \in 1..Len(seqs[i]) : P(i) + j - 1 = j
      BY <3>1
    <3>3. \A j \in 1..Len(seqs[i]) : f[n][j] = seqs[i][j]
      BY <1>3, <3>1
    <3>4. P(i + 1) = P(i) + Len(seqs[i])
      <4>1. P(i + 1) = Len(seqs[i]) + 1 /\ P(i) = 1 /\ Len(seqs[i]) \in Nat
        BY <2>0, <3>1
      <4> HIDE DEF P
      <4> QED BY <4>1
    <3> HIDE DEF P
    <3> QED BY <3>2, <3>3, <3>4
  <2>2. CASE i # 1
    <3>1. f[i] = f[i - 1] \o seqs[i] /\ P(i) = Len(f[i - 1]) + 1
      BY <2>2 DEF Concats
    <3>2. i - 1 \in 1..n
      BY <2>2
    <3>3. f[i - 1] \in Seq(B) /\ Len(f[i - 1]) \in Nat
      BY <1>2, <3>2
    <3>4. /\ Len(f[i]) = Len(f[i - 1]) + Len(seqs[i])
          /\ \A j \in 1..Len(seqs[i]) : f[i][Len(f[i - 1]) + j] = seqs[i][j]
      <4> DEFINE s == f[i - 1]
                 t == seqs[i]
      <4>1. s \in Seq(B) /\ t \in Seq(B) /\ f[i] = s \o t /\ Len(s) \in Nat /\ Len(t) \in Nat
        BY <2>0, <3>1, <3>3
      <4> HIDE DEF s, t
      <4>2. Len(s \o t) = Len(s) + Len(t) /\ \A j \in 1..Len(t) : (s \o t)[Len(s) + j] = t[j]
        BY <4>1
      <4>3. Len(f[i]) = Len(s) + Len(t) /\ \A j \in 1..Len(t) : f[i][Len(s) + j] = t[j]
        BY <4>1, <4>2
      <4> QED BY <4>3 DEF s, t
    <3>5. \A j \in 1..Len(seqs[i]) : /\ P(i) + j - 1 = Len(f[i - 1]) + j
                                     /\ Len(f[i - 1]) + j \in 1..Len(f[i])
      BY <2>0, <3>1, <3>3, <3>4
    <3>6. \A j \in 1..Len(seqs[i]) : f[n][Len(f[i - 1]) + j] = seqs[i][j]
      BY <1>3, <3>4, <3>5
    <3>7. P(i + 1) = P(i) + Len(seqs[i])
      BY <2>0, <3>1, <3>3, <3>4
    <3> HIDE DEF P
    <3> QED BY <3>5, <3>6, <3>7
  <2> QED BY <2>1, <2>2
<1> HIDE DEF P
<1>8. Starts(p, seqs, f[n])
  <2>1. p \in [1..(n + 1) -> 1..(Len(f[n]) + 1)]
    BY <1>5
  <2>2. \A i \in 1..(n + 1) : p[i] = P(i)
    OBVIOUS
  <2>3. 1 \in 1..(n + 1) /\ n + 1 \in 1..(n + 1) /\ \A i \in 1..n : i \in 1..(n + 1) /\ i + 1 \in 1..(n + 1)
    OBVIOUS
  <2> HIDE DEF p
  <2> QED BY <1>6, <1>7, <2>1, <2>2, <2>3 DEF Starts
<1> QED BY <1>2, <1>n, <1>8

\* What FlattenSeq returns: the blocks, one after the other.
LEMMA FlattenParts ==
  ASSUME NEW B, NEW seqs \in Seq(Seq(B))
  PROVE  FlattenSeq(seqs) \in Seq(B) /\ \E p : Starts(p, seqs, FlattenSeq(seqs))
<1>0. Len(seqs) \in Nat /\ seqs \in [1..Len(seqs) -> Seq(B)]
  OBVIOUS
<1>1. CASE Len(seqs) = 0
  <2>1. FlattenSeq(seqs) = seqs /\ seqs = <<>> /\ seqs \in Seq(B) /\ Len(seqs) + 1 = 1
    BY <1>1 DEF FlattenSeq
  <2> DEFINE p == [i \in 1..1 |-> 1]
  <2>2. p \in [1..1 -> 1..1] /\ p[1] = 1 /\ 1..Len(seqs) = {}
    BY <1>1
  <2> HIDE DEF p
  <2>3. Starts(p, seqs, seqs)
    BY <2>1, <2>2 DEF Starts
  <2> QED BY <2>1, <2>3
<1>2. CASE Len(seqs) > 0
  <2>1. PICK f : FlatEq(f, seqs) /\ FlattenSeq(seqs) = f[Len(seqs)]
    BY <1>2, FlattenFcn
  <2> DEFINE n == Len(seqs)
  <2>2. \A i \in 1..n : f[i] = IF i = 1 THEN seqs[i] ELSE f[i - 1] \o seqs[i]
    BY <2>1 DEF FlatEq
  <2>3. Concats(B, f, seqs, n)
    <3>1. f[1] = seqs[1]
      <4>1. 1 \in 1..n
        BY <1>0, <1>2
      <4> QED BY <2>2, <4>1
    <3> HIDE DEF n
    <3>2. n \in Nat /\ seqs \in [1..n -> Seq(B)]
      BY <1>0 DEF n
    <3> QED BY <2>2, <3>1, <3>2 DEF Concats
  <2>4. n \in Nat /\ n > 0 /\ Len(seqs) = n
    BY <1>0, <1>2
  <2>5. f[n] \in Seq(B) /\ \E p : Starts(p, seqs, f[n])
    <3> HIDE DEF n
    <3>1. seqs \in [1..n -> Seq(B)]
      BY <1>0 DEF n
    <3> QED BY <2>3, <2>4, <3>1, StartsOfConcats
  <2> QED BY <2>1, <2>5
<1> QED BY <1>0, <1>1, <1>2

-----------------------------------------------------------------------------
(* Escaping. *)

\* Induction from the last of n positions to the first.
LEMMA DownInduction ==
  ASSUME NEW n \in Nat, NEW S,
         \A i \in 1..n : (\A k \in (i + 1)..n : k \in S) => i \in S
  PROVE  \A i \in 1..n : i \in S
<1> SUFFICES ASSUME NEW x \in 1..n, x \notin S PROVE FALSE
  OBVIOUS
<1> DEFINE T == {n - i : i \in {j \in 1..n : j \notin S}}
<1>1. T \subseteq Nat /\ T # {}
  OBVIOUS
<1>2. PICK t \in T : \A k \in T : t <= k
  <2> HIDE DEF T
  <2> QED BY <1>1, Least
<1>3. PICK i \in 1..n : i \notin S /\ t = n - i
  BY <1>2
<1>4. ASSUME NEW k \in (i + 1)..n PROVE k \in S
  <2> SUFFICES ASSUME k \notin S PROVE FALSE
    OBVIOUS
  <2>1. k \in 1..n
    BY <1>3
  <2>2. n - k \in T
    BY <2>1
  <2> HIDE DEF T
  <2> QED BY <1>2, <1>3, <2>1, <2>2
<1> QED BY <1>3, <1>4

LEMMA HexDigits ==
  ASSUME NEW d \in 0..15
  PROVE  HexDigit(d) \in Byte /\ HexDigit(d) # Slash /\ HexValue(HexDigit(d)) = {d}
BY DEF HexDigit, HexValue, Byte, Slash

LEMMA Nibbles ==
  ASSUME NEW b \in Byte
  PROVE  b \div 16 \in 0..15 /\ b % 16 \in 0..15 /\ (b \div 16) * 16 + (b % 16) = b
BY DEF Byte

\* How one character is written.
LEMMA EscapedShape ==
  ASSUME NEW b \in Byte
  PROVE  /\ Escaped(b) \in Seq(Byte) /\ Len(Escaped(b)) > 0
         /\ b \in EscapeCharacter =>
              /\ Len(Escaped(b)) = 3
              /\ Escaped(b)[1] = Percent
              /\ HexValue(Escaped(b)[2]) = {b \div 16} /\ HexValue(Escaped(b)[3]) = {b % 16}
         /\ b \notin EscapeCharacter => Len(Escaped(b)) = 1 /\ Escaped(b)[1] = b
         /\ b # Slash => \A j \in 1..Len(Escaped(b)) : Escaped(b)[j] # Slash
<1>1. b \div 16 \in 0..15 /\ b % 16 \in 0..15
  BY Nibbles
<1> DEFINE h == HexDigit(b \div 16)
           l == HexDigit(b % 16)
<1>2. h \in Byte /\ l \in Byte /\ h # Slash /\ l # Slash /\ HexValue(h) = {b \div 16} /\ HexValue(l) = {b % 16}
  BY <1>1, HexDigits
<1>3. Percent \in Byte /\ Percent # Slash
  BY DEF Percent, Slash, Byte
<1>4. CASE b \in EscapeCharacter
  <2>1. Escaped(b) = <<Percent, h, l>>
    BY <1>4 DEF Escaped
  <2> HIDE DEF h, l
  <2>2. Escaped(b) \in Seq(Byte) /\ Len(Escaped(b)) = 3
    BY <1>2, <1>3, <2>1
  <2>3. Escaped(b)[1] = Percent /\ Escaped(b)[2] = h /\ Escaped(b)[3] = l
    BY <2>1
  <2>4. \A j \in 1..3 : j = 1 \/ j = 2 \/ j = 3
    OBVIOUS
  <2>5. \A j \in 1..3 : Escaped(b)[j] # Slash
    BY <1>2, <1>3, <2>3, <2>4
  <2> QED BY <1>2, <1>4, <2>2, <2>3, <2>5
<1>5. CASE b \notin EscapeCharacter
  <2>1. Escaped(b) = <<b>>
    BY <1>5 DEF Escaped
  <2>2. Escaped(b) \in Seq(Byte) /\ Len(Escaped(b)) = 1 /\ Escaped(b)[1] = b
    BY <2>1
  <2>3. \A j \in 1..1 : j = 1
    OBVIOUS
  <2> QED BY <1>5, <2>2, <2>3
<1> QED BY <1>4, <1>5

Prepend(b, rest) == <<b>> \o rest
Decoded(hi, lo, rest) == <<hi * 16 + lo>> \o rest

\* One turn of the loop of fromEscaped.
FromBody(s, f, i) ==
  IF i = Len(s) + 1 THEN {<<>>}
  ELSE IF s[i] = Percent
  THEN IF i + 2 > Len(s) THEN {}
       ELSE {Decoded(hi, lo, rest) : hi \in HexValue(s[i + 1]), lo \in HexValue(s[i + 2]),
                                       rest \in f[i + 3]}
  ELSE IF s[i] \in EscapeCharacter THEN {}
  ELSE {Prepend(s[i], rest) : rest \in f[i + 1]}

LEMMA ByteOfNibbles ==
  ASSUME NEW hi \in 0..15, NEW lo \in 0..15
  PROVE  hi * 16 + lo \in Byte
BY DEF Byte

LEMMA PrependByte ==
  ASSUME NEW b \in Byte, NEW r \in Seq(Byte)
  PROVE  Prepend(b, r) \in Seq(Byte)
BY DEF Prepend

LEMMA FromBodyType ==
  ASSUME NEW s \in Seq(Byte), NEW f, NEW i \in 1..(Len(s) + 1),
         \A k \in (i + 1)..(Len(s) + 1) : f[k] \subseteq Seq(Byte)
  PROVE  FromBody(s, f, i) \subseteq Seq(Byte)
<1>0. Len(s) \in Nat
  OBVIOUS
<1>1. CASE i = Len(s) + 1
  BY <1>1 DEF FromBody
<1>2. CASE i # Len(s) + 1
  <2>1. i \in 1..Len(s) /\ s[i] \in Byte /\ i + 1 \in (i + 1)..(Len(s) + 1)
    BY <1>0, <1>2
  <2>2. CASE s[i] = Percent /\ i + 2 <= Len(s)
    <3>1. i + 3 \in (i + 1)..(Len(s) + 1)
      BY <1>0, <2>2
    <3>2. f[i + 3] \subseteq Seq(Byte)
      BY <3>1
    <3>3. FromBody(s, f, i) = {Decoded(hi, lo, rest) : hi \in HexValue(s[i + 1]),
                                    lo \in HexValue(s[i + 2]), rest \in f[i + 3]}
      BY <1>0, <1>2, <2>1, <2>2 DEF FromBody
    <3>4. ASSUME NEW hi \in HexValue(s[i + 1]), NEW lo \in HexValue(s[i + 2]), NEW rest \in f[i + 3]
          PROVE  Decoded(hi, lo, rest) \in Seq(Byte)
      <4>1. hi \in 0..15 /\ lo \in 0..15
        BY DEF HexValue
      <4>2. hi * 16 + lo \in Byte
        BY <4>1, ByteOfNibbles
      <4>3. Decoded(hi, lo, rest) = Prepend(hi * 16 + lo, rest)
        BY DEF Decoded, Prepend
      <4> QED BY <3>2, <4>2, <4>3, PrependByte
    <3>5. ASSUME NEW x \in FromBody(s, f, i) PROVE x \in Seq(Byte)
      <4>1. PICK hi \in HexValue(s[i + 1]), lo \in HexValue(s[i + 2]), rest \in f[i + 3] :
                 x = Decoded(hi, lo, rest)
        BY <3>3
      <4> QED BY <3>4, <4>1
    <3> QED BY <3>5
  <2>3. CASE s[i] = Percent /\ i + 2 > Len(s)
    BY <1>2, <2>3 DEF FromBody
  <2>4. CASE s[i] # Percent /\ s[i] \in EscapeCharacter
    BY <1>2, <2>4 DEF FromBody
  <2>5. CASE s[i] # Percent /\ s[i] \notin EscapeCharacter
    <3>1. FromBody(s, f, i) = {Prepend(s[i], rest) : rest \in f[i + 1]}
      BY <1>2, <2>5 DEF FromBody
    <3>2. \A rest \in f[i + 1] : Prepend(s[i], rest) \in Seq(Byte)
      BY <2>1, PrependByte
    <3> QED BY <3>1, <3>2
  <2> QED BY <1>0, <2>1, <2>2, <2>3, <2>4, <2>5
<1> QED BY <1>1, <1>2

LEMMA FromBodyCausal ==
  ASSUME NEW s \in Seq(Byte), NEW f, NEW g, NEW i \in 1..(Len(s) + 1),
         \A k \in (i + 1)..(Len(s) + 1) : f[k] = g[k]
  PROVE  FromBody(s, f, i) = FromBody(s, g, i)
<1>0. Len(s) \in Nat
  OBVIOUS
<1>1. i # Len(s) + 1 => f[i + 1] = g[i + 1]
  BY <1>0
<1>2. i # Len(s) + 1 /\ ~(i + 2 > Len(s)) => f[i + 3] = g[i + 3]
  BY <1>0
<1>3. CASE i = Len(s) + 1
  BY <1>3 DEF FromBody
<1>4. CASE i # Len(s) + 1 /\ i + 2 > Len(s)
  <2>1. f[i + 1] = g[i + 1]
    BY <1>1, <1>4
  <2>2. CASE s[i] = Percent
    BY <1>4, <2>2 DEF FromBody
  <2>3. CASE s[i] # Percent
    BY <1>4, <2>1, <2>3 DEF FromBody
  <2> QED BY <2>2, <2>3
<1>5. CASE i # Len(s) + 1 /\ ~(i + 2 > Len(s))
  <2>1. f[i + 1] = g[i + 1] /\ f[i + 3] = g[i + 3]
    BY <1>1, <1>2, <1>5
  <2> QED BY <1>5, <2>1 DEF FromBody
<1> QED BY <1>3, <1>4, <1>5

\* fromEscaped follows its loop.
LEMMA FromEscapedFcn ==
  ASSUME NEW s \in Seq(Byte)
  PROVE  \E f : /\ fromEscaped(s) = f[1]
                /\ \A i \in 1..(Len(s) + 1) : f[i] = FromBody(s, f, i) /\ f[i] \subseteq Seq(Byte)
<1> DEFINE D == 1..(Len(s) + 1)
           T == SUBSET Seq(Byte)
           F == CHOOSE f : f = [i \in D |-> FromBody(s, f, i)]
           G == [i \in D |-> [f \in [D -> T] |-> FromBody(s, f, i)]]
           m == [i \in D |-> Len(s) + 1 - i]
<1>0. Len(s) \in Nat /\ \A i \in D : \A k \in (i + 1)..(Len(s) + 1) : k \in D /\ m[k] < m[i]
  OBVIOUS
<1>1. G \in [D -> [[D -> T] -> T]]
  <2>1. ASSUME NEW i \in D, NEW f \in [D -> T] PROVE FromBody(s, f, i) \in T
    <3>1. \A k \in (i + 1)..(Len(s) + 1) : f[k] \subseteq Seq(Byte)
      BY <1>0
    <3> QED BY <3>1, FromBodyType
  <2> HIDE DEF D, T
  <2> QED BY <2>1
<1>2. Causal(D, m, T, G)
  <2>1. ASSUME NEW d \in D, NEW f \in [D -> T], NEW g \in [D -> T],
                      \A e \in D : m[e] < m[d] => f[e] = g[e]
               PROVE  FromBody(s, f, d) = FromBody(s, g, d)
    <3>1. \A k \in (d + 1)..(Len(s) + 1) : f[k] = g[k]
      BY <1>0, <2>1
    <3> QED BY <3>1, FromBodyCausal
  <2> HIDE DEF D, T, m
  <2> QED BY <2>1 DEF Causal
<1>3. WellFounded(D, T, Len(s), m, G)
  <2>1. m \in [D -> 0..Len(s)] /\ T # {} /\ Len(s) \in Nat
    BY <1>0
  <2> HIDE DEF G, m, D, F, T
  <2> QED BY <1>1, <1>2, <2>1 DEF WellFounded
<1>f. PICK f \in [D -> T] : \A d \in D : f[d] = G[d][f]
  <2> HIDE DEF G, m, D, F, T
  <2>1. Solvable(D, T, G)
    BY <1>3, Recursion
  <2> QED BY <2>1 DEF Solvable
<1>4. \E h : h = [i \in D |-> FromBody(s, h, i)]
  <2>1. \A d \in D : f[d] = FromBody(s, f, d)
    <3> HIDE DEF D, F, T
    <3> QED BY <1>f
  <2>2. f = [i \in D |-> FromBody(s, f, i)]
    <3> HIDE DEF D, F
    <3> QED BY <2>1
  <2> QED BY <2>2
<1>5. F = [i \in D |-> FromBody(s, F, i)]
  BY <1>4
<1>6. fromEscaped(s) = F[1]
  BY DEF fromEscaped, FromBody, Prepend, Decoded
<1>7. \A i \in D : F[i] = FromBody(s, F, i)
  <2> HIDE DEF F, D
  <2> QED BY <1>5
<1> HIDE DEF F
<1>8. \A i \in 1..(Len(s) + 1) : i \in {k \in D : F[k] \subseteq Seq(Byte)}
  <2> DEFINE S == {k \in D : F[k] \subseteq Seq(Byte)}
  <2>1. ASSUME NEW i \in 1..(Len(s) + 1), \A k \in (i + 1)..(Len(s) + 1) : k \in S
        PROVE  i \in S
    <3>1. FromBody(s, F, i) \subseteq Seq(Byte)
      BY <2>1, FromBodyType
    <3> QED BY <1>7, <3>1
  <2>2. Len(s) + 1 \in Nat
    BY <1>0
  <2> HIDE DEF S
  <2>3. \A i \in 1..(Len(s) + 1) : i \in S
    BY <2>1, <2>2, DownInduction
  <2> QED BY <2>3 DEF S
<1> QED BY <1>6, <1>7, <1>8

LEMMA SuffixPrepend ==
  ASSUME NEW B, NEW c \in Seq(B), NEW k \in 1..Len(c)
  PROVE  /\ SubSeq(c, k + 1, Len(c)) \in Seq(B)
         /\ SubSeq(c, k, Len(c)) = <<c[k]>> \o SubSeq(c, k + 1, Len(c))
<1>1. SubSeq(c, k, Len(c)) = <<c[k]>> \o SubSeq(c, k + 1, Len(c))
  BY SubSeqRecursiveFirst
<1>2. SubSeq(c, k + 1, Len(c)) \in Seq(B)
  <2>1. \A i \in (k + 1)..Len(c) : c[i] \in B
    OBVIOUS
  <2> QED BY <2>1, SubSeqProperties
<1> QED BY <1>1, <1>2

\* The blocks of toEscaped.
EscapedBlocks(c) == [i \in DOMAIN c |-> Escaped(c[i])]

LEMMA EscapedBlocksType ==
  ASSUME NEW c \in Seq(Byte)
  PROVE  /\ EscapedBlocks(c) \in Seq(Seq(Byte)) /\ Len(EscapedBlocks(c)) = Len(c)
         /\ \A k \in 1..Len(c) : EscapedBlocks(c)[k] = Escaped(c[k]) /\ c[k] \in Byte
         /\ toEscaped(c) = FlattenSeq(EscapedBlocks(c))
<1>1. DOMAIN c = 1..Len(c) /\ Len(c) \in Nat /\ \A k \in 1..Len(c) : c[k] \in Byte
  OBVIOUS
<1>2. \A k \in 1..Len(c) : Escaped(c[k]) \in Seq(Byte)
  BY <1>1, EscapedShape
<1>3. EscapedBlocks(c) = [i \in 1..Len(c) |-> Escaped(c[i])]
  BY <1>1 DEF EscapedBlocks
<1>4. EscapedBlocks(c) \in Seq(Seq(Byte)) /\ Len(EscapedBlocks(c)) = Len(c)
  <2> DEFINE E == EscapedBlocks(c)
  <2>1. E \in [1..Len(c) -> Seq(Byte)]
    BY <1>2, <1>3
  <2> HIDE DEF E
  <2>2. E \in Seq(Seq(Byte)) /\ Len(E) = Len(c)
    BY <1>1, <2>1
  <2> QED BY <2>2 DEF E
<1>5. toEscaped(c) = FlattenSeq(EscapedBlocks(c))
  BY DEF toEscaped, EscapedBlocks
<1> QED BY <1>1, <1>3, <1>4, <1>5

\* The loop f decodes character k of c and those that follow it.
Done(c, p, f, k) == f[p[k]] = {SubSeq(c, k, Len(c))}

\* u is the URI of c, and the loop f has decoded what follows character k.
Decoding(c, u, p, f, k) ==
  /\ c \in Seq(Byte) /\ u \in Seq(Byte) /\ Starts(p, EscapedBlocks(c), u) /\ k \in 1..Len(c)
  /\ f[p[k]] = FromBody(u, f, p[k]) /\ f[p[k + 1]] = {SubSeq(c, k + 1, Len(c))}

\* One step of the round trip: the block of character k is decoded to it.
LEMMA DecodeBlock ==
  ASSUME NEW c, NEW u, NEW p, NEW f, NEW k, Decoding(c, u, p, f, k)
  PROVE  Done(c, p, f, k)
<1> USE DEF Done
<1> c \in Seq(Byte) /\ u \in Seq(Byte) /\ Starts(p, EscapedBlocks(c), u) /\ k \in 1..Len(c)
  BY DEF Decoding
<1> f[p[k]] = FromBody(u, f, p[k]) /\ f[p[k + 1]] = {SubSeq(c, k + 1, Len(c))}
  BY DEF Decoding
<1> DEFINE b == c[k]
           R == SubSeq(c, k + 1, Len(c))
           e == Escaped(b)
           i == p[k]
<1>1. Len(EscapedBlocks(c)) = Len(c) /\ EscapedBlocks(c)[k] = e /\ b \in Byte /\ Len(c) \in Nat
  BY EscapedBlocksType
<1>2. /\ i \in 1..(Len(u) + 1) /\ p[k + 1] \in 1..(Len(u) + 1) /\ p[k + 1] = i + Len(e)
      /\ \A j \in 1..Len(e) : u[i + j - 1] = e[j]
  <2>1. k \in 1..(Len(c) + 1) /\ k + 1 \in 1..(Len(c) + 1)
    BY <1>1
  <2> HIDE DEF b, e
  <2>2. /\ p \in [1..(Len(c) + 1) -> 1..(Len(u) + 1)] /\ p[k + 1] = p[k] + Len(EscapedBlocks(c)[k])
        /\ \A j \in 1..Len(EscapedBlocks(c)[k]) : u[p[k] + j - 1] = EscapedBlocks(c)[k][j]
    BY <1>1 DEF Starts
  <2> QED BY <1>1, <2>1, <2>2
<1>3. SubSeq(c, k, Len(c)) = Prepend(b, R)
  BY SuffixPrepend DEF Prepend
<1>4. Len(u) \in Nat /\ i \in Nat
  BY <1>2
<1>5. f[i] = FromBody(u, f, i) /\ f[p[k + 1]] = {R}
  OBVIOUS
<1> HIDE DEF R, i
<1>6. CASE b \in EscapeCharacter
  <2>1. /\ Len(e) = 3 /\ e[1] = Percent
        /\ HexValue(e[2]) = {b \div 16} /\ HexValue(e[3]) = {b % 16}
    BY <1>1, <1>6, EscapedShape
  <2> HIDE DEF e, b
  <2>2. 1 \in 1..Len(e) /\ 2 \in 1..Len(e) /\ 3 \in 1..Len(e)
    BY <2>1
  <2>3. i + 1 - 1 = i /\ i + 2 - 1 = i + 1 /\ i + 3 - 1 = i + 2
    BY <1>4
  <2>4. u[i] = Percent /\ HexValue(u[i + 1]) = {b \div 16} /\ HexValue(u[i + 2]) = {b % 16}
    BY <1>2, <2>1, <2>2, <2>3
  <2>5. i # Len(u) + 1 /\ ~(i + 2 > Len(u))
    BY <1>2, <1>4, <2>1
  <2>6. f[i + 3] = {R}
    BY <1>2, <1>5, <2>1
  <2>7. FromBody(u, f, i) = {Decoded(hi, lo, rest) : hi \in {b \div 16}, lo \in {b % 16}, rest \in {R}}
    BY <2>4, <2>5, <2>6 DEF FromBody
  <2>8. FromBody(u, f, i) = {Decoded(b \div 16, b % 16, R)}
    BY <2>7
  <2>9. Decoded(b \div 16, b % 16, R) = Prepend(b, R)
    BY <1>1, Nibbles DEF Decoded, Prepend
  <2> QED BY <1>3, <1>5, <2>8, <2>9 DEF i
<1>7. CASE b \notin EscapeCharacter
  <2>1. Len(e) = 1 /\ e[1] = b
    BY <1>1, <1>7, EscapedShape
  <2> HIDE DEF e, b
  <2>2. 1 \in 1..Len(e) /\ i + 1 - 1 = i
    BY <1>4, <2>1
  <2>3. u[i] = b
    BY <1>2, <2>1, <2>2
  <2>4. u[i] # Percent
    BY <1>7, <2>3 DEF Percent, EscapeCharacter
  <2>5. i # Len(u) + 1
    BY <1>2, <1>4, <2>1
  <2>6. f[i + 1] = {R}
    BY <1>2, <1>5, <2>1
  <2>7. FromBody(u, f, i) = {Prepend(b, rest) : rest \in {R}}
    BY <1>7, <2>3, <2>4, <2>5, <2>6 DEF FromBody
  <2> QED BY <1>3, <1>5, <2>7 DEF i
<1> QED BY <1>6, <1>7

\* Whatever its bytes are, a component comes back from its URI.
THEOREM ComponentsComeBack ==
  \A c \in Seq(Byte) : toEscaped(c) \in Seq(Byte) /\ fromEscaped(toEscaped(c)) = {c}
<1> SUFFICES ASSUME NEW c \in Seq(Byte)
             PROVE  toEscaped(c) \in Seq(Byte) /\ fromEscaped(toEscaped(c)) = {c}
  OBVIOUS
<1> DEFINE u == toEscaped(c)
           n == Len(c)
<1>1. /\ EscapedBlocks(c) \in Seq(Seq(Byte)) /\ Len(EscapedBlocks(c)) = n /\ n \in Nat
      /\ u = FlattenSeq(EscapedBlocks(c))
  BY EscapedBlocksType
<1>2. u \in Seq(Byte) /\ \E p : Starts(p, EscapedBlocks(c), u)
  BY <1>1, FlattenParts
<1> HIDE DEF u
<1>3. PICK p : Starts(p, EscapedBlocks(c), u)
  BY <1>2
<1>4. PICK f : /\ fromEscaped(u) = f[1]
               /\ \A i \in 1..(Len(u) + 1) : f[i] = FromBody(u, f, i) /\ f[i] \subseteq Seq(Byte)
  BY <1>2, FromEscapedFcn
<1>5. /\ p \in [1..(n + 1) -> 1..(Len(u) + 1)] /\ p[1] = 1 /\ p[n + 1] = Len(u) + 1
  BY <1>1, <1>3 DEF Starts
<1> DEFINE S == {k \in 1..(n + 1) : f[p[k]] = {SubSeq(c, k, n)}}
<1>6. ASSUME NEW k \in 1..(n + 1), \A j \in (k + 1)..(n + 1) : j \in S
      PROVE  k \in S
  <2>1. p[k] \in 1..(Len(u) + 1) /\ f[p[k]] = FromBody(u, f, p[k])
    BY <1>4, <1>5
  <2>2. CASE k = n + 1
    <3>1. FromBody(u, f, p[k]) = {<<>>}
      BY <1>5, <2>2 DEF FromBody
    <3>2. SubSeq(c, k, n) = <<>>
      BY <1>1, <2>2, SubSeqEmpty
    <3> QED BY <2>1, <3>1, <3>2
  <2>3. CASE k # n + 1
    <3>1. k \in 1..n /\ k + 1 \in (k + 1)..(n + 1)
      BY <1>1, <2>3
    <3>2. f[p[k + 1]] = {SubSeq(c, k + 1, n)}
      BY <1>6, <3>1
    <3>3. f[p[k]] = {SubSeq(c, k, n)}
      <4>1. Decoding(c, u, p, f, k)
        BY <1>2, <1>3, <2>1, <3>1, <3>2 DEF Decoding
      <4> HIDE DEF S, n
      <4>2. Done(c, p, f, k)
        BY <4>1, DecodeBlock
      <4> QED BY <4>2 DEF n, Done
    <3> QED BY <3>3
  <2> QED BY <2>2, <2>3
<1>7. \A k \in 1..(n + 1) : k \in S
  <2>1. n + 1 \in Nat
    BY <1>1
  <2> HIDE DEF S, n
  <2> QED BY <1>6, <2>1, DownInduction
<1>8. f[1] = {SubSeq(c, 1, n)}
  <2>1. 1 \in 1..(n + 1)
    BY <1>1
  <2> QED BY <1>5, <1>7, <2>1
<1>9. SubSeq(c, 1, n) = c
  BY SubSeqFull
<1> QED BY <1>2, <1>4, <1>8, <1>9 DEF u

-----------------------------------------------------------------------------
(* URIs of names. *)

\* Every character of the concatenation belongs to a block.
LEMMA BlockOf ==
  ASSUME NEW B, NEW seqs \in Seq(Seq(B)), NEW u \in Seq(B), NEW p, Starts(p, seqs, u),
         NEW j \in 1..Len(u)
  PROVE  \E i \in 1..Len(seqs) : \E l \in 1..Len(seqs[i]) : j = p[i] + l - 1 /\ u[j] = seqs[i][l]
<1> DEFINE n == Len(seqs)
<1>0. n \in Nat /\ Len(u) \in Nat /\ j \in Nat
  OBVIOUS
<1>1. /\ p \in [1..(n + 1) -> 1..(Len(u) + 1)] /\ p[1] = 1 /\ p[n + 1] = Len(u) + 1
      /\ \A i \in 1..n : /\ p[i + 1] = p[i] + Len(seqs[i])
                         /\ \A l \in 1..Len(seqs[i]) : u[p[i] + l - 1] = seqs[i][l]
  BY DEF Starts
<1>b. \A i \in 1..n : Len(seqs[i]) \in Nat
  BY ElementOfSeq, LenProperties
<1> HIDE DEF n
<1>2. \A i \in 1..(n + 1) : p[i] \in Nat
  BY <1>0, <1>1
<1> DEFINE S == {i \in 1..(n + 1) : p[i] > j}
<1>3. S \subseteq Nat /\ S # {}
  <2>1. n + 1 \in S
    BY <1>0, <1>1
  <2>2. 1..(n + 1) \subseteq Nat
    BY <1>0
  <2> QED BY <2>1, <2>2
<1>4. PICK e \in S : \A k \in S : e <= k
  <2> HIDE DEF S
  <2> QED BY <1>3, Least
<1>5. e \in 1..(n + 1) /\ p[e] > j /\ e # 1
  BY <1>0, <1>1, <1>4
<1> DEFINE i == e - 1
<1>6. i \in 1..n /\ i + 1 = e /\ i \in 1..(n + 1) /\ ~(e <= i)
  BY <1>0, <1>5
<1>7. ~(p[i] > j)
  <2>1. i \notin S
    BY <1>4, <1>6
  <2> QED BY <1>6, <2>1
<1> HIDE DEF i, S
<1>8. p[i] \in Nat /\ p[i] <= j /\ j < p[i] + Len(seqs[i]) /\ Len(seqs[i]) \in Nat
  <2>1. p[i] \in Nat /\ p[e] = p[i] + Len(seqs[i]) /\ Len(seqs[i]) \in Nat
    BY <1>1, <1>2, <1>6, <1>b
  <2> QED BY <1>0, <1>5, <1>7, <2>1
<1> DEFINE l == j - p[i] + 1
<1>9. l \in 1..Len(seqs[i]) /\ j = p[i] + l - 1
  BY <1>0, <1>8
<1>10. u[j] = seqs[i][l]
  <2> HIDE DEF l
  <2> QED BY <1>1, <1>6, <1>9
<1> HIDE DEF l
<1> QED BY <1>6, <1>9, <1>10 DEF n

\* A written component is not empty and has no slash, if the component is so.
LEMMA EscapedText ==
  ASSUME NEW c \in Seq(Byte), c # <<>>, \A i \in 1..Len(c) : c[i] # Slash
  PROVE  /\ toEscaped(c) \in Seq(Byte) /\ Len(toEscaped(c)) > 0
         /\ \A j \in 1..Len(toEscaped(c)) : toEscaped(c)[j] # Slash
<1> DEFINE u == toEscaped(c)
           E == EscapedBlocks(c)
<1>1. /\ E \in Seq(Seq(Byte)) /\ Len(E) = Len(c) /\ Len(c) \in Nat /\ u = FlattenSeq(E)
      /\ \A k \in 1..Len(c) : E[k] = Escaped(c[k]) /\ c[k] \in Byte
  BY EscapedBlocksType
<1> HIDE DEF E, u
<1>2. u \in Seq(Byte) /\ \E p : Starts(p, E, u)
  BY <1>1, FlattenParts
<1>3. PICK p : Starts(p, E, u)
  BY <1>2
<1>4. ASSUME NEW j \in 1..Len(u) PROVE u[j] # Slash
  <2>1. PICK i \in 1..Len(E) : \E l \in 1..Len(E[i]) : u[j] = E[i][l]
    BY <1>1, <1>2, <1>3, BlockOf
  <2>2. i \in 1..Len(c) /\ c[i] # Slash /\ c[i] \in Byte /\ E[i] = Escaped(c[i])
    BY <1>1
  <2>3. \A k \in 1..Len(Escaped(c[i])) : Escaped(c[i])[k] # Slash
    BY <2>2, EscapedShape
  <2> QED BY <2>1, <2>2, <2>3
<1>5. Len(u) > 0
  <2>1. 1 \in 1..Len(c) /\ 1 \in 1..(Len(c) + 1) /\ 1 + 1 \in 1..(Len(c) + 1)
    BY <1>1
  <2>2. Len(Escaped(c[1])) > 0 /\ Len(Escaped(c[1])) \in Nat /\ E[1] = Escaped(c[1])
    BY <1>1, <2>1, EscapedShape, LenProperties
  <2>3. p[1] = 1 /\ p[1 + 1] = p[1] + Len(E[1]) /\ p[1 + 1] \in 1..(Len(u) + 1)
    BY <1>1, <1>3, <2>1 DEF Starts
  <2>4. Len(u) \in Nat
    BY <1>2
  <2> QED BY <2>2, <2>3, <2>4
<1> QED BY <1>2, <1>4, <1>5 DEF u

LEMMA SlashFound ==
  ASSUME NEW u \in Seq(Byte), NEW i \in 1..(Len(u) + 1)
  PROVE  LET e == FindSlash(u, i)
         IN /\ e \in i..(Len(u) + 1)
            /\ e \in 1..(Len(u) + 1)
            /\ i <= Len(u) /\ u[i] # Slash => e > i
<1> DEFINE S == {j \in i..Len(u) : u[j] = Slash} \cup {Len(u) + 1}
<1>1. S \subseteq Nat /\ S # {} /\ Len(u) \in Nat
  OBVIOUS
<1>2. Min(S) \in S
  <2> HIDE DEF S
  <2> QED BY <1>1, MinIsLeast
<1>3. FindSlash(u, i) = Min(S)
  BY DEF FindSlash
<1> DEFINE e == Min(S)
<1>4. e = Len(u) + 1 \/ (e \in i..Len(u) /\ u[e] = Slash)
  <2>1. \A x \in S : x = Len(u) + 1 \/ (x \in i..Len(u) /\ u[x] = Slash)
    OBVIOUS
  <2> HIDE DEF S
  <2> QED BY <1>2, <2>1
<1> HIDE DEF e, S
<1>5. e \in i..(Len(u) + 1) /\ e \in 1..(Len(u) + 1)
  BY <1>1, <1>4
<1>6. i <= Len(u) /\ u[i] # Slash => e > i
  <2> SUFFICES ASSUME i <= Len(u), u[i] # Slash PROVE e > i
    OBVIOUS
  <2>1. e # i
    BY <1>1, <1>4
  <2> QED BY <1>1, <1>5, <2>1
<1> QED BY <1>3, <1>5, <1>6 DEF e

\* The next slash is where it must be.
LEMMA SlashIsAt ==
  ASSUME NEW u \in Seq(Byte), NEW i \in 1..(Len(u) + 1), NEW e \in i..(Len(u) + 1),
         e = Len(u) + 1 \/ u[e] = Slash,
         \A j \in i..(e - 1) : u[j] # Slash
  PROVE  FindSlash(u, i) = e
<1> DEFINE S == {j \in i..Len(u) : u[j] = Slash} \cup {Len(u) + 1}
<1>1. S \subseteq Nat /\ S # {} /\ Len(u) \in Nat
  OBVIOUS
<1>2. Min(S) \in S /\ \A k \in S : Min(S) <= k
  <2> HIDE DEF S
  <2> QED BY <1>1, MinIsLeast
<1>3. FindSlash(u, i) = Min(S)
  BY DEF FindSlash
<1>4. e \in S
  BY <1>1
<1>5. ASSUME NEW k \in S PROVE e <= k
  <2>1. k \in Nat /\ k >= i
    BY <1>1
  <2>2. CASE k = Len(u) + 1
    BY <1>1, <2>2
  <2>3. CASE k # Len(u) + 1
    <3>1. u[k] = Slash
      BY <2>3
    <3>2. k \notin i..(e - 1)
      BY <3>1
    <3> QED BY <1>1, <2>1, <3>2
  <2> QED BY <2>2, <2>3
<1> DEFINE x == Min(S)
<1>6. x \in Nat /\ e \in Nat /\ x <= e /\ e <= x
  <2>1. x \in Nat
    BY <1>1, <1>2
  <2> HIDE DEF S
  <2> QED BY <1>1, <1>2, <1>4, <1>5, <2>1
<1> HIDE DEF x
<1>7. x = e
  BY <1>6
<1> QED BY <1>3, <1>7 DEF x

\* The components of a name are those that append keeps.
NonEmpty == Seq(Byte) \ {<<>>}

LEMMA FromEscapedType ==
  ASSUME NEW s \in Seq(Byte)
  PROVE  fromEscaped(s) \subseteq Seq(Byte)
<1>1. PICK f : /\ fromEscaped(s) = f[1]
               /\ \A i \in 1..(Len(s) + 1) : f[i] = FromBody(s, f, i) /\ f[i] \subseteq Seq(Byte)
  BY FromEscapedFcn
<1>2. 1 \in 1..(Len(s) + 1)
  OBVIOUS
<1> QED BY <1>1, <1>2

\* One turn of the loop of the constructor.
AppendedTo(c, rest) == append(<<>>, c) \o rest
ComponentBody(u, f, i) ==
  IF i = Len(u) + 1 THEN {<<>>}
  ELSE IF u[i] = Slash THEN f[i + 1]
  ELSE LET e == FindSlash(u, i)
       IN {AppendedTo(c, rest) : c \in ComponentFromUri(SubSeq(u, i, e - 1)), rest \in f[e]}

LEMMA KeptType ==
  ASSUME NEW c \in Seq(Byte), NEW rest \in Seq(NonEmpty)
  PROVE  AppendedTo(c, rest) \in Seq(NonEmpty)
<1>1. CASE c = <<>>
  <2>1. append(<<>>, c) = <<>>
    BY <1>1 DEF append
  <2> QED BY <2>1, ConcatEmptySeq DEF AppendedTo
<1>2. CASE c # <<>>
  <2>1. append(<<>>, c) = Append(<<>>, c) /\ c \in NonEmpty
    BY <1>2 DEF append, NonEmpty
  <2>2. append(<<>>, c) \in Seq(NonEmpty)
    <3>1. <<>> \in Seq(NonEmpty)
      BY EmptySeq
    <3>2. Append(<<>>, c) \in Seq(NonEmpty)
      BY <2>1, <3>1, AppendProperties
    <3> QED BY <2>1, <3>2
  <2> QED BY <2>2, ConcatProperties DEF AppendedTo
<1> QED BY <1>1, <1>2

LEMMA PieceType ==
  ASSUME NEW u \in Seq(Byte), NEW i \in 1..(Len(u) + 1), NEW e \in 1..(Len(u) + 1)
  PROVE  SubSeq(u, i, e - 1) \in Seq(Byte)
<1>1. \A j \in i..(e - 1) : u[j] \in Byte
  <2>1. Len(u) \in Nat
    OBVIOUS
  <2>2. \A j \in i..(e - 1) : j \in 1..Len(u)
    BY <2>1
  <2> QED BY <2>2
<1>2. i \in Int /\ e - 1 \in Int
  OBVIOUS
<1> QED BY <1>1, <1>2, SubSeqProperties

LEMMA ComponentBodyType ==
  ASSUME NEW u \in Seq(Byte), NEW f, NEW i \in 1..(Len(u) + 1),
         \A k \in (i + 1)..(Len(u) + 1) : f[k] \subseteq Seq(NonEmpty)
  PROVE  ComponentBody(u, f, i) \subseteq Seq(NonEmpty)
<1>0. Len(u) \in Nat
  OBVIOUS
<1>1. CASE i = Len(u) + 1
  BY <1>1 DEF ComponentBody
<1>2. CASE i # Len(u) + 1 /\ u[i] = Slash
  <2>1. i + 1 \in (i + 1)..(Len(u) + 1)
    BY <1>0, <1>2
  <2>2. ComponentBody(u, f, i) = f[i + 1]
    BY <1>2 DEF ComponentBody
  <2> QED BY <2>1, <2>2
<1>3. CASE i # Len(u) + 1 /\ u[i] # Slash
  <2> DEFINE e == FindSlash(u, i)
             C == ComponentFromUri(SubSeq(u, i, e - 1))
  <2>1. i <= Len(u)
    BY <1>0, <1>3
  <2>2. e \in i..(Len(u) + 1) /\ e \in 1..(Len(u) + 1) /\ e > i
    BY <1>3, <2>1, SlashFound
  <2> HIDE DEF e
  <2>3. e \in (i + 1)..(Len(u) + 1)
    BY <1>0, <2>2
  <2>4. f[e] \subseteq Seq(NonEmpty)
    BY <2>3
  <2>5. C \subseteq Seq(Byte)
    <3>1. SubSeq(u, i, e - 1) \in Seq(Byte)
      BY <2>2, PieceType
    <3> QED BY <3>1, FromEscapedType DEF ComponentFromUri
  <2>6. ComponentBody(u, f, i) = {AppendedTo(c, rest) : c \in C, rest \in f[e]}
    BY <1>3 DEF ComponentBody, e
  <2> HIDE DEF C
  <2>7. \A c \in C, rest \in f[e] : AppendedTo(c, rest) \in Seq(NonEmpty)
    BY <2>4, <2>5, KeptType
  <2> QED BY <2>6, <2>7
<1> QED BY <1>1, <1>2, <1>3

LEMMA ComponentBodyCausal ==
  ASSUME NEW u \in Seq(Byte), NEW f, NEW g, NEW i \in 1..(Len(u) + 1),
         \A k \in (i + 1)..(Len(u) + 1) : f[k] = g[k]
  PROVE  ComponentBody(u, f, i) = ComponentBody(u, g, i)
<1>0. Len(u) \in Nat
  OBVIOUS
<1>1. CASE i = Len(u) + 1
  BY <1>1 DEF ComponentBody
<1>2. CASE i # Len(u) + 1 /\ u[i] = Slash
  <2>1. i + 1 \in (i + 1)..(Len(u) + 1)
    BY <1>0, <1>2
  <2>2. f[i + 1] = g[i + 1]
    BY <2>1
  <2> QED BY <1>2, <2>2 DEF ComponentBody
<1>3. CASE i # Len(u) + 1 /\ u[i] # Slash
  <2> DEFINE e == FindSlash(u, i)
             C == ComponentFromUri(SubSeq(u, i, e - 1))
  <2>1. i <= Len(u)
    BY <1>0, <1>3
  <2>2. e \in i..(Len(u) + 1) /\ e > i
    BY <1>3, <2>1, SlashFound
  <2> HIDE DEF e
  <2>3. e \in (i + 1)..(Len(u) + 1)
    BY <1>0, <2>2
  <2>4. f[e] = g[e]
    BY <2>3
  <2>5. /\ ComponentBody(u, f, i) = {AppendedTo(c, rest) : c \in C, rest \in f[e]}
        /\ ComponentBody(u, g, i) = {AppendedTo(c, rest) : c \in C, rest \in g[e]}
    BY <1>3 DEF ComponentBody, e
  <2> QED BY <2>4, <2>5
<1> QED BY <1>1, <1>2, <1>3

\* Components follows its loop from every position.
LEMMA ComponentsFcn ==
  ASSUME NEW u \in Seq(Byte)
  PROVE  \E f : \A i \in 1..(Len(u) + 1) : /\ Components(u, i) = f[i]
                                           /\ f[i] = ComponentBody(u, f, i)
                                           /\ f[i] \subseteq Seq(NonEmpty)
<1> DEFINE D == 1..(Len(u) + 1)
           T == SUBSET Seq(NonEmpty)
           F == CHOOSE f : f = [i \in D |-> ComponentBody(u, f, i)]
           G == [i \in D |-> [f \in [D -> T] |-> ComponentBody(u, f, i)]]
           m == [i \in D |-> Len(u) + 1 - i]
<1>0. Len(u) \in Nat /\ \A i \in D : \A k \in (i + 1)..(Len(u) + 1) : k \in D /\ m[k] < m[i]
  OBVIOUS
<1>1. G \in [D -> [[D -> T] -> T]]
  <2>1. ASSUME NEW i \in D, NEW f \in [D -> T] PROVE ComponentBody(u, f, i) \in T
    <3>1. \A k \in (i + 1)..(Len(u) + 1) : f[k] \subseteq Seq(NonEmpty)
      BY <1>0
    <3> QED BY <3>1, ComponentBodyType
  <2> HIDE DEF D, T
  <2> QED BY <2>1
<1>2. Causal(D, m, T, G)
  <2>1. ASSUME NEW d \in D, NEW f \in [D -> T], NEW g \in [D -> T],
                      \A e \in D : m[e] < m[d] => f[e] = g[e]
               PROVE  ComponentBody(u, f, d) = ComponentBody(u, g, d)
    <3>1. \A k \in (d + 1)..(Len(u) + 1) : f[k] = g[k]
      BY <1>0, <2>1
    <3> QED BY <3>1, ComponentBodyCausal
  <2> HIDE DEF D, T, m
  <2> QED BY <2>1 DEF Causal
<1>3. WellFounded(D, T, Len(u), m, G)
  <2>1. m \in [D -> 0..Len(u)] /\ Len(u) \in Nat
    BY <1>0
  <2>2. {} \in T
    OBVIOUS
  <2> HIDE DEF G, m, D, F, T
  <2> QED BY <1>1, <1>2, <2>1, <2>2 DEF WellFounded
<1>f. PICK f \in [D -> T] : \A d \in D : f[d] = G[d][f]
  <2> HIDE DEF G, m, D, F, T
  <2>1. Solvable(D, T, G)
    BY <1>3, Recursion
  <2> QED BY <2>1 DEF Solvable
<1>4. \E h : h = [i \in D |-> ComponentBody(u, h, i)]
  <2>1. \A d \in D : f[d] = ComponentBody(u, f, d)
    <3> HIDE DEF D, F, T
    <3> QED BY <1>f
  <2>2. f = [i \in D |-> ComponentBody(u, f, i)]
    <3> HIDE DEF D, F
    <3> QED BY <2>1
  <2> QED BY <2>2
<1>5. F = [i \in D |-> ComponentBody(u, F, i)]
  BY <1>4
<1>6. \A i \in D : Components(u, i) = F[i]
  BY DEF Components, ComponentBody, AppendedTo
<1>7. \A i \in D : F[i] = ComponentBody(u, F, i)
  <2> HIDE DEF F, D
  <2> QED BY <1>5
<1> HIDE DEF F
<1>8. \A i \in 1..(Len(u) + 1) : i \in {k \in D : F[k] \subseteq Seq(NonEmpty)}
  <2> DEFINE S == {k \in D : F[k] \subseteq Seq(NonEmpty)}
  <2>1. ASSUME NEW i \in 1..(Len(u) + 1), \A k \in (i + 1)..(Len(u) + 1) : k \in S
        PROVE  i \in S
    <3>1. ComponentBody(u, F, i) \subseteq Seq(NonEmpty)
      BY <2>1, ComponentBodyType
    <3> QED BY <1>7, <3>1
  <2>2. Len(u) + 1 \in Nat
    BY <1>0
  <2> HIDE DEF S
  <2>3. \A i \in 1..(Len(u) + 1) : i \in S
    BY <2>1, <2>2, DownInduction
  <2> QED BY <2>3 DEF S
<1> QED BY <1>6, <1>7, <1>8

\* A component that the URI syntax can carry.
SlashFree(c) == c \in NonEmpty /\ \A i \in 1..Len(c) : c[i] # Slash

UriBlock(c) == <<Slash>> \o ComponentToUri(c)
UriBlocks(n) == [i \in DOMAIN n |-> UriBlock(n[i])]

LEMMA PrependAt ==
  ASSUME NEW B, NEW b \in B, NEW t \in Seq(B)
  PROVE  /\ <<b>> \o t \in Seq(B) /\ Len(<<b>> \o t) = Len(t) + 1 /\ Len(t) \in Nat
         /\ (<<b>> \o t)[1] = b
         /\ \A j \in 1..Len(t) : (<<b>> \o t)[j + 1] = t[j]
OBVIOUS

LEMMA UriBlockShape ==
  ASSUME NEW c, SlashFree(c)
  PROVE  /\ UriBlock(c) \in Seq(Byte) /\ toEscaped(c) \in Seq(Byte)
         /\ Len(UriBlock(c)) = Len(toEscaped(c)) + 1 /\ Len(toEscaped(c)) > 0
         /\ UriBlock(c)[1] = Slash
         /\ \A j \in 2..Len(UriBlock(c)) : UriBlock(c)[j] # Slash
         /\ \A j \in 1..Len(toEscaped(c)) : UriBlock(c)[j + 1] = toEscaped(c)[j]
<1> DEFINE t == toEscaped(c)
<1>1. c \in Seq(Byte) /\ c # <<>> /\ \A i \in 1..Len(c) : c[i] # Slash
  BY DEF SlashFree, NonEmpty
<1>2. t \in Seq(Byte) /\ Len(t) > 0 /\ \A j \in 1..Len(t) : t[j] # Slash
  BY <1>1, EscapedText
<1>3. UriBlock(c) = <<Slash>> \o t
  BY DEF UriBlock, ComponentToUri
<1> HIDE DEF t
<1> DEFINE s == <<Slash>>
           w == s \o t
<1>t. Slash \in Byte
  BY DEF Slash, Byte
<1>5. /\ w \in Seq(Byte) /\ Len(w) = Len(t) + 1 /\ Len(t) \in Nat /\ w[1] = Slash
      /\ \A j \in 1..Len(t) : w[j + 1] = t[j]
  BY <1>2, <1>t, PrependAt DEF w, s
<1> HIDE DEF w
<1>6. ASSUME NEW j \in 2..Len(w) PROVE w[j] # Slash
  <2>1. j - 1 \in 1..Len(t) /\ (j - 1) + 1 = j
    BY <1>5
  <2> QED BY <1>2, <1>5, <2>1
<1>7. UriBlock(c) = w
  BY <1>3 DEF w, s
<1> QED BY <1>2, <1>5, <1>6, <1>7 DEF t

\* A name that the URI syntax can carry.
SlashFreeName(n) == n \in Seq(NonEmpty) /\ \A i \in 1..Len(n) : SlashFree(n[i])

LEMMA UriBlocksType ==
  ASSUME NEW n, SlashFreeName(n)
  PROVE  /\ UriBlocks(n) \in Seq(Seq(Byte)) /\ Len(UriBlocks(n)) = Len(n) /\ Len(n) \in Nat
         /\ \A k \in 1..Len(n) : UriBlocks(n)[k] = UriBlock(n[k]) /\ SlashFree(n[k])
         /\ n # <<>> => toUri(n) = FlattenSeq(UriBlocks(n))
<1>1. DOMAIN n = 1..Len(n) /\ Len(n) \in Nat /\ \A k \in 1..Len(n) : SlashFree(n[k])
  BY DEF SlashFreeName
<1>2. \A k \in 1..Len(n) : UriBlock(n[k]) \in Seq(Byte)
  BY <1>1, UriBlockShape
<1>3. UriBlocks(n) = [i \in 1..Len(n) |-> UriBlock(n[i])]
  BY <1>1 DEF UriBlocks
<1>4. UriBlocks(n) \in Seq(Seq(Byte)) /\ Len(UriBlocks(n)) = Len(n)
  <2> DEFINE E == UriBlocks(n)
  <2>1. E \in [1..Len(n) -> Seq(Byte)]
    BY <1>2, <1>3
  <2> HIDE DEF E
  <2>2. E \in Seq(Seq(Byte)) /\ Len(E) = Len(n)
    BY <1>1, <2>1
  <2> QED BY <2>2 DEF E
<1>5. n # <<>> => toUri(n) = FlattenSeq(UriBlocks(n))
  BY DEF toUri, UriBlocks, UriBlock
<1> QED BY <1>1, <1>3, <1>4, <1>5

\* u is the URI of n, and the loop f has read what follows component k.
Reading(n, u, p, f, k) ==
  /\ SlashFreeName(n) /\ u \in Seq(Byte) /\ Starts(p, UriBlocks(n), u) /\ k \in 1..Len(n)
  /\ \A i \in 1..(Len(u) + 1) : f[i] = ComponentBody(u, f, i)
  /\ Done(n, p, f, k + 1)

\* Where block k is in u.
LEMMA BlockPlace ==
  ASSUME NEW n, NEW u, NEW p, NEW f, NEW k, Reading(n, u, p, f, k)
  PROVE  LET t == toEscaped(n[k])
             i == p[k]
         IN /\ t \in Seq(Byte) /\ Len(t) \in Nat /\ Len(t) > 0 /\ Len(u) \in Nat
            /\ i \in Nat /\ i > 0 /\ p[k + 1] = i + Len(t) + 1 /\ p[k + 1] <= Len(u) + 1
            /\ u[i] = Slash
            /\ \A j \in 1..Len(t) : u[i + j] = t[j] /\ t[j] # Slash
            /\ p[k + 1] = Len(u) + 1 \/ u[p[k + 1]] = Slash
<1> DEFINE t == toEscaped(n[k])
           i == p[k]
           e == p[k + 1]
           U == UriBlocks(n)
<1>1. /\ U \in Seq(Seq(Byte)) /\ Len(U) = Len(n) /\ Len(n) \in Nat /\ k \in 1..Len(n)
      /\ \A j \in 1..Len(n) : U[j] = UriBlock(n[j]) /\ SlashFree(n[j])
  BY UriBlocksType DEF Reading
<1>2. u \in Seq(Byte) /\ Len(u) \in Nat
  BY DEF Reading
<1>3. /\ p \in [1..(Len(n) + 1) -> 1..(Len(u) + 1)] /\ p[Len(n) + 1] = Len(u) + 1
      /\ \A x \in 1..Len(n) : /\ p[x + 1] = p[x] + Len(UriBlock(n[x]))
                              /\ \A j \in 1..Len(UriBlock(n[x])) : u[p[x] + j - 1] = UriBlock(n[x])[j]
  <2> HIDE DEF U
  <2>1. Starts(p, U, u)
    BY DEF Reading, U
  <2>2. /\ p \in [1..(Len(n) + 1) -> 1..(Len(u) + 1)] /\ p[Len(n) + 1] = Len(u) + 1
        /\ \A x \in 1..Len(n) : /\ p[x + 1] = p[x] + Len(U[x])
                                /\ \A j \in 1..Len(U[x]) : u[p[x] + j - 1] = U[x][j]
    BY <1>1, <2>1 DEF Starts
  <2> QED BY <1>1, <2>2
<1>4. k \in 1..(Len(n) + 1) /\ k + 1 \in 1..(Len(n) + 1)
  BY <1>1
<1>5. /\ t \in Seq(Byte) /\ Len(t) \in Nat /\ Len(t) > 0
      /\ Len(UriBlock(n[k])) = Len(t) + 1 /\ UriBlock(n[k])[1] = Slash
      /\ \A j \in 2..Len(UriBlock(n[k])) : UriBlock(n[k])[j] # Slash
      /\ \A j \in 1..Len(t) : UriBlock(n[k])[j + 1] = t[j]
  BY <1>1, UriBlockShape
<1> HIDE DEF t, U
<1>6. i \in Nat /\ i > 0 /\ e = i + Len(t) + 1 /\ e <= Len(u) + 1
  <2>1. i \in 1..(Len(u) + 1) /\ e \in 1..(Len(u) + 1) /\ e = i + Len(UriBlock(n[k]))
    BY <1>1, <1>3, <1>4
  <2> HIDE DEF i, e
  <2> QED BY <1>2, <1>5, <2>1
<1>7. \A j \in 1..(Len(t) + 1) : u[i + j - 1] = UriBlock(n[k])[j]
  BY <1>1, <1>3, <1>5
<1> HIDE DEF i
<1>8. u[i] = Slash
  <2>1. 1 \in 1..(Len(t) + 1) /\ i + 1 - 1 = i
    BY <1>5, <1>6
  <2> QED BY <1>5, <1>7, <2>1
<1>9. ASSUME NEW j \in 1..Len(t) PROVE u[i + j] = t[j] /\ t[j] # Slash
  <2>1. j + 1 \in 1..(Len(t) + 1) /\ i + (j + 1) - 1 = i + j /\ j + 1 \in 2..Len(UriBlock(n[k]))
    BY <1>5, <1>6
  <2> QED BY <1>5, <1>7, <2>1
<1>10. e = Len(u) + 1 \/ u[e] = Slash
  <2>1. CASE k = Len(n)
    BY <1>3, <2>1
  <2>2. CASE k # Len(n)
    <3>1. k + 1 \in 1..Len(n)
      BY <1>1, <2>2
    <3>2. /\ UriBlock(n[k + 1])[1] = Slash /\ Len(UriBlock(n[k + 1])) = Len(toEscaped(n[k + 1])) + 1
          /\ Len(toEscaped(n[k + 1])) \in Nat
      BY <1>1, <3>1, UriBlockShape, LenProperties
    <3>3. 1 \in 1..Len(UriBlock(n[k + 1])) /\ e + 1 - 1 = e
      BY <1>5, <1>6, <3>2
    <3>4. u[e + 1 - 1] = UriBlock(n[k + 1])[1]
      BY <1>3, <3>1, <3>3
    <3> QED BY <3>2, <3>3, <3>4
  <2> QED BY <2>1, <2>2
<1> QED BY <1>2, <1>5, <1>6, <1>8, <1>9, <1>10 DEF t, i

\* The component that starts after the slash at i and ends before e is read.
LEMMA ReadBlock ==
  ASSUME NEW n, NEW u, NEW p, NEW f, NEW k, Reading(n, u, p, f, k)
  PROVE  Done(n, p, f, k)
<1> DEFINE t == toEscaped(n[k])
           i == p[k]
           e == p[k + 1]
           R == SubSeq(n, k + 1, Len(n))
<1>1. /\ t \in Seq(Byte) /\ Len(t) \in Nat /\ Len(t) > 0 /\ Len(u) \in Nat
      /\ i \in Nat /\ i > 0 /\ e = i + Len(t) + 1 /\ e <= Len(u) + 1
      /\ u[i] = Slash
      /\ \A j \in 1..Len(t) : u[i + j] = t[j] /\ t[j] # Slash
      /\ e = Len(u) + 1 \/ u[e] = Slash
  BY BlockPlace
<1>2. /\ u \in Seq(Byte) /\ f[e] = {R} /\ k \in 1..Len(n) /\ n \in Seq(NonEmpty) /\ n[k] \in NonEmpty
      /\ \A x \in 1..(Len(u) + 1) : f[x] = ComponentBody(u, f, x)
  BY DEF Reading, Done, SlashFreeName, SlashFree
<1>3. fromEscaped(t) = {n[k]}
  BY <1>2, ComponentsComeBack DEF NonEmpty
<1>4. SubSeq(n, k, Len(n)) = <<n[k]>> \o R
  BY <1>2, SuffixPrepend
<1> HIDE DEF t, i, e, R
<1>5. i \in 1..(Len(u) + 1) /\ i + 1 \in 1..(Len(u) + 1) /\ e \in (i + 1)..(Len(u) + 1) /\ e \in 1..(Len(u) + 1)
      /\ i # Len(u) + 1 /\ i + 1 # Len(u) + 1
  BY <1>1
<1>6. \A j \in (i + 1)..(e - 1) : u[j] # Slash
  <2> SUFFICES ASSUME NEW j \in (i + 1)..(e - 1) PROVE u[j] # Slash
    OBVIOUS
  <2>1. j - i \in 1..Len(t) /\ i + (j - i) = j
    BY <1>1
  <2> QED BY <1>1, <2>1
<1>7. FindSlash(u, i + 1) = e
  BY <1>1, <1>2, <1>5, <1>6, SlashIsAt
<1>8. SubSeq(u, i + 1, e - 1) = t
  <2> DEFINE w == SubSeq(u, i + 1, e - 1)
  <2>1. \A j \in (i + 1)..(e - 1) : j \in 1..Len(u)
    BY <1>1
  <2>2. (\A j \in (i + 1)..(e - 1) : u[j] \in Byte) /\ i + 1 \in Int /\ e - 1 \in Int /\ i + 1 <= e - 1
    BY <1>1, <1>2, <2>1
  <2>3. /\ w \in Seq(Byte) /\ Len(w) = (e - 1) - (i + 1) + 1
        /\ \A j \in 1..((e - 1) - (i + 1) + 1) : w[j] = u[(i + 1) + j - 1]
    BY <2>2, SubSeqProperties
  <2> HIDE DEF w
  <2>4. (e - 1) - (i + 1) + 1 = Len(t) /\ \A j \in 1..Len(t) : (i + 1) + j - 1 = i + j
    BY <1>1
  <2>5. Len(w) = Len(t) /\ \A j \in 1..Len(t) : w[j] = t[j]
    BY <1>1, <2>3, <2>4
  <2>6. w = t
    BY <1>1, <2>3, <2>5, SeqEqual
  <2> QED BY <2>6 DEF w
<1>9. f[i] = f[i + 1]
  <2>1. f[i] = ComponentBody(u, f, i)
    BY <1>2, <1>5
  <2> QED BY <1>1, <1>5, <2>1 DEF ComponentBody
<1>10. u[i + 1] # Slash
  <2>1. i + 1 \in (i + 1)..(e - 1)
    BY <1>1
  <2> QED BY <1>6, <2>1
<1>11. f[i + 1] = {AppendedTo(c, rest) : c \in {n[k]}, rest \in {R}}
  <2>1. f[i + 1] = ComponentBody(u, f, i + 1)
    BY <1>2, <1>5
  <2>2. ComponentFromUri(SubSeq(u, i + 1, e - 1)) = {n[k]}
    BY <1>3, <1>8 DEF ComponentFromUri
  <2> DEFINE x == i + 1
  <2>3. x # Len(u) + 1 /\ u[x] # Slash /\ FindSlash(u, x) = e
    BY <1>5, <1>7, <1>10
  <2> HIDE DEF x
  <2>4. ComponentBody(u, f, x) =
          {AppendedTo(c, rest) : c \in ComponentFromUri(SubSeq(u, x, e - 1)), rest \in f[e]}
    BY <2>3 DEF ComponentBody
  <2>5. ComponentFromUri(SubSeq(u, x, e - 1)) = {n[k]} /\ f[e] = {R} /\ f[x] = ComponentBody(u, f, x)
    BY <1>2, <2>1, <2>2 DEF x
  <2>6. f[x] = {AppendedTo(c, rest) : c \in {n[k]}, rest \in {R}}
    BY <2>4, <2>5
  <2> QED BY <2>6 DEF x
<1>12. f[i] = {AppendedTo(n[k], R)}
  BY <1>9, <1>11
<1>13. AppendedTo(n[k], R) = <<n[k]>> \o R
  <2>1. append(<<>>, n[k]) = Append(<<>>, n[k])
    BY <1>2 DEF append, NonEmpty
  <2>2. Append(<<>>, n[k]) = <<n[k]>>
    OBVIOUS
  <2> QED BY <2>1, <2>2 DEF AppendedTo
<1> QED BY <1>4, <1>12, <1>13 DEF Done, i

\* A name comes back from its URI.
LEMMA NamesComeBack ==
  ASSUME NEW n, SlashFreeName(n)
  PROVE  NameFromUri(toUri(n)) = {n}
<1> DEFINE u == toUri(n)
           U == UriBlocks(n)
<1>t. Slash \in Byte
  BY DEF Slash, Byte
<1>1. CASE n = <<>>
  <2>1. u = <<Slash>> /\ u \in Seq(Byte) /\ Len(u) = 1 /\ u[1] = Slash
    BY <1>1, <1>t DEF toUri
  <2> HIDE DEF u
  <2>2. PICK f : \A i \in 1..(Len(u) + 1) : /\ Components(u, i) = f[i]
                                            /\ f[i] = ComponentBody(u, f, i)
                                            /\ f[i] \subseteq Seq(NonEmpty)
    BY <2>1, ComponentsFcn
  <2>3. 1 \in 1..(Len(u) + 1) /\ 2 \in 1..(Len(u) + 1) /\ Len(u) + 1 = 2 /\ 1 + 1 = 2
    BY <2>1
  <2>4. f[2] = {<<>>}
    <3>1. f[2] = ComponentBody(u, f, 2) /\ 2 = Len(u) + 1
      BY <2>2, <2>3
    <3> QED BY <3>1 DEF ComponentBody
  <2>5. f[1] = f[2]
    <3>1. f[1] = ComponentBody(u, f, 1) /\ 1 # Len(u) + 1
      BY <2>2, <2>3
    <3> QED BY <2>1, <2>3, <3>1 DEF ComponentBody
  <2>6. Components(u, 1) = {<<>>}
    BY <2>2, <2>3, <2>4, <2>5
  <2>7. FindSlash(u, 1) = 1
    <3>1. 1 \in 1..(Len(u) + 1) /\ \A j \in 1..(1 - 1) : u[j] # Slash
      BY <2>1
    <3> QED BY <2>1, <3>1, SlashIsAt
  <2>8. NameFromUri(u) = Components(u, 1)
    BY <2>1, <2>7 DEF NameFromUri
  <2> QED BY <1>1, <2>6, <2>8 DEF u
<1>2. CASE n # <<>>
  <2>1. /\ U \in Seq(Seq(Byte)) /\ Len(U) = Len(n) /\ Len(n) \in Nat /\ u = FlattenSeq(U)
    BY <1>2, UriBlocksType
  <2>2. u \in Seq(Byte) /\ \E p : Starts(p, U, u)
    BY <2>1, FlattenParts
  <2> HIDE DEF u
  <2>3. PICK p : Starts(p, UriBlocks(n), u)
    BY <2>2
  <2>4. PICK f : \A i \in 1..(Len(u) + 1) : /\ Components(u, i) = f[i]
                                            /\ f[i] = ComponentBody(u, f, i)
                                            /\ f[i] \subseteq Seq(NonEmpty)
    BY <2>2, ComponentsFcn
  <2>5. /\ p \in [1..(Len(n) + 1) -> 1..(Len(u) + 1)] /\ p[1] = 1 /\ p[Len(n) + 1] = Len(u) + 1
    BY <2>1, <2>3 DEF Starts
  <2>n. Len(n) > 0 /\ n \in Seq(NonEmpty) /\ Len(u) \in Nat
    BY <1>2, <2>1, <2>2 DEF SlashFreeName
  <2> HIDE DEF U
  <2> DEFINE S == {k \in 1..(Len(n) + 1) : Done(n, p, f, k)}
  <2>6. ASSUME NEW k \in 1..(Len(n) + 1), \A j \in (k + 1)..(Len(n) + 1) : j \in S
        PROVE  k \in S
    <3>1. CASE k = Len(n) + 1
      <4>1. f[p[k]] = ComponentBody(u, f, p[k])
        BY <2>4, <2>5
      <4>2. ComponentBody(u, f, p[k]) = {<<>>}
        BY <2>5, <3>1 DEF ComponentBody
      <4>3. SubSeq(n, k, Len(n)) = <<>>
        BY <2>1, <3>1, SubSeqEmpty
      <4> QED BY <4>1, <4>2, <4>3 DEF Done
    <3>2. CASE k # Len(n) + 1
      <4>1. k \in 1..Len(n) /\ k + 1 \in (k + 1)..(Len(n) + 1)
        BY <2>1, <3>2
      <4>2. Done(n, p, f, k + 1)
        BY <2>6, <4>1
      <4>3. Reading(n, u, p, f, k)
        BY <2>2, <2>3, <2>4, <4>1, <4>2 DEF Reading
      <4>4. Done(n, p, f, k)
        BY <4>3, ReadBlock
      <4> QED BY <4>4
    <3> QED BY <3>1, <3>2
  <2>7. \A k \in 1..(Len(n) + 1) : k \in S
    <3>1. Len(n) + 1 \in Nat
      BY <2>1
    <3> HIDE DEF S
    <3> QED BY <2>6, <3>1, DownInduction
  <2>8. 1 \in 1..(Len(n) + 1) /\ 1 + 1 \in 1..(Len(n) + 1) /\ 1 \in 1..Len(n) /\ 1 + 1 \in (1 + 1)..(Len(n) + 1)
    BY <2>1, <2>n
  <2>9. f[1] = {n}
    <3>1. f[1] = {SubSeq(n, 1, Len(n))}
      BY <2>5, <2>7, <2>8 DEF Done
    <3>2. SubSeq(n, 1, Len(n)) = n
      BY <2>n, SubSeqFull
    <3> QED BY <3>1, <3>2
  <2>10. Reading(n, u, p, f, 1)
    <3>1. Done(n, p, f, 1 + 1)
      BY <2>7, <2>8
    <3> QED BY <2>2, <2>3, <2>4, <2>8, <3>1 DEF Reading
  <2>11. u[1] = Slash /\ 1 < Len(u) /\ u[1 + 1] # Slash
    <3> DEFINE t == toEscaped(n[1])
    <3>1. /\ Len(t) \in Nat /\ Len(t) > 0 /\ Len(u) \in Nat
          /\ p[1 + 1] = p[1] + Len(t) + 1 /\ p[1 + 1] <= Len(u) + 1
          /\ u[p[1]] = Slash
          /\ \A j \in 1..Len(t) : u[p[1] + j] = t[j] /\ t[j] # Slash
      BY <2>10, BlockPlace
    <3> HIDE DEF t
    <3>2. 1 \in 1..Len(t)
      BY <3>1
    <3> QED BY <2>5, <3>1, <3>2
  <2>12. FindSlash(u, 1) = 1
    <3>1. 1 \in 1..(Len(u) + 1) /\ \A j \in 1..(1 - 1) : u[j] # Slash
      BY <2>n
    <3> QED BY <2>2, <2>11, <3>1, SlashIsAt
  <2>13. NameFromUri(u) = Components(u, 1)
    BY <2>n, <2>11, <2>12 DEF NameFromUri
  <2>14. Components(u, 1) = f[1]
    <3>1. 1 \in 1..(Len(u) + 1)
      BY <2>n
    <3> QED BY <2>4, <3>1
  <2> QED BY <2>9, <2>13, <2>14 DEF u
<1> QED BY <1>1, <1>2

-----------------------------------------------------------------------------
(* Numbers in components. *)

LEMMA UpInduction ==
  ASSUME NEW n \in Nat, NEW S,
         \A k \in 0..n : (\A j \in 0..(k - 1) : j \in S) => k \in S
  PROVE  \A k \in 0..n : k \in S
<1> SUFFICES ASSUME NEW x \in 0..n, x \notin S PROVE FALSE
  OBVIOUS
<1> DEFINE T == {k \in 0..n : k \notin S}
<1>1. T \subseteq Nat /\ T # {}
  OBVIOUS
<1>2. PICK t \in T : \A k \in T : t <= k
  <2> HIDE DEF T
  <2> QED BY <1>1, Least
<1>3. \A j \in 0..(t - 1) : j \in S
  <2> SUFFICES ASSUME NEW j \in 0..(t - 1), j \notin S PROVE FALSE
    OBVIOUS
  <2>1. j \in T /\ t \in Nat
    BY <1>2
  <2> HIDE DEF T
  <2> QED BY <1>2, <2>1
<1> QED BY <1>2, <1>3

\* The bases that the library writes numbers in.
Bases == {10, 128, 256}

\* v adds the digits of c up, from the first to the last.
ValueBody(base, c, v, i) == IF i = 0 THEN 0 ELSE v[i - 1] * base + c[i]
Adds(base, c, v) == \A i \in 0..Len(c) : v[i] = ValueBody(base, c, v, i) /\ v[i] \in Nat

LEMMA ValueType ==
  ASSUME NEW base \in Bases, NEW c \in Seq(Nat), NEW v, NEW i \in 0..Len(c),
         \A j \in 0..(i - 1) : v[j] \in Nat
  PROVE  ValueBody(base, c, v, i) \in Nat
<1>1. CASE i = 0
  BY <1>1 DEF ValueBody
<1>2. CASE i # 0
  <2>1. i - 1 \in 0..(i - 1) /\ i \in 1..Len(c)
    BY <1>2
  <2>2. v[i - 1] \in Nat /\ c[i] \in Nat
    BY <2>1
  <2>3. v[i - 1] * base + c[i] \in Nat
    BY <2>2 DEF Bases
  <2> QED BY <1>2, <2>3 DEF ValueBody
<1> QED BY <1>1, <1>2

LEMMA NumberInFcn ==
  ASSUME NEW base \in Bases, NEW c \in Seq(Nat)
  PROVE  \E v : Adds(base, c, v) /\ NumberIn(base, c) = v[Len(c)]
<1> DEFINE D == 0..Len(c)
           F == CHOOSE v : v = [i \in D |-> ValueBody(base, c, v, i)]
           G == [i \in D |-> [v \in [D -> Nat] |-> ValueBody(base, c, v, i)]]
           m == [i \in D |-> i]
<1>0. Len(c) \in Nat /\ \A i \in D : i \in Nat /\ \A j \in 0..(i - 1) : j \in D /\ j < i
  OBVIOUS
<1>1. G \in [D -> [[D -> Nat] -> Nat]]
  <2>1. ASSUME NEW i \in D, NEW v \in [D -> Nat] PROVE ValueBody(base, c, v, i) \in Nat
    <3>1. \A j \in 0..(i - 1) : v[j] \in Nat
      BY <1>0
    <3> QED BY <3>1, ValueType
  <2> HIDE DEF D
  <2> QED BY <2>1
<1>2. Causal(D, m, Nat, G)
  <2>1. ASSUME NEW d \in D, NEW f \in [D -> Nat], NEW g \in [D -> Nat],
                      \A e \in D : e < d => f[e] = g[e]
               PROVE  ValueBody(base, c, f, d) = ValueBody(base, c, g, d)
    <3>1. d # 0 => f[d - 1] = g[d - 1]
      BY <1>0, <2>1
    <3> QED BY <3>1 DEF ValueBody
  <2> HIDE DEF D
  <2> QED BY <2>1 DEF Causal
<1>3. WellFounded(D, Nat, Len(c), m, G)
  <2>1. m \in [D -> 0..Len(c)] /\ 0 \in Nat /\ Len(c) \in Nat
    BY <1>0
  <2> HIDE DEF G, m, D, F
  <2> QED BY <1>1, <1>2, <2>1 DEF WellFounded
<1>f. PICK f \in [D -> Nat] : \A d \in D : f[d] = G[d][f]
  <2> HIDE DEF G, m, D, F
  <2>1. Solvable(D, Nat, G)
    BY <1>3, Recursion
  <2> QED BY <2>1 DEF Solvable
<1>4. \E h : h = [i \in D |-> ValueBody(base, c, h, i)]
  <2>1. \A d \in D : f[d] = ValueBody(base, c, f, d)
    <3> HIDE DEF D, F
    <3> QED BY <1>f
  <2>2. f = [i \in D |-> ValueBody(base, c, f, i)]
    <3> HIDE DEF D, F
    <3> QED BY <2>1
  <2> QED BY <2>2
<1>5. F = [i \in D |-> ValueBody(base, c, F, i)]
  BY <1>4
<1>6. NumberIn(base, c) = F[Len(c)]
  BY DEF NumberIn, ValueBody
<1>7. \A i \in D : F[i] = ValueBody(base, c, F, i)
  <2> HIDE DEF F, D
  <2> QED BY <1>5
<1> HIDE DEF F
<1>8. \A i \in 0..Len(c) : i \in {k \in D : F[k] \in Nat}
  <2> DEFINE S == {k \in D : F[k] \in Nat}
  <2>1. ASSUME NEW i \in 0..Len(c), \A k \in 0..(i - 1) : k \in S
        PROVE  i \in S
    <3>1. ValueBody(base, c, F, i) \in Nat
      BY <2>1, ValueType
    <3> QED BY <1>7, <3>1
  <2> HIDE DEF S
  <2>3. \A i \in 0..Len(c) : i \in S
    BY <1>0, <2>1, UpInduction
  <2> QED BY <2>3 DEF S
<1> QED BY <1>6, <1>7, <1>8 DEF Adds

\* Sums over a common prefix agree.
LEMMA SumsAgree ==
  ASSUME NEW base \in Bases, NEW c \in Seq(Nat), NEW d \in Seq(Nat), NEW v, NEW w,
         Adds(base, c, v), Adds(base, d, w),
         Len(c) <= Len(d), \A i \in 1..Len(c) : c[i] = d[i]
  PROVE  v[Len(c)] = w[Len(c)]
<1> DEFINE S == {k \in 0..Len(c) : v[k] = w[k]}
<1>0. Len(c) \in Nat /\ Len(d) \in Nat
  OBVIOUS
<1>1. ASSUME NEW i \in 0..Len(c), \A k \in 0..(i - 1) : k \in S
      PROVE  i \in S
  <2>1. i \in 0..Len(d) /\ (i # 0 => i \in 1..Len(c) /\ i - 1 \in 0..(i - 1))
    BY <1>0
  <2>2. v[i] = ValueBody(base, c, v, i) /\ w[i] = ValueBody(base, d, w, i)
    BY <2>1 DEF Adds
  <2>3. i # 0 => v[i - 1] = w[i - 1] /\ c[i] = d[i]
    BY <1>1, <2>1
  <2>4. ValueBody(base, c, v, i) = ValueBody(base, d, w, i)
    BY <2>3 DEF ValueBody
  <2> QED BY <2>2, <2>4
<1>2. \A i \in 0..Len(c) : i \in S
  <2> HIDE DEF S
  <2> QED BY <1>0, <1>1, UpInduction
<1>3. Len(c) \in S
  BY <1>0, <1>2
<1> QED BY <1>3

LEMMA NumberOfAppend ==
  ASSUME NEW base \in Bases, NEW c \in Seq(Nat), NEW b \in Nat
  PROVE  NumberIn(base, Append(c, b)) = NumberIn(base, c) * base + b
<1> DEFINE d == Append(c, b)
<1>1. /\ d \in Seq(Nat) /\ Len(d) = Len(c) + 1 /\ Len(c) \in Nat
      /\ \A i \in 1..Len(c) : c[i] = d[i]
      /\ d[Len(c) + 1] = b
  BY AppendProperties
<1> HIDE DEF d
<1>2. PICK v : Adds(base, c, v) /\ NumberIn(base, c) = v[Len(c)]
  BY NumberInFcn
<1>3. PICK w : Adds(base, d, w) /\ NumberIn(base, d) = w[Len(d)]
  BY <1>1, NumberInFcn
<1>4. v[Len(c)] = w[Len(c)]
  <2>1. Len(c) <= Len(d)
    BY <1>1
  <2> QED BY <1>1, <1>2, <1>3, <2>1, SumsAgree
<1>5. w[Len(c) + 1] = ValueBody(base, d, w, Len(c) + 1)
  <2>1. Len(c) + 1 \in 0..Len(d)
    BY <1>1
  <2> QED BY <1>3, <2>1 DEF Adds
<1>6. ValueBody(base, d, w, Len(c) + 1) = w[Len(c)] * base + b
  <2>1. Len(c) + 1 # 0 /\ (Len(c) + 1) - 1 = Len(c)
    BY <1>1
  <2> QED BY <1>1, <2>1 DEF ValueBody
<1> QED BY <1>1, <1>2, <1>3, <1>4, <1>5, <1>6 DEF d

LEMMA NumberOfNothing ==
  ASSUME NEW base \in Bases
  PROVE  NumberIn(base, <<>>) = 0
<1>1. <<>> \in Seq(Nat) /\ Len(<<>>) = 0
  OBVIOUS
<1>2. PICK v : Adds(base, <<>>, v) /\ NumberIn(base, <<>>) = v[Len(<<>>)]
  BY <1>1, NumberInFcn
<1>3. v[0] = ValueBody(base, <<>>, v, 0)
  BY <1>1, <1>2 DEF Adds
<1> QED BY <1>1, <1>2, <1>3 DEF ValueBody

\* w[k] is the digits of k.
Digit(base) == 0..(base - 1)
DigitsBody(base, w, k) == IF k = 0 THEN <<>> ELSE Append(w[k \div base], k % base)
Writes(base, n, w) ==
  \A k \in 0..n : w[k] = DigitsBody(base, w, k) /\ w[k] \in Seq(Digit(base))

LEMMA Quotient ==
  ASSUME NEW base \in Bases, NEW k \in Nat, k # 0
  PROVE  /\ k \div base \in 0..(k - 1) /\ k % base \in Digit(base)
         /\ (k \div base) * base + (k % base) = k
<1>1. CASE base = 10
  BY <1>1 DEF Digit
<1>2. CASE base = 128
  BY <1>2 DEF Digit
<1>3. CASE base = 256
  BY <1>3 DEF Digit
<1> QED BY <1>1, <1>2, <1>3 DEF Bases

LEMMA DigitsAreNumbers ==
  ASSUME NEW base \in Bases
  PROVE  Digit(base) \subseteq Nat /\ Seq(Digit(base)) \subseteq Seq(Nat)
<1>1. Digit(base) \subseteq Nat
  BY DEF Digit, Bases
<1> HIDE DEF Digit
<1> QED BY <1>1, SeqMonotonic

LEMMA DigitsType ==
  ASSUME NEW base \in Bases, NEW w, NEW k \in Nat, \A j \in 0..(k - 1) : w[j] \in Seq(Digit(base))
  PROVE  DigitsBody(base, w, k) \in Seq(Digit(base))
<1>1. CASE k = 0
  BY <1>1 DEF DigitsBody
<1>2. CASE k # 0
  <2>1. w[k \div base] \in Seq(Digit(base)) /\ k % base \in Digit(base)
    BY <1>2, Quotient
  <2>2. Append(w[k \div base], k % base) \in Seq(Digit(base))
    BY <2>1, AppendProperties
  <2> QED BY <1>2, <2>2 DEF DigitsBody
<1> QED BY <1>1, <1>2

LEMMA DigitsInFcn ==
  ASSUME NEW base \in Bases, NEW n \in Nat
  PROVE  \E w : DigitsIn(base, n) = w[n] /\ Writes(base, n, w)
<1> DEFINE D == 0..n
           T == Seq(Digit(base))
           F == CHOOSE w : w = [k \in D |-> DigitsBody(base, w, k)]
           G == [k \in D |-> [w \in [D -> T] |-> DigitsBody(base, w, k)]]
           m == [k \in D |-> k]
<1>0. \A k \in D : k \in Nat /\ \A j \in 0..(k - 1) : j \in D /\ j < k
  OBVIOUS
<1>1. G \in [D -> [[D -> T] -> T]]
  <2>1. ASSUME NEW k \in D, NEW w \in [D -> T] PROVE DigitsBody(base, w, k) \in T
    <3>1. k \in Nat /\ \A j \in 0..(k - 1) : w[j] \in Seq(Digit(base))
      BY <1>0
    <3> QED BY <3>1, DigitsType
  <2> HIDE DEF D, T
  <2> QED BY <2>1
<1>2. Causal(D, m, T, G)
  <2>1. ASSUME NEW d \in D, NEW f \in [D -> T], NEW g \in [D -> T],
                      \A e \in D : e < d => f[e] = g[e]
               PROVE  DigitsBody(base, f, d) = DigitsBody(base, g, d)
    <3>1. CASE d = 0
      BY <3>1 DEF DigitsBody
    <3>2. CASE d # 0
      <4>1. d \div base \in D /\ d \div base < d
        BY <1>0, <3>2, Quotient
      <4>2. f[d \div base] = g[d \div base]
        BY <2>1, <4>1
      <4> QED BY <3>2, <4>2 DEF DigitsBody
    <3> QED BY <3>1, <3>2
  <2> HIDE DEF D, T
  <2> QED BY <2>1 DEF Causal
<1>3. WellFounded(D, T, n, m, G)
  <2>1. m \in [D -> 0..n] /\ <<>> \in T
    BY <1>0
  <2> HIDE DEF G, m, D, F, T
  <2> QED BY <1>1, <1>2, <2>1 DEF WellFounded
<1>f. PICK f \in [D -> T] : \A d \in D : f[d] = G[d][f]
  <2> HIDE DEF G, m, D, F, T
  <2>1. Solvable(D, T, G)
    BY <1>3, Recursion
  <2> QED BY <2>1 DEF Solvable
<1>4. \E h : h = [k \in D |-> DigitsBody(base, h, k)]
  <2>1. \A d \in D : f[d] = DigitsBody(base, f, d)
    <3> HIDE DEF D, F, T
    <3> QED BY <1>f
  <2>2. f = [k \in D |-> DigitsBody(base, f, k)]
    <3> HIDE DEF D, F
    <3> QED BY <2>1
  <2> QED BY <2>2
<1>5. F = [k \in D |-> DigitsBody(base, F, k)]
  BY <1>4
<1>6. DigitsIn(base, n) = F[n]
  BY DEF DigitsIn, DigitsBody
<1>7. \A k \in D : F[k] = DigitsBody(base, F, k)
  <2> HIDE DEF F, D
  <2> QED BY <1>5
<1> HIDE DEF F
<1>8. \A k \in 0..n : k \in {j \in D : F[j] \in T}
  <2> DEFINE S == {j \in D : F[j] \in T}
  <2>1. ASSUME NEW k \in 0..n, \A j \in 0..(k - 1) : j \in S
        PROVE  k \in S
    <3>1. DigitsBody(base, F, k) \in T
      BY <2>1, DigitsType
    <3> QED BY <1>7, <3>1
  <2> HIDE DEF S
  <2>3. \A k \in 0..n : k \in S
    BY <2>1, UpInduction
  <2> QED BY <2>3 DEF S
<1> QED BY <1>6, <1>7, <1>8 DEF Writes

\* The digits of a number add up to it.
LEMMA DigitsAddUp ==
  ASSUME NEW base \in Bases, NEW n \in Nat
  PROVE  /\ DigitsIn(base, n) \in Seq(Digit(base)) /\ NumberIn(base, DigitsIn(base, n)) = n
         /\ (DigitsIn(base, n) = <<>>) = (n = 0)
<1>1. PICK w : DigitsIn(base, n) = w[n] /\ Writes(base, n, w)
  BY DigitsInFcn
<1> DEFINE S == {k \in 0..n : NumberIn(base, w[k]) = k}
<1>2. ASSUME NEW k \in 0..n, \A j \in 0..(k - 1) : j \in S
      PROVE  k \in S
  <2>1. CASE k = 0
    <3>1. w[k] = <<>>
      BY <1>1, <2>1 DEF DigitsBody, Writes
    <3> QED BY <2>1, <3>1, NumberOfNothing
  <2>2. CASE k # 0
    <3> DEFINE q == k \div base
               r == k % base
    <3>1. q \in 0..(k - 1) /\ r \in Digit(base) /\ q * base + r = k
      BY <2>2, Quotient
    <3>2. w[k] = Append(w[q], r)
      BY <1>1, <2>2 DEF DigitsBody, Writes
    <3> HIDE DEF q, r
    <3>3. NumberIn(base, w[q]) = q /\ w[q] \in Seq(Digit(base))
      BY <1>1, <1>2, <3>1 DEF Writes
    <3>4. w[q] \in Seq(Nat) /\ r \in Nat
      BY <3>1, <3>3, DigitsAreNumbers
    <3>5. NumberIn(base, w[k]) = NumberIn(base, w[q]) * base + r
      BY <3>2, <3>4, NumberOfAppend
    <3>6. NumberIn(base, w[k]) = k
      BY <3>1, <3>3, <3>5
    <3> QED BY <3>6
  <2> QED BY <2>1, <2>2
<1>3. \A k \in 0..n : k \in S
  <2> HIDE DEF S
  <2> QED BY <1>2, UpInduction
<1>4. n \in 0..n
  OBVIOUS
<1>5. (w[n] = <<>>) = (n = 0)
  <2>1. w[n] = DigitsBody(base, w, n)
    BY <1>1, <1>4 DEF Writes
  <2>2. n = 0 => w[n] = <<>>
    BY <2>1 DEF DigitsBody
  <2>3. n # 0 => w[n] # <<>>
    <3> SUFFICES ASSUME n # 0 PROVE w[n] # <<>>
      OBVIOUS
    <3>1. n \div base \in 0..n /\ n % base \in Digit(base)
      BY Quotient
    <3>2. w[n \div base] \in Seq(Digit(base)) /\ w[n] = Append(w[n \div base], n % base)
      BY <1>1, <2>1, <3>1 DEF DigitsBody, Writes
    <3> QED BY <3>1, <3>2, AppendProperties
  <2> QED BY <2>2, <2>3
<1>6. w[n] \in Seq(Digit(base)) /\ NumberIn(base, w[n]) = n
  BY <1>1, <1>3, <1>4 DEF Writes
<1> QED BY <1>1, <1>5, <1>6

\* Every number is read back from its bytes, most significant byte first.
THEOREM NumbersComeBack ==
  \A n \in Nat : /\ fromNumber(n) \in Seq(Byte) /\ toNumber(fromNumber(n)) = n
                 /\ (fromNumber(n) = <<>>) = (n = 0)
<1>1. 256 \in Bases /\ Digit(256) = Byte
  BY DEF Bases, Digit, Byte
<1> QED BY <1>1, DigitsAddUp DEF fromNumber, toNumber

\* A marked number is read back from its component.
LEMMA MarkedComeBack ==
  ASSUME NEW k \in Nat, NEW marker \in Byte
  PROVE  /\ fromNumberWithMarker(k, marker) \in NonEmpty
         /\ toNumberWithMarker(fromNumberWithMarker(k, marker), marker) = {k}
<1> DEFINE t == fromNumber(k)
           c == <<marker>> \o t
<1>1. t \in Seq(Byte) /\ toNumber(t) = k
  BY NumbersComeBack
<1> HIDE DEF t
<1>2. c \in Seq(Byte) /\ Len(c) = Len(t) + 1 /\ Len(t) \in Nat /\ c[1] = marker /\ \A j \in 1..Len(t) : c[j + 1] = t[j]
  BY <1>1, PrependAt
<1>3. c # <<>>
  BY <1>2
<1>4. Tail(c) = t
  <2> HIDE DEF c
  <2>1. Tail(c) \in Seq(Byte) /\ Len(Tail(c)) = Len(c) - 1 /\ \A j \in 1..Len(Tail(c)) : Tail(c)[j] = c[j + 1]
    BY <1>2, <1>3, HeadTailProperties
  <2>2. Len(Tail(c)) = Len(t) /\ \A j \in 1..Len(t) : Tail(c)[j] = t[j]
    BY <1>2, <2>1
  <2> QED BY <1>1, <2>1, <2>2, SeqEqual
<1>5. fromNumberWithMarker(k, marker) = c
  BY DEF fromNumberWithMarker, t
<1> HIDE DEF c
<1> QED BY <1>1, <1>2, <1>3, <1>4, <1>5 DEF toNumberWithMarker, NonEmpty

\* The component appended last is the one at -1.
LEMMA LastComponent ==
  ASSUME NEW n \in Seq(NonEmpty), NEW c \in NonEmpty
  PROVE  append(n, c) \in Seq(NonEmpty) /\ get(append(n, c), -1) = {c}
<1> DEFINE a == Append(n, c)
<1>1. append(n, c) = a
  BY DEF append, NonEmpty
<1>2. a \in Seq(NonEmpty) /\ Len(a) = Len(n) + 1 /\ a[Len(n) + 1] = c /\ Len(n) \in Nat
  BY AppendProperties
<1> HIDE DEF a
<1>3. Len(a) + (-1) = Len(n) /\ Len(n) \in 0..(Len(a) - 1) /\ -1 < 0
  BY <1>2
<1>4. get(a, -1) = {c}
  BY <1>2, <1>3 DEF get
<1> QED BY <1>1, <1>2, <1>4

-----------------------------------------------------------------------------
(* The life of a name. *)

NameTypeOK == name \in Seq(NonEmpty)

LEMMA AppendType ==
  ASSUME NEW n \in Seq(NonEmpty), NEW c \in Seq(Byte)
  PROVE  append(n, c) \in Seq(NonEmpty)
<1>1. CASE c = <<>>
  BY <1>1 DEF append
<1>2. CASE c # <<>>
  BY <1>2, LastComponent DEF NonEmpty
<1> QED BY <1>1, <1>2

LEMMA AppendAllType ==
  ASSUME NEW n \in Seq(NonEmpty), NEW m \in Seq(NonEmpty)
  PROVE  appendAll(n, m) \in Seq(NonEmpty)
<1> DEFINE E == [i \in DOMAIN m |-> append(<<>>, m[i])]
<1>1. DOMAIN m = 1..Len(m) /\ Len(m) \in Nat /\ \A i \in 1..Len(m) : m[i] \in NonEmpty
  BY ElementOfSeq, LenProperties
<1>2. \A i \in 1..Len(m) : append(<<>>, m[i]) \in Seq(NonEmpty)
  <2>1. <<>> \in Seq(NonEmpty)
    BY EmptySeq
  <2> QED BY <1>1, <2>1, LastComponent
<1>3. E \in [1..Len(m) -> Seq(NonEmpty)]
  BY <1>1, <1>2
<1>4. appendAll(n, m) = n \o FlattenSeq(E)
  BY DEF appendAll
<1> HIDE DEF E
<1>5. E \in Seq(Seq(NonEmpty))
  BY <1>1, <1>3
<1>6. FlattenSeq(E) \in Seq(NonEmpty)
  BY <1>5, FlattenParts
<1> QED BY <1>4, <1>6, ConcatProperties

LEMMA SubNameType ==
  ASSUME NEW n \in Seq(NonEmpty), NEW pos \in Nat, NEW len \in Nat
  PROVE  getSubName(n, pos, len) \subseteq Seq(NonEmpty)
<1>1. len # npos
  BY DEF npos
<1>2. CASE pos + len > Len(n)
  BY <1>1, <1>2 DEF getSubName
<1>3. CASE ~(pos + len > Len(n))
  <2>1. \A i \in (pos + 1)..(pos + len) : i \in 1..Len(n)
    <3>1. Len(n) \in Nat
      BY LenProperties
    <3> QED BY <1>3, <3>1
  <2>2. \A i \in (pos + 1)..(pos + len) : n[i] \in NonEmpty
    BY <2>1, ElementOfSeq
  <2>3. SubSeq(n, pos + 1, pos + len) \in Seq(NonEmpty)
    <3>1. pos + 1 \in Int /\ pos + len \in Int
      OBVIOUS
    <3> QED BY <2>2, <3>1, SubSeqProperties
  <2>4. getSubName(n, pos, len) = {SubSeq(n, pos + 1, pos + len)}
    BY <1>1, <1>3 DEF getSubName
  <2> QED BY <2>3, <2>4
<1> QED BY <1>2, <1>3

LEMMA PostfixType ==
  ASSUME NEW n \in Seq(NonEmpty), NEW len \in Nat, NEW skip \in Nat
  PROVE  getPostfix(n, len, skip) \subseteq Seq(NonEmpty)
<1>0. Len(n) \in Nat
  BY LenProperties
<1>1. CASE Len(n) - len - skip < 0
  <2>1. {} \subseteq Seq(NonEmpty) /\ {<<>>} \subseteq Seq(NonEmpty)
    BY EmptySeq
  <2> QED BY <1>1, <2>1 DEF getPostfix
<1>2. CASE ~(Len(n) - len - skip < 0)
  <2>1. Len(n) - len - skip \in Nat
    BY <1>0, <1>2
  <2>2. getPostfix(n, len, skip) = getSubName(n, Len(n) - len - skip, len)
    BY <1>2 DEF getPostfix
  <2> QED BY <2>1, <2>2, SubNameType
<1> QED BY <1>1, <1>2

LEMMA MarkersAreBytes ==
  SeqNumMarker \in Byte /\ ControlMarker \in Byte /\ BlkIdMarker \in Byte /\ VersionMarker \in Byte
BY DEF SeqNumMarker, ControlMarker, BlkIdMarker, VersionMarker, Byte

LEMMA NumberAppended ==
  ASSUME NEW n \in Seq(NonEmpty), NEW k \in Nat
  PROVE  /\ appendNumber(n, k) \in Seq(NonEmpty)
         /\ \A marker \in Byte : appendNumberWithMarker(n, k, marker) \in Seq(NonEmpty)
<1>1. fromNumber(k) \in Seq(Byte)
  BY NumbersComeBack
<1>2. appendNumber(n, k) \in Seq(NonEmpty)
  BY <1>1, AppendType DEF appendNumber
<1>3. ASSUME NEW marker \in Byte PROVE appendNumberWithMarker(n, k, marker) \in Seq(NonEmpty)
  <2>1. fromNumberWithMarker(k, marker) \in NonEmpty
    BY MarkedComeBack
  <2> QED BY <2>1, LastComponent DEF appendNumberWithMarker
<1> QED BY <1>2, <1>3

\* Every step keeps the components of a name non-empty sequences of bytes.
LEMMA NameTypeStep ==
  ASSUME NameTypeOK, [NameNext]_name
  PROVE  NameTypeOK'
<1> USE DEF NameTypeOK
<1>0. /\ Comps \subseteq Seq(Byte) /\ CompUris \subseteq Seq(Byte) /\ Numbers \subseteq Nat
      /\ MaxComps \in Nat /\ PacketNames \subseteq Seq(NonEmpty)
  BY NameAssumption DEF NonEmpty
<1>1. ASSUME AppendSomething PROVE NameTypeOK'
  <2>1. CASE \E c \in Comps : Build(append(name, c))
    BY <1>0, <2>1, AppendType DEF Build
  <2>2. CASE \E u \in CompUris : \E n \in appendUri(name, u) : Build(n)
    <3>1. PICK u \in CompUris : \E n \in appendUri(name, u) : Build(n)
      BY <2>2
    <3>2. PICK n \in appendUri(name, u) : Build(n)
      BY <3>1
    <3>3. PICK c \in fromEscaped(u) : n = append(name, c)
      BY <3>2 DEF appendUri, ComponentFromUri
    <3>4. c \in Seq(Byte)
      BY <1>0, <3>1, <3>3, FromEscapedType
    <3>5. n \in Seq(NonEmpty)
      BY <3>3, <3>4, AppendType
    <3> QED BY <3>2, <3>5 DEF Build
  <2>3. CASE \E k \in Numbers : \/ Build(appendNumber(name, k))
                                \/ Build(appendVersion(name, k))
                                \/ Build(appendSeqNum(name, k))
                                \/ Build(appendControlNum(name, k))
                                \/ Build(appendBlkId(name, k))
    <3>1. PICK k \in Numbers : \/ Build(appendNumber(name, k))
                               \/ Build(appendVersion(name, k))
                               \/ Build(appendSeqNum(name, k))
                               \/ Build(appendControlNum(name, k))
                               \/ Build(appendBlkId(name, k))
      BY <2>3
    <3>2. k \in Nat
      BY <1>0
    <3>3. /\ appendNumber(name, k) \in Seq(NonEmpty)
          /\ appendVersion(name, k) \in Seq(NonEmpty) /\ appendSeqNum(name, k) \in Seq(NonEmpty)
          /\ appendControlNum(name, k) \in Seq(NonEmpty) /\ appendBlkId(name, k) \in Seq(NonEmpty)
      BY <3>2, NumberAppended, MarkersAreBytes
         DEF appendVersion, appendSeqNum, appendControlNum, appendBlkId
    <3> QED BY <3>1, <3>3 DEF Build
  <2>4. CASE Build(appendAll(name, name))
    BY <2>4, AppendAllType DEF Build
  <2>5. CASE \E n \in PacketNames : Build(Concat(n, name))
    <3>1. PICK n \in PacketNames : Build(Concat(n, name))
      BY <2>5
    <3>2. n \in Seq(NonEmpty) /\ <<>> \in Seq(NonEmpty)
      BY <1>0, EmptySeq
    <3>3. Concat(n, name) \in Seq(NonEmpty)
      BY <3>2, AppendAllType DEF Concat
    <3> QED BY <3>1, <3>3 DEF Build
  <2> QED BY <1>1, <2>1, <2>2, <2>3, <2>4, <2>5 DEF AppendSomething
<1>2. ASSUME TakePart PROVE NameTypeOK'
  <2>1. PICK len \in 0..MaxComps, skip \in 0..1 :
          \E n \in getPrefix(name, len, skip) \cup getPostfix(name, len, skip) : Build(n)
    BY <1>2 DEF TakePart
  <2>2. len \in Nat /\ skip \in Nat
    BY <1>0
  <2>3. /\ getPrefix(name, len, skip) \subseteq Seq(NonEmpty)
        /\ getPostfix(name, len, skip) \subseteq Seq(NonEmpty)
    BY <2>2, SubNameType, PostfixType DEF getPrefix
  <2> QED BY <2>1, <2>3 DEF Build
<1>3. CASE UNCHANGED name
  BY <1>3
<1> QED BY <1>1, <1>2, <1>3 DEF NameNext

\* A name is always a sequence of non-empty components.
THEOREM NameTypeCorrect == NameSpec => []NameTypeOK
<1>1. NameInit => NameTypeOK
  BY EmptySeq DEF NameInit, NameTypeOK
<1>2. NameTypeOK /\ [NameNext]_name => NameTypeOK'
  BY NameTypeStep
<1> QED BY <1>1, <1>2, PTL DEF NameSpec

\* The marked number appended to n is read back from its last component.
LEMMA MarkedLast ==
  ASSUME NEW n \in Seq(NonEmpty), NEW k \in Nat, NEW marker \in Byte
  PROVE  UNION {toNumberWithMarker(c, marker) : c \in get(appendNumberWithMarker(n, k, marker), -1)} = {k}
<1> DEFINE d == fromNumberWithMarker(k, marker)
<1>1. d \in NonEmpty /\ toNumberWithMarker(d, marker) = {k}
  BY MarkedComeBack
<1> HIDE DEF d
<1>2. get(append(n, d), -1) = {d}
  BY <1>1, LastComponent
<1>3. get(appendNumberWithMarker(n, k, marker), -1) = {d}
  BY <1>2 DEF appendNumberWithMarker, d
<1>4. {toNumberWithMarker(c, marker) : c \in {d}} = {{k}}
  BY <1>1
<1>5. UNION {{k}} = {k}
  OBVIOUS
<1> QED BY <1>3, <1>4, <1>5

LEMMA RoundTripHolds ==
  ASSUME NameTypeOK
  PROVE  UriRoundTrip
<1>0. name \in Seq(NonEmpty) /\ Numbers \subseteq Nat
  BY NameAssumption DEF NameTypeOK
<1>1. ASSUME \A i \in DOMAIN name : Slash \notin ToSet(name[i])
      PROVE  NameFromUri(toUri(name)) = {name}
  <2>1. ASSUME NEW i \in 1..Len(name) PROVE SlashFree(name[i])
    <3>1. name[i] \in NonEmpty /\ i \in DOMAIN name
      BY <1>0, ElementOfSeq, LenProperties
    <3>2. DOMAIN name[i] = 1..Len(name[i])
      BY <3>1, LenProperties DEF NonEmpty
    <3>3. \A j \in DOMAIN name[i] : name[i][j] # Slash
      BY <1>1, <3>1 DEF ToSet
    <3> QED BY <3>1, <3>2, <3>3 DEF SlashFree
  <2>2. SlashFreeName(name)
    BY <1>0, <2>1 DEF SlashFreeName
  <2> QED BY <2>2, NamesComeBack
<1>2. ASSUME NEW k \in Numbers
      PROVE  /\ UNION {toVersion(c) : c \in get(appendVersion(name, k), -1)} = {k}
             /\ UNION {toSeqNum(c) : c \in get(appendSeqNum(name, k), -1)} = {k}
             /\ UNION {toControlNum(c) : c \in get(appendControlNum(name, k), -1)} = {k}
             /\ UNION {toBlkId(c) : c \in get(appendBlkId(name, k), -1)} = {k}
             /\ k > 0 => {toNumber(c) : c \in get(appendNumber(name, k), -1)} = {k}
  <2>0. k \in Nat
    BY <1>0
  <2>1. UNION {toVersion(c) : c \in get(appendVersion(name, k), -1)} = {k}
    BY <1>0, <2>0, MarkedLast, MarkersAreBytes DEF toVersion, appendVersion
  <2>2. UNION {toSeqNum(c) : c \in get(appendSeqNum(name, k), -1)} = {k}
    BY <1>0, <2>0, MarkedLast, MarkersAreBytes DEF toSeqNum, appendSeqNum
  <2>3. UNION {toControlNum(c) : c \in get(appendControlNum(name, k), -1)} = {k}
    BY <1>0, <2>0, MarkedLast, MarkersAreBytes DEF toControlNum, appendControlNum
  <2>4. UNION {toBlkId(c) : c \in get(appendBlkId(name, k), -1)} = {k}
    BY <1>0, <2>0, MarkedLast, MarkersAreBytes DEF toBlkId, appendBlkId
  <2>5. ASSUME k > 0 PROVE {toNumber(c) : c \in get(appendNumber(name, k), -1)} = {k}
    <3> DEFINE d == fromNumber(k)
    <3>1. d \in NonEmpty /\ toNumber(d) = k
      BY <2>0, <2>5, NumbersComeBack DEF NonEmpty
    <3> HIDE DEF d
    <3>2. get(append(name, d), -1) = {d}
      BY <1>0, <3>1, LastComponent
    <3>3. get(appendNumber(name, k), -1) = {d}
      BY <3>2 DEF appendNumber, d
    <3> QED BY <3>1, <3>3
  <2> QED BY <2>1, <2>2, <2>3, <2>4, <2>5
<1> QED BY <1>1, <1>2 DEF UriRoundTrip

\* Names come back from their URIs, numbers from their components.
THEOREM UriRoundTripHolds == NameSpec => []UriRoundTrip
<1>1. NameTypeOK => UriRoundTrip
  BY RoundTripHolds
<1> QED BY <1>1, NameTypeCorrect, PTL

\* For names of one component, compare is the one of the components.
LEMMA CompareOfOne ==
  ASSUME NEW n \in NameSet, NEW m \in NameSet, Len(n) = 1, Len(m) = 1
  PROVE  Compare(n, m) = CompareComponent(n[1], m[1])
<1> DEFINE common == 1..(IF Len(n) < Len(m) THEN Len(n) ELSE Len(m))
           differ == {i \in common : CompareComponent(n[i], m[i]) # 0}
<1>1. common = {1}
  OBVIOUS
<1>2. CASE CompareComponent(n[1], m[1]) # 0
  <2>1. differ = {1}
    BY <1>1, <1>2
  <2>2. Min({1}) = 1
    <3>1. {1} \subseteq Nat /\ {1} # {}
      OBVIOUS
    <3>2. Min({1}) \in {1}
      BY <3>1, MinIsLeast
    <3> QED BY <3>2
  <2>3. Compare(n, m) = CompareComponent(n[Min(differ)], m[Min(differ)])
    BY <2>1 DEF Compare
  <2> HIDE DEF differ
  <2> QED BY <2>1, <2>2, <2>3
<1>3. CASE CompareComponent(n[1], m[1]) = 0
  <2>1. differ = {}
    BY <1>1, <1>3
  <2>2. Compare(n, m) = Sgn(Len(n) - Len(m))
    BY <2>1 DEF Compare
  <2>3. Sgn(Len(n) - Len(m)) = 0
    BY DEF Sgn
  <2> QED BY <1>3, <2>2, <2>3
<1> QED BY <1>2, <1>3

LEMMA OrderHolds ==
  ASSUME NameTypeOK
  PROVE  NameOrder
<1> DEFINE others == PacketNames \cup {append(<<>>, c) : c \in Comps}
<1>0. Seq(NonEmpty) \subseteq NameSet
  BY SeqMonotonic DEF NonEmpty, NameSet
<1>1. name \in NameSet
  BY <1>0 DEF NameTypeOK
<1>2. others \subseteq NameSet
  <2>1. PacketNames \subseteq Seq(NonEmpty) /\ Comps \subseteq Seq(Byte)
    BY NameAssumption DEF NonEmpty
  <2>2. \A c \in Comps : append(<<>>, c) \in Seq(NonEmpty)
    BY <2>1, EmptySeq, AppendType
  <2> QED BY <1>0, <2>1, <2>2
<1>3. ASSUME NEW m \in others
      PROVE  /\ Compare(name, m) = -Compare(m, name)
             /\ (Compare(name, m) = 0) = (name = m)
             /\ \A k \in others :
                  ~Precedes(m, k) /\ ~Precedes(name, m) => ~Precedes(name, k)
             /\ Len(name) = 1 /\ Len(m) = 1 => Precedes(name, m) = Before(name[1], m[1])
  <2>1. m \in NameSet
    BY <1>2
  <2> HIDE DEF others
  <2>2. \A k \in NameSet : /\ Compare(name, m) = -Compare(m, name)
                           /\ (Compare(name, m) = 0) = (name = m)
                           /\ ~Precedes(m, k) /\ ~Precedes(name, m) => ~Precedes(name, k)
    BY <1>1, <2>1, NamesTotallyOrdered DEF NameSet
  <2>3. ASSUME Len(name) = 1, Len(m) = 1 PROVE Precedes(name, m) = Before(name[1], m[1])
    <3>1. Compare(name, m) = CompareComponent(name[1], m[1])
      BY <1>1, <2>1, <2>3, CompareOfOne
    <3> QED BY <3>1 DEF Precedes, Before
  <2> QED BY <1>2, <2>1, <2>2, <2>3
<1> QED BY <1>3 DEF NameOrder

\* compare orders the names of a program totally.
THEOREM NameOrderHolds == NameSpec => []NameOrder
<1>1. NameTypeOK => NameOrder
  BY OrderHolds
<1> QED BY <1>1, NameTypeCorrect, PTL

-----------------------------------------------------------------------------
(* Blocks of the wire format: what is announced, written and read. *)

\* f[k] is how many digits k has.
CountBody(base, f, k) == IF k = 0 THEN 0 ELSE f[k \div base] + 1

LEMMA CountType ==
  ASSUME NEW base \in Bases, NEW f, NEW k \in Nat, \A j \in 0..(k - 1) : f[j] \in Nat
  PROVE  CountBody(base, f, k) \in Nat
<1>1. k # 0 => f[k \div base] \in Nat
  BY Quotient
<1> QED BY <1>1 DEF CountBody

LEMMA DigitCountFcn ==
  ASSUME NEW base \in Bases, NEW n \in Nat
  PROVE  \E f : DigitCount(base, n) = f[n] /\ \A k \in 0..n : f[k] = CountBody(base, f, k)
<1> DEFINE D == 0..n
           F == CHOOSE f : f = [k \in D |-> CountBody(base, f, k)]
           G == [k \in D |-> [f \in [D -> Nat] |-> CountBody(base, f, k)]]
           m == [k \in D |-> k]
<1>0. \A k \in D : k \in Nat /\ \A j \in 0..(k - 1) : j \in D /\ j < k
  OBVIOUS
<1>1. G \in [D -> [[D -> Nat] -> Nat]]
  <2>1. ASSUME NEW k \in D, NEW f \in [D -> Nat] PROVE CountBody(base, f, k) \in Nat
    <3>1. k \in Nat /\ \A j \in 0..(k - 1) : f[j] \in Nat
      BY <1>0
    <3> QED BY <3>1, CountType
  <2> HIDE DEF D
  <2> QED BY <2>1
<1>2. Causal(D, m, Nat, G)
  <2>1. ASSUME NEW d \in D, NEW f \in [D -> Nat], NEW g \in [D -> Nat],
                      \A e \in D : e < d => f[e] = g[e]
               PROVE  CountBody(base, f, d) = CountBody(base, g, d)
    <3>1. d # 0 => d \div base \in D /\ d \div base < d
      BY <1>0, Quotient
    <3> QED BY <2>1, <3>1 DEF CountBody
  <2> HIDE DEF D
  <2> QED BY <2>1 DEF Causal
<1>3. WellFounded(D, Nat, n, m, G)
  <2>1. m \in [D -> 0..n] /\ 0 \in Nat
    BY <1>0
  <2> HIDE DEF G, m, D, F
  <2> QED BY <1>1, <1>2, <2>1 DEF WellFounded
<1>f. PICK f \in [D -> Nat] : \A d \in D : f[d] = G[d][f]
  <2> HIDE DEF G, m, D, F
  <2>1. Solvable(D, Nat, G)
    BY <1>3, Recursion
  <2> QED BY <2>1 DEF Solvable
<1>4. \E h : h = [k \in D |-> CountBody(base, h, k)]
  <2>1. \A d \in D : f[d] = CountBody(base, f, d)
    <3> HIDE DEF D, F
    <3> QED BY <1>f
  <2>2. f = [k \in D |-> CountBody(base, f, k)]
    <3> HIDE DEF D, F
    <3> QED BY <2>1
  <2> QED BY <2>2
<1>5. F = [k \in D |-> CountBody(base, F, k)]
  BY <1>4
<1>6. DigitCount(base, n) = F[n]
  BY DEF DigitCount, CountBody
<1>7. \A k \in D : F[k] = CountBody(base, F, k)
  <2> HIDE DEF F, D
  <2> QED BY <1>5
<1> HIDE DEF F
<1> QED BY <1>6, <1>7

\* The counting loops count the digits that the writing loops write.
LEMMA DigitsCounted ==
  ASSUME NEW base \in Bases, NEW n \in Nat
  PROVE  DigitCount(base, n) = Len(DigitsIn(base, n)) /\ DigitCount(base, n) \in Nat
<1>1. PICK w : DigitsIn(base, n) = w[n] /\ Writes(base, n, w)
  BY DigitsInFcn
<1>2. PICK f : DigitCount(base, n) = f[n] /\ \A k \in 0..n : f[k] = CountBody(base, f, k)
  BY DigitCountFcn
<1> DEFINE S == {k \in 0..n : f[k] = Len(w[k])}
<1>3. ASSUME NEW k \in 0..n, \A j \in 0..(k - 1) : j \in S
      PROVE  k \in S
  <2>1. CASE k = 0
    <3>1. w[k] = <<>> /\ f[k] = 0
      BY <1>1, <1>2, <2>1 DEF DigitsBody, Writes, CountBody
    <3> QED BY <3>1
  <2>2. CASE k # 0
    <3> DEFINE q == k \div base
    <3>1. q \in 0..(k - 1) /\ q \in 0..n /\ k % base \in Digit(base)
      BY <2>2, Quotient
    <3>2. w[k] = Append(w[q], k % base) /\ f[k] = f[q] + 1
      BY <1>1, <1>2, <2>2 DEF DigitsBody, Writes, CountBody
    <3> HIDE DEF q
    <3>3. f[q] = Len(w[q]) /\ w[q] \in Seq(Digit(base))
      BY <1>1, <1>3, <3>1 DEF Writes
    <3>4. Len(w[k]) = Len(w[q]) + 1
      BY <3>1, <3>2, <3>3, AppendProperties
    <3> QED BY <3>2, <3>3, <3>4
  <2> QED BY <2>1, <2>2
<1>4. \A k \in 0..n : k \in S
  <2> HIDE DEF S
  <2> QED BY <1>3, UpInduction
<1>5. f[n] = Len(w[n]) /\ w[n] \in Seq(Digit(base))
  BY <1>1, <1>4 DEF Writes
<1> QED BY <1>1, <1>2, <1>5, LenProperties

\* The groups of seven bits of a header, and its last byte.
Groups(val) == DigitsIn(128, val \div 16)
LastByte(val, tt) == 128 + (val % 16) * 8 + tt

LEMMA HeaderShape ==
  ASSUME NEW val \in Nat, NEW tt \in 0..7
  PROVE  /\ val \div 16 \in Nat
         /\ Groups(val) \in Seq(0..127) /\ Groups(val) \in Seq(Byte) /\ Len(Groups(val)) \in Nat
         /\ NumberIn(128, Groups(val)) = val \div 16
         /\ LastByte(val, tt) \in 128..255
         /\ AppendBlockHeader(val, tt) = Groups(val) \o <<LastByte(val, tt)>>
         /\ AppendBlockHeader(val, tt) \in Seq(Byte)
         /\ Len(AppendBlockHeader(val, tt)) = Len(Groups(val)) + 1
         /\ EstimateBlockHeader(val) = Len(Groups(val)) + 1
<1>1. val \div 16 \in Nat /\ 128 \in Bases /\ Digit(128) = 0..127 /\ 0..127 \subseteq Byte
  BY DEF Bases, Digit, Byte
<1>2. Groups(val) \in Seq(0..127) /\ NumberIn(128, Groups(val)) = val \div 16
  BY <1>1, DigitsAddUp DEF Groups
<1>3. Groups(val) \in Seq(Byte)
  BY <1>1, <1>2, SeqMonotonic
<1>4. LastByte(val, tt) \in 128..255
  BY DEF LastByte
<1>5. AppendBlockHeader(val, tt) = Groups(val) \o <<LastByte(val, tt)>>
  BY DEF AppendBlockHeader, Groups, LastByte
<1>6. EstimateBlockHeader(val) = 1 + Len(Groups(val)) /\ Len(Groups(val)) \in Nat
  BY <1>1, DigitsCounted DEF EstimateBlockHeader, Groups
<1>7. <<LastByte(val, tt)>> \in Seq(Byte) /\ Len(<<LastByte(val, tt)>>) = 1
  BY <1>4 DEF Byte
<1> HIDE DEF Groups, LastByte
<1>8. Groups(val) \o <<LastByte(val, tt)>> \in Seq(Byte)
      /\ Len(Groups(val) \o <<LastByte(val, tt)>>) = Len(Groups(val)) + 1
  BY <1>3, <1>7, ConcatProperties
<1> QED BY <1>1, <1>2, <1>3, <1>4, <1>5, <1>6, <1>8

\* Where the high bit is looked for.
EndBody(b, f, i) == IF i = Len(b) + 1 \/ b[i] >= 128 THEN i ELSE f[i + 1]

\* The stream over b that is read from at on, and its eof flag.
In(b, at, eof) == [b |-> b, at |-> at, eof |-> eof]

LEMMA HeaderEndFcn ==
  ASSUME NEW b \in Seq(Byte), NEW at \in 1..(Len(b) + 1), NEW eof
  PROVE  \E f : /\ HeaderEnd(In(b, at, eof)) = f[at]
                /\ \A i \in at..(Len(b) + 1) : f[i] = EndBody(b, f, i)
<1> DEFINE n == Len(b) + 1
           D == at..n
           F == CHOOSE f : f = [i \in D |-> EndBody(b, f, i)]
           G == [i \in D |-> [f \in [D -> D] |-> EndBody(b, f, i)]]
           m == [i \in D |-> n - i]
<1>0. n \in Nat /\ \A i \in D : i \in Nat /\ n - i \in 0..n /\ (i # n => i + 1 \in D /\ n - (i + 1) < n - i)
  OBVIOUS
<1>1. G \in [D -> [[D -> D] -> D]]
  <2>1. ASSUME NEW i \in D, NEW f \in [D -> D] PROVE EndBody(b, f, i) \in D
    BY <1>0 DEF EndBody
  <2> HIDE DEF D
  <2> QED BY <2>1
<1>2. Causal(D, m, D, G)
  <2>1. ASSUME NEW d \in D, NEW f \in [D -> D], NEW g \in [D -> D],
                      \A e \in D : n - e < n - d => f[e] = g[e]
               PROVE  EndBody(b, f, d) = EndBody(b, g, d)
    <3>1. d # n => f[d + 1] = g[d + 1]
      <4> HIDE DEF D, n
      <4> QED BY <1>0, <2>1
    <3> QED BY <3>1 DEF EndBody
  <2>2. \A e \in D : m[e] = n - e
    OBVIOUS
  <2> HIDE DEF D, n, m
  <2> QED BY <2>1, <2>2 DEF Causal
<1>3. WellFounded(D, D, n, m, G)
  <2>1. m \in [D -> 0..n] /\ at \in D
    BY <1>0
  <2> HIDE DEF G, m, D, F, n
  <2> QED BY <1>0, <1>1, <1>2, <2>1 DEF WellFounded
<1>f. PICK f \in [D -> D] : \A d \in D : f[d] = G[d][f]
  <2> HIDE DEF G, m, D, F
  <2>1. Solvable(D, D, G)
    BY <1>3, Recursion
  <2> QED BY <2>1 DEF Solvable
<1>4. \E h : h = [i \in D |-> EndBody(b, h, i)]
  <2>1. \A d \in D : f[d] = EndBody(b, f, d)
    <3> HIDE DEF D, F
    <3> QED BY <1>f
  <2>2. f = [i \in D |-> EndBody(b, f, i)]
    <3> HIDE DEF D, F
    <3> QED BY <2>1
  <2> QED BY <2>2
<1>5. F = [i \in D |-> EndBody(b, F, i)]
  BY <1>4
<1>6. HeaderEnd(In(b, at, eof)) = F[at]
  <2>1. In(b, at, eof).b = b /\ In(b, at, eof).at = at
    BY DEF In
  <2> HIDE DEF In
  <2> QED BY <2>1 DEF HeaderEnd, EndBody
<1>7. \A i \in D : F[i] = EndBody(b, F, i)
  <2> HIDE DEF F, D
  <2> QED BY <1>5
<1> HIDE DEF F
<1> QED BY <1>6, <1>7

LEMMA Below128 ==
  ASSUME NEW x \in Byte, x < 128
  PROVE  ~(x >= 128)
BY DEF Byte

\* The header ends at the first byte with the high bit.
LEMMA HeaderEndFound ==
  ASSUME NEW b \in Seq(Byte), NEW at \in Nat \ {0}, NEW e \in at..Len(b), NEW eof, b[e] >= 128,
         \A i \in at..(e - 1) : b[i] < 128
  PROVE  HeaderEnd(In(b, at, eof)) = e
<1>0. at \in 1..(Len(b) + 1) /\ Len(b) \in Nat /\ e - at \in Nat /\ e \in Nat
  OBVIOUS
<1>1. PICK f : /\ HeaderEnd(In(b, at, eof)) = f[at]
               /\ \A i \in at..(Len(b) + 1) : f[i] = EndBody(b, f, i)
  BY <1>0, HeaderEndFcn
<1> DEFINE S == {k \in 0..(e - at) : f[e - k] = e}
<1>2. ASSUME NEW k \in 0..(e - at), \A j \in 0..(k - 1) : j \in S
      PROVE  k \in S
  <2>1. e - k \in at..(Len(b) + 1) /\ e - k # Len(b) + 1
    BY <1>0
  <2>2. f[e - k] = EndBody(b, f, e - k)
    BY <1>1, <2>1
  <2>3. CASE k = 0
    <3>1. e - k = e
      BY <1>0, <2>3
    <3> QED BY <2>2, <3>1 DEF EndBody
  <2>4. CASE k # 0
    <3>1. e - k \in at..(e - 1) /\ e - (k - 1) = (e - k) + 1 /\ k - 1 \in 0..(k - 1)
      BY <1>0, <2>4
    <3>2. f[(e - k) + 1] = e
      BY <1>2, <3>1
    <3>3. ~(b[e - k] >= 128)
      <4>1. b[e - k] < 128 /\ b[e - k] \in Byte
        <5>1. e - k \in 1..Len(b)
          BY <1>0, <3>1
        <5> QED BY <3>1, <5>1
      <4> QED BY <4>1, Below128
    <3> QED BY <2>1, <2>2, <3>2, <3>3 DEF EndBody
  <2> QED BY <2>3, <2>4
<1>3. \A k \in 0..(e - at) : k \in S
  <2> HIDE DEF S
  <2> QED BY <1>0, <1>2, UpInduction
<1>4. e - at \in 0..(e - at) /\ e - (e - at) = at
  BY <1>0
<1>5. f[at] = e
  BY <1>3, <1>4
<1> QED BY <1>1, <1>5

LEMMA InMoves ==
  ASSUME NEW b, NEW at, NEW eof, NEW x
  PROVE  [In(b, at, eof) EXCEPT !.at = x] = In(b, x, eof)
BY SMT DEF In

LEMMA InReads ==
  ASSUME NEW b \in Seq(Byte), NEW at \in 1..Len(b), NEW eof, eof = FALSE
  PROVE  PeekU8(In(b, at, eof)) = b[at] /\ ReadU8(In(b, at, eof)) = In(b, at + 1, eof)
<1> DEFINE in == In(b, at, eof)
<1>1. in.b = b /\ in.at = at /\ in.eof = eof
  BY SMT DEF In
<1>2. ~(at > Len(b))
  OBVIOUS
<1>3. [in EXCEPT !.at = at + 1] = In(b, at + 1, eof)
  BY InMoves
<1> HIDE DEF in
<1>4. ~AtEnd(in)
  <2>1. ~in.eof
    BY <1>1, Zenon
  <2>2. ~(in.at > Len(in.b))
    BY <1>1, <1>2, Zenon
  <2> QED BY <2>1, <2>2, Zenon DEF AtEnd
<1>5. PeekU8(in) = in.b[in.at]
  BY <1>4, Zenon DEF PeekU8
<1>6. ReadU8(in) = [in EXCEPT !.at = in.at + 1]
  BY <1>4, Zenon DEF ReadU8
<1>7. ReadU8(in) = In(b, at + 1, eof)
  BY <1>1, <1>3, <1>6, Zenon
<1>8. PeekU8(in) = b[at]
  BY <1>1, <1>5, Zenon
<1> QED BY <1>7, <1>8 DEF in

\* s stands in b at position at.
Holds(b, at, s) ==
  /\ at \in Nat \ {0} /\ at + Len(s) - 1 <= Len(b)
  /\ \A i \in 1..Len(s) : b[at + i - 1] = s[i]

LEMMA HeldPart ==
  ASSUME NEW b \in Seq(Byte), NEW at, NEW s \in Seq(Byte), Holds(b, at, s)
  PROVE  SubSeq(b, at, at + Len(s) - 1) = s
<1>0. at \in Nat /\ at # 0 /\ Len(s) \in Nat /\ Len(b) \in Nat /\ at + Len(s) - 1 <= Len(b)
  BY DEF Holds
<1> DEFINE t == SubSeq(b, at, at + Len(s) - 1)
<1>1. t \in Seq(Byte) /\ Len(t) = Len(s) /\ \A i \in 1..Len(s) : t[i] = b[at + i - 1]
  <2>1. \A i \in at..(at + Len(s) - 1) : b[i] \in Byte
    BY <1>0
  <2> QED BY <1>0, <2>1, SubSeqProperties
<1> HIDE DEF t
<1>2. \A i \in 1..Len(s) : t[i] = s[i]
  BY <1>1 DEF Holds
<1>3. t = s
  BY <1>1, <1>2, SeqEqual
<1> QED BY <1>3 DEF t

LEMMA HeldConcat ==
  ASSUME NEW b \in Seq(Byte), NEW at, NEW s \in Seq(Byte), NEW t \in Seq(Byte), Holds(b, at, s \o t)
  PROVE  Holds(b, at, s) /\ Holds(b, at + Len(s), t)
<1>0. at \in Nat /\ at # 0 /\ Len(s) \in Nat /\ Len(t) \in Nat /\ Len(b) \in Nat
  BY DEF Holds
<1>1. /\ Len(s \o t) = Len(s) + Len(t)
      /\ \A i \in 1..Len(s) : (s \o t)[i] = s[i]
      /\ \A i \in 1..Len(t) : (s \o t)[Len(s) + i] = t[i]
  OBVIOUS
<1> DEFINE u == s \o t
<1>2. at + Len(u) - 1 <= Len(b) /\ \A i \in 1..Len(u) : b[at + i - 1] = u[i]
  BY DEF Holds
<1> HIDE DEF u
<1>3. Len(u) = Len(s) + Len(t) /\ (\A i \in 1..Len(s) : u[i] = s[i]) /\ (\A i \in 1..Len(t) : u[Len(s) + i] = t[i])
  BY <1>1 DEF u
<1>4. Holds(b, at, s)
  <2>1. \A i \in 1..Len(s) : i \in 1..Len(u)
    BY <1>0, <1>3
  <2>2. \A i \in 1..Len(s) : b[at + i - 1] = s[i]
    BY <1>2, <1>3, <2>1
  <2> QED BY <1>0, <1>2, <1>3, <2>2 DEF Holds
<1>5. Holds(b, at + Len(s), t)
  <2>1. \A i \in 1..Len(t) : Len(s) + i \in 1..Len(u) /\ at + (Len(s) + i) - 1 = (at + Len(s)) + i - 1
    BY <1>0, <1>3
  <2>2. \A i \in 1..Len(t) : b[(at + Len(s)) + i - 1] = t[i]
    BY <1>2, <1>3, <2>1
  <2> QED BY <1>0, <1>2, <1>3, <2>2 DEF Holds
<1> QED BY <1>4, <1>5

LEMMA Sixteenths ==
  ASSUME NEW val \in Nat
  PROVE  val % 16 \in 0..15 /\ (val \div 16) * 16 + (val % 16) = val
OBVIOUS

\* The header of val and tt is read back.
HeaderRead(b, at, eof, val, tt) ==
  LET h == Header(In(b, at, eof))
  IN /\ HeaderValue(h) = val /\ HeaderType(h) = tt
     /\ h.in = In(b, at + Len(AppendBlockHeader(val, tt)), eof)

LEMMA HeaderIsRead ==
  ASSUME NEW b \in Seq(Byte), NEW at, NEW val \in Nat, NEW tt \in 0..7, NEW eof, eof = FALSE,
         Holds(b, at, AppendBlockHeader(val, tt))
  PROVE  HeaderRead(b, at, eof, val, tt)
<1> DEFINE g == Groups(val)
           l == LastByte(val, tt)
           e == at + Len(g)
<1>1. /\ val \div 16 \in Nat
      /\ g \in Seq(0..127) /\ g \in Seq(Byte) /\ Len(g) \in Nat
      /\ NumberIn(128, g) = val \div 16
      /\ l \in 128..255
      /\ AppendBlockHeader(val, tt) = g \o <<l>>
      /\ Len(AppendBlockHeader(val, tt)) = Len(g) + 1
  BY HeaderShape
<1>l. l = 128 + (val % 16) * 8 + tt
  BY DEF LastByte
<1> HIDE DEF g, l
<1>2. <<l>> \in Seq(Byte) /\ Len(<<l>>) = 1 /\ <<l>>[1] = l
  BY <1>1 DEF Byte
<1>3. Holds(b, at, g) /\ Holds(b, e, <<l>>)
  BY <1>1, <1>2, HeldConcat
<1>4. at \in Nat \ {0} /\ e \in at..Len(b) /\ b[e] = l /\ e + 1 - 1 = e /\ e \in Nat /\ Len(b) \in Nat
  <2>1. at \in Nat \ {0} /\ e \in Nat \ {0} /\ e + 1 - 1 <= Len(b) /\ b[e + 1 - 1] = l /\ Len(b) \in Nat
    BY <1>2, <1>3 DEF Holds
  <2>2. e + 1 - 1 = e
    BY <2>1
  <2> QED BY <1>1, <2>1, <2>2
<1>5. \A i \in at..(e - 1) : b[i] < 128
  <2> SUFFICES ASSUME NEW i \in at..(e - 1) PROVE b[i] < 128
    OBVIOUS
  <2> DEFINE j == i - at + 1
  <2>1. j \in 1..Len(g) /\ at + j - 1 = i
    BY <1>1, <1>4
  <2> HIDE DEF j
  <2>2. b[i] = g[j]
    BY <1>3, <2>1 DEF Holds
  <2>3. g[j] \in 0..127
    BY <1>1, <2>1, ElementOfSeq
  <2>4. \A x \in 0..127 : x < 128
    OBVIOUS
  <2> QED BY <2>2, <2>3, <2>4
<1>7. SubSeq(b, at, e - 1) = g
  <2>1. SubSeq(b, at, at + Len(g) - 1) = g
    BY <1>1, <1>3, HeldPart
  <2>2. e - 1 = at + Len(g) - 1
    BY <1>1, <1>4
  <2> QED BY <2>1, <2>2
<1> HIDE DEF e
<1>6. HeaderEnd(In(b, at, eof)) = e
  <2>1. b[e] >= 128
    BY <1>1, <1>4
  <2> QED BY <1>4, <1>5, <2>1, HeaderEndFound
<1> DEFINE in == In(b, at, eof)
<1>8. in.b = b /\ in.at = at /\ in.eof = eof /\ In(b, e, eof).at = e
  BY DEF In
<1>9. PeekU8(In(b, e, eof)) = l /\ ReadU8(In(b, e, eof)) = In(b, e + 1, eof)
  <2>1. e \in 1..Len(b)
    BY <1>4
  <2> QED BY <1>4, <2>1, InReads
<1>10. Header(in) = [value |-> val \div 16, byte |-> l, in |-> In(b, e + 1, eof)]
  <2>1. [in EXCEPT !.at = HeaderEnd(in)] = In(b, e, eof)
    BY <1>6, InMoves, SMT
  <2> HIDE DEF in
  <2>2. SubSeq(in.b, in.at, In(b, e, eof).at - 1) = g
    BY <1>7, <1>8
  <2>3. Header(in) = [value |-> NumberIn(128, SubSeq(in.b, in.at, In(b, e, eof).at - 1)),
                      byte |-> PeekU8(In(b, e, eof)), in |-> ReadU8(In(b, e, eof))]
    <3>1. ~in.eof
      BY <1>8, Zenon
    <3> QED BY <2>1, <3>1, Zenon DEF Header
  <2> QED BY <1>1, <1>9, <2>2, <2>3
<1>11. (val \div 16) * 16 + (l % 128) \div 8 = val /\ l % 8 = tt
  <2>1. val % 16 \in 0..15 /\ (val \div 16) * 16 + (val % 16) = val
    BY <1>1, Sixteenths
  <2> DEFINE r == val % 16
  <2>2. l = 128 + r * 8 + tt /\ r \in 0..15
    BY <1>l, <2>1
  <2> HIDE DEF r
  <2>3. (l % 128) \div 8 = r /\ l % 8 = tt
    BY <2>2
  <2> QED BY <2>1, <2>3 DEF r
<1>12. e + 1 = at + Len(AppendBlockHeader(val, tt))
  BY <1>1, <1>4 DEF e
<1> HIDE DEF in
<1> DEFINE h == Header(in)
<1>13. h.value = val \div 16 /\ h.byte = l /\ h.in = In(b, e + 1, eof)
  BY <1>10
<1> HIDE DEF h
<1>14. HeaderValue(h) = val /\ HeaderType(h) = tt
  BY <1>11, <1>13, Zenon DEF HeaderValue, HeaderType
<1> QED BY <1>12, <1>13, <1>14, Zenon DEF HeaderRead, h, in

\* Wherever the header of a block stands in a stream, the parser reads from it the
\* number and the type that AppendBlockHeader was given, and stops right behind it.
THEOREM HeadersComeBack ==
  ASSUME NEW b \in Seq(Byte), NEW at, NEW val \in Nat, NEW tt \in 0..7, NEW eof, eof = FALSE,
         Holds(b, at, AppendBlockHeader(val, tt))
  PROVE  /\ HeaderValue(Header(In(b, at, eof))) = val
         /\ HeaderType(Header(In(b, at, eof))) = tt
         /\ Header(In(b, at, eof)).in = In(b, at + Len(AppendBlockHeader(val, tt)), eof)
<1>1. HeaderRead(b, at, eof, val, tt)
  BY HeaderIsRead
<1> QED BY <1>1, Zenon DEF HeaderRead

\* What Take returns is known.
Taken(b, at, s, eof) == {[bytes |-> s, in |-> In(b, at + Len(s), eof)]}

LEMMA HeldIsTaken ==
  ASSUME NEW b \in Seq(Byte), NEW at, NEW s \in Seq(Byte), NEW eof, eof = FALSE, Holds(b, at, s)
  PROVE  Take(In(b, at, eof), Len(s)) = Taken(b, at, s, eof)
<1> DEFINE in == In(b, at, eof)
<1>0. at \in Nat /\ at # 0 /\ Len(s) \in Nat /\ Len(b) \in Nat /\ at + Len(s) - 1 <= Len(b)
  BY DEF Holds
<1>1. in.b = b /\ in.at = at /\ in.eof = eof
  BY SMT DEF In
<1>2. [in EXCEPT !.at = at + Len(s)] = In(b, at + Len(s), eof)
  BY InMoves
<1>3. ~(Len(s) > Len(b) + 1 - at) /\ ~(Len(s) > (Len(b) + 1 - at) + 1) /\ at + 0 = at
  BY <1>0
<1> HIDE DEF in
<1>4. ~in.eof /\ ~(Len(s) > Len(in.b) + 1 - in.at) /\ ~(Len(s) > (Len(in.b) + 1 - in.at) + 1)
  BY <1>1, <1>3, Zenon
<1>5. CASE Len(s) = 0
  <2>1. s = <<>> /\ In(b, at + Len(s), eof) = in
    BY <1>3, <1>5 DEF in
  <2>2. Take(in, Len(s)) = {[bytes |-> <<>>, in |-> in]}
    BY <1>5, Zenon DEF Take
  <2> QED BY <2>1, <2>2, Zenon DEF Taken, in
<1>6. CASE Len(s) # 0
  <2>1. Take(in, Len(s)) = {[bytes |-> SubSeq(in.b, in.at, in.at + Len(s) - 1),
                             in |-> [in EXCEPT !.at = in.at + Len(s)]]}
    BY <1>4, <1>6, Zenon DEF Take
  <2>2. SubSeq(b, at, at + Len(s) - 1) = s
    BY HeldPart
  <2>3. Take(in, Len(s)) = {[bytes |-> s, in |-> In(b, at + Len(s), eof)]}
    BY <1>1, <1>2, <2>1, <2>2, Zenon
  <2> QED BY <2>3 DEF Taken, in
<1> QED BY <1>5, <1>6

\* The header of s and s itself stand in b at position at.
HoldsBlock(b, at, s, tt) == Holds(b, at, AppendBlockHeader(Len(s), tt) \o s)
Behind(at, s, tt) == at + Len(AppendBlockHeader(Len(s), tt)) + Len(s)

\* The block of s and tt is read back.
BlockRead(b, at, eof, s, tt) ==
  LET h == Header(In(b, at, eof))
  IN /\ HeaderType(h) = tt
     /\ Take(h.in, HeaderValue(h)) = {[bytes |-> s, in |-> In(b, Behind(at, s, tt), eof)]}

LEMMA BlockIsTaken ==
  ASSUME NEW b \in Seq(Byte), NEW at, NEW s \in Seq(Byte), NEW tt \in 0..7, NEW eof, eof = FALSE,
         HoldsBlock(b, at, s, tt)
  PROVE  BlockRead(b, at, eof, s, tt)
<1> DEFINE h == AppendBlockHeader(Len(s), tt)
           hd == Header(In(b, at, eof))
<1>0. Len(s) \in Nat
  OBVIOUS
<1>1. h \in Seq(Byte)
  BY <1>0, HeaderShape
<1>2. Holds(b, at, h) /\ Holds(b, at + Len(h), s)
  <2> HIDE DEF h
  <2>1. Holds(b, at, h \o s)
    BY DEF HoldsBlock, h
  <2> QED BY <1>1, <2>1, HeldConcat
<1>3. HeaderValue(hd) = Len(s) /\ HeaderType(hd) = tt /\ hd.in = In(b, at + Len(h), eof)
  <2>1. HeaderRead(b, at, eof, Len(s), tt)
    BY <1>0, <1>2, HeaderIsRead
  <2> QED BY <2>1, Zenon DEF HeaderRead
<1> HIDE DEF h, hd
<1>4. Take(In(b, at + Len(h), eof), Len(s)) = Taken(b, at + Len(h), s, eof)
  BY <1>2, HeldIsTaken
<1>5. Taken(b, at + Len(h), s, eof) = {[bytes |-> s, in |-> In(b, Behind(at, s, tt), eof)]}
  BY Zenon DEF Taken, Behind, h
<1> QED BY <1>3, <1>4, <1>5, Zenon DEF hd, BlockRead

\* Wherever a blob stands in a stream, whatever follows it, the parser gives back
\* exactly the bytes that AppendBlob was given, and stops right behind them.
THEOREM BlobsComeBack ==
  ASSUME NEW b \in Seq(Byte), NEW at, NEW data \in Seq(Byte), NEW eof, eof = FALSE,
         Holds(b, at, AppendBlob(data))
  PROVE  LET h == Header(In(b, at, eof))
         IN /\ HeaderType(h) = BLOB
            /\ ParseBlob(h.in, HeaderValue(h))
                 = {Parsed(BlobBlock(data), In(b, Behind(at, data, BLOB), eof))}
<1> DEFINE h == Header(In(b, at, eof))
           t == [bytes |-> data, in |-> In(b, Behind(at, data, BLOB), eof)]
<1>1. BLOB \in 0..7 /\ HoldsBlock(b, at, data, BLOB)
  BY DEF BLOB, HoldsBlock, AppendBlob
<1>2. HeaderType(h) = BLOB /\ Take(h.in, HeaderValue(h)) = {t}
  <2>1. BlockRead(b, at, eof, data, BLOB)
    BY <1>1, BlockIsTaken
  <2> QED BY <2>1, Zenon DEF BlockRead
<1>3. t.bytes = data /\ t.in = In(b, Behind(at, data, BLOB), eof)
  OBVIOUS
<1> HIDE DEF h, t
<1>4. ParseBlob(h.in, HeaderValue(h)) = {Parsed(BlobBlock(t.bytes), t.in)}
  <2>1. ParseBlob(h.in, HeaderValue(h)) = {Parsed(BlobBlock(x.bytes), x.in) : x \in {t}}
    BY <1>2, Zenon DEF ParseBlob
  <2> QED BY <2>1, Zenon
<1> QED BY <1>2, <1>3, <1>4, Zenon DEF h

\* The text of a number is read back as that number.
LEMMA DecimalsComeBack ==
  ASSUME NEW n \in Nat
  PROVE  Decimal(n) \in Seq(Byte) /\ FromDecimal(Decimal(n)) = n
<1>0. 10 \in Bases /\ Digit(10) = 0..9
  BY DEF Bases, Digit
<1>1. CASE n = 0
  <2>1. Decimal(n) = <<48>>
    BY <1>1 DEF Decimal
  <2> DEFINE s == <<48>>
             t == [i \in 1..Len(s) |-> s[i] - 48]
  <2>2. s \in Seq(Byte) /\ Len(s) = 1 /\ s[1] = 48
    BY DEF Byte
  <2> HIDE DEF s
  <2>3. t = Append(<<>>, 0)
    BY <2>2
  <2>4. NumberIn(10, Append(<<>>, 0)) = NumberIn(10, <<>>) * 10 + 0
    <3>1. <<>> \in Seq(Nat) /\ 0 \in Nat
      OBVIOUS
    <3> QED BY <1>0, <3>1, NumberOfAppend
  <2>5. NumberIn(10, <<>>) = 0
    BY <1>0, NumberOfNothing
  <2>6. FromDecimal(s) = NumberIn(10, t)
    BY DEF FromDecimal
  <2> HIDE DEF t
  <2>7. FromDecimal(s) = 0
    BY <2>3, <2>4, <2>5, <2>6
  <2> QED BY <1>1, <2>1, <2>2, <2>7 DEF s
<1>2. CASE n # 0
  <2> DEFINE d == DigitsIn(10, n)
             s == [i \in 1..Len(d) |-> 48 + d[i]]
             t == [i \in 1..Len(s) |-> s[i] - 48]
  <2>1. d \in Seq(0..9) /\ NumberIn(10, d) = n
    BY <1>0, DigitsAddUp
  <2>2. Decimal(n) = s
    BY <1>2 DEF Decimal
  <2> HIDE DEF d
  <2>3. \A i \in 1..Len(d) : d[i] \in 0..9 /\ 48 + d[i] \in Byte /\ (48 + d[i]) - 48 = d[i]
    <3>1. \A x \in 0..9 : 48 + x \in Byte /\ (48 + x) - 48 = x
      BY DEF Byte
    <3>2. \A i \in 1..Len(d) : d[i] \in 0..9
      BY <2>1, ElementOfSeq
    <3> QED BY <3>1, <3>2
  <2>4. Len(d) \in Nat
    BY <2>1, LenProperties
  <2>5. s \in [1..Len(d) -> Byte]
    BY <2>3
  <2>6. s \in Seq(Byte) /\ Len(s) = Len(d)
    BY <2>4, <2>5
  <2>7. \A i \in 1..Len(d) : s[i] = 48 + d[i]
    OBVIOUS
  <2> HIDE DEF s
  <2>8. t = [i \in 1..Len(d) |-> d[i]]
    BY <2>3, <2>6, <2>7
  <2>9. d = [i \in 1..Len(d) |-> d[i]]
    BY <2>1
  <2>10. FromDecimal(s) = NumberIn(10, t)
    BY DEF FromDecimal
  <2> HIDE DEF t
  <2> QED BY <2>1, <2>2, <2>6, <2>8, <2>9, <2>10
<1> QED BY <1>1, <1>2

\* A number written as text between others is parsed as a UDATA block whose digits
\* stand for that number, and the parser stops right behind it.
THEOREM WrittenNumbersComeBack ==
  ASSUME NEW b \in Seq(Byte), NEW at, NEW n \in Nat, NEW eof, eof = FALSE,
         Holds(b, at, AppendNumber(n))
  PROVE  LET h == Header(In(b, at, eof))
         IN /\ HeaderType(h) = UDATA
            /\ \E digits : /\ FromDecimal(digits) = n
                           /\ ParseUdata(h.in, HeaderValue(h))
                                = {Parsed(UdataBlock(digits), In(b, Behind(at, digits, UDATA), eof))}
<1> DEFINE h == Header(In(b, at, eof))
           s == Decimal(n)
           t == [bytes |-> s, in |-> In(b, Behind(at, s, UDATA), eof)]
<1>1. s \in Seq(Byte) /\ FromDecimal(s) = n
  BY DecimalsComeBack
<1>2. UDATA \in 0..7 /\ HoldsBlock(b, at, s, UDATA)
  BY DEF UDATA, HoldsBlock, AppendNumber
<1> HIDE DEF s
<1>3. HeaderType(h) = UDATA /\ Take(h.in, HeaderValue(h)) = {t}
  <2>1. BlockRead(b, at, eof, s, UDATA)
    BY <1>1, <1>2, BlockIsTaken
  <2> QED BY <2>1, Zenon DEF BlockRead
<1>4. t.bytes = s /\ t.in = In(b, Behind(at, s, UDATA), eof)
  OBVIOUS
<1> HIDE DEF h, t
<1>5. ParseUdata(h.in, HeaderValue(h)) = {Parsed(UdataBlock(t.bytes), t.in)}
  <2>1. ParseUdata(h.in, HeaderValue(h)) = {Parsed(UdataBlock(x.bytes), x.in) : x \in {t}}
    BY <1>3, Zenon DEF ParseUdata
  <2> QED BY <2>1, Zenon
<1>6. ParseUdata(h.in, HeaderValue(h)) = {Parsed(UdataBlock(s), In(b, Behind(at, s, UDATA), eof))}
  BY <1>4, <1>5, Zenon
<1> QED BY <1>1, <1>3, <1>6, Zenon DEF h

\* A whole second in 4096ths, what the visitor reads as a fraction, and what it
\* makes of it in microseconds.
Full == 4096
Fractions == -128..4095
Micros == -31..999

\* How many 4096ths of a second there are.
LEMMA FractionRange ==
  ASSUME NEW us \in Nat, us < 1000000
  PROVE  Fraction(us) \in Nat /\ Fraction(us) <= Full
<1> DEFINE x == us * 1600 + 195312
<1>1. x \in Nat /\ x < 4097 * 390625
  BY SMT
<1> HIDE DEF x
<1>2. x \div 390625 \in Nat /\ x \div 390625 < 4097
  BY <1>1, SMT
<1>3. \A y \in Nat : y < 4097 => y <= 4096
  BY SMT
<1> QED BY <1>2, <1>3, SMT DEF Fraction, x, Full

\* The bytes a and z, taken apart, are the low bits r of the seconds and f 4096ths.
Apart(r, f, a, z) ==
  /\ a \in 0..255 /\ z \in 0..255
  /\ f < Full => a \div 16 = r /\ (a % 16) * 256 + z = f
  /\ f = Full => a \div 16 = r + 1 /\ a % 16 = 0 /\ z = 0
Low(r, f) == (r * 4096 + f) % 65536

LEMMA LowBytes ==
  ASSUME NEW r \in 0..15, NEW f \in Nat
  PROVE  Low(r, f) \div 256 \in 0..255 /\ Low(r, f) % 256 \in 0..255
<1>1. Low(r, f) \in Nat /\ Low(r, f) < 65536
  BY SMT DEF Low
<1> DEFINE low == Low(r, f)
<1> HIDE DEF low
<1>2. low \in Nat /\ low < 65536
  BY <1>1, SMT DEF low
<1>3. low \div 256 \in 0..255 /\ low % 256 \in 0..255
  BY <1>2, SMT
<1> QED BY <1>3, SMT DEF low

\* The two bytes that end a timestamp, taken apart again.
LEMMA LowBits ==
  ASSUME NEW r \in 0..15, NEW f \in Nat, f <= Full, r # 15 \/ f < Full
  PROVE  Apart(r, f, Low(r, f) \div 256, Low(r, f) % 256)
<1> USE DEF Full
<1> DEFINE low == (r * 4096 + f) % 65536
<1>1. low = r * 4096 + f /\ low \in Nat /\ low < 65536
  <2> DEFINE x == r * 4096 + f
  <2>1. x \in Nat /\ x < 65536
    <3>1. CASE r = 15
      BY <3>1, SMT
    <3>2. CASE r \in 0..14
      BY <3>2, SMT
    <3> QED BY <3>1, <3>2, SMT
  <2> HIDE DEF x
  <2>2. x % 65536 = x
    BY <2>1, SMT
  <2> QED BY <2>1, <2>2, SMT DEF x, low
<1> HIDE DEF low
<1>2. low \div 256 \in 0..255 /\ low % 256 \in 0..255
  BY <1>1, SMT
<1>3. f < 4096 => (low \div 256) \div 16 = r
  BY <1>1, SMT
<1>4. f < 4096 => ((low \div 256) % 16) * 256 + (low % 256) = f
  <2> DEFINE a == low \div 256
             z == low % 256
  <2>1. low = a * 256 + z /\ a \in 0..255 /\ z \in 0..255
    BY <1>1, SMT
  <2>2. f < 4096 => a \div 16 = r
    BY <1>3, SMT
  <2> HIDE DEF a, z
  <2>3. a = (a \div 16) * 16 + (a % 16) /\ a % 16 \in 0..15
    BY <2>1, SMT
  <2> DEFINE m == a % 16
  <2>4. f < 4096 => a = r * 16 + m
    BY <2>2, <2>3, SMT
  <2>5. m \in 0..15
    BY <2>3, SMT
  <2> HIDE DEF m
  <2>6. f < 4096 => m * 256 + z = f
    BY <1>1, <2>1, <2>4, <2>5, SMT
  <2> QED BY <2>6, SMT DEF a, z, m
<1>5. f = 4096 => (low \div 256) \div 16 = r + 1 /\ (low \div 256) % 16 = 0 /\ low % 256 = 0
  <2> SUFFICES ASSUME f = 4096
               PROVE  (low \div 256) \div 16 = r + 1 /\ (low \div 256) % 16 = 0 /\ low % 256 = 0
    BY SMT
  <2> DEFINE c == (r + 1) * 16
  <2>1. low = c * 256 /\ c \in Nat
    BY <1>1, SMT
  <2>2. c \div 16 = r + 1 /\ c % 16 = 0
    BY SMT
  <2> HIDE DEF c
  <2>3. (c * 256) \div 256 = c /\ (c * 256) % 256 = 0
    BY <2>1, SMT
  <2> QED BY <2>1, <2>2, <2>3, SMT
<1>6. Low(r, f) = low
  BY SMT DEF low, Low
<1> QED BY <1>2, <1>3, <1>4, <1>5, <1>6, SMT DEF Apart

\* What the visitor makes of the last two bytes a and z, after the seconds sec.
FractionRead(a, z) == IF z < 128 THEN (a % 16) * 256 + z ELSE z - 256
Scaled(frac) ==
  IF frac >= 0 THEN ((frac * 15625) \div 64) \div 1000
  ELSE - (((-frac * 15625) \div 64) \div 1000)
Instant(sec, us) == IF us >= 0 THEN [s |-> sec, us |-> us] ELSE [s |-> sec - 1, us |-> 1000000 + us]

LEMMA ScaledSmall ==
  ASSUME NEW frac \in Fractions
  PROVE  Scaled(frac) \in Micros
<1> USE DEF Fractions, Micros
<1>1. frac >= 0 => ((frac * 15625) \div 64) \div 1000 \in 0..999
  BY SMT
<1>2. CASE ~(frac >= 0)
  <2> DEFINE p == -frac
  <2>0. frac \in Int /\ frac < 0 /\ frac >= -128
    BY <1>2, SMT
  <2>1. p \in 1..128
    BY <2>0, SMT
  <2> HIDE DEF p
  <2>2. ((p * 15625) \div 64) \div 1000 \in 0..31
    BY <2>1, SMT
  <2>3. \A x \in 0..31 : -x \in -31..999
    BY SMT
  <2>4. Scaled(frac) = -(((p * 15625) \div 64) \div 1000)
    BY <1>2, SMT DEF Scaled, p
  <2> QED BY <2>2, <2>3, <2>4, SMT
<1>3. CASE frac >= 0
  <2>1. \A x \in 0..999 : x \in -31..999
    BY SMT
  <2> QED BY <1>1, <1>3, <2>1, SMT DEF Scaled
<1> QED BY <1>2, <1>3, SMT

\* got is sec, up to what the decoder loses.
Near(sec, got) ==
  \/ got.s = sec /\ got.us < 1000
  \/ got.s = sec - 1 /\ got.us >= 1000000 - 31

LEMMA InstantNear ==
  ASSUME NEW sec \in Int, NEW us \in Micros
  PROVE  Near(sec, Instant(sec, us))
<1> USE DEF Micros
<1>1. CASE us >= 0
  BY <1>1, SMT DEF Instant, Near
<1>2. CASE ~(us >= 0)
  BY <1>2, SMT DEF Instant, Near
<1> QED BY <1>1, <1>2

\* The times that the five bytes for the seconds of a timestamp are enough for.
Writable(t) ==
  /\ t.s \in Nat /\ DigitCount(256, t.s \div 16) <= 5
  /\ t.us \in Nat /\ t.us < 1000000

\* The bytes of a time whose seconds fit: its seconds above the low four bits, and
\* two bytes.
LEMMA TimestampShape ==
  ASSUME NEW t, Writable(t)
  PROVE  /\ TimestampBytes(t) = fromNumber(t.s \div 16) \o <<Low(t.s % 16, Fraction(t.us)) \div 256,
                                                              Low(t.s % 16, Fraction(t.us)) % 256>>
         /\ RequiredBytes(t.s \div 16) = Len(fromNumber(t.s \div 16)) + 2
<1>0. t.s \in Nat /\ DigitCount(256, t.s \div 16) <= 5
  BY SMT DEF Writable
<1> DEFINE high == t.s \div 16
           all  == DigitsIn(256, high)
           c    == DigitCount(256, high)
<1>1. high \in Nat /\ 256 \in Bases
  BY <1>0, SMT DEF Bases
<1>2. c = Len(all) /\ c \in Nat /\ all \in Seq(Digit(256))
  <2> HIDE DEF high
  <2> QED BY <1>1, DigitsCounted, DigitsAddUp
<1>3. c <= 5
  BY <1>0
<1> HIDE DEF c
<1>4. Min({7, 2 + c}) = 2 + c
  <2>1. 2 + c <= 7 /\ 2 + c <= 2 + c /\ (7 <= 2 + c => 2 + c = 7)
    BY <1>2, <1>3, SMT
  <2>2. \A x \in {7, 2 + c} : (\A y \in {7, 2 + c} : x <= y) <=> x = 2 + c
    BY <2>1
  <2> QED BY <2>2 DEF Min
<1>5. RequiredBytes(high) - 2 = c
  BY <1>2, <1>4, SMT DEF RequiredBytes, c
<1>6. SubSeq(all, Len(all) - c + 1, Len(all)) = all
  <2> HIDE DEF all
  <2>1. Len(all) - c + 1 = 1
    BY <1>2
  <2> QED BY <1>2, <2>1, SubSeqFull
<1> DEFINE low  == Low(t.s % 16, Fraction(t.us))
           kept == RequiredBytes(high) - 2
           tail == <<low \div 256, low % 256>>
<1>7. TimestampBytes(t) = SubSeq(all, Len(all) - kept + 1, Len(all)) \o tail
  BY SMT DEF TimestampBytes, Low
<1> HIDE DEF kept, tail
<1>8. TimestampBytes(t) = all \o tail
  BY <1>5, <1>6, <1>7 DEF kept
<1>9. RequiredBytes(high) = Len(all) + 2
  BY <1>2, <1>4, SMT DEF RequiredBytes, c
<1> QED BY <1>8, <1>9 DEF fromNumber, tail


\* The visitor of a timestamp that ends in a and z.
LEMMA TimestampRead ==
  ASSUME NEW high \in Seq(Byte), NEW a \in 0..255, NEW z \in 0..255
  PROVE  TimestampVisitor(high \o <<a, z>>)
           = {Instant(HighInInt(toNumber(high)) * 16 + (a \div 16), Scaled(FractionRead(a, z)))}
<1> DEFINE e == <<a, z>>
           b == high \o e
           n == Len(b)
<1>1. e \in Seq(Byte) /\ Len(e) = 2 /\ e[1] = a /\ e[2] = z
  BY DEF Byte
<1> HIDE DEF e
<1>2. /\ b \in Seq(Byte) /\ n = Len(high) + 2 /\ Len(high) \in Nat
      /\ \A i \in 1..Len(high) : b[i] = high[i]
      /\ b[Len(high) + 1] = e[1] /\ b[Len(high) + 2] = e[2]
  <2>1. b \in Seq(Byte) /\ n = Len(high) + 2 /\ Len(high) \in Nat
    <3>1. b \in Seq(Byte) /\ n = Len(high) + Len(e)
      BY <1>1, ConcatProperties
    <3> HIDE DEF b
    <3> QED BY <1>1, <3>1
  <2>2. \A i \in 1..Len(high) : b[i] = high[i]
    BY <1>1
  <2>3. \A i \in 1..Len(e) : b[Len(high) + i] = e[i]
    OBVIOUS
  <2> HIDE DEF b
  <2> QED BY <1>1, <2>1, <2>2, <2>3
<1> HIDE DEF b
<1>3. n - 2 = Len(high) /\ n - 1 = Len(high) + 1 /\ ~(n < 2)
  BY <1>2
<1>4. SubSeq(b, 1, n - 2) = high
  <2>1. Holds(b, 1, high)
    <3>1. \A i \in 1..Len(high) : 1 + i - 1 = i
      BY <1>2
    <3>2. \A i \in 1..Len(high) : b[1 + i - 1] = high[i]
      BY <1>2, <3>1
    <3>3. 1 + Len(high) - 1 <= Len(b)
      BY <1>2
    <3> QED BY <3>2, <3>3 DEF Holds
  <2>2. SubSeq(b, 1, 1 + Len(high) - 1) = high
    BY <1>2, <2>1, HeldPart
  <2>3. 1 + Len(high) - 1 = n - 2
    BY <1>2, <1>3
  <2> QED BY <2>2, <2>3
<1>5. b[n - 1] = a /\ b[n] = z
  BY <1>1, <1>2, <1>3
<1> DEFINE sec  == HighInInt(toNumber(SubSeq(b, 1, n - 2))) * 16 + (b[n - 1] \div 16)
           us   == Scaled(FractionRead(b[n - 1], b[n]))
<1>6. TimestampVisitor(b) = {Instant(sec, us)}
  <2> HIDE DEF n
  <2> QED BY <1>3, SMT DEF TimestampVisitor, Instant, Scaled, FractionRead, n
<1>7. sec = HighInInt(toNumber(high)) * 16 + (a \div 16) /\ us = Scaled(FractionRead(a, z))
  BY <1>4, <1>5
<1> HIDE DEF sec, us
<1> QED BY <1>6, <1>7 DEF b, e

\* The bytes of q and the low bits give the seconds back.
Back(q, r, f) ==
  \E got : /\ TimestampVisitor(fromNumber(q) \o <<Low(r, f) \div 256, Low(r, f) % 256>>) = {got}
           /\ Near(IF f = Full THEN q * 16 + r + 1 ELSE q * 16 + r, got)

\* An int holds the seconds of the times before 2^31.
LEMMA IntHolds ==
  ASSUME NEW q \in Nat, q < IntHigh
  PROVE  HighInInt(q) = q
<1>1. IntHigh \in Nat
  BY SMT DEF IntHigh
<1>2. (q + IntHigh) % (2 * IntHigh) = q + IntHigh
  BY SMT DEF IntHigh
<1> HIDE DEF IntHigh
<1> QED BY <1>1, <1>2, SMT DEF HighInInt

LEMMA SecondsComeBack ==
  ASSUME NEW q \in Nat, q < IntHigh, NEW r \in 0..15, NEW f \in Nat, f <= Full, r # 15 \/ f < Full
  PROVE  Back(q, r, f)
<1> DEFINE high == fromNumber(q)
           a    == Low(r, f) \div 256
           z == Low(r, f) % 256
           frac == FractionRead(a, z)
           sec  == HighInInt(toNumber(high)) * 16 + (a \div 16)
           got  == Instant(sec, Scaled(frac))
<1>1. high \in Seq(Byte) /\ HighInInt(toNumber(high)) = q
  BY NumbersComeBack, IntHolds
<1>2. Apart(r, f, a, z)
  BY LowBits
<1>3. a \in 0..255 /\ z \in 0..255
  BY <1>2, Zenon DEF Apart
<1> HIDE DEF a, z, high
<1>4. frac \in Fractions
  <2>1. CASE z < 128
    <3>1. frac = (a % 16) * 256 + z
      BY <2>1 DEF FractionRead
    <3>2. CASE f < Full
      <4>1. frac = f
        BY <1>2, <3>1, <3>2, Zenon DEF Apart
      <4> HIDE DEF frac
      <4> QED BY <3>2, <4>1, SMT DEF Full, Fractions
    <3>3. CASE f = Full
      <4>1. a % 16 = 0 /\ z = 0
        BY <1>2, <3>3, Zenon DEF Apart
      <4>2. frac = 0
        BY <3>1, <4>1
      <4> HIDE DEF frac
      <4> QED BY <4>2, SMT DEF Fractions
    <3>4. f < Full \/ f = Full
      BY SMT DEF Full
    <3> QED BY <3>2, <3>3, <3>4, Zenon
  <2>2. CASE ~(z < 128)
    <3>1. frac = z - 256
      BY <2>2 DEF FractionRead
    <3> HIDE DEF frac
    <3> QED BY <1>3, <2>2, <3>1, SMT DEF Fractions
  <2> QED BY <2>1, <2>2
<1> HIDE DEF frac
<1>5. sec \in Int /\ sec = IF f = Full THEN q * 16 + r + 1 ELSE q * 16 + r
  <2>1. CASE f < Full
    <3>1. a \div 16 = r /\ f # Full
      <4>1. a \div 16 = r
        BY <1>2, <2>1, Zenon DEF Apart
      <4>2. f # Full
        BY <2>1, SMT DEF Full
      <4> QED BY <4>1, <4>2
    <3>2. sec = q * 16 + r
      BY <1>1, <3>1, Zenon
    <3> HIDE DEF sec
    <3> QED BY <3>1, <3>2, SMT
  <2>2. CASE f = Full
    <3>1. a \div 16 = r + 1
      BY <1>2, <2>2, Zenon DEF Apart
    <3>2. sec = q * 16 + (r + 1)
      BY <1>1, <3>1, Zenon
    <3> HIDE DEF sec
    <3> QED BY <2>2, <3>2, SMT
  <2>3. f < Full \/ f = Full
    BY SMT DEF Full
  <2> QED BY <2>1, <2>2, <2>3, Zenon
<1>6. TimestampVisitor(high \o <<a, z>>) = {got}
  BY <1>1, <1>3, TimestampRead DEF frac
<1> HIDE DEF sec
<1>7. Near(sec, got)
  <2>1. Scaled(frac) \in Micros
    BY <1>4, ScaledSmall
  <2> QED BY <1>5, <2>1, InstantNear
<1> HIDE DEF got
<1>8. Near(IF f = Full THEN q * 16 + r + 1 ELSE q * 16 + r, got)
  BY <1>5, <1>7, Zenon
<1> QED BY <1>6, <1>8, Zenon DEF Back, a, z, high

\* Of every time before 2^31 seconds, where the int of TimestampVisitor ends, the whole
\* seconds come back, up to what TimeSurvives allows: 31 microseconds less when the
\* last byte is taken as negative, and a second more when the fraction rounds up.
THEOREM TimesSurvive ==
  ASSUME NEW t, Writable(t), t.s \div 16 < IntHigh
  PROVE  \E got : TimestampVisitor(TimestampBytes(t)) = {got} /\ TimeSurvives(t, got)
<1> DEFINE q == t.s \div 16
           r == t.s % 16
           f == Fraction(t.us)
<1>0. t.s \in Nat /\ t.us \in Nat /\ t.us < 1000000
  BY SMT DEF Writable
<1>1. TimestampBytes(t) = fromNumber(q) \o <<Low(r, f) \div 256, Low(r, f) % 256>>
  BY TimestampShape
<1>2. f \in Nat /\ f <= Full
  BY <1>0, FractionRange, SMT
<1>3. r \in 0..15 /\ q * 16 + r = t.s /\ q \in Nat
  BY <1>0, Sixteenths, SMT
<1>i. q < IntHigh
  OBVIOUS
<1>4. r # 15 \/ f < Full <=> t.s % 16 # 15 \/ Fraction(t.us) < 4096
  BY SMT DEF Full
<1> HIDE DEF f, r, q
<1>5. CASE r # 15 \/ f < Full
  <2>1. Back(q, r, f)
    BY <1>2, <1>3, <1>5, <1>i, SecondsComeBack, Zenon
  <2>2. PICK got : /\ TimestampVisitor(TimestampBytes(t)) = {got}
                   /\ Near(IF f = Full THEN q * 16 + r + 1 ELSE q * 16 + r, got)
    BY <1>1, <2>1, Zenon DEF Back
  <2>3. Near(IF f = Full THEN t.s + 1 ELSE t.s, got)
    BY <1>3, <2>2, Zenon
  <2>4. TimeSurvives(t, got)
    BY <2>3, SMT DEF TimeSurvives, Near, f, Full
  <2> QED BY <2>2, <2>4, Zenon
<1>6. CASE ~(r # 15 \/ f < Full)
  <2>1. fromNumber(q) \in Seq(Byte)
    BY <1>3, NumbersComeBack
  <2>2. Low(r, f) \div 256 \in 0..255 /\ Low(r, f) % 256 \in 0..255
    BY <1>2, <1>3, LowBytes
  <2>3. PICK got : TimestampVisitor(TimestampBytes(t)) = {got}
    <3> DEFINE a == Low(r, f) \div 256
               z == Low(r, f) % 256
               high == fromNumber(q)
    <3> HIDE DEF a, z, high
    <3>1. a \in 0..255 /\ z \in 0..255 /\ high \in Seq(Byte)
      BY <2>1, <2>2, Zenon DEF a, z, high
    <3>2. TimestampVisitor(high \o <<a, z>>)
            = {Instant(HighInInt(toNumber(high)) * 16 + (a \div 16), Scaled(FractionRead(a, z)))}
      BY <3>1, TimestampRead
    <3> QED BY <1>1, <3>2, Zenon DEF a, z, high
  <2>4. TimeSurvives(t, got)
    BY <1>4, <1>6, SMT DEF TimeSurvives
  <2> QED BY <2>3, <2>4, Zenon
<1> QED BY <1>5, <1>6, Zenon

\* What is in a tag.
LEMMA TaggedSize ==
  ASSUME NEW dtag \in Nat, NEW s \in Seq(Byte)
  PROVE  Tagged(dtag, s) \in Seq(Byte) /\ Len(Tagged(dtag, s)) = EstimateBlockHeader(dtag) + Len(s) + 1
<1> DEFINE h == AppendBlockHeader(dtag, DTAG)
           e == <<CLOSE>>
           n == EstimateBlockHeader(dtag)
<1>1. h \in Seq(Byte) /\ Len(h) = n /\ n \in Nat
  <2>1. DTAG \in 0..7
    BY DEF DTAG
  <2>2. h \in Seq(Byte) /\ Len(h) = Len(Groups(dtag)) + 1 /\ n = Len(Groups(dtag)) + 1 /\ Len(Groups(dtag)) \in Nat
    <3> HIDE DEF DTAG
    <3> QED BY <2>1, HeaderShape
  <2> HIDE DEF h, n
  <2> QED BY <2>2
<1>2. e \in Seq(Byte) /\ Len(e) = 1
  BY DEF CLOSE, Byte
<1>3. Tagged(dtag, s) = (h \o s) \o e
  BY DEF Tagged
<1> HIDE DEF h, e, n
<1>4. h \o s \in Seq(Byte) /\ Len(h \o s) = Len(h) + Len(s)
  BY <1>1, ConcatProperties
<1>5. (h \o s) \o e \in Seq(Byte) /\ Len((h \o s) \o e) = Len(h \o s) + Len(e)
  BY <1>2, <1>4, ConcatProperties
<1>6. Len(s) \in Nat
  OBVIOUS
<1>7. Tagged(dtag, s) \in Seq(Byte)
  BY <1>3, <1>5
<1>8. Len(Tagged(dtag, s)) = n + Len(s) + 1
  BY <1>1, <1>2, <1>3, <1>4, <1>5, <1>6
<1> QED BY <1>7, <1>8 DEF n

\* A block of bytes with its header.
LEMMA BlockSize ==
  ASSUME NEW s \in Seq(Byte), NEW tt \in 0..7
  PROVE  LET w == AppendBlockHeader(Len(s), tt) \o s
         IN w \in Seq(Byte) /\ Len(w) = EstimateBlockHeader(Len(s)) + Len(s) /\ EstimateBlockHeader(Len(s)) \in Nat
<1> DEFINE h == AppendBlockHeader(Len(s), tt)
           n == EstimateBlockHeader(Len(s))
<1>0. Len(s) \in Nat
  OBVIOUS
<1>1. h \in Seq(Byte) /\ Len(h) = n /\ n \in Nat
  <2>1. h \in Seq(Byte) /\ Len(h) = Len(Groups(Len(s))) + 1 /\ n = Len(Groups(Len(s))) + 1 /\ Len(Groups(Len(s))) \in Nat
    BY <1>0, HeaderShape
  <2> HIDE DEF h, n
  <2> QED BY <2>1
<1> HIDE DEF h, n
<1>2. h \o s \in Seq(Byte) /\ Len(h \o s) = Len(h) + Len(s)
  BY <1>1, ConcatProperties
<1> QED BY <1>1, <1>2 DEF h, n

LEMMA TaggedBlobSize ==
  ASSUME NEW dtag \in Nat, NEW data \in Seq(Byte)
  PROVE  /\ AppendTaggedBlob(dtag, data) \in Seq(Byte)
         /\ Len(AppendTaggedBlob(dtag, data)) = EstimateTaggedBlob(dtag, Len(data))
<1>0. Len(data) \in Nat /\ BLOB \in 0..7
  BY DEF BLOB
<1> DEFINE n == EstimateBlockHeader(dtag)
           k == EstimateBlockHeader(Len(data))
<1>1. CASE data = <<>>
  <2>1. AppendTaggedBlob(dtag, data) = Tagged(dtag, <<>>) /\ <<>> \in Seq(Byte) /\ Len(<<>>) = 0
    BY <1>1 DEF AppendTaggedBlob
  <2>2. EstimateTaggedBlob(dtag, Len(data)) = n + 1
    BY <1>1 DEF EstimateTaggedBlob
  <2>3. Tagged(dtag, <<>>) \in Seq(Byte) /\ Len(Tagged(dtag, <<>>)) = n + 0 + 1
    BY <2>1, TaggedSize
  <2>4. n \in Nat
    <3>1. Len(Groups(dtag)) \in Nat /\ n = Len(Groups(dtag)) + 1
      BY HeaderShape, <1>0
    <3> HIDE DEF n
    <3> QED BY <3>1
  <2> HIDE DEF n
  <2> QED BY <2>1, <2>2, <2>3, <2>4
<1>2. CASE data # <<>>
  <2> DEFINE w == AppendBlob(data)
  <2>1. w \in Seq(Byte) /\ Len(w) = k + Len(data) /\ k \in Nat
    <3> HIDE DEF BLOB
    <3> QED BY <1>0, BlockSize DEF AppendBlob
  <2>2. AppendTaggedBlob(dtag, data) = Tagged(dtag, w) /\ Len(data) > 0
    BY <1>0, <1>2 DEF AppendTaggedBlob
  <2>3. EstimateTaggedBlob(dtag, Len(data)) = n + k + Len(data) + 1
    BY <2>2 DEF EstimateTaggedBlob
  <2> HIDE DEF w
  <2>4. Tagged(dtag, w) \in Seq(Byte) /\ Len(Tagged(dtag, w)) = n + Len(w) + 1
    BY <2>1, TaggedSize
  <2>5. n \in Nat
    <3>1. Len(Groups(dtag)) \in Nat /\ n = Len(Groups(dtag)) + 1
      BY HeaderShape, <1>0
    <3> HIDE DEF n
    <3> QED BY <3>1
  <2> HIDE DEF n, k
  <2>6. n + Len(w) + 1 = n + k + Len(data) + 1
    BY <1>0, <2>1, <2>5
  <2> QED BY <2>2, <2>3, <2>4, <2>6
<1> QED BY <1>1, <1>2

\* The texts and the numbers.
LEMMA StringSize ==
  ASSUME NEW dtag \in Nat, NEW s \in Seq(Byte)
  PROVE  EstimateString(dtag, s) = Len(AppendString(dtag, s))
<1> DEFINE n == EstimateBlockHeader(dtag)
           k == EstimateBlockHeader(Len(s))
           w == AppendBlockHeader(Len(s), UDATA) \o s
<1>0. Len(s) \in Nat /\ UDATA \in 0..7
  BY DEF UDATA
<1>1. w \in Seq(Byte) /\ Len(w) = k + Len(s) /\ k \in Nat
  <2> HIDE DEF UDATA
  <2> QED BY <1>0, BlockSize
<1>2. AppendString(dtag, s) = Tagged(dtag, w)
  BY DEF AppendString
<1>3. EstimateString(dtag, s) = n + k + Len(s) + 1
  BY DEF EstimateString
<1> HIDE DEF w
<1>4. Len(Tagged(dtag, w)) = n + Len(w) + 1
  BY <1>1, TaggedSize
<1>5. n \in Nat
  <2>1. Len(Groups(dtag)) \in Nat /\ n = Len(Groups(dtag)) + 1
    BY HeaderShape, <1>0
  <2> HIDE DEF n
  <2> QED BY <2>1
<1> HIDE DEF n, k
<1> QED BY <1>0, <1>1, <1>2, <1>3, <1>4, <1>5

LEMMA NumberSize ==
  ASSUME NEW n \in Nat
  PROVE  EstimateNumber(n) = Len(AppendNumber(n))
<1>1. Decimal(n) \in Seq(Byte) /\ UDATA \in 0..7
  BY DecimalsComeBack DEF UDATA
<1>2. Len(AppendNumber(n)) = EstimateBlockHeader(Len(Decimal(n))) + Len(Decimal(n))
  <2> HIDE DEF UDATA
  <2> QED BY <1>1, BlockSize DEF AppendNumber
<1> QED BY <1>2 DEF EstimateNumber

LEMMA TimestampSize ==
  ASSUME NEW t, Writable(t)
  PROVE  EstimateTimestampBlob(t) = Len(AppendTimestampBlob(t))
<1> DEFINE q   == t.s \div 16
           a   == Low(t.s % 16, Fraction(t.us)) \div 256
           z   == Low(t.s % 16, Fraction(t.us)) % 256
           w   == TimestampBytes(t)
           end == <<a, z>>
           all == fromNumber(q)
<1>0. t.s \in Nat /\ t.us \in Nat /\ t.us < 1000000
  BY SMT DEF Writable
<1>1. w = all \o end /\ RequiredBytes(q) = Len(all) + 2
  BY TimestampShape
<1>2. Fraction(t.us) \in Nat
  BY <1>0, FractionRange, SMT
<1>3. t.s % 16 \in 0..15 /\ q \in Nat
  BY <1>0, SMT
<1>4. a \in 0..255 /\ z \in 0..255
  <2> DEFINE r == t.s % 16
             f == Fraction(t.us)
  <2>1. r \in 0..15 /\ f \in Nat
    BY <1>2, <1>3, Zenon
  <2> HIDE DEF r, f
  <2>2. Low(r, f) \div 256 \in 0..255 /\ Low(r, f) % 256 \in 0..255
    BY <2>1, LowBytes, Zenon
  <2> QED BY <2>2, Zenon DEF r, f
<1> HIDE DEF a, z
<1>5. end \in Seq(Byte) /\ Len(end) = 2
  BY <1>4, SMT DEF Byte
<1>6. all \in Seq(Byte)
  <2> HIDE DEF q
  <2> QED BY <1>3, NumbersComeBack, Zenon
<1> HIDE DEF end, all, w
<1>7. w \in Seq(Byte) /\ Len(w) = RequiredBytes(q)
  <2>1. all \o end \in Seq(Byte) /\ Len(all \o end) = Len(all) + Len(end)
    BY <1>5, <1>6, ConcatProperties
  <2> QED BY <1>1, <1>5, <2>1, Zenon
<1>8. Len(AppendBlob(w)) = EstimateBlockHeader(Len(w)) + Len(w)
  <2>1. BLOB \in 0..7
    BY SMT DEF BLOB
  <2> HIDE DEF BLOB
  <2> QED BY <1>7, <2>1, BlockSize DEF AppendBlob
<1>9. AppendTimestampBlob(t) = AppendBlob(w)
  BY SMT DEF AppendTimestampBlob, w
<1>10. EstimateTimestampBlob(t) = EstimateBlockHeader(RequiredBytes(q)) + RequiredBytes(q)
  BY SMT DEF EstimateTimestampBlob
<1> HIDE DEF q
<1> QED BY <1>7, <1>8, <1>9, <1>10, SMT

\* The bytes written for the first i components.
SizeBody(nm, f, i) ==
  IF i = 0 THEN 0 ELSE f[i - 1] + EstimateTaggedBlob(Dtag.Component, Len(nm[i]))

LEMMA ComponentTag == Dtag.Component \in Nat
BY DEF Dtag

LEMMA NameSizeFcn ==
  ASSUME NEW nm \in Seq(Seq(Byte))
  PROVE  \E f : /\ SerializedSizeName(nm) = f[Len(nm)]
                /\ \A i \in 0..Len(nm) : f[i] = SizeBody(nm, f, i)
<1> DEFINE n == Len(nm)
           D == 0..n
           F == CHOOSE f : f = [i \in D |-> SizeBody(nm, f, i)]
           G == [i \in D |-> [f \in [D -> Nat] |-> SizeBody(nm, f, i)]]
           m == [i \in D |-> i]
<1>0. n \in Nat /\ \A i \in D : i \in Nat /\ (i # 0 => i - 1 \in D /\ i - 1 < i /\ i \in 1..n)
  OBVIOUS
<1>1. G \in [D -> [[D -> Nat] -> Nat]]
  <2>1. ASSUME NEW i \in D, NEW f \in [D -> Nat] PROVE SizeBody(nm, f, i) \in Nat
    <3>1. CASE i = 0
      BY <3>1 DEF SizeBody
    <3>2. CASE i # 0
      <4> DEFINE x == EstimateTaggedBlob(Dtag.Component, Len(nm[i]))
                 w == AppendTaggedBlob(Dtag.Component, nm[i])
      <4>1. nm[i] \in Seq(Byte)
        BY <1>0, <3>2, ElementOfSeq
      <4>2. w \in Seq(Byte) /\ Len(w) = x
        BY <4>1, ComponentTag, TaggedBlobSize
      <4> HIDE DEF w, x
      <4>3. x \in Nat
        BY <4>2, LenProperties
      <4>4. f[i - 1] \in Nat
        <5> HIDE DEF D
        <5> QED BY <1>0, <3>2
      <4>5. SizeBody(nm, f, i) = f[i - 1] + x
        BY <3>2 DEF SizeBody, x
      <4> QED BY <4>3, <4>4, <4>5
    <3> QED BY <3>1, <3>2
  <2> HIDE DEF D
  <2> QED BY <2>1
<1>2. Causal(D, m, Nat, G)
  <2>1. ASSUME NEW d \in D, NEW f \in [D -> Nat], NEW g \in [D -> Nat],
                      \A e \in D : e < d => f[e] = g[e]
               PROVE  SizeBody(nm, f, d) = SizeBody(nm, g, d)
    <3>1. d # 0 => f[d - 1] = g[d - 1]
      <4> HIDE DEF D, n
      <4> QED BY <1>0, <2>1
    <3> QED BY <3>1 DEF SizeBody
  <2>2. \A e \in D : m[e] = e
    OBVIOUS
  <2> HIDE DEF D, n, m
  <2> QED BY <2>1, <2>2 DEF Causal
<1>3. WellFounded(D, Nat, n, m, G)
  <2>1. m \in [D -> 0..n] /\ 0 \in Nat
    BY <1>0
  <2> HIDE DEF G, m, D, F, n
  <2> QED BY <1>0, <1>1, <1>2, <2>1 DEF WellFounded
<1>f. PICK f \in [D -> Nat] : \A d \in D : f[d] = G[d][f]
  <2> HIDE DEF G, m, D, F
  <2>1. Solvable(D, Nat, G)
    BY <1>3, Recursion
  <2> QED BY <2>1 DEF Solvable
<1>4. \E h : h = [i \in D |-> SizeBody(nm, h, i)]
  <2>1. \A d \in D : f[d] = SizeBody(nm, f, d)
    <3> HIDE DEF D, F
    <3> QED BY <1>f
  <2>2. f = [i \in D |-> SizeBody(nm, f, i)]
    <3> HIDE DEF D, F
    <3> QED BY <2>1
  <2> QED BY <2>2
<1>5. F = [i \in D |-> SizeBody(nm, F, i)]
  BY <1>4
<1>6. SerializedSizeName(nm) = F[n]
  BY DEF SerializedSizeName, SizeBody
<1>7. \A i \in D : F[i] = SizeBody(nm, F, i)
  <2> HIDE DEF F, D
  <2> QED BY <1>5
<1> HIDE DEF F
<1> QED BY <1>6, <1>7

LEMMA NameSize ==
  ASSUME NEW nm \in Seq(Seq(Byte))
  PROVE  SerializedSizeName(nm) = Len(SerializeName(nm))
<1> DEFINE n == Len(nm)
           seqs == [i \in DOMAIN nm |-> AppendTaggedBlob(Dtag.Component, nm[i])]
           u == FlattenSeq(seqs)
<1>0. n \in Nat /\ DOMAIN nm = 1..n /\ \A i \in 1..n : nm[i] \in Seq(Byte)
  OBVIOUS
<1>1. \A i \in 1..n : /\ seqs[i] \in Seq(Byte)
                      /\ Len(seqs[i]) = EstimateTaggedBlob(Dtag.Component, Len(nm[i]))
  <2> SUFFICES ASSUME NEW i \in 1..n
               PROVE  seqs[i] \in Seq(Byte) /\ Len(seqs[i]) = EstimateTaggedBlob(Dtag.Component, Len(nm[i]))
    OBVIOUS
  <2>1. seqs[i] = AppendTaggedBlob(Dtag.Component, nm[i])
    BY <1>0
  <2> HIDE DEF seqs
  <2> QED BY <1>0, <2>1, ComponentTag, TaggedBlobSize
<1>2. seqs \in Seq(Seq(Byte)) /\ Len(seqs) = n
  <2>1. seqs \in [1..n -> Seq(Byte)]
    BY <1>0, <1>1
  <2> HIDE DEF seqs
  <2> QED BY <1>0, <2>1
<1>3. SerializeName(nm) = u
  BY DEF SerializeName
<1> HIDE DEF seqs
<1>4. PICK p : u \in Seq(Byte) /\ Starts(p, seqs, u)
  BY <1>2, FlattenParts
<1> HIDE DEF u
<1>5. /\ p \in [1..(n + 1) -> 1..(Len(u) + 1)] /\ p[1] = 1 /\ p[n + 1] = Len(u) + 1
      /\ \A i \in 1..n : p[i + 1] = p[i] + Len(seqs[i])
  BY <1>2, <1>4 DEF Starts
<1>6. PICK f : /\ SerializedSizeName(nm) = f[n]
               /\ \A i \in 0..n : f[i] = SizeBody(nm, f, i)
  BY NameSizeFcn
<1> HIDE DEF n
<1> DEFINE S == {i \in 0..n : f[i] + 1 = p[i + 1] /\ f[i] \in Nat}
<1>7. ASSUME NEW i \in 0..n, \A j \in 0..(i - 1) : j \in S
      PROVE  i \in S
  <2>1. CASE i = 0
    <3>1. f[i] = 0 /\ i + 1 = 1
      BY <1>6, <2>1 DEF SizeBody
    <3> QED BY <1>5, <3>1
  <2>2. CASE i # 0
    <3>1. i \in 1..n /\ i - 1 \in 0..(i - 1) /\ (i - 1) + 1 = i
      BY <1>0, <2>2
    <3>2. f[i - 1] + 1 = p[i] /\ f[i - 1] \in Nat
      BY <1>7, <3>1
    <3>3. f[i] = f[i - 1] + Len(seqs[i])
      BY <1>1, <1>6, <2>2, <3>1 DEF SizeBody
    <3>4. Len(seqs[i]) \in Nat /\ p[i + 1] = p[i] + Len(seqs[i])
      BY <1>1, <1>5, <3>1, LenProperties
    <3> QED BY <3>2, <3>3, <3>4
  <2> QED BY <2>1, <2>2
<1>8. \A i \in 0..n : i \in S
  <2> HIDE DEF S
  <2> QED BY <1>0, <1>7, UpInduction
<1>9. f[n] + 1 = Len(u) + 1 /\ f[n] \in Nat
  BY <1>0, <1>5, <1>8
<1>10. f[n] = Len(u)
  BY <1>4, <1>9
<1> QED BY <1>3, <1>6, <1>10

\* For every name, tag, text, number and time, the sizes that are announced before
\* the writing (reserved, and sent in front) are the sizes of what is written.
THEOREM SizesAreAnnounced ==
  /\ \A nm \in Seq(Seq(Byte)) : SerializedSizeName(nm) = Len(SerializeName(nm))
  /\ \A dtag \in Nat, s \in Seq(Byte) : /\ EstimateString(dtag, s) = Len(AppendString(dtag, s))
                                        /\ EstimateTaggedBlob(dtag, Len(s)) = Len(AppendTaggedBlob(dtag, s))
  /\ \A n \in Nat : EstimateNumber(n) = Len(AppendNumber(n))
  /\ \A t : Writable(t) => EstimateTimestampBlob(t) = Len(AppendTimestampBlob(t))
BY NameSize, StringSize, TaggedBlobSize, NumberSize, TimestampSize
=============================================================================
