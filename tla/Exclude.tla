------------------------------ MODULE Exclude ------------------------------
(***************************************************************************)
(* src/ndn.cxx/fields/exclude.cc: the exclude filter of an interest, a     *)
(* sorted map from name components to an ANY flag.  An entry excludes its  *)
(* component, and with the flag everything up to the next entry.           *)
(*                                                                         *)
(* Components are totally ordered (Component::compare, see Names), so they *)
(* are numbers here; the least is the empty component.  The map is sorted  *)
(* downwards: lower_bound(c) is the greatest entry that is not above c.    *)
(***************************************************************************)
EXTENDS Integers

CONSTANT Universe    \* name components

ASSUME UniverseAssumption == Universe \subseteq Nat /\ 0 \in Universe

VARIABLES entries,  \* the keys of m_exclude
          any,      \* the keys whose flag is set
          asked,    \* history: every component some call was to exclude
          last      \* history: the components the last call was to exclude

excludeVars == <<entries, any, asked, last>>

\* lower_bound(c) = k in a map with keys E
LowerBound(E, k, c) == k \in E /\ k <= c /\ \A j \in E : j <= c => j <= k

Excludes(E, A, c) == \E k \in E : LowerBound(E, k, c) /\ (k \in A \/ k = c)
IsExcluded(c) == Excludes(entries, any, c)

Between(from, to) == {c \in Universe : from <= c /\ c <= to}
Above(from) == {c \in Universe : from <= c}

ExcludeInit == entries = {} /\ any = {} /\ asked = {} /\ last = {}

\* The components the call is about.
Ask(cs) == asked' = asked \cup cs /\ last' = cs

ExcludeOne(c) ==
  /\ entries' = IF IsExcluded(c) THEN entries ELSE entries \cup {c}
  /\ any' = any
  /\ Ask({c})

\* The start of a range: nothing to do under ANY, else an entry with ANY.
Covered(from) == \E k \in entries : LowerBound(entries, k, from) /\ k \in any
Started(set, from) == IF Covered(from) THEN set ELSE set \cup {from}

\* Mutant: the entry where a later range starts is kept, without its flag.
Ended_Swallow(E, A, newFrom, newTo, to) ==
  /\ entries' = (E \ {k \in E : newFrom < k /\ k < to}) \cup {to}
  /\ any' = A \ {k \in A : newFrom < k /\ k <= to /\ newTo # newFrom}

\* Mutant: a later range's start is dropped together with its end.
Ended_Merge(E, A, newFrom, newTo, to) ==
  /\ entries' = E \ {k \in E : newFrom < k /\ k <= to}
  /\ any' = A \ {k \in A : newFrom < k /\ k <= to}

\* The end of a range between the entries newFrom and newTo = lower_bound(to):
\* an entry for to, or the join with a range that starts at newTo; what lies
\* between is erased.
Ended(E, A, newFrom, newTo, to) ==
  IF newTo = newFrom \/ newTo \notin A
  THEN /\ entries' = (E \ {k \in E : newFrom < k /\ k < to}) \cup {to}
       /\ any' = A \ {k \in A : newFrom < k /\ k < to}
  ELSE /\ entries' = E \ {k \in E : newFrom < k /\ k <= newTo}
       /\ any' = A \ {k \in A : newFrom < k /\ k <= newTo}

\* A range that is empty or a single component throws and changes nothing.
ExcludeRange(from, to) ==
  LET E == Started(entries, from)
      A == Started(any, from) IN
  /\ from < to
  /\ \E newFrom, newTo \in E : /\ LowerBound(E, newFrom, from)
                               /\ LowerBound(E, newTo, to)
                               /\ Ended(E, A, newFrom, newTo, to)
  /\ Ask(Between(from, to))

ExcludeBefore(to) == ExcludeRange(0, to)

\* Mutant: the entries above the start stay.
ExcludeAfter_Keep(from) ==
  /\ entries' = Started(entries, from)
  /\ any' = Started(any, from)
  /\ Ask(Above(from))

ExcludeAfter(from) ==
  LET E == Started(entries, from) IN
  /\ \E newFrom \in E :
       /\ LowerBound(E, newFrom, from)
       /\ entries' = {k \in E : k <= newFrom}
       /\ any' = {k \in Started(any, from) : k <= newFrom}
  /\ Ask(Above(from))

ExcludeNext == \/ \E c \in Universe : ExcludeOne(c) \/ ExcludeBefore(c) \/ ExcludeAfter(c)
               \/ \E from, to \in Universe : ExcludeRange(from, to)

ExcludeSpec == ExcludeInit /\ [][ExcludeNext]_excludeVars

-----------------------------------------------------------------------------
(* Properties. *)

\* The map and the two histories; and every component with an entry at or
\* below it has a greatest one, so that lower_bound(to) in excludeRange is
\* never end(), as its comment claims.
ExcludeTypeOK ==
  /\ entries \subseteq Universe /\ any \subseteq entries
  /\ asked \subseteq Universe /\ last \subseteq asked
  /\ \A c \in Universe, j \in entries : j <= c => \E k \in entries : LowerBound(entries, k, c)

\* The filter never excludes a component no call asked to exclude: a wrong
\* merge of two ranges would hide data from the application for good.
ExcludedWasAsked == \A c \in Universe : IsExcluded(c) => c \in asked

\* What the last call asked for is excluded, whatever entries were there.
LastIsExcluded == \A c \in last : IsExcluded(c)

\* A call un-excludes a component only as excludeRange does: the new range
\* lies inside one that reached beyond it.
LostOnlyAboveNested ==
  [][\A c \in Universe : IsExcluded(c) /\ ~IsExcluded(c)' =>
       \A d \in last' : d < c /\ IsExcluded(d)]_excludeVars

\* Everything the calls asked for stays excluded.
AskedIsExcluded == \A c \in asked : IsExcluded(c)
=============================================================================
