----------------------------- MODULE NameRegex -----------------------------
(***************************************************************************)
(* src/ndn.cxx/regex: regular expressions over the components of a name,   *)
(* with back references.                                                   *)
(*                                                                         *)
(* An expression is a sequence of tokens: parentheses, component sets      *)
(* (what the regular expressions between < and > accept is a set of        *)
(* components, and [^...] its complement) and repetitions.  Compiling it   *)
(* builds a tree of matchers; matching walks the tree, longest attempt     *)
(* first, and leaves in the matcher of each parenthesis the components it  *)
(* matched last, which is what expand() reads.  The matchers of a pattern  *)
(* are objects that outlive the match: what they hold is threaded through  *)
(* the operators below as g.                                               *)
(*                                                                         *)
(* Operators that compile or match return the set of their results: one    *)
(* result, or none where the constructor throws.  Then chains them.        *)
(*                                                                         *)
(* Groups inside a component's own expression (boost sub-matches) are left *)
(* out.  A repetition nests one call deeper per iteration; Stack stands    *)
(* for the depth at which the process dies.                                *)
(***************************************************************************)
EXTENDS Integers, Sequences, SequencesExt, FiniteSetsExt

CONSTANTS Components,  \* name components
          Unbounded,   \* numeric_limits<int>::max()
          Stack        \* iterations a process survives

ASSUME DepthAssumption == Stack \in Nat /\ Unbounded \in Nat /\ Unbounded > Stack

Open == [t |-> "open"]
Close == [t |-> "close"]

\* <c>, [<c><d>] and [^<c><d>].
Set(include, accepts) == [t |-> "set", include |-> include, accepts |-> accepts]

\* form is "?", "+", "*", "{n}", "{n,}", "{,m}" or "{n,m}".
Rep(form, n, m) == [t |-> "rep", form |-> form, n |-> n, m |-> m]
Star == Rep("*", 0, 0)

AnyNames == <<Set(TRUE, Components), Star>>     \* "<.*>*"

-----------------------------------------------------------------------------
(* Compilation. *)

\* extractSubPattern: the places where the parentheses opened from i balance.
Closings(ts, i) ==
  {j \in i..Len(ts) : Quantify(i..j, LAMBDA k : ts[k] = Open)
                      = Quantify(i..j, LAMBDA k : ts[k] = Close)}

\* extractRepetition: where the repetition after ts[last] ends; last: there is none.
RepetitionEnd(ts, last) == IF last < Len(ts) /\ ts[last + 1].t = "rep" THEN last + 1 ELSE last

ParseRepetition(rep) ==
  CASE rep.form = "?" -> [min |-> 0, max |-> 1]
    [] rep.form = "+" -> [min |-> 1, max |-> Unbounded]
    [] rep.form = "*" -> [min |-> 0, max |-> Unbounded]
    [] rep.form = "{n,m}" -> [min |-> rep.n, max |-> rep.m]
    [] rep.form = "{,m}" -> [min |-> 0, max |-> rep.m]
    [] rep.form = "{n,}" -> [min |-> rep.n, max |-> Unbounded]
    [] rep.form = "{n}" -> [min |-> rep.n, max |-> rep.n]

\* The bounds of the item that ends at ts[last].
ItemBounds(ts, last) ==
  IF RepetitionEnd(ts, last) = last THEN [min |-> 1, max |-> 1]
  ELSE ParseRepetition(ts[last + 1])

\* A matcher that holds back reference id, around the list between parentheses.
BackRefMatcher(id, list) ==
  [k |-> "list", id |-> id, list |-> <<[k |-> "list", id |-> 0, list |-> list]>>]

RepeatMatcher(child, bounds) ==
  [k |-> "rep", list |-> <<child>>, min |-> bounds.min, max |-> bounds.max]

Then(results, F(_)) == UNION {F(m) : m \in results}

\* Where the item that starts at ts[i] ends, its repetition left out; none when
\* the text or the bounds of the repetition are refused.
ItemEnds(ts, i) ==
  {last \in IF ts[i] = Open THEN IF Closings(ts, i) = {} THEN {} ELSE {Min(Closings(ts, i))}
            ELSE IF ts[i].t = "set" THEN {i} ELSE {} :
     ItemBounds(ts, last).min <= ItemBounds(ts, last).max}

\* The matcher of the item ts[i..last], list being what its parentheses hold.
ItemMatcher(ts, i, last, n, list) ==
  IF ts[i] = Open
    THEN IF RepetitionEnd(ts, last) = last THEN BackRefMatcher(n + 1, list)
         ELSE RepeatMatcher(BackRefMatcher(n + 1, list), ItemBounds(ts, last))
    ELSE RepeatMatcher([k |-> "set", include |-> ts[i].include, accepts |-> ts[i].accepts],
                       ItemBounds(ts, last))

\* The matchers for ts[i..j]; the first parenthesis in it gets number n + 1.  An inner
\* parenthesis is registered with the back reference manager after the outer one.
RECURSIVE Compile(_, _, _, _)
Compile(ts, i, j, n) ==
  IF i > j THEN {[list |-> <<>>, n |-> n]}
  ELSE Then(ItemEnds(ts, i), LAMBDA last :
       Then(IF ts[i] = Open THEN Compile(ts, i + 1, last - 1, n + 1) ELSE {[list |-> <<>>, n |-> n]},
            LAMBDA inner : {[list |-> <<ItemMatcher(ts, i, last, n, inner.list)>> \o rest.list, n |-> rest.n] :
                            rest \in Compile(ts, RepetitionEnd(ts, last) + 1, j, inner.n)}))

\* RegexTopMatcher::compile: without $ anything may follow; without ^ a second
\* matcher lets anything precede.
TopCompile(pattern) ==
  LET ts == pattern.ts \o IF pattern.tail THEN <<>> ELSE AnyNames
      Whole(c) == [k |-> "list", id |-> 0, list |-> c.list] IN
  CHOOSE rx \in Then(Compile(ts, 1, Len(ts), 0), LAMBDA p :
                     {[groups |-> p.n, anchored |-> pattern.head,
                       primary |-> Whole(p), secondary |-> Whole(s)] :
                      s \in Compile(AnyNames \o ts, 1, Len(ts) + Len(AnyNames), 0)}) : TRUE

\* RegexTopMatcher::fromName: convertSpecialChar escapes a component so that it
\* accepts nothing but itself.
FromName(name, anchor) ==
  TopCompile([ts |-> [i \in 1..Len(name) |-> Set(TRUE, {name[i]})], head |-> TRUE, tail |-> anchor])

-----------------------------------------------------------------------------
(* Matching the components from + 1 .. to of name.  A result says yes, no or   *)
(* that the stack overflowed, and repeats to.                                  *)

Answer(b, to, g) == {[r |-> IF b THEN "yes" ELSE "no", to |-> to, g |-> g]}
Overflow(to, g) == {[r |-> "overflow", to |-> to, g |-> g]}

RECURSIVE Matches(_, _, _, _, _), ListSteps(_, _, _, _, _, _),
          RepeatSteps(_, _, _, _, _, _), Try(_, _, _, _, _, _, _)

\* RegexComponent::match: the whole component, by the expression between < and >.
ComponentMatches(accepts, component) == component \in accepts

\* RegexComponentSetMatcher::match: exactly one component.
SetMatches(node, name, from, to) ==
  to = from + 1 /\ ComponentMatches(node.accepts, name[to]) = node.include

\* RegexMatcher::match: what the matcher holds is cleared, and set on success.
ListMatches(node, name, from, to, g) ==
  LET Hold(f, s) == IF node.id = 0 THEN f ELSE [f EXCEPT ![node.id] = s] IN
  {IF m.r = "yes" THEN [m EXCEPT !.g = Hold(@, SubSeq(name, from + 1, to))] ELSE m :
   m \in ListSteps(node, 0, name, from, to, Hold(g, <<>>))}

\* RegexRepeatMatcher::match: with nothing to match, the groups below are not visited.
RepeatMatches(node, name, from, to, g) ==
  IF node.min = 0 /\ from = to THEN Answer(TRUE, to, g)
  ELSE RepeatSteps(node, 0, name, from, to, g)

Matches(node, name, from, to, g) ==
  CASE node.k = "set" -> Answer(SetMatches(node, name, from, to), to, g)
    [] node.k = "rep" -> RepeatMatches(node, name, from, to, g)
    [] node.k = "list" -> ListMatches(node, name, from, to, g)

\* RegexMatcher::recursiveMatch, i matchers of the list done.
ListSteps(node, i, name, from, to, g) ==
  IF i = Len(node.list) THEN Answer(from = to, to, g) ELSE Try(node, i, name, from, to, to, g)

\* Mutant: the repetition stops one iteration early.
RepeatSteps_OneLess(node, i, name, from, to, g) ==
  IF from < to /\ i + 1 >= node.max THEN Answer(FALSE, to, g)
  ELSE IF from = to THEN Answer(i >= node.min, to, g)
  ELSE IF i > Stack THEN Overflow(to, g)
  ELSE Try(node, i, name, from, to, to, g)

\* RegexRepeatMatcher::recursiveMatch, i iterations done.
RepeatSteps(node, i, name, from, to, g) ==
  IF from < to /\ i >= node.max THEN Answer(FALSE, to, g)
  ELSE IF from = to THEN Answer(i >= node.min, to, g)
  ELSE IF i > Stack THEN Overflow(to, g)
  ELSE Try(node, i, name, from, to, to, g)

\* The loop of both: the next matcher is offered the components up to tried,
\* then fewer.
Try(node, i, name, from, to, tried, g) ==
  LET Fewer(m, h) == Try(node, i, name, from, to, m.to - 1, h)
      Rest(m) == IF node.k = "list" THEN ListSteps(node, i + 1, name, m.to, to, m.g)
                                    ELSE RepeatSteps(node, i + 1, name, m.to, to, m.g)
      Offer(m) == CASE m.r = "no" -> Fewer(m, m.g)
                    [] m.r = "overflow" -> {m}
                    [] m.r = "yes" -> Then(Rest(m), LAMBDA rest :
                                           IF rest.r = "no" THEN Fewer(m, rest.g) ELSE {rest}) IN
  IF tried < from THEN Answer(FALSE, to, g)
  ELSE Then(Matches(node.list[IF node.k = "list" THEN i + 1 ELSE 1], name, from, tried, g), Offer)

-----------------------------------------------------------------------------
(* A RegexTopMatcher object: the compiled pattern rx, and the state st of its  *)
(* two trees of matchers.                                                      *)

NoState(rx) == [primary |-> [i \in 1..rx.groups |-> <<>>],
                secondary |-> [i \in 1..rx.groups |-> <<>>],
                secondaryUsed |-> FALSE, matched |-> <<>>]

\* The primary tree, then the secondary one unless the pattern begins with ^.
TopMatch(rx, st, name) ==
  LET Result(p, s, second) ==
        [r |-> s.r,
         st |-> [primary |-> p.g,
                 secondary |-> IF second THEN s.g ELSE st.secondary,
                 secondaryUsed |-> second /\ s.r = "yes",
                 matched |-> IF s.r = "yes" THEN name ELSE <<>>]] IN
  Then(Matches(rx.primary, name, 0, Len(name), st.primary), LAMBDA p :
       IF p.r = "no" /\ ~rx.anchored
         THEN {Result(p, s, TRUE) : s \in Matches(rx.secondary, name, 0, Len(name), st.secondary)}
         ELSE {Result(p, p, FALSE)})

Groups(st) == IF st.secondaryUsed THEN st.secondary ELSE st.primary

\* The items of a template: \\n and <c>.
Ref(n) == [t |-> "ref", n |-> n]
Literal(c) == [t |-> "lit", c |-> c]

\* expand() throws beyond the last group, and getItemFromExpand at a <c> that
\* ends the template.
Expandable(rx, template) ==
  /\ template # <<>> => Last(template).t = "ref"
  /\ \A i \in 1..Len(template) : template[i].t = "ref" => template[i].n <= rx.groups

Item(st, e) == IF e.t = "lit" THEN <<e.c>> ELSE IF e.n = 0 THEN st.matched ELSE Groups(st)[e.n]

Expand(st, template) == FlattenSeq([i \in 1..Len(template) |-> Item(st, template[i])])
=============================================================================
