--------------------------- MODULE TrieWithPolicy ---------------------------
(***************************************************************************)
(* trie_with_policy: a trie of names whose nodes with a payload are also    *)
(* linked, through an intrusive hook, into the container of a replacement   *)
(* policy.  Trie and container call each other: an insertion that finds the *)
(* container full erases the victim from the trie while the new node is in  *)
(* the trie and not yet in the container.                                   *)
(*                                                                          *)
(* A node is the name it stands for.  Of the payloads only their presence   *)
(* is kept, of the hash tables only their contents: an enumeration of       *)
(* children may come in any order.                                          *)
(***************************************************************************)
EXTENDS Naturals, Sequences

CONSTANTS Names, Root,
          Pre,        \* Pre[n]: the prefixes of n, n and the empty name Root included
          Policies,   \* policies to look at: "lru", "fifo", "lfu", "persistent", "counting"
          Sizes,      \* arguments of set_max_size; 0 is "not enforced"
          Preds,      \* predicates: the sets of names whose payload satisfies one
          NoNode,     \* end()
          MaxStored,  \* bound: names with a payload
          MaxFreq     \* bound: uses of one name under LFU

ASSUME PrefixAssumption ==
  /\ Root \in Names
  /\ Pre \in [Names -> SUBSET Names]
  /\ \A n \in Names : n \in Pre[n] /\ Root \in Pre[n]
  /\ \A n \in Names : \A m \in Pre[n] : Pre[m] \subseteq Pre[n]
  /\ \A n \in Names : \A S \in SUBSET Pre[n] : S # {} => \E m \in S : S \subseteq Pre[m]
  /\ \A m, n \in Names : m \in Pre[n] /\ n \in Pre[m] => m = n
ASSUME PolicyAssumption == Policies \subseteq {"lru", "fifo", "lfu", "persistent", "counting"}
ASSUME BoundAssumption == /\ MaxStored \in Nat /\ MaxFreq \in Nat /\ Sizes \subseteq Nat
                          /\ NoNode \notin Names /\ Preds \subseteq SUBSET Names

VARIABLES policy,    \* the policy the trie was instantiated with
          nodes,     \* the nodes of the trie
          stored,    \* those with a payload
          order,     \* the policy container, begin() first
          freq,      \* LFU: frequency in the node's hook
          max,       \* max_size_
          answer     \* what the last call found, if it was a lookup

vars == <<policy, nodes, stored, order, freq, max, answer>>

Nothing == [op |-> "none", key |-> Root, pred |-> {}, found |-> NoNode]

\* 100 is the max_size_ of a new container: the bound stands for it.
Init == /\ policy \in Policies
        /\ nodes = {Root} /\ stored = {} /\ order = <<>>
        /\ freq = [n \in Names |-> 0]
        /\ max = MaxStored
        /\ answer = Nothing

-----------------------------------------------------------------------------
(* trie *)

\* insert(key): the nodes on the way to n are made where they are missing.
WithPath(ns, n) == ns \cup Pre[n]

\* Mutant: a node without a payload goes whatever hangs below it.
Prune_Children(ns, st, n) ==
  {x \in ns : x \in Pre[n] => x = Root \/ \E m \in Pre[n] \cap st : x \in Pre[m]}

\* Mutant: the parents are not looked at.
Prune_NodeOnly(ns, st, n) ==
  IF n # Root /\ n \notin st /\ \A m \in ns : n \in Pre[m] => m = n THEN ns \ {n} ELSE ns

\* prune() from n upwards, st being the nodes with a payload: a node on the way
\* up goes unless it, or one passed before it, has a payload or another child.
Prune(ns, st, n) ==
  {x \in ns : x \in Pre[n] => x = Root \/ \E m \in ns : /\ x \in Pre[m]
                                                        /\ m \in st \/ m \notin Pre[n]}

\* find(key): the nodes passed, and the last of them with a payload.
Walked(k) == {m \in Pre[k] : Pre[m] \subseteq nodes}

Found(k, candidates) ==
  LET hits == Walked(k) \cap candidates IN
  IF hits = {} THEN NoNode ELSE CHOOSE m \in hits : hits \subseteq Pre[m]

Below(k) == {n \in stored : k \in Pre[n]}

-----------------------------------------------------------------------------
(* The policy containers: s without its entry j, and s with n where the      *)
(* policy puts it: at the back or, for LFU, behind all that are used as      *)
(* rarely as f.                                                              *)

Unlinked(s, j) == [i \in 1..(Len(s) - 1) |-> IF i < j THEN s[i] ELSE s[i + 1]]

LinkedAt(s, p, n) == [i \in 1..(Len(s) + 1) |-> IF i < p THEN s[i] ELSE IF i = p THEN n ELSE s[i - 1]]

Entries(s) == {s[i] : i \in 1..Len(s)}

Linked == Entries(order)

Place(s, p, f) == IF policy = "lfu"
                    THEN /\ \A i \in 1..(p - 1) : freq[s[i]] <= f
                         /\ p <= Len(s) => freq[s[p]] > f
                    ELSE p = Len(s) + 1

MovesEntries == policy \in {"lru", "lfu"}

\* update() and lookup(): LRU moves n to the back, LFU counts and moves it.
Relocate(n) ==
  IF MovesEntries
    THEN \E j \in 1..Len(order), p \in 1..Len(order) :
           LET f == IF policy = "lfu" THEN freq[n] + 1 ELSE 0 IN
           /\ order[j] = n /\ f <= MaxFreq
           /\ Place(Unlinked(order, j), p, f)
           /\ order' = LinkedAt(Unlinked(order, j), p, n)
           /\ freq' = [freq EXCEPT ![n] = f]
    ELSE UNCHANGED <<order, freq>>

\* Mutant: one entry too many is let in.
Full_OffByOne == policy # "counting" /\ max # 0 /\ Len(order) > max

Full == policy # "counting" /\ max # 0 /\ Len(order) >= max

\* persistent_policy does not replace: it lets nothing in.
Refuses == Full /\ policy = "persistent"

-----------------------------------------------------------------------------
(* Operations. *)

Alive == answer.op # "crash"

\* Mutant: a node the policy does not accept loses its payload and stays.
Reject_NoPrune(n) == UNCHANGED stored /\ nodes' = WithPath(nodes, n)

\* insert(): the policy's refusal is undone with erase().
Reject(n) == UNCHANGED stored /\ nodes' = Prune(WithPath(nodes, n), stored, n)

\* The policy erases its first entry, calling back into the trie, which has
\* the new node already.
Replace(n) ==
  LET victim == order[1]
      st == (stored \cup {n}) \ {victim} IN
  /\ stored' = st
  /\ nodes' = Prune(WithPath(nodes, n), st, victim)

Insert(n) ==
  /\ Alive
  /\ Len(order) < MaxStored \/ n \in stored \/ Full
  /\ answer' = Nothing
  /\ \/ /\ n \in stored
        /\ UNCHANGED <<nodes, stored, order, freq>>
     \/ /\ n \notin stored /\ Refuses
        /\ Reject(n)
        /\ UNCHANGED <<order, freq>>
     \/ /\ n \notin stored /\ Full /\ ~ Refuses
        /\ Replace(n)
        /\ freq' = [freq EXCEPT ![order[1]] = 0, ![n] = 0]
        /\ \E p \in 1..Len(order) : /\ Place(Unlinked(order, 1), p, 0)
                                    /\ order' = LinkedAt(Unlinked(order, 1), p, n)
     \/ /\ n \notin stored /\ ~ Full
        /\ stored' = stored \cup {n}
        /\ nodes' = WithPath(nodes, n)
        /\ \E p \in 1..(Len(order) + 1) : Place(order, p, 0) /\ order' = LinkedAt(order, p, n)
        /\ freq' = [freq EXCEPT ![n] = 0]
  /\ UNCHANGED <<policy, max>>

\* Unlinking or moving a node that is not linked, or the null pointer n.
Crash(k, n) == /\ answer' = [Nothing EXCEPT !.op = "crash", !.key = k, !.found = n]
               /\ UNCHANGED <<policy, nodes, stored, order, freq, max>>

\* erase(key), erase(iterator)
Erase(n) ==
  /\ Alive
  /\ \/ /\ n \in Walked(n) \cap stored /\ n \in Linked
        /\ \E j \in 1..Len(order) : order[j] = n /\ order' = Unlinked(order, j)
        /\ stored' = stored \ {n}
        /\ nodes' = Prune(nodes, stored \ {n}, n)
        /\ freq' = [freq EXCEPT ![n] = 0]
        /\ answer' = Nothing
        /\ UNCHANGED <<policy, max>>
     \/ n \in (Walked(n) \cap stored) \ Linked /\ Crash(n, n)
     \/ /\ n \notin Walked(n) \cap stored
        /\ answer' = Nothing
        /\ UNCHANGED <<policy, nodes, stored, order, freq, max>>

\* Mutant: the policy's container is not emptied.
Clear_TrieOnly ==
  /\ Alive
  /\ nodes' = {Root} /\ stored' = stored \cap {Root}
  /\ freq' = [n \in Names |-> 0]
  /\ answer' = Nothing
  /\ UNCHANGED <<policy, max, order>>

\* clear(): trie::clear() drops the children, not the payload of the root.
Clear ==
  /\ Alive
  /\ order' = <<>> /\ freq' = [n \in Names |-> 0]
  /\ nodes' = {Root} /\ stored' = stored \cap {Root}
  /\ answer' = Nothing
  /\ UNCHANGED <<policy, max>>

\* set_max_size(): nothing is evicted; counting_policy has no such member.
SetMaxSize(s) ==
  /\ Alive /\ policy # "counting"
  /\ max' = s
  /\ answer' = Nothing
  /\ UNCHANGED <<policy, nodes, stored, order, freq>>

\* modify() on a node found before.
Modify(n) ==
  /\ Alive /\ n \in stored
  /\ \/ MovesEntries /\ n \notin Linked /\ Crash(n, n)
     \/ /\ MovesEntries => n \in Linked
        /\ Relocate(n)
        /\ answer' = Nothing
        /\ UNCHANGED <<policy, nodes, stored, max>>

\* A lookup ends: the policy is told of what was found, if anything was.
Answer(op, k, pred, n) ==
  \/ MovesEntries /\ n \notin Linked \cup {NoNode} /\ Crash(k, n)
  \/ /\ MovesEntries => n \in Linked \cup {NoNode}
     /\ answer' = [op |-> op, key |-> k, pred |-> pred, found |-> n]
     /\ IF n = NoNode THEN UNCHANGED <<order, freq>> ELSE Relocate(n)
     /\ UNCHANGED <<policy, nodes, stored, max>>

LongestPrefixMatch(k) == Alive /\ Answer("longest", k, Names, Found(k, stored))

\* find_if() does not ask the predicate about the root.
LongestPrefixMatchIf(k, pred) ==
  Alive /\ Answer("longestIf", k, pred, Found(k, stored \cap (pred \cup {Root})))

\* deepest_prefix_match(): a payload passed on the way to the key is preferred to
\* those below it; when there is neither, lookup() gets a null pointer.
DeepestPrefixMatch(k) ==
  /\ Alive
  /\ \/ k \notin Walked(k) /\ Answer("deepest", k, Names, NoNode)
     \/ /\ k \in Walked(k) /\ Found(k, stored) # NoNode
        /\ Answer("deepest", k, Names, Found(k, stored))
     \/ /\ k \in Walked(k) /\ Found(k, stored) = NoNode
        /\ \E n \in Below(k) : Answer("deepest", k, Names, n)
     \/ /\ k \in Walked(k) /\ Found(k, stored) = NoNode /\ Below(k) = {}
        /\ IF MovesEntries THEN Crash(k, NoNode) ELSE Answer("deepest", k, Names, NoNode)

\* deepest_prefix_match(key, pred)
DeepestPrefixMatchIf(k, pred) ==
  /\ Alive
  /\ \/ /\ k \notin Walked(k) \/ Below(k) \cap pred = {}
        /\ Answer("deepestIf", k, pred, NoNode)
     \/ /\ k \in Walked(k)
        /\ \E n \in Below(k) \cap pred : Answer("deepestIf", k, pred, n)

Crashed == ~ Alive /\ UNCHANGED vars

Next == \/ \E n \in Names : Insert(n) \/ Erase(n) \/ Modify(n)
        \/ Clear \/ \E s \in Sizes : SetMaxSize(s)
        \/ \E k \in Names : LongestPrefixMatch(k) \/ DeepestPrefixMatch(k)
        \/ \E k \in Names, p \in Preds : LongestPrefixMatchIf(k, p) \/ DeepestPrefixMatchIf(k, p)
        \/ Crashed

Spec == Init /\ [][Next]_vars

-----------------------------------------------------------------------------
(* Properties. *)

TypeOK ==
  /\ policy \in Policies
  /\ nodes \subseteq Names /\ stored \subseteq Names
  /\ order \in Seq(Names) /\ Len(order) <= MaxStored
  /\ freq \in [Names -> 0..MaxFreq]
  /\ max \in Sizes \cup {MaxStored}
  /\ answer \in [op : {"none", "longest", "longestIf", "deepest", "deepestIf", "crash"},
                 key : Names, pred : SUBSET Names, found : Names \cup {NoNode}]

Distinct(s) == \A i, j \in 1..Len(s) : s[i] = s[j] => i = j

Sorted(s, f) == \A i, j \in 1..Len(s) : i < j => f[s[i]] <= f[s[j]]

\* However trie and container call each other, the container's entries are nodes
\* of the trie with a payload, each linked once, and no name with a payload is
\* outside it; only the empty name may be, for clear() leaves its payload.  LFU's
\* entries stay sorted: the next victim is one used least often.
LinkedOnce ==
  /\ Linked \subseteq stored /\ stored \subseteq Linked \cup {Root}
  /\ Distinct(order)
  /\ policy = "lfu" => Sorted(order, freq)

\* The nodes on the way to the names of st.
Cover(st) == {Root} \cup UNION {Pre[n] : n \in st}

\* Insertions that fail or evict, erasures and clear() leave exactly the nodes on
\* the way to a payload: none leaks, and none that is needed is deleted.
Pruned == nodes = Cover(stored)

\* A container at its limit does not grow, even when set_max_size() has put the
\* limit below the number of entries (nothing is evicted then).
FullNeverGrows == [][policy # "counting" /\ max # 0 /\ Len(order) >= max
                       => Len(order') <= Len(order)]_vars

\* Lookups find what a search of all stored names would.  longest_prefix_match
\* finds the longest stored prefix, and the longest that satisfies the predicate;
\* of the empty name it is only said that it may be found, for find_if() does not
\* ask the predicate about the root.  deepest_prefix_match finds something exactly
\* if there is something at or below the key, and with a predicate something at or
\* below the key that satisfies it.
LookupsAnswer ==
  LET k == answer.key  f == answer.found  prefixes == Pre[k] \cap stored
      hits == prefixes \cap answer.pred IN
  /\ answer.op \in {"longest", "longestIf"} =>
       IF f = NoNode THEN hits = {}
       ELSE f \in prefixes \cap (answer.pred \cup {Root}) /\ hits \subseteq Pre[f]
  /\ answer.op = "deepest" =>
       IF Below(k) = {} THEN f = NoNode ELSE f \in Below(k) \cup prefixes
  /\ answer.op = "deepestIf" =>
       IF Below(k) \cap answer.pred = {} THEN f = NoNode ELSE f \in Below(k) \cap answer.pred

\* What deepest_prefix_match finds is at or below the key: "Find a node that has
\* prefix at least as the key (cache lookup)" (trie-with-policy.h:170).
DeepestIsBelow ==
  answer.op = "deepest" /\ answer.found # NoNode => answer.key \in Pre[answer.found]

\* Undefined behaviour is reached in two ways only, both with the empty name: its
\* payload was stored before a clear(), or an empty trie is searched for it.
CrashNeedsRoot ==
  answer.op = "crash" => \/ answer.found = Root /\ Root \in stored
                         \/ answer.found = NoNode /\ answer.key = Root /\ stored = {}
=============================================================================
