------------------------------ MODULE NameLife ------------------------------
(***************************************************************************)
(* The life of one Name object: components, numbers and names are appended *)
(* to it in any order, and parts of it are taken.                          *)
(***************************************************************************)
EXTENDS Names

CONSTANTS
  Comps,        \* components an application appends
  CompUris,     \* components written as URIs
  Numbers,      \* numbers it appends
  MaxComps,     \* bound on the components of a name
  PacketNames   \* other names: those of interests and data packets

\* Every Name object was built by append, which drops empty components.
ASSUME NameAssumption ==
  /\ Comps \subseteq Seq(Byte) /\ CompUris \subseteq Seq(Byte)
  /\ Numbers \subseteq Nat /\ MaxComps \in Nat
  /\ PacketNames \subseteq Seq(Seq(Byte) \ {<<>>})

VARIABLE name

NameInit == name = <<>>

Build(n) == Len(n) <= MaxComps /\ name' = n

AppendSomething ==
  \/ \E c \in Comps : Build(append(name, c))
  \/ \E u \in CompUris : \E n \in appendUri(name, u) : Build(n)
  \/ \E k \in Numbers : \/ Build(appendNumber(name, k))
                        \/ Build(appendVersion(name, k))
                        \/ Build(appendSeqNum(name, k))
                        \/ Build(appendControlNum(name, k))
                        \/ Build(appendBlkId(name, k))
  \/ Build(appendAll(name, name))
  \/ \E n \in PacketNames : Build(Concat(n, name))

TakePart ==
  \E len \in 0..MaxComps, skip \in 0..1 :
    \E n \in getPrefix(name, len, skip) \cup getPostfix(name, len, skip) : Build(n)

NameNext == AppendSomething \/ TakePart

NameSpec == NameInit /\ [][NameNext]_name

-----------------------------------------------------------------------------
(* Properties *)

\* A name without a slash inside a component comes back from its URI, whatever
\* bytes it has (the storage keeps identity, key and certificate names as URIs).
\* A slash is not escaped by toEscaped, so a component with one is cut there.
\* A number that was appended to it is read back from its last component; an
\* unmarked zero adds no component at all.
UriRoundTrip ==
  /\ (\A i \in DOMAIN name : Slash \notin ToSet(name[i]))
       => NameFromUri(toUri(name)) = {name}
  /\ \A k \in Numbers :
       /\ UNION {toVersion(c) : c \in get(appendVersion(name, k), -1)} = {k}
       /\ UNION {toSeqNum(c) : c \in get(appendSeqNum(name, k), -1)} = {k}
       /\ UNION {toControlNum(c) : c \in get(appendControlNum(name, k), -1)} = {k}
       /\ UNION {toBlkId(c) : c \in get(appendBlkId(name, k), -1)} = {k}
       /\ k > 0 => {toNumber(c) : c \in get(appendNumber(name, k), -1)} = {k}

\* Name::compare is a total order (names are the keys of the wrapper's tables,
\* of the certificate caches and of the trie): antisymmetric, transitive, and
\* zero only for equal names.
NameOrder ==
  LET others == PacketNames \cup {append(<<>>, c) : c \in Comps}
  IN \A m \in others :
       /\ Compare(name, m) = -Compare(m, name)
       /\ (Compare(name, m) = 0) = (name = m)
       /\ \A k \in others :
            ~Precedes(m, k) /\ ~Precedes(name, m) => ~Precedes(name, k)
       /\ Len(name) = 1 /\ Len(m) = 1 => Precedes(name, m) = Before(name[1], m[1])
=============================================================================
