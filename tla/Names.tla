------------------------------- MODULE Names -------------------------------
(***************************************************************************)
(* Names (fields/name.h, fields/name.cc), their components                 *)
(* (fields/name-component.h, .cc) and the URI escaping they share          *)
(* (helpers/uri.h).  A byte is a number in 0..255, a component a sequence  *)
(* of bytes, a name a sequence of components, a URI a sequence of bytes.   *)
(*                                                                         *)
(* An operation that may throw returns the set of its results: one value,  *)
(* or none when it throws.                                                 *)
(***************************************************************************)
EXTENDS Integers, Sequences, SequencesExt, FiniteSetsExt

Byte == 0..255

Slash == 47
Percent == 37

\* The bytes that ESCAPE_CHARACTER says must be written as %XX: control
\* bytes, space, " % < > \ ^ ` { | } and everything from DEL up.
EscapeCharacter ==
  0..32 \cup {34, 37, 60, 62, 92, 94, 96} \cup 123..125 \cup 127..255

\* lookup_table of toEscaped: the digit that writes a 4-bit number.
HexDigit(d) == IF d < 10 THEN 48 + d ELSE 55 + d

\* hex_to_4_bit: the numbers a digit stands for, in upper or lower case.
HexValue(ch) ==
  {d \in 0..15 : ch = HexDigit(d) \/ (d >= 10 /\ ch = HexDigit(d) + 32)}

\* A character as toEscaped writes it, for a table in which % is a plain one.
Escaped_PlainPercent(b) ==
  IF b \in EscapeCharacter \ {Percent} THEN <<Percent, HexDigit(b \div 16), HexDigit(b % 16)>>
  ELSE <<b>>

\* A character as toEscaped writes it.
Escaped(b) ==
  IF b \in EscapeCharacter THEN <<Percent, HexDigit(b \div 16), HexDigit(b % 16)>> ELSE <<b>>

toEscaped(comp) == FlattenSeq([i \in DOMAIN comp |-> Escaped(comp[i])])

\* The loop from position i on: a % takes two digits; any other character that
\* should have been escaped is refused.
fromEscaped(s) ==
  LET from[i \in 1..(Len(s) + 1)] ==
        IF i = Len(s) + 1 THEN {<<>>}
        ELSE IF s[i] = Percent
        THEN IF i + 2 > Len(s) THEN {}
             ELSE {<<hi * 16 + lo>> \o rest : hi \in HexValue(s[i + 1]), lo \in HexValue(s[i + 2]),
                                             rest \in from[i + 3]}
        ELSE IF s[i] \in EscapeCharacter THEN {}
        ELSE {<<s[i]>> \o rest : rest \in from[i + 1]}
  IN from[1]

-----------------------------------------------------------------------------
(* Components *)

\* The constructors from a URI: its exceptions become those of a component.
ComponentFromUri(s) == fromEscaped(s)
ComponentToUri(comp) == toEscaped(comp)

Sgn(b) == IF b < 0 THEN -1 ELSE IF b > 0 THEN 1 ELSE 0
\* A component is a vector of (signed) char, and the comparison uses its sign.
SignedChar(b) == IF b < 128 THEN b ELSE b - 256
FirstDifference(s, t) ==
  Min({i \in 1..Len(s) : i > Len(t) \/ s[i] # t[i]})

\* Component comparison that reads only the common prefix.
CompareComponent_Prefix(c, d) ==
  LET n == IF Len(c) < Len(d) THEN Len(c) ELSE Len(d)
      p == SubSeq(c, 1, n)
      q == SubSeq(d, 1, n)
  IN IF p = q THEN 0
     ELSE LET i == FirstDifference(p, q) IN Sgn(SignedChar(p[i]) - SignedChar(q[i]))

\* Component::compare: the shorter one first, then by bytes.
CompareComponent(c, d) ==
  IF Len(c) # Len(d) THEN Sgn(Len(c) - Len(d))
  ELSE IF c = d THEN 0
  ELSE LET i == FirstDifference(c, d) IN Sgn(SignedChar(c[i]) - SignedChar(d[i]))

\* operator <; the other three follow from compare in the same way.
Before(c, d) == CompareComponent(c, d) < 0

\* Positional notation, most significant digit first; zero has no digits.
DigitsIn(base, n) ==
  LET digits[k \in 0..n] == IF k = 0 THEN <<>> ELSE Append(digits[k \div base], k % base)
  IN digits[n]
NumberIn(base, digits) ==
  LET value[i \in 0..Len(digits)] == IF i = 0 THEN 0 ELSE value[i - 1] * base + digits[i]
  IN value[Len(digits)]

\* fromNumber: no byte at all for zero.
fromNumber(n) == DigitsIn(256, n)
fromNumberWithMarker(n, marker) == <<marker>> \o fromNumber(n)

\* toNumber (the numbers of the model stay below 2^31, where 64 bits cannot
\* overflow).
toNumber(c) == NumberIn(256, c)
toNumberWithMarker(c, marker) ==
  IF c = <<>> \/ c[1] # marker THEN {} ELSE {toNumber(Tail(c))}

SeqNumMarker == 0
ControlMarker == 193
BlkIdMarker == 251
VersionMarker == 253
toSeqNum(c) == toNumberWithMarker(c, SeqNumMarker)
toControlNum(c) == toNumberWithMarker(c, ControlMarker)
toBlkId(c) == toNumberWithMarker(c, BlkIdMarker)
toVersion(c) == toNumberWithMarker(c, VersionMarker)

-----------------------------------------------------------------------------
(* Names *)

\* append, appendBySwap: an empty component is dropped.
append(name, comp) == IF comp = <<>> THEN name ELSE Append(name, comp)
\* append (begin, end), append (const Name &)
appendAll(name, comps) == name \o FlattenSeq([i \in DOMAIN comps |-> append(<<>>, comps[i])])
\* operator +
Concat(n, m) == appendAll(appendAll(<<>>, n), m)
\* append (const std::string &): the component is written as a URI.
appendUri(name, s) == {append(name, c) : c \in ComponentFromUri(s)}
appendNumber(name, n) == append(name, fromNumber(n))
appendNumberWithMarker(name, n, marker) == append(name, fromNumberWithMarker(n, marker))
\* appendVersion with a version: nversion takes the clock instead.
appendVersion(name, v) == appendNumberWithMarker(name, v, VersionMarker)
appendSeqNum(name, n) == appendNumberWithMarker(name, n, SeqNumMarker)
appendControlNum(name, n) == appendNumberWithMarker(name, n, ControlMarker)
appendBlkId(name, n) == appendNumberWithMarker(name, n, BlkIdMarker)

\* get: a negative index counts from the back.
get(name, index) ==
  LET i == IF index < 0 THEN Len(name) + index ELSE index
  IN IF i \in 0..(Len(name) - 1) THEN {name[i + 1]} ELSE {}

\* getSubName; len = npos is everything from pos on, and its test compares
\* pos + (size - pos) with size, which holds in 64-bit arithmetic for every pos.
npos == -1
getSubName(name, pos, len) ==
  IF len = npos THEN {SubSeq(name, pos + 1, Len(name))}
  ELSE IF pos + len > Len(name) THEN {}
  ELSE {SubSeq(name, pos + 1, pos + len)}
getPrefix(name, len, skip) == getSubName(name, skip, len)
\* getPostfix: size - len - skip wraps around below zero, and the loop from
\* there to pos + len = size - skip runs over nothing.
getPostfix(name, len, skip) ==
  IF Len(name) - len - skip < 0
  THEN IF skip > Len(name) THEN {} ELSE {<<>>}
  ELSE getSubName(name, Len(name) - len - skip, len)

\* Name::compare: by components, then the prefix before the longer name.
Compare(n, m) ==
  LET common == 1..(IF Len(n) < Len(m) THEN Len(n) ELSE Len(m))
      differ == {i \in common : CompareComponent(n[i], m[i]) # 0}
  IN IF differ # {} THEN CompareComponent(n[Min(differ)], m[Min(differ)])
     ELSE Sgn(Len(n) - Len(m))

\* operator <, the order of a std::map of names
Precedes(n, m) == Compare(n, m) < 0

toUri(name) ==
  IF name = <<>> THEN <<Slash>>
  ELSE FlattenSeq([i \in DOMAIN name |-> <<Slash>> \o ComponentToUri(name[i])])

\* Where the next slash is at or after i, or the position after the end.
FindSlash(uri, i) ==
  Min({j \in i..Len(uri) : uri[j] = Slash} \cup {Len(uri) + 1})

\* "ndn:", in any case.
NdnScheme(s) == Len(s) = 4 /\ s[1] \in {78, 110} /\ s[2] \in {68, 100}
                           /\ s[3] \in {78, 110} /\ s[4] = 58

\* The loop of the constructor from position start on: skip slashes, take a
\* component, go on.
Components(uri, start) ==
  LET from[i \in 1..(Len(uri) + 1)] ==
        IF i = Len(uri) + 1 THEN {<<>>}
        ELSE IF uri[i] = Slash THEN from[i + 1]
        ELSE LET e == FindSlash(uri, i)
             IN {append(<<>>, c) \o rest : c \in ComponentFromUri(SubSeq(uri, i, e - 1)), rest \in from[e]}
  IN from[start]

\* Name (const string &): an optional scheme, an authority that is skipped,
\* and the components.
NameFromUri(uri) ==
  LET first == FindSlash(uri, 1)
      start == IF first < Len(uri) /\ uri[first + 1] = Slash
               THEN FindSlash(uri, first + 2)
               ELSE first
  IN IF \/ first > Len(uri)
        \/ first > 1 /\ ~NdnScheme(SubSeq(uri, 1, first - 1))
        \/ start > Len(uri)
     THEN {}
     ELSE Components(uri, start)
=============================================================================
