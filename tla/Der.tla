-------------------------------- MODULE Der --------------------------------
(***************************************************************************)
(* The DER helpers (helpers/der) and object identifiers (helpers/oid): a   *)
(* node is a record [type, payload, children], payload the bytes of a leaf *)
(* and children the nodes of a sequence.  An operation that may throw      *)
(* returns the set of its results.                                         *)
(***************************************************************************)
EXTENDS ByteStream, SequencesExt

\* enum DerType: the types the parser knows.
DerType ==
  [BOOLEAN |-> 1, INTEGER |-> 2, BIT_STRING |-> 3, OCTET_STRING |-> 4, NULL |-> 5,
   OBJECT_IDENTIFIER |-> 6, PRINTABLE_STRING |-> 19, GENERALIZED_TIME |-> 24, SEQUENCE |-> 48]

DerLeaf(type, payload) == [type |-> type, payload |-> payload, children |-> <<>>]
DerSequence(children) == [type |-> DerType.SEQUENCE, payload |-> <<>>, children |-> children]

DerBool(value) == DerLeaf(DerType.BOOLEAN, <<IF value THEN 255 ELSE 0>>)
DerInteger(bytes) == DerLeaf(DerType.INTEGER, bytes)
DerBitString(bytes, padding) == DerLeaf(DerType.BIT_STRING, <<padding>> \o bytes)
DerOctetString(bytes) == DerLeaf(DerType.OCTET_STRING, bytes)
DerPrintableString(bytes) == DerLeaf(DerType.PRINTABLE_STRING, bytes)
DerNull == DerLeaf(DerType.NULL, <<>>)

\* The bytes of a number, most significant first.
RECURSIVE BigEndian(_)
BigEndian(n) == IF n = 0 THEN <<>> ELSE BigEndian(n \div 256) \o <<n % 256>>

\* encodeHeader: one byte for a size below 127, else the count of bytes and
\* the bytes.
encodeHeader(type, size) ==
  <<type>> \o (IF size >= 127 THEN <<128 + Len(BigEndian(size))>> \o BigEndian(size)
               ELSE <<size>>)

\* encode (with updateSize) and getRaw: the header, then the payload or the
\* children.  (A decoded leaf keeps the header it came with; the one written
\* here is the same for every leaf this encoder made.)
RECURSIVE DerEncode(_)
DerEncode(node) ==
  LET body == IF node.type = DerType.SEQUENCE
              THEN FlattenSeq([i \in DOMAIN node.children |-> DerEncode(node.children[i])])
              ELSE node.payload
  IN encodeHeader(node.type, Len(body)) \o body

\* encode128: groups of seven bits, the high bit on all but the last.
RECURSIVE HighGroups(_)
HighGroups(n) == IF n = 0 THEN <<>> ELSE HighGroups(n \div 128) \o <<128 + (n % 128)>>
encode128(value) == HighGroups(value \div 128) \o <<value % 128>>

\* DerOid::prepareEncoding: the first two integers share a byte.
DerOid(oid) ==
  IF \/ oid = <<>>
     \/ oid[1] \notin 0..2
     \/ Len(oid) >= 2 /\ oid[2] \notin 0..39
  THEN {}
  ELSE {DerLeaf(DerType.OBJECT_IDENTIFIER,
          encode128(oid[1] * 40 + (IF Len(oid) >= 2 THEN oid[2] ELSE 0))
            \o FlattenSeq([i \in 1..(Len(oid) - 2) |-> encode128(oid[i + 2])]))}

\* The decimal digits that stand for a date and time of day in ISO form
\* (external: boost::posix_time::to_iso_string), and back.
RECURSIVE Digits(_, _)
Digits(n, width) == IF width = 0 THEN <<>> ELSE Digits(n \div 10, width - 1) \o <<48 + (n % 10)>>
FromDigits(s) == FoldLeft(LAMBDA n, d : n * 10 + (d - 48), 0, s)

\* DerGtime: fourteen digits, the microseconds when there are any, and Z.
DerGtime(t) ==
  DerLeaf(DerType.GENERALIZED_TIME,
    Digits(t.s, 14) \o (IF t.us = 0 THEN <<>> ELSE <<46>> \o Digits(t.us, 6)) \o <<90>>)

-----------------------------------------------------------------------------
(* The parser: the set of [node, size, in], size the getSize() of the node. *)

\* A long-form size: count bytes, at least one.
RECURSIVE LongSize(_, _, _)
LongSize(in, count, size) ==
  LET now == size * 256 + PeekU8(in)
  IN IF count <= 1 THEN [size |-> now, in |-> ReadU8(in)]
     ELSE LongSize(ReadU8(in), count - 1, now)

\* decodeHeader
decodeHeader(in) ==
  LET afterType == ReadU8(in)
      sizeLen == PeekU8(afterType)
      afterLen == ReadU8(afterType)
  IN IF sizeLen < 128 THEN [size |-> sizeLen, in |-> afterLen]
     ELSE LongSize(afterLen, sizeLen - 128, 0)

\* DerNode::decode: the payload is read in one go.  (Cut short it would leave
\* the rest of the buffer as it was; ndnb delivers contents whole.)  A leaf
\* keeps the header it came with, so its size is what was read.
DecodeLeaf(in) ==
  LET h == decodeHeader(in)
  IN IF h.in.at + h.size - 1 > Len(in.b) THEN {}
     ELSE {[node |-> DerLeaf(PeekU8(in), SubSeq(in.b, h.in.at, h.in.at + h.size - 1)),
            size |-> h.in.at + h.size - in.at,
            in |-> [h.in EXCEPT !.at = @ + h.size]]}

RECURSIVE DerParse(_)
RECURSIVE Children(_, _, _, _)

\* DerComplex: children are parsed until their sizes add up.
Children(in, nodes, accSize, size) ==
  IF accSize >= size THEN {[nodes |-> nodes, in |-> in]}
  ELSE UNION {Children(p.in, Append(nodes, p.node), accSize + p.size, size) :
                p \in DerParse(in)}

\* DerComplex::getSize encodes the header anew, whatever form was read.
DecodeSequence(in) ==
  LET h == decodeHeader(in)
  IN {[node |-> DerSequence(c.nodes), in |-> c.in,
       size |-> Len(encodeHeader(DerType.SEQUENCE, h.size)) + h.size] :
        c \in Children(h.in, <<>>, 0, h.size)}

\* DerNode::parse: other types are refused.
DerParse(in) ==
  CASE PeekU8(in) = DerType.SEQUENCE -> DecodeSequence(in)
    [] PeekU8(in) \in {DerType.BOOLEAN, DerType.INTEGER, DerType.BIT_STRING, DerType.OCTET_STRING, DerType.NULL,
                       DerType.OBJECT_IDENTIFIER, DerType.PRINTABLE_STRING, DerType.GENERALIZED_TIME}
         -> DecodeLeaf(in)
    [] OTHER -> {}

-----------------------------------------------------------------------------
(* SimpleVisitor: the value of a leaf.  It is a boost::any, so a reader     *)
(* that asks for another type than the node's own throws: the readers below *)
(* are indexed by the type they cast to.                                    *)

AsBool(node) == IF node.type = DerType.BOOLEAN THEN {node.payload[1] # 0} ELSE {}
AsString(node) == IF node.type = DerType.PRINTABLE_STRING THEN {node.payload} ELSE {}
AsBlobPtr(node) == IF node.type = DerType.OCTET_STRING THEN {node.payload} ELSE {}
AsBlob(node) == IF node.type \in {DerType.INTEGER, DerType.BIT_STRING} THEN {node.payload} ELSE {}

\* decode128 from position i: the value and the position after it.
RECURSIVE decode128(_, _, _)
decode128(payload, i, result) ==
  IF payload[i] >= 128 THEN decode128(payload, i + 1, result * 128 + payload[i] - 128)
  ELSE [value |-> result * 128 + payload[i], next |-> i + 1]

RECURSIVE OidTail(_, _)
OidTail(payload, i) ==
  IF i > Len(payload) THEN <<>>
  ELSE LET d == decode128(payload, i, 0) IN <<d.value>> \o OidTail(payload, d.next)

AsOid(node) ==
  IF node.type = DerType.OBJECT_IDENTIFIER
  THEN {<<node.payload[1] \div 40, node.payload[1] % 40>> \o OidTail(node.payload, 2)}
  ELSE {}

\* The first fourteen digits: a fraction is dropped.
AsTime(node) ==
  IF node.type = DerType.GENERALIZED_TIME
  THEN {[s |-> FromDigits(SubSeq(node.payload, 1, 14)), us |-> 0]} ELSE {}
=============================================================================
