------------------------------- MODULE Ndnb --------------------------------
(***************************************************************************)
(* The ndnb parser (wire/ndnb/ndnb-parser): tags and attributes, which     *)
(* hold blocks of their own, and the visitors that read a parsed block.    *)
(***************************************************************************)
EXTENDS NdnbBlocks

-----------------------------------------------------------------------------
(* The parser *)

RECURSIVE ParseBlock(_)
RECURSIVE Nested(_, _)

\* A tag that the end of the stream closes as well.
Nested_EndCloses(in, blocks) ==
  IF AtEnd(in) THEN {[blocks |-> blocks, in |-> AfterPeek(in)]}
  ELSE IF PeekU8(in) = CLOSE THEN {[blocks |-> blocks, in |-> ReadU8(in)]}
  ELSE UNION {Nested(p.in, Append(blocks, p.block)) : p \in ParseBlock(in)}

\* The nested blocks of a tag up to its closer; attributes stand first and
\* are no nested blocks.  The end of the stream inside the tag is an error.
Nested(in, blocks) ==
  LET peeked == AfterPeek(in)
      isAttr(b) == b.tt \in {ATTR, DATTR}
  IN IF in.eof THEN {}
     ELSE IF PeekU8(in) = CLOSE /\ ~peeked.eof
     THEN {[blocks |-> blocks, in |-> ReadU8(peeked)]}
     ELSE UNION {Nested(p.in, IF blocks = <<>> /\ isAttr(p.block) THEN blocks
                              ELSE Append(blocks, p.block)) :
                   p \in ParseBlock(peeked)}

ParseDtag(in, dtag) == {Parsed(DtagBlock(dtag, n.blocks), n.in) : n \in Nested(in, <<>>)}

\* The name of a tag has value + 1 bytes.
ParseTag(in, value) ==
  UNION {{Parsed(TagBlock(t.bytes, n.blocks), n.in) : n \in Nested(t.in, <<>>)} :
           t \in Take(in, value + 1)}

\* Attr has a name of value + 1 bytes, Dattr a number; a UDATA must follow.
AttrValue(in) == {p \in ParseBlock(in) : p.block.tt = UDATA}
ParseAttr(in, value) ==
  UNION {{Parsed(AttrBlock(t.bytes, p.block), p.in) : p \in AttrValue(t.in)} :
           t \in Take(in, value + 1)}
ParseDattr(in, value) == {Parsed(DattrBlock(value, p.block), p.in) : p \in AttrValue(in)}

\* Block::ParseBlock.  The exception for a header cut short is created and not
\* thrown: a read past the end shows as type 7, eof before it as an EXT.
ParseBlock(in) ==
  LET h == Header(in)
      value == HeaderValue(h)
      tt == HeaderType(h)
  IN CASE tt = EXT   -> ParseExt(h.in, value)
       [] tt = TAG   -> ParseTag(h.in, value)
       [] tt = DTAG  -> ParseDtag(h.in, value)
       [] tt = ATTR  -> ParseAttr(h.in, value)
       [] tt = DATTR -> ParseDattr(h.in, value)
       [] tt = BLOB  -> ParseBlob(h.in, value)
       [] tt = UDATA -> ParseUdata(h.in, value)
       [] OTHER -> {}

-----------------------------------------------------------------------------
(* Visitors: what a decoder reads from a parsed block. *)

IsDtag(b, dtag) == b.tt = DTAG /\ b.val = dtag

\* VoidDepthFirstVisitor: the nested blocks in order, each with what the visit
\* of the one before it has left.
VisitNested(Visit(_, _), x, b) ==
  FoldLeft(LAMBDA xs, c : UNION {Visit(y, c) : y \in xs}, {x}, b.nested)

\* A tag that must have exactly one block inside it, a BLOB.
OneBlob(b) ==
  IF Len(b.nested) = 1 /\ b.nested[1].tt = BLOB THEN {b.nested[1].val} ELSE {}

\* StringVisitor: the bytes of the one block inside a tag, of either kind.
StringVisitor(b) ==
  IF Len(b.nested) = 1 /\ b.nested[1].tt \in {BLOB, UDATA} THEN {b.nested[1].val} ELSE {}

\* NameVisitor: every Component below the block, in order, each with exactly
\* one block of bytes; other tags are walked through.
RECURSIVE NameVisitor(_, _)
NameVisitor(name, b) ==
  IF IsDtag(b, Dtag.Component) THEN {append(name, c) : c \in StringVisitor(b)}
  ELSE IF b.tt \in {TAG, DTAG} THEN VisitNested(NameVisitor, name, b)
  ELSE {name}

DeserializeName(bytes) ==
  UNION {NameVisitor(<<>>, p.block) : p \in ParseBlock(Stream(bytes))}

\* NonNegativeIntegerVisitor: only UDATA, read as decimal digits into an int32_t;
\* the stream's >> stores the greatest one for what is above it.
MaxInt32 == 2147483647
NonNegativeInteger(b) ==
  IF Len(b.nested) = 1 /\ b.nested[1].tt = UDATA
    THEN {Min({MaxInt32, FromDecimal(b.nested[1].val)})} ELSE {}

\* ContentTypeVisitor: three signed chars are shifted and joined, so that a byte
\* from 128 on sets every bit above it.
ContentTypeVisitor(bytes) ==
  IF Len(bytes) # 3 \/ \E i \in 1..3 : bytes[i] >= 128 THEN {} ELSE {bytes}
=============================================================================
