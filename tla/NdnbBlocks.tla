----------------------------- MODULE NdnbBlocks -----------------------------
(***************************************************************************)
(* The ndnb encoder (wire/ndnb/wire-ndnb.cc and its older twin             *)
(* wire/ndnb.cc), and how block headers, blobs, numbers and times are read *)
(* (wire/ndnb/ndnb-parser).  Bytes are numbers in 0..255.  A parsed block  *)
(* is a record [tt, val, nested]: the type of the block, its number or its *)
(* bytes, and the blocks inside it.  A TimeInterval is a record [s, us] of *)
(* seconds and microseconds, s negative for a negative one.                *)
(***************************************************************************)
EXTENDS Names, ByteStream

EXT == 0
TAG == 1
DTAG == 2
ATTR == 3
DATTR == 4
BLOB == 5
UDATA == 6
CLOSE == 0

\* enum ndn_dtag: the tags that the encoders write or the visitors know.
Dtag ==
  [Any |-> 13, Name |-> 14, Component |-> 15, Content |-> 19,
   SignedInfo |-> 20, Interest |-> 26, Key |-> 27, KeyLocator |-> 28,
   KeyName |-> 29, Signature |-> 37, Timestamp |-> 39, Type |-> 40,
   Scope |-> 42, Exclude |-> 43, AnswerOriginKind |-> 47,
   InterestLifetime |-> 48, SignatureBits |-> 54,
   FreshnessSeconds |-> 58, FinalBlockID |-> 59,
   PublisherPublicKeyDigest |-> 60, Data |-> 64,
   MinSuffixComponents |-> 83, MaxSuffixComponents |-> 84,
   ChildSelector |-> 85]

-----------------------------------------------------------------------------
(* The encoder *)

\* The loops that count how often a number is shifted before nothing is left.
DigitCount(base, n) ==
  LET count[k \in 0..n] == IF k = 0 THEN 0 ELSE count[k \div base] + 1
  IN count[n]

\* The last byte has the high bit, four bits of the number and the type; the
\* groups of seven bits above them come first.
AppendBlockHeader(val, tt) ==
  DigitsIn(128, val \div 16) \o <<128 + (val % 16) * 8 + tt>>

EstimateBlockHeader(val) == 1 + DigitCount(128, val \div 16)

Tagged(dtag, bytes) == AppendBlockHeader(dtag, DTAG) \o bytes \o <<CLOSE>>

\* AppendNumber: the number in decimal, as UDATA.
Decimal(n) ==
  IF n = 0 THEN <<48>>
  ELSE LET digits == DigitsIn(10, n) IN [i \in 1..Len(digits) |-> 48 + digits[i]]
AppendNumber(n) == AppendBlockHeader(Len(Decimal(n)), UDATA) \o Decimal(n)
EstimateNumber(n) == EstimateBlockHeader(Len(Decimal(n))) + Len(Decimal(n))
AppendTaggedNumber(dtag, n) == Tagged(dtag, AppendNumber(n))

\* AppendString: a tag with text in it.
AppendString(dtag, s) == Tagged(dtag, AppendBlockHeader(Len(s), UDATA) \o s)
EstimateString(dtag, s) ==
  EstimateBlockHeader(dtag) + EstimateBlockHeader(Len(s)) + Len(s) + 1

AppendBlob(data) == AppendBlockHeader(Len(data), BLOB) \o data

\* AppendTaggedBlob: an empty blob leaves no block inside the tag.
AppendTaggedBlob(dtag, data) ==
  Tagged(dtag, IF data = <<>> THEN <<>> ELSE AppendBlob(data))

\* AppendTaggedBlobWithPadding: filled up with zeros to length bytes.
AppendTaggedBlobWithPadding(dtag, length, data) ==
  IF Len(data) > length THEN AppendTaggedBlob(dtag, data)
  ELSE Tagged(dtag, AppendBlob(data \o [i \in 1..(length - Len(data)) |-> 0]))

EstimateTaggedBlob(dtag, size) ==
  IF size > 0 THEN EstimateBlockHeader(dtag) + EstimateBlockHeader(size) + size + 1
  ELSE EstimateBlockHeader(dtag) + 1

SerializeName(name) ==
  FlattenSeq([i \in DOMAIN name |-> AppendTaggedBlob(Dtag.Component, name[i])])
AppendName(name) == Tagged(Dtag.Name, SerializeName(name))

SerializedSizeName(name) ==
  LET written[i \in 0..Len(name)] ==
        IF i = 0 THEN 0
        ELSE written[i - 1] + EstimateTaggedBlob(Dtag.Component, Len(name[i]))
  IN written[Len(name)]

\* The number of bytes of a timestamp: 12 bits of fraction, 4 bits of seconds,
\* and whole bytes (five at most) for the seconds above them.
RequiredBytes(ts) == Min({7, 2 + DigitCount(256, ts)})

\* The fraction of a second in 4096ths, rounded.
Fraction(us) == (us * 1600 + 195312) \div 390625

\* The bytes of a timestamp; the last 16 bits overflow when the fraction
\* rounds up to a second and the low bits of the seconds are all ones.
TimestampBytes(t) ==
  LET high == t.s \div 16
      all  == DigitsIn(256, high)
      kept == RequiredBytes(high) - 2
      low  == ((t.s % 16) * 4096 + Fraction(t.us)) % 65536
  IN SubSeq(all, Len(all) - kept + 1, Len(all)) \o <<low \div 256, low % 256>>

AppendTimestampBlob(t) == AppendBlob(TimestampBytes(t))
EstimateTimestampBlob(t) ==
  EstimateBlockHeader(RequiredBytes(t.s \div 16)) + RequiredBytes(t.s \div 16)

-----------------------------------------------------------------------------
(* Reading.  A parse returns the set of [block, in], in the stream after    *)
(* the block: empty when the parser throws.                                 *)

\* Where the first byte with the high bit is at or after in, or the position
\* after the last byte.
HeaderEnd(in) ==
  LET from[i \in in.at..(Len(in.b) + 1)] ==
        IF i = Len(in.b) + 1 \/ in.b[i] >= 128 THEN i ELSE from[i + 1]
  IN from[in.at]

\* The header loop: groups of seven bits, and the byte with the high bit (a
\* read past the end is one, too).  value is a uint32_t; the encodings of the
\* model stay far below its limit.
Header(in) ==
  LET last == [in EXCEPT !.at = HeaderEnd(in)]
  IN IF in.eof THEN [value |-> 0, byte |-> 0, in |-> in]
     ELSE [value |-> NumberIn(128, SubSeq(in.b, in.at, last.at - 1)),
           byte |-> PeekU8(last), in |-> ReadU8(last)]

\* The number and the type that a header stands for.
HeaderValue(h) == h.value * 16 + (h.byte % 128) \div 8
HeaderType(h) == h.byte % 8

\* Blob and Udata: length reads.  A read past the end raises eof, and the
\* test after the loop misses it when it was the last one.
Take(in, length) ==
  LET left == Len(in.b) + 1 - in.at
      last == [in EXCEPT !.at = Len(in.b) + 1]
  IN IF length = 0 THEN {[bytes |-> <<>>, in |-> in]}
     ELSE IF in.eof \/ length > left + 1 THEN {}
     ELSE IF length > left
     THEN {[bytes |-> SubSeq(in.b, in.at, Len(in.b)) \o <<PeekU8(last)>>, in |-> ReadU8(last)]}
     ELSE {[bytes |-> SubSeq(in.b, in.at, in.at + length - 1), in |-> [in EXCEPT !.at = @ + length]]}

\* A parsed block.
Block(tt, val, nested) == [tt |-> tt, val |-> val, nested |-> nested]
Parsed(block, in) == [block |-> block, in |-> in]

\* The classes of the syntax tree.
ExtBlock(subtype) == Block(EXT, subtype, <<>>)
BlobBlock(bytes) == Block(BLOB, bytes, <<>>)
UdataBlock(bytes) == Block(UDATA, bytes, <<>>)
TagBlock(tag, nested) == Block(TAG, tag, nested)
DtagBlock(dtag, nested) == Block(DTAG, dtag, nested)
AttrBlock(attr, value) == Block(ATTR, attr, <<value>>)
DattrBlock(dattr, value) == Block(DATTR, dattr, <<value>>)

ParseExt(in, subtype) == {Parsed(ExtBlock(subtype), in)}
ParseBlob(in, length) == {Parsed(BlobBlock(t.bytes), t.in) : t \in Take(in, length)}
ParseUdata(in, length) == {Parsed(UdataBlock(t.bytes), t.in) : t \in Take(in, length)}

\* The decimal digits of a UDATA.
FromDecimal(s) == NumberIn(10, [i \in 1..Len(s) |-> s[i] - 48])

\* The seconds are an int: of the part above the low four bits it keeps 28, the
\* highest of them the sign (overflowing shifts wrap around in the builds).
IntHigh == 134217728   \* 2^27
HighInInt(high) == ((high + IntHigh) % (2 * IntHigh)) - IntHigh

\* TimestampVisitor over the bytes of a BLOB: whole seconds from all but the
\* last 12 bits.  The last byte is a signed char, so from 128 on it makes the
\* fraction negative, and the fraction is scaled to thousandths of what it was.
TimestampVisitor(bytes) ==
  LET n    == Len(bytes)
      sec  == HighInInt(toNumber(SubSeq(bytes, 1, n - 2))) * 16 + bytes[n - 1] \div 16
      last == bytes[n]
      frac == IF last < 128 THEN (bytes[n - 1] % 16) * 256 + last ELSE last - 256
      us   == IF frac >= 0 THEN ((frac * 15625) \div 64) \div 1000
              ELSE - (((-frac * 15625) \div 64) \div 1000)
  IN IF n < 2 THEN {}
     ELSE {IF us >= 0 THEN [s |-> sec, us |-> us] ELSE [s |-> sec - 1, us |-> 1000000 + us]}

\* Of a time, the whole seconds survive the wire: the decoder scales the
\* fraction away, and takes up to 31 microseconds off when the last byte is
\* above 127.  A fraction that rounds up to a second is lost, with 16 seconds,
\* when the low four bits of the seconds are ones.  This is for times before
\* 2^31 seconds: beyond, the decoder's int of seconds overflows.
TimeSurvives(sent, got) ==
  (sent.s % 16 # 15 \/ Fraction(sent.us) < 4096) =>
    LET s == IF Fraction(sent.us) = 4096 THEN sent.s + 1 ELSE sent.s
    IN \/ got.s = s /\ got.us < 1000
       \/ got.s = s - 1 /\ got.us >= 1000000 - 31
=============================================================================
