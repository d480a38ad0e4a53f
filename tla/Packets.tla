------------------------------ MODULE Packets ------------------------------
(***************************************************************************)
(* Interests (interest.h, interest.cc), data packets (data.h, data.cc,     *)
(* fields/content.h, fields/key-locator.cc, fields/signed-blob.h) and      *)
(* their encoding (wire/ndnb/wire-ndnb-interest.cc, wire-ndnb-data.cc).    *)
(* Results that may be an exception are sets, as in Names.                 *)
(***************************************************************************)
EXTENDS Ndnb

CONSTANT
  SigSize   \* bytes of an RSA signature with the default key: 256 in the code

ASSUME SigSizeAssumption == SigSize \in 17..2047

-----------------------------------------------------------------------------
(* Times *)

Unset == [s |-> -1, us |-> 0]
Negative(t) == t.s < 0

\* time::Seconds (double): modf returns the fraction and stores the whole part,
\* and the code takes them the other way round, so the fraction is lost and the
\* whole part is converted to an int of microseconds (from 2148 s on the
\* conversion overflows to the smallest int).
Seconds(t) == IF t.s > 2147 THEN [s |-> -2148, us |-> 516352] ELSE [t EXCEPT !.us = 0]

-----------------------------------------------------------------------------
(* Interests *)

ncomps == -1
AOK_DEFAULT == 3
NO_SCOPE == 255
CHILD_DEFAULT == 2

NewInterest(name) ==
  [name |-> name, maxSuffix |-> ncomps, minSuffix |-> ncomps,
   answerOriginKind |-> AOK_DEFAULT, lifetime |-> Unset, scope |-> NO_SCOPE,
   childSelector |-> CHILD_DEFAULT, exclude |-> <<>>]

setName(p, n) == [p EXCEPT !.name = n]      \* of interests and of data packets
setInterestLifetime(i, t) == [i EXCEPT !.lifetime = t]
setScope(i, n) == [i EXCEPT !.scope = n]
setMaxSuffixComponents(i, n) == [i EXCEPT !.maxSuffix = n]
setMinSuffixComponents(i, n) == [i EXCEPT !.minSuffix = n]
setAnswerOriginKind(i, k) == [i EXCEPT !.answerOriginKind = k]
setChildSelector(i, n) == [i EXCEPT !.childSelector = n]
setExclude(i, e) == [i EXCEPT !.exclude = e]

\* The copy constructor leaves m_exclude out, and operator == does not miss it.
CopyInterest(i) == [i EXCEPT !.exclude = <<>>]
SameInterest(i, j) == CopyInterest(i) = CopyInterest(j)

\* Interest (const ndn_parsed_interest *), then setName: what ndnd's library
\* parsed; lifetime and exclusions are not taken over.
FromParsed(pi, name) ==
  [NewInterest(name) EXCEPT
     !.maxSuffix = pi.max, !.minSuffix = pi.min, !.scope = pi.scope,
     !.childSelector = IF pi.orderpref \in {0, 1} THEN pi.orderpref ELSE @,
     !.answerOriginKind = IF pi.answerfrom \in {1, 2, 3, 4, 16} THEN pi.answerfrom ELSE @]

NumberUnless(default, dtag, n) == IF n = default THEN <<>> ELSE AppendTaggedNumber(dtag, n)

\* A lifetime below a second taken for none.
Lifetime_DropsZero(t) ==
  IF t.s <= 0 THEN <<>> ELSE Tagged(Dtag.InterestLifetime, AppendTimestampBlob(t))

\* A negative lifetime is not written.
Lifetime(t) ==
  IF Negative(t) THEN <<>> ELSE Tagged(Dtag.InterestLifetime, AppendTimestampBlob(t))

\* Interest::Serialize: the exclude filter is not written.
SerializeInterest(i) ==
  Tagged(Dtag.Interest,
    AppendName(i.name)
      \o NumberUnless(ncomps, Dtag.MinSuffixComponents, i.minSuffix)
      \o NumberUnless(ncomps, Dtag.MaxSuffixComponents, i.maxSuffix)
      \o NumberUnless(CHILD_DEFAULT, Dtag.ChildSelector, i.childSelector)
      \o NumberUnless(AOK_DEFAULT, Dtag.AnswerOriginKind, i.answerOriginKind)
      \o NumberUnless(NO_SCOPE, Dtag.Scope, i.scope)
      \o Lifetime(i.lifetime))

\* appendExclude: the entries upwards, ANY after the component it follows.
AppendExclude(entries) ==
  Tagged(Dtag.Exclude, FlattenSeq([k \in DOMAIN entries |->
    (IF entries[k].comp = <<>> THEN <<>> ELSE AppendTaggedBlob(Dtag.Component, entries[k].comp))
      \o (IF entries[k].any THEN Tagged(Dtag.Any, <<>>) ELSE <<>>)]))

\* appendInterest, the template the wrapper hands to ndnd next to the name: an
\* empty name, and the exclude filter when there is one.
AppendInterest(i) ==
  Tagged(Dtag.Interest,
    AppendName(<<>>)
      \o NumberUnless(ncomps, Dtag.MinSuffixComponents, i.minSuffix)
      \o NumberUnless(ncomps, Dtag.MaxSuffixComponents, i.maxSuffix)
      \o (IF i.exclude = <<>> THEN <<>> ELSE AppendExclude(i.exclude))
      \o NumberUnless(CHILD_DEFAULT, Dtag.ChildSelector, i.childSelector)
      \o NumberUnless(AOK_DEFAULT, Dtag.AnswerOriginKind, i.answerOriginKind)
      \o NumberUnless(NO_SCOPE, Dtag.Scope, i.scope)
      \o Lifetime(i.lifetime))

\* InterestVisitor: only the name, the scope and the lifetime are read.
RECURSIVE InterestVisitor(_, _)
InterestVisitor(i, b) ==
  CASE IsDtag(b, Dtag.Interest) ->
         VisitNested(InterestVisitor, i, b)
    [] IsDtag(b, Dtag.Name) -> {[i EXCEPT !.name = n] : n \in NameVisitor(<<>>, b)}
    [] IsDtag(b, Dtag.Scope) -> {[i EXCEPT !.scope = n % 256] : n \in NonNegativeInteger(b)}
    [] IsDtag(b, Dtag.InterestLifetime) ->
         {[i EXCEPT !.lifetime = t] : t \in UNION {TimestampVisitor(bytes) : bytes \in OneBlob(b)}}
    [] OTHER -> {i}

\* Interest::decodeFromWire
DecodeInterest(bytes) ==
  UNION {InterestVisitor(NewInterest(<<>>), p.block) : p \in ParseBlock(Stream(bytes))}

-----------------------------------------------------------------------------
(* Key locators and signatures *)

\* A key or a certificate as bytes, or a name.
LocatorTypes == {"NOTSET", "KEY", "CERTIFICATE", "KEYNAME"}
NoLocator == [type |-> "NOTSET", data |-> <<>>]

\* setType makes an empty value of the new type; the same type is left alone.
setType(loc, type) == IF loc.type = type THEN loc ELSE [type |-> type, data |-> <<>>]

\* The accessors of each type throw when the locator has another one.
SetAs(loc, type, data) == IF loc.type = type THEN {[loc EXCEPT !.data = data]} ELSE {}
setKey(loc, blob) == SetAs(loc, "KEY", blob)
setCertificate(loc, blob) == SetAs(loc, "CERTIFICATE", blob)
setKeyName(loc, name) == SetAs(loc, "KEYNAME", name)
getKeyName(loc) == IF loc.type = "KEYNAME" THEN {loc.data} ELSE {}

NewSignature == [bits |-> <<>>, digest |-> <<>>, locator |-> NoLocator]

-----------------------------------------------------------------------------
(* Data packets *)

\* m_wire: a byte string and the part of it that the signature covers.
NoBlob == [bytes |-> <<>>, first |-> 0, size |-> 0]
SignedBlob(bytes, offset, size) == [bytes |-> bytes, first |-> offset, size |-> size]
SignedBuf(blob) == SubSeq(blob.bytes, blob.first + 1, blob.first + blob.size)

\* Content::Type; the default constructor leaves the type uninitialized.
ContentTypes == {"DATA", "ENCR", "GONE", "KEY", "LINK", "NACK"}
NoType == "?"
noFreshness == 0
maxFreshness == 2147

NewData(name) ==
  [name |-> name, content |-> <<>>, time |-> [s |-> 0, us |-> 0], type |-> NoType,
   freshness |-> noFreshness, final |-> <<>>, signature |-> NewSignature, blob |-> NoBlob]

\* setContent with a Content built from bytes, a time and a type.
setContent(d, bytes, time, type) ==
  [d EXCEPT !.content = bytes, !.time = time, !.type = type,
            !.freshness = maxFreshness, !.final = <<>>]
setTimeStamp(d, t) == [d EXCEPT !.time = t]
setFreshness(d, n) == [d EXCEPT !.freshness = n]
setFinalBlockId(d, comp) == [d EXCEPT !.final = comp]
setSignature(d, sig) == [d EXCEPT !.signature = sig]

\* Data::SerializeUnsigned: name, SignedInfo, content.  A key locator that is
\* no name throws; type, freshness and final block are not written.
SerializeUnsigned(d) ==
  {AppendName(d.name)
     \o Tagged(Dtag.SignedInfo,
          AppendTaggedBlob(Dtag.PublisherPublicKeyDigest, d.signature.digest)
            \o Tagged(Dtag.Timestamp, AppendTimestampBlob(d.time))
            \o Tagged(Dtag.KeyLocator, Tagged(Dtag.KeyName, AppendName(k))))
     \o AppendTaggedBlob(Dtag.Content, d.content) : k \in getKeyName(d.signature.locator)}

\* Data::Serialize for a packet that forgets the bytes that were signed.
Serialize_Afresh(d) ==
  {Tagged(Dtag.Data,
     Tagged(Dtag.Signature,
            AppendTaggedBlobWithPadding(Dtag.SignatureBits, 16, d.signature.bits)) \o rest) :
     rest \in SerializeUnsigned(d)}

\* Data::Serialize: the signature, then the bytes kept in m_wire if there are
\* any, or else the fields of the packet.
Serialize(d) ==
  {Tagged(Dtag.Data,
     Tagged(Dtag.Signature,
            AppendTaggedBlobWithPadding(Dtag.SignatureBits, 16, d.signature.bits)) \o rest) :
     rest \in IF d.blob = NoBlob THEN SerializeUnsigned(d) ELSE {SignedBuf(d.blob)}}

\* TYPES of the older encoder: the bytes that stand for a content type.
TYPES == [DATA |-> <<12, 4, 192>>, ENCR |-> <<16, 208, 145>>, GONE |-> <<24, 227, 68>>,
          KEY |-> <<40, 70, 63>>, LINK |-> <<44, 131, 74>>, NACK |-> <<52, 0, 138>>]

\* appendSignature: it has the key locator inside a second Signature tag.
AppendLocator(loc) ==
  Tagged(Dtag.Signature,
    CASE loc.type = "NOTSET" -> <<>>
      [] loc.type \in {"KEY", "CERTIFICATE"} -> AppendTaggedBlob(Dtag.Key, loc.data)
      [] loc.type = "KEYNAME" -> Tagged(Dtag.KeyName, AppendName(loc.data)))

\* appendData of the older encoder: the time has no tag of its own.
AppendData(d) ==
  Tagged(Dtag.Data,
    Tagged(Dtag.Signature, AppendTaggedBlob(Dtag.SignatureBits, d.signature.bits))
      \o AppendName(d.name)
      \o Tagged(Dtag.SignedInfo,
           AppendTaggedBlob(Dtag.PublisherPublicKeyDigest, d.signature.digest)
             \o AppendTimestampBlob(d.time)
             \o AppendTaggedBlob(Dtag.Type, TYPES[d.type])
             \o NumberUnless(noFreshness, Dtag.FreshnessSeconds, d.freshness)
             \o (IF d.final = <<>> THEN <<>> ELSE AppendTaggedBlob(Dtag.FinalBlockID, d.final))
             \o AppendLocator(d.signature.locator))
      \o AppendTaggedBlob(Dtag.Content, d.content))

\* toType: anything that is not in the table throws.
toType(bytes) == {t \in ContentTypes : TYPES[t] = bytes}

\* DataVisitor; a freshness is read as the largest one.
RECURSIVE DataVisitor(_, _)
DataVisitor(d, b) ==
  CASE \/ IsDtag(b, Dtag.Data) \/ IsDtag(b, Dtag.Signature)
       \/ IsDtag(b, Dtag.SignedInfo) \/ IsDtag(b, Dtag.KeyLocator) ->
         VisitNested(DataVisitor, d, b)
    [] IsDtag(b, Dtag.SignatureBits) ->
         {[d EXCEPT !.signature.bits = x] : x \in OneBlob(b)}
    [] IsDtag(b, Dtag.PublisherPublicKeyDigest) ->
         {[d EXCEPT !.signature.digest = x] : x \in OneBlob(b)}
    [] IsDtag(b, Dtag.Timestamp) ->
         {setTimeStamp(d, t) : t \in UNION {TimestampVisitor(x) : x \in OneBlob(b)}}
    [] IsDtag(b, Dtag.Type) ->
         {[d EXCEPT !.type = t] :
            t \in UNION {toType(x) : x \in UNION {ContentTypeVisitor(y) : y \in OneBlob(b)}}}
    [] IsDtag(b, Dtag.FreshnessSeconds) -> {setFreshness(d, maxFreshness)}
    [] IsDtag(b, Dtag.KeyName) ->
         {[d EXCEPT !.signature.locator = l] :
            l \in UNION {setKeyName(setType(d.signature.locator, "KEYNAME"), n) :
                           n \in NameVisitor(<<>>, b)}}
    [] IsDtag(b, Dtag.Name) -> {setName(d, n) : n \in NameVisitor(<<>>, b)}
    [] IsDtag(b, Dtag.Content) -> {[d EXCEPT !.content = x] : x \in OneBlob(b)}
    [] OTHER -> {d}

\* The offset without the closers of SignatureBits and Signature.
MagicOffset_NoClosers == 2 + (2 + (2 + (2 + SigSize)))

\* MAGIC_SIGNED_BLOB_OFFSET: where the signed bytes start when the signature
\* has SigSize bytes.
MagicOffset == 2 + (2 + (2 + (2 + SigSize) + 1) + 1)

\* Data::decodeFromWire (Ptr<const Blob>): all the bytes are kept, the signed
\* part is taken from the fixed offset up to the last closer.
DecodeData(bytes) ==
  UNION {DataVisitor([NewData(<<>>) EXCEPT
           !.blob = SignedBlob(bytes, MagicOffset, Len(bytes) - MagicOffset - 1)], p.block) :
           p \in ParseBlock(Stream(bytes))}
=============================================================================
