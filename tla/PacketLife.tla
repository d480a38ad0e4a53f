----------------------------- MODULE PacketLife -----------------------------
(***************************************************************************)
(* The life of one packet object: a name (NameLife), an exclude filter     *)
(* (Exclude), an interest or a data packet whose fields are set in any     *)
(* order, a certificate, and the steps that encode, sign, send and read    *)
(* them back.                                                              *)
(*                                                                         *)
(* interest.m_wire is never used by the code and has no counterpart here.  *)
(***************************************************************************)
EXTENDS Certificates, NameLife, Exclude

CONSTANTS
  SuffixCounts, \* values of the suffix selectors, ncomps among them
  Selectors,    \* pairs <<answer origin kind, child selector>>
  Scopes, Lifetimes,
  ExcludeFields,   \* exclude filters of an interest, as they are encoded
  ParsedInterests, \* what the library parsed of incoming interests
  SigLens,      \* sizes of the signatures on data packets
  CertSigLens,  \* and on certificates
  Contents, Types, Times, FinalBlocks, Now, CertNames, KeyNames, Versions,
  Subjects, Extensions, KeyBlobs, ValidityEnds,
  MaxSubjects, MaxExtensions

VARIABLES
  kind,      \* which object this is about
  interest,  \* an Interest
  data,      \* a Data packet or a certificate
  fields,    \* the fields of a certificate
  signed,    \* the bytes the signature bits were made over: none or one
  resigned   \* a packet that keeps signed bytes was signed again without them

vars == <<kind, name, interest, data, fields, signed, resigned, excludeVars>>

Kinds == {"Name", "Exclude", "Interest", "Data", "Certificate"}

Digest == <<7, 200>>   \* the digest of a public key (32 bytes in the code)

Init ==
  /\ kind \in Kinds
  /\ NameInit /\ ExcludeInit
  /\ interest = NewInterest(<<>>)
  /\ data = NewData(<<>>)
  /\ fields = NewFields
  /\ signed = {}
  /\ resigned = FALSE

-----------------------------------------------------------------------------
(* A name, an exclude filter *)

NameStep ==
  /\ kind = "Name"
  /\ AppendSomething \/ TakePart
  /\ UNCHANGED <<kind, interest, data, fields, signed, resigned, excludeVars>>

\* A filter
ExcludeStep ==
  /\ kind = "Exclude" /\ ExcludeNext
  /\ UNCHANGED <<kind, name, interest, data, fields, signed, resigned>>

-----------------------------------------------------------------------------
(* An interest *)

SetInterest(i) ==
  /\ kind = "Interest"
  /\ interest' = i
  /\ UNCHANGED <<kind, name, data, fields, signed, resigned, excludeVars>>

SetInterestField ==
  \/ \E n \in PacketNames : SetInterest(setName(interest, n))
  \/ \E k \in SuffixCounts : SetInterest(setMinSuffixComponents(interest, k))
  \/ \E k \in SuffixCounts : SetInterest(setMaxSuffixComponents(interest, k))
  \/ \E s \in Selectors : SetInterest(setChildSelector(setAnswerOriginKind(interest, s[1]), s[2]))
  \/ \E s \in Scopes : SetInterest(setScope(interest, s))
  \/ \E e \in ExcludeFields : SetInterest(setExclude(interest, e))

\* setInterestLifetime (const TimeInterval &) and (double)
SetInterestLifetime ==
  \E t \in Lifetimes : \/ SetInterest(setInterestLifetime(interest, t))
                       \/ SetInterest(setInterestLifetime(interest, Seconds(t)))

\* incomingInterest
IncomingInterest ==
  \E pi \in ParsedInterests, n \in PacketNames : SetInterest(FromParsed(pi, n))

CopyTheInterest == SetInterest(CopyInterest(interest))

\* Sent, and read by the receiver.
RelayInterest ==
  \E i \in DecodeInterest(SerializeInterest(interest)) : SetInterest(i)

-----------------------------------------------------------------------------
(* A data packet *)

SetData(d) ==
  /\ kind \in {"Data", "Certificate"}
  /\ data' = d
  /\ UNCHANGED <<kind, name, interest, excludeVars>>

\* A setter leaves m_wire alone.  Without m_wire the signature bits no longer
\* belong to what is sent, as with any packet changed after it was signed.
SetDataField(d) ==
  /\ SetData(d)
  /\ signed' = IF data.blob = NoBlob THEN {} ELSE signed
  /\ UNCHANGED <<fields, resigned>>

SetDataName == \E n \in PacketNames : kind = "Data" /\ SetDataField(setName(data, n))
SetContent == \E c \in Contents, t \in Types :
                kind = "Data" /\ SetDataField(setContent(data, c, Now, t))
SetContentField ==
  /\ kind = "Data"
  /\ \/ \E t \in Times : SetDataField(setTimeStamp(data, t))
     \/ SetDataField(setFreshness(data, noFreshness))
     \/ \E c \in FinalBlocks : SetDataField(setFinalBlockId(data, c))

\* A signature the application makes itself, with a key or a certificate in it.
SetLocator ==
  /\ kind = "Data"
  /\ \E k \in KeyBlobs : \E l \in setKey(setType(data.signature.locator, "KEY"), k)
                                 \cup setCertificate(setType(NoLocator, "CERTIFICATE"), k) :
       SetDataField(setSignature(data, [data.signature EXCEPT !.locator = l]))

\* The signature a key of size n makes, over a locator that names the signer's
\* certificate without its version.
SignatureBits(n) == [i \in 1..n |-> 90]
SignatureBy(certName) ==
  {[bits |-> <<>>, digest |-> Digest, locator |-> l] :
     l \in UNION {setKeyName(setType(NoLocator, "KEYNAME"), k) :
                    k \in getPrefix(certName, Len(certName) - 1, 0)}}

\* IdentityManager::signByCertificate (Data &): the signed bytes are kept in m_wire.
Sign(unsigned) ==
  \E certName \in CertNames, n \in IF kind = "Data" THEN SigLens ELSE CertSigLens :
  \E sig \in SignatureBy(certName) :
    LET d == setSignature(unsigned, sig)
    IN \E bytes \in SerializeUnsigned(d) :
         /\ SetData([d EXCEPT !.blob = SignedBlob(bytes, 0, Len(bytes)),
                              !.signature.bits = SignatureBits(n)])
         /\ signed' = {bytes}
         /\ resigned' = FALSE
         /\ UNCHANGED fields

\* Keychain::sign
SignByCertificate == Sign(data)

\* Wrapper::publishDataByCert and publishDataByIdentity: a packet made of a name
\* and content, signed and encoded.
Publish ==
  /\ kind = "Data"
  /\ \E n \in PacketNames, c \in Contents :
       Sign(setContent(setName(NewData(<<>>), n), c, Now, "DATA"))

\* PolicyManager::verifySignature: over the bytes the packet keeps.
verifySignature(d) == signed = {SignedBuf(d.blob)}

\* selfSign (IdentityCertificate &), selfSign (const Name &) and
\* createIdentityCertificate: the packet is signed and m_wire is left as it is.
SelfSign ==
  /\ kind = "Certificate"
  /\ \E n \in CertSigLens : \E sig \in SignatureBy(data.name) :
       LET d == setSignature(data, sig)
       IN \E bytes \in SerializeUnsigned(d) :
            /\ SetData([d EXCEPT !.signature.bits = SignatureBits(n)])
            /\ signed' = {bytes}
            /\ resigned' = (data.blob # NoBlob)
            /\ UNCHANGED fields

\* encodeToWire on one side, decodeFromWire on the other.
RelayData ==
  /\ kind = "Data"
  /\ \E w \in Serialize(data) : \E d \in DecodeData(w) : SetData(d)
  /\ UNCHANGED <<fields, signed, resigned>>

-----------------------------------------------------------------------------
(* A certificate *)

SetFields(f) ==
  /\ kind = "Certificate"
  /\ fields' = f
  /\ UNCHANGED <<kind, name, interest, data, signed, resigned, excludeVars>>

SetCertificateField ==
  \/ \E t \in ValidityEnds : SetFields([fields EXCEPT !.notBefore = [s |-> 5, us |-> 0],
                                                      !.notAfter = t])
  \/ \E k \in KeyBlobs : SetFields([fields EXCEPT !.key = k])
  \/ \E s \in Subjects : /\ Len(fields.subjects) < MaxSubjects
                         /\ SetFields([fields EXCEPT !.subjects = Append(@, s)])
  \/ \E e \in Extensions : /\ Len(fields.extensions) < MaxExtensions
                           /\ SetFields([fields EXCEPT !.extensions = Append(@, e)])

\* setName of an identity certificate made for a key.
NameCertificate ==
  /\ kind = "Certificate"
  /\ \E k \in KeyNames, v \in Versions :
       /\ isCorrectName(SelfSignedName(k, v))
       /\ SetDataField(setName(data, SelfSignedName(k, v)))

\* Certificate::encode, once validity and key are set; the content is replaced
\* and its timestamp is the current time.
EncodeCertificate ==
  /\ kind = "Certificate"
  /\ ~Negative(fields.notAfter) /\ fields.key # <<>>
  /\ \E bytes \in EncodeFields(fields) :
       SetDataField(setContent(data, bytes, Now, "KEY"))

\* Stored or sent, read back as a packet and made a certificate again.
RelayCertificate ==
  /\ kind = "Certificate"
  /\ \E w \in Serialize(data) : \E d \in DecodeData(w) :
       \E f \in DecodeFields(d.content) :
         /\ isCorrectName(d.name)
         /\ SetData(d)
         /\ fields' = f
         /\ UNCHANGED <<signed, resigned>>

Next ==
  \/ NameStep \/ ExcludeStep
  \/ SetInterestField \/ SetInterestLifetime \/ IncomingInterest \/ CopyTheInterest \/ RelayInterest
  \/ SetDataName \/ SetContent \/ SetContentField \/ SetLocator
  \/ SignByCertificate \/ Publish \/ SelfSign \/ RelayData
  \/ SetCertificateField \/ NameCertificate \/ EncodeCertificate \/ RelayCertificate

Spec == Init /\ [][Next]_vars

-----------------------------------------------------------------------------
(* Properties *)

\* The sizes that EstimateTaggedBlob, EstimateTimestampBlob and the rest
\* announce are those of what is written.
SizesAgree ==
  /\ SerializedSizeName(name) = Len(SerializeName(name))
  /\ EstimateString(Dtag.Name, toUri(name)) = Len(AppendString(Dtag.Name, toUri(name)))
  /\ ~Negative(interest.lifetime) =>
       EstimateTimestampBlob(interest.lifetime) = Len(AppendTimestampBlob(interest.lifetime))
  /\ EstimateNumber(interest.scope) = Len(AppendNumber(interest.scope))

\* A data packet that was read with a signature of another size than the
\* default keeps the wrong bytes of itself: what it sends is no packet any more.
Intact ==
  data.blob.first = MagicOffset =>
    \A d \in DecodeData(data.blob.bytes) : Len(d.signature.bits) = SigSize

\* What is sent now, as one packet on the wire (a certificate is a data packet
\* like any other here).
Wires ==
  CASE kind = "Interest" -> {SerializeInterest(interest), AppendInterest(interest)}
    [] kind = "Data" /\ Intact -> Serialize(data)
    [] OTHER -> {}

\* Of a packet cut short anywhere, the parser makes nothing: it throws, even
\* where the read past the end first goes unnoticed (block.cc makes the exception
\* and does not throw it; a blob whose last byte is missing is accepted).
TruncationThrows ==
  \A w \in Wires : \A k \in 0..(Len(w) - 1) : ParseBlock(Stream(SubSeq(w, 1, k))) = {}

\* An interest that is sent is decoded, with its name, its scope and the whole
\* seconds of its lifetime; the other selectors are written and not read.
InterestSurvives ==
  kind = "Interest" =>
    \E i \in DecodeInterest(SerializeInterest(interest)) :
      /\ SameInterest(i, [NewInterest(interest.name) EXCEPT !.scope = interest.scope,
                                                            !.lifetime = i.lifetime])
      /\ IF Negative(interest.lifetime) THEN i.lifetime = Unset
         ELSE TimeSurvives(interest.lifetime, i.lifetime)

\* A packet sent from its fields is decoded with them, but for the fraction of
\* the timestamp, unless its content or its key digest is empty: then the decoder
\* refuses what the encoder wrote.
DataSurvives ==
  data.blob = NoBlob =>
    \A w \in Serialize(data) :
      IF data.content = <<>> \/ data.signature.digest = <<>> THEN DecodeData(w) = {}
      ELSE \E d \in DecodeData(w) :
             /\ d.name = data.name /\ d.content = data.content
             /\ d.signature.digest = data.signature.digest
             /\ d.signature.locator = data.signature.locator
             /\ TimeSurvives(data.time, d.time)

\* What the older encoder writes is decoded only with type KEY: every other type
\* has a byte above 127.  Time and final block are not read.
OlderSurvives ==
  data.type # NoType =>
    LET got == DecodeData(AppendData(data))
        refused == \/ data.content = <<>> \/ data.signature.digest = <<>>
                   \/ data.signature.bits = <<>> \/ data.type # "KEY"
        locator == data.signature.locator
    IN /\ refused = (got = {})
       /\ \A d \in got :
            /\ d.name = data.name /\ d.content = data.content /\ d.type = data.type
            /\ d.freshness = (IF data.freshness = noFreshness THEN noFreshness ELSE maxFreshness)
            /\ d.signature = [data.signature EXCEPT !.locator =
                                IF locator.type = "KEYNAME" THEN locator ELSE NoLocator]

\* What is written comes back from the wire, and has the size that was announced.
WireRoundTrip == SizesAgree /\ DeserializeName(AppendName(name)) = {name} /\ InterestSurvives /\ DataSurvives /\ OlderSurvives

\* A receiver finds, behind the fixed offset, exactly the bytes that were sent
\* after the signature, and passes the packet on as it came, for signatures of
\* the default key size.
RelayIsIdentity ==
  Len(data.signature.bits) = SigSize /\ Intact =>
    \A w \in Serialize(data) : \A d \in DecodeData(w) : Serialize(d) = {w}

\* However its fields are set after it was signed, and through any number of
\* hops, what is sent is what was signed (by a key of the default size), and
\* whoever reads it finds that the signature verifies, unless
\* a packet that keeps its signed bytes is self-signed again: selfSign leaves
\* the old bytes in place.
SentIsSigned ==
  \A b \in signed :
    Len(data.signature.bits) = SigSize /\ ~resigned =>
      \A w \in Serialize(data) : /\ SubSeq(w, Len(w) - Len(b), Len(w) - 1) = b
                                 /\ \A d \in DecodeData(w) : verifySignature(d)

\* The fields a certificate was encoded with are the ones decode () reads, to
\* the second, and an object identifier comes back from its text.  Only an
\* introduction does not: what one constructor writes, the other refuses.
FieldsSurvive ==
  /\ \A i \in DOMAIN fields.subjects :
       LET oid == fields.subjects[i].oid IN OidFromText(OidToText(oid)) = oid
  /\ \A i \in DOMAIN fields.extensions :
       fields.extensions[i].oid = IntroOid => DecodeIntroValue(fields.extensions[i].value) = {}
  /\ ~Negative(fields.notAfter) /\ fields.key # <<>> =>
       \A bytes \in EncodeFields(fields) :
         DecodeFields(bytes) = {[fields EXCEPT !.notAfter.us = 0]}

\* All conversions between certificate and key names lead back to the key the
\* certificate was named for, if its identity has no component KEY of its own;
\* and so does the key locator of a certificate that signed itself.
CertificateNamesKey ==
  \A k \in KeyNames, v \in Versions :
    data.name = SelfSignedName(k, v) /\ KeyComp \notin ToSet(k) =>
      /\ PublicKeyName(data.name) = k
      /\ certificateNameToPublicKeyName(data.name, TRUE) = k
      /\ \A n \in getKeyName(data.signature.locator) :
           isCorrectName(n) =>
             KeyNameFromPrefix(SubSeq(n, 1, Len(n) - 1)) = {k}

\* A certificate comes back from its encoding with its validity, descriptions,
\* extensions and key, and its name still leads to its key.
CertificateSurvives == FieldsSurvive /\ CertificateNamesKey
=============================================================================
