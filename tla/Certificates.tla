---------------------------- MODULE Certificates ----------------------------
(***************************************************************************)
(* Certificates (security/certificate): what encode () writes into the     *)
(* content of the packet and decode () reads back (certificate.cc, with    *)
(* the DER visitors), public keys, extensions, and the names that tie a    *)
(* certificate to its key (identity-certificate.cc).                       *)
(***************************************************************************)
EXTENDS Packets, Der

KeyComp == <<75, 69, 89>>                          \* KEY
IdCertComp == <<73, 68, 45, 67, 69, 82, 84>>       \* ID-CERT

SubjectOid == <<2, 5, 4, 41>>
IntroOid == <<1, 3, 6, 1, 5, 32, 1>>

\* OID (const string &) and toString: numbers between dots.
OidFromText(text) ==
  FoldLeft(LAMBDA oid, c : IF c = 46 THEN Append(oid, 0)
                           ELSE [oid EXCEPT ![Len(oid)] = 10 * @ + c - 48], <<0>>, text)
OidToText(oid) ==
  FoldLeft(LAMBDA text, n : (IF text = <<>> THEN text ELSE Append(text, 46)) \o Decimal(n), <<>>, oid)

-----------------------------------------------------------------------------
(* Public keys: a key is its bytes, the DER of SubjectPublicKeyInfo. *)

\* The bytes of a key with an algorithm and key bits.
KeyBlob(algorithm, bits) ==
  {DerEncode(DerSequence(<<DerSequence(<<a, DerNull>>), DerBitString(bits, 0)>>)) :
     a \in DerOid(algorithm)}

\* Publickey::toDER
KeyToDER(blob) == {p.node : p \in DerParse(Stream(blob))}

\* PublickeyVisitor: the algorithm and the raw bytes of the sequence.
KeyFromNode(node) ==
  {[algorithm |-> a, blob |-> DerEncode(node)] : a \in AsOid(node.children[1].children[1])}
\* Publickey::fromDER
KeyFromDER(blob) == UNION {KeyFromNode(n) : n \in KeyToDER(blob)}

-----------------------------------------------------------------------------
(* The fields of a certificate and their DER form *)

NewFields ==
  [notBefore |-> Unset, notAfter |-> Unset, subjects |-> <<>>, key |-> <<>>, extensions |-> <<>>]

\* CertificateSubDescrypt::toDER, CertificateExtension::toDER
SubjectToDER(s) == {DerSequence(<<o, DerPrintableString(s.value)>>) : o \in DerOid(s.oid)}
ExtensionToDER(e) ==
  {DerSequence(<<o, DerBool(e.critical), DerOctetString(e.value)>>) : o \in DerOid(e.oid)}

\* The sequences that pick one node of every set of a list.
Each(sets) ==
  FoldLeft(LAMBDA seqs, nodes : {Append(s, n) : s \in seqs, n \in nodes}, {<<>>}, sets)
Map(f(_), s) == [i \in DOMAIN s |-> f(s[i])]

\* Certificate::encode: validity, subjects, key, and extensions if there are
\* any.
EncodeFields(f) ==
  {DerEncode(DerSequence(
     <<DerSequence(<<DerGtime(f.notBefore), DerGtime(f.notAfter)>>), DerSequence(subjects), key>>
       \o (IF f.extensions = <<>> THEN <<>> ELSE <<DerSequence(extensions)>>))) :
     subjects \in Each(Map(SubjectToDER, f.subjects)), key \in KeyToDER(f.key),
     extensions \in Each(Map(ExtensionToDER, f.extensions))}

\* A visitor that takes the end of the validity for its start.
ValidityVisitor_Swapped(f, node) ==
  {[f EXCEPT !.notBefore = a, !.notAfter = b] :
     b \in AsTime(node.children[1]), a \in AsTime(node.children[2])}

\* The visitors of certificate-data-visitor.cc
ValidityVisitor(f, node) ==
  {[f EXCEPT !.notBefore = b, !.notAfter = a] :
     b \in AsTime(node.children[1]), a \in AsTime(node.children[2])}
SubDescryptVisitor(node) ==
  {[oid |-> o, value |-> v] : o \in AsOid(node.children[1]), v \in AsString(node.children[2])}
SubjectVisitor(f, node) ==
  {[f EXCEPT !.subjects = @ \o s] : s \in Each(Map(SubDescryptVisitor, node.children))}
ExtnEntryVisitor(node) ==
  {[oid |-> o, critical |-> c, value |-> v] :
     o \in AsOid(node.children[1]), c \in AsBool(node.children[2]), v \in AsBlobPtr(node.children[3])}
ExtensionVisitor(f, node) ==
  {[f EXCEPT !.extensions = @ \o s] : s \in Each(Map(ExtnEntryVisitor, node.children))}

\* CertificateDataVisitor
CertificateDataVisitor(f, root) ==
  LET c == root.children
      withValidity == ValidityVisitor(f, c[1])
      withSubjects == UNION {SubjectVisitor(g, c[2]) : g \in withValidity}
      withKey == {[g EXCEPT !.key = k.blob] : g \in withSubjects, k \in KeyFromNode(c[3])}
  IN IF Len(c) > 3 THEN UNION {ExtensionVisitor(g, c[4]) : g \in withKey} ELSE withKey

\* Certificate::decode
DecodeFields(bytes) ==
  UNION {CertificateDataVisitor(NewFields, p.node) : p \in DerParse(Stream(bytes))}

\* IntroCertificateExtension: the value it writes; reading it back, the namespace
\* is asked for as a string, which its octets are not.
IntroValue(nameSpace, trustClass, trustLevel) ==
  DerEncode(DerSequence(<<DerOctetString(toUri(nameSpace)), DerInteger(<<trustClass>>),
                          DerInteger(<<trustLevel>>)>>))
IntroExtension(nameSpace, trustClass, trustLevel) ==
  IF trustLevel \in 0..100
  THEN {[oid |-> IntroOid, critical |-> TRUE, value |-> IntroValue(nameSpace, trustClass, trustLevel)]}
  ELSE {}
DecodeIntroValue(bytes) ==
  LET Read(c) ==
        IF Len(c) # 3 THEN {}
        ELSE {[nameSpace |-> n, trustClass |-> b[1], trustLevel |-> l[1]] :
                n \in UNION {NameFromUri(u) : u \in AsString(c[1])},
                b \in AsBlob(c[2]) \cap {<<k>> : k \in 0..2},
                l \in AsBlob(c[3]) \cap {<<k>> : k \in 0..100}}
  IN UNION {Read(p.node.children) : p \in DerParse(Stream(bytes))}

-----------------------------------------------------------------------------
(* Names of identity certificates: <identity>/KEY/<key id>/ID-CERT/<version> *)

Positions(name, comp) == {i \in DOMAIN name : name[i] = comp}

\* IdentityCertificate::isCorrectName
isCorrectName(name) == Positions(name, KeyComp) # {} /\ Positions(name, IdCertComp) # {}

Without(name, i) == SubSeq(name, 1, i - 1) \o SubSeq(name, i + 1, Len(name))

\* IdentityCertificate::setPublicKeyName: what stands before the last ID-CERT,
\* without its first KEY.
PublicKeyName(name) ==
  LET prefix == SubSeq(name, 1, Max(Positions(name, IdCertComp)) - 1)
  IN IF Positions(prefix, KeyComp) = {} THEN prefix
     ELSE Without(prefix, Min(Positions(prefix, KeyComp)))

\* certificateNameToPublicKeyName: the version and the last component of what
\* remains are dropped; a name without KEY gives the empty name.
certificateNameToPublicKeyName(name, hasVersion) ==
  LET base == IF hasVersion THEN SubSeq(name, 1, Len(name) - 1) ELSE name
  IN IF Positions(base, KeyComp) = {} THEN <<>>
     ELSE Without(SubSeq(base, 1, Len(base) - 1), Min(Positions(base, KeyComp)))

\* IdentityManager::selfSign (const Name &): the name of the certificate.
SelfSignedName(keyName, version) ==
  appendVersion(appendAll(SubSeq(keyName, 1, Len(keyName) - 1),
                          <<KeyComp, keyName[Len(keyName)], IdCertComp>>), version)

\* getKeyNameFromCertificatePrefix: the prefix without its first KEY.
KeyNameFromPrefix(prefix) ==
  IF Positions(prefix, KeyComp) = {} THEN {} ELSE {Without(prefix, Min(Positions(prefix, KeyComp)))}
=============================================================================
