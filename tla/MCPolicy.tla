------------------------------ MODULE MCPolicy ------------------------------
(* The three rules Keychain's constructor installs, a rule that forbids    *)
(* signing and verifying, an exemption and three inferences, one with a    *)
(* group that a match may pass over.                                       *)
EXTENDS PolicyRules

MCComponents == {"ndn", "a", "KEY", "ksk", "dsk", "ID-CERT", "v"}

AnyOne == Set(TRUE, MCComponents)
Only(c) == Set(TRUE, {c})
NoKey == <<Open, Set(FALSE, {"KEY"}), Star, Close>>

DskCert == [ts |-> NoKey \o <<Only("KEY"), Only("dsk"), Only("ID-CERT")>>,
            head |-> TRUE, tail |-> FALSE, expand |-> <<Ref(1)>>]
KskCert == [ts |-> NoKey \o <<Only("KEY"), Open, AnyOne, Star, Close, Only("ksk"), Only("ID-CERT")>>,
            head |-> TRUE, tail |-> FALSE, expand |-> <<Ref(1), Ref(2)>>]
Whole == [ts |-> <<Open, AnyOne, Star, Close>>, head |-> TRUE, tail |-> TRUE, expand |-> <<Ref(1)>>]

KeychainRules ==
  <<[data |-> KskCert, signer |-> DskCert, op |-> ">", positive |-> TRUE],
    [data |-> DskCert, signer |-> KskCert, op |-> "==", positive |-> TRUE],
    [data |-> Whole, signer |-> DskCert, op |-> ">", positive |-> TRUE],
    \* nobody signs under /ndn/v, unanchored: <v> anywhere
    [data |-> [ts |-> <<Open, Only("v"), Close>>, head |-> FALSE, tail |-> TRUE, expand |-> <<Ref(1)>>],
     signer |-> [DskCert EXCEPT !.expand = <<Literal("v"), Ref(1)>>], op |-> ">=", positive |-> FALSE]>>

MCExemptions == <<[ts |-> <<Only("a"), Rep("{n,m}", 1, 2)>>, head |-> TRUE, tail |-> FALSE, expand |-> <<>>]>>
MCInferences == <<[ts |-> <<Open, Only("ndn"), Open, Only("a"), Close, Close, AnyOne>>,
                   head |-> TRUE, tail |-> TRUE, expand |-> <<Ref(1)>>],
                  [ts |-> <<Open, AnyOne, Close, Open, AnyOne, Rep("+", 0, 0), Close>>,
                   head |-> FALSE, tail |-> TRUE, expand |-> <<Ref(1)>>],
                  [ts |-> <<Open, Only("ndn"), Close, Open, Only("a"), Close, Rep("?", 0, 0)>>,
                   head |-> TRUE, tail |-> TRUE, expand |-> <<Ref(1), Ref(2)>>]>>

\* One list at a time, so that the decision between lists is seen too.
MCLists == <<[to |-> "exempt", i |-> 1], [to |-> "infer", i |-> 1], [to |-> "infer", i |-> 3],
             [to |-> "infer", i |-> 2], [to |-> "sign", i |-> 3], [to |-> "sign", i |-> 4],
             [to |-> "verify", i |-> 1], [to |-> "verify", i |-> 2], [to |-> "verify", i |-> 3],
             [to |-> "verify", i |-> 4]>>

Spaces == {<<>>, <<"ndn">>, <<"ndn", "a">>}
Dsk(s) == s \o <<"KEY", "dsk", "ID-CERT">>
Ksk(s, i) == SubSeq(s, 1, i) \o <<"KEY">> \o SubSeq(s, i + 1, Len(s)) \o <<"ksk", "ID-CERT">>
MCSigners == {Dsk(s) : s \in Spaces} \cup {Ksk(<<"ndn", "a">>, 1), Ksk(<<"ndn">>, 0)}
MCData == {Append(c, "v") : c \in {Dsk(<<"ndn", "a">>), Ksk(<<"ndn", "a">>, 1), <<"ndn", "a">>}}
          \cup {<<"ndn">>, <<"ndn", "a">>, <<"a", "a">>}
\* The default identity is /ndn.
MCDefaultCertificate == [n \in Spaces |-> IF n = <<>> THEN Dsk(<<"ndn">>) ELSE Dsk(n)]

\* The namespace of a certificate name, without <KEY> and what follows the key.
Namespace(n) ==
  IF ~Contains(n, "KEY") THEN n
  ELSE LET k == CHOOSE i \in 1..Len(n) : n[i] = "KEY"
           e == CHOOSE i \in 1..Len(n) : n[i] \in {"ksk", "dsk"} IN
       SubSeq(n, 1, k - 1) \o SubSeq(n, k + 1, e - 1)

\* Under the Keychain's own rules a signer vouches for nothing outside its
\* namespace: what verification goes on with, and the data packets signByIdentity
\* signs, lie below the namespace of the certificate, whether it was asked for,
\* inferred or the default one.  (The form for blobs asks no policy.)
SignerIsAbove ==
  /\ answer.call = "verify" /\ answer.r = "check signature" =>
       IsPrefix(Namespace(answer.signer), Namespace(answer.data))
  /\ answer.call = "sign" /\ answer.r = "signed" =>
       IsStrictPrefix(Namespace(answer.signer), answer.data)
=============================================================================
