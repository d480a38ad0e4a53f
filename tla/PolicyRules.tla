---------------------------- MODULE PolicyRules ----------------------------
(***************************************************************************)
(* The rules of SimplePolicyManager and the decisions taken from them:     *)
(* whether a packet must be verified, may be trusted unverified, whether   *)
(* its signer is acceptable, which identity signs a name and whether it    *)
(* may.  The two Keychain::signByIdentity are composed from them.          *)
(*                                                                         *)
(* Rules are objects: each holds two Regex objects that remember their     *)
(* last match, and one rule may stand in several lists (the Keychain's     *)
(* rule3 verifies and signs).  object is what they remember; calls run one *)
(* at a time.  DefaultCertificate stands for the identity manager: the     *)
(* default certificate of an identity and, for the empty name, that of the *)
(* default identity (<<>>: none; the lookup then throws or finds nothing). *)
(***************************************************************************)
EXTENDS NameRegex

CONSTANTS Rules,       \* sequence of [data, signer, op, positive]
          Exemptions,  \* sequence of patterns
          Inferences,  \* sequence of patterns
          Lists,       \* bound: the additions the application makes, in this order
          Questions,   \* bound: the decisions asked for
          DataNames, SignerNames,
          DefaultCertificate

VARIABLES list,    \* the manager's lists of rules and of expressions
          object,  \* the state of every Regex object
          added,   \* how many additions were made
          asked,   \* how many decisions were asked for
          answer   \* the last call and its result

vars == <<list, object, added, asked, answer>>

ListNames == {"verifyPolicies", "mustFailVerify", "verifyExempt",
              "signPolicies", "mustFailSign", "signInference"}

\* The Regex objects: two of each rule, one of each exemption and inference.
Objects == {<<k, i>> : k \in {"data", "signer"}, i \in DOMAIN Rules}
           \cup {<<"exempt", i>> : i \in DOMAIN Exemptions}
           \cup {<<"infer", i>> : i \in DOMAIN Inferences}

Pattern == [o \in Objects |-> CASE o[1] = "data" -> Rules[o[2]].data
                                [] o[1] = "signer" -> Rules[o[2]].signer
                                [] o[1] = "exempt" -> Exemptions[o[2]]
                                [] o[1] = "infer" -> Inferences[o[2]]]

Rx == [o \in Objects |-> TopCompile(Pattern[o])]

Init == /\ list = [l \in ListNames |-> <<>>]
        /\ object = [o \in Objects |-> NoState(Rx[o])]
        /\ added = 0 /\ asked = 0
        /\ answer = [call |-> "none"]

-----------------------------------------------------------------------------
(* Calls on the objects: r the result, st the objects afterwards. *)

Match(st, o, name) == {[r |-> m.r, st |-> [st EXCEPT ![o] = m.st]] : m \in TopMatch(Rx[o], st[o], name)}

\* expand() with the template given at construction.
Expansion(st, o) == Expand(st[o], Pattern[o].expand)

\* Mutant: the signer's namespace is compared the wrong way round.
Compare_Swapped(d, s, op) == \/ d = s /\ op \in {"==", ">="}
                             \/ IsStrictPrefix(d, s)

\* A strict prefix is above its extensions whatever the operator says.
Compare(d, s, op) == \/ d = s /\ op \in {"==", ">="}
                     \/ IsStrictPrefix(s, d)

\* Both expressions of rule i matched: their namespaces decide.
Compared(m, i) ==
  [m EXCEPT !.r = IF Compare(Expansion(m.st, <<"data", i>>), Expansion(m.st, <<"signer", i>>), Rules[i].op)
                    THEN "yes" ELSE "no"]

\* Mutant: the namespaces are those of the last match of either object.
Satisfy_Lazy(st, i, dataName, signerName) ==
  {IF s.r = "yes" THEN Compared(s, i) ELSE s : s \in Match(st, <<"signer", i>>, signerName)}

\* A call that goes on when the one before it said r.
OnResult(r, results, F(_)) == Then(results, LAMBDA m : IF m.r = r THEN F(m) ELSE {m})

\* IdentityPolicyRule::satisfy of rule i.
Satisfy(st, i, dataName, signerName) ==
  OnResult("yes", Match(st, <<"data", i>>, dataName), LAMBDA d :
           {IF s.r = "yes" THEN Compared(s, i) ELSE s : s \in Match(d.st, <<"signer", i>>, signerName)})

\* The loop over a list: it ends at the first entry that answers yes, at.
FirstOf(entries, st, F(_, _)) ==
  LET Ask(results, i) ==
        OnResult("no", results, LAMBDA m : {[r |-> a.r, st |-> a.st, at |-> i] : a \in F(m.st, i)}) IN
  FoldLeft(Ask, {[r |-> "no", st |-> st, at |-> 0]}, entries)

RequireVerify(st, dataName) ==
  LET F(s, i) == Match(s, <<"data", i>>, dataName) IN
  OnResult("no", FirstOf(list["verifyPolicies"], st, F),
           LAMBDA m : FirstOf(list["mustFailVerify"], m.st, F))

SkipVerifyAndTrust(st, dataName) ==
  FirstOf(list["verifyExempt"], st, LAMBDA s, i : Match(s, <<"exempt", i>>, dataName))

\* A negative list decides first: no when one of its rules is satisfied.
Allowed(st, negative, positive, dataName, signerName) ==
  LET F(s, i) == Satisfy(s, i, dataName, signerName) IN
  Then(FirstOf(list[negative], st, F), LAMBDA n :
       IF n.r = "yes" THEN {[n EXCEPT !.r = "no"]} ELSE FirstOf(list[positive], n.st, F))

CheckSigningPolicy(st, dataName, certName) ==
  Allowed(st, "mustFailSign", "signPolicies", dataName, certName)

\* name is <<>> when no expression matches.
InferSigningIdentity(st, dataName) ==
  {[r |-> m.r, st |-> m.st, name |-> IF m.r = "yes" THEN Expansion(m.st, <<"infer", m.at>>) ELSE <<>>] :
   m \in FirstOf(list["signInference"], st, LAMBDA s, i : Match(s, <<"infer", i>>, dataName))}

Identities == DOMAIN DefaultCertificate \ {<<>>}

\* getDefaultCertificateNameByIdentity; the empty name is no identity.
DefaultCertificateOf(who) == IF who \in Identities THEN DefaultCertificate[who] ELSE <<>>

NoCertificate(st) == {[r |-> "no certificate", st |-> st, cert |-> <<>>]}

\* Keychain::signByIdentity (Data &): the certificate of the identity given, of the
\* one inferred, or the default one; it signs if the policy lets it.
SignByIdentity(st, dataName, identity) ==
  LET SignWith(cert, after) ==
        IF cert = <<>> THEN NoCertificate(after)
        ELSE {[r |-> IF check.r = "yes" THEN "signed" ELSE "policy", st |-> check.st, cert |-> cert] :
              check \in CheckSigningPolicy(after, dataName, cert)} IN
  IF identity # <<>> THEN SignWith(DefaultCertificateOf(identity), st)
  ELSE Then(InferSigningIdentity(st, dataName), LAMBDA m :
            SignWith(IF m.name = <<>> THEN DefaultCertificate[<<>>] ELSE DefaultCertificateOf(m.name), m.st))

\* Keychain::signByIdentity (const Blob &): nothing is inferred, and no policy asked.
SignBlobByIdentity(st, identity) ==
  LET cert == DefaultCertificateOf(identity) IN
  IF cert = <<>> THEN NoCertificate(st) ELSE {[r |-> "signed", st |-> st, cert |-> cert]}

\* The rules' part of verifyData and checkVerificationPolicy.  "refused" and
\* "unverified" both end in the unverified callback.
Judge(st, dataName, signerName) ==
  Then(RequireVerify(st, dataName), LAMBDA required :
    IF required.r = "yes"
      THEN {[r |-> IF m.r = "yes" THEN "check signature" ELSE "refused", st |-> m.st] :
            m \in Allowed(required.st, "mustFailVerify", "verifyPolicies", dataName, signerName)}
      ELSE {[r |-> IF m.r = "yes" THEN "trusted" ELSE "unverified", st |-> m.st] :
            m \in SkipVerifyAndTrust(required.st, dataName)})

-----------------------------------------------------------------------------
(* Actions. *)

\* addVerificationPolicyRule, addSigningPolicyRule (by the sign of the rule),
\* addVerificationExemption and addSigningInference.
Target(addition) ==
  CASE addition.to = "verify" -> IF Rules[addition.i].positive THEN "verifyPolicies" ELSE "mustFailVerify"
    [] addition.to = "sign" -> IF Rules[addition.i].positive THEN "signPolicies" ELSE "mustFailSign"
    [] addition.to = "exempt" -> "verifyExempt"
    [] addition.to = "infer" -> "signInference"

Add == /\ added < Len(Lists)
       /\ added' = added + 1
       /\ list' = [list EXCEPT ![Target(Lists[added + 1])] = Append(@, Lists[added + 1].i)]
       /\ answer' = [call |-> "none"]
       /\ UNCHANGED <<object, asked>>

Verify ==
  /\ asked < Questions /\ asked' = asked + 1
  /\ UNCHANGED <<list, added>>
  /\ \E d \in DataNames, s \in SignerNames : \E j \in Judge(object, d, s) :
       /\ object' = j.st
       /\ answer' = [call |-> "verify", data |-> d, signer |-> s, r |-> j.r]

Sign ==
  /\ asked < Questions /\ asked' = asked + 1
  /\ UNCHANGED <<list, added>>
  /\ \E d \in DataNames, who \in Identities \cup {<<>>} : \E j \in SignByIdentity(object, d, who) :
       /\ object' = j.st
       /\ answer' = [call |-> "sign", data |-> d, who |-> who, signer |-> j.cert, r |-> j.r]

SignBlob ==
  /\ asked < Questions /\ asked' = asked + 1
  /\ UNCHANGED <<list, added>>
  /\ \E who \in Identities \cup {<<>>} : \E j \in SignBlobByIdentity(object, who) :
       /\ object' = j.st
       /\ answer' = [call |-> "sign blob", who |-> who, signer |-> j.cert, r |-> j.r]

Next == Add \/ Verify \/ Sign \/ SignBlob

Spec == Init /\ [][Next]_vars

-----------------------------------------------------------------------------
(* Properties. *)

\* What the expression is meant to accept, without order, backtracking or
\* memory.  One departure: a repetition of at least one never takes nothing.
RECURSIVE Accepts(_, _), Chain(_, _), Times(_, _, _)
Accepts(node, s) ==
  CASE node.k = "set" -> Len(s) = 1 /\ (s[1] \in node.accepts) = node.include
    [] node.k = "list" -> Chain(node.list, s)
    [] node.k = "rep" -> IF s = <<>> THEN node.min = 0
                         ELSE \E n \in node.min..Min({node.max, node.min + Len(s)}) :
                                Times(node.list[1], n, s)
Chain(nodes, s) ==
  IF nodes = <<>> THEN s = <<>>
  ELSE \E i \in 0..Len(s) : Accepts(nodes[1], SubSeq(s, 1, i))
                           /\ Chain(Tail(nodes), SubSeq(s, i + 1, Len(s)))
Times(node, n, s) ==
  IF n = 0 THEN s = <<>>
  ELSE \E i \in 0..Len(s) : Accepts(node, SubSeq(s, 1, i))
                           /\ Times(node, n - 1, SubSeq(s, i + 1, Len(s)))

Language(o, name) == \/ Accepts(Rx[o].primary, name)
                     \/ ~Rx[o].anchored /\ Accepts(Rx[o].secondary, name)

\* Backtracking finds a match exactly when there is one: a packet is sent to
\* verification, trusted or refused as the expressions in the lists say,
\* whatever the greedy search tries first.
MatchIsLanguage ==
  answer.call = "verify" =>
    LET Hit(l, k) == \E i \in 1..Len(list[l]) : Language(<<k, list[l][i]>>, answer.data)
        required == Hit("verifyPolicies", "data") \/ Hit("mustFailVerify", "data") IN
    /\ (answer.r \in {"check signature", "refused"}) = required
    /\ (answer.r = "trusted") = (~required /\ Hit("verifyExempt", "exempt"))

\* The objects and names for which a match decides the expansion alone: it is the
\* same whether the groups held nothing before it or what no match of n gives.
Reaching ==
  LET Holding(o, g) == [NoState(Rx[o]) EXCEPT !.primary = [i \in DOMAIN @ |-> g],
                                              !.secondary = [i \in DOMAIN @ |-> g]]
      Matched(o, n, g) == {m \in TopMatch(Rx[o], Holding(o, g), n) : m.r = "yes"}
      Expansions(o, n, g) == {Expand(m.st, Pattern[o].expand) : m \in Matched(o, n, g)} IN
  UNION {IF Expansions(o, n, <<>>) = Expansions(o, n, n \o n) THEN {<<o, n>>} ELSE {} :
         o \in Objects, n \in DataNames \cup SignerNames \cup Range(DefaultCertificate) \cup {<<>>}}

Reached(dataName, signerName) ==
  \A o \in Objects : <<o, IF o[1] = "signer" THEN signerName ELSE dataName>> \in Reaching

\* A decision, and the certificate that signs, are about the names of this call
\* only: the Regex objects of the rules keep what earlier calls (and earlier rules
\* of the same call) matched, and none of it decides anything, except through a
\* group that the match of this call does not reach: a group under a repetition
\* that takes nothing, as in (<ndn>)(<a>)? for /ndn, is not cleared, and expand()
\* returns what an earlier call left in it.
DecisionsForget ==
  LET fresh == [o \in Objects |-> NoState(Rx[o])] IN
  /\ answer.call = "verify" /\ Reached(answer.data, answer.signer) =>
       \A j \in Judge(fresh, answer.data, answer.signer) : answer.r = j.r
  /\ answer.call = "sign" /\ Reached(answer.data, answer.signer) =>
       \A j \in SignByIdentity(fresh, answer.data, answer.who) :
         answer.r = j.r /\ answer.signer = j.cert

=============================================================================
