---------------------------- MODULE Verification ----------------------------
(***************************************************************************)
(* Packet verification: Keychain::verifyData with SimplePolicyManager, the *)
(* certificate interests it sends through the Wrapper, and the certificate *)
(* cache all validations share.                                            *)
(*                                                                         *)
(* A validation is a stack of packets: the application's Data packet, and  *)
(* above each packet the certificate fetched to check it.  verifyData runs *)
(* on the ndn thread for the packet on top; its verdict is queued on the   *)
(* executor, where it is handed to the callback of that level: the         *)
(* application's callback for the bottom packet, onCertificateVerified or  *)
(* onCertificateUnverified for a certificate.  Validations interleave at   *)
(* these steps; the executor's FIFO order is relaxed to any order.         *)
(*                                                                         *)
(* Packets are abstract: Locator is the key name in the KeyLocator         *)
(* (NoName: the locator is no KEYNAME), NameOf the certificate name        *)
(* without its version, Signer the key whose signature the packet bears,   *)
(* KeyOf the key a certificate carries.  Required, MustFail, Satisfies and *)
(* Exempt say which packets the rules of the policy manager match.         *)
(***************************************************************************)
EXTENDS Naturals, Sequences, FiniteSets, SequencesExt

CONSTANTS Packets, Names, Keys, NoName, NoPacket,
          Locator, NameOf, Signer, KeyOf,
          Under,       \* [Names -> SUBSET Names]: the names an interest's name is a prefix of
          Anchors,     \* [anchor names -> Keys], m_trustAnchors
          Required, MustFail, Satisfies, Exempt,
          Received,    \* bound: the packets the application has verified
          Vals,        \* concurrent calls of verifyData by the application
          StepLimit,   \* m_stepLimit
          Retries,     \* ValidationRequest::m_retry, 3 in the code
          Ageing,      \* bound: the certificates whose validity changes
          MaxDrops     \* bound: how often the wrapper loses its connection

ASSUME PacketAssumption ==
  /\ Locator \in [Packets -> Names \cup {NoName}] /\ NoName \notin Names
  /\ NameOf \in [Packets -> Names]
  /\ Under \in [Names -> SUBSET Names] /\ \A n \in Names : n \in Under[n]
  /\ Signer \in [Packets -> Keys] /\ KeyOf \in [Packets -> Keys]
  /\ NoPacket \notin Packets
  /\ Received \subseteq Packets /\ Ageing \subseteq Packets
ASSUME AnchorAssumption == DOMAIN Anchors \subseteq Names
ASSUME BoundAssumption == StepLimit \in Nat \ {0} /\ Retries \in Nat /\ MaxDrops \in Nat

VARIABLES stack,      \* the packets of each validation, the newest last
          phase,      \* what each validation waits for
          verdict,    \* the verdict queued on the executor for the top packet
          retry,      \* retransmissions left for the certificate interest
          report,     \* what the application was told
          cache,      \* m_certificateCache: name -> certificate
          age,        \* validity of each certificate: early, valid, late
          connected,  \* whether Wrapper::sendInterest accepts interests
          drops

vars == <<stack, phase, verdict, retry, report, cache, age, connected, drops>>

Init == /\ stack = [v \in Vals |-> <<>>]
        /\ phase = [v \in Vals |-> "new"]
        /\ verdict = [v \in Vals |-> "none"]
        /\ retry = [v \in Vals |-> 0]
        /\ report = [v \in Vals |-> "none"]
        /\ cache = [n \in Names |-> NoPacket]
        /\ age \in [Packets -> {"early", "valid"}]
        /\ \A p \in Packets \ Ageing : age[p] = "valid"
        /\ connected = TRUE /\ drops = 0

-----------------------------------------------------------------------------
(* What the policy manager decides about packet p at step s.  Each operator  *)
(* is one of the places checkVerificationPolicy and verifyData return from.  *)

\* The key of the trusted certificate known for p's locator: a trust anchor
\* wins over the cache.
KnownKeys(p) == IF Locator[p] \in DOMAIN Anchors THEN {Anchors[Locator[p]]}
                ELSE IF Locator[p] \in Names /\ cache[Locator[p]] # NoPacket
                  THEN {KeyOf[cache[Locator[p]]]}
                  ELSE {}

\* Mutant: a packet no verification rule is satisfied by is judged anyway.
Admitted_AnyRule(p, s) == s # StepLimit /\ p \notin MustFail /\ Locator[p] # NoName

\* The rules let p be judged by its signature.
Admitted(p, s) == /\ s # StepLimit
                  /\ p \notin MustFail
                  /\ p \in Satisfies
                  /\ Locator[p] # NoName

Verdict(p, s) ==
  IF p \notin Required THEN IF p \in Exempt THEN "verified" ELSE "unverified"
  ELSE IF ~Admitted(p, s) THEN "unverified"
  ELSE IF KnownKeys(p) = {} THEN "fetch"
  ELSE IF Signer[p] \in KnownKeys(p) THEN "verified" ELSE "unverified"

Queue(v, r) == /\ phase' = [phase EXCEPT ![v] = "job"]
               /\ verdict' = [verdict EXCEPT ![v] = r]

\* sendInterest: its result is ignored, so a refused interest ends the story.
SendInterest(v, r) ==
  /\ phase' = [phase EXCEPT ![v] = IF connected THEN "fetch" ELSE "silent"]
  /\ retry' = [retry EXCEPT ![v] = r]

\* Mutant: the step count of a certificate is that of the packet it certifies.
StepCount_Frozen(v) == 0

\* The step count of the packet on top: the Closure of each fetched
\* certificate carries one more than the packet below.
StepCount(v) == Len(stack[v]) - 1

\* Keychain::verifyData on the packet on top.
VerifyData(v) ==
  LET r == Verdict(Last(stack[v]), StepCount(v)) IN
  /\ phase[v] = "check"
  /\ IF r = "fetch" THEN SendInterest(v, Retries) /\ UNCHANGED verdict
                    ELSE Queue(v, r) /\ UNCHANGED retry
  /\ UNCHANGED <<stack, report, cache, age, connected, drops>>

\* The application hands a received packet to verifyData.
Begin(v, p) == /\ phase[v] = "new"
               /\ stack' = [stack EXCEPT ![v] = <<p>>]
               /\ phase' = [phase EXCEPT ![v] = "check"]
               /\ UNCHANGED <<verdict, retry, report, cache, age, connected, drops>>

\* Mutant: the certificate is cached before anybody verified it.
CertificateArrives_CacheEarly(v, c) ==
  /\ phase[v] = "fetch"
  /\ NameOf[c] \in Under[Locator[Last(stack[v])]]
  /\ stack' = [stack EXCEPT ![v] = Append(@, c)]
  /\ phase' = [phase EXCEPT ![v] = "check"]
  /\ cache' = [cache EXCEPT ![NameOf[c]] = c]
  /\ UNCHANGED <<verdict, retry, report, age, connected, drops>>

\* Some packet under the name of the interest arrives (incomingData).  Nothing
\* checks that it is the very certificate the KeyLocator names.
CertificateArrives(v, c) ==
  /\ phase[v] = "fetch"
  /\ NameOf[c] \in Under[Locator[Last(stack[v])]]
  /\ stack' = [stack EXCEPT ![v] = Append(@, c)]
  /\ phase' = [phase EXCEPT ![v] = "check"]
  /\ UNCHANGED <<verdict, retry, report, cache, age, connected, drops>>

\* Mutant: the timeout handler keeps its retry count.
InterestTimeout_Forever(v) ==
  /\ phase[v] = "fetch"
  /\ SendInterest(v, retry[v])
  /\ UNCHANGED <<stack, verdict, report, cache, age, connected, drops>>

\* onCertificateInterestTimeout.
InterestTimeout(v) ==
  /\ phase[v] = "fetch"
  /\ IF retry[v] > 0 THEN SendInterest(v, retry[v] - 1) /\ UNCHANGED verdict
                     ELSE Queue(v, "unverified") /\ UNCHANGED retry
  /\ UNCHANGED <<stack, report, cache, age, connected, drops>>

-----------------------------------------------------------------------------
(* Jobs on the executor. *)

\* The application's verifiedCallback or unverifiedCallback.
Report(v) == /\ phase[v] = "job" /\ Len(stack[v]) = 1
             /\ report' = [report EXCEPT ![v] = verdict[v]]
             /\ phase' = [phase EXCEPT ![v] = "done"]
             /\ UNCHANGED <<stack, verdict, retry, cache, age, connected, drops>>

\* onCertificateUnverified: the packet below is unverified.
CertificateUnverified(v) ==
  /\ phase[v] = "job" /\ Len(stack[v]) > 1 /\ verdict[v] = "unverified"
  /\ stack' = [stack EXCEPT ![v] = Front(@)]
  /\ UNCHANGED <<phase, verdict, retry, report, cache, age, connected, drops>>

\* onCertificateVerified: a certificate outside its validity period fails the
\* packet below; otherwise it is cached, and the packet below is verified if
\* the certificate's key made its signature.  If not, nobody is told.
CertificateVerified(v) ==
  LET c == Last(stack[v])
      p == stack[v][Len(stack[v]) - 1] IN
  /\ phase[v] = "job" /\ Len(stack[v]) > 1 /\ verdict[v] = "verified"
  /\ stack' = [stack EXCEPT ![v] = Front(@)]
  /\ IF age[c] = "valid"
       THEN /\ cache' = [cache EXCEPT ![NameOf[c]] = c]
            /\ phase' = [phase EXCEPT ![v] = IF Signer[p] = KeyOf[c] THEN "job" ELSE "silent"]
            /\ UNCHANGED verdict
       ELSE /\ verdict' = [verdict EXCEPT ![v] = "unverified"]
            /\ UNCHANGED <<cache, phase>>
  /\ UNCHANGED <<retry, report, age, connected, drops>>

-----------------------------------------------------------------------------
(* The surroundings: the cache evicts (see TTLCertificateCache), time passes, *)
(* the wrapper loses and regains its connection.                              *)

Evict(n) == /\ cache[n] # NoPacket
            /\ cache' = [cache EXCEPT ![n] = NoPacket]
            /\ UNCHANGED <<stack, phase, verdict, retry, report, age, connected, drops>>

Tick(c) == /\ age[c] # "late"
           /\ age' = [age EXCEPT ![c] = IF @ = "early" THEN "valid" ELSE "late"]
           /\ UNCHANGED <<stack, phase, verdict, retry, report, cache, connected, drops>>

Disconnect == /\ connected /\ drops < MaxDrops
              /\ connected' = FALSE /\ drops' = drops + 1
              /\ UNCHANGED <<stack, phase, verdict, retry, report, cache, age>>

Reconnect == /\ ~connected
             /\ connected' = TRUE
             /\ UNCHANGED <<stack, phase, verdict, retry, report, cache, age, drops>>

-----------------------------------------------------------------------------
ValStep(v) == \/ VerifyData(v) \/ InterestTimeout(v)
              \/ Report(v) \/ CertificateVerified(v) \/ CertificateUnverified(v)

Next == \/ \E v \in Vals : \/ ValStep(v)
                           \/ \E p \in Received : Begin(v, p)
                           \/ \E c \in Packets : CertificateArrives(v, c)
        \/ \E n \in Names : Evict(n)
        \/ \E c \in Ageing : Tick(c)
        \/ Disconnect \/ Reconnect

Spec == Init /\ [][Next]_vars

\* The ndn thread and the executor run, and the client library ends every
\* interest with data or a timeout.
SpecFair == Spec /\ \A v \in Vals : WF_vars(ValStep(v))

-----------------------------------------------------------------------------
(* Properties. *)

TypeOK ==
  /\ stack \in [Vals -> Seq(Packets)]
  /\ phase \in [Vals -> {"new", "check", "fetch", "job", "done", "silent"}]
  /\ verdict \in [Vals -> {"none", "verified", "unverified"}]
  /\ retry \in [Vals -> 0..Retries]
  /\ report \in [Vals -> {"none", "verified", "unverified"}]
  /\ cache \in [Names -> Packets \cup {NoPacket}]
  /\ age \in [Packets -> {"early", "valid", "late"}]
  /\ connected \in BOOLEAN
  /\ drops \in 0..MaxDrops

\* p's signature was made by the anchor its locator names or, if it names none,
\* by a certificate in S at or under that name.
Vouched(p, S) ==
  IF Locator[p] \in DOMAIN Anchors
    THEN Anchors[Locator[p]] = Signer[p]
    ELSE /\ Locator[p] \in Names
         /\ \E c \in S : NameOf[c] \in Under[Locator[p]] /\ KeyOf[c] = Signer[p]

\* S holds every packet the policy exempts and every admitted packet S vouches for.
Closed(S) == /\ Exempt \ Required \subseteq S
             /\ \A p \in (Satisfies \cap Required) \ MustFail : Vouched(p, S) => p \in S

\* The packets with a chain of trust: the least closed set.
Trusted == {p \in Packets : \A S \in SUBSET Packets : Closed(S) => p \in S}

\* The application is told "verified" only of a packet from which a chain of
\* signatures leads to a trust anchor, every packet on it admitted by a rule:
\* whatever other validations put into the shared cache meanwhile, whatever
\* certificates the network answers with.
VerifiedIsTrusted ==
  \A v \in Vals : report[v] = "verified" => stack[v][1] \in Trusted

\* No validation poisons the cache for the others: a cached certificate has a
\* chain of trust of its own and is filed under its own name.
CacheIsTrusted ==
  \A n \in Names : cache[n] # NoPacket => cache[n] \in Trusted /\ NameOf[cache[n]] = n

\* "stepCount can be used to prevent infinite verification chain"
\* (doc/security-library/source/index.rst:76): certificates that certify each
\* other in a loop are chased for StepLimit steps, no more.
ChainBounded == \A v \in Vals : Len(stack[v]) <= StepLimit + 1

\* Every validation comes to an end: loops of certificates, lost interests and
\* concurrent cache changes cannot keep one going.
Terminates == \A v \in Vals : (phase[v] = "check") ~> (phase[v] \in {"done", "silent"})

\* "unverifiedCallback is a callback function that will be invoked when the
\* Keychain object cannot validate the received data" (index.rst:74): a
\* validation never ends without a callback.
EndsWithCallback == \A v \in Vals : phase[v] # "silent"
=============================================================================
