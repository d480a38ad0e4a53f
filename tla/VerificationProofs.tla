------------------------- MODULE VerificationProofs -------------------------
(***************************************************************************)
(* Verification, for every set of packets, names, keys and rules, any      *)
(* number of concurrent validations and every step limit: what is reported *)
(* verified has a chain of trust, the shared cache is never poisoned, and  *)
(* the chain a validation follows is bounded.                              *)
(***************************************************************************)
EXTENDS Verification, TLAPS

-----------------------------------------------------------------------------
(* The set of trusted packets is itself closed. *)

LEMMA ExemptTrusted ==
  ASSUME NEW p \in Packets, p \in Exempt \ Required
  PROVE  p \in Trusted
BY DEF Trusted, Closed

LEMMA VouchedTrusted ==
  ASSUME NEW p \in Packets, p \in (Satisfies \cap Required) \ MustFail, Vouched(p, Trusted)
  PROVE  p \in Trusted
<1> SUFFICES ASSUME NEW S \in SUBSET Packets, Closed(S)  PROVE p \in S
  BY DEF Trusted
<1>1. Trusted \subseteq S
  BY DEF Trusted
<1>2. Vouched(p, S)
  BY <1>1 DEF Vouched
<1> QED BY <1>2 DEF Closed

-----------------------------------------------------------------------------
(* The inductive invariant.  A packet waits for a certificate only if a rule *)
(* admits it and no anchor has its locator's name; what is above it in the   *)
(* stack came in under that name.                                            *)

Chased(p) == /\ p \in (Satisfies \cap Required) \ MustFail
             /\ Locator[p] \in Names \ DOMAIN Anchors

Linked(s) == \A i \in 1..Len(s) : i < Len(s) =>
               Chased(s[i]) /\ NameOf[s[i + 1]] \in Under[Locator[s[i]]]

\* What holds of a validation with stack s, in phase ph, verdict r queued, rep reported.
ValOK(s, ph, r, rep) ==
  /\ ph # "new" => Len(s) >= 1
  /\ Len(s) <= StepLimit + 1
  /\ Linked(s)
  /\ ph = "fetch" => Chased(s[Len(s)]) /\ Len(s) <= StepLimit
  /\ ph = "job" /\ r = "verified" => s[Len(s)] \in Trusted
  /\ ph # "done" => rep = "none"
  /\ rep = "verified" => s[1] \in Trusted

ValInv(v) == ValOK(stack[v], phase[v], verdict[v], report[v])

VInv == TypeOK /\ CacheIsTrusted /\ \A v \in Vals : ValInv(v)

LEMMA InitVInv == Init => VInv
<1> SUFFICES ASSUME Init PROVE VInv
  OBVIOUS
<1>1. TypeOK
  BY PacketAssumption, BoundAssumption DEF Init, TypeOK
<1>2. CacheIsTrusted
  BY DEF Init, CacheIsTrusted
<1>3. ASSUME NEW v \in Vals  PROVE ValInv(v)
  BY BoundAssumption DEF Init, ValInv, ValOK, Linked
<1> QED BY <1>1, <1>2, <1>3 DEF VInv

\* A validation nothing is done to keeps its part of the invariant.
LEMMA Elsewhere ==
  ASSUME NEW v \in Vals, ValInv(v),
         stack'[v] = stack[v], phase'[v] = phase[v], verdict'[v] = verdict[v], report'[v] = report[v]
  PROVE  ValInv(v)'
BY DEF ValInv

\* A packet the policy manager finds verified is trusted if the cache is.
LEMMA VerdictSound ==
  ASSUME TypeOK, CacheIsTrusted, NEW p \in Packets, NEW s, Verdict(p, s) = "verified"
  PROVE  p \in Trusted
<1>1. CASE p \notin Required
  BY <1>1, ExemptTrusted DEF Verdict
<1>2. CASE p \in Required
  <2>1. Admitted(p, s) /\ Signer[p] \in KnownKeys(p)
    BY <1>2 DEF Verdict
  <2>2. p \in (Satisfies \cap Required) \ MustFail /\ Locator[p] \in Names
    BY <1>2, <2>1, PacketAssumption DEF Admitted
  <2>3. Vouched(p, Trusted)
    <3>1. CASE Locator[p] \in DOMAIN Anchors
      BY <2>1, <3>1 DEF KnownKeys, Vouched
    <3>2. CASE Locator[p] \notin DOMAIN Anchors
      <4> DEFINE c == cache[Locator[p]]
      <4>1. c # NoPacket /\ KeyOf[c] = Signer[p]
        BY <2>1, <2>2, <3>2 DEF KnownKeys
      <4>2. c \in Trusted /\ NameOf[c] \in Under[Locator[p]]
        BY <2>2, <4>1, PacketAssumption DEF CacheIsTrusted
      <4> QED BY <2>2, <3>2, <4>1, <4>2 DEF Vouched
    <3> QED BY <3>1, <3>2
  <2> QED BY <2>2, <2>3, VouchedTrusted
<1> QED BY <1>1, <1>2

\* What the policy manager wants a certificate for is a packet to chase.
LEMMA VerdictFetch ==
  ASSUME NEW p \in Packets, NEW s, Verdict(p, s) = "fetch"
  PROVE  Chased(p) /\ s # StepLimit
<1>1. p \in Required /\ Admitted(p, s) /\ KnownKeys(p) = {}
  BY DEF Verdict
<1>2. Locator[p] \notin DOMAIN Anchors
  BY <1>1 DEF KnownKeys
<1> QED BY <1>1, <1>2, PacketAssumption DEF Chased, Admitted

-----------------------------------------------------------------------------
(* One lemma per action: it keeps the invariant. *)

LEMMA VerifyDataVInv ==
  ASSUME VInv, NEW v \in Vals, VerifyData(v)
  PROVE  VInv'
<1> DEFINE s == stack[v]
           p == s[Len(s)]
           r == Verdict(p, Len(s) - 1)
<1>1. s \in Seq(Packets) /\ ValOK(s, phase[v], verdict[v], report[v]) /\ phase[v] = "check"
  BY DEF VInv, TypeOK, ValInv, VerifyData
<1>2. Len(s) \in Nat /\ Len(s) >= 1 /\ Len(s) <= StepLimit + 1 /\ Linked(s) /\ report[v] = "none"
  BY <1>1 DEF ValOK
<1>3. p \in Packets
  BY <1>1, <1>2
<1>4. stack' = stack /\ report' = report /\ cache' = cache
  BY DEF VerifyData
<1>5. CASE r = "fetch"
  <2>1. /\ phase' = [phase EXCEPT ![v] = IF connected THEN "fetch" ELSE "silent"]
        /\ retry' = [retry EXCEPT ![v] = Retries]
        /\ verdict' = verdict
    BY <1>5 DEF VerifyData, SendInterest, StepCount, Last
  <2>2. TypeOK'
    BY <1>4, <2>1, BoundAssumption DEF VInv, TypeOK, VerifyData
  <2>3. Chased(p) /\ Len(s) - 1 # StepLimit
    BY <1>3, <1>5, VerdictFetch
  <2>4. Len(s) <= StepLimit
    BY <1>2, <2>3, BoundAssumption
  <2>5. phase'[v] \in {"fetch", "silent"}
    BY <2>1 DEF VInv, TypeOK
  <2>6. ValOK(s, phase'[v], verdict[v], report[v])
    BY <1>2, <2>3, <2>4, <2>5 DEF ValOK
  <2>7. \A u \in Vals : ValInv(u)'
    BY <1>4, <2>1, <2>6, Elsewhere DEF VInv, TypeOK, ValInv
  <2> QED BY <1>4, <2>2, <2>7 DEF VInv, CacheIsTrusted
<1>6. CASE r # "fetch"
  <2>1. /\ phase' = [phase EXCEPT ![v] = "job"]
        /\ verdict' = [verdict EXCEPT ![v] = r]
        /\ retry' = retry
    BY <1>6 DEF VerifyData, Queue, StepCount, Last
  <2>2. r \in {"verified", "unverified"}
    BY <1>6 DEF Verdict
  <2>3. TypeOK'
    BY <1>4, <2>1, <2>2 DEF VInv, TypeOK, VerifyData
  <2>4. r = "verified" => p \in Trusted
    BY <1>3, VerdictSound DEF VInv
  <2>5. ValOK(s, "job", r, report[v])
    BY <1>2, <2>4 DEF ValOK
  <2>6. \A u \in Vals : ValInv(u)'
    BY <1>4, <2>1, <2>5, Elsewhere DEF VInv, TypeOK, ValInv
  <2> QED BY <1>4, <2>3, <2>6 DEF VInv, CacheIsTrusted
<1> QED BY <1>5, <1>6

LEMMA BeginVInv ==
  ASSUME VInv, NEW v \in Vals, NEW p \in Received, Begin(v, p)
  PROVE  VInv'
<1>1. p \in Packets
  BY PacketAssumption
<1>2. /\ stack' = [stack EXCEPT ![v] = <<p>>] /\ phase' = [phase EXCEPT ![v] = "check"]
      /\ verdict' = verdict /\ report' = report /\ cache' = cache /\ phase[v] = "new"
  BY DEF Begin
<1>3. TypeOK'
  BY <1>1, <1>2 DEF VInv, TypeOK, Begin
<1>4. report[v] = "none"
  BY <1>2 DEF VInv, ValInv, ValOK
<1>5. ValOK(<<p>>, "check", verdict[v], report[v])
  BY <1>4, BoundAssumption DEF ValOK, Linked
<1>6. \A u \in Vals : ValInv(u)'
  BY <1>2, <1>5, Elsewhere DEF VInv, TypeOK, ValInv
<1> QED BY <1>2, <1>3, <1>6 DEF VInv, CacheIsTrusted

LEMMA CertificateArrivesVInv ==
  ASSUME VInv, NEW v \in Vals, NEW c \in Packets, CertificateArrives(v, c)
  PROVE  VInv'
<1> DEFINE s == stack[v]
           t == Append(s, c)
<1>1. s \in Seq(Packets) /\ ValOK(s, phase[v], verdict[v], report[v]) /\ phase[v] = "fetch"
  BY DEF VInv, TypeOK, ValInv, CertificateArrives
<1>2. /\ stack' = [stack EXCEPT ![v] = t] /\ phase' = [phase EXCEPT ![v] = "check"]
      /\ verdict' = verdict /\ report' = report /\ cache' = cache
      /\ NameOf[c] \in Under[Locator[s[Len(s)]]]
  BY DEF CertificateArrives, Last
<1>3. TypeOK'
  BY <1>1, <1>2 DEF VInv, TypeOK, CertificateArrives
<1>4. /\ Len(s) \in Nat /\ Len(s) >= 1 /\ Len(s) <= StepLimit /\ Linked(s) /\ report[v] = "none"
      /\ Chased(s[Len(s)])
  BY <1>1 DEF ValOK
<1>5. Len(t) = Len(s) + 1 /\ t[Len(s) + 1] = c /\ \A i \in 1..Len(s) : t[i] = s[i]
  BY <1>1
<1>6. Linked(t)
  <2> SUFFICES ASSUME NEW i \in 1..Len(t), i < Len(t)
               PROVE  Chased(t[i]) /\ NameOf[t[i + 1]] \in Under[Locator[t[i]]]
    BY DEF Linked
  <2> HIDE DEF s, t
  <2>1. CASE i = Len(s)
    BY <1>2, <1>4, <1>5, <2>1
  <2>2. CASE i < Len(s)
    <3>1. i \in 1..Len(s) /\ i + 1 \in 1..Len(s)
      BY <1>4, <1>5, <2>2
    <3>2. t[i] = s[i] /\ t[i + 1] = s[i + 1]
      BY <1>5, <3>1
    <3> QED BY <1>4, <2>2, <3>1, <3>2 DEF Linked
  <2> QED BY <1>4, <1>5, <2>1, <2>2
<1>7. ValOK(t, "check", verdict[v], report[v])
  <2> HIDE DEF s, t
  <2> QED BY <1>4, <1>5, <1>6, BoundAssumption DEF ValOK
<1>8. \A u \in Vals : ValInv(u)'
  <2> HIDE DEF t
  <2> QED BY <1>2, <1>7, Elsewhere DEF VInv, TypeOK, ValInv
<1> QED BY <1>2, <1>3, <1>8 DEF VInv, CacheIsTrusted

LEMMA InterestTimeoutVInv ==
  ASSUME VInv, NEW v \in Vals, InterestTimeout(v)
  PROVE  VInv'
<1>1. phase[v] = "fetch" /\ stack' = stack /\ report' = report /\ cache' = cache
  BY DEF InterestTimeout
<1>2. ValOK(stack[v], "fetch", verdict[v], report[v])
  BY <1>1 DEF VInv, ValInv
<1>3. CASE retry[v] > 0
  <2>1. /\ phase' = [phase EXCEPT ![v] = IF connected THEN "fetch" ELSE "silent"]
        /\ retry' = [retry EXCEPT ![v] = retry[v] - 1]
        /\ verdict' = verdict
    BY <1>3 DEF InterestTimeout, SendInterest
  <2>2. TypeOK'
    BY <1>1, <1>3, <2>1, BoundAssumption DEF VInv, TypeOK, InterestTimeout
  <2>3. phase'[v] \in {"fetch", "silent"}
    BY <2>1 DEF VInv, TypeOK
  <2>4. ValOK(stack[v], phase'[v], verdict[v], report[v])
    BY <1>2, <2>3 DEF ValOK
  <2>5. \A u \in Vals : ValInv(u)'
    BY <1>1, <2>1, <2>4, Elsewhere DEF VInv, TypeOK, ValInv
  <2> QED BY <1>1, <2>2, <2>5 DEF VInv, CacheIsTrusted
<1>4. CASE ~(retry[v] > 0)
  <2>1. /\ phase' = [phase EXCEPT ![v] = "job"]
        /\ verdict' = [verdict EXCEPT ![v] = "unverified"]
        /\ retry' = retry
    BY <1>4 DEF InterestTimeout, Queue
  <2>2. TypeOK'
    BY <1>1, <2>1 DEF VInv, TypeOK, InterestTimeout
  <2>3. ValOK(stack[v], "job", "unverified", report[v])
    BY <1>2 DEF ValOK
  <2>4. \A u \in Vals : ValInv(u)'
    BY <1>1, <2>1, <2>3, Elsewhere DEF VInv, TypeOK, ValInv
  <2> QED BY <1>1, <2>2, <2>4 DEF VInv, CacheIsTrusted
<1> QED BY <1>3, <1>4

LEMMA ReportVInv ==
  ASSUME VInv, NEW v \in Vals, Report(v)
  PROVE  VInv'
<1>1. /\ phase[v] = "job" /\ Len(stack[v]) = 1 /\ stack' = stack /\ verdict' = verdict /\ cache' = cache
      /\ report' = [report EXCEPT ![v] = verdict[v]] /\ phase' = [phase EXCEPT ![v] = "done"]
  BY DEF Report
<1>2. ValOK(stack[v], "job", verdict[v], report[v])
  BY <1>1 DEF VInv, ValInv
<1>3. TypeOK'
  BY <1>1 DEF VInv, TypeOK, Report
<1>4. ValOK(stack[v], "done", verdict[v], verdict[v])
  BY <1>1, <1>2 DEF ValOK
<1>5. \A u \in Vals : ValInv(u)'
  BY <1>1, <1>4, Elsewhere DEF VInv, TypeOK, ValInv
<1> QED BY <1>1, <1>3, <1>5 DEF VInv, CacheIsTrusted

\* Taking the newest certificate off a stack leaves a linked stack whose top
\* was waiting for that certificate.
LEMMA Popped ==
  ASSUME NEW s \in Seq(Packets), Linked(s), Len(s) > 1, Len(s) <= StepLimit + 1
  PROVE  LET t == Front(s) IN
         /\ t \in Seq(Packets) /\ Len(t) >= 1 /\ Len(t) <= StepLimit + 1 /\ Linked(t)
         /\ t[Len(t)] = s[Len(s) - 1] /\ t[1] = s[1]
         /\ s[Len(s)] \in Packets /\ s[Len(s) - 1] \in Packets
         /\ Chased(s[Len(s) - 1]) /\ NameOf[s[Len(s)]] \in Under[Locator[s[Len(s) - 1]]]
<1> DEFINE t == Front(s)
<1>1. Len(s) \in Nat
  OBVIOUS
<1>2. t \in Seq(Packets) /\ Len(t) = Len(s) - 1 /\ \A i \in 1..Len(t) : t[i] = s[i]
  BY <1>1 DEF Front
<1> HIDE DEF t
<1>3. Linked(t)
  <2> SUFFICES ASSUME NEW i \in 1..Len(t), i < Len(t)
               PROVE  Chased(t[i]) /\ NameOf[t[i + 1]] \in Under[Locator[t[i]]]
    BY DEF Linked
  <2>1. i \in 1..Len(s) /\ i < Len(s) /\ i + 1 \in 1..Len(t)
    BY <1>1, <1>2
  <2>2. t[i] = s[i] /\ t[i + 1] = s[i + 1]
    BY <1>2, <2>1
  <2> QED BY <2>1, <2>2 DEF Linked
<1>4. s[Len(s)] \in Packets /\ s[Len(s) - 1] \in Packets
  BY <1>1
<1>5. Chased(s[Len(s) - 1]) /\ NameOf[s[Len(s)]] \in Under[Locator[s[Len(s) - 1]]]
  <2> DEFINE k == Len(s) - 1
  <2>1. k \in 1..Len(s) /\ k < Len(s) /\ k + 1 = Len(s)
    BY <1>1
  <2> HIDE DEF k
  <2>2. Chased(s[k]) /\ NameOf[s[k + 1]] \in Under[Locator[s[k]]]
    BY <2>1 DEF Linked
  <2> QED BY <2>1, <2>2 DEF k
<1>6. 1 \in 1..Len(t) /\ Len(t) \in 1..Len(t) /\ Len(t) <= StepLimit + 1
  BY <1>1, <1>2, BoundAssumption
<1>7. t[Len(t)] = s[Len(s) - 1] /\ t[1] = s[1]
  BY <1>2, <1>6
<1> QED BY <1>2, <1>3, <1>4, <1>5, <1>6, <1>7 DEF t

LEMMA CertificateUnverifiedVInv ==
  ASSUME VInv, NEW v \in Vals, CertificateUnverified(v)
  PROVE  VInv'
<1> DEFINE s == stack[v]
           t == Front(s)
<1>1. /\ stack' = [stack EXCEPT ![v] = t] /\ phase' = phase /\ verdict' = verdict
      /\ report' = report /\ cache' = cache
      /\ phase[v] = "job" /\ Len(s) > 1 /\ verdict[v] = "unverified"
  BY DEF CertificateUnverified
<1>2. s \in Seq(Packets) /\ ValOK(s, "job", "unverified", report[v])
  BY <1>1 DEF VInv, TypeOK, ValInv
<1>3. Linked(s) /\ Len(s) <= StepLimit + 1 /\ report[v] = "none"
  BY <1>2 DEF ValOK
<1>4. t \in Seq(Packets) /\ Len(t) >= 1 /\ Len(t) <= StepLimit + 1 /\ Linked(t)
  BY <1>1, <1>2, <1>3, Popped
<1> HIDE DEF s, t
<1>5. TypeOK'
  BY <1>1, <1>4 DEF VInv, TypeOK, CertificateUnverified
<1>6. ValOK(t, "job", "unverified", report[v])
  BY <1>3, <1>4 DEF ValOK
<1>7. \A u \in Vals : ValInv(u)'
  BY <1>1, <1>6, Elsewhere DEF VInv, TypeOK, ValInv
<1> QED BY <1>1, <1>5, <1>7 DEF VInv, CacheIsTrusted

LEMMA CertificateVerifiedVInv ==
  ASSUME VInv, NEW v \in Vals, CertificateVerified(v)
  PROVE  VInv'
<1> DEFINE s == stack[v]
           t == Front(s)
           c == s[Len(s)]
           p == s[Len(s) - 1]
<1>1. /\ stack' = [stack EXCEPT ![v] = t]
      /\ retry' = retry /\ report' = report /\ age' = age
      /\ connected' = connected /\ drops' = drops
      /\ phase[v] = "job" /\ Len(s) > 1 /\ verdict[v] = "verified"
  BY DEF CertificateVerified
<1>2. s \in Seq(Packets) /\ ValOK(s, "job", "verified", report[v])
  BY <1>1 DEF VInv, TypeOK, ValInv
<1>3. Linked(s) /\ Len(s) <= StepLimit + 1 /\ report[v] = "none" /\ c \in Trusted
  BY <1>2 DEF ValOK
<1>4. /\ t \in Seq(Packets) /\ Len(t) >= 1 /\ Len(t) <= StepLimit + 1 /\ Linked(t)
      /\ t[Len(t)] = p /\ c \in Packets /\ p \in Packets
      /\ Chased(p) /\ NameOf[c] \in Under[Locator[p]]
  BY <1>1, <1>2, <1>3, Popped
<1>5. CASE age[c] = "valid"
  <2>1. /\ cache' = [cache EXCEPT ![NameOf[c]] = c]
        /\ phase' = [phase EXCEPT ![v] = IF Signer[p] = KeyOf[c] THEN "job" ELSE "silent"]
        /\ verdict' = verdict
    BY <1>5 DEF CertificateVerified, Last
  <2> HIDE DEF s, t, c, p
  <2>2. TypeOK'
    BY <1>1, <1>4, <2>1, PacketAssumption DEF VInv, TypeOK
  <2>3. CacheIsTrusted'
    <3> SUFFICES ASSUME NEW n \in Names, cache'[n] # NoPacket
                 PROVE  cache'[n] \in Trusted /\ NameOf[cache'[n]] = n
      BY DEF CacheIsTrusted
    <3>1. CASE n = NameOf[c]
      BY <1>3, <2>1, <3>1 DEF VInv, TypeOK
    <3>2. CASE n # NameOf[c]
      BY <2>1, <3>2 DEF VInv, TypeOK, CacheIsTrusted
    <3> QED BY <3>1, <3>2
  <2>4. Signer[p] = KeyOf[c] => p \in Trusted
    <3> SUFFICES ASSUME Signer[p] = KeyOf[c] PROVE p \in Trusted
      OBVIOUS
    <3>1. Vouched(p, Trusted)
      BY <1>3, <1>4 DEF Vouched, Chased
    <3> QED BY <1>4, <3>1, VouchedTrusted DEF Chased
  <2>5. \/ phase'[v] = "job" /\ p \in Trusted
        \/ phase'[v] = "silent"
    BY <2>1, <2>4 DEF VInv, TypeOK
  <2>6. ValOK(t, phase'[v], "verified", report[v])
    BY <1>3, <1>4, <2>5 DEF ValOK
  <2>7. \A u \in Vals : ValInv(u)'
    BY <1>1, <2>1, <2>6, Elsewhere DEF VInv, TypeOK, ValInv
  <2> QED BY <2>2, <2>3, <2>7 DEF VInv
<1>6. CASE age[c] # "valid"
  <2>1. cache' = cache /\ phase' = phase /\ verdict' = [verdict EXCEPT ![v] = "unverified"]
    BY <1>6 DEF CertificateVerified, Last
  <2> HIDE DEF s, t, c, p
  <2>2. TypeOK'
    BY <1>1, <1>4, <2>1 DEF VInv, TypeOK
  <2>3. ValOK(t, "job", "unverified", report[v])
    BY <1>3, <1>4 DEF ValOK
  <2>4. \A u \in Vals : ValInv(u)'
    BY <1>1, <2>1, <2>3, Elsewhere DEF VInv, TypeOK, ValInv
  <2> QED BY <2>1, <2>2, <2>4 DEF VInv, CacheIsTrusted
<1> QED BY <1>5, <1>6

\* Eviction, the passing of time and the connection touch no validation.
LEMMA SurroundingsVInv ==
  ASSUME VInv,
         \/ \E n \in Names : Evict(n)
         \/ \E c \in Ageing : Tick(c)
         \/ Disconnect
         \/ Reconnect
  PROVE  VInv'
<1>1. stack' = stack /\ phase' = phase /\ verdict' = verdict /\ retry' = retry /\ report' = report
  BY DEF Evict, Tick, Disconnect, Reconnect
<1>2. \A u \in Vals : ValInv(u)'
  BY <1>1, Elsewhere DEF VInv
<1>3. ASSUME NEW n \in Names, Evict(n)  PROVE VInv'
  <2>1. TypeOK'
    BY <1>1, <1>3 DEF VInv, TypeOK, Evict
  <2>2. CacheIsTrusted'
    BY <1>3 DEF VInv, TypeOK, CacheIsTrusted, Evict
  <2> QED BY <1>2, <2>1, <2>2 DEF VInv
<1>4. ASSUME NEW c \in Ageing, Tick(c)  PROVE VInv'
  <2>1. TypeOK'
    BY <1>1, <1>4, PacketAssumption DEF VInv, TypeOK, Tick
  <2> QED BY <1>2, <1>4, <2>1 DEF VInv, CacheIsTrusted, Tick
<1>5. ASSUME Disconnect \/ Reconnect  PROVE VInv'
  <2>1. CASE Disconnect
    <3>1. drops \in 0..MaxDrops /\ drops < MaxDrops /\ drops' = drops + 1 /\ MaxDrops \in Nat
      BY <2>1, BoundAssumption DEF VInv, TypeOK, Disconnect
    <3>2. drops' \in 0..MaxDrops
      BY <3>1
    <3>3. TypeOK'
      BY <1>1, <2>1, <3>2 DEF VInv, TypeOK, Disconnect
    <3> QED BY <1>2, <2>1, <3>3 DEF VInv, CacheIsTrusted, Disconnect
  <2>2. CASE Reconnect
    <3>1. TypeOK'
      BY <1>1, <2>2 DEF VInv, TypeOK, Reconnect
    <3> QED BY <1>2, <2>2, <3>1 DEF VInv, CacheIsTrusted, Reconnect
  <2> QED BY <1>5, <2>1, <2>2
<1> QED BY <1>3, <1>4, <1>5

LEMMA NextVInv == VInv /\ [Next]_vars => VInv'
<1> SUFFICES ASSUME VInv, [Next]_vars  PROVE VInv'
  OBVIOUS
<1>1. ASSUME NEW v \in Vals, ValStep(v)  PROVE VInv'
  BY <1>1, VerifyDataVInv, InterestTimeoutVInv, ReportVInv, CertificateVerifiedVInv,
     CertificateUnverifiedVInv DEF ValStep
<1>2. CASE UNCHANGED vars
  <2>1. \A u \in Vals : ValInv(u)'
    BY <1>2, Elsewhere DEF VInv, vars
  <2> QED BY <1>2, <2>1 DEF VInv, TypeOK, CacheIsTrusted, vars
<1> QED
  BY <1>1, <1>2, BeginVInv, CertificateArrivesVInv, SurroundingsVInv DEF Next

LEMMA VInvAlways == Spec => []VInv
BY InitVInv, NextVInv, PTL DEF Spec

-----------------------------------------------------------------------------
(* The results. *)

\* Every reachable state of the verification machinery is well typed, for any
\* number of validations, packets and rules.
THEOREM VerificationTypes == Spec => []TypeOK
<1>1. VInv => TypeOK
  BY DEF VInv
<1> QED BY <1>1, VInvAlways, PTL

\* verifyData never has the application's verifiedCallback called for a packet
\* without a chain of trust, whatever the network answers the certificate
\* interests with and however the validations interleave.
THEOREM VerifiedTrusted == Spec => []VerifiedIsTrusted
<1>1. VInv => VerifiedIsTrusted
  BY DEF VInv, ValInv, ValOK, VerifiedIsTrusted
<1> QED BY <1>1, VInvAlways, PTL

\* onCertificateVerified, the only writer of the shared certificate cache, puts
\* in nothing without a chain of trust, and files it under its own name.
THEOREM CacheTrusted == Spec => []CacheIsTrusted
<1>1. VInv => CacheIsTrusted
  BY DEF VInv
<1> QED BY <1>1, VInvAlways, PTL

\* The step limit of checkVerificationPolicy bounds the certificates any
\* validation has on its way, loops of certificates included.
THEOREM ChainsBounded == Spec => []ChainBounded
<1>1. VInv => ChainBounded
  BY DEF VInv, ValInv, ValOK, ChainBounded
<1> QED BY <1>1, VInvAlways, PTL
=============================================================================
