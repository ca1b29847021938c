---------------------------- MODULE ReportProofs ----------------------------
(***************************************************************************)
(* The CNSA 2.0 timeline and the documents, for all servers, connections   *)
(* and policies: that they tell one story with the quantum section, the    *)
(* advice, the findings and the gate.                                      *)
(***************************************************************************)
EXTENDS TargetProofs

-----------------------------------------------------------------------------
(***************************************************************************)
(* What the milestones say.                                                *)
(***************************************************************************)
LEMMA AdviseIsEmpty ==
  ASSUME NEW title, NEW titles, title \in titles
  PROVE  /\ <<title>> \in Seq(titles) /\ Len(<<title>>) = 1 /\ <<title>>[1] = title
         /\ << >> \in Seq(titles) /\ Len(<< >>) = 0
OBVIOUS

LEMMA EmptyWhenBoth ==
  ASSUME NEW titles, NEW s \in Seq(titles), NEW t \in Seq(titles)
  PROVE  /\ s \o t \in Seq(titles)
         /\ s \o t = << >> <=> s = << >> /\ t = << >>
         /\ s # << >> => (s \o t)[1] = s[1]
         /\ s = << >> => s \o t = t
OBVIOUS

NoLargeSuite(m) == m.suites # {} /\ \A s \in m.suites : Bits(s) < 256
Legacy == {"TLS1.2", "TLS1.1", "TLS1.0"}

NSSGaps == {"ML-KEM_key_exchange_not_detected", "no_256-bit_symmetric_cipher_suite"}
TLSGaps ==
  { "TLS1.3_not_supported", "Legacy_protocol_still_enabled:_TLS1.2",
    "Legacy_protocol_still_enabled:_TLS1.1", "Legacy_protocol_still_enabled:_TLS1.0" }

LEMMA NSSGapIs ==
  ASSUME NEW m
  PROVE  /\ NSSGap(m) = << >> <=> HasHybrid(m) /\ ~NoLargeSuite(m)
         /\ NSSGap(m) # << >> =>
              NSSGap(m)[1] = IF HasHybrid(m) THEN "no_256-bit_symmetric_cipher_suite"
                             ELSE "ML-KEM_key_exchange_not_detected"
<1> DEFINE one == Advise("ML-KEM_key_exchange_not_detected", ~HasHybrid(m))
           two == Advise("no_256-bit_symmetric_cipher_suite", m.suites # {} /\ \A s \in m.suites : Bits(s) < 256)
<1>1. NSSGap(m) = one \o two
  BY DEF NSSGap
<1>2. /\ one = IF ~HasHybrid(m) THEN <<"ML-KEM_key_exchange_not_detected">> ELSE << >>
      /\ two = IF NoLargeSuite(m) THEN <<"no_256-bit_symmetric_cipher_suite">> ELSE << >>
  BY DEF Advise, NoLargeSuite
<1> HIDE DEF one, two
<1>3. one \in Seq(NSSGaps) /\ two \in Seq(NSSGaps)
  BY <1>2, AdviseIsEmpty DEF NSSGaps
<1>4. /\ one # << >> <=> ~HasHybrid(m)
      /\ two # << >> <=> NoLargeSuite(m)
      /\ one # << >> => one[1] = "ML-KEM_key_exchange_not_detected"
      /\ two # << >> => two[1] = "no_256-bit_symmetric_cipher_suite"
  BY <1>2
<1> QED
  BY <1>1, <1>3, <1>4, EmptyWhenBoth

LEMMA TLSGapIs ==
  ASSUME NEW m
  PROVE  /\ LegacyGap(m) = << >> <=> m.versions \cap Legacy = {}
         /\ TLS13Required(m).gap # << >> => TLS13Required(m).gap[1] \in TLSGaps
         /\ "TLS1.3" \notin m.versions => TLS13Required(m).gap # << >>
<1> DEFINE two == Advise("Legacy_protocol_still_enabled:_TLS1.2", "TLS1.2" \in m.versions)
           one == Advise("Legacy_protocol_still_enabled:_TLS1.1", "TLS1.1" \in m.versions)
           zero == Advise("Legacy_protocol_still_enabled:_TLS1.0", "TLS1.0" \in m.versions)
           none == Advise("TLS1.3_not_supported", "TLS1.3" \notin m.versions)
<1>1. LegacyGap(m) = (two \o one) \o zero /\ TLS13Required(m).gap = none \o LegacyGap(m)
  BY DEF LegacyGap, TLS13Required, Milestone
<1>2. /\ two = IF "TLS1.2" \in m.versions THEN <<"Legacy_protocol_still_enabled:_TLS1.2">> ELSE << >>
      /\ one = IF "TLS1.1" \in m.versions THEN <<"Legacy_protocol_still_enabled:_TLS1.1">> ELSE << >>
      /\ zero = IF "TLS1.0" \in m.versions THEN <<"Legacy_protocol_still_enabled:_TLS1.0">> ELSE << >>
      /\ none = IF "TLS1.3" \notin m.versions THEN <<"TLS1.3_not_supported">> ELSE << >>
  BY DEF Advise
<1> HIDE DEF two, one, zero, none
<1>3. two \in Seq(TLSGaps) /\ one \in Seq(TLSGaps) /\ zero \in Seq(TLSGaps) /\ none \in Seq(TLSGaps)
  BY <1>2, AdviseIsEmpty DEF TLSGaps
<1>4. /\ two # << >> <=> "TLS1.2" \in m.versions
      /\ one # << >> <=> "TLS1.1" \in m.versions
      /\ zero # << >> <=> "TLS1.0" \in m.versions
      /\ none # << >> <=> "TLS1.3" \notin m.versions
  BY <1>2
<1>5. /\ LegacyGap(m) \in Seq(TLSGaps)
      /\ LegacyGap(m) = << >> <=> two = << >> /\ one = << >> /\ zero = << >>
  BY <1>1, <1>3, EmptyWhenBoth
<1>6. TLS13Required(m).gap \in Seq(TLSGaps)
  BY <1>1, <1>3, <1>5, EmptyWhenBoth
<1>7. TLS13Required(m).gap # << >> => TLS13Required(m).gap[1] \in TLSGaps
  BY <1>6
<1>8. "TLS1.3" \notin m.versions => TLS13Required(m).gap # << >>
  BY <1>1, <1>3, <1>4, <1>5, EmptyWhenBoth
<1> QED
  BY <1>4, <1>5, <1>7, <1>8 DEF Legacy

NSSStatus(m) ==
  IF ~HasHybrid(m) THEN "non-compliant" ELSE IF NoLargeSuite(m) THEN "partial" ELSE "compliant"
TLSStatus(m) ==
  IF "TLS1.3" \notin m.versions THEN "non-compliant"
  ELSE IF m.versions \cap Legacy = {} THEN "compliant" ELSE "partial"

LEMMA StatusesAre ==
  ASSUME NEW m
  PROVE  /\ Milestones(m)[1].status = "in-progress"
         /\ Milestones(m)[2].status = NSSStatus(m) /\ Milestones(m)[2].gap = NSSGap(m)
         /\ Milestones(m)[3].status = TLSStatus(m) /\ Milestones(m)[3].gap = TLS13Required(m).gap
         /\ Milestones(m)[4].status = "not-applicable" /\ Milestones(m)[5].status = "not-applicable"
<1>1. /\ Milestones(m)[1] = Milestone("Preparation_Phase", "in-progress", << >>)
      /\ Milestones(m)[2] = NewNSSSystems(m) /\ Milestones(m)[3] = TLS13Required(m)
      /\ Milestones(m)[4] = NotYetRequired("Legacy_System_Update")
      /\ Milestones(m)[5] = NotYetRequired("Full_PQC_Transition")
  BY DEF Milestones
<1>2. NewNSSSystems(m).status = NSSStatus(m) /\ NewNSSSystems(m).gap = NSSGap(m)
  BY NSSGapIs DEF NewNSSSystems, Milestone, NSSStatus
<1>3. TLS13Required(m).status = TLSStatus(m)
  BY TLSGapIs DEF TLS13Required, Milestone, TLSStatus
<1> QED
  BY <1>1, <1>2, <1>3 DEF NotYetRequired, Milestone

Earned2(status) == IF status = "compliant" THEN 30 ELSE IF status = "partial" THEN 18 ELSE 0
Earned3(status) == IF status = "compliant" THEN 25 ELSE IF status = "partial" THEN 15 ELSE 0

LEMMA ScoreOfTheTimeline ==
  ASSUME NEW m
  PROVE  TimelineScore(Milestones(m)) = 39 + Earned2(NSSStatus(m)) + Earned3(TLSStatus(m))
<1> DEFINE ms == Milestones(m)
           part(n) == (Weights[n] * StatusScore(ms[n].status)) \div 100
<1>1. /\ Weights[1] = 10 /\ Weights[2] = 30 /\ Weights[3] = 25 /\ Weights[4] = 20 /\ Weights[5] = 15
  BY DEF Weights
<1>2. /\ ms[1].status = "in-progress" /\ ms[2].status = NSSStatus(m) /\ ms[3].status = TLSStatus(m)
      /\ ms[4].status = "not-applicable" /\ ms[5].status = "not-applicable"
  BY StatusesAre
<1>3. TimelineScore(ms) = part(1) + part(2) + part(3) + part(4) + part(5)
  BY DEF TimelineScore
<1> HIDE DEF ms
<1>4. part(1) = 4 /\ part(4) = 20 /\ part(5) = 15
  BY <1>1, <1>2 DEF StatusScore
<1>5. part(2) = Earned2(NSSStatus(m))
  BY <1>1, <1>2 DEF StatusScore, NSSStatus, Earned2
<1>6. part(3) = Earned3(TLSStatus(m))
  BY <1>1, <1>2 DEF StatusScore, TLSStatus, Earned3
<1>7. Earned2(NSSStatus(m)) \in Nat /\ Earned3(TLSStatus(m)) \in Nat
  BY DEF Earned2, Earned3
<1> HIDE DEF part
<1>8. TimelineScore(ms) = 39 + Earned2(NSSStatus(m)) + Earned3(TLSStatus(m))
  BY <1>3, <1>4, <1>5, <1>6, <1>7
<1> QED
  BY <1>8 DEF ms

\* What is recorded of the timeline follows from the measurements.
LEMMA TimelineIs ==
  ASSUME Targeted, Analyzed
  PROVE  /\ Judged /\ quantum = RiskUnder(measured, config)
         /\ timeline.milestones = Milestones(measured) /\ timeline.findings = CNSAFindings(measured)
         /\ timeline.score = TimelineScore(Milestones(measured))
         /\ timeline.next \in NextActions(Milestones(measured), CNSAFindings(measured))
<1>1. timeline # NotAnalyzed /\ timeline # NoTimeline
  BY DEF Analyzed, NotAnalyzed, NoTimeline
<1>2. stage = "returned" /\ timeline \in Analyses(measured)
  BY <1>1 DEF Targeted, TimelineFollows
<1>3. quantum = RiskUnder(measured, config)
  BY <1>2 DEF Targeted, AsJudged, QuantumFollows
<1> QED
  BY <1>2, <1>3 DEF Analyses, Judged

-----------------------------------------------------------------------------
(***************************************************************************)
(* The timeline beside the policies, the quantum section and the advice.   *)
(***************************************************************************)
LEMMA PoliciesMeetTheirMilestones ==
  ASSUME Targeted, Passed
  PROVE  /\ policy = DefaultPolicies.cnsa2027 => NSSStatus(measured) = "compliant"
         /\ policy = DefaultPolicies.cnsa2030 =>
              NSSStatus(measured) = "compliant" /\ TLSStatus(measured) = "compliant"
<1>1. /\ ProtocolViolations(policy, measured.versions) = {} /\ CipherViolations(policy, measured) = {}
      /\ QuantumViolations(policy, measured, quantum) = {}
  BY WhatPassed
<1>2. ASSUME policy.requireHybrid, policy.minKeySize = 256
      PROVE  NSSStatus(measured) = "compliant"
  <2>1. HasHybrid(measured)
    BY <1>1, <1>2, QuantumAccepted
  <2>2. ASSUME NEW s \in measured.suites
        PROVE  ~(Bits(s) < 256)
    <3>1. SuiteViolations(policy, s) = {}
      BY <1>1, CiphersAccepted
    <3>2. ~(policy.minKeySize > 0 /\ Bits(s) < policy.minKeySize)
      BY <3>1, SuiteAccepted
    <3> QED
      BY <1>2, <3>2
  <2>3. ~NoLargeSuite(measured)
    BY <2>2 DEF NoLargeSuite
  <2> QED
    BY <2>1, <2>3 DEF NSSStatus
<1>3. ASSUME policy = DefaultPolicies.cnsa2030
      PROVE  TLSStatus(measured) = "compliant"
  <2>1. /\ policy.requiredVersions = {"TLS1.3"} /\ policy.bannedVersions = VersionNames \ {"TLS1.3"}
    BY <1>3, Rules2030
  <2>2. /\ (policy.bannedVersions \ Unprobeable) \cap measured.versions = {}
        /\ (policy.requiredVersions \ Unprobeable) \ measured.versions = {}
    BY <1>1, ProtocolAccepted
  <2>3. "TLS1.3" \in measured.versions /\ measured.versions \cap Legacy = {}
    BY <2>1, <2>2 DEF Unprobeable, VersionNames, Legacy
  <2> QED
    BY <2>3 DEF TLSStatus
<1> QED
  BY <1>2, <1>3, Rules2027, Rules2030

LEMMA KeyExchangeFindings ==
  ASSUME NEW m \in Measurement
  PROVE  /\ HasHybrid(m) <=> \E f \in CNSAFindings(m) : f.category = "key-exchange" /\ f.status = "approved"
         /\ HasHybrid(m) => \A f \in CNSAFindings(m) : f.status # "prohibited"
<1>1. \A f \in AnalyzeSignatures(m.cert) : f.category # "key-exchange" /\ f.status # "prohibited"
  <2>1. CASE m.cert = NoCertificate
    BY <2>1 DEF AnalyzeSignatures
  <2>2. CASE m.cert # NoCertificate
    <3> DEFINE c == m.cert
               enough == IF c.key = "RSA" THEN 3072 ELSE 384
               digest == IF c.sig \in {"SHA384", "SHA256"} THEN "transitional" ELSE "deprecated"
               size == IF c.key \notin {"RSA", "ECDSA"} THEN "unknown"
                       ELSE IF c.bits >= enough THEN "transitional" ELSE "deprecated"
    <3>1. AnalyzeSignatures(c) = {Says("signature", c.sig, digest), Says("signature-key", c.key, size)}
      BY <2>2 DEF AnalyzeSignatures
    <3>2. digest # "prohibited" /\ size # "prohibited"
      OBVIOUS
    <3> HIDE DEF digest, size
    <3> QED
      BY <3>1, <3>2 DEF Says
  <2> QED
    BY <2>1, <2>2
<1>2. \A f \in AnalyzeSymmetric(m) : f.category # "key-exchange" /\ f.status # "prohibited"
  <2> DEFINE status(s) == IF Bits(s) >= 256 THEN "approved"
                          ELSE IF Bits(s) >= 128 THEN "transitional" ELSE "deprecated"
  <2>1. AnalyzeSymmetric(m) = {Says("symmetric", s.cipher, status(s)) : s \in m.suites}
    BY DEF AnalyzeSymmetric
  <2>2. \A s : status(s) # "prohibited"
    OBVIOUS
  <2> HIDE DEF status
  <2> QED
    BY <2>1, <2>2 DEF Says
<1>3. HasHybrid(m) <=> \E g \in m.groups : KeyExchangeStatus(g) = "approved"
  BY DEF HasHybrid, KeyExchangeStatus
<1>4. \A g : KeyExchangeStatus(g) # "prohibited"
  BY DEF KeyExchangeStatus
<1>5. AnalyzeKeyExchange(m) =
        {Says("key-exchange", g, KeyExchangeStatus(g)) : g \in m.groups}
          \cup (IF m.groups = {} \/ HasHybrid(m) THEN {}
                ELSE {Says("key-exchange", "classical-only", "prohibited")})
  BY DEF AnalyzeKeyExchange
<1>6. HasHybrid(m) <=> \E f \in AnalyzeKeyExchange(m) : f.category = "key-exchange" /\ f.status = "approved"
  <2> DEFINE negotiated == {Says("key-exchange", g, KeyExchangeStatus(g)) : g \in m.groups}
             rest == IF m.groups = {} \/ HasHybrid(m) THEN {}
                     ELSE {Says("key-exchange", "classical-only", "prohibited")}
  <2>1. (\E f \in negotiated : f.category = "key-exchange" /\ f.status = "approved") <=>
          \E g \in m.groups : KeyExchangeStatus(g) = "approved"
    <3>1. \A g : /\ Says("key-exchange", g, KeyExchangeStatus(g)).category = "key-exchange"
                 /\ Says("key-exchange", g, KeyExchangeStatus(g)).status = KeyExchangeStatus(g)
      BY DEF Says
    <3>2. ASSUME NEW g \in m.groups, KeyExchangeStatus(g) = "approved"
          PROVE  \E f \in negotiated : f.category = "key-exchange" /\ f.status = "approved"
      <4>1. Says("key-exchange", g, KeyExchangeStatus(g)) \in negotiated
        OBVIOUS
      <4> QED
        BY <3>1, <3>2, <4>1
    <3>3. ASSUME NEW f \in negotiated, f.status = "approved"
          PROVE  \E g \in m.groups : KeyExchangeStatus(g) = "approved"
      <4>1. PICK g \in m.groups : f = Says("key-exchange", g, KeyExchangeStatus(g))
        OBVIOUS
      <4> QED
        BY <3>1, <3>3, <4>1
    <3> QED
      BY <3>2, <3>3
  <2>2. \A f \in rest : f.status # "approved"
    BY DEF Says
  <2> HIDE DEF negotiated, rest
  <2>3. AnalyzeKeyExchange(m) = negotiated \cup rest
    BY <1>5 DEF negotiated, rest
  <2> QED
    BY <1>3, <2>1, <2>2, <2>3
<1>7. HasHybrid(m) => \A f \in AnalyzeKeyExchange(m) : f.status # "prohibited"
  BY <1>4, <1>5 DEF Says
<1> QED
  BY <1>1, <1>2, <1>6, <1>7 DEF CNSAFindings

\* The next action names hybrid key exchange just when there is none.
LEMMA NextActionIs ==
  ASSUME NEW m \in Measurement, NEW a \in NextActions(Milestones(m), CNSAFindings(m))
  PROVE  a = <<"close", "ML-KEM_key_exchange_not_detected">> <=> ~HasHybrid(m)
<1> DEFINE ms == Milestones(m)
           findings == CNSAFindings(m)
           missed == {n \in 1..5 : ms[n].status \in {"non-compliant", "partial"} /\ ms[n].gap # << >>}
           bad(k) == {f \in findings : f.category = Categories[k] /\ f.status \in {"deprecated", "prohibited"}}
           blamed == {k \in 1..4 : bad(k) # {}}
           First(S) == CHOOSE n \in S : \A k \in S : n <= k
           first == First(missed)
           worst == First(blamed)
<1>1. a \in IF missed # {} THEN {<<"close", ms[first].gap[1]>>}
            ELSE IF blamed # {} THEN {<<"replace", f.algorithm>> : f \in bad(worst)}
            ELSE {<<"continue_monitoring">>}
  BY DEF NextActions
<1>2. /\ ms[1].status = "in-progress"
      /\ ms[2].status = NSSStatus(m) /\ ms[2].gap = NSSGap(m)
      /\ ms[3].status = TLSStatus(m) /\ ms[3].gap = TLS13Required(m).gap
      /\ ms[4].status = "not-applicable" /\ ms[5].status = "not-applicable"
  BY StatusesAre
<1> HIDE DEF ms, findings, bad
<1>3. missed \subseteq {2, 3}
  BY <1>2
<1>4. 2 \in missed <=> (HasHybrid(m) => NoLargeSuite(m))
  BY <1>2, NSSGapIs DEF NSSStatus
<1>5. missed # {} => first \in missed /\ \A k \in missed : first <= k
  <2>1. missed \in SUBSET Nat
    OBVIOUS
  <2> HIDE DEF missed
  <2> QED
    BY <2>1, LeastExists
<1> HIDE DEF missed, first, worst, blamed, First
<1>6. CASE ~HasHybrid(m)
  <2>1. 2 \in missed
    BY <1>4, <1>6
  <2>2. first = 2
    <3>1. first \in {2, 3} /\ first <= 2
      BY <1>3, <1>5, <2>1
    <3> QED
      BY <3>1
  <2>3. ms[first].gap[1] = "ML-KEM_key_exchange_not_detected"
    BY <1>2, <1>6, <2>2, NSSGapIs
  <2> QED
    BY <1>1, <1>6, <2>1, <2>3
<1>7. CASE HasHybrid(m) /\ missed # {}
  <2>1. ms[first].gap[1] # "ML-KEM_key_exchange_not_detected"
    <3>1. CASE first = 2
      BY <1>2, <1>4, <1>5, <1>7, <3>1, NSSGapIs
    <3>2. CASE first = 3
      <4>1. ms[3].gap # << >>
        BY <1>5, <1>7, <3>2 DEF missed
      <4> QED
        BY <1>2, <3>2, <4>1, TLSGapIs DEF TLSGaps
    <3> QED
      BY <1>3, <1>5, <1>7, <3>1, <3>2
  <2>2. a = <<"close", ms[first].gap[1]>>
    BY <1>1, <1>7
  <2> QED
    BY <1>7, <2>1, <2>2
<1>8. CASE HasHybrid(m) /\ missed = {}
  <2>1. a[1] \in {"replace", "continue_monitoring"}
    BY <1>1, <1>8
  <2> QED
    BY <1>8, <2>1
<1> QED
  BY <1>6, <1>7, <1>8

LEMMA TimelineStoryFollows ==
  ASSUME Targeted
  PROVE  TimelineTellsTheSameStory
<1> SUFFICES ASSUME Analyzed
             PROVE  /\ Passed /\ policy = DefaultPolicies.cnsa2027 => StatusOf(2) = "compliant"
                    /\ Passed /\ policy = DefaultPolicies.cnsa2030 =>
                         StatusOf(2) = "compliant" /\ StatusOf(3) = "compliant"
                    /\ StatusOf(3) = "non-compliant" <=> "Enable_TLS1.3" \in Advised
                    /\ {"Disable_TLS1.0", "Disable_TLS1.1"} \cap Advised # {} => StatusOf(3) # "compliant"
                    /\ quantum.assessed =>
                         /\ quantum.hybridReady <=> StatusOf(2) # "non-compliant"
                         /\ quantum.hybridReady <=>
                              \E f \in timeline.findings : f.category = "key-exchange" /\ f.status = "approved"
                         /\ quantum.hybridReady => \A f \in timeline.findings : f.status # "prohibited"
                         /\ timeline.next = <<"close", "ML-KEM_key_exchange_not_detected">> <=>
                              "Enable_Hybrid_Post-Quantum_Key_Exchange" \in Advised
  BY DEF TimelineTellsTheSameStory
<1>1. /\ Judged /\ quantum = RiskUnder(measured, config)
      /\ timeline.milestones = Milestones(measured) /\ timeline.findings = CNSAFindings(measured)
      /\ timeline.next \in NextActions(Milestones(measured), CNSAFindings(measured))
  BY TimelineIs
<1>2. StatusOf(2) = NSSStatus(measured) /\ StatusOf(3) = TLSStatus(measured)
  BY <1>1, StatusesAre DEF StatusOf
<1>3. measured \in Measurement /\ AsJudged
  BY PolicyOfTheRun DEF Targeted
<1>4. /\ "Enable_TLS1.3" \in Advised <=> "TLS1.3" \notin measured.versions
      /\ "Disable_TLS1.0" \in Advised => "TLS1.0" \in measured.versions
      /\ "Disable_TLS1.1" \in Advised => "TLS1.1" \in measured.versions
  BY <1>1, <1>3, CauseIsAdvised
<1>5. StatusOf(3) = "non-compliant" <=> "Enable_TLS1.3" \in Advised
  BY <1>2, <1>4 DEF TLSStatus
<1>6. {"Disable_TLS1.0", "Disable_TLS1.1"} \cap Advised # {} => StatusOf(3) # "compliant"
  BY <1>2, <1>4 DEF TLSStatus, Legacy
<1>7. ASSUME quantum.assessed
      PROVE  /\ quantum.hybridReady <=> StatusOf(2) # "non-compliant"
             /\ quantum.hybridReady <=>
                  \E f \in timeline.findings : f.category = "key-exchange" /\ f.status = "approved"
             /\ quantum.hybridReady => \A f \in timeline.findings : f.status # "prohibited"
             /\ timeline.next = <<"close", "ML-KEM_key_exchange_not_detected">> <=>
                  "Enable_Hybrid_Post-Quantum_Key_Exchange" \in Advised
  <2>1. config.checkQuantum
    BY <1>1, <1>7 DEF RiskUnder, NotAssessed
  <2>2. quantum.hybridReady = HasHybrid(measured)
    BY <1>1, <2>1 DEF RiskUnder, AssessQuantumRisk
  <2>3. "Enable_Hybrid_Post-Quantum_Key_Exchange" \in Advised <=> ~HasHybrid(measured)
    BY <1>1, <1>3, <2>1, HybridAdvised
  <2>4. HasHybrid(measured) <=> StatusOf(2) # "non-compliant"
    BY <1>2 DEF NSSStatus
  <2>5. timeline.next = <<"close", "ML-KEM_key_exchange_not_detected">> <=> ~HasHybrid(measured)
    BY <1>1, <1>3, NextActionIs
  <2> QED
    BY <1>1, <1>3, <2>2, <2>3, <2>4, <2>5, KeyExchangeFindings
<1>8. Passed /\ policy = DefaultPolicies.cnsa2027 => StatusOf(2) = "compliant"
  BY <1>2, PoliciesMeetTheirMilestones
<1>9. Passed /\ policy = DefaultPolicies.cnsa2030 => StatusOf(2) = "compliant" /\ StatusOf(3) = "compliant"
  BY <1>2, PoliciesMeetTheirMilestones
<1> QED
  BY <1>5, <1>6, <1>7, <1>8, <1>9

\* A server that passes the policy of a target year meets its milestone, and the
\* timeline, the quantum section and the advice see one server.
THEOREM TimelineIsOneStory == ReportsSpec => []TimelineTellsTheSameStory
<1>1. Targeted => TimelineTellsTheSameStory
  BY TimelineStoryFollows
<1> QED
  BY <1>1, TargetInvariance, PTL

-----------------------------------------------------------------------------
(***************************************************************************)
(* The timeline of a weaker server.                                        *)
(***************************************************************************)
LEMMA WeakerScoresNoMore ==
  ASSUME NEW m, NEW w, HasHybrid(w) => HasHybrid(m), NoLargeSuite(m) => NoLargeSuite(w),
         "TLS1.3" \in w.versions => "TLS1.3" \in m.versions,
         m.versions \cap Legacy # {} => w.versions \cap Legacy # {}
  PROVE  TimelineScore(Milestones(w)) <= TimelineScore(Milestones(m))
<1>1. Earned2(NSSStatus(w)) <= Earned2(NSSStatus(m))
  BY DEF Earned2, NSSStatus
<1>2. Earned3(TLSStatus(w)) <= Earned3(TLSStatus(m))
  BY DEF Earned3, TLSStatus
<1>3. /\ Earned2(NSSStatus(w)) \in Nat /\ Earned2(NSSStatus(m)) \in Nat
      /\ Earned3(TLSStatus(w)) \in Nat /\ Earned3(TLSStatus(m)) \in Nat
  BY DEF Earned2, Earned3
<1>4. /\ TimelineScore(Milestones(m)) = 39 + Earned2(NSSStatus(m)) + Earned3(TLSStatus(m))
      /\ TimelineScore(Milestones(w)) = 39 + Earned2(NSSStatus(w)) + Earned3(TLSStatus(w))
  BY ScoreOfTheTimeline
<1> QED
  BY <1>1, <1>2, <1>3, <1>4

LEMMA WeakerAdvancesFollows ==
  ASSUME Targeted
  PROVE  WeakerNeverAdvances
<1> DEFINE Older == { [measured EXCEPT !.versions = @ \cup {v}] : v \in VersionNames \ {"TLS1.3"} }
           Wider == { [measured EXCEPT !.suites = @ \cup {s}] : s \in {x \in Suite : Bits(x) < 256} }
           Classical == [measured EXCEPT !.groups = @ \ HybridGroups]
           Without13 == [measured EXCEPT !.versions = @ \ {"TLS1.3"}]
<1> SUFFICES ASSUME Analyzed, NEW w \in Older \cup Wider \cup {Classical, Without13}
             PROVE  TimelineScore(Milestones(w)) <= timeline.score
  BY DEF WeakerNeverAdvances
<1>1. timeline.score = TimelineScore(Milestones(measured)) /\ measured \in Measurement
  BY TimelineIs, PolicyOfTheRun
<1>2. HasHybrid(w) => HasHybrid(measured)
  <2>1. w.groups \subseteq measured.groups
    BY <1>1 DEF Measurement
  <2> QED
    BY <2>1 DEF HasHybrid
<1>3. NoLargeSuite(measured) => NoLargeSuite(w)
  <2>1. w.suites = measured.suites \/ \E s : Bits(s) < 256 /\ w.suites = measured.suites \cup {s}
    BY <1>1 DEF Measurement
  <2> QED
    BY <2>1 DEF NoLargeSuite
<1>4. /\ "TLS1.3" \in w.versions => "TLS1.3" \in measured.versions
      /\ measured.versions \cap Legacy # {} => w.versions \cap Legacy # {}
  <2>1. \/ w.versions = measured.versions
        \/ \E v : v # "TLS1.3" /\ w.versions = measured.versions \cup {v}
        \/ w.versions = measured.versions \ {"TLS1.3"}
    BY <1>1 DEF Measurement
  <2> QED
    BY <2>1 DEF Legacy
<1> HIDE DEF Older, Wider, Classical, Without13
<1> QED
  BY <1>1, <1>2, <1>3, <1>4, WeakerScoresNoMore

\* A server never advances on the timeline by becoming weaker.
THEOREM WeaknessAdvancesNobody == ReportsSpec => []WeakerNeverAdvances
<1>1. Targeted => WeakerNeverAdvances
  BY WeakerAdvancesFollows
<1> QED
  BY <1>1, TargetInvariance, PTL

-----------------------------------------------------------------------------
(***************************************************************************)
(* What was not measured.                                                  *)
(***************************************************************************)
LEMMA WhatIsWritten ==
  ASSUME Targeted, Written
  PROVE  /\ report.text = Text /\ report.html = Html /\ report.sarif = Sarif /\ report.cbom = Cbom
         /\ NeverReached <=> NothingMeasured
         /\ ~NeverReached =>
              /\ Judged /\ quantum = RiskUnder(measured, config)
              /\ vulns = FindingsUnder(measured, config) /\ grade = GradeUnder(measured, config)
              /\ policyResult = Evaluate(policy, measured, quantum)
<1>1. report = [text |-> Text, html |-> Html, sarif |-> Sarif, cbom |-> Cbom]
  BY DEF Targeted, ReportFollows, Written
<1>2. NeverReached => NothingMeasured
  BY DEF Targeted, InOrder, NeverReached
<1>3. ~NeverReached => stage = "returned" /\ policyResult = Evaluate(policy, measured, quantum)
  BY DEF Targeted, InOrder, PolicyFollows, Written
<1>4. ~NeverReached => ~NothingMeasured
  BY <1>3 DEF Targeted, InOrder, Judgements
<1>5. ~NeverReached => /\ quantum = RiskUnder(measured, config)
                       /\ vulns = FindingsUnder(measured, config) /\ grade = GradeUnder(measured, config)
  BY <1>3 DEF Targeted, AsJudged, FindingsFollow, QuantumFollows, GradeFollows
<1> QED
  BY <1>1, <1>2, <1>3, <1>4, <1>5 DEF Judged

\* The alert for quantum risk is no finding's.
LEMMA QuantumAlert ==
  ASSUME Targeted, Written, ~NeverReached
  PROVE  /\ \A v \in vulns : v.id # "QUANTUM_VULNERABLE"
         /\ QuantumResult = IF config.checkQuantum /\ ~HasHybrid(measured) THEN {"QUANTUM_VULNERABLE"} ELSE {}
         /\ quantum.assessed = config.checkQuantum
<1>1. /\ measured \in Measurement /\ config \in Config
      /\ quantum = RiskUnder(measured, config) /\ vulns = FindingsUnder(measured, config)
  BY WhatIsWritten, PolicyOfTheRun
<1>2. vulns \subseteq Finding
  BY <1>1, VulnerabilitiesAreFindings DEF FindingsUnder
<1>3. \A v \in vulns : v.id # "QUANTUM_VULNERABLE"
  BY <1>2 DEF Finding, FindingId
<1>4. quantum.score = IF config.checkQuantum /\ HasHybrid(measured) THEN 64 ELSE 0
  BY <1>1, FactorsAreBounded
<1>5. quantum.assessed = config.checkQuantum
  BY <1>1 DEF RiskUnder, AssessQuantumRisk, NotAssessed, Config
<1> QED
  BY <1>3, <1>4, <1>5 DEF QuantumResult

LEMMA UnmeasuredFollows ==
  ASSUME Targeted
  PROVE  UnmeasuredNeverLooksMeasured
<1> DEFINE full == Score(measured, [checkVulns |-> TRUE, checkQuantum |-> TRUE])
<1> SUFFICES ASSUME Written
             PROVE  IF NothingMeasured
          THEN /\ ~Text.scanned /\ ~Html.scanned /\ ~Sarif.executionSuccessful /\ ~Cbom.targetReached
               /\ Sarif.results = {} /\ Cbom.components = {} /\ Cbom.services = 0
          ELSE /\ Text.score # full => Text.basis # {} /\ (Html.quantum = {} \/ Html.penalty = "not_measured")
               /\ ~config.checkQuantum =>
                    /\ Text.quantum = {} /\ Html.quantum = {} /\ "not_comparable" \in Text.basis
                    /\ \A a \in Sarif.rules \cup Sarif.results : a.rule # "QUANTUM_VULNERABLE"
               /\ Sarif.executionSuccessful /\ Sarif.results = {} =>
                    /\ config.checkVulns => Vulnerabilities(measured) = {}
                    /\ config.checkQuantum => HasHybrid(measured)
               /\ Cbom.components # {}
  BY WhatIsWritten DEF UnmeasuredNeverLooksMeasured
<1>1. CASE NothingMeasured
  <2>1. NeverReached
    BY <1>1, WhatIsWritten
  <2> QED
    BY <1>1, <2>1 DEF Text, Html, Sarif, Cbom
<1>2. CASE ~NothingMeasured
  <2>1. /\ ~NeverReached /\ Judged /\ quantum = RiskUnder(measured, config)
        /\ vulns = FindingsUnder(measured, config) /\ grade = GradeUnder(measured, config)
        /\ measured \in Measurement /\ config \in Config
    BY <1>2, WhatIsWritten, PolicyOfTheRun
  <2>2. /\ Text.score = grade.score /\ Text.basis = Basis
        /\ Text.quantum = IF grade.quantumGrade = "not_assessed" THEN {} ELSE {quantum}
        /\ Html.quantum = IF quantum.assessed THEN {quantum} ELSE {}
        /\ Html.penalty = IF grade.vulnerabilitiesAssessed THEN "measured" ELSE "not_measured"
    BY <2>1 DEF Text, Html
  <2>3. /\ Sarif.rules = BuildRules /\ Sarif.results = BuildResults /\ Cbom.components = Components
    BY <2>1 DEF Sarif, Cbom
  <2>4. /\ grade.skipped = SkippedDimensions(config) /\ grade.vulnerabilitiesAssessed = config.checkVulns
        /\ ~config.checkQuantum => grade.quantumGrade = "not_assessed"
    BY <2>1, GradeHas
  <2>5. /\ \A v \in vulns : v.id # "QUANTUM_VULNERABLE"
        /\ QuantumResult = IF config.checkQuantum /\ ~HasHybrid(measured) THEN {"QUANTUM_VULNERABLE"} ELSE {}
        /\ quantum.assessed = config.checkQuantum
    BY <2>1, QuantumAlert
  <2>6. Text.score # full => Text.basis # {} /\ (Html.quantum = {} \/ Html.penalty = "not_measured")
    <3>1. grade.score # full => ~grade.vulnerabilitiesAssessed \/ grade.skipped # {}
      BY <2>1, SkippedFollows DEF Targeted, SkippedChecksAreDisclosed
    <3>2. grade.skipped # {} => ~quantum.assessed
      BY <2>4, <2>5 DEF SkippedDimensions
    <3>3. ~grade.vulnerabilitiesAssessed \/ grade.skipped # {} => Basis # {}
      BY DEF Basis
    <3> HIDE DEF full
    <3> QED
      BY <2>2, <3>1, <3>2, <3>3
  <2>7. ASSUME ~config.checkQuantum
        PROVE  /\ Text.quantum = {} /\ Html.quantum = {} /\ "not_comparable" \in Text.basis
               /\ \A a \in Sarif.rules \cup Sarif.results : a.rule # "QUANTUM_VULNERABLE"
    <3>1. Text.quantum = {} /\ Html.quantum = {}
      BY <2>2, <2>4, <2>5, <2>7
    <3>2. "not_comparable" \in Text.basis
      BY <2>2, <2>4, <2>7 DEF Basis, SkippedDimensions
    <3>3. QuantumResult = {}
      BY <2>5, <2>7
    <3>4. \A a \in BuildResults : a.rule # "QUANTUM_VULNERABLE"
      BY <2>5, <3>3 DEF BuildResults, Alert
    <3>5. \A a \in BuildRules : a.rule # "QUANTUM_VULNERABLE"
      <4> DEFINE level(id) == SeverityToSARIF((CHOOSE v \in vulns : v.id = id).severity)
      <4>1. BuildRules = { Alert(id, level(id)) : id \in FoundIds }
        BY <3>3 DEF BuildRules
      <4> HIDE DEF level
      <4> QED
        BY <2>5, <4>1 DEF Alert, FoundIds
    <3> QED
      BY <2>3, <3>1, <3>2, <3>4, <3>5
  <2>8. ASSUME Sarif.results = {}
        PROVE  /\ config.checkVulns => Vulnerabilities(measured) = {}
               /\ config.checkQuantum => HasHybrid(measured)
    <3>1. vulns = {} /\ QuantumResult = {}
      BY <2>3, <2>8 DEF BuildResults
    <3> QED
      BY <2>1, <2>5, <3>1 DEF FindingsUnder
  <2>9. Cbom.components # {}
    <3>1. measured.versions # {} \/ HasCertificate \/ measured.groups # {}
      BY <1>2 DEF NothingMeasured
    <3>2. measured.versions # {} => Components # {}
      BY DEF Components
    <3>3. HasCertificate => Components # {}
      BY DEF Components
    <3>4. measured.groups # {} => Components # {}
      BY DEF Components
    <3> QED
      BY <2>3, <3>1, <3>2, <3>3, <3>4
  <2> QED
    BY <1>2, <2>6, <2>7, <2>8, <2>9
<1> QED
  BY <1>1, <1>2

\* What was not measured never reads as measured, in any format.
THEOREM SilenceIsNotEvidence == ReportsSpec => []UnmeasuredNeverLooksMeasured
<1>1. Targeted => UnmeasuredNeverLooksMeasured
  BY UnmeasuredFollows
<1> QED
  BY <1>1, TargetInvariance, PTL

-----------------------------------------------------------------------------
(***************************************************************************)
(* One conclusion from every document: the certificate.                    *)
(***************************************************************************)
SeverityFor(id, m) ==
  IF id \in {"CERT_EXPIRED", "CERT_NOT_YET_VALID"} THEN "CRITICAL"
  ELSE IF id \in {"TLS11_ENABLED", "NO_TLS13", "NO_PFS", "CERT_EXPIRING"} THEN "MEDIUM"
  ELSE IF id = "CERT_SELF_SIGNED" THEN IF m.cert.chain = "failed" THEN "HIGH" ELSE "MEDIUM"
  ELSE "HIGH"

\* Two findings with one id have one severity.
LEMMA OneSeverity ==
  ASSUME NEW m \in Measurement, NEW v \in Vulnerabilities(m)
  PROVE  v.severity = SeverityFor(v.id, m)
<1>1. CASE v \in ProtocolFindings(m.versions)
  <2>1. \/ v = Note("TLS10_ENABLED", << >>, "HIGH") \/ v = Note("TLS11_ENABLED", << >>, "MEDIUM")
        \/ v = Note("NO_TLS13", << >>, "MEDIUM")
    BY <1>1, InProtocolFindings
  <2> QED
    BY <2>1 DEF Note, SeverityFor
<1>2. ASSUME NEW s \in m.suites, v \in SuiteFindings(s)
      PROVE  v.severity = SeverityFor(v.id, m)
  <2>1. \/ v = Note("DEPRECATED_CIPHER", <<s.kx, s.cipher>>, "HIGH")
        \/ v = Note("NO_PFS", <<s.kx, s.cipher>>, "MEDIUM")
    BY <1>2, InSuiteFindings
  <2> QED
    BY <2>1 DEF Note, SeverityFor
<1>3. CASE m.cert # NoCertificate /\ v \in CertificateFindings(m.cert)
  <2> DEFINE c == m.cert
  <2>1. c \in Certificate
    BY <1>3 DEF Measurement
  <2>2. v \in WindowFindings(c) => v.severity = SeverityFor(v.id, m)
    <3>1. v \in WindowFindings(c) =>
            \/ v = Note("CERT_EXPIRED", << >>, "CRITICAL") \/ v = Note("CERT_NOT_YET_VALID", << >>, "CRITICAL")
            \/ v = Note("CERT_EXPIRING", << >>, "MEDIUM")
      BY InWindowFindings
    <3> QED
      BY <3>1 DEF Note, SeverityFor
  <2>3. v \in ChainFindings(c) => v.severity = SeverityFor(v.id, m)
    <3>1. v \in ChainFindings(c) =>
            \/ c.chain = "failed" /\ v = Note("CERT_SELF_SIGNED", <<"failed">>, "HIGH")
            \/ c.chain = "failed" /\ v = Note("CERT_CHAIN_UNTRUSTED", <<"failed">>, "HIGH")
            \/ c.chain # "failed" /\ v = Note("CERT_SELF_SIGNED", <<c.chain>>, "MEDIUM")
      BY <2>1, InChainFindings
    <3> QED
      BY <3>1 DEF Note, SeverityFor
  <2>4. \/ v \in WindowFindings(c) \/ v \in ChainFindings(c)
        \/ v = Note("CERT_NAME_MISMATCH", << >>, "HIGH") \/ v = Note("CERT_WEAK_SIG", << >>, "HIGH")
        \/ v = Note("CERT_WEAK_KEY", << >>, "HIGH")
    BY <1>3, InCertificateFindings
  <2> QED
    BY <2>2, <2>3, <2>4 DEF Note, SeverityFor
<1> QED
  BY <1>1, <1>2, <1>3, InVulnerabilities

\* Every alert has a rule of its own level, and every rule an alert.
LEMMA RulesAreResults ==
  ASSUME Targeted, Written, ~NeverReached
  PROVE  BuildRules = BuildResults
<1> DEFINE level(id) == SeverityToSARIF((CHOOSE v \in vulns : v.id = id).severity)
           quantumAlerts == { Alert(id, "warning") : id \in QuantumResult }
<1>1. measured \in Measurement /\ vulns \subseteq Vulnerabilities(measured)
  BY WhatIsWritten, PolicyOfTheRun DEF FindingsUnder
<1>2. ASSUME NEW v \in vulns
      PROVE  level(v.id) = SeverityToSARIF(v.severity)
  <2> DEFINE w == CHOOSE x \in vulns : x.id = v.id
  <2>1. w \in vulns /\ w.id = v.id
    OBVIOUS
  <2> HIDE DEF w
  <2>2. w.severity = v.severity
    BY <1>1, <2>1, OneSeverity
  <2> QED
    BY <2>2 DEF w
<1>3. /\ BuildRules = {Alert(id, level(id)) : id \in {v.id : v \in vulns}} \cup quantumAlerts
      /\ BuildResults = {Alert(v.id, SeverityToSARIF(v.severity)) : v \in vulns} \cup quantumAlerts
  BY DEF BuildRules, BuildResults, FoundIds
<1> HIDE DEF level, quantumAlerts
<1>4. {Alert(id, level(id)) : id \in {v.id : v \in vulns}} = {Alert(v.id, level(v.id)) : v \in vulns}
  OBVIOUS
<1>5. {Alert(v.id, level(v.id)) : v \in vulns} = {Alert(v.id, SeverityToSARIF(v.severity)) : v \in vulns}
  BY <1>2
<1> QED
  BY <1>3, <1>4, <1>5

LEMMA AlertsAre ==
  ASSUME NEW a
  PROVE  a \in BuildResults <=>
           \/ \E v \in vulns : a = Alert(v.id, SeverityToSARIF(v.severity))
           \/ \E id \in QuantumResult : a = Alert(id, "warning")
BY DEF BuildResults

\* SARIF speaks of a certificate's refusal just when a client refuses it.
LEMMA ToldWhenRefused ==
  ASSUME Targeted, Written, ~NeverReached, HasCertificate, config.checkVulns
  PROVE  (\E a \in BuildResults : a.rule \in Refusals \/ a = Alert("CERT_SELF_SIGNED", "error")) <=>
           RefusedByClients(measured.cert)
<1> DEFINE c == measured.cert
<1>1. /\ measured \in Measurement /\ vulns = Vulnerabilities(measured) /\ c # NoCertificate
  BY WhatIsWritten, PolicyOfTheRun DEF FindingsUnder, HasCertificate
<1>2. /\ \A id, level : Alert(id, level).rule = id /\ Alert(id, level).level = level
  BY DEF Alert
<1>3. ASSUME NEW a \in BuildResults, a.rule \in Refusals \/ a = Alert("CERT_SELF_SIGNED", "error")
      PROVE  RefusedByClients(c)
  <2>1. ~(\E id \in QuantumResult : a = Alert(id, "warning"))
    <3>1. ASSUME NEW id \in QuantumResult, a = Alert(id, "warning")
          PROVE  FALSE
      <4>1. a.rule = "QUANTUM_VULNERABLE"
        BY <1>2, <3>1, QuantumAlert
      <4>2. a.rule \in Refusals \/ a.rule = "CERT_SELF_SIGNED"
        BY <1>2, <1>3
      <4> QED
        BY <4>1, <4>2 DEF Refusals
    <3> QED
      BY <3>1
  <2>2. PICK v \in vulns : a = Alert(v.id, SeverityToSARIF(v.severity))
    BY <2>1, AlertsAre
  <2>3. a.rule = v.id /\ a.level = SeverityToSARIF(v.severity)
    BY <1>2, <2>2
  <2>4. Cause(v.id, measured) /\ v.severity = SeverityFor(v.id, measured)
    BY <1>1, FoundForACause, OneSeverity
  <2>5. CASE a.rule \in Refusals
    BY <1>1, <2>3, <2>4, <2>5 DEF Refusals, Cause, RefusedByClients, Expired
  <2>6. CASE a = Alert("CERT_SELF_SIGNED", "error")
    <3>1. v.id = "CERT_SELF_SIGNED" /\ SeverityToSARIF(v.severity) = "error"
      BY <1>2, <2>3, <2>6
    <3>2. c.chain = "failed"
      BY <2>4, <3>1 DEF SeverityFor, SeverityToSARIF
    <3> QED
      BY <3>2 DEF RefusedByClients
  <2> QED
    BY <1>3, <2>5, <2>6
<1>4. ASSUME NEW id, Cause(id, measured)
      PROVE  /\ id \in Refusals => \E a \in BuildResults : a.rule \in Refusals
             /\ id = "CERT_SELF_SIGNED" /\ c.chain = "failed" => Alert("CERT_SELF_SIGNED", "error") \in BuildResults
  <2>1. PICK v \in vulns : v.id = id
    BY <1>1, <1>4, CauseIsFound
  <2>2. Alert(v.id, SeverityToSARIF(v.severity)) \in BuildResults
    BY AlertsAre
  <2>3. v.severity = SeverityFor(id, measured)
    BY <1>1, <2>1, OneSeverity
  <2>4. id = "CERT_SELF_SIGNED" /\ c.chain = "failed" => SeverityToSARIF(v.severity) = "error"
    BY <2>3 DEF SeverityFor, SeverityToSARIF
  <2> QED
    BY <1>2, <2>1, <2>2, <2>4
<1>5. ASSUME RefusedByClients(c)
      PROVE  \E a \in BuildResults : a.rule \in Refusals \/ a = Alert("CERT_SELF_SIGNED", "error")
  <2>1. CASE Expired(c)
    <3>1. Cause("CERT_EXPIRED", measured) /\ "CERT_EXPIRED" \in Refusals
      BY <1>1, <2>1 DEF Cause, Refusals
    <3> QED
      BY <1>4, <3>1
  <2>2. CASE c.notYetValid
    <3>1. Cause("CERT_NOT_YET_VALID", measured) /\ "CERT_NOT_YET_VALID" \in Refusals
      BY <1>1, <2>2 DEF Cause, Refusals
    <3> QED
      BY <1>4, <3>1
  <2>3. CASE c.name = "failed"
    <3>1. Cause("CERT_NAME_MISMATCH", measured) /\ "CERT_NAME_MISMATCH" \in Refusals
      BY <1>1, <2>3 DEF Cause, Refusals
    <3> QED
      BY <1>4, <3>1
  <2>4. CASE c.chain = "failed" /\ c.selfSigned
    <3>1. Cause("CERT_SELF_SIGNED", measured)
      BY <1>1, <2>4 DEF Cause
    <3> QED
      BY <1>4, <2>4, <3>1
  <2>5. CASE c.chain = "failed" /\ ~c.selfSigned
    <3>1. Cause("CERT_CHAIN_UNTRUSTED", measured) /\ "CERT_CHAIN_UNTRUSTED" \in Refusals
      BY <1>1, <2>5 DEF Cause, Refusals
    <3> QED
      BY <1>4, <3>1
  <2> QED
    BY <1>5, <2>1, <2>2, <2>3, <2>4, <2>5 DEF RefusedByClients, Expired
<1> QED
  BY <1>3, <1>5

LEMMA DatesAre ==
  ASSUME HasCertificate
  PROVE  {x.name[1] : x \in {y \in Components : y.type = "certificate"}} =
           {CertificateValidityContext(measured.cert)}
<1> DEFINE context == CertificateValidityContext(measured.cert)
           certified == Component("certificate", <<context>>, 0)
<1>1. \A type, name, level : /\ Component(type, name, level).type = type
                             /\ Component(type, name, level).name = name
  BY DEF Component
<1>2. \A y : y \in Components <=>
        \/ \E v \in measured.versions : y = Component("protocol", <<v>>, 0)
        \/ \E s \in measured.suites : y = Component("cipher", <<s.kx, s.cipher>>, 0)
        \/ \E g \in measured.groups : y = Component("kex", <<g>>, IF g \in HybridGroups THEN 3 ELSE 0)
        \/ y = certified \/ y = Component("public-key", <<measured.cert.key>>, 0)
  BY DEF Components
<1> HIDE DEF context
<1>3. certified.type = "certificate" /\ certified.name[1] = context
  BY <1>1
<1> HIDE DEF certified
<1>4. {y \in Components : y.type = "certificate"} = {certified}
  <2>1. ASSUME NEW y \in Components, y.type = "certificate"
        PROVE  y = certified
    <3>1. ~\E v \in measured.versions : y = Component("protocol", <<v>>, 0)
      BY <2>1 DEF Component
    <3>2. ~\E s \in measured.suites : y = Component("cipher", <<s.kx, s.cipher>>, 0)
      BY <2>1 DEF Component
    <3>3. ~\E g \in measured.groups : y = Component("kex", <<g>>, IF g \in HybridGroups THEN 3 ELSE 0)
      BY <2>1 DEF Component
    <3>4. y # Component("public-key", <<measured.cert.key>>, 0)
      BY <1>1, <2>1
    <3> QED
      BY <1>2, <3>1, <3>2, <3>3, <3>4
  <2>2. certified \in Components
    BY <1>2
  <2> QED
    BY <1>3, <2>1, <2>2
<1>5. {x.name[1] : x \in {certified}} = {context}
  BY <1>3
<1> QED
  BY <1>4, <1>5 DEF context

LEMMA OneCertificateFollows ==
  ASSUME Targeted, Written, ~NeverReached
  PROVE  OneCertificate(report.text, report.sarif.results, report.cbom.components)
<1> SUFFICES ASSUME HasCertificate
             PROVE  OneCertificate(report.text, report.sarif.results, report.cbom.components)
  BY DEF OneCertificate
<1> DEFINE c == measured.cert
           good == Text.certificate \subseteq {"valid", "expiring"}
           told == {a \in BuildResults : a.rule \in Refusals \/ a = Alert("CERT_SELF_SIGNED", "error")}
           dates == {x.name[1] : x \in {y \in Components : y.type = "certificate"}}
<1>1. /\ report.text = Text /\ report.sarif = Sarif /\ report.cbom = Cbom
      /\ Judged /\ grade = GradeUnder(measured, config)
      /\ measured \in Measurement /\ config \in Config /\ AsJudged
  BY WhatIsWritten, PolicyOfTheRun DEF Targeted
<1>2. report.sarif.results = BuildResults /\ report.cbom.components = Components
  BY <1>1 DEF Sarif, Cbom
<1>3. Text.certificate = {CertificateStatus(c)}
  BY DEF Text
<1>4. dates = {CertificateValidityContext(c)}
  BY DatesAre
<1>5. good <=> ~RefusedByClients(c)
  BY <1>3 DEF CertificateStatus, RefusedByClients, Expired
<1>6. config.checkVulns => (good <=> told = {})
  BY <1>5, ToldWhenRefused
<1>7. good => dates = {"expires_in"}
  BY <1>4, <1>5 DEF CertificateValidityContext, RefusedByClients, Expired
<1>8. ~good => grade.factors["certificate"] = 0
  <2>1. RefusedByClients(c) => grade.factors["certificate"] = 0
    BY <1>1, RefusedFollows DEF RefusedCertificateIsExposed
  <2> QED
    BY <1>5, <2>1
<1>9. "expired" \in Text.certificate => dates \subseteq {"expired", "never_valid"}
  BY <1>3, <1>4 DEF CertificateStatus, CertificateValidityContext
<1>10. "not_yet_valid" \in Text.certificate => dates = {"not_yet_valid"}
  BY <1>3, <1>4 DEF CertificateStatus, CertificateValidityContext
<1>11. config.checkVulns /\ "expiring" \in Text.certificate => "CERT_EXPIRING" \in FoundIds
  <2>1. "expiring" \in Text.certificate => Cause("CERT_EXPIRING", measured)
    BY <1>3 DEF CertificateStatus, Cause, HasCertificate
  <2> QED
    BY <1>1, <2>1, IdsFound
<1> HIDE DEF good, dates, told
<1>12. OneCertificate(Text, BuildResults, Components)
  BY <1>6, <1>7, <1>8, <1>9, <1>10, <1>11 DEF OneCertificate, good, dates, told
<1> QED
  BY <1>1, <1>2, <1>12

-----------------------------------------------------------------------------
(***************************************************************************)
(* One conclusion from every document: quantum readiness.                  *)
(***************************************************************************)
LEMMA OneQuantumFollows ==
  ASSUME Targeted, Written, ~NeverReached
  PROVE  OneQuantumVerdict(report.text, report.html, report.sarif, report.cbom.components)
<1>1. /\ report.text = Text /\ report.html = Html /\ report.sarif = Sarif /\ report.cbom = Cbom
      /\ Judged /\ grade = GradeUnder(measured, config) /\ quantum = RiskUnder(measured, config)
      /\ measured \in Measurement /\ config \in Config
  BY WhatIsWritten, PolicyOfTheRun
<1>2. Sarif.results = BuildResults /\ Cbom.components = Components
  BY DEF Sarif, Cbom
<1>3. /\ \A v \in vulns : v.id # "QUANTUM_VULNERABLE"
      /\ QuantumResult = IF config.checkQuantum /\ ~HasHybrid(measured) THEN {"QUANTUM_VULNERABLE"} ELSE {}
      /\ quantum.assessed = config.checkQuantum
  BY QuantumAlert
<1>4. grade.quantumGrade = "not_assessed" <=> ~config.checkQuantum
  <2>1. grade.quantumGrade = IF config.checkQuantum THEN IF HasHybrid(measured) THEN "Q" ELSE "QV"
                             ELSE "not_assessed"
    BY <1>1, GradeHas
  <2> QED
    BY <2>1
<1>5. Text.quantum = Html.quantum /\ Text.quantum = IF config.checkQuantum THEN {quantum} ELSE {}
  BY <1>3, <1>4 DEF Text, Html
<1>6. config.checkQuantum => quantum.hybridReady = HasHybrid(measured)
  BY <1>1 DEF RiskUnder, AssessQuantumRisk
<1>7. HasHybrid(measured) <=> \E x \in Components : x.quantumLevel > 0
  <2> DEFINE level(g) == IF g \in HybridGroups THEN 3 ELSE 0
  <2>1. \A type, name, n : Component(type, name, n).quantumLevel = n
    BY DEF Component
  <2>2. \A y : y \in Components <=>
          \/ \E v \in measured.versions : y = Component("protocol", <<v>>, 0)
          \/ \E s \in measured.suites : y = Component("cipher", <<s.kx, s.cipher>>, 0)
          \/ \E g \in measured.groups : y = Component("kex", <<g>>, level(g))
          \/ /\ HasCertificate
             /\ \/ y = Component("certificate", <<CertificateValidityContext(measured.cert)>>, 0)
                \/ y = Component("public-key", <<measured.cert.key>>, 0)
    BY DEF Components
  <2>3. ASSUME NEW x \in Components, x.quantumLevel > 0
        PROVE  HasHybrid(measured)
    <3>1. \/ x.quantumLevel = 0
          \/ \E g \in measured.groups : x.quantumLevel = level(g)
      <4> HIDE DEF level
      <4>1. (\E v \in measured.versions : x = Component("protocol", <<v>>, 0)) => x.quantumLevel = 0
        BY <2>1
      <4>2. (\E s \in measured.suites : x = Component("cipher", <<s.kx, s.cipher>>, 0)) => x.quantumLevel = 0
        BY <2>1
      <4>3. (\E g \in measured.groups : x = Component("kex", <<g>>, level(g))) =>
              \E g \in measured.groups : x.quantumLevel = level(g)
        BY <2>1
      <4>4. x = Component("certificate", <<CertificateValidityContext(measured.cert)>>, 0) =>
              x.quantumLevel = 0
        BY <2>1
      <4>5. x = Component("public-key", <<measured.cert.key>>, 0) => x.quantumLevel = 0
        BY <2>1
      <4> QED
        BY <2>2, <4>1, <4>2, <4>3, <4>4, <4>5
    <3>2. \E g \in measured.groups : g \in HybridGroups
      BY <2>3, <3>1
    <3> QED
      BY <3>2 DEF HasHybrid
  <2>4. ASSUME HasHybrid(measured)
        PROVE  \E x \in Components : x.quantumLevel > 0
    <3>1. PICK g \in measured.groups : level(g) = 3
      BY <2>4 DEF HasHybrid
    <3> HIDE DEF level
    <3>2. Component("kex", <<g>>, level(g)) \in Components
      BY <2>2
    <3>3. Component("kex", <<g>>, level(g)).quantumLevel = 3
      BY <2>1, <3>1
    <3> QED
      BY <3>2, <3>3
  <2> QED
    BY <2>3, <2>4
<1>8. config.checkQuantum => (HasHybrid(measured) <=> \A a \in BuildResults : a.rule # "QUANTUM_VULNERABLE")
  <2>1. \A id, level : Alert(id, level).rule = id
    BY DEF Alert
  <2>2. ASSUME NEW a \in BuildResults, a.rule = "QUANTUM_VULNERABLE"
        PROVE  QuantumResult # {}
    BY <1>3, <2>1, <2>2, AlertsAre
  <2>3. QuantumResult = {"QUANTUM_VULNERABLE"} => Alert("QUANTUM_VULNERABLE", "warning") \in BuildResults
    BY AlertsAre
  <2> QED
    BY <1>3, <2>1, <2>2, <2>3
<1>9. Text.milestones # << >> =>
        (HasHybrid(measured) <=> Text.milestones[2] # "non-compliant")
  <2>1. Text.milestones = IF timeline = NoTimeline THEN << >>
                          ELSE [n \in 1..5 |-> Glyph(timeline.milestones[n].status)]
    BY DEF Text
  <2>2. CASE timeline # NoTimeline
    <3>1. timeline \in Analyses(measured)
      <4>1. timeline # NotAnalyzed
        BY DEF Targeted, InOrder, Written
      <4> QED
        BY <2>2, <4>1 DEF Targeted, TimelineFollows
    <3>2. timeline.milestones = Milestones(measured)
      BY <3>1 DEF Analyses
    <3>3. Text.milestones[2] = Glyph(NSSStatus(measured))
      BY <2>1, <2>2, <3>2, StatusesAre
    <3> QED
      BY <3>3 DEF Glyph, NSSStatus
  <2> QED
    BY <2>1, <2>2
<1>10. OneQuantumVerdict(Text, Html, Sarif, Components)
  BY <1>2, <1>5, <1>6, <1>7, <1>8, <1>9 DEF OneQuantumVerdict
<1> QED
  BY <1>1, <1>2, <1>10

-----------------------------------------------------------------------------
(***************************************************************************)
(* One conclusion from every document: the numbering of the advice.        *)
(***************************************************************************)
NoneUrgent(s) == s \in Seq(Title) /\ \A k \in 1..Len(s) : s[k] \notin Urgent
OneUrgent(s, p) ==
  s \in Seq(Title) /\ p \in 1..Len(s) /\ \A k \in 1..Len(s) : s[k] \in Urgent <=> k = p

LEMMA JoinedHas ==
  ASSUME NEW s \in Seq(Title), NEW t \in Seq(Title)
  PROVE  /\ s \o t \in Seq(Title) /\ Len(s \o t) = Len(s) + Len(t)
         /\ \A k \in 1..(Len(s) + Len(t)) :
              (s \o t)[k] = IF k <= Len(s) THEN s[k] ELSE t[k - Len(s)]
         /\ Len(s) \in Nat /\ Len(t) \in Nat
OBVIOUS

LEMMA NoneInEither ==
  ASSUME NEW s, NEW t, NoneUrgent(s), NoneUrgent(t)
  PROVE  NoneUrgent(s \o t)
<1> DEFINE u == s \o t
<1>1. s \in Seq(Title) /\ t \in Seq(Title)
  BY DEF NoneUrgent
<1>2. /\ u \in Seq(Title) /\ Len(u) = Len(s) + Len(t) /\ Len(s) \in Nat /\ Len(t) \in Nat
      /\ \A k \in 1..(Len(s) + Len(t)) : u[k] = IF k <= Len(s) THEN s[k] ELSE t[k - Len(s)]
  BY <1>1, JoinedHas
<1> HIDE DEF u
<1>3. ASSUME NEW k \in 1..Len(u)
      PROVE  u[k] \notin Urgent
  <2>1. CASE k <= Len(s)
    <3>1. k \in 1..Len(s) /\ u[k] = s[k]
      BY <1>2, <2>1
    <3> QED
      BY <3>1 DEF NoneUrgent
  <2>2. CASE ~(k <= Len(s))
    <3>1. k - Len(s) \in 1..Len(t) /\ u[k] = t[k - Len(s)]
      BY <1>2, <2>2
    <3> QED
      BY <3>1 DEF NoneUrgent
  <2> QED
    BY <2>1, <2>2
<1>4. NoneUrgent(u)
  BY <1>2, <1>3 DEF NoneUrgent
<1> QED
  BY <1>4 DEF u

LEMMA OneInTheFirst ==
  ASSUME NEW s, NEW t, NEW p, OneUrgent(s, p), NoneUrgent(t)
  PROVE  OneUrgent(s \o t, p)
<1> DEFINE u == s \o t
<1>1. s \in Seq(Title) /\ t \in Seq(Title) /\ p \in 1..Len(s)
  BY DEF NoneUrgent, OneUrgent
<1>2. /\ u \in Seq(Title) /\ Len(u) = Len(s) + Len(t) /\ Len(s) \in Nat /\ Len(t) \in Nat
      /\ \A k \in 1..(Len(s) + Len(t)) : u[k] = IF k <= Len(s) THEN s[k] ELSE t[k - Len(s)]
  BY <1>1, JoinedHas
<1> HIDE DEF u
<1>3. ASSUME NEW k \in 1..Len(u)
      PROVE  u[k] \in Urgent <=> k = p
  <2>1. CASE k <= Len(s)
    <3>1. k \in 1..Len(s) /\ u[k] = s[k]
      BY <1>2, <2>1
    <3> QED
      BY <3>1 DEF OneUrgent
  <2>2. CASE ~(k <= Len(s))
    <3>1. k - Len(s) \in 1..Len(t) /\ u[k] = t[k - Len(s)] /\ k # p
      BY <1>1, <1>2, <2>2
    <3>2. u[k] \notin Urgent
      BY <3>1 DEF NoneUrgent
    <3> QED
      BY <3>1, <3>2
  <2> QED
    BY <2>1, <2>2
<1>4. p \in 1..Len(u)
  BY <1>1, <1>2
<1>5. OneUrgent(u, p)
  BY <1>2, <1>3, <1>4 DEF OneUrgent
<1> QED
  BY <1>5 DEF u

LEMMA OneInTheSecond ==
  ASSUME NEW s, NEW t, NEW p, NoneUrgent(s), OneUrgent(t, p)
  PROVE  OneUrgent(s \o t, Len(s) + p)
<1> DEFINE u == s \o t
           q == Len(s) + p
<1>1. s \in Seq(Title) /\ t \in Seq(Title) /\ p \in 1..Len(t)
  BY DEF NoneUrgent, OneUrgent
<1>2. /\ u \in Seq(Title) /\ Len(u) = Len(s) + Len(t) /\ Len(s) \in Nat /\ Len(t) \in Nat
      /\ \A k \in 1..(Len(s) + Len(t)) : u[k] = IF k <= Len(s) THEN s[k] ELSE t[k - Len(s)]
  BY <1>1, JoinedHas
<1> HIDE DEF u
<1>3. ASSUME NEW k \in 1..Len(u)
      PROVE  u[k] \in Urgent <=> k = q
  <2>1. CASE k <= Len(s)
    <3>1. k \in 1..Len(s) /\ u[k] = s[k] /\ k # q
      BY <1>1, <1>2, <2>1
    <3>2. u[k] \notin Urgent
      BY <3>1 DEF NoneUrgent
    <3> QED
      BY <3>1, <3>2
  <2>2. CASE ~(k <= Len(s))
    <3>1. k - Len(s) \in 1..Len(t) /\ u[k] = t[k - Len(s)]
      BY <1>2, <2>2
    <3>2. u[k] \in Urgent <=> k - Len(s) = p
      BY <3>1 DEF OneUrgent
    <3>3. k - Len(s) = p <=> k = q
      BY <1>1, <1>2
    <3> QED
      BY <3>2, <3>3
  <2> QED
    BY <2>1, <2>2
<1>4. q \in 1..Len(u)
  BY <1>1, <1>2
<1>5. OneUrgent(u, q)
  BY <1>2, <1>3, <1>4 DEF OneUrgent
<1> QED
  BY <1>5 DEF u

LEMMA SingleTitle ==
  ASSUME NEW title \in Title
  PROVE  /\ title \notin Urgent => NoneUrgent(<<title>>)
         /\ title \in Urgent => OneUrgent(<<title>>, 1)
         /\ NoneUrgent(<< >>)
<1>1. /\ <<title>> \in Seq(Title) /\ Len(<<title>>) = 1 /\ <<title>>[1] = title
      /\ << >> \in Seq(Title) /\ Len(<< >>) = 0
  OBVIOUS
<1> QED
  BY <1>1 DEF NoneUrgent, OneUrgent

\* The one piece of advice that may jump the queue is on a certificate outside
\* its window, and there it is one.
LEMMA UrgentAdvice ==
  ASSUME NEW m \in Measurement, NEW cfg \in Config, NEW risk
  PROVE  LET list == GenerateRecommendations(m, cfg, risk)
         IN  IF m.cert # NoCertificate /\ (Expired(m.cert) \/ m.cert.notYetValid)
               THEN \E p : OneUrgent(list, p)
               ELSE NoneUrgent(list)
<1> DEFINE c == m.cert
           outside == Expired(c) \/ c.notYetValid
           one == Advise("Enable_Hybrid_Post-Quantum_Key_Exchange", QuantumLow(cfg, risk, 50))
           two == Advise("Disable_TLS1.1", "TLS1.1" \in m.versions)
           three == Advise("Disable_TLS1.0", "TLS1.0" \in m.versions)
           four == Advise("Enable_TLS1.3", "TLS1.3" \notin m.versions)
           five == Advise("Remove_Deprecated_Cipher_Suites", \E s \in m.suites : Deprecated(s))
           six == Advise("Require_Forward_Secrecy", \E s \in m.suites : ~ForwardSecrecy(s))
           dates == IF Expired(c) THEN <<"Renew_Expired_Certificate">>
                    ELSE IF c.notYetValid THEN <<"Deploy_a_Certificate_That_Is_Valid_Now">>
                    ELSE Advise("Renew_Certificate_Soon", DaysUntilExpiry(c) < 30)
           key == Advise("Use_Stronger_RSA_Key", c.key = "RSA" /\ c.bits < 2048)
           digest == Advise("Use_SHA-256_or_Stronger_Signature", c.sig \in {"SHA1", "MD5"})
           plan == Advise("Plan_for_Post-Quantum_Certificates", QuantumLow(cfg, risk, 80))
           onServer == ((((one \o two) \o three) \o four) \o five) \o six
           onCertificate == IF c = NoCertificate THEN << >> ELSE ((dates \o key) \o digest) \o plan
<1>1. GenerateRecommendations(m, cfg, risk) = onServer \o onCertificate
  BY DEF GenerateRecommendations, CertificateAdvice
<1>2. \A title \in Title \ Urgent : NoneUrgent(<<title>>) /\ NoneUrgent(<< >>)
  BY SingleTitle
<1>3. NoneUrgent(one) /\ NoneUrgent(two) /\ NoneUrgent(three)
  BY <1>2 DEF Advise, Title, Urgent
<1>4. NoneUrgent(four) /\ NoneUrgent(five) /\ NoneUrgent(six)
  BY <1>2 DEF Advise, Title, Urgent
<1>5. NoneUrgent(key) /\ NoneUrgent(digest) /\ NoneUrgent(plan)
  BY <1>2 DEF Advise, Title, Urgent
<1>6. IF outside THEN OneUrgent(dates, 1) ELSE NoneUrgent(dates)
  <2>1. /\ OneUrgent(<<"Renew_Expired_Certificate">>, 1)
        /\ OneUrgent(<<"Deploy_a_Certificate_That_Is_Valid_Now">>, 1)
    BY SingleTitle DEF Title, Urgent
  <2>2. NoneUrgent(<<"Renew_Certificate_Soon">>) /\ NoneUrgent(<< >>)
    BY <1>2 DEF Title, Urgent
  <2> QED
    BY <2>1, <2>2 DEF Advise
<1> HIDE DEF one, two, three, four, five, six, dates, key, digest, plan, outside
<1>7. NoneUrgent(onServer)
  BY <1>3, <1>4, NoneInEither
<1>8. CASE c = NoCertificate
  <2>0. "Renew_Certificate_Soon" \in Title \ Urgent
    BY DEF Title, Urgent
  <2>1. NoneUrgent(<< >>)
    BY <1>2, <2>0
  <2>2. NoneUrgent(onCertificate)
    BY <1>8, <2>1
  <2> HIDE DEF onServer, onCertificate
  <2> QED
    BY <1>1, <1>7, <1>8, <2>2, NoneInEither
<1>9. CASE c # NoCertificate /\ outside
  <2>1. OneUrgent(dates \o key, 1)
    BY <1>5, <1>6, <1>9, OneInTheFirst
  <2>2. OneUrgent((dates \o key) \o digest, 1)
    BY <1>5, <2>1, OneInTheFirst
  <2>3. OneUrgent(((dates \o key) \o digest) \o plan, 1)
    BY <1>5, <2>2, OneInTheFirst
  <2>4. OneUrgent(onCertificate, 1)
    BY <1>9, <2>3
  <2> HIDE DEF onServer, onCertificate
  <2>5. OneUrgent(onServer \o onCertificate, Len(onServer) + 1)
    BY <1>7, <2>4, OneInTheSecond
  <2> QED
    BY <1>1, <1>9, <2>5 DEF outside
<1>10. CASE c # NoCertificate /\ ~outside
  <2>1. NoneUrgent(((dates \o key) \o digest) \o plan)
    BY <1>5, <1>6, <1>10, NoneInEither
  <2>2. NoneUrgent(onCertificate)
    BY <1>10, <2>1
  <2> HIDE DEF onServer, onCertificate
  <2> QED
    BY <1>1, <1>7, <1>10, <2>2, NoneInEither DEF outside
<1> QED
  BY <1>8, <1>9, <1>10

\* The number that HTML gives to a piece of advice.
LEMMA Numbered ==
  ASSUME NEW k \in Nat \ {0}, recs \in Seq(Title), k \in 1..Len(recs)
  PROVE  /\ NoneUrgent(recs) => Priority(k) = k
         /\ \A p : OneUrgent(recs, p) =>
              Priority(k) = IF k < p THEN k ELSE IF k = p THEN 1 ELSE k - 1
<1> DEFINE before == {j \in 1..(k - 1) : recs[j] \in Urgent}
<1>1. Priority(k) = IF recs[k] \in Urgent THEN 1 ELSE k - Cardinality(before)
  BY DEF Priority
<1>2. \A j \in 1..(k - 1) : j \in 1..Len(recs)
  OBVIOUS
<1>3. Cardinality({}) = 0
  BY FS_EmptySet
<1>4. ASSUME NoneUrgent(recs)
      PROVE  Priority(k) = k
  <2>1. before = {} /\ recs[k] \notin Urgent
    BY <1>2, <1>4 DEF NoneUrgent
  <2> HIDE DEF before
  <2>2. Priority(k) = k - 0
    BY <1>1, <1>3, <2>1
  <2> QED
    BY <2>2
<1>5. ASSUME NEW p, OneUrgent(recs, p)
      PROVE  Priority(k) = IF k < p THEN k ELSE IF k = p THEN 1 ELSE k - 1
  <2>1. /\ p \in 1..Len(recs) /\ Len(recs) \in Nat
        /\ \A j \in 1..Len(recs) : recs[j] \in Urgent <=> j = p
    BY <1>5 DEF OneUrgent
  <2>2. CASE k < p
    <3>1. before = {} /\ recs[k] \notin Urgent
      BY <1>2, <2>1, <2>2
    <3> HIDE DEF before
    <3>2. Priority(k) = k - 0
      BY <1>1, <1>3, <3>1
    <3> QED
      BY <2>2, <3>2
  <2>3. CASE k = p
    BY <1>1, <2>1, <2>3
  <2>4. CASE p < k
    <3>1. recs[k] \notin Urgent
      BY <2>1, <2>4
    <3>2. before = {p}
      <4>1. p \in 1..(k - 1)
        BY <2>1, <2>4
      <4> QED
        BY <1>2, <2>1, <4>1
    <3> HIDE DEF before
    <3>3. Cardinality({p}) = 1
      BY FS_Singleton
    <3>4. Priority(k) = k - 1
      BY <1>1, <3>1, <3>2, <3>3
    <3> QED
      BY <2>1, <2>4, <3>4
  <2> QED
    BY <2>1, <2>2, <2>3, <2>4
<1> QED
  BY <1>4, <1>5

LEMMA OneNumberingFollows ==
  ASSUME Targeted, Written, ~NeverReached
  PROVE  OneNumbering(report.text, report.html)
<1> DEFINE c == measured.cert
           n == Len(recs)
           outside == HasCertificate /\ (Expired(c) \/ c.notYetValid)
           urgent == {k \in DOMAIN recs : Html.advice[k] # Text.advice[k]}
           numbers == {Html.advice[k][1] : k \in DOMAIN recs}
<1>1. /\ report.text = Text /\ report.html = Html /\ Judged
      /\ measured \in Measurement /\ config \in Config /\ AsJudged
  BY WhatIsWritten, PolicyOfTheRun DEF Targeted
<1>2. recs = GenerateRecommendations(measured, config, RiskUnder(measured, config))
  BY <1>1 DEF AsJudged, AdviceFollows, AdviceUnder, Judged
<1>3. IF outside THEN \E p : OneUrgent(recs, p) ELSE NoneUrgent(recs)
  BY <1>1, <1>2, UrgentAdvice DEF HasCertificate
<1>4. recs \in Seq(Title) /\ n \in Nat /\ DOMAIN recs = 1..n
  BY <1>3 DEF NoneUrgent, OneUrgent
<1>5. \A k \in 1..n : Html.advice[k] = <<Priority(k), recs[k]>> /\ Text.advice[k] = <<k, recs[k]>>
  BY <1>4 DEF Html, Text
<1>6. ASSUME ~outside
      PROVE  urgent = {}
  <2>1. NoneUrgent(recs)
    BY <1>3, <1>6
  <2>2. \A k \in 1..n : Priority(k) = k
    BY <1>4, <2>1, Numbered
  <2> QED
    BY <1>4, <1>5, <2>2
<1>7. ASSUME outside
      PROVE  numbers = 1..(IF n = 1 THEN 1 ELSE n - 1)
  <2>1. PICK p : OneUrgent(recs, p)
    BY <1>3, <1>7
  <2>2. p \in 1..n
    BY <2>1 DEF OneUrgent
  <2> DEFINE number(k) == IF k < p THEN k ELSE IF k = p THEN 1 ELSE k - 1
  <2>3. \A k \in 1..n : Html.advice[k][1] = number(k)
    BY <1>4, <1>5, <2>1, Numbered
  <2>4. numbers = {number(k) : k \in 1..n}
    BY <1>4, <2>3
  <2> HIDE DEF n, numbers
  <2>5. \A k \in 1..n : number(k) \in 1..(IF n = 1 THEN 1 ELSE n - 1)
    BY <1>4, <2>2
  <2>6. ASSUME NEW i \in 1..(IF n = 1 THEN 1 ELSE n - 1)
        PROVE  \E k \in 1..n : i = number(k)
    <3>1. CASE i < p
      <4>1. i \in 1..n /\ i = number(i)
        BY <1>4, <2>2, <3>1
      <4> QED
        BY <4>1
    <3>2. CASE n = 1
      <4>1. 1 \in 1..n /\ i = number(1)
        BY <1>4, <2>2, <3>2
      <4> QED
        BY <4>1
    <3>3. CASE ~(i < p) /\ n # 1
      <4>1. i + 1 \in 1..n /\ i = number(i + 1)
        BY <1>4, <2>2, <3>3
      <4> QED
        BY <4>1
    <3> QED
      BY <3>1, <3>2, <3>3
  <2> QED
    BY <2>4, <2>5, <2>6
<1> HIDE DEF n, numbers, urgent, outside
<1>8. OneNumbering(Text, Html)
  BY <1>6, <1>7 DEF OneNumbering, n, numbers, urgent, outside
<1> QED
  BY <1>1, <1>8

-----------------------------------------------------------------------------
(***************************************************************************)
(* One conclusion from every document.                                     *)
(***************************************************************************)
LEMMA SurfacesFollow ==
  ASSUME Targeted
  PROVE  SurfacesAgree
<1> SUFFICES ASSUME Written, ~NeverReached
             PROVE  /\ OneCertificate(report.text, report.sarif.results, report.cbom.components)
                    /\ OneQuantumVerdict(report.text, report.html, report.sarif, report.cbom.components)
                    /\ OneNumbering(report.text, report.html)
                    /\ report.sarif.rules = report.sarif.results
                    /\ report.text.score = report.html.score /\ report.text.findings = report.html.findings
                    /\ verdict # "unjudged" =>
                         (verdict = "compliant" <=>
                            report.text.policy = [heading |-> "compliant", comparable |-> TRUE])
  BY DEF SurfacesAgree
<1>1. report.text = Text /\ report.html = Html /\ report.sarif = Sarif
  BY WhatIsWritten
<1>2. /\ OneCertificate(report.text, report.sarif.results, report.cbom.components)
      /\ OneQuantumVerdict(report.text, report.html, report.sarif, report.cbom.components)
      /\ OneNumbering(report.text, report.html)
  BY OneCertificateFollows, OneQuantumFollows, OneNumberingFollows
<1>3. Sarif.rules = BuildRules /\ Sarif.results = BuildResults
  BY DEF Sarif
<1>4. BuildRules = BuildResults
  BY RulesAreResults
<1>5. Text.score = Html.score /\ Text.findings = Html.findings /\ Text.policy = PolicyStatus(policyResult)
  BY DEF Text, Html
<1>6. ASSUME verdict # "unjudged"
      PROVE  verdict = "compliant" <=>
               PolicyStatus(policyResult) = [heading |-> "compliant", comparable |-> TRUE]
  <2>1. verdict = VerdictOf(policyResult) /\ policyResult = Evaluate(policy, measured, quantum)
    BY <1>6 DEF Targeted, VerdictFollows, PolicyFollows
  <2>2. verdict = "compliant" <=> policyResult.compliant /\ policyResult.complete
    BY <2>1, Evaluated
  <2>3. policyResult.complete \in BOOLEAN
    BY <2>1 DEF Evaluate
  <2> DEFINE status == PolicyStatus(policyResult)
  <2>4. /\ status = [heading |-> status.heading, comparable |-> status.comparable]
        /\ status.heading = "compliant" <=> policyResult.compliant
        /\ status.comparable = policyResult.complete
    BY DEF PolicyStatus
  <2> HIDE DEF status
  <2>5. status = [heading |-> "compliant", comparable |-> TRUE] =>
          status.heading = "compliant" /\ status.comparable = TRUE
    OBVIOUS
  <2>6. status.heading = "compliant" /\ status.comparable = TRUE =>
          status = [heading |-> "compliant", comparable |-> TRUE]
    BY <2>4
  <2>7. verdict = "compliant" <=> status = [heading |-> "compliant", comparable |-> TRUE]
    BY <2>2, <2>3, <2>4, <2>5, <2>6
  <2> QED
    BY <2>7 DEF status
<1> QED
  BY <1>1, <1>2, <1>3, <1>4, <1>5, <1>6

\* The reader of one document and the reader of another come to one conclusion
\* about one server, whatever was measured and judged.
THEOREM DocumentsAgree == ReportsSpec => []SurfacesAgree
<1>1. Targeted => SurfacesAgree
  BY SurfacesFollow
<1> QED
  BY <1>1, TargetInvariance, PTL
=============================================================================
