-------------------------- MODULE PolicyLoadProofs --------------------------
(***************************************************************************)
(* Proofs about PolicyLoad, for all files, servers and flags: that a       *)
(* policy is judged rule by rule, each rule on its own, that the rules a   *)
(* loaded policy is judged by are those its file writes and inherits, and  *)
(* that each rule it declares turns some server away.                      *)
(***************************************************************************)
EXTENDS PolicyLoadInvariant, GateProofs

-----------------------------------------------------------------------------
(***************************************************************************)
(* A policy, rule by rule.                                                 *)
(***************************************************************************)
\* What every policy asks of a server.
Sound(m) ==
  LET c == m.cert
  IN  /\ c # NoCertificate
      /\ c.name \notin {"failed", "notPerformed"} /\ c.chain \notin {"failed", "notPerformed"}
      /\ ~Expired(c) /\ ~c.notYetValid

\* What the rule under a key asks when it holds the given value.
GrantsProtocol(key, value, m) ==
  /\ key = "minVersion" /\ value # Unset =>
       m.versions # {} /\ \A v \in m.versions : ~(Rank(v) < Rank(value))
  /\ key = "maxVersion" /\ value # Unset => \A v \in m.versions : ~(Rank(v) > Rank(value))
  /\ key = "bannedVersions" => value \cap Unprobeable = {} /\ (value \ Unprobeable) \cap m.versions = {}
  /\ key = "requiredVersions" => value \cap Unprobeable = {} /\ (value \ Unprobeable) \ m.versions = {}

GrantsCipher(key, value, m) ==
  /\ key = "minKeySize" => \A s \in m.suites : ~(value > 0 /\ Bits(s) < value)
  /\ key = "requireForwardSecrecy" => \A s \in m.suites : value => ForwardSecrecy(s)
  /\ key = "bannedAlgorithms" => \A s \in m.suites : value \cap Contains(s) = {}
  /\ key = "bannedCipherSuites" => \A s \in m.suites : s \notin value
  /\ key = "allowedCipherSuites" => \A s \in m.suites : value # {} => s \in value
  /\ key = "requiredKeyExchange" => (value # {} => value \cap NamesOf(m.groups) # {})

GrantsCertificate(key, value, c) ==
  /\ key = "minRsaKeySize" => ~(c.key = "RSA" /\ KeyTooSmall(c.bits, value))
  /\ key = "minEccKeySize" => ~(c.key = "ECDSA" /\ KeyTooSmall(c.bits, value))
  /\ key = "maxValidityDays" => ~(value > 0 /\ c.lifetime > value)
  /\ key = "requiredSignatures" => (value # {} => c.sig \in value)
  /\ key = "bannedSignatures" => c.sig \notin value
  /\ key = "requireCt" => ~value
  /\ key = "allowSelfSigned" => (~value => ~(c.selfSigned /\ ~c.isCA))

GrantsQuantum(key, value, m, risk) ==
  /\ key = "requireHybrid" => (value => HasHybrid(m))
  /\ key = "requiredKeyExchangeAlgorithms" => (value # {} => value \cap NamesOf(m.groups) # {})
  /\ key = "minQuantumScore" => ~(risk.assessed /\ risk.score < value) /\ ~(value > 0 /\ ~risk.assessed)

Grants(key, value, m, risk) ==
  /\ GrantsProtocol(key, value, m) /\ GrantsCipher(key, value, m)
  /\ GrantsCertificate(key, value, m.cert) /\ GrantsQuantum(key, value, m, risk)

ProtocolKeys == {"minVersion", "maxVersion", "bannedVersions", "requiredVersions"}
CipherKeys ==
  { "minKeySize", "requireForwardSecrecy", "bannedAlgorithms", "bannedCipherSuites",
    "allowedCipherSuites", "requiredKeyExchange" }
CertificateKeys ==
  { "minRsaKeySize", "minEccKeySize", "maxValidityDays", "requiredSignatures", "bannedSignatures",
    "requireCt", "allowSelfSigned" }
QuantumKeys == {"requireHybrid", "requiredKeyExchangeAlgorithms", "minQuantumScore"}

LEMMA KeysAre ==
  RuleKeys = ProtocolKeys \cup CipherKeys \cup CertificateKeys \cup QuantumKeys
               \cup {"minValidityDays", "requirePqcCertificates"}
BY DEF RuleKeys, NoRules, ProtocolKeys, CipherKeys, CertificateKeys, QuantumKeys

\* A rule is granted if the section it belongs to grants it.
LEMMA GrantedInItsSection ==
  ASSUME NEW key, NEW value, NEW m, NEW risk
  PROVE  /\ key \notin ProtocolKeys => GrantsProtocol(key, value, m)
         /\ key \notin CipherKeys => GrantsCipher(key, value, m)
         /\ key \notin CertificateKeys => GrantsCertificate(key, value, m.cert)
         /\ key \notin QuantumKeys => GrantsQuantum(key, value, m, risk)
<1>1. key \notin ProtocolKeys => GrantsProtocol(key, value, m)
  BY DEF ProtocolKeys, GrantsProtocol
<1>2. key \notin CipherKeys => GrantsCipher(key, value, m)
  BY DEF CipherKeys, GrantsCipher
<1>3. key \notin CertificateKeys => GrantsCertificate(key, value, m.cert)
  BY DEF CertificateKeys, GrantsCertificate
<1>4. key \notin QuantumKeys => GrantsQuantum(key, value, m, risk)
  BY DEF QuantumKeys, GrantsQuantum
<1> QED
  BY <1>1, <1>2, <1>3, <1>4

LEMMA ProtocolByRule ==
  ASSUME NEW p, NEW m
  PROVE  (\A key \in ProtocolKeys : GrantsProtocol(key, p[key], m)) <=>
           /\ ProtocolViolations(p, m.versions) = {}
           /\ p.bannedVersions \cap Unprobeable = {} /\ p.requiredVersions \cap Unprobeable = {}
<1>1. GrantsProtocol("minVersion", p.minVersion, m) <=>
        (p.minVersion # Unset => m.versions # {} /\ \A v \in m.versions : ~(Rank(v) < Rank(p.minVersion)))
  BY DEF GrantsProtocol
<1>2. GrantsProtocol("maxVersion", p.maxVersion, m) <=>
        \A v \in m.versions : p.maxVersion # Unset => ~(Rank(v) > Rank(p.maxVersion))
  BY DEF GrantsProtocol
<1>3. GrantsProtocol("bannedVersions", p.bannedVersions, m) <=>
        p.bannedVersions \cap Unprobeable = {} /\ (p.bannedVersions \ Unprobeable) \cap m.versions = {}
  BY DEF GrantsProtocol
<1>4. GrantsProtocol("requiredVersions", p.requiredVersions, m) <=>
        p.requiredVersions \cap Unprobeable = {} /\ (p.requiredVersions \ Unprobeable) \ m.versions = {}
  BY DEF GrantsProtocol
<1>5. (\A key \in ProtocolKeys : GrantsProtocol(key, p[key], m)) <=>
        /\ GrantsProtocol("minVersion", p.minVersion, m) /\ GrantsProtocol("maxVersion", p.maxVersion, m)
        /\ GrantsProtocol("bannedVersions", p.bannedVersions, m)
        /\ GrantsProtocol("requiredVersions", p.requiredVersions, m)
  BY DEF ProtocolKeys
<1>6. ProtocolViolations(p, m.versions) = {} <=>
        /\ p.minVersion # Unset =>
             m.versions # {} /\ \A v \in m.versions : ~(Rank(v) < Rank(p.minVersion))
        /\ (p.bannedVersions \ Unprobeable) \cap m.versions = {}
        /\ \A v \in m.versions : p.maxVersion # Unset => ~(Rank(v) > Rank(p.maxVersion))
        /\ (p.requiredVersions \ Unprobeable) \ m.versions = {}
  BY ProtocolAccepted
<1> QED
  BY <1>1, <1>2, <1>3, <1>4, <1>5, <1>6, ZenonT(60)

LEMMA CiphersByRule ==
  ASSUME NEW p, NEW m
  PROVE  (\A key \in CipherKeys : GrantsCipher(key, p[key], m)) <=> CipherViolations(p, m) = {}
<1>1. /\ GrantsCipher("minKeySize", p.minKeySize, m) <=>
           \A s \in m.suites : ~(p.minKeySize > 0 /\ Bits(s) < p.minKeySize)
      /\ GrantsCipher("requireForwardSecrecy", p.requireForwardSecrecy, m) <=>
           \A s \in m.suites : p.requireForwardSecrecy => ForwardSecrecy(s)
  BY DEF GrantsCipher
<1>2. /\ GrantsCipher("bannedAlgorithms", p.bannedAlgorithms, m) <=>
           \A s \in m.suites : p.bannedAlgorithms \cap Contains(s) = {}
      /\ GrantsCipher("bannedCipherSuites", p.bannedCipherSuites, m) <=>
           \A s \in m.suites : s \notin p.bannedCipherSuites
      /\ GrantsCipher("allowedCipherSuites", p.allowedCipherSuites, m) <=>
           \A s \in m.suites : p.allowedCipherSuites # {} => s \in p.allowedCipherSuites
  BY DEF GrantsCipher
<1>3. GrantsCipher("requiredKeyExchange", p.requiredKeyExchange, m) <=>
        (p.requiredKeyExchange # {} => p.requiredKeyExchange \cap NamesOf(m.groups) # {})
  BY DEF GrantsCipher
<1>4. (\A key \in CipherKeys : GrantsCipher(key, p[key], m)) <=>
        /\ GrantsCipher("minKeySize", p.minKeySize, m)
        /\ GrantsCipher("requireForwardSecrecy", p.requireForwardSecrecy, m)
        /\ GrantsCipher("bannedAlgorithms", p.bannedAlgorithms, m)
        /\ GrantsCipher("bannedCipherSuites", p.bannedCipherSuites, m)
        /\ GrantsCipher("allowedCipherSuites", p.allowedCipherSuites, m)
        /\ GrantsCipher("requiredKeyExchange", p.requiredKeyExchange, m)
  BY DEF CipherKeys
<1>5. (\A s \in m.suites : SuiteViolations(p, s) = {}) <=>
        \A s \in m.suites :
          /\ ~(p.minKeySize > 0 /\ Bits(s) < p.minKeySize)
          /\ p.requireForwardSecrecy => ForwardSecrecy(s)
          /\ p.bannedAlgorithms \cap Contains(s) = {}
          /\ s \notin p.bannedCipherSuites
          /\ p.allowedCipherSuites # {} => s \in p.allowedCipherSuites
  BY SuiteAccepted, Zenon
<1>6. CipherViolations(p, m) = {} <=>
        /\ \A s \in m.suites : SuiteViolations(p, s) = {}
        /\ p.requiredKeyExchange # {} => p.requiredKeyExchange \cap NamesOf(m.groups) # {}
  BY CiphersAccepted
<1> QED
  BY <1>1, <1>2, <1>3, <1>4, <1>5, <1>6

LEMMA CertificateByRule ==
  ASSUME NEW p, NEW m, Sound(m)
  PROVE  (\A key \in CertificateKeys : GrantsCertificate(key, p[key], m.cert)) <=>
           CertificateViolations(p, m.cert) = {} /\ ~p.requireCt
<1> DEFINE c == m.cert
<1>1. /\ GrantsCertificate("minRsaKeySize", p.minRsaKeySize, c) <=>
           ~(c.key = "RSA" /\ KeyTooSmall(c.bits, p.minRsaKeySize))
      /\ GrantsCertificate("minEccKeySize", p.minEccKeySize, c) <=>
           ~(c.key = "ECDSA" /\ KeyTooSmall(c.bits, p.minEccKeySize))
      /\ GrantsCertificate("maxValidityDays", p.maxValidityDays, c) <=>
           ~(p.maxValidityDays > 0 /\ c.lifetime > p.maxValidityDays)
  BY DEF GrantsCertificate
<1>2. /\ GrantsCertificate("requiredSignatures", p.requiredSignatures, c) <=>
           (p.requiredSignatures # {} => c.sig \in p.requiredSignatures)
      /\ GrantsCertificate("bannedSignatures", p.bannedSignatures, c) <=> c.sig \notin p.bannedSignatures
  BY DEF GrantsCertificate
<1>3. /\ GrantsCertificate("requireCt", p.requireCt, c) <=> ~p.requireCt
      /\ GrantsCertificate("allowSelfSigned", p.allowSelfSigned, c) <=>
           (~p.allowSelfSigned => ~(c.selfSigned /\ ~c.isCA))
  BY DEF GrantsCertificate
<1>4. (\A key \in CertificateKeys : GrantsCertificate(key, p[key], c)) <=>
        /\ GrantsCertificate("minRsaKeySize", p.minRsaKeySize, c)
        /\ GrantsCertificate("minEccKeySize", p.minEccKeySize, c)
        /\ GrantsCertificate("maxValidityDays", p.maxValidityDays, c)
        /\ GrantsCertificate("requiredSignatures", p.requiredSignatures, c)
        /\ GrantsCertificate("bannedSignatures", p.bannedSignatures, c)
        /\ GrantsCertificate("requireCt", p.requireCt, c)
        /\ GrantsCertificate("allowSelfSigned", p.allowSelfSigned, c)
  BY DEF CertificateKeys
<1>5. /\ c # NoCertificate /\ c.name # "failed" /\ c.chain # "failed"
      /\ ~Expired(c) /\ ~c.notYetValid
  BY DEF Sound
<1>6. CertificateViolations(p, c) = {} <=>
        /\ ~(c.key = "RSA" /\ KeyTooSmall(c.bits, p.minRsaKeySize))
        /\ ~(c.key = "ECDSA" /\ KeyTooSmall(c.bits, p.minEccKeySize))
        /\ ~(p.maxValidityDays > 0 /\ c.lifetime > p.maxValidityDays)
        /\ p.requiredSignatures # {} => c.sig \in p.requiredSignatures
        /\ c.sig \notin p.bannedSignatures
        /\ ~p.allowSelfSigned => ~(c.selfSigned /\ ~c.isCA)
  <2> HIDE DEF c
  <2> QED
    BY <1>5, CertificateAccepted
<1> HIDE DEF c
<1>7. (\A key \in CertificateKeys : GrantsCertificate(key, p[key], c)) <=>
        CertificateViolations(p, c) = {} /\ ~p.requireCt
  BY <1>1, <1>2, <1>3, <1>4, <1>6
<1> QED
  BY <1>7 DEF c

LEMMA QuantumByRule ==
  ASSUME NEW p, NEW m, NEW risk
  PROVE  (\A key \in QuantumKeys : GrantsQuantum(key, p[key], m, risk)) <=>
           QuantumViolations(p, m, risk) = {} /\ ~(p.minQuantumScore > 0 /\ ~risk.assessed)
<1>1. /\ GrantsQuantum("requireHybrid", p.requireHybrid, m, risk) <=> (p.requireHybrid => HasHybrid(m))
      /\ GrantsQuantum("requiredKeyExchangeAlgorithms", p.requiredKeyExchangeAlgorithms, m, risk) <=>
           (p.requiredKeyExchangeAlgorithms # {} =>
              p.requiredKeyExchangeAlgorithms \cap NamesOf(m.groups) # {})
      /\ GrantsQuantum("minQuantumScore", p.minQuantumScore, m, risk) <=>
           /\ ~(risk.assessed /\ risk.score < p.minQuantumScore)
           /\ ~(p.minQuantumScore > 0 /\ ~risk.assessed)
  BY DEF GrantsQuantum
<1>2. (\A key \in QuantumKeys : GrantsQuantum(key, p[key], m, risk)) <=>
        /\ GrantsQuantum("requireHybrid", p.requireHybrid, m, risk)
        /\ GrantsQuantum("requiredKeyExchangeAlgorithms", p.requiredKeyExchangeAlgorithms, m, risk)
        /\ GrantsQuantum("minQuantumScore", p.minQuantumScore, m, risk)
  BY DEF QuantumKeys
<1> QED
  BY <1>1, <1>2, QuantumAccepted

\* A server passes a policy just when it is sound and every rule, on its own,
\* has nothing to ask for that it does not have.
LEMMA RuleByRule ==
  ASSUME NEW p, NEW m, NEW risk
  PROVE  VerdictOf(Evaluate(p, m, risk)) = "compliant" <=>
           Sound(m) /\ \A key \in RuleKeys : Grants(key, p[key], m, risk)
<1>1. VerdictOf(Evaluate(p, m, risk)) = "compliant" <=>
        /\ ProtocolViolations(p, m.versions) = {} /\ CipherViolations(p, m) = {}
        /\ CertificateViolations(p, m.cert) = {} /\ QuantumViolations(p, m, risk) = {}
        /\ SkippedRules(p, m, risk) = {}
  BY Evaluated
<1>2. CertificateViolations(p, m.cert) = {} /\ SkippedRules(p, m, risk) = {} => Sound(m)
  BY CertificateAccepted, NothingSkipped DEF Sound
<1>3. Sound(m) =>
        (SkippedRules(p, m, risk) = {} <=>
           /\ p.bannedVersions \cap Unprobeable = {} /\ p.requiredVersions \cap Unprobeable = {}
           /\ ~(p.minQuantumScore > 0 /\ ~risk.assessed)
           /\ ~p.requireCt)
  BY NothingSkipped DEF Sound
<1>4. (\A key \in RuleKeys : Grants(key, p[key], m, risk)) <=>
        /\ \A key \in ProtocolKeys : GrantsProtocol(key, p[key], m)
        /\ \A key \in CipherKeys : GrantsCipher(key, p[key], m)
        /\ \A key \in CertificateKeys : GrantsCertificate(key, p[key], m.cert)
        /\ \A key \in QuantumKeys : GrantsQuantum(key, p[key], m, risk)
  BY KeysAre, GrantedInItsSection, Zenon DEF Grants
<1> QED
  BY <1>1, <1>2, <1>3, <1>4, ProtocolByRule, CiphersByRule, CertificateByRule, QuantumByRule

\* A field without a rule asks for nothing.
LEMMA FieldAsksNothing ==
  ASSUME NEW m, NEW risk, risk.score \in Nat, NEW key \in RuleKeys
  PROVE  Grants(key, NothingAsked[key], m, risk)
<1>1. /\ NothingAsked.minVersion = Unset /\ NothingAsked.maxVersion = Unset
      /\ NothingAsked.bannedVersions = {} /\ NothingAsked.requiredVersions = {}
      /\ NothingAsked.minKeySize = 0 /\ NothingAsked.requireForwardSecrecy = FALSE /\ NothingAsked.bannedAlgorithms = {}
      /\ NothingAsked.bannedCipherSuites = {} /\ NothingAsked.allowedCipherSuites = {}
      /\ NothingAsked.requiredKeyExchange = {}
  BY DEF NothingAsked, NoRules
<1>2. /\ NothingAsked.minRsaKeySize = 0 /\ NothingAsked.minEccKeySize = 0 /\ NothingAsked.maxValidityDays = 0
      /\ NothingAsked.requiredSignatures = {} /\ NothingAsked.bannedSignatures = {}
      /\ NothingAsked.requireCt = FALSE /\ NothingAsked.allowSelfSigned = TRUE
      /\ NothingAsked.requireHybrid = FALSE /\ NothingAsked.requiredKeyExchangeAlgorithms = {}
      /\ NothingAsked.minQuantumScore = 0
  BY DEF NothingAsked, NoRules
<1> HIDE DEF NothingAsked
<1>3. GrantsProtocol(key, NothingAsked[key], m)
  BY <1>1 DEF GrantsProtocol
<1>4. GrantsCipher(key, NothingAsked[key], m)
  BY <1>1 DEF GrantsCipher
<1>5. GrantsCertificate(key, NothingAsked[key], m.cert)
  BY <1>2 DEF GrantsCertificate, KeyTooSmall
<1>6. GrantsQuantum(key, NothingAsked[key], m, risk)
  BY <1>2 DEF GrantsQuantum
<1> QED
  BY <1>3, <1>4, <1>5, <1>6 DEF Grants

\* A policy with one rule is that rule.
LEMMA OneRule ==
  ASSUME NEW key \in RuleKeys, NEW value, NEW m, NEW risk, risk.score \in Nat
  PROVE  VerdictOf(Evaluate(Alone(key, value), m, risk)) = "compliant" <=>
           Sound(m) /\ Grants(key, value, m, risk)
<1> DEFINE p == Alone(key, value)
<1>1. p = [NothingAsked EXCEPT ![key] = value] /\ NothingAsked = [k \in RuleKeys |-> NothingAsked[k]]
  BY DEF Alone, NothingAsked, RuleKeys, NoRules
<1>2. \A k \in RuleKeys : p[k] = IF k = key THEN value ELSE NothingAsked[k]
  <2> HIDE DEF p
  <2> QED
    BY <1>1
<1> HIDE DEF p
<1>3. (\A k \in RuleKeys : Grants(k, p[k], m, risk)) <=> Grants(key, value, m, risk)
  BY <1>2, FieldAsksNothing
<1>4. VerdictOf(Evaluate(p, m, risk)) = "compliant" <=>
        Sound(m) /\ \A k \in RuleKeys : Grants(k, p[k], m, risk)
  BY RuleByRule
<1> QED
  BY <1>3, <1>4 DEF p

-----------------------------------------------------------------------------
(***************************************************************************)
(* The invariant.                                                          *)
(***************************************************************************)
LEMMA LoadInitIsLoading == LoadInit => Loading
<1> SUFFICES ASSUME LoadInit
             PROVE  Loading
  OBVIOUS
<1>1. LoaderInOrder /\ OverlayIsNamed /\ OthersAreSilent /\ RulesAreValid
  BY DEF LoadInit, LoaderInOrder, OverlayIsNamed, OthersAreSilent, RulesAreValid
<1>2. FirstIsDecoded
  BY DEF LoadInit, FirstIsDecoded, Onto, Fresh
<1>3. GateFollows
  BY DEF LoadInit, GateFollows
<1>4. AsJudged
  BY AssessmentAssumption
     DEF LoadInit, Init, AsJudged, FindingsFollow, QuantumFollows, GradeFollows, AdviceFollows
<1> QED
  BY <1>1, <1>2, <1>3, <1>4 DEF Loading

\* The loader leaves the result and its judgement alone.
LEMMA LoadingKeepsTheRest ==
  ASSUME Loading, UNCHANGED <<vars, policyResult, verdict>>, loading # "loaded"
  PROVE  GateFollows' /\ AsJudged'
<1>1. policyResult' = NotEvaluated /\ verdict' = "unjudged"
  BY DEF Loading, GateFollows
<1>2. GateFollows'
  BY <1>1 DEF GateFollows
<1> QED
  BY <1>2, StutteringKeepsJudgement DEF Loading

\* A refusal says nothing.
LEMMA RefusalKeeps ==
  ASSUME Loading, Refuse
  PROVE  LoaderInOrder' /\ FirstIsDecoded' /\ OverlayIsNamed' /\ OthersAreSilent' /\ RulesAreValid'
<1> USE DEF Refuse
<1>1. LoaderInOrder'
  BY DEF Loading, LoaderInOrder
<1>2. FirstIsDecoded' /\ OverlayIsNamed' /\ OthersAreSilent' /\ RulesAreValid'
  BY DEF FirstIsDecoded, OverlayIsNamed, OthersAreSilent, RulesAreValid
<1> QED
  BY <1>1, <1>2

LEMMA DecodedFirst ==
  ASSUME Loading, DecodeFirst
  PROVE  LoaderInOrder' /\ FirstIsDecoded' /\ OverlayIsNamed' /\ OthersAreSilent' /\ RulesAreValid'
<1>1. CASE Refuse
  BY <1>1, RefusalKeeps
<1>2. CASE ~Refuse
  <2>1. /\ loading = "decode" /\ file.documents # << >>
        /\ First.kind \notin {"malformed", "unknownKey"}
        /\ decoded' = Decode(First, decoded) /\ position' = 2 /\ extra' = FALSE /\ loading' = "count"
        /\ UNCHANGED <<file, overlaying, standalone, policy>>
    BY <1>2 DEF DecodeFirst
  <2>2. file \in Files /\ 1 \in DOMAIN file.documents
    <3>1. file \in Files
      BY DEF Loading, LoaderInOrder
    <3>2. Len(file.documents) \in Nat /\ DOMAIN file.documents = 1..Len(file.documents)
      BY <3>1, PolicyLoadAssumption
    <3> QED
      BY <2>1, <3>1, <3>2
  <2>3. First.kind \in {"policy", "null"}
    BY <2>1, <2>2, PolicyLoadAssumption DEF First
  <2>4. LoaderInOrder'
    BY <2>1 DEF Loading, LoaderInOrder
  <2>5. Onto' = Onto /\ First' = First
    BY <2>1 DEF Onto, First
  <2>6. FirstIsDecoded'
    BY <2>1, <2>3, <2>5 DEF Loading, FirstIsDecoded
  <2>7. OverlayIsNamed'
    BY <2>1, <2>5 DEF Loading, OverlayIsNamed
  <2>8. OthersAreSilent'
    BY <2>1 DEF OthersAreSilent, SilentBefore
  <2>9. RulesAreValid'
    BY <2>1 DEF RulesAreValid
  <2> QED
    BY <2>4, <2>6, <2>7, <2>8, <2>9
<1> QED
  BY <1>1, <1>2

LEMMA CountedOne ==
  ASSUME Loading, CountDocument
  PROVE  LoaderInOrder' /\ FirstIsDecoded' /\ OverlayIsNamed' /\ OthersAreSilent' /\ RulesAreValid'
<1>1. CASE Refuse
  BY <1>1, RefusalKeeps
<1>2. CASE ~Refuse
  <2>1. /\ loading = "count"
        /\ extra' = (extra \/ Carries(file.documents[position])) /\ position' = position + 1
        /\ UNCHANGED <<file, loading, overlaying, decoded, standalone, policy>>
    BY <1>2 DEF CountDocument
  <2>2. position \in Nat /\ position >= 2 /\ (extra \/ SilentBefore(position))
    BY <2>1 DEF Loading, LoaderInOrder, OthersAreSilent
  <2>3. LoaderInOrder'
    BY <2>1, <2>2 DEF Loading, LoaderInOrder, Carries
  <2>4. Onto' = Onto /\ First' = First
    BY <2>1 DEF Onto, First
  <2>5. FirstIsDecoded' /\ OverlayIsNamed'
    BY <2>1, <2>4 DEF Loading, FirstIsDecoded, OverlayIsNamed
  <2>6. ~extra' => \A k \in 2..((position + 1) - 1) : ~Carries(file.documents[k])
    <3> SUFFICES ASSUME ~extra', NEW k \in 2..((position + 1) - 1)
                 PROVE  ~Carries(file.documents[k])
      OBVIOUS
    <3>1. ~extra /\ ~Carries(file.documents[position])
      BY <2>1
    <3>2. k = position \/ k \in 2..(position - 1)
      BY <2>2
    <3> QED
      BY <2>2, <3>1, <3>2 DEF SilentBefore
  <2>7. OthersAreSilent'
    BY <2>1, <2>2, <2>6 DEF OthersAreSilent, SilentBefore
  <2>8. RulesAreValid'
    BY <2>1 DEF RulesAreValid
  <2> QED
    BY <2>3, <2>5, <2>7, <2>8
<1> QED
  BY <1>1, <1>2

LEMMA CountedAll ==
  ASSUME Loading, CountEnds
  PROVE  LoaderInOrder' /\ FirstIsDecoded' /\ OverlayIsNamed' /\ OthersAreSilent' /\ RulesAreValid'
<1>1. CASE Refuse
  BY <1>1, RefusalKeeps
<1>2. CASE ~Refuse
  <2>1. /\ loading = "count" /\ position > Len(file.documents) /\ ~extra /\ loading' = "decoded"
        /\ UNCHANGED <<file, overlaying, position, extra, decoded, standalone, policy>>
    BY <1>2 DEF CountEnds
  <2>2. LoaderInOrder'
    BY <2>1 DEF Loading, LoaderInOrder
  <2>3. Onto' = Onto /\ First' = First
    BY <2>1 DEF Onto, First
  <2>4. FirstIsDecoded' /\ OverlayIsNamed'
    BY <2>1, <2>3 DEF Loading, FirstIsDecoded, OverlayIsNamed
  <2>5. SilentBefore(Len(file.documents) + 1)
    <3>1. SilentBefore(position) /\ position \in Nat /\ Len(file.documents) \in Nat
      BY <2>1, PolicyLoadAssumption DEF Loading, OthersAreSilent, LoaderInOrder
    <3>2. \A k \in 2..((Len(file.documents) + 1) - 1) : k \in 2..(position - 1)
      BY <2>1, <3>1
    <3> QED
      BY <3>1, <3>2 DEF SilentBefore
  <2>6. OthersAreSilent'
    BY <2>1, <2>5 DEF OthersAreSilent, SilentBefore
  <2>7. RulesAreValid'
    BY <2>1 DEF RulesAreValid
  <2> QED
    BY <2>2, <2>4, <2>6, <2>7
<1> QED
  BY <1>1, <1>2

LEMMA Extended ==
  ASSUME Loading, Extend
  PROVE  LoaderInOrder' /\ FirstIsDecoded' /\ OverlayIsNamed' /\ OthersAreSilent' /\ RulesAreValid'
<1>1. /\ loading = "decoded" /\ ~overlaying
      /\ UNCHANGED <<policy, file, position, extra>> /\ First' = First
  BY DEF Extend, First
<1>2. /\ file.documents # << >> /\ First.kind \in {"policy", "null"} /\ decoded = Decode(First, Fresh)
      /\ SilentBefore(Len(file.documents) + 1)
  BY <1>1 DEF Loading, FirstIsDecoded, OthersAreSilent, Onto
<1>3. SilentBefore(Len(file.documents) + 1)'
  BY <1>1, <1>2 DEF SilentBefore
<1>4. CASE /\ First.extends = Unset
           /\ loading' = "validate" /\ standalone' = decoded.rules
           /\ UNCHANGED <<overlaying, decoded>>
  <2>1. LoaderInOrder'
    BY <1>1, <1>4 DEF Loading, LoaderInOrder
  <2>2. FirstIsDecoded' /\ OverlayIsNamed'
    BY <1>1, <1>2, <1>4 DEF FirstIsDecoded, OverlayIsNamed, Onto
  <2>3. OthersAreSilent' /\ RulesAreValid'
    BY <1>3, <1>4 DEF OthersAreSilent, RulesAreValid
  <2> QED
    BY <2>1, <2>2, <2>3
<1>5. CASE /\ First.extends \in DOMAIN DefaultPolicies
           /\ loading' = "decode" /\ overlaying' = TRUE
           /\ decoded' = [name |-> First.extends, rules |-> DefaultPolicies[First.extends]]
           /\ standalone' = decoded.rules
  <2>1. LoaderInOrder'
    BY <1>1, <1>5 DEF Loading, LoaderInOrder
  <2>2. FirstIsDecoded'
    BY <1>1, <1>5 DEF FirstIsDecoded, Onto
  <2>3. OverlayIsNamed'
    BY <1>1, <1>2, <1>5 DEF OverlayIsNamed
  <2>4. OthersAreSilent' /\ RulesAreValid'
    BY <1>5 DEF OthersAreSilent, RulesAreValid
  <2> QED
    BY <2>1, <2>2, <2>3, <2>4
<1>6. CASE loading' = "refused" /\ UNCHANGED <<overlaying, decoded, standalone>>
  BY <1>1, <1>6, RefusalKeeps DEF Refuse
<1> QED
  BY <1>4, <1>5, <1>6 DEF Extend

LEMMA Validated ==
  ASSUME Loading, ValidatePolicy
  PROVE  LoaderInOrder' /\ FirstIsDecoded' /\ OverlayIsNamed' /\ OthersAreSilent' /\ RulesAreValid'
<1>1. CASE Refuse
  BY <1>1, RefusalKeeps
<1>2. CASE ~Refuse
  <2>1. /\ loading = "validate" /\ loading' = "loaded" /\ policy' = decoded.rules
        /\ \/ DeclaresARule(WrittenKeys(First), standalone)
           \/ overlaying /\ DeclaresARule(RuleKeys, decoded.rules)
        /\ ~UnknownVersion(decoded.rules) /\ ~NamesNothing(decoded.rules)
        /\ UNCHANGED <<file, overlaying, position, extra, decoded, standalone>>
    BY <1>2 DEF ValidatePolicy
  <2>2. LoaderInOrder'
    BY <2>1 DEF Loading, LoaderInOrder
  <2>3. Onto' = Onto /\ First' = First
    BY <2>1 DEF Onto, First
  <2>4. FirstIsDecoded' /\ OverlayIsNamed'
    BY <2>1, <2>3 DEF Loading, FirstIsDecoded, OverlayIsNamed
  <2>5. OthersAreSilent'
    BY <2>1 DEF Loading, OthersAreSilent, SilentBefore
  <2>6. RulesAreValid'
    BY <2>1, <2>3 DEF RulesAreValid
  <2> QED
    BY <2>2, <2>4, <2>5, <2>6
<1> QED
  BY <1>1, <1>2

LEMMA LoadStepKeeps ==
  ASSUME Loading, LoadStep
  PROVE  Loading'
<1>1. loading # "loaded" /\ UNCHANGED <<vars, policyResult, verdict>>
  BY DEF LoadStep, ReadFile, DecodeFirst, CountDocument, CountEnds, Extend, Overlaid, ValidatePolicy
<1>2. GateFollows' /\ AsJudged'
  BY <1>1, LoadingKeepsTheRest
<1>3. ASSUME ReadFile
      PROVE  LoaderInOrder' /\ FirstIsDecoded' /\ OverlayIsNamed' /\ OthersAreSilent' /\ RulesAreValid'
  <2>1. CASE Refuse
    BY <2>1, RefusalKeeps
  <2>2. CASE ~Refuse
    <3>1. /\ loading = "read" /\ loading' = "decode"
          /\ UNCHANGED <<file, overlaying, position, extra, decoded, standalone, policy>>
      BY <1>3, <2>2 DEF ReadFile
    <3>2. LoaderInOrder'
      BY <3>1 DEF Loading, LoaderInOrder
    <3>3. Onto' = Onto /\ decoded = Onto /\ ~overlaying
      BY <3>1 DEF Loading, LoaderInOrder, FirstIsDecoded, Onto, First
    <3>4. FirstIsDecoded' /\ OverlayIsNamed' /\ OthersAreSilent' /\ RulesAreValid'
      BY <3>1, <3>3 DEF FirstIsDecoded, OverlayIsNamed, OthersAreSilent, RulesAreValid
    <3> QED
      BY <3>2, <3>4
  <2> QED
    BY <2>1, <2>2
<1>4. ASSUME Overlaid
      PROVE  LoaderInOrder' /\ FirstIsDecoded' /\ OverlayIsNamed' /\ OthersAreSilent' /\ RulesAreValid'
  <2>1. /\ loading = "decoded" /\ overlaying /\ loading' = "validate"
        /\ UNCHANGED <<policy, file, overlaying, position, extra, decoded, standalone>>
    BY <1>4 DEF Overlaid
  <2>2. LoaderInOrder'
    BY <2>1 DEF Loading, LoaderInOrder
  <2>3. Onto' = Onto /\ First' = First
    BY <2>1 DEF Onto, First
  <2>4. FirstIsDecoded' /\ OverlayIsNamed'
    BY <2>1, <2>3 DEF Loading, FirstIsDecoded, OverlayIsNamed
  <2>5. OthersAreSilent' /\ RulesAreValid'
    BY <2>1 DEF Loading, OthersAreSilent, RulesAreValid, SilentBefore
  <2> QED
    BY <2>2, <2>4, <2>5
<1>5. LoaderInOrder' /\ FirstIsDecoded' /\ OverlayIsNamed' /\ OthersAreSilent' /\ RulesAreValid'
  BY <1>3, <1>4, DecodedFirst, CountedOne, CountedAll, Extended, Validated DEF LoadStep
<1> QED
  BY <1>2, <1>5 DEF Loading

\* The gate leaves the loaded policy alone.
LEMMA LoaderRests ==
  ASSUME Loading, UNCHANGED <<policy, loadVars>>
  PROVE  LoaderInOrder' /\ FirstIsDecoded' /\ OverlayIsNamed' /\ OthersAreSilent' /\ RulesAreValid'
<1>1. UNCHANGED <<policy, file, loading, overlaying, position, extra, decoded, standalone>>
  BY DEF loadVars
<1>2. Onto' = Onto /\ First' = First
  BY <1>1 DEF Onto, First
<1>3. LoaderInOrder'
  BY <1>1 DEF Loading, LoaderInOrder
<1>4. FirstIsDecoded' /\ OverlayIsNamed'
  BY <1>1, <1>2 DEF Loading, FirstIsDecoded, OverlayIsNamed
<1>5. OthersAreSilent' /\ RulesAreValid'
  BY <1>1, <1>2 DEF Loading, OthersAreSilent, RulesAreValid, SilentBefore
<1> QED
  BY <1>3, <1>4, <1>5

LEMMA GateStepKeeps ==
  ASSUME Loading, loading = "loaded", GateNext, UNCHANGED loadVars
  PROVE  Loading'
<1>1. UNCHANGED policy
  BY DEF GateNext, Scanning, EvaluatePolicy, PolicyOutcome, gateVars
<1>2. LoaderInOrder' /\ FirstIsDecoded' /\ OverlayIsNamed' /\ OthersAreSilent' /\ RulesAreValid'
  BY <1>1, LoaderRests
<1>3. loading' = "loaded"
  BY DEF loadVars
<1>4. AsJudged'
  <2>1. JudgementStep \/ UNCHANGED vars
    BY DEF GateNext, Scanning, EvaluatePolicy, PolicyOutcome, gateVars, JudgementStep
  <2> QED
    BY <2>1, StepsKeepJudgement, StutteringKeepsJudgement DEF Loading
<1>5. GateFollows'
  <2>1. CASE Scanning
    <3>1. stage # "returned" /\ UNCHANGED <<policy, policyResult, verdict>>
      BY <2>1 DEF Scanning, CheckVulnerabilities, AssessQuantum, GradeResult, Recommend
    <3>2. policyResult = NotEvaluated /\ verdict = "unjudged"
      BY <3>1 DEF Loading, GateFollows
    <3> QED
      BY <3>1, <3>2 DEF GateFollows
  <2>2. CASE EvaluatePolicy
    <3>1. /\ stage = "returned" /\ policyResult' = Evaluate(policy, measured, quantum)
          /\ policyResult = NotEvaluated /\ UNCHANGED <<stage, policy, measured, quantum, verdict>>
      BY <2>2 DEF EvaluatePolicy, vars
    <3>2. verdict' = "unjudged"
      BY <3>1 DEF Loading, GateFollows
    <3> QED
      BY <1>3, <3>1, <3>2 DEF GateFollows
  <2>3. CASE PolicyOutcome
    <3>1. /\ policyResult # NotEvaluated /\ verdict' = VerdictOf(policyResult)
          /\ UNCHANGED <<stage, policy, measured, quantum, policyResult>>
      BY <2>3 DEF PolicyOutcome, vars
    <3> QED
      BY <1>3, <3>1 DEF Loading, GateFollows
  <2>4. CASE UNCHANGED gateVars
    <3>1. UNCHANGED <<stage, policy, measured, quantum, policyResult, verdict>>
      BY <2>4 DEF gateVars, vars
    <3> QED
      BY <1>3, <3>1 DEF Loading, GateFollows
  <2> QED
    BY <2>1, <2>2, <2>3, <2>4 DEF GateNext
<1> QED
  BY <1>2, <1>4, <1>5 DEF Loading

\* At every moment the loader holds what the first document says so far, and
\* nothing is judged before the policy is whole.
THEOREM LoadInvariance == LoadSpec => []Loading
<1>1. Loading /\ [LoadNext]_<<gateVars, loadVars>> => Loading'
  <2> SUFFICES ASSUME Loading, [LoadNext]_<<gateVars, loadVars>>
               PROVE  Loading'
    OBVIOUS
  <2>1. CASE LoadStep
    BY <2>1, LoadStepKeeps
  <2>2. CASE loading = "loaded" /\ GateNext /\ UNCHANGED loadVars
    BY <2>2, GateStepKeeps
  <2>3. CASE UNCHANGED <<gateVars, loadVars>>
    <3>1. UNCHANGED <<policy, loadVars, vars, policyResult, verdict>>
      BY <2>3 DEF gateVars
    <3>2. LoaderInOrder' /\ FirstIsDecoded' /\ OverlayIsNamed' /\ OthersAreSilent' /\ RulesAreValid'
      BY <3>1, LoaderRests
    <3>3. AsJudged'
      BY <3>1, StutteringKeepsJudgement DEF Loading
    <3>4. GateFollows'
      BY <3>1 DEF Loading, GateFollows, vars, loadVars
    <3> QED
      BY <3>2, <3>3, <3>4 DEF Loading
  <2> QED
    BY <2>1, <2>2, <2>3 DEF LoadNext
<1> QED
  BY <1>1, LoadInitIsLoading, PTL DEF LoadSpec

-----------------------------------------------------------------------------
(***************************************************************************)
(* What a loaded policy is.                                                *)
(***************************************************************************)
\* The documents after the first are empty ones.
LEMMA OthersSayNothing ==
  ASSUME Loading, Loaded, NEW d \in DOMAIN file.documents, d # 1
  PROVE  WrittenKeys(file.documents[d]) = {}
<1>1. /\ file \in Files /\ SilentBefore(Len(file.documents) + 1)
  BY DEF Loading, Loaded, LoaderInOrder, OthersAreSilent
<1>2. Len(file.documents) \in Nat /\ d \in 1..Len(file.documents)
  BY <1>1, PolicyLoadAssumption
<1>3. ~Carries(file.documents[d])
  BY <1>1, <1>2 DEF SilentBefore
<1>4. file.documents[d] = EmptyDocument
  BY <1>1, <1>3, PolicyLoadAssumption DEF Carries
<1>5. DOMAIN EmptyDocument.rules = {}
  BY DEF EmptyDocument
<1> QED
  BY <1>4, <1>5 DEF WrittenKeys

\* Each rule is what the first document writes, or what it inherits.
LEMMA RulesAreAsMeant ==
  ASSUME Loading, Loaded, NEW key \in RuleKeys
  PROVE  /\ Stated(key) => policy[key] = Meant(key)
         /\ standalone[key] = Received(First, key, NoRules[key])
         /\ policy[key] = Received(First, key, Base[key])
<1>1. /\ policy = Decode(First, Onto).rules /\ standalone = Decode(First, Fresh).rules
  BY DEF Loading, Loaded, RulesAreValid, FirstIsDecoded, OverlayIsNamed
<1>2. Onto.rules = Base
  <2>1. IF overlaying THEN First.extends \in DOMAIN DefaultPolicies ELSE First.extends = Unset
    BY DEF Loading, Loaded, OverlayIsNamed
  <2>2. Unset \notin DOMAIN DefaultPolicies
    BY DEF Unset, DefaultPolicies
  <2> HIDE DEF Unset
  <2> QED
    BY <2>1, <2>2 DEF Onto, Base, Fresh
<1>3. /\ Decode(First, Onto).rules[key] = Received(First, key, Onto.rules[key])
      /\ Decode(First, Fresh).rules[key] = Received(First, key, Fresh.rules[key])
  BY DEF Decode
<1>4. Fresh.rules = NoRules
  BY DEF Fresh
<1>5. policy[key] = Received(First, key, Base[key])
  BY <1>1, <1>2, <1>3
<1>6. standalone[key] = Received(First, key, NoRules[key])
  BY <1>1, <1>3, <1>4
<1>7. Stated(key) => policy[key] = Meant(key)
  BY <1>5 DEF Stated, Meant, Received, WrittenKeys
<1> QED
  BY <1>5, <1>6, <1>7

LEMMA WrittenRulesFollow ==
  ASSUME Loading
  PROVE  EveryWrittenRuleDecides
<1> SUFFICES ASSUME verdict # "unjudged"
             PROVE  /\ Passed =>
                         /\ \A d \in DOMAIN file.documents :
                              \A key \in RuleKeys \cap WrittenKeys(file.documents[d]) :
                                Satisfied(key, file.documents[d].rules[key].value)
                         /\ \A key \in RuleKeys : Stated(key) => Satisfied(key, Meant(key))
                    /\ (\A key \in RuleKeys :
                          Satisfied(key, IF Stated(key) THEN Meant(key) ELSE policy[key])) => Passed
  BY DEF EveryWrittenRuleDecides
<1>1. /\ Loaded /\ stage = "returned" /\ policyResult = Evaluate(policy, measured, quantum)
      /\ verdict = VerdictOf(policyResult)
  BY DEF Loading, GateFollows, Loaded
<1>2. quantum.score \in Nat
  <2>1. /\ measured \in Measurement /\ config \in Config /\ quantum = RiskUnder(measured, config)
    BY <1>1 DEF Loading, AsJudged, QuantumFollows
  <2> QED
    BY <2>1, FactorsAreBounded
<1>3. Passed <=> Sound(measured) /\ \A key \in RuleKeys : Grants(key, policy[key], measured, quantum)
  BY <1>1, RuleByRule DEF Passed
<1>4. \A key \in RuleKeys : \A value :
        Satisfied(key, value) <=> Sound(measured) /\ Grants(key, value, measured, quantum)
  BY <1>2, OneRule DEF Satisfied
<1>5. \A key \in RuleKeys : Stated(key) => policy[key] = Meant(key)
  BY <1>1, RulesAreAsMeant
<1>6. \E key : key \in RuleKeys
  BY KeysAre DEF ProtocolKeys
<1>7. ASSUME Passed, NEW key \in RuleKeys, Stated(key)
      PROVE  Satisfied(key, Meant(key))
  <2>1. Satisfied(key, policy[key])
    BY <1>3, <1>4, <1>7
  <2> QED
    BY <1>5, <1>7, <2>1
<1>8. ASSUME Passed, NEW d \in DOMAIN file.documents,
             NEW key \in RuleKeys \cap WrittenKeys(file.documents[d])
      PROVE  Satisfied(key, file.documents[d].rules[key].value)
  <2>1. d = 1
    BY <1>1, <1>8, OthersSayNothing
  <2>2. key \in WrittenKeys(First) /\ file.documents[d] = First
    BY <2>1 DEF First
  <2>3. Stated(key) /\ Meant(key) = First.rules[key].value
    BY <2>2 DEF Stated, Meant, WrittenKeys
  <2> QED
    BY <1>7, <1>8, <2>2, <2>3
<1>9. ASSUME \A key \in RuleKeys : Satisfied(key, IF Stated(key) THEN Meant(key) ELSE policy[key])
      PROVE  Passed
  <2>1. \A key \in RuleKeys : Satisfied(key, policy[key])
    BY <1>5, <1>9
  <2> QED
    BY <1>3, <1>4, <1>6, <2>1
<1> QED
  BY <1>7, <1>8, <1>9

\* The verdict on a server is about the rules that the author of the policy
\* wrote or inherited, each on its own, and about nothing else.
THEOREM WrittenRulesDecide == LoadSpec => []EveryWrittenRuleDecides
<1>1. Loading => EveryWrittenRuleDecides
  BY WrittenRulesFollow
<1> QED
  BY <1>1, LoadInvariance, PTL

LEMMA SomeRuleIsDeclared ==
  ASSUME Loading, Loaded
  PROVE  \E key \in RuleKeys : Declares(key)
<1>1. /\ policy = decoded.rules
      /\ \/ DeclaresARule(WrittenKeys(First), standalone)
         \/ overlaying /\ DeclaresARule(RuleKeys, decoded.rules)
  BY DEF Loading, Loaded, RulesAreValid
<1>2. Enforceable \subseteq RuleKeys
  BY DEF Enforceable
<1>3. CASE overlaying /\ DeclaresARule(RuleKeys, decoded.rules)
  BY <1>1, <1>2, <1>3 DEF DeclaresARule, Declares
<1>4. CASE DeclaresARule(WrittenKeys(First), standalone)
  <2>1. PICK key \in WrittenKeys(First) \cap Enforceable : Constrains(key, standalone[key])
    BY <1>4 DEF DeclaresARule
  <2>2. standalone[key] = policy[key]
    BY <1>2, <2>1, RulesAreAsMeant DEF Received, WrittenKeys
  <2> QED
    BY <1>2, <2>1, <2>2 DEF Declares
<1> QED
  BY <1>1, <1>3, <1>4

\* A policy that loads holds a rule that constrains and that the gate enforces,
\* even when every inherited rule can be written away.
THEOREM LoadedPolicyHasTeeth == LoadSpec => []LoadedPolicyDeclares
<1>1. Loading => LoadedPolicyDeclares
  BY SomeRuleIsDeclared DEF LoadedPolicyDeclares, Declares
<1> QED
  BY <1>1, LoadInvariance, PTL

-----------------------------------------------------------------------------
(***************************************************************************)
(* Every rule that is declared refuses some server.                        *)
(***************************************************************************)
Host(versions, suites, groups, cert) ==
  [versions |-> versions, suites |-> suites, groups |-> groups, cert |-> cert]

Accepted(lifetime, selfSigned, key, bits, sig) ==
  [ hours |-> 24, notYetValid |-> FALSE, lifetime |-> lifetime, name |-> "passed", chain |-> "passed",
    selfSigned |-> selfSigned, isCA |-> FALSE, key |-> key, bits |-> bits, sig |-> sig ]
Usual == Accepted(90, FALSE, "RSA", 4096, "SHA256")

AcceptedCertificates ==
  {c \in Certificate : /\ c.name = "passed" /\ c.chain = "passed" /\ c.hours = 24
                       /\ c.notYetValid = FALSE /\ c.key \in {"RSA", "ECDSA"} /\ Issued(c)}

\* A suite that the ordinary connection offers.
Ordinary == [kx |-> "ECDHE", cipher |-> "AES256"]

LEMMA OrdinaryIsOffered ==
  /\ Ordinary \in RunBy("TLS1.2") /\ ForwardSecrecy(Ordinary) /\ Ordinary.cipher \in Aead
  /\ Ordinary \notin RunBy("TLS1.3")
BY DEF Ordinary, RunBy, ForwardSecrecy, Aead

LEMMA NamedSuitesAreSuites ==
  /\ NamedSuites \subseteq Suite
  /\ \A v \in VersionNames : RunBy(v) \subseteq NamedSuites
BY DEF NamedSuites, RunBy, Suite, Aead, VersionNames

\* A server with such a certificate is one that a scan can measure, and a policy
\* without rules has nothing against it.
LEMMA HostIsSound ==
  ASSUME NEW versions \in SUBSET VersionNames, NEW suites \in SUBSET Suite, Enumerated(versions, suites),
         NEW groups \in SUBSET Group, groups # {},
         groups \cap HybridGroups # {} => "TLS1.3" \in versions,
         NEW c \in AcceptedCertificates, (\E s \in suites : ~ForwardSecrecy(s)) => c.key = "RSA"
  PROVE  LET m == Host(versions, suites, groups, c)
         IN  m \in Measurement /\ Scannable(m) /\ Sound(m)
<1>1. /\ c \in Certificate /\ Issued(c)
      /\ c.name = "passed" /\ c.chain = "passed" /\ c.hours = 24 /\ c.notYetValid = FALSE
      /\ c.key # "nil" /\ NoCertificate.key = "nil"
  BY DEF AcceptedCertificates, NoCertificate
<1>2. Host(versions, suites, groups, c) \in Measurement
  BY <1>1 DEF Host, Measurement
<1>3. Sound(Host(versions, suites, groups, c))
  BY <1>1 DEF Host, Sound, Expired
<1>4. Scannable(Host(versions, suites, groups, c))
  BY <1>1 DEF Host, Scannable, HasHybrid
<1> QED
  BY <1>2, <1>3, <1>4

LEMMA UsualIsAccepted == Usual \in AcceptedCertificates /\ Usual.key = "RSA"
<1>1. Usual \in Certificate /\ Usual.key = "RSA"
  BY DEF Usual, Accepted, Certificate, Check
<1>2. Issued(Usual)
  BY DEF Issued, Usual, Accepted, Expired
<1>3. Usual.name = "passed" /\ Usual.chain = "passed" /\ Usual.hours = 24 /\ Usual.notYetValid = FALSE
  BY DEF Usual, Accepted
<1> QED
  BY <1>1, <1>2, <1>3 DEF AcceptedCertificates

\* A server that accepts TLS 1.2 with the ordinary suite, and one more version.
AlsoSpeaking(v) ==
  Host({"TLS1.2", v},
       {Ordinary} \cup (IF v = "TLS1.3" THEN {[kx |-> "any", cipher |-> "AES256"]}
                        ELSE {[kx |-> "ECDHE", cipher |-> "3DES"]}),
       {"X25519"}, Usual)

LEMMA AlsoSpeakingIsSound ==
  ASSUME NEW v \in VersionNames
  PROVE  LET m == AlsoSpeaking(v)
         IN  m \in Measurement /\ Scannable(m) /\ Sound(m) /\ m.versions = {"TLS1.2", v}
<1> DEFINE modern == [kx |-> "any", cipher |-> "AES256"]
           legacy == [kx |-> "ECDHE", cipher |-> "3DES"]
           versions == {"TLS1.2", v}
           suites == {Ordinary} \cup (IF v = "TLS1.3" THEN {modern} ELSE {legacy})
<1>1. /\ modern \in RunBy("TLS1.3") /\ modern \in Suite /\ ForwardSecrecy(modern)
      /\ legacy \in RunBy("TLS1.2") /\ (v # "TLS1.3" => legacy \in RunBy(v))
      /\ legacy \in Suite /\ ForwardSecrecy(legacy) /\ legacy \notin RunBy("TLS1.3")
      /\ Ordinary \in Suite
  BY DEF RunBy, Suite, ForwardSecrecy, Aead, Ordinary
<1> HIDE DEF modern, legacy
<1>2. versions \in SUBSET VersionNames /\ suites \in SUBSET Suite
  BY <1>1 DEF VersionNames
<1>3. Enumerated(versions, suites)
  BY <1>1, OrdinaryIsOffered DEF Enumerated
<1>4. {"X25519"} \in SUBSET Group /\ {"X25519"} \cap HybridGroups = {}
  BY DEF Group, HybridGroups, PQCAlgorithm
<1>5. \A s \in suites : ForwardSecrecy(s)
  BY <1>1, OrdinaryIsOffered
<1>6. AlsoSpeaking(v) = Host(versions, suites, {"X25519"}, Usual)
  BY DEF AlsoSpeaking, modern, legacy
<1> HIDE DEF suites
<1>7. LET m == Host(versions, suites, {"X25519"}, Usual)
      IN  m \in Measurement /\ Scannable(m) /\ Sound(m) /\ m.versions = versions
  BY <1>2, <1>3, <1>4, <1>5, UsualIsAccepted, HostIsSound DEF Host
<1> QED
  BY <1>6, <1>7

\* A server that runs this suite: TLS 1.3, or TLS 1.2 beside the ordinary suite.
Running(s, g, cert) ==
  Host(IF s.kx = "any" THEN {"TLS1.3"} ELSE {"TLS1.2"}, IF s.kx = "any" THEN {s} ELSE {Ordinary, s},
       {g}, cert)

LEMMA RunningIsSound ==
  ASSUME NEW s \in NamedSuites, NEW g \in Group, g \in HybridGroups => s.kx = "any",
         NEW c \in AcceptedCertificates, c.key = "RSA" \/ ForwardSecrecy(s)
  PROVE  LET m == Running(s, g, c)
         IN  /\ m \in Measurement /\ Scannable(m) /\ Sound(m)
             /\ s \in m.suites /\ m.groups = {g} /\ m.cert = c
             /\ m.versions = IF s.kx = "any" THEN {"TLS1.3"} ELSE {"TLS1.2"}
<1> DEFINE versions == IF s.kx = "any" THEN {"TLS1.3"} ELSE {"TLS1.2"}
           suites == IF s.kx = "any" THEN {s} ELSE {Ordinary, s}
<1>1. /\ s.kx = "any" => s \in RunBy("TLS1.3") /\ s.cipher \in Aead /\ ForwardSecrecy(s)
      /\ s.kx # "any" => s \in RunBy("TLS1.2") /\ s \notin RunBy("TLS1.3")
  BY DEF NamedSuites, RunBy, VersionNames, Aead, ForwardSecrecy
<1>2. s \in Suite /\ Ordinary \in Suite
  BY NamedSuitesAreSuites DEF Ordinary, Suite
<1>3. versions \in SUBSET VersionNames /\ suites \in SUBSET Suite
  BY <1>2 DEF VersionNames
<1>4. Enumerated(versions, suites)
  <2>1. CASE s.kx = "any"
    BY <1>1, <2>1 DEF Enumerated
  <2>2. CASE s.kx # "any"
    BY <1>1, <2>2, OrdinaryIsOffered DEF Enumerated
  <2> QED
    BY <2>1, <2>2
<1>5. (\E t \in suites : ~ForwardSecrecy(t)) => c.key = "RSA"
  BY OrdinaryIsOffered
<1>6. {g} \in SUBSET Group /\ ({g} \cap HybridGroups # {} => "TLS1.3" \in versions)
  OBVIOUS
<1>7. Running(s, g, c) = Host(versions, suites, {g}, c)
  BY DEF Running
<1>8. s \in suites
  OBVIOUS
<1> HIDE DEF suites, versions
<1>9. LET m == Host(versions, suites, {g}, c)
      IN  m \in Measurement /\ Scannable(m) /\ Sound(m)
  BY <1>3, <1>4, <1>5, <1>6, HostIsSound
<1> QED
  BY <1>7, <1>8, <1>9 DEF Host, versions

LEMMA RunningModern ==
  ASSUME NEW g \in Group
  PROVE  LET m == Running([kx |-> "any", cipher |-> "AES256"], g, Usual)
         IN  /\ m \in Measurement /\ Scannable(m) /\ Sound(m)
             /\ m.groups = {g} /\ m.versions = {"TLS1.3"}
<1> DEFINE s == [kx |-> "any", cipher |-> "AES256"]
<1>1. s \in RunBy("TLS1.3") /\ s.kx = "any"
  BY DEF RunBy, Aead
<1>2. s \in NamedSuites
  BY <1>1, NamedSuitesAreSuites DEF VersionNames
<1> HIDE DEF s
<1> QED
  BY <1>1, <1>2, UsualIsAccepted, RunningIsSound DEF s

LEMMA ProtocolRuleBites ==
  ASSUME NEW key \in ProtocolKeys, NEW value, Constrains(key, value), ~Inert(key, value),
         key \in {"minVersion", "maxVersion"} => value \in Nameable \cup {Unset},
         key \in {"bannedVersions", "requiredVersions"} => value \subseteq Nameable
  PROVE  \E m \in Measurement : Scannable(m) /\ Sound(m) /\ ~GrantsProtocol(key, value, m)
<1>1. ASSUME NEW v \in VersionNames, ~GrantsProtocol(key, value, AlsoSpeaking(v))
      PROVE  \E m \in Measurement : Scannable(m) /\ Sound(m) /\ ~GrantsProtocol(key, value, m)
  BY <1>1, AlsoSpeakingIsSound
<1>2. \A v \in VersionNames : AlsoSpeaking(v).versions = {"TLS1.2", v}
  BY AlsoSpeakingIsSound
<1>3. {"TLS1.0", "TLS1.2", "TLS1.3"} \subseteq VersionNames
  BY DEF VersionNames
<1>4. CASE key = "minVersion"
  <2>1. value \in VersionNames \ {"TLS1.0"} /\ value # Unset
    BY <1>4 DEF Constrains, Inert, Switches, Sizes, Lists, Nameable
  <2>2. Rank("TLS1.0") < Rank(value)
    BY <2>1 DEF Rank, VersionNames
  <2>3. ~GrantsProtocol(key, value, AlsoSpeaking("TLS1.0"))
    BY <1>2, <1>3, <1>4, <2>1, <2>2 DEF GrantsProtocol
  <2> QED
    BY <1>1, <1>3, <2>3
<1>5. CASE key = "maxVersion"
  <2>1. value \in Nameable \ {"TLS1.3"} /\ value # Unset
    BY <1>5 DEF Constrains, Inert, Switches, Sizes, Lists
  <2>2. Rank("TLS1.3") > Rank(value)
    BY <2>1 DEF Rank, VersionNames, Nameable, Unprobeable
  <2>3. ~GrantsProtocol(key, value, AlsoSpeaking("TLS1.3"))
    BY <1>2, <1>3, <1>5, <2>1, <2>2 DEF GrantsProtocol
  <2> QED
    BY <1>1, <1>3, <2>3
<1>6. CASE key = "bannedVersions"
  <2>1. PICK v \in value : v \in VersionNames \/ v \in Unprobeable
    BY <1>6 DEF Constrains, Switches, Sizes, Lists, Nameable
  <2>2. VersionNames \cap Unprobeable = {}
    BY DEF VersionNames, Unprobeable
  <2>3. PICK w \in VersionNames : v \in VersionNames => w = v
    BY <1>3, <2>1
  <2>4. ~GrantsProtocol(key, value, AlsoSpeaking(w))
    BY <1>2, <1>6, <2>1, <2>2, <2>3 DEF GrantsProtocol
  <2> QED
    BY <1>1, <2>4
<1>7. CASE key = "requiredVersions"
  <2>1. PICK v \in value : v \in VersionNames \/ v \in Unprobeable
    BY <1>7 DEF Constrains, Switches, Sizes, Lists, Nameable
  <2>2. VersionNames \cap Unprobeable = {}
    BY DEF VersionNames, Unprobeable
  <2>3. CASE v # "TLS1.2"
    <3>1. v \notin AlsoSpeaking("TLS1.2").versions
      BY <1>2, <1>3, <2>3
    <3>2. ~GrantsProtocol(key, value, AlsoSpeaking("TLS1.2"))
      BY <1>7, <2>1, <2>2, <3>1 DEF GrantsProtocol
    <3> QED
      BY <1>1, <1>3, <3>2
  <2>4. CASE v = "TLS1.2"
    <3> DEFINE m == Running([kx |-> "any", cipher |-> "AES256"], "X25519", Usual)
    <3>1. m \in Measurement /\ Scannable(m) /\ Sound(m) /\ m.versions = {"TLS1.3"}
      BY RunningModern DEF Group
    <3> HIDE DEF m
    <3>2. ~GrantsProtocol(key, value, m)
      BY <1>7, <2>1, <2>2, <2>4, <3>1 DEF GrantsProtocol
    <3> QED
      BY <3>1, <3>2
  <2> QED
    BY <2>3, <2>4
<1> QED
  BY <1>4, <1>5, <1>6, <1>7 DEF ProtocolKeys

LEMMA CipherRuleBites ==
  ASSUME NEW key \in CipherKeys, NEW value, Constrains(key, value), ~Inert(key, value),
         key = "minKeySize" => value \in Int
  PROVE  \E m \in Measurement : Scannable(m) /\ Sound(m) /\ ~GrantsCipher(key, value, m)
<1>1. ASSUME NEW s \in NamedSuites, \A m : s \in m.suites => ~GrantsCipher(key, value, m)
      PROVE  \E m \in Measurement : Scannable(m) /\ Sound(m) /\ ~GrantsCipher(key, value, m)
  <2> DEFINE m == Running(s, "X25519", Usual)
  <2>1. m \in Measurement /\ Scannable(m) /\ Sound(m) /\ s \in m.suites
    BY RunningIsSound, UsualIsAccepted DEF Group, HybridGroups, PQCAlgorithm
  <2> QED
    BY <1>1, <2>1
<1>2. CASE key = "minKeySize"
  <2>1. PICK s \in NamedSuites : ~(Bits(s) >= value)
    BY <1>2 DEF Inert
  <2>2. value > 0 /\ Bits(s) < value
    <3>1. Bits(s) \in Int
      BY DEF Bits
    <3> QED
      BY <1>2, <2>1, <3>1 DEF Constrains, Switches, Sizes
  <2>3. \A m : s \in m.suites => ~GrantsCipher(key, value, m)
    BY <1>2, <2>2 DEF GrantsCipher
  <2> QED
    BY <1>1, <2>3
<1>3. CASE key = "requireForwardSecrecy"
  <2> DEFINE s == [kx |-> "RSA", cipher |-> "AES256"]
  <2>1. s \in RunBy("TLS1.2") /\ ~ForwardSecrecy(s)
    BY DEF RunBy, ForwardSecrecy
  <2>2. s \in NamedSuites
    BY <2>1, NamedSuitesAreSuites DEF VersionNames
  <2>3. value = TRUE \/ value
    BY <1>3 DEF Constrains, Switches
  <2> HIDE DEF s
  <2>4. \A m : s \in m.suites => ~GrantsCipher(key, value, m)
    BY <1>3, <2>1, <2>3 DEF GrantsCipher
  <2> QED
    BY <1>1, <2>2, <2>4
<1>4. CASE key = "bannedAlgorithms"
  <2>1. PICK s \in NamedSuites : value \cap Contains(s) # {}
    BY <1>4 DEF Inert
  <2>2. \A m : s \in m.suites => ~GrantsCipher(key, value, m)
    BY <1>4, <2>1 DEF GrantsCipher
  <2> QED
    BY <1>1, <2>2
<1>5. CASE key = "bannedCipherSuites"
  <2>1. PICK s \in NamedSuites : s \in value
    BY <1>5 DEF Inert
  <2>2. \A m : s \in m.suites => ~GrantsCipher(key, value, m)
    BY <1>5, <2>1 DEF GrantsCipher
  <2> QED
    BY <1>1, <2>2
<1>6. CASE key = "allowedCipherSuites"
  <2>1. PICK s \in NamedSuites : s \notin value
    BY <1>6 DEF Inert
  <2>2. value # {}
    BY <1>6 DEF Constrains, Switches, Sizes, Lists
  <2>3. \A m : s \in m.suites => ~GrantsCipher(key, value, m)
    BY <1>6, <2>1, <2>2 DEF GrantsCipher
  <2> QED
    BY <1>1, <2>3
<1>7. CASE key = "requiredKeyExchange"
  <2>1. value # {}
    BY <1>7 DEF Constrains, Switches, Sizes, Lists
  <2>2. PICK g \in Group : NamesOf({g}) \cap value = {}
    BY <1>7 DEF Inert, OffersOneOf
  <2> DEFINE m == Running([kx |-> "any", cipher |-> "AES256"], g, Usual)
  <2>3. m \in Measurement /\ Scannable(m) /\ Sound(m) /\ m.groups = {g}
    BY RunningModern
  <2> HIDE DEF m
  <2>4. ~GrantsCipher(key, value, m)
    BY <1>7, <2>1, <2>2, <2>3 DEF GrantsCipher
  <2> QED
    BY <2>3, <2>4
<1> QED
  BY <1>2, <1>3, <1>4, <1>5, <1>6, <1>7 DEF CipherKeys

LEMMA CertificateRuleBites ==
  ASSUME NEW key \in CertificateKeys, NEW value, Constrains(key, value), ~Inert(key, value),
         key \in Sizes => value \in Int
  PROVE  \E m \in Measurement : Scannable(m) /\ Sound(m) /\ ~GrantsCertificate(key, value, m.cert)
<1> DEFINE Held(lifetime, k, bits, sig) == Accepted(lifetime, TRUE, k, bits, sig)
           KeySizes(k) == IF k = "RSA" THEN 1024..8192 ELSE {224, 256, 384, 521}
           Bites(c) == \E m \in Measurement : Scannable(m) /\ Sound(m) /\ m.cert = c
<1>1. ASSUME NEW c \in AcceptedCertificates
      PROVE  Bites(c)
  <2> DEFINE m == Running(Ordinary, "X25519", c)
  <2>1. "X25519" \in Group /\ "X25519" \notin HybridGroups
    BY DEF Group, HybridGroups, PQCAlgorithm
  <2>2. Ordinary \in NamedSuites /\ ForwardSecrecy(Ordinary)
    BY OrdinaryIsOffered, NamedSuitesAreSuites DEF VersionNames
  <2>3. m \in Measurement /\ Scannable(m) /\ Sound(m) /\ m.cert = c
    BY <2>1, <2>2, RunningIsSound
  <2> QED
    BY <2>3
<1> SUFFICES ASSUME TRUE
             PROVE  \E c : Bites(c) /\ ~GrantsCertificate(key, value, c)
  OBVIOUS
<1> HIDE DEF Bites
<1>2. ASSUME NEW lifetime \in Int, lifetime > 0, NEW k \in {"RSA", "ECDSA"},
             NEW sig \in SignatureNames, NEW bits \in KeySizes(k)
      PROVE  /\ Bites(Held(lifetime, k, bits, sig))
             /\ Held(lifetime, k, bits, sig).lifetime = lifetime
             /\ Held(lifetime, k, bits, sig).key = k /\ Held(lifetime, k, bits, sig).bits = bits
             /\ Held(lifetime, k, bits, sig).sig = sig
             /\ Held(lifetime, k, bits, sig).selfSigned /\ ~Held(lifetime, k, bits, sig).isCA
  <2> DEFINE c == Held(lifetime, k, bits, sig)
  <2>1. /\ c.lifetime = lifetime /\ c.isCA = FALSE /\ c.selfSigned = TRUE
        /\ c.key = k /\ c.bits = bits /\ c.sig = sig
        /\ c.hours = 24 /\ c.notYetValid = FALSE /\ c.name = "passed" /\ c.chain = "passed"
    BY DEF Accepted
  <2>2. c \in Certificate
    BY DEF Accepted, Certificate, Check, SignatureNames
  <2> HIDE DEF c, Held
  <2>3. Issued(c)
    BY <1>2, <2>1 DEF Issued, Expired
  <2>4. c \in AcceptedCertificates
    BY <2>1, <2>2, <2>3 DEF AcceptedCertificates
  <2>5. Bites(c)
    BY <1>1, <2>4
  <2> QED
    BY <2>1, <2>5 DEF c
<1>3. 1024 \in KeySizes("RSA") /\ 4096 \in KeySizes("RSA") /\ 224 \in KeySizes("ECDSA")
  OBVIOUS
<1> HIDE DEF Held, KeySizes
<1>4. CASE key \in {"minRsaKeySize", "minEccKeySize"}
  <2> DEFINE kind == IF key = "minRsaKeySize" THEN "RSA" ELSE "ECDSA"
             bits == IF key = "minRsaKeySize" THEN 1024 ELSE 224
             c == Held(90, kind, bits, "SHA256")
  <2>1. value \in Int /\ value > bits
    BY <1>4 DEF Inert, Sizes
  <2>2. Bites(c) /\ c.key = kind /\ c.bits = bits
    BY <1>2, <1>3 DEF SignatureNames
  <2> HIDE DEF c
  <2>3. KeyTooSmall(c.bits, value)
    BY <2>1, <2>2 DEF KeyTooSmall
  <2>4. ~GrantsCertificate(key, value, c)
    BY <1>4, <2>2, <2>3 DEF GrantsCertificate
  <2> QED
    BY <2>2, <2>4
<1>5. CASE key = "maxValidityDays"
  <2> DEFINE c == Held(value + 1, "RSA", 4096, "SHA256")
  <2>1. value \in Int /\ value > 0
    BY <1>5 DEF Constrains, Switches, Sizes
  <2>2. Bites(c) /\ c.lifetime = value + 1
    BY <1>2, <1>3, <2>1 DEF SignatureNames
  <2> HIDE DEF c
  <2>3. ~GrantsCertificate(key, value, c)
    BY <1>5, <2>1, <2>2 DEF GrantsCertificate
  <2> QED
    BY <2>2, <2>3
<1>6. CASE key \in {"requiredSignatures", "bannedSignatures"}
  <2>1. PICK sig \in SignatureNames :
          /\ key = "requiredSignatures" => sig \notin value
          /\ key = "bannedSignatures" => sig \in value
    BY <1>6 DEF Inert
  <2> DEFINE c == Held(90, "RSA", 4096, sig)
  <2>2. Bites(c) /\ c.sig = sig
    BY <1>2, <1>3
  <2>3. value # {}
    BY <1>6 DEF Constrains, Switches, Sizes, Lists
  <2> HIDE DEF c
  <2>4. ~GrantsCertificate(key, value, c)
    BY <1>6, <2>1, <2>2, <2>3 DEF GrantsCertificate
  <2> QED
    BY <2>2, <2>4
<1>7. CASE key \in {"requireCt", "allowSelfSigned"}
  <2> DEFINE c == Held(90, "RSA", 4096, "SHA256")
  <2>1. Bites(c) /\ c.selfSigned /\ ~c.isCA
    BY <1>2, <1>3 DEF SignatureNames
  <2>2. (key = "requireCt" => value) /\ (key = "allowSelfSigned" => ~value)
    BY <1>7 DEF Constrains, Switches
  <2> HIDE DEF c
  <2>3. ~GrantsCertificate(key, value, c)
    BY <1>7, <2>1, <2>2 DEF GrantsCertificate
  <2> QED
    BY <2>1, <2>3
<1> QED
  BY <1>4, <1>5, <1>6, <1>7 DEF CertificateKeys

LEMMA QuantumRuleBites ==
  ASSUME NEW key \in QuantumKeys, NEW value, Constrains(key, value), ~Inert(key, value),
         key = "minQuantumScore" => value \in Int
  PROVE  \E m \in Measurement : /\ Scannable(m) /\ Sound(m)
                                /\ ~GrantsQuantum(key, value, m, AssessQuantumRisk(m))
<1>1. "X25519" \in Group /\ {"X25519"} \cap HybridGroups = {}
  BY DEF Group, HybridGroups, PQCAlgorithm
<1>2. PICK g \in Group : IF key = "requiredKeyExchangeAlgorithms"
                           THEN NamesOf({g}) \cap value = {} ELSE g = "X25519"
  BY <1>1 DEF Inert, OffersOneOf
<1> DEFINE m == Running([kx |-> "any", cipher |-> "AES256"], g, Usual)
           risk == AssessQuantumRisk(m)
<1>3. m \in Measurement /\ Scannable(m) /\ Sound(m) /\ m.groups = {g}
  BY RunningModern
<1> HIDE DEF m
<1>4. CASE key = "requiredKeyExchangeAlgorithms"
  <2>1. value # {}
    BY <1>4 DEF Constrains, Switches, Sizes, Lists
  <2>2. ~GrantsQuantum(key, value, m, risk)
    BY <1>2, <1>3, <1>4, <2>1 DEF GrantsQuantum
  <2> QED
    BY <1>3, <2>2
<1>5. CASE key # "requiredKeyExchangeAlgorithms"
  <2>1. ~HasHybrid(m)
    BY <1>1, <1>2, <1>3, <1>5 DEF HasHybrid
  <2>2. risk.score = 0
    BY <2>1 DEF AssessQuantumRisk, KeyExchangeScore, CertificateQuantumScore, QuantumScoreFor
  <2>3. risk.assessed = TRUE
    BY DEF AssessQuantumRisk
  <2> HIDE DEF risk
  <2>4. ~GrantsQuantum(key, value, m, risk)
    BY <1>5, <2>1, <2>2, <2>3 DEF QuantumKeys, GrantsQuantum, Constrains, Switches, Sizes, Lists
  <2> QED
    BY <1>3, <2>4 DEF risk
<1> QED
  BY <1>4, <1>5

\* A server that the rule under a key turns away is turned away by that rule
\* alone and by the policy, and passes without them.
LEMMA RefusedByRule ==
  ASSUME NEW key \in RuleKeys, NEW m \in Measurement, Sound(m),
         ~Grants(key, policy[key], m, AssessQuantumRisk(m))
  PROVE  Refuses(key, m)
<1> DEFINE risk == AssessQuantumRisk(m)
           cfg == [checkVulns |-> TRUE, checkQuantum |-> TRUE]
<1>1. cfg \in Config
  BY DEF Config
<1>2. risk.score \in Nat
  BY <1>1, FactorsAreBounded DEF RiskUnder
<1>3. \A p : PassesFully(p, m) <=> VerdictOf(Evaluate(p, m, risk)) = "compliant"
  BY DEF PassesFully, Judgement
<1> HIDE DEF risk
<1>4. PassesFully(NothingAsked, m)
  BY <1>2, <1>3, RuleByRule, FieldAsksNothing
<1>5. ~PassesFully(Alone(key, policy[key]), m)
  BY <1>2, <1>3, OneRule DEF risk
<1>6. ~PassesFully(policy, m)
  BY <1>3, RuleByRule DEF risk
<1> QED
  BY <1>4, <1>5, <1>6 DEF Refuses

\* A policy whose sizes are numbers, and what a policy is derived by that stays
\* such a one.
Sized(p) ==
  /\ Sizes \cup {"requiredKeyExchange", "bannedVersions", "requiredSignatures", "requirePqcCertificates"}
       \subseteq DOMAIN p
  /\ \A key \in Sizes : p[key] \in Int

LEMMA SizedByEach ==
  ASSUME NEW p, RuleKeys \subseteq DOMAIN p,
         p.minKeySize \in Int, p.minValidityDays \in Int, p.maxValidityDays \in Int,
         p.minRsaKeySize \in Int, p.minEccKeySize \in Int, p.minQuantumScore \in Int
  PROVE  Sized(p)
<1>1. Sizes \cup {"requiredKeyExchange", "bannedVersions", "requiredSignatures", "requirePqcCertificates"}
        \subseteq RuleKeys
  BY KeysAre DEF Sizes, ProtocolKeys, CipherKeys, CertificateKeys, QuantumKeys
<1> QED
  BY <1>1 DEF Sized, Sizes

LEMMA DeadlineIsSized ==
  ASSUME NEW version, NEW bits \in Int, NEW score \in Int
  PROVE  Sized(Deadline(version, bits, score))
<1> DEFINE p == Deadline(version, bits, score)
<1>1. DOMAIN p = RuleKeys
  BY Zenon DEF Deadline, RuleKeys
<1>2. p.minKeySize = 256 /\ p.minValidityDays = 30 /\ p.maxValidityDays = 0
  BY SMT DEF Deadline, NoRules
<1>3. p.minRsaKeySize = bits /\ p.minEccKeySize = 384 /\ p.minQuantumScore = score
  BY SMT DEF Deadline, NoRules
<1> HIDE DEF p
<1>4. Sized(p)
  BY <1>1, <1>2, <1>3, SizedByEach
<1> QED
  BY <1>4 DEF p

LEMMA SizesOfBuiltIns ==
  \A name \in DOMAIN DefaultPolicies : Sized(DefaultPolicies[name])
<1>1. Sized(DefaultPolicies.modern)
  <2> DEFINE P(a, b, c, d, e) ==
               [NoRules EXCEPT !.minVersion = a, !.bannedVersions = b, !.minKeySize = 128,
                  !.requireForwardSecrecy = c, !.bannedAlgorithms = d, !.minValidityDays = 30,
                  !.minRsaKeySize = 2048, !.minEccKeySize = 256, !.bannedSignatures = e]
  <2>1. DefaultPolicies.modern =
          P("TLS1.2", {"TLS1.0", "TLS1.1"}, TRUE, {"3DES", "RC4", "SHA1", "MD5"}, {"SHA1", "MD5"})
    BY Zenon DEF DefaultPolicies
  <2>2. ASSUME NEW a, NEW b, NEW c, NEW d, NEW e
        PROVE  Sized(P(a, b, c, d, e))
    <3> DEFINE p == P(a, b, c, d, e)
    <3>1. DOMAIN p = RuleKeys
      <4>1. \A k, l, m, n : DOMAIN [NoRules EXCEPT !.minVersion = a, !.bannedVersions = b, !.minKeySize = k,
                 !.requireForwardSecrecy = c, !.bannedAlgorithms = d, !.minValidityDays = l,
                 !.minRsaKeySize = m, !.minEccKeySize = n, !.bannedSignatures = e] = RuleKeys
        BY Zenon DEF RuleKeys
      <4> QED
        BY <4>1
    <3>2. p.minKeySize = 128 /\ p.minValidityDays = 30 /\ p.maxValidityDays = 0
      BY SMT DEF NoRules
    <3>3. p.minRsaKeySize = 2048 /\ p.minEccKeySize = 256 /\ p.minQuantumScore = 0
      BY SMT DEF NoRules
    <3> HIDE DEF p
    <3>4. Sized(p)
      BY <3>1, <3>2, <3>3, SizedByEach
    <3> QED
      BY <3>4 DEF p
  <2> HIDE DEF P
  <2> QED
    BY <2>1, <2>2, Zenon
<1>2. Sized(DefaultPolicies.strict)
  <2> DEFINE P(a, b, c, d, e, f) ==
               [NoRules EXCEPT !.minVersion = a, !.requiredVersions = b, !.bannedVersions = c, !.minKeySize = 256,
                  !.requireForwardSecrecy = d, !.bannedAlgorithms = e, !.minValidityDays = 30,
                  !.minRsaKeySize = 4096, !.minEccKeySize = 384, !.bannedSignatures = f]
  <2>1. \E a, b, c, d, e, f : DefaultPolicies.strict = P(a, b, c, d, e, f)
    <3> DEFINE others == VersionNames \ {"TLS1.3"}
    <3>1. DefaultPolicies.strict =
            P("TLS1.3", {"TLS1.3"}, others, TRUE, Algorithms, {"SHA1", "MD5", "SHA256"})
      BY Zenon DEF DefaultPolicies
    <3> HIDE DEF P, others
    <3> QED
      BY <3>1, Zenon
  <2>2. ASSUME NEW a, NEW b, NEW c, NEW d, NEW e, NEW f
        PROVE  Sized(P(a, b, c, d, e, f))
    <3> DEFINE p == P(a, b, c, d, e, f)
    <3>1. DOMAIN p = RuleKeys
      <4>1. \A k, l, m, n : DOMAIN [NoRules EXCEPT !.minVersion = a, !.requiredVersions = b,
                 !.bannedVersions = c, !.minKeySize = k, !.requireForwardSecrecy = d,
                 !.bannedAlgorithms = e, !.minValidityDays = l, !.minRsaKeySize = m,
                 !.minEccKeySize = n, !.bannedSignatures = f] = RuleKeys
        BY Zenon DEF RuleKeys
      <4> QED
        BY <4>1
    <3>2. p.minKeySize = 256 /\ p.minValidityDays = 30 /\ p.maxValidityDays = 0
      BY SMT DEF NoRules
    <3>3. p.minRsaKeySize = 4096 /\ p.minEccKeySize = 384 /\ p.minQuantumScore = 0
      BY SMT DEF NoRules
    <3> HIDE DEF p
    <3>4. Sized(p)
      BY <3>1, <3>2, <3>3, SizedByEach
    <3> QED
      BY <3>4 DEF p
  <2> HIDE DEF P
  <2> QED
    BY <2>1, <2>2
<1>3. Sized(DefaultPolicies.cnsa2027)
  <2> DEFINE p == Deadline("TLS1.2", 3072, 50)
  <2>1. DefaultPolicies.cnsa2027 = [p EXCEPT !.requiredKeyExchange = DeadlineGroups]
    BY Zenon DEF DefaultPolicies
  <2>2. Sized(p)
    BY DeadlineIsSized
  <2> HIDE DEF p
  <2> QED
    BY <2>1, <2>2 DEF Sized, Sizes
<1>4. Sized(DefaultPolicies.cnsa2030)
  <2> DEFINE p == Deadline("TLS1.3", 3072, 70)
  <2>1. DefaultPolicies.cnsa2030 =
          [p EXCEPT !.requiredKeyExchange = DeadlineGroups, !.bannedVersions = VersionNames \ {"TLS1.3"}]
    BY Zenon DEF DefaultPolicies
  <2>2. Sized(p)
    BY DeadlineIsSized
  <2> HIDE DEF p
  <2> QED
    BY <2>1, <2>2 DEF Sized, Sizes
<1>5. Sized(DefaultPolicies.cnsa2035)
  <2> DEFINE p == Deadline("TLS1.3", 4096, 90)
  <2>1. DefaultPolicies.cnsa2035 =
          [p EXCEPT !.requiredSignatures = {"ML-DSA"}, !.requirePqcCertificates = TRUE]
    BY Zenon DEF DefaultPolicies
  <2>2. Sized(p)
    BY DeadlineIsSized
  <2> HIDE DEF p
  <2> QED
    BY <2>1, <2>2 DEF Sized, Sizes
<1>6. DOMAIN DefaultPolicies = {"modern", "strict", "cnsa2027", "cnsa2030", "cnsa2035"}
  BY DEF DefaultPolicies
<1> QED
  BY <1>1, <1>2, <1>3, <1>4, <1>5, <1>6

\* The values of the rules that a policy was loaded with.
LEMMA SizesAreNumbers ==
  ASSUME Loading, Loaded, NEW key \in Sizes
  PROVE  policy[key] \in Int
<1>1. key \in RuleKeys /\ key \notin Lists
  BY DEF Sizes, Lists, RuleKeys, NoRules
<1>2. Base[key] \in Int
  <2>1. Base = NoRules \/ Base \in BuiltIn
    BY <1>1 DEF Base, BuiltIn, Loading, Loaded, OverlayIsNamed
  <2>2. NoRules[key] \in Int
    BY DEF NoRules, Sizes
  <2>3. \A name \in DOMAIN DefaultPolicies : DefaultPolicies[name][key] \in Int
    BY SizesOfBuiltIns DEF Sized
  <2> QED
    BY <2>1, <2>2, <2>3 DEF BuiltIn
<1>3. policy[key] = Received(First, key, Base[key])
  BY <1>1, RulesAreAsMeant
<1>4. CASE key \in WrittenKeys(First)
  <2>1. file \in Files /\ 1 \in DOMAIN file.documents /\ First.kind \in {"policy", "null"}
    BY PolicyLoadAssumption DEF Loading, Loaded, LoaderInOrder, FirstIsDecoded
  <2>2. First.kind = "null" => DOMAIN First.rules = {}
    BY <2>1, PolicyLoadAssumption DEF First, EmptyDocument
  <2>3. First.rules[key].value \in Int
    BY <1>4, <2>1, <2>2, PolicyLoadAssumption DEF First, WrittenKeys
  <2> QED
    BY <1>3, <1>4, <2>3 DEF Received, WrittenKeys
<1>5. CASE key \notin WrittenKeys(First)
  BY <1>1, <1>2, <1>3, <1>5 DEF Received, WrittenKeys
<1> QED
  BY <1>4, <1>5

LEMMA VersionsAreKnown ==
  ASSUME Loading, Loaded
  PROVE  /\ policy["minVersion"] \in Nameable \cup {Unset}
         /\ policy["maxVersion"] \in Nameable \cup {Unset}
         /\ policy["bannedVersions"] \subseteq Nameable
         /\ policy["requiredVersions"] \subseteq Nameable
BY DEF Loading, Loaded, RulesAreValid, UnknownVersion

\* A rule that is declared turns some server away, unless its author chose a
\* value that nothing falls short of.
LEMMA DeclaredRuleBites ==
  ASSUME Loading, Loaded, NEW key \in RuleKeys, Declares(key), ~Inert(key, policy[key])
  PROVE  \E m \in Measurement : Scannable(m) /\ Refuses(key, m)
<1>1. key \in Enforceable /\ Constrains(key, policy[key])
  BY DEF Declares
<1>2. key \in ProtocolKeys \cup CipherKeys \cup CertificateKeys \cup QuantumKeys
  BY <1>1, KeysAre DEF Enforceable, WarningOnly
<1>3. CASE key \in ProtocolKeys
  <2>1. PICK m \in Measurement : Scannable(m) /\ Sound(m) /\ ~GrantsProtocol(key, policy[key], m)
    <3>1. key \in {"minVersion", "maxVersion"} => policy[key] \in Nameable \cup {Unset}
      BY VersionsAreKnown
    <3>2. key \in {"bannedVersions", "requiredVersions"} => policy[key] \subseteq Nameable
      BY VersionsAreKnown
    <3> QED
      BY <1>1, <1>3, <3>1, <3>2, ProtocolRuleBites
  <2> QED
    BY <2>1, RefusedByRule DEF Grants
<1>4. CASE key \in CipherKeys
  <2>1. PICK m \in Measurement : Scannable(m) /\ Sound(m) /\ ~GrantsCipher(key, policy[key], m)
    <3>1. key = "minKeySize" => policy[key] \in Int
      BY SizesAreNumbers DEF Sizes
    <3> QED
      BY <1>1, <1>4, <3>1, CipherRuleBites
  <2> QED
    BY <2>1, RefusedByRule DEF Grants
<1>5. CASE key \in CertificateKeys
  <2>1. PICK m \in Measurement : Scannable(m) /\ Sound(m) /\ ~GrantsCertificate(key, policy[key], m.cert)
    BY <1>1, <1>5, SizesAreNumbers, CertificateRuleBites
  <2> QED
    BY <2>1, RefusedByRule DEF Grants
<1>6. CASE key \in QuantumKeys
  <2>1. PICK m \in Measurement : /\ Scannable(m) /\ Sound(m)
                                 /\ ~GrantsQuantum(key, policy[key], m, AssessQuantumRisk(m))
    <3>1. key = "minQuantumScore" => policy[key] \in Int
      BY SizesAreNumbers DEF Sizes
    <3> QED
      BY <1>1, <1>6, <3>1, QuantumRuleBites
  <2> QED
    BY <2>1, RefusedByRule DEF Grants
<1> QED
  BY <1>2, <1>3, <1>4, <1>5, <1>6

\* Over every result that a scan of a server can return, a policy that loads
\* declares a rule, and each rule that it declares, written or inherited, turns
\* some server away that would pass without it, unless the value it was given is
\* one that nothing falls short of, an SSL version as the floor among them.
THEOREM DeclaredRulesBite ==
  ASSUME \A m \in Measurement : Scannable(m) => m \in Measurements
  PROVE  LoadSpec => []LoadedPolicyCanFail
<1>1. ASSUME Loading
      PROVE  LoadedPolicyCanFail
  <2> SUFFICES ASSUME Loaded
               PROVE  /\ \E key \in RuleKeys : Declares(key)
                      /\ \A key \in RuleKeys : Declares(key) =>
                           Inert(key, policy[key]) \/ \E m \in Measurements : Scannable(m) /\ Refuses(key, m)
    BY DEF LoadedPolicyCanFail
  <2>1. \A key \in RuleKeys : Declares(key) /\ ~Inert(key, policy[key]) =>
          \E m \in Measurement : Scannable(m) /\ Refuses(key, m)
    BY <1>1, DeclaredRuleBites
  <2> QED
    BY <1>1, <2>1, SomeRuleIsDeclared
<1> QED
  BY <1>1, LoadInvariance, PTL
=============================================================================
