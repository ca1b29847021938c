----------------------------- MODULE GateProofs -----------------------------
(***************************************************************************)
(* Each part of PolicyEvaluator.Evaluate as the condition under which it   *)
(* has nothing to object to and nothing to skip, for all policies and      *)
(* measurements.                                                           *)
(***************************************************************************)
EXTENDS PolicyGate, AssessmentProofs

-----------------------------------------------------------------------------
(***************************************************************************)
(* When a part of the policy has nothing to object to.                     *)
(***************************************************************************)
LEMMA NoEntries ==
  ASSUME NEW rule, NEW severity, NEW S
  PROVE  Entries(rule, severity, S) = {} <=> S = {}
BY DEF Entries

LEMMA ProtocolAccepted ==
  ASSUME NEW p, NEW versions
  PROVE  ProtocolViolations(p, versions) = {} <=>
           /\ p.minVersion # Unset =>
                /\ versions # {}
                /\ \A v \in versions : ~(Rank(v) < Rank(p.minVersion))
           /\ (p.bannedVersions \ Unprobeable) \cap versions = {}
           /\ \A v \in versions : p.maxVersion # Unset => ~(Rank(v) > Rank(p.maxVersion))
           /\ (p.requiredVersions \ Unprobeable) \ versions = {}
<1> DEFINE low == {w \in versions : Rank(w) < Rank(p.minVersion)}
           high == {w \in versions : p.maxVersion # Unset /\ Rank(w) > Rank(p.maxVersion)}
           banned == (p.bannedVersions \ Unprobeable) \cap versions
           missing == (p.requiredVersions \ Unprobeable) \ versions
           tagged(S) == {<<v>> : v \in S}
<1>1. ASSUME NEW S
      PROVE  tagged(S) = {} <=> S = {}
  OBVIOUS
<1>2. Floor(p, versions) = {} <=>
        (p.minVersion # Unset => ~(\A v \in versions : Rank(v) < Rank(p.minVersion)) /\ low = {})
  <2>1. CASE p.minVersion = Unset
    BY <2>1 DEF Floor
  <2>2. CASE p.minVersion # Unset
    <3>1. Floor(p, versions) =
            Entry("protocol.minVersion", "HIGH", \A v \in versions : Rank(v) < Rank(p.minVersion))
              \cup Entries("protocol.minVersion", "HIGH", tagged(low))
      BY <2>2 DEF Floor
    <3>2. Entry("protocol.minVersion", "HIGH", \A v \in versions : Rank(v) < Rank(p.minVersion)) = {}
            <=> ~(\A v \in versions : Rank(v) < Rank(p.minVersion))
      BY NoEntries DEF Entry
    <3>3. Entries("protocol.minVersion", "HIGH", tagged(low)) = {} <=> low = {}
      <4> HIDE DEF low, tagged
      <4> QED
        BY <1>1, NoEntries
    <3> HIDE DEF low, tagged
    <3> QED
      BY <2>2, <3>1, <3>2, <3>3
  <2> QED
    BY <2>1, <2>2
<1>3. ProtocolViolations(p, versions) =
        Floor(p, versions)
          \cup Entries("protocol.bannedVersions", "HIGH", tagged(banned))
          \cup Entries("protocol.maxVersion", "MEDIUM", tagged(high))
          \cup Entries("protocol.requiredVersions", "HIGH", tagged(missing))
  BY DEF ProtocolViolations
<1>4. ProtocolViolations(p, versions) = {} <=>
        Floor(p, versions) = {} /\ banned = {} /\ high = {} /\ missing = {}
  <2> HIDE DEF banned, high, missing, tagged
  <2>1. /\ Entries("protocol.bannedVersions", "HIGH", tagged(banned)) = {} <=> banned = {}
        /\ Entries("protocol.maxVersion", "MEDIUM", tagged(high)) = {} <=> high = {}
        /\ Entries("protocol.requiredVersions", "HIGH", tagged(missing)) = {} <=> missing = {}
    BY <1>1, NoEntries
  <2> QED
    BY <1>3, <2>1
<1>5. low = {} <=> \A v \in versions : ~(Rank(v) < Rank(p.minVersion))
  OBVIOUS
<1>6. high = {} <=> \A v \in versions : p.maxVersion # Unset => ~(Rank(v) > Rank(p.maxVersion))
  OBVIOUS
<1>7. ~(\A v \in versions : Rank(v) < Rank(p.minVersion)) /\ low = {} <=>
        versions # {} /\ \A v \in versions : ~(Rank(v) < Rank(p.minVersion))
  BY <1>5
<1> HIDE DEF low, high
<1> QED
  BY <1>2, <1>4, <1>6, <1>7

LEMMA SuiteAccepted ==
  ASSUME NEW p, NEW s
  PROVE  SuiteViolations(p, s) = {} <=>
           /\ ~(p.minKeySize > 0 /\ Bits(s) < p.minKeySize)
           /\ p.requireForwardSecrecy => ForwardSecrecy(s)
           /\ p.bannedAlgorithms \cap Contains(s) = {}
           /\ s \notin p.bannedCipherSuites
           /\ p.allowedCipherSuites # {} => s \in p.allowedCipherSuites
<1> DEFINE about == <<s.kx, s.cipher>>
           contained == p.bannedAlgorithms \cap Contains(s)
           named(rule, broken) == Entries(rule, "HIGH", IF broken THEN {about} ELSE {})
           algorithms == Entries("cipher.bannedAlgorithms", "HIGH", {about \o <<a>> : a \in contained})
           one == named("cipher.minKeySize", p.minKeySize > 0 /\ Bits(s) < p.minKeySize)
           two == named("cipher.requireForwardSecrecy", p.requireForwardSecrecy /\ ~ForwardSecrecy(s))
           four == named("cipher.bannedCipherSuites", s \in p.bannedCipherSuites)
           five == named("cipher.allowedCipherSuites",
                         p.allowedCipherSuites # {} /\ s \notin p.allowedCipherSuites)
<1>1. SuiteViolations(p, s) = one \cup two \cup algorithms \cup four \cup five
  BY DEF SuiteViolations
<1>2. algorithms = {} <=> contained = {}
  <2>1. {about \o <<a>> : a \in contained} = {} <=> contained = {}
    <3> HIDE DEF contained, about
    <3> QED
      OBVIOUS
  <2> HIDE DEF contained, about
  <2> QED
    BY <2>1, NoEntries
<1>3. one = {} <=> ~(p.minKeySize > 0 /\ Bits(s) < p.minKeySize)
  BY NoEntries
<1>4. two = {} <=> ~(p.requireForwardSecrecy /\ ~ForwardSecrecy(s))
  BY NoEntries
<1>5. four = {} <=> s \notin p.bannedCipherSuites
  BY NoEntries
<1>6. five = {} <=> ~(p.allowedCipherSuites # {} /\ s \notin p.allowedCipherSuites)
  BY NoEntries
<1> HIDE DEF one, two, algorithms, four, five
<1> QED
  BY <1>1, <1>2, <1>3, <1>4, <1>5, <1>6

LEMMA CiphersAccepted ==
  ASSUME NEW p, NEW m
  PROVE  CipherViolations(p, m) = {} <=>
           /\ \A s \in m.suites : SuiteViolations(p, s) = {}
           /\ p.requiredKeyExchange # {} => p.requiredKeyExchange \cap NamesOf(m.groups) # {}
<1> DEFINE each == UNION {SuiteViolations(p, s) : s \in m.suites}
           exchange == Entry("cipher.requiredKeyExchange", "CRITICAL",
                             p.requiredKeyExchange # {} /\ p.requiredKeyExchange \cap NamesOf(m.groups) = {})
<1>1. CipherViolations(p, m) = each \cup exchange
  BY DEF CipherViolations
<1>2. each = {} <=> \A s \in m.suites : SuiteViolations(p, s) = {}
  OBVIOUS
<1>3. exchange = {} <=> ~(p.requiredKeyExchange # {} /\ p.requiredKeyExchange \cap NamesOf(m.groups) = {})
  BY NoEntries DEF Entry
<1> HIDE DEF each, exchange
<1> QED
  BY <1>1, <1>2, <1>3

LEMMA CertificateAccepted ==
  ASSUME NEW p, NEW c
  PROVE  CertificateViolations(p, c) = {} <=>
           /\ c # NoCertificate
           /\ c.name # "failed" /\ c.chain # "failed"
           /\ ~Expired(c) /\ ~c.notYetValid
           /\ ~(c.key = "RSA" /\ KeyTooSmall(c.bits, p.minRsaKeySize))
           /\ ~(c.key = "ECDSA" /\ KeyTooSmall(c.bits, p.minEccKeySize))
           /\ ~(p.maxValidityDays > 0 /\ c.lifetime > p.maxValidityDays)
           /\ p.requiredSignatures # {} => c.sig \in p.requiredSignatures
           /\ c.sig \notin p.bannedSignatures
           /\ ~p.allowSelfSigned => ~(c.selfSigned /\ ~c.isCA)
<1>1. CASE c = NoCertificate
  <2>1. MissingCertificate(p) # {}
    BY NoEntries DEF MissingCertificate, Entry
  <2> QED
    BY <1>1, <2>1 DEF CertificateViolations
<1>2. CASE c # NoCertificate
  <2> DEFINE one == Entry("certificate.nameMatch", "CRITICAL", c.name = "failed")
             two == Entry("certificate.chainTrust", "CRITICAL", c.chain = "failed")
             three == Entry("certificate.validity", "CRITICAL", Expired(c) \/ c.notYetValid)
             four == Entry("certificate.minRsaKeySize", "HIGH", c.key = "RSA" /\ KeyTooSmall(c.bits, p.minRsaKeySize))
             five == Entry("certificate.minEccKeySize", "HIGH", c.key = "ECDSA" /\ KeyTooSmall(c.bits, p.minEccKeySize))
             six == Entry("certificate.maxValidityDays", "MEDIUM", p.maxValidityDays > 0 /\ c.lifetime > p.maxValidityDays)
             seven == Entry("certificate.requiredSignatureAlgorithms", "HIGH",
                            p.requiredSignatures # {} /\ c.sig \notin p.requiredSignatures)
             eight == Entry("certificate.bannedSignatureAlgorithms", "HIGH", c.sig \in p.bannedSignatures)
             nine == Entry("certificate.allowSelfSigned", "MEDIUM", ~p.allowSelfSigned /\ c.selfSigned /\ ~c.isCA)
  <2>1. CertificateViolations(p, c) =
          one \cup two \cup three \cup four \cup five \cup six \cup seven \cup eight \cup nine
    BY <1>2 DEF CertificateViolations
  <2>2. one = {} <=> c.name # "failed"
    BY NoEntries DEF Entry
  <2>3. two = {} <=> c.chain # "failed"
    BY NoEntries DEF Entry
  <2>4. three = {} <=> ~(Expired(c) \/ c.notYetValid)
    BY NoEntries DEF Entry
  <2>5. four = {} <=> ~(c.key = "RSA" /\ KeyTooSmall(c.bits, p.minRsaKeySize))
    BY NoEntries DEF Entry
  <2>6. five = {} <=> ~(c.key = "ECDSA" /\ KeyTooSmall(c.bits, p.minEccKeySize))
    BY NoEntries DEF Entry
  <2>7. six = {} <=> ~(p.maxValidityDays > 0 /\ c.lifetime > p.maxValidityDays)
    BY NoEntries DEF Entry
  <2>8. seven = {} <=> ~(p.requiredSignatures # {} /\ c.sig \notin p.requiredSignatures)
    BY NoEntries DEF Entry
  <2>9. eight = {} <=> c.sig \notin p.bannedSignatures
    BY NoEntries DEF Entry
  <2>10. nine = {} <=> ~(~p.allowSelfSigned /\ c.selfSigned /\ ~c.isCA)
    BY NoEntries DEF Entry
  <2> HIDE DEF one, two, three, four, five, six, seven, eight, nine
  <2>11. CertificateViolations(p, c) = {} <=>
           /\ one = {} /\ two = {} /\ three = {} /\ four = {} /\ five = {}
           /\ six = {} /\ seven = {} /\ eight = {} /\ nine = {}
    BY <2>1
  <2> QED
    BY <1>2, <2>2, <2>3, <2>4, <2>5, <2>6, <2>7, <2>8, <2>9, <2>10, <2>11
<1> QED
  BY <1>1, <1>2

LEMMA QuantumAccepted ==
  ASSUME NEW p, NEW m, NEW risk
  PROVE  QuantumViolations(p, m, risk) = {} <=>
           /\ p.requireHybrid => HasHybrid(m)
           /\ p.requiredKeyExchangeAlgorithms # {} =>
                p.requiredKeyExchangeAlgorithms \cap NamesOf(m.groups) # {}
           /\ ~(risk.assessed /\ risk.score < p.minQuantumScore)
<1> DEFINE one == Entry("quantum.requireHybridKeyExchange", "CRITICAL", p.requireHybrid /\ ~HasHybrid(m))
           two == Entry("quantum.requiredKeyExchangeAlgorithms", "CRITICAL",
                        /\ p.requiredKeyExchangeAlgorithms # {}
                        /\ p.requiredKeyExchangeAlgorithms \cap NamesOf(m.groups) = {})
           three == Entry("quantum.minQuantumScore", "HIGH", risk.assessed /\ risk.score < p.minQuantumScore)
<1>1. QuantumViolations(p, m, risk) = one \cup two \cup three
  BY DEF QuantumViolations
<1>2. one = {} <=> ~(p.requireHybrid /\ ~HasHybrid(m))
  BY NoEntries DEF Entry
<1>3. two = {} <=> ~(/\ p.requiredKeyExchangeAlgorithms # {}
                     /\ p.requiredKeyExchangeAlgorithms \cap NamesOf(m.groups) = {})
  BY NoEntries DEF Entry
<1>4. three = {} <=> ~(risk.assessed /\ risk.score < p.minQuantumScore)
  BY NoEntries DEF Entry
<1> HIDE DEF one, two, three
<1> QED
  BY <1>1, <1>2, <1>3, <1>4

LEMMA NothingSkipped ==
  ASSUME NEW p, NEW m, NEW risk
  PROVE  SkippedRules(p, m, risk) = {} <=>
           /\ p.bannedVersions \cap Unprobeable = {}
           /\ p.requiredVersions \cap Unprobeable = {}
           /\ ~(p.minQuantumScore > 0 /\ ~risk.assessed)
           /\ m.cert # NoCertificate =>
                /\ m.cert.name # "notPerformed" /\ m.cert.chain # "notPerformed"
                /\ ~p.requireCt
<1> DEFINE one == {<<"protocol.bannedVersions", v>> : v \in p.bannedVersions \cap Unprobeable}
           two == {<<"protocol.requiredVersions", v>> : v \in p.requiredVersions \cap Unprobeable}
           ct == IF p.requireCt THEN {<<"certificate.requireCt">>} ELSE {}
           rules == {r \in {"certificate.nameMatch", "certificate.chainTrust"} :
                       "notPerformed" = IF r = "certificate.nameMatch" THEN m.cert.name ELSE m.cert.chain}
           four == IF m.cert = NoCertificate THEN {} ELSE ChecksSkipped(m.cert) \cup ct
<1>1. SkippedRules(p, m, risk) = one \cup two \cup QuantumSkipped(p, risk) \cup four
  BY DEF SkippedRules
<1>2. one = {} <=> p.bannedVersions \cap Unprobeable = {}
  OBVIOUS
<1>3. two = {} <=> p.requiredVersions \cap Unprobeable = {}
  OBVIOUS
<1>4. QuantumSkipped(p, risk) = {} <=> ~(p.minQuantumScore > 0 /\ ~risk.assessed)
  BY DEF QuantumSkipped
<1>5. ChecksSkipped(m.cert) = {} <=> m.cert.name # "notPerformed" /\ m.cert.chain # "notPerformed"
  <2>1. ChecksSkipped(m.cert) = {<<rule>> : rule \in rules}
    BY DEF ChecksSkipped
  <2>2. rules = {} <=> m.cert.name # "notPerformed" /\ m.cert.chain # "notPerformed"
    OBVIOUS
  <2> HIDE DEF rules
  <2>3. {<<rule>> : rule \in rules} = {} <=> rules = {}
    OBVIOUS
  <2> QED
    BY <2>1, <2>2, <2>3
<1>6. ct = {} <=> ~p.requireCt
  OBVIOUS
<1>7. four = {} <=> (m.cert # NoCertificate => ChecksSkipped(m.cert) = {} /\ ct = {})
  OBVIOUS
<1> HIDE DEF one, two, ct, four
<1> QED
  BY <1>1, <1>2, <1>3, <1>4, <1>5, <1>6, <1>7

LEMMA Evaluated ==
  ASSUME NEW p, NEW m, NEW risk
  PROVE  LET pr == Evaluate(p, m, risk)
         IN  /\ pr.compliant <=>
                  /\ ProtocolViolations(p, m.versions) = {} /\ CipherViolations(p, m) = {}
                  /\ CertificateViolations(p, m.cert) = {} /\ QuantumViolations(p, m, risk) = {}
             /\ pr.complete <=> SkippedRules(p, m, risk) = {}
             /\ VerdictOf(pr) = "compliant" <=> pr.compliant /\ pr.complete
<1> DEFINE violations == ProtocolViolations(p, m.versions) \cup CipherViolations(p, m)
                           \cup CertificateViolations(p, m.cert) \cup QuantumViolations(p, m, risk)
           pr == Evaluate(p, m, risk)
<1>1. /\ pr.compliant = (violations = {})
      /\ pr.complete = (SkippedRules(p, m, risk) = {})
  BY DEF Evaluate
<1>2. violations = {} <=>
        /\ ProtocolViolations(p, m.versions) = {} /\ CipherViolations(p, m) = {}
        /\ CertificateViolations(p, m.cert) = {} /\ QuantumViolations(p, m, risk) = {}
  OBVIOUS
<1>3. VerdictOf(pr) = "compliant" <=> pr.compliant /\ pr.complete
  BY DEF VerdictOf
<1> HIDE DEF violations, pr
<1> QED
  BY <1>1, <1>2, <1>3 DEF pr
=============================================================================
