---------------------------- MODULE Assessment -----------------------------
(***************************************************************************)
(* The second half of Scanner.Scan: what a measured result is judged to    *)
(* be.  Four steps run in order on one result: checkVulnerabilities,       *)
(* assessQuantumRisk (each only if its check is on), calculateGrade and    *)
(* generateRecommendations.                                                *)
(*                                                                         *)
(* A cipher suite is reduced to the two parts of its name that             *)
(* parseCSComponents reads a judgement from; a certificate to the fields   *)
(* the judgements read, its remaining life in hours, its lifetime in days. *)
(* Names and titles are the code's, written without their spaces.          *)
(***************************************************************************)
EXTENDS Integers, Sequences, FiniteSets

CONSTANTS
  Measurements,   \* the measured results to judge
  Configs         \* the values of --skip-vulns and --skip-quantum, negated

VersionNames == {"TLS1.3", "TLS1.2", "TLS1.1", "TLS1.0"}

\* kx is "any" for the suites of TLS 1.3.
Suite == [kx : {"any", "ECDHE", "RSA"}, cipher : {"AES128", "AES256", "CHACHA20", "3DES", "RC4"}]

Check == {"passed", "failed", "notPerformed"}

Certificate ==
  [ hours : Int, notYetValid : BOOLEAN, lifetime : Int, name : Check, chain : Check,
    selfSigned : BOOLEAN, isCA : BOOLEAN,
    key : {"RSA", "ECDSA", "Ed25519"}, bits : Nat, sig : {"SHA256", "SHA384", "SHA1", "MD5", "Ed25519"} ]
NoCertificate == [key |-> "nil"]

\* tlsGroups: the hybrid groups by their post-quantum half.  X25519 and secp256r1
\* stand for the classical ones.
PQCAlgorithm ==
  [ X25519MLKEM768 |-> "ML-KEM-768", SecP256r1MLKEM768 |-> "ML-KEM-768",
    SecP384r1MLKEM1024 |-> "ML-KEM-1024" ]
HybridGroups == DOMAIN PQCAlgorithm
Group == HybridGroups \cup {"X25519", "secp256r1"}

Measurement ==
  [ versions : SUBSET VersionNames, suites : SUBSET Suite,
    groups : SUBSET Group, cert : Certificate \cup {NoCertificate} ]

Config == [checkVulns : BOOLEAN, checkQuantum : BOOLEAN]

ASSUME AssessmentAssumption == Measurements \subseteq Measurement /\ Configs \subseteq Config

-----------------------------------------------------------------------------
(***************************************************************************)
(* What parseCSComponents and parseCertificateAt derive.                   *)
(***************************************************************************)
Bits(s) ==
  IF s.cipher \in {"AES256", "CHACHA20"} THEN 256 ELSE IF s.cipher = "3DES" THEN 168 ELSE 128

ForwardSecrecy(s) == s.kx # "RSA"

Deprecated(s) == s.cipher \in {"3DES", "RC4"}

Expired(c) == c.hours < 0

\* int(hours / 24): truncation toward zero.
DaysUntilExpiry(c) == IF c.hours >= 0 THEN c.hours \div 24 ELSE -((-c.hours) \div 24)

-----------------------------------------------------------------------------
(***************************************************************************)
(* checkVulnerabilities.                                                   *)
(***************************************************************************)
\* subject tells apart the findings that share an id: the suite's parts, or what
\* the finding says of the chain verification.
Found(id, subject, severity, condition) ==
  IF condition THEN {[id |-> id, subject |-> subject, severity |-> severity]} ELSE {}

ProtocolFindings(versions) ==
  Found("TLS10_ENABLED", << >>, "HIGH", "TLS1.0" \in versions)
    \cup Found("TLS11_ENABLED", << >>, "MEDIUM", "TLS1.1" \in versions)
    \cup Found("NO_TLS13", << >>, "MEDIUM", "TLS1.3" \notin versions)

SuiteFindings(s) ==
  Found("DEPRECATED_CIPHER", <<s.kx, s.cipher>>, "HIGH", Deprecated(s))
    \cup Found("NO_PFS", <<s.kx, s.cipher>>, "MEDIUM", ~ForwardSecrecy(s) /\ s.kx = "RSA")
    \cup Found("WEAK_CIPHER", <<s.kx, s.cipher>>, "HIGH", Bits(s) > 0 /\ Bits(s) < 128)

\* Mutant: the days left stand in for the question whether it has expired.
WindowFindingsByDays(c) ==
  Found("CERT_EXPIRED", << >>, "CRITICAL", Expired(c))
    \cup Found("CERT_NOT_YET_VALID", << >>, "CRITICAL", c.notYetValid)
    \cup Found("CERT_EXPIRING", << >>, "MEDIUM",
               ~c.notYetValid /\ DaysUntilExpiry(c) > 0 /\ DaysUntilExpiry(c) < 30)

WindowFindings(c) ==
  Found("CERT_EXPIRED", << >>, "CRITICAL", Expired(c))
    \cup Found("CERT_NOT_YET_VALID", << >>, "CRITICAL", c.notYetValid)
    \cup Found("CERT_EXPIRING", << >>, "MEDIUM",
               ~c.notYetValid /\ ~Expired(c) /\ DaysUntilExpiry(c) < 30)

\* Mutant: a self-signed certificate is a milder condition than an untrusted chain.
ChainFindingsBySelfDescription(c) ==
  Found("CERT_SELF_SIGNED", <<c.chain>>, "MEDIUM", c.selfSigned)
    \cup Found("CERT_CHAIN_UNTRUSTED", <<"failed">>, "HIGH", c.chain = "failed" /\ ~c.selfSigned)

\* The switch on ChainTrust.
ChainFindings(c) ==
  IF c.chain = "failed"
    THEN Found("CERT_SELF_SIGNED", <<"failed">>, "HIGH", c.selfSigned)
           \cup Found("CERT_CHAIN_UNTRUSTED", <<"failed">>, "HIGH", ~c.selfSigned)
    ELSE Found("CERT_SELF_SIGNED", <<"passed">>, "MEDIUM", c.chain = "passed" /\ c.selfSigned)
           \cup Found("CERT_SELF_SIGNED", <<"notPerformed">>, "MEDIUM", c.chain # "passed" /\ c.selfSigned)

CertificateFindings(c) ==
  WindowFindings(c) \cup ChainFindings(c)
    \cup Found("CERT_NAME_MISMATCH", << >>, "HIGH", c.name = "failed")
    \cup Found("CERT_WEAK_SIG", << >>, "HIGH", c.sig \in {"SHA1", "MD5"})
    \cup Found("CERT_WEAK_KEY", << >>, "HIGH", c.key = "RSA" /\ c.bits < 2048)

Vulnerabilities(m) ==
  ProtocolFindings(m.versions)
    \cup (UNION {SuiteFindings(s) : s \in m.suites})
    \cup (IF m.cert = NoCertificate THEN {} ELSE CertificateFindings(m.cert))

-----------------------------------------------------------------------------
(***************************************************************************)
(* assessQuantumRisk.  No certificate that Go can parse earns a point, and *)
(* no group it can negotiate is more than hybrid.                          *)
(***************************************************************************)
HasHybrid(m) == m.groups \cap HybridGroups # {}

KeyExchangeScore(m) == IF HasHybrid(m) THEN 80 ELSE 0
CertificateQuantumScore(m) == 0

QuantumScoreFor(keyExchange, certificate) == (keyExchange * 80 + certificate * 20) \div 100

Level(score) ==
  IF score >= 80 THEN "LOW" ELSE IF score >= 50 THEN "MEDIUM"
  ELSE IF score >= 20 THEN "HIGH" ELSE "CRITICAL"

DescribeKeyExchangeRisk(score) ==
  IF score >= 80 THEN "LOW" ELSE IF score >= 50 THEN "MEDIUM" ELSE "CRITICAL"

\* Harvest now, decrypt later.
DescribeHNDLRisk(m) ==
  IF HasHybrid(m) THEN "LOW"
  ELSE IF \E s \in m.suites : ForwardSecrecy(s) THEN "HIGH" ELSE "CRITICAL"

RecommendTimeToAction(keyExchange, certificate) ==
  IF keyExchange >= 80 THEN "MONITORING"
  ELSE IF keyExchange > 0 THEN "12-24_MONTHS" ELSE "IMMEDIATE"

AssessQuantumRisk(m) ==
  LET ke == KeyExchangeScore(m)
      cert == CertificateQuantumScore(m)
      score == QuantumScoreFor(ke, cert)
  IN  [ assessed |-> TRUE, score |-> score, level |-> Level(score),
        hybridReady |-> HasHybrid(m), keyExchangeRisk |-> DescribeKeyExchangeRisk(ke),
        hndlRisk |-> DescribeHNDLRisk(m), action |-> RecommendTimeToAction(ke, cert) ]

\* The zero value a skipped assessment leaves in the result.
NotAssessed ==
  [ assessed |-> FALSE, score |-> 0, level |-> "none", hybridReady |-> FALSE,
    keyExchangeRisk |-> "none", hndlRisk |-> "none", action |-> "none" ]

-----------------------------------------------------------------------------
(***************************************************************************)
(* calculateGrade.                                                         *)
(***************************************************************************)
Clamp(low, x, high) == IF x < low THEN low ELSE IF x > high THEN high ELSE x
Points(n, condition) == IF condition THEN n ELSE 0

\* Mutant: deductions are not floored at zero.
ScoreProtocolsUnclamped(versions) ==
  (IF "TLS1.3" \in versions THEN 25 ELSE Points(10, "TLS1.2" \in versions))
    - Points(5, "TLS1.1" \in versions) - Points(10, "TLS1.0" \in versions)

ScoreProtocols(versions) ==
  Clamp(0, (IF "TLS1.3" \in versions THEN 25 ELSE Points(10, "TLS1.2" \in versions))
             - Points(5, "TLS1.1" \in versions) - Points(10, "TLS1.0" \in versions), 25)

\* Mutant: the best suite decides, not the worst.
ScoreCiphersByBest(suites) ==
  IF suites = {} \/ \A s \in suites : Deprecated(s) THEN 0
  ELSE Clamp(0, 25 - Points(10, \A s \in suites : ~ForwardSecrecy(s))
                   - Points(5, \A s \in suites : Bits(s) < 256), 25)

\* The weakest accepted suite decides; a deprecated one forfeits everything.
ScoreCiphers(suites) ==
  IF suites = {} \/ \E s \in suites : Deprecated(s) THEN 0
  ELSE Clamp(0, 25 - Points(10, \E s \in suites : ~ForwardSecrecy(s))
                   - Points(10, \E s \in suites : Bits(s) > 0 /\ Bits(s) < 128)
                   - Points(5, \A s \in suites : Bits(s) < 256), 25)

\* Mutant: only one end of the validity window is looked at.
RefusedUnlessEarly(c) == Expired(c) \/ c.name = "failed" \/ c.chain = "failed"

\* Every client refuses it outright.
Refused(c) == Expired(c) \/ c.notYetValid \/ c.name = "failed" \/ c.chain = "failed"

ScoreCertificate(c) ==
  IF c = NoCertificate THEN 0
  ELSE IF Refused(c) THEN 0
  ELSE Clamp(0, 15 + Points(5, DaysUntilExpiry(c) > 30)
                   + (IF c.key = "RSA" THEN Points(3, c.bits >= 2048) + Points(2, c.bits >= 4096)
                                       ELSE Points(5, c.key = "ECDSA"))
                   + Points(5, c.sig \in {"SHA256", "SHA384"}) - Points(10, c.sig \in {"SHA1", "MD5"})
                   - Points(5, c.selfSigned), 25)

Severities == {"CRITICAL", "HIGH", "MEDIUM"}
PenaltyPoints == [CRITICAL |-> 30, HIGH |-> 15, MEDIUM |-> 5]
CountOf(found, severity) == Cardinality({v \in found : v.severity = severity})

\* vulnerabilityPenalties
Penalty(found) ==
  CountOf(found, "CRITICAL") * PenaltyPoints["CRITICAL"]
    + CountOf(found, "HIGH") * PenaltyPoints["HIGH"]
    + CountOf(found, "MEDIUM") * PenaltyPoints["MEDIUM"]

TLSGradeBands ==
  << <<"A+", 95>>, <<"A", 85>>, <<"B", 75>>, <<"C", 60>>, <<"D", 40>>, <<"F", 0>> >>
QuantumGradeBands == << <<"Q+", 80>>, <<"Q", 50>>, <<"Q-", 20>>, <<"QV", 0>> >>

\* The first band the score reaches.
LetterForScore(score, bands) ==
  LET reached == {k \in DOMAIN bands : score >= bands[k][2]}
  IN  bands[CHOOSE k \in reached : \A j \in reached : k <= j][1]

Dimensions == {"protocols", "ciphers", "certificate", "quantum"}

\* The dimensions that ran.
Counted(cfg) == Dimensions \ (IF cfg.checkQuantum THEN {} ELSE {"quantum"})

\* Mutant: nothing records that a dimension was left out.
SkippedForgotten(cfg) == {}

SkippedDimensions(cfg) == IF cfg.checkQuantum THEN {} ELSE {"quantum"}

CalculateGrade(m, cfg, found, risk) ==
  LET factors == [ protocols |-> ScoreProtocols(m.versions), ciphers |-> ScoreCiphers(m.suites),
                   certificate |-> ScoreCertificate(m.cert), quantum |-> risk.score \div 4 ]
      ran(d) == Points(factors[d], d \in Counted(cfg))
      points == ran("protocols") + ran("ciphers") + ran("certificate") + ran("quantum")
      maxPoints == 25 * Cardinality(Counted(cfg))
      dimension == Clamp(0, (points * 100) \div maxPoints, 100)
      penalty == Penalty(found)
      score == Clamp(0, dimension - penalty, 100)
  IN  [ factors |-> [d \in Counted(cfg) |-> factors[d]],
        points |-> points, maxPoints |-> maxPoints, dimensionScore |-> dimension,
        penalty |-> penalty, floored |-> penalty > dimension,
        score |-> score, letter |-> LetterForScore(score, TLSGradeBands),
        skipped |-> SkippedDimensions(cfg),
        vulnerabilitiesAssessed |-> cfg.checkVulns,
        quantumGrade |-> IF cfg.checkQuantum
                           THEN LetterForScore(risk.score, QuantumGradeBands)
                           ELSE "not_assessed" ]

-----------------------------------------------------------------------------
(***************************************************************************)
(* generateRecommendations: a list of titles, in the order of the report.  *)
(***************************************************************************)
Advise(title, condition) == IF condition THEN <<title>> ELSE << >>

CertificateAdvice(c) ==
  (IF Expired(c) THEN <<"Renew_Expired_Certificate">>
   ELSE IF c.notYetValid THEN <<"Deploy_a_Certificate_That_Is_Valid_Now">>
   ELSE Advise("Renew_Certificate_Soon", DaysUntilExpiry(c) < 30))
    \o Advise("Use_Stronger_RSA_Key", c.key = "RSA" /\ c.bits < 2048)
    \o Advise("Use_SHA-256_or_Stronger_Signature", c.sig \in {"SHA1", "MD5"})

\* Mutant: a skipped assessment is read as a low score.
QuantumLowUnmeasured(cfg, risk, bound) == risk.score < bound

QuantumLow(cfg, risk, bound) == cfg.checkQuantum /\ risk.score < bound

GenerateRecommendations(m, cfg, risk) ==
  Advise("Enable_Hybrid_Post-Quantum_Key_Exchange", QuantumLow(cfg, risk, 50))
    \o Advise("Disable_TLS1.1", "TLS1.1" \in m.versions)
    \o Advise("Disable_TLS1.0", "TLS1.0" \in m.versions)
    \o Advise("Enable_TLS1.3", "TLS1.3" \notin m.versions)
    \o Advise("Remove_Deprecated_Cipher_Suites", \E s \in m.suites : Deprecated(s))
    \o Advise("Require_Forward_Secrecy", \E s \in m.suites : ~ForwardSecrecy(s))
    \o (IF m.cert = NoCertificate THEN << >>
        ELSE CertificateAdvice(m.cert)
               \o Advise("Plan_for_Post-Quantum_Certificates", QuantumLow(cfg, risk, 80)))

-----------------------------------------------------------------------------
VARIABLES
  measured, config,
  stage,     \* the last step that ran
  vulns, quantum, grade, recs    \* the fields of the result the steps fill in

vars == <<measured, config, stage, vulns, quantum, grade, recs>>

Pending == [letter |-> "none"]

Init ==
  /\ measured \in Measurements
  /\ config \in Configs
  /\ stage = "measured"
  /\ vulns = {} /\ quantum = NotAssessed /\ grade = Pending /\ recs = << >>

CheckVulnerabilities ==
  /\ stage = "measured"
  /\ stage' = "checked"
  /\ vulns' = IF config.checkVulns THEN Vulnerabilities(measured) ELSE {}
  /\ UNCHANGED <<measured, config, quantum, grade, recs>>

AssessQuantum ==
  /\ stage = "checked"
  /\ stage' = "assessed"
  /\ quantum' = IF config.checkQuantum THEN AssessQuantumRisk(measured) ELSE NotAssessed
  /\ UNCHANGED <<measured, config, vulns, grade, recs>>

GradeResult ==
  /\ stage = "assessed"
  /\ stage' = "graded"
  /\ grade' = CalculateGrade(measured, config, vulns, quantum)
  /\ UNCHANGED <<measured, config, vulns, quantum, recs>>

Recommend ==
  /\ stage = "graded"
  /\ stage' = "returned"
  /\ recs' = GenerateRecommendations(measured, config, quantum)
  /\ UNCHANGED <<measured, config, vulns, quantum, grade>>

Next ==
  \/ CheckVulnerabilities \/ AssessQuantum \/ GradeResult \/ Recommend
  \/ stage = "returned" /\ UNCHANGED vars

Spec == Init /\ [][Next]_vars

-----------------------------------------------------------------------------
(***************************************************************************)
(* Properties.                                                             *)
(***************************************************************************)
FindingId ==
  { "TLS10_ENABLED", "TLS11_ENABLED", "NO_TLS13", "DEPRECATED_CIPHER", "NO_PFS", "WEAK_CIPHER",
    "CERT_EXPIRED", "CERT_NOT_YET_VALID", "CERT_EXPIRING", "CERT_SELF_SIGNED",
    "CERT_CHAIN_UNTRUSTED", "CERT_NAME_MISMATCH", "CERT_WEAK_SIG", "CERT_WEAK_KEY" }

Subject == {<< >>} \cup {<<s.kx, s.cipher>> : s \in Suite} \cup {<<result>> : result \in Check}

Finding == [ id : FindingId, subject : Subject, severity : Severities ]

Title ==
  { "Enable_Hybrid_Post-Quantum_Key_Exchange", "Disable_TLS1.1", "Disable_TLS1.0",
    "Enable_TLS1.3", "Remove_Deprecated_Cipher_Suites", "Require_Forward_Secrecy",
    "Renew_Expired_Certificate", "Deploy_a_Certificate_That_Is_Valid_Now",
    "Renew_Certificate_Soon", "Use_Stronger_RSA_Key", "Use_SHA-256_or_Stronger_Signature",
    "Plan_for_Post-Quantum_Certificates" }

TypeOK ==
  /\ measured \in Measurements /\ config \in Configs
  /\ stage \in {"measured", "checked", "assessed", "graded", "returned"}
  /\ vulns \subseteq Finding
  /\ quantum.score \in 0..100
  /\ stage \in {"graded", "returned"} =>
       /\ grade.score \in 0..100 /\ grade.dimensionScore \in 0..100 /\ grade.penalty \in Nat
       /\ \A d \in DOMAIN grade.factors : grade.factors[d] \in 0..25
       /\ \E k \in DOMAIN TLSGradeBands : grade.letter = TLSGradeBands[k][1]
  /\ recs \in Seq(Title)

Judged == stage = "returned"
HasCertificate == measured.cert # NoCertificate
FoundIds == {v.id : v \in vulns}
Advised == {recs[k] : k \in DOMAIN recs}

\* The score of another server, or of this one under other flags, by the same
\* program.
Score(m, cfg) ==
  CalculateGrade(m, cfg, IF cfg.checkVulns THEN Vulnerabilities(m) ELSE {},
                 IF cfg.checkQuantum THEN AssessQuantumRisk(m) ELSE NotAssessed).score

\* A certificate cannot improve its score by how it describes itself: with the
\* verification result unchanged, naming itself as its issuer never raises the
\* score, and changes nothing about the penalty of a chain that failed
\* (vulnerabilities.go:190-196).
SelfDescriptionBuysNothing ==
  Judged /\ HasCertificate =>
    LET renamed(self) == [measured EXCEPT !.cert.selfSigned = self]
    IN  /\ Score(renamed(TRUE), config) <= Score(renamed(FALSE), config)
        /\ measured.cert.chain = "failed" =>
             Score(renamed(TRUE), config) = Score(renamed(FALSE), config)

\* A certificate that a verifying client refuses, for either end of its window,
\* its name or its chain, earns nothing; unless the checks were skipped it has
\* a serious finding of its own; and repairing it never lowers the score
\* (grade.go:317-331).
RefusedByClients(c) ==
  c.hours < 0 \/ c.notYetValid \/ "failed" \in {c.name, c.chain}

Repaired(c) ==
  [c EXCEPT !.hours = 2000, !.notYetValid = FALSE, !.name = "passed", !.chain = "passed"]

RefusedCertificateIsExposed ==
  Judged /\ HasCertificate /\ RefusedByClients(measured.cert) =>
    /\ grade.factors["certificate"] = 0
    /\ config.checkVulns =>
         \E v \in CertificateFindings(measured.cert) \cap vulns : v.severity \in {"CRITICAL", "HIGH"}
    /\ Score([measured EXCEPT !.cert = Repaired(@)], config) >= grade.score

\* A server cannot gain by becoming weaker: accepting a deprecated version, or
\* one more suite that is deprecated, or has no forward secrecy and no more bits
\* than another, never raises its score under the same flags (grade.go:240, "an
\* attacker who can influence negotiation will steer it toward the weakest
\* suite").
Weaker(s, suites) ==
  Deprecated(s) \/ (~ForwardSecrecy(s) /\ \E y \in suites : Bits(y) >= Bits(s))

WeakerNeverHelps ==
  Judged =>
    /\ \A v \in {"TLS1.0", "TLS1.1"} :
         Score([measured EXCEPT !.versions = @ \cup {v}], config) <= grade.score
    /\ measured.suites # {} =>
         \A s \in {x \in Suite : Weaker(x, measured.suites)} :
           Score([measured EXCEPT !.suites = @ \cup {s}], config) <= grade.score

\* Declining a check is never presented as an improvement: a score that differs
\* from the full scan's of the same server carries the mark that says so, and
\* one that skipped only the vulnerability checks is an upper bound on it
\* (result.go:327-333).
SkippedChecksAreDisclosed ==
  Judged =>
    LET full == Score(measured, [checkVulns |-> TRUE, checkQuantum |-> TRUE])
    IN  /\ grade.score # full => ~grade.vulnerabilitiesAssessed \/ grade.skipped # {}
        /\ grade.skipped = {} => grade.score >= full
        /\ ~config.checkQuantum => grade.skipped # {} /\ grade.quantumGrade = "not_assessed"

\* The five places that speak of quantum readiness (the score, the key exchange
\* risk, the harvest-now-decrypt-later risk, the time to action and the advice)
\* tell one story, and none of them speaks when it was not assessed
\* (quantum.go:270, "never told to go and implement hybrid key exchange";
\* recommendations.go:13-19).
QuantumSectionsAgree ==
  Judged =>
    LET told == "Enable_Hybrid_Post-Quantum_Key_Exchange" \in Advised
    IN  IF ~config.checkQuantum
          THEN /\ ~told /\ "Plan_for_Post-Quantum_Certificates" \notin Advised
               /\ "quantum" \notin DOMAIN grade.factors
          ELSE /\ told <=> ~HasHybrid(measured)
               /\ quantum.keyExchangeRisk = "LOW" <=> ~told
               /\ quantum.hndlRisk = "LOW" <=> ~told
               /\ quantum.action = "MONITORING" <=> ~told
               /\ grade.quantumGrade \in {"Q+", "Q"} <=> ~told

\* The findings and the advice are computed apart and must agree on every
\* condition both know.  A certificate has exactly one finding about its window,
\* down to its last hours, and one about its chain; only one that ends before it
\* begins is told of both ends, and advised of the first
\* (vulnerabilities.go:134-149, 173; recommendations.go:120-129).
SameSubject ==
  { <<"TLS10_ENABLED", "Disable_TLS1.0">>, <<"TLS11_ENABLED", "Disable_TLS1.1">>,
    <<"NO_TLS13", "Enable_TLS1.3">>, <<"NO_PFS", "Require_Forward_Secrecy">>,
    <<"DEPRECATED_CIPHER", "Remove_Deprecated_Cipher_Suites">>,
    <<"CERT_EXPIRED", "Renew_Expired_Certificate">>,
    <<"CERT_NOT_YET_VALID", "Deploy_a_Certificate_That_Is_Valid_Now">>,
    <<"CERT_EXPIRING", "Renew_Certificate_Soon">>,
    <<"CERT_WEAK_SIG", "Use_SHA-256_or_Stronger_Signature">>,
    <<"CERT_WEAK_KEY", "Use_Stronger_RSA_Key">> }

WindowIds == {"CERT_EXPIRED", "CERT_NOT_YET_VALID", "CERT_EXPIRING"}
ChainIds == {"CERT_SELF_SIGNED", "CERT_CHAIN_UNTRUSTED"}
NeverValid(c) == c.hours < 0 /\ c.notYetValid

FindingsAndAdviceAgree ==
  Judged /\ config.checkVulns =>
    LET unsaid == IF HasCertificate /\ NeverValid(measured.cert)
                    THEN {"Deploy_a_Certificate_That_Is_Valid_Now"} ELSE {}
        chain == {v \in vulns : v.id \in ChainIds}
    IN  /\ \A pair \in SameSubject : pair[1] \in FoundIds <=> pair[2] \in Advised \cup unsaid
        /\ HasCertificate =>
             /\ Cardinality(FoundIds \cap WindowIds) =
                  IF NeverValid(measured.cert) THEN 2
                  ELSE IF measured.cert.hours < 720 \/ measured.cert.notYetValid THEN 1 ELSE 0
             /\ Cardinality(chain) <= 1
             /\ measured.cert.chain = "failed" \/ measured.cert.selfSigned <=> chain # {}
             /\ \A v \in chain : v.subject = <<measured.cert.chain>>

\* "disabling TLS 1.2 does not cost points" (README.md:370), for a server that
\* also has TLS 1.3: without TLS 1.2 the enumeration of the older suites finds
\* nothing.
WithoutTLS12(m) ==
  [m EXCEPT !.versions = @ \ {"TLS1.2"}, !.suites = {s \in @ : s.kx = "any"}]

DisablingTLS12CostsNothing ==
  Judged /\ measured.versions = {"TLS1.3", "TLS1.2"} =>
    Score(WithoutTLS12(measured), config) >= grade.score
=============================================================================
