----------------------------- MODULE PolicyGate -----------------------------
(***************************************************************************)
(* PolicyEvaluator.Evaluate, run by the command on the result that Scan    *)
(* returned (module Assessment), and the verdict policyOutcome reads from  *)
(* it: the value that module Sweep draws at random for every target.       *)
(***************************************************************************)
EXTENDS Assessment

CONSTANT Policies    \* the policies to judge by, as LoadPolicy lets them through

\* protocolVersionOrder: SSL 3.0 ranks 0, and SSL 2.0, which is not in the map,
\* reads as 0; both are below what a scan can see.
Rank(v) ==
  IF v = "TLS1.3" THEN 4 ELSE IF v = "TLS1.2" THEN 3
  ELSE IF v = "TLS1.1" THEN 2 ELSE IF v = "TLS1.0" THEN 1 ELSE 0
Unprobeable == {"SSL2.0", "SSL3.0"}
Nameable == VersionNames \cup Unprobeable

\* The empty string.
Unset == "unset"
Algorithms == {"3DES", "RC4", "CBC", "SHA1", "MD5"}
Signatures == {"SHA256", "SHA384", "SHA1", "MD5", "ML-DSA"}

\* A key exchange can be named by its group or by its post-quantum half.
KeyExchangeName == Group \cup {PQCAlgorithm[g] : g \in HybridGroups}
NamesOf(groups) == groups \cup {PQCAlgorithm[g] : g \in groups \cap HybridGroups}

\* A field at its zero value is a rule that is not there; allowSelfSigned is
\* the one rule whose zero value restricts.
Policy ==
  [ minVersion : Nameable \cup {Unset}, maxVersion : Nameable \cup {Unset},
    requiredVersions : SUBSET Nameable, bannedVersions : SUBSET Nameable,
    minKeySize : Nat, requireForwardSecrecy : BOOLEAN,
    requiredKeyExchange : SUBSET KeyExchangeName, bannedAlgorithms : SUBSET Algorithms,
    allowedCipherSuites : SUBSET Suite, bannedCipherSuites : SUBSET Suite,
    minValidityDays : Nat, maxValidityDays : Nat, minRsaKeySize : Nat, minEccKeySize : Nat,
    requiredSignatures : SUBSET Signatures, bannedSignatures : SUBSET Signatures,
    requireCt : BOOLEAN, allowSelfSigned : BOOLEAN,
    requireHybrid : BOOLEAN, minQuantumScore : Nat,
    requiredKeyExchangeAlgorithms : SUBSET KeyExchangeName, requirePqcCertificates : BOOLEAN ]

NoRules ==
  [ minVersion |-> Unset, maxVersion |-> Unset, requiredVersions |-> {}, bannedVersions |-> {},
    minKeySize |-> 0, requireForwardSecrecy |-> FALSE, requiredKeyExchange |-> {},
    bannedAlgorithms |-> {}, allowedCipherSuites |-> {}, bannedCipherSuites |-> {},
    minValidityDays |-> 0, maxValidityDays |-> 0, minRsaKeySize |-> 0, minEccKeySize |-> 0,
    requiredSignatures |-> {}, bannedSignatures |-> {}, requireCt |-> FALSE,
    allowSelfSigned |-> FALSE, requireHybrid |-> FALSE, minQuantumScore |-> 0,
    requiredKeyExchangeAlgorithms |-> {}, requirePqcCertificates |-> FALSE ]

Deadline(minVersion, minRsa, score) ==
  [NoRules EXCEPT !.minVersion = minVersion, !.requiredVersions = {"TLS1.3"}, !.minKeySize = 256,
     !.requireForwardSecrecy = TRUE, !.minValidityDays = 30, !.minRsaKeySize = minRsa,
     !.minEccKeySize = 384, !.requireHybrid = TRUE, !.minQuantumScore = score,
     !.requiredKeyExchangeAlgorithms = {"ML-KEM-768", "ML-KEM-1024"}]

DeadlineGroups == {"X25519MLKEM768", "SecP384r1MLKEM1024"}

DefaultPolicies ==
  [ modern |-> [NoRules EXCEPT !.minVersion = "TLS1.2", !.bannedVersions = {"TLS1.0", "TLS1.1"},
      !.minKeySize = 128, !.requireForwardSecrecy = TRUE, !.bannedAlgorithms = {"3DES", "RC4", "SHA1", "MD5"},
      !.minValidityDays = 30, !.minRsaKeySize = 2048, !.minEccKeySize = 256,
      !.bannedSignatures = {"SHA1", "MD5"}],
    strict |-> [NoRules EXCEPT !.minVersion = "TLS1.3", !.requiredVersions = {"TLS1.3"},
      !.bannedVersions = VersionNames \ {"TLS1.3"}, !.minKeySize = 256,
      !.requireForwardSecrecy = TRUE, !.bannedAlgorithms = Algorithms,
      !.minValidityDays = 30, !.minRsaKeySize = 4096, !.minEccKeySize = 384,
      !.bannedSignatures = {"SHA1", "MD5", "SHA256"}],
    cnsa2027 |-> [Deadline("TLS1.2", 3072, 50) EXCEPT !.requiredKeyExchange = DeadlineGroups],
    cnsa2030 |-> [Deadline("TLS1.3", 3072, 70) EXCEPT !.requiredKeyExchange = DeadlineGroups,
      !.bannedVersions = VersionNames \ {"TLS1.3"}],
    cnsa2035 |-> [Deadline("TLS1.3", 4096, 90) EXCEPT !.requiredSignatures = {"ML-DSA"},
      !.requirePqcCertificates = TRUE] ]

BuiltIn == {DefaultPolicies[name] : name \in DOMAIN DefaultPolicies}

ASSUME PolicyAssumption == Policies \subseteq Policy

-----------------------------------------------------------------------------
\* One entry of the report for each thing in S that offends against the rule.
Entries(rule, severity, S) == {[rule |-> rule, about |-> x, severity |-> severity] : x \in S}
Entry(rule, severity, broken) == Entries(rule, severity, IF broken THEN {<< >>} ELSE {})

\* Mutant: the minimum is a question about what the server can reach.
FloorAsCapability(p, versions) ==
  Entry("protocol.minVersion", "HIGH",
        p.minVersion # Unset /\ \A v \in versions : Rank(v) < Rank(p.minVersion))

\* The minimum is met by one version and undercut by none.
Floor(p, versions) ==
  IF p.minVersion = Unset THEN {}
  ELSE Entry("protocol.minVersion", "HIGH", \A v \in versions : Rank(v) < Rank(p.minVersion))
         \cup Entries("protocol.minVersion", "HIGH",
                      {<<v>> : v \in {w \in versions : Rank(w) < Rank(p.minVersion)}})

ProtocolViolations(p, versions) ==
  Floor(p, versions)
    \cup Entries("protocol.bannedVersions", "HIGH",
                 {<<v>> : v \in (p.bannedVersions \ Unprobeable) \cap versions})
    \cup Entries("protocol.maxVersion", "MEDIUM",
                 {<<v>> : v \in {w \in versions : p.maxVersion # Unset /\ Rank(w) > Rank(p.maxVersion)}})
    \cup Entries("protocol.requiredVersions", "HIGH",
                 {<<v>> : v \in (p.requiredVersions \ Unprobeable) \ versions})

\* The banned names that a suite's name or components contain.
Contains(s) ==
  IF s.cipher = "3DES" THEN {"3DES", "CBC", "SHA1"}
  ELSE IF s.cipher = "RC4" THEN {"RC4", "SHA1"} ELSE {}

SuiteViolations(p, s) ==
  LET about == <<s.kx, s.cipher>>
      named(rule, broken) == Entries(rule, "HIGH", IF broken THEN {about} ELSE {})
  IN  named("cipher.minKeySize", p.minKeySize > 0 /\ Bits(s) < p.minKeySize)
        \cup named("cipher.requireForwardSecrecy", p.requireForwardSecrecy /\ ~ForwardSecrecy(s))
        \cup Entries("cipher.bannedAlgorithms", "HIGH",
                     {about \o <<a>> : a \in p.bannedAlgorithms \cap Contains(s)})
        \cup named("cipher.bannedCipherSuites", s \in p.bannedCipherSuites)
        \cup named("cipher.allowedCipherSuites",
                   p.allowedCipherSuites # {} /\ s \notin p.allowedCipherSuites)

CipherViolations(p, m) ==
  (UNION {SuiteViolations(p, s) : s \in m.suites})
    \cup Entry("cipher.requiredKeyExchange", "CRITICAL",
               p.requiredKeyExchange # {} /\ p.requiredKeyExchange \cap NamesOf(m.groups) = {})

\* Mutant: sizes are matched, not compared.
KeyIsAnother(bits, least) == least > 0 /\ bits # least

KeyTooSmall(bits, least) == least > 0 /\ bits < least

\* Mutant: no certificate, nothing to object to.
NothingToObjectTo(p) == {}

MissingCertificate(p) == Entry("certificate", "CRITICAL", TRUE)

CertificateViolations(p, c) ==
  IF c = NoCertificate THEN MissingCertificate(p)
  ELSE Entry("certificate.nameMatch", "CRITICAL", c.name = "failed")
         \cup Entry("certificate.chainTrust", "CRITICAL", c.chain = "failed")
         \cup Entry("certificate.validity", "CRITICAL", Expired(c) \/ c.notYetValid)
         \cup Entry("certificate.minRsaKeySize", "HIGH", c.key = "RSA" /\ KeyTooSmall(c.bits, p.minRsaKeySize))
         \cup Entry("certificate.minEccKeySize", "HIGH", c.key = "ECDSA" /\ KeyTooSmall(c.bits, p.minEccKeySize))
         \cup Entry("certificate.maxValidityDays", "MEDIUM",
                    p.maxValidityDays > 0 /\ c.lifetime > p.maxValidityDays)
         \cup Entry("certificate.requiredSignatureAlgorithms", "HIGH",
                    p.requiredSignatures # {} /\ c.sig \notin p.requiredSignatures)
         \cup Entry("certificate.bannedSignatureAlgorithms", "HIGH", c.sig \in p.bannedSignatures)
         \cup Entry("certificate.allowSelfSigned", "MEDIUM",
                    ~p.allowSelfSigned /\ c.selfSigned /\ ~c.isCA)

QuantumViolations(p, m, risk) ==
  Entry("quantum.requireHybridKeyExchange", "CRITICAL", p.requireHybrid /\ ~HasHybrid(m))
    \cup Entry("quantum.requiredKeyExchangeAlgorithms", "CRITICAL",
              /\ p.requiredKeyExchangeAlgorithms # {}
              /\ p.requiredKeyExchangeAlgorithms \cap NamesOf(m.groups) = {})
    \cup Entry("quantum.minQuantumScore", "HIGH", risk.assessed /\ risk.score < p.minQuantumScore)

\* Advisory by design: a short remaining life, and a classical certificate.
PolicyWarnings(p, m) ==
  LET c == m.cert
  IN  Entry("certificate.minValidityDays", "MEDIUM",
            /\ c # NoCertificate
            /\ ~Expired(c) /\ ~c.notYetValid
            /\ p.minValidityDays > 0 /\ DaysUntilExpiry(c) < p.minValidityDays)
        \cup Entry("quantum.requirePqcCertificates", "MEDIUM", p.requirePqcCertificates)

\* Mutant: a score that was not measured is nothing to complain about.
QuantumUnmeasuredPasses(p, risk) == {}

QuantumSkipped(p, risk) ==
  IF p.minQuantumScore > 0 /\ ~risk.assessed THEN {<<"quantum.minQuantumScore">>} ELSE {}

\* The two checks of a certificate that may not have run.
ChecksSkipped(c) ==
  {<<rule>> : rule \in {r \in {"certificate.nameMatch", "certificate.chainTrust"} :
                          "notPerformed" = IF r = "certificate.nameMatch" THEN c.name ELSE c.chain}}

\* What the scan holds no evidence about, neither passed nor failed.
SkippedRules(p, m, risk) ==
  {<<"protocol.bannedVersions", v>> : v \in p.bannedVersions \cap Unprobeable}
    \cup {<<"protocol.requiredVersions", v>> : v \in p.requiredVersions \cap Unprobeable}
    \cup QuantumSkipped(p, risk)
    \cup (IF m.cert = NoCertificate THEN {}
          ELSE ChecksSkipped(m.cert)
                 \cup (IF p.requireCt THEN {<<"certificate.requireCt">>} ELSE {}))

\* calculateScore
PolicyScore(violations, warnings) ==
  LET left == 100 - Penalty(violations) - 2 * Cardinality(warnings)
  IN  IF left < 0 THEN 0 ELSE left

Evaluate(p, m, risk) ==
  LET violations == ProtocolViolations(p, m.versions) \cup CipherViolations(p, m)
                      \cup CertificateViolations(p, m.cert) \cup QuantumViolations(p, m, risk)
      warnings == PolicyWarnings(p, m)
      skipped == SkippedRules(p, m, risk)
  IN  [ violations |-> violations, warnings |-> warnings, skipped |-> skipped,
        compliant |-> violations = {}, complete |-> skipped = {},
        score |-> PolicyScore(violations, warnings) ]

\* policyOutcome, for one target.
VerdictOf(pr) ==
  IF ~pr.compliant THEN "violated" ELSE IF ~pr.complete THEN "incomplete" ELSE "compliant"

-----------------------------------------------------------------------------
VARIABLES policy, policyResult, verdict

gateVars == <<vars, policy, policyResult, verdict>>

NotEvaluated == [score |-> -1]

GateInit ==
  /\ Init
  /\ policy \in Policies
  /\ policyResult = NotEvaluated
  /\ verdict = "unjudged"

Scanning ==
  /\ CheckVulnerabilities \/ AssessQuantum \/ GradeResult \/ Recommend
  /\ UNCHANGED <<policy, policyResult, verdict>>

EvaluatePolicy ==
  /\ stage = "returned" /\ policyResult = NotEvaluated
  /\ policyResult' = Evaluate(policy, measured, quantum)
  /\ UNCHANGED <<vars, policy, verdict>>

PolicyOutcome ==
  /\ policyResult # NotEvaluated /\ verdict = "unjudged"
  /\ verdict' = VerdictOf(policyResult)
  /\ UNCHANGED <<vars, policy, policyResult>>

GateNext ==
  \/ Scanning \/ EvaluatePolicy \/ PolicyOutcome
  \/ verdict # "unjudged" /\ UNCHANGED gateVars

GateSpec == GateInit /\ [][GateNext]_gateVars

-----------------------------------------------------------------------------
(***************************************************************************)
(* Properties.                                                             *)
(***************************************************************************)
Passed == verdict = "compliant"

\* The verdict of the gate on another measurement of the policy.
Judgement(p, m, cfg) ==
  VerdictOf(Evaluate(p, m, IF cfg.checkQuantum THEN AssessQuantumRisk(m) ELSE NotAssessed))

\* A gate never passes over the vulnerability report of the same scan: a host
\* that satisfies any built-in policy has no serious finding, except for the
\* digest of a self-signed certificate, whose signature nobody verifies
\* (policy.go:1020-1027, "COMPLIANT 100/100 ... in the same report that ...
\* raised a HIGH finding").
GateAgreesWithFindings ==
  Passed /\ policy \in BuiltIn =>
    \A v \in Vulnerabilities(measured) :
      \/ v.severity \notin {"CRITICAL", "HIGH"}
      \/ v.id = "CERT_WEAK_SIG" /\ measured.cert.selfSigned

\* Declining a check never opens the gate: whatever passes with --skip-quantum
\* passes the full scan too (policy.go:1570, "reading that zero as a
\* measurement"; main.go:105-108).
SkippingOpensNoGate ==
  Passed => Judgement(policy, measured, [config EXCEPT !.checkQuantum = TRUE]) = "compliant"

\* No policy, however it is written, passes a scan that looked at nothing: the
\* gate opens only on a certificate that any verifying client would accept, and
\* with at least one suite measured.
NoVacuousPass ==
  Passed =>
    /\ HasCertificate /\ measured.suites # {}
    /\ ~RefusedByClients(measured.cert)
    /\ measured.cert.name = "passed" /\ measured.cert.chain = "passed"

\* strict is what its name says: whatever passes it passes modern, though the
\* two tables are written out independently (pkg/types/policy.go:182, 211).
StrictImpliesModern ==
  Passed /\ policy = DefaultPolicies.strict =>
    Judgement(DefaultPolicies.modern, measured, config) = "compliant"

\* docs/cnsa-2.0-compliance.md:80-84, "Evaluate Against 2030 Requirements ...
\* This checks: TLS 1.3 is required; hybrid PQC key exchange is mandatory;
\* RSA/ECDH without PQC is rejected; all deprecated algorithms are banned": a
\* server that does all of it, fully scanned, with AES-256 and a good
\* certificate, passes.
DocumentedChecksSuffice ==
  verdict # "unjudged" /\ policy = DefaultPolicies.cnsa2030 /\ config.checkQuantum
    /\ measured.versions = {"TLS1.3"}
    /\ "X25519MLKEM768" \in measured.groups
    /\ measured.suites # {} /\ (\A s \in measured.suites : Bits(s) = 256)
    /\ HasCertificate /\ measured.cert.key = "RSA" /\ measured.cert.bits >= 4096
    /\ measured.cert.sig = "SHA256" /\ ~measured.cert.selfSigned
    /\ ~RefusedByClients(measured.cert) =>
  Passed
=============================================================================
