------------------------------ MODULE Reports -------------------------------
(***************************************************************************)
(* The reporters: what the text, HTML, SARIF and CBOM documents of one     *)
(* result claim.  The command writes the one that --format names, after    *)
(* the policy was evaluated and before its outcome is returned; here every *)
(* format is written in that place, to be compared.  A claim is what a     *)
(* reader or a program downstream can take from the document; wording and  *)
(* layout are left out.  JSON is the result itself.                        *)
(***************************************************************************)
EXTENDS CNSA2

VARIABLE report

NotWritten == [text |-> "none"]

\* Scan gave up: there was no handshake.  The sweep puts the error on a result
\* and reports it; a run over one target ends without a report.
NothingMeasured == measured.versions = {} /\ ~HasCertificate /\ measured.groups = {}

\* targetWasNeverReached
NeverReached == stage = "unreached"

-----------------------------------------------------------------------------
(***************************************************************************)
(* TextReporter.                                                           *)
(***************************************************************************)
\* printGrade: what stands beside the number.
Basis ==
  (IF grade.skipped # {} THEN {"not_comparable"} ELSE {})
    \cup (IF grade.vulnerabilitiesAssessed THEN {}
          ELSE IF grade.skipped # {} THEN {"checks_skipped"} ELSE {"upper_bound"})

\* Mutant: only the dates decide how the certificate is headed.
StatusByDates(c) ==
  IF Expired(c) THEN "expired" ELSE IF c.notYetValid THEN "not_yet_valid"
  ELSE IF DaysUntilExpiry(c) < 30 THEN "expiring" ELSE "valid"

\* printCertificate: the first that applies.
CertificateStatus(c) ==
  IF Expired(c) THEN "expired"
  ELSE IF c.notYetValid THEN "not_yet_valid"
  ELSE IF c.name = "failed" THEN "not_valid_for_this_name"
  ELSE IF c.chain = "failed" THEN "not_trusted"
  ELSE IF DaysUntilExpiry(c) < 30 THEN "expiring" ELSE "valid"

\* printPolicyResult
PolicyStatus(pr) ==
  [heading |-> IF pr.compliant THEN "compliant" ELSE "non-compliant", comparable |-> pr.complete]

Glyph(status) == IF status = "compliant" THEN "met" ELSE status

Text ==
  IF NeverReached THEN [scanned |-> FALSE]
  ELSE [ scanned |-> TRUE, score |-> grade.score, basis |-> Basis, findings |-> vulns,
         \* the section is there unless the letter says that it was not assessed
         quantum |-> IF grade.quantumGrade = "not_assessed" THEN {} ELSE {quantum},
         certificate |-> IF HasCertificate THEN {CertificateStatus(measured.cert)} ELSE {},
         \* printRecommendations numbers by position
         advice |-> [k \in DOMAIN recs |-> <<k, recs[k]>>], policy |-> PolicyStatus(policyResult),
         milestones |-> IF timeline = NoTimeline THEN << >>
                        ELSE [n \in 1..5 |-> Glyph(timeline.milestones[n].status)] ]

-----------------------------------------------------------------------------
(***************************************************************************)
(* HTMLReporter.                                                           *)
(***************************************************************************)
Urgent == {"Renew_Expired_Certificate", "Deploy_a_Certificate_That_Is_Valid_Now"}

\* Priority in generateRecommendations: 1 for a certificate that is refused for
\* its dates, which does not move the counter on.
Priority(k) ==
  IF recs[k] \in Urgent THEN 1 ELSE k - Cardinality({j \in 1..(k - 1) : recs[j] \in Urgent})

\* reportUnreached has a template of its own.
Html ==
  IF NeverReached THEN [scanned |-> FALSE]
  ELSE [ scanned |-> TRUE, score |-> grade.score, findings |-> vulns,
         quantum |-> IF quantum.assessed THEN {quantum} ELSE {},
         penalty |-> IF grade.vulnerabilitiesAssessed THEN "measured" ELSE "not_measured",
         advice |-> [k \in DOMAIN recs |-> <<Priority(k), recs[k]>>] ]

-----------------------------------------------------------------------------
(***************************************************************************)
(* SARIFReporter.                                                          *)
(***************************************************************************)
SeverityToSARIF(severity) ==
  IF severity \in {"CRITICAL", "HIGH"} THEN "error" ELSE IF severity = "MEDIUM" THEN "warning" ELSE "note"

\* Mutant: the zero of an assessment that did not run is under 50.
QuantumResultUnguarded == IF quantum.score < 50 THEN {"QUANTUM_VULNERABLE"} ELSE {}

QuantumResult == IF quantum.assessed /\ quantum.score < 50 THEN {"QUANTUM_VULNERABLE"} ELSE {}

Alert(rule, level) == [rule |-> rule, level |-> level]

\* buildRules: one rule for all findings of an id, with the level of one of them.
BuildRules ==
  { Alert(id, SeverityToSARIF((CHOOSE v \in vulns : v.id = id).severity)) : id \in FoundIds }
    \cup { Alert(id, "warning") : id \in QuantumResult }

BuildResults ==
  { Alert(v.id, SeverityToSARIF(v.severity)) : v \in vulns }
    \cup { Alert(id, "warning") : id \in QuantumResult }

Sarif ==
  IF NeverReached THEN [executionSuccessful |-> FALSE, rules |-> {}, results |-> {}]
  ELSE [executionSuccessful |-> TRUE, rules |-> BuildRules, results |-> BuildResults]

-----------------------------------------------------------------------------
(***************************************************************************)
(* CBOMReporter.                                                           *)
(***************************************************************************)
CertificateValidityContext(c) ==
  IF Expired(c) /\ c.notYetValid THEN "never_valid"
  ELSE IF Expired(c) THEN "expired" ELSE IF c.notYetValid THEN "not_yet_valid" ELSE "expires_in"

Component(type, name, quantumLevel) == [type |-> type, name |-> name, quantumLevel |-> quantumLevel]

\* generateCBOM: only a hybrid group has a quantum level.
Components ==
  { Component("protocol", <<v>>, 0) : v \in measured.versions }
    \cup { Component("cipher", <<s.kx, s.cipher>>, 0) : s \in measured.suites }
    \cup { Component("kex", <<g>>, IF g \in HybridGroups THEN 3 ELSE 0) : g \in measured.groups }
    \cup (IF HasCertificate
            THEN { Component("certificate", <<CertificateValidityContext(measured.cert)>>, 0),
                   Component("public-key", <<measured.cert.key>>, 0) }
            ELSE {})

Cbom ==
  IF NeverReached THEN [targetReached |-> FALSE, services |-> 0, components |-> {}]
  ELSE [targetReached |-> TRUE, services |-> 1, components |-> Components]

-----------------------------------------------------------------------------
ReportsInit == CNSAInit /\ report = NotWritten

\* The error of Scan, on a result of its own.
ScanFails ==
  /\ probe = "verified" /\ stage = "measured" /\ NothingMeasured
  /\ stage' = "unreached"
  /\ UNCHANGED <<measured, config, vulns, quantum, grade, recs>>
  /\ UNCHANGED <<policy, policyResult, verdict, chainVars, timeline, report>>

WriteReport ==
  /\ report = NotWritten
  /\ NeverReached \/ policyResult # NotEvaluated
  /\ report' = [text |-> Text, html |-> Html, sarif |-> Sarif, cbom |-> Cbom]
  /\ UNCHANGED cnsaVars

\* The result is written before the gate is asked.
ReportsNext ==
  \/ ScanFails \/ WriteReport
  \/ /\ probe = "verified" /\ stage = "measured" => ~NothingMeasured
     /\ policyResult # NotEvaluated => report # NotWritten
     /\ ~NeverReached
     /\ CNSANext /\ UNCHANGED report
  \/ NeverReached /\ report # NotWritten /\ UNCHANGED <<cnsaVars, report>>

ReportsSpec == ReportsInit /\ [][ReportsNext]_<<cnsaVars, report>>

-----------------------------------------------------------------------------
(***************************************************************************)
(* Properties.                                                             *)
(***************************************************************************)
Written == report # NotWritten

\* What was not measured never reads as measured, in any format: a host that
\* was not reached is a failed run and no inventory; a quantum assessment that
\* did not run leaves no level, score, tick or alert behind; a score that a full
\* scan would not have given is marked where it is printed; and a SARIF run that
\* succeeds with nothing to show means a host with nothing to find.  SARIF alone
\* has no mark for skipped vulnerability checks (reporter.go:51-60, the
\* classification that 0.4.0 made for one renderer of four; sarif.go:100-103).
UnmeasuredNeverLooksMeasured ==
  Written =>
    LET text == report.text
        html == report.html
        sarif == report.sarif
        full == Score(measured, [checkVulns |-> TRUE, checkQuantum |-> TRUE])
    IN  IF NothingMeasured
          THEN /\ ~text.scanned /\ ~html.scanned /\ ~sarif.executionSuccessful /\ ~report.cbom.targetReached
               /\ sarif.results = {} /\ report.cbom.components = {} /\ report.cbom.services = 0
          ELSE /\ text.score # full => text.basis # {} /\ (html.quantum = {} \/ html.penalty = "not_measured")
               /\ ~config.checkQuantum =>
                    /\ text.quantum = {} /\ html.quantum = {} /\ "not_comparable" \in text.basis
                    /\ \A a \in sarif.rules \cup sarif.results : a.rule # "QUANTUM_VULNERABLE"
               /\ sarif.executionSuccessful /\ sarif.results = {} =>
                    /\ config.checkVulns => Vulnerabilities(measured) = {}
                    /\ config.checkQuantum => HasHybrid(measured)
               /\ report.cbom.components # {}

\* A reader of one document and a reader of another come to the same conclusion
\* about one host.  A certificate that the text heads as good has no finding
\* against its dates, name or chain in SARIF, and the CBOM describes its dates
\* alike; every alert has a rule of its own level; the quantum section, the
\* milestone and the inventory agree; the text says COMPLIANT without a
\* reservation just when the gate lets it pass; and advice has one number, save
\* that the dates of a refused certificate come first in HTML (text.go:462,
\* "must not be headed Valid"; cbom.go:352-356, "cannot describe one certificate
\* two ways"; sarif.go:231, "a rule with no result and a result with no rule").
Refusals == {"CERT_EXPIRED", "CERT_NOT_YET_VALID", "CERT_NAME_MISMATCH", "CERT_CHAIN_UNTRUSTED"}

OneCertificate(text, alerts, components) ==
  HasCertificate =>
    LET good == text.certificate \subseteq {"valid", "expiring"}
        told == {a \in alerts : a.rule \in Refusals \/ a = Alert("CERT_SELF_SIGNED", "error")}
        dates == {x.name[1] : x \in {y \in components : y.type = "certificate"}}
    IN  /\ config.checkVulns => (good <=> told = {})
        /\ good => dates = {"expires_in"}
        /\ ~good => grade.factors["certificate"] = 0
        /\ "expired" \in text.certificate => dates \subseteq {"expired", "never_valid"}
        /\ "not_yet_valid" \in text.certificate => dates = {"not_yet_valid"}
        /\ config.checkVulns /\ "expiring" \in text.certificate => "CERT_EXPIRING" \in FoundIds

OneQuantumVerdict(text, html, sarif, components) ==
  /\ text.quantum = html.quantum
  /\ \A q \in text.quantum :
       /\ q.hybridReady <=> \E x \in components : x.quantumLevel > 0
       /\ q.hybridReady <=> \A a \in sarif.results : a.rule # "QUANTUM_VULNERABLE"
       /\ text.milestones # << >> => (q.hybridReady <=> text.milestones[2] # "non-compliant")

OneNumbering(text, html) ==
  LET urgent == {k \in DOMAIN recs : html.advice[k] # text.advice[k]}
      numbers == {html.advice[k][1] : k \in DOMAIN recs}
  IN  IF HasCertificate /\ (Expired(measured.cert) \/ measured.cert.notYetValid)
        THEN numbers = 1..(IF Len(recs) = 1 THEN 1 ELSE Len(recs) - 1)
        ELSE urgent = {}

SurfacesAgree ==
  Written /\ ~NeverReached =>
    /\ OneCertificate(report.text, report.sarif.results, report.cbom.components)
    /\ OneQuantumVerdict(report.text, report.html, report.sarif, report.cbom.components)
    /\ OneNumbering(report.text, report.html)
    /\ report.sarif.rules = report.sarif.results
    /\ report.text.score = report.html.score /\ report.text.findings = report.html.findings
    /\ verdict # "unjudged" =>
         (verdict = "compliant" <=> report.text.policy = [heading |-> "compliant", comparable |-> TRUE])
=============================================================================
