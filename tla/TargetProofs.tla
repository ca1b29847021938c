---------------------------- MODULE TargetProofs ----------------------------
(***************************************************************************)
(* Proofs about one target from its connection to the verdict on it        *)
(* (ReportsSpec), for all servers, connections, policies and flags: the    *)
(* invariant of TargetInvariant, what follows from it about the            *)
(* verification of the certificate, and what the gate lets through.        *)
(***************************************************************************)
EXTENDS TargetInvariant, GateProofs

-----------------------------------------------------------------------------
(***************************************************************************)
(* The invariant.                                                          *)
(***************************************************************************)
LEMMA ReportsInitIsTargeted == ReportsInit => Targeted
<1> SUFFICES ASSUME ReportsInit
             PROVE  Targeted
  OBVIOUS
<1> USE DEF ReportsInit, CNSAInit, ChainInit, GateInit, Init
<1>1. PICK p \in Probed : measured = p.server /\ connection = p.connection
  OBVIOUS
<1>2. InOrder
  BY DEF InOrder, Judgements
<1>3. Connected
  BY <1>1, ChainAssumption DEF Connected, Leaf
<1>4. CertificateFollows /\ ChainFollows
  BY <1>1, VerifierAssumption, HandshakeAssumption DEF CertificateFollows, ChainFollows, HasCertificate
<1>5. AsJudged
  BY <1>1, ChainAssumption, AssessmentAssumption
     DEF AsJudged, FindingsFollow, QuantumFollows, GradeFollows, AdviceFollows
<1>6. PolicyFollows /\ VerdictFollows /\ TimelineFollows /\ ReportFollows
  BY DEF PolicyFollows, VerdictFollows, TimelineFollows, ReportFollows
<1> QED
  BY <1>2, <1>3, <1>4, <1>5, <1>6 DEF Targeted

\* While the certificate is verified nothing is judged yet.
LEMMA NothingJudgedBefore ==
  ASSUME Targeted, probe # "verified"
  PROVE  /\ stage = "measured" /\ policyResult = NotEvaluated /\ verdict = "unjudged"
         /\ timeline = NotAnalyzed /\ report = NotWritten
<1>1. stage = "measured"
  BY DEF Targeted, InOrder
<1>2. policyResult = NotEvaluated /\ timeline = NotAnalyzed
  BY <1>1 DEF Targeted, PolicyFollows, TimelineFollows
<1>3. verdict = "unjudged" /\ report = NotWritten
  BY <1>1, <1>2 DEF Targeted, VerdictFollows, InOrder, NeverReached
<1> QED
  BY <1>1, <1>2, <1>3

\* A step that verifies, or lets time pass, and leaves the rest alone.
LEMMA VerifyingKeepsTheRest ==
  ASSUME Targeted, Verifying, UNCHANGED <<timeline, report>>, probe # "verified",
         measured' \in Measurement, Connected', probe' \in {"connected", "parsed", "named", "verified"},
         CertificateFollows', ChainFollows'
  PROVE  Targeted'
<1>1. /\ stage = "measured" /\ policyResult = NotEvaluated /\ verdict = "unjudged"
      /\ timeline = NotAnalyzed /\ report = NotWritten
  BY NothingJudgedBefore
<1>2. UNCHANGED <<config, stage, vulns, quantum, grade, recs, policy, policyResult, verdict>>
  BY DEF Verifying
<1>3. InOrder'
  BY <1>1, <1>2 DEF InOrder, Judgements
<1>4. AsJudged'
  BY <1>1, <1>2 DEF Targeted, AsJudged, FindingsFollow, QuantumFollows, GradeFollows, AdviceFollows
<1>5. PolicyFollows' /\ VerdictFollows' /\ TimelineFollows' /\ ReportFollows'
  BY <1>1, <1>2 DEF PolicyFollows, VerdictFollows, TimelineFollows, ReportFollows
<1> QED
  BY <1>3, <1>4, <1>5 DEF Targeted

LEMMA JudgmentsAreChecks ==
  ASSUME NEW c, NEW a, NEW t
  PROVE  ChainJudgment(c, a, t).chain \in Check
BY DEF ChainJudgment, ApplyValidityWindowVerdict, Judgment, Check

LEMMA ParsedIsACertificate ==
  ASSUME NEW link \in Link, NEW cert \in Certificate, NEW t \in Int
  PROVE  LET parsed == ParseCertificateAt(link, cert, t)
         IN  /\ parsed \in Certificate /\ parsed.hours = link.to - t
             /\ parsed.notYetValid <=> t < link.from
             /\ parsed.sig = cert.sig /\ parsed.selfSigned = cert.selfSigned
<1> DEFINE hours == link.to - t
           life == (link.to - link.from) \div 24
           early == t < link.from
           one == [cert EXCEPT !.hours = hours]
           two == [one EXCEPT !.notYetValid = early]
           three == [two EXCEPT !.lifetime = life]
           four == [three EXCEPT !.name = "notPerformed"]
           five == [four EXCEPT !.chain = "notPerformed"]
<1>1. hours \in Int /\ life \in Int /\ early \in BOOLEAN
  BY DEF Link
<1>2. ParseCertificateAt(link, cert, t) = five
  BY DEF ParseCertificateAt, Certificate
<1> HIDE DEF hours, life, early
<1>3. /\ one.sig = cert.sig /\ one.selfSigned = cert.selfSigned
      /\ one \in Certificate /\ one.hours = hours
  BY <1>1 DEF Certificate
<1> HIDE DEF one
<1>4. /\ two.sig = cert.sig /\ two.selfSigned = cert.selfSigned
      /\ two \in Certificate /\ two.hours = hours /\ two.notYetValid = early
  BY <1>1, <1>3 DEF Certificate
<1> HIDE DEF two
<1>5. /\ three.sig = cert.sig /\ three.selfSigned = cert.selfSigned
      /\ three \in Certificate /\ three.hours = hours /\ three.notYetValid = early
  BY <1>1, <1>4 DEF Certificate
<1> HIDE DEF three
<1>6. /\ four.sig = cert.sig /\ four.selfSigned = cert.selfSigned
      /\ four \in Certificate /\ four.hours = hours /\ four.notYetValid = early
  BY <1>5 DEF Certificate, Check
<1> HIDE DEF four
<1>7. /\ five.sig = cert.sig /\ five.selfSigned = cert.selfSigned
      /\ five \in Certificate /\ five.hours = hours /\ five.notYetValid = early
  BY <1>6 DEF Certificate, Check
<1> QED
  BY <1>2, <1>7 DEF hours, early

LEMMA NoConnectionKeepsIt ==
  ASSUME Targeted, Verifying, NoConnection, UNCHANGED <<timeline, report>>
  PROVE  Targeted'
<1>1. /\ probe = "connected" /\ ~HasCertificate /\ probe' = "verified"
      /\ UNCHANGED <<measured, connection, clock, now, answer, reason, policy>>
  BY DEF NoConnection, Verifying
<1>2. measured' \in Measurement
  BY <1>1 DEF Targeted, AsJudged
<1>3. Connected'
  BY <1>1 DEF Targeted, Connected
<1>4. CertificateFollows' /\ ChainFollows'
  BY <1>1 DEF Targeted, CertificateFollows, ChainFollows, HasCertificate
<1> QED
  BY <1>1, <1>2, <1>3, <1>4, VerifyingKeepsTheRest

LEMMA CaptureKeepsIt ==
  ASSUME Targeted, Verifying, CaptureInstant, UNCHANGED <<timeline, report>>
  PROVE  Targeted'
<1> DEFINE parsed == ParseCertificateAt(connection.chain[Leaf], measured.cert, clock)
<1>1. /\ probe = "connected" /\ HasCertificate /\ probe' = "parsed" /\ now' = clock
      /\ measured' = [measured EXCEPT !.cert = parsed]
      /\ UNCHANGED <<connection, clock, answer, reason, policy>>
  BY DEF CaptureInstant, Verifying
<1>2. measured \in Measurement /\ measured.cert \in Certificate /\ MaxClock \in Nat /\ clock \in 0..MaxClock
  BY <1>1, ChainAssumption DEF Targeted, AsJudged, Connected, HasCertificate, Measurement
<1>3. connection.chain[Leaf] \in Link
  <2>1. connection.chain \in Seq(Link) /\ Len(connection.chain) >= 2
    BY DEF Targeted, Connected, Connection
  <2> QED
    BY <2>1 DEF Leaf
<1>4. /\ parsed \in Certificate /\ parsed.hours = connection.chain[Leaf].to - clock
      /\ parsed.notYetValid <=> clock < connection.chain[Leaf].from
      /\ parsed.sig = measured.cert.sig /\ parsed.selfSigned = measured.cert.selfSigned
  BY <1>2, <1>3, ParsedIsACertificate
<1> HIDE DEF parsed
<1>5. measured' \in Measurement /\ measured'.cert = parsed /\ measured'.suites = measured.suites
  BY <1>1, <1>2, <1>4 DEF Measurement
<1>6. parsed # NoCertificate
  BY <1>4 DEF Certificate, NoCertificate
<1>7. Connected'
  BY <1>1, <1>2 DEF Targeted, Connected
<1>8. CertificateFollows'
  BY <1>1, <1>4, <1>5, <1>6 DEF Targeted, CertificateFollows, HasCertificate
<1>9. ChainFollows'
  BY <1>1 DEF Targeted, ChainFollows
<1> QED
  BY <1>1, <1>5, <1>7, <1>8, <1>9, VerifyingKeepsTheRest

LEMMA NamingKeepsIt ==
  ASSUME Targeted, Verifying, VerifyCertificateName, UNCHANGED <<timeline, report>>
  PROVE  Targeted'
<1> DEFINE result == IF connection.requested = "covered" THEN "passed" ELSE "failed"
           named == [measured.cert EXCEPT !.name = result]
<1>1. /\ probe = "parsed" /\ probe' = "named"
      /\ UNCHANGED <<connection, clock, now, answer, reason, policy>>
      /\ measured' = [measured EXCEPT !.cert.name = result]
  BY DEF VerifyCertificateName, Verifying
<1>2. measured \in Measurement /\ measured.cert \in Certificate
  BY <1>1 DEF Targeted, AsJudged, CertificateFollows, HasCertificate, Measurement
<1>3. result \in Check
  BY DEF Check
<1>4. /\ measured.cert.hours = connection.chain[Leaf].to - now
      /\ measured.cert.notYetValid <=> now < connection.chain[Leaf].from
  BY <1>1 DEF Targeted, CertificateFollows
<1> HIDE DEF result
<1>5. /\ named \in Certificate /\ named.hours = measured.cert.hours /\ named.name = result
      /\ named.notYetValid = measured.cert.notYetValid
      /\ named.sig = measured.cert.sig /\ named.selfSigned = measured.cert.selfSigned
  BY <1>2, <1>3 DEF Certificate
<1>6. measured' = [measured EXCEPT !.cert = named]
  BY <1>1, <1>2 DEF Measurement
<1> HIDE DEF named
<1>7. measured' \in Measurement /\ measured'.cert = named /\ measured'.suites = measured.suites
  BY <1>2, <1>5, <1>6 DEF Measurement
<1>8. named # NoCertificate
  BY <1>5 DEF Certificate, NoCertificate
<1>9. Connected'
  BY <1>1 DEF Targeted, Connected
<1>10. CertificateFollows'
  BY <1>1, <1>4, <1>5, <1>7, <1>8 DEF Targeted, CertificateFollows, HasCertificate, result
<1>11. ChainFollows'
  BY <1>1 DEF Targeted, ChainFollows
<1> QED
  BY <1>1, <1>7, <1>9, <1>10, <1>11, VerifyingKeepsTheRest

LEMMA VerificationKeepsIt ==
  ASSUME Targeted, Verifying, VerifyCertificateChain, UNCHANGED <<timeline, report>>
  PROVE  Targeted'
<1>1. PICK a \in VerifierAnswers(connection, clock) :
        /\ answer' = a /\ reason' = ChainJudgment(connection, a, now).reason
        /\ measured' = [measured EXCEPT !.cert.chain = ChainJudgment(connection, a, now).chain]
  BY DEF VerifyCertificateChain
<1> DEFINE result == ChainJudgment(connection, a, now).chain
           checked == [measured.cert EXCEPT !.chain = result]
<1>2. probe = "named" /\ probe' = "verified" /\ UNCHANGED <<connection, clock, now, policy>>
  BY DEF VerifyCertificateChain, Verifying
<1>3. measured \in Measurement /\ measured.cert \in Certificate
  BY <1>2 DEF Targeted, AsJudged, CertificateFollows, HasCertificate, Measurement
<1>4. result \in Check
  BY JudgmentsAreChecks
<1>5. /\ measured.cert.hours = connection.chain[Leaf].to - now
      /\ measured.cert.notYetValid <=> now < connection.chain[Leaf].from
      /\ measured.cert.name = IF connection.requested = "covered" THEN "passed" ELSE "failed"
  BY <1>2 DEF Targeted, CertificateFollows
<1>6. measured' = [measured EXCEPT !.cert.chain = result]
  BY <1>1
<1> HIDE DEF result
<1>7. /\ checked \in Certificate /\ checked.hours = measured.cert.hours /\ checked.chain = result
      /\ checked.notYetValid = measured.cert.notYetValid /\ checked.name = measured.cert.name
      /\ checked.sig = measured.cert.sig /\ checked.selfSigned = measured.cert.selfSigned
  BY <1>3, <1>4 DEF Certificate
<1>8. measured' = [measured EXCEPT !.cert = checked]
  BY <1>3, <1>6 DEF Measurement
<1> HIDE DEF checked
<1>9. measured' \in Measurement /\ measured'.cert = checked /\ measured'.suites = measured.suites
  BY <1>3, <1>7, <1>8 DEF Measurement
<1>10. checked # NoCertificate
  BY <1>7 DEF Certificate, NoCertificate
<1>11. Connected'
  BY <1>2 DEF Targeted, Connected
<1>12. CertificateFollows'
  BY <1>2, <1>5, <1>7, <1>9 DEF Targeted, CertificateFollows, HasCertificate
<1>13. ChainFollows'
  BY <1>1, <1>2, <1>7, <1>9, <1>10 DEF ChainFollows, HasCertificate, result
<1> QED
  BY <1>2, <1>9, <1>11, <1>12, <1>13, VerifyingKeepsTheRest

LEMMA TickKeepsIt ==
  ASSUME Targeted, Verifying, Tick, UNCHANGED <<timeline, report>>
  PROVE  Targeted'
<1>1. /\ probe \in {"parsed", "named"} /\ clock < MaxClock /\ clock' = clock + 1
      /\ UNCHANGED <<measured, connection, probe, now, answer, reason, policy>>
  BY DEF Tick, Verifying
<1>2. measured' \in Measurement
  BY <1>1 DEF Targeted, AsJudged
<1>3. Connected'
  BY <1>1, ChainAssumption DEF Targeted, Connected
<1>4. CertificateFollows' /\ ChainFollows'
  BY <1>1 DEF Targeted, CertificateFollows, ChainFollows, HasCertificate
<1> QED
  BY <1>1, <1>2, <1>3, <1>4, VerifyingKeepsTheRest

\* Until a result is returned nothing is made from it.
LEMMA NothingMadeBefore ==
  ASSUME Targeted, stage \notin {"returned", "unreached"}
  PROVE  /\ policyResult = NotEvaluated /\ verdict = "unjudged"
         /\ timeline = NotAnalyzed /\ report = NotWritten
BY DEF Targeted, InOrder, PolicyFollows, VerdictFollows, TimelineFollows, NeverReached

\* What concerns the certificate stays, once it is verified.
LEMMA VerifiedStays ==
  ASSUME Targeted, UNCHANGED <<measured, chainVars, policy>>
  PROVE  Connected' /\ CertificateFollows' /\ ChainFollows'
BY DEF Targeted, chainVars, Connected, CertificateFollows, ChainFollows, HasCertificate

LEMMA ScanningKeepsIt ==
  ASSUME Targeted, probe = "verified", stage = "measured" => ~NothingMeasured,
         Scanning, UNCHANGED <<chainVars, timeline, report>>
  PROVE  Targeted'
<1>1. JudgementStep /\ UNCHANGED <<measured, config, policy, policyResult, verdict>>
  BY DEF Scanning, JudgementStep, CheckVulnerabilities, AssessQuantum, GradeResult, Recommend
<1>2. AsJudged'
  BY <1>1, StepsKeepJudgement DEF Targeted
<1>3. stage \in {"measured", "checked", "assessed", "graded"} /\ stage' \in Judgements
  BY DEF Scanning, CheckVulnerabilities, AssessQuantum, GradeResult, Recommend, Judgements
<1>4. /\ policyResult = NotEvaluated /\ verdict = "unjudged"
      /\ timeline = NotAnalyzed /\ report = NotWritten
  BY <1>3, NothingMadeBefore
<1>5. ~NothingMeasured
  BY <1>3 DEF Targeted, InOrder, Judgements
<1>6. InOrder'
  BY <1>1, <1>3, <1>4, <1>5 DEF InOrder, chainVars, NothingMeasured, HasCertificate, Judgements
<1>7. Connected' /\ CertificateFollows' /\ ChainFollows'
  BY <1>1, VerifiedStays
<1>8. PolicyFollows' /\ VerdictFollows' /\ TimelineFollows' /\ ReportFollows'
  BY <1>1, <1>4 DEF PolicyFollows, VerdictFollows, TimelineFollows, ReportFollows
<1> QED
  BY <1>2, <1>6, <1>7, <1>8 DEF Targeted

\* The documents are made from what no later step changes.
LEMMA DocumentsStay ==
  ASSUME UNCHANGED <<measured, stage, vulns, quantum, grade, recs, policyResult, timeline>>
  PROVE  Text' = Text /\ Html' = Html /\ Sarif' = Sarif /\ Cbom' = Cbom
<1>1. Text' = Text
  BY DEF Text, NeverReached, Basis, HasCertificate
<1>2. Html' = Html
  BY DEF Html, NeverReached, Priority
<1>3. Sarif' = Sarif
  BY DEF Sarif, NeverReached, BuildRules, BuildResults, QuantumResult, FoundIds
<1>4. Cbom' = Cbom
  BY DEF Cbom, NeverReached, Components, HasCertificate
<1> QED
  BY <1>1, <1>2, <1>3, <1>4

LEMMA EvaluationKeepsIt ==
  ASSUME Targeted, probe = "verified", EvaluatePolicy, timeline # NotAnalyzed,
         UNCHANGED <<chainVars, timeline, report>>
  PROVE  Targeted'
<1>1. /\ stage = "returned" /\ policyResult = NotEvaluated /\ UNCHANGED <<vars, policy, verdict>>
      /\ policyResult' = Evaluate(policy, measured, quantum)
  BY DEF EvaluatePolicy
<1>2. report = NotWritten
  BY <1>1 DEF Targeted, InOrder, NeverReached
<1>3. verdict = "unjudged"
  BY <1>1 DEF Targeted, VerdictFollows
<1>4. AsJudged'
  BY <1>1, StutteringKeepsJudgement DEF Targeted
<1>5. InOrder'
  BY <1>1, <1>2 DEF Targeted, InOrder, chainVars, vars, NothingMeasured, HasCertificate
<1>6. Connected' /\ CertificateFollows' /\ ChainFollows'
  BY <1>1, VerifiedStays DEF vars
<1>7. PolicyFollows' /\ VerdictFollows' /\ TimelineFollows' /\ ReportFollows'
  BY <1>1, <1>2, <1>3 DEF Targeted, vars, PolicyFollows, VerdictFollows, TimelineFollows, ReportFollows
<1> QED
  BY <1>4, <1>5, <1>6, <1>7 DEF Targeted

LEMMA OutcomeKeepsIt ==
  ASSUME Targeted, probe = "verified", PolicyOutcome, UNCHANGED <<chainVars, timeline, report>>
  PROVE  Targeted'
<1>1. /\ policyResult # NotEvaluated /\ verdict' = VerdictOf(policyResult)
      /\ UNCHANGED <<vars, policy, policyResult>>
  BY DEF PolicyOutcome
<1>2. AsJudged'
  BY <1>1, StutteringKeepsJudgement DEF Targeted
<1>3. InOrder'
  BY <1>1 DEF Targeted, InOrder, chainVars, vars, NothingMeasured, HasCertificate, NeverReached
<1>4. Connected' /\ CertificateFollows' /\ ChainFollows'
  BY <1>1, VerifiedStays DEF vars
<1>5. PolicyFollows' /\ VerdictFollows' /\ TimelineFollows'
  BY <1>1 DEF Targeted, vars, PolicyFollows, VerdictFollows, TimelineFollows
<1>6. ReportFollows'
  BY <1>1, DocumentsStay DEF Targeted, ReportFollows, vars
<1> QED
  BY <1>2, <1>3, <1>4, <1>5, <1>6 DEF Targeted

LEMMA AnalysisKeepsIt ==
  ASSUME Targeted, probe = "verified", AnalyzeCNSA2, UNCHANGED report
  PROVE  Targeted'
<1>1. /\ stage = "returned" /\ timeline = NotAnalyzed /\ timeline' \in Analyses(measured) \cup {NoTimeline}
      /\ UNCHANGED <<vars, policy, policyResult, verdict, chainVars>>
  BY DEF AnalyzeCNSA2, gateVars
<1>2. policyResult = NotEvaluated
  BY <1>1 DEF Targeted, InOrder
<1>3. report = NotWritten
  BY <1>1, <1>2 DEF Targeted, InOrder, NeverReached
<1>4. AsJudged'
  BY <1>1, StutteringKeepsJudgement DEF Targeted
<1>5. InOrder'
  BY <1>1, <1>2, <1>3 DEF Targeted, InOrder, chainVars, vars, NothingMeasured, HasCertificate
<1>6. Connected' /\ CertificateFollows' /\ ChainFollows'
  BY <1>1, VerifiedStays DEF vars
<1>7. PolicyFollows' /\ VerdictFollows' /\ TimelineFollows' /\ ReportFollows'
  BY <1>1, <1>2, <1>3 DEF Targeted, vars, PolicyFollows, VerdictFollows, TimelineFollows, ReportFollows
<1> QED
  BY <1>4, <1>5, <1>6, <1>7 DEF Targeted

LEMMA FailureKeepsIt ==
  ASSUME Targeted, ScanFails
  PROVE  Targeted'
<1>1. /\ probe = "verified" /\ stage = "measured" /\ NothingMeasured /\ stage' = "unreached"
      /\ UNCHANGED <<measured, config, vulns, quantum, grade, recs, policy, policyResult, verdict>>
      /\ UNCHANGED <<chainVars, timeline, report>>
  BY DEF ScanFails
<1>2. /\ policyResult = NotEvaluated /\ verdict = "unjudged"
      /\ timeline = NotAnalyzed /\ report = NotWritten
  BY <1>1, NothingMadeBefore
<1>3. AsJudged'
  BY <1>1 DEF Targeted, AsJudged, FindingsFollow, QuantumFollows, GradeFollows, AdviceFollows
<1>4. InOrder'
  BY <1>1, <1>2 DEF InOrder, chainVars, NothingMeasured, HasCertificate, Judgements
<1>5. Connected' /\ CertificateFollows' /\ ChainFollows'
  BY <1>1, VerifiedStays
<1>6. PolicyFollows' /\ VerdictFollows' /\ TimelineFollows' /\ ReportFollows'
  BY <1>1, <1>2 DEF PolicyFollows, VerdictFollows, TimelineFollows, ReportFollows
<1> QED
  BY <1>3, <1>4, <1>5, <1>6 DEF Targeted

LEMMA WritingKeepsIt ==
  ASSUME Targeted, WriteReport
  PROVE  Targeted'
<1>1. /\ NeverReached \/ policyResult # NotEvaluated
      /\ report' = [text |-> Text, html |-> Html, sarif |-> Sarif, cbom |-> Cbom]
      /\ UNCHANGED <<vars, policy, policyResult, verdict, chainVars, timeline>>
  BY DEF WriteReport, cnsaVars, gateVars
<1>2. AsJudged'
  BY <1>1, StutteringKeepsJudgement DEF Targeted
<1>3. InOrder'
  BY <1>1 DEF Targeted, InOrder, chainVars, vars, NothingMeasured, HasCertificate, NeverReached
<1>4. Connected' /\ CertificateFollows' /\ ChainFollows'
  BY <1>1, VerifiedStays DEF vars
<1>5. PolicyFollows' /\ VerdictFollows' /\ TimelineFollows'
  BY <1>1 DEF Targeted, vars, PolicyFollows, VerdictFollows, TimelineFollows
<1>6. ReportFollows'
  BY <1>1, DocumentsStay DEF ReportFollows, vars
<1> QED
  BY <1>2, <1>3, <1>4, <1>5, <1>6 DEF Targeted

LEMMA StutteringKeepsIt ==
  ASSUME Targeted, UNCHANGED <<cnsaVars, report>>
  PROVE  Targeted'
<1>1. UNCHANGED <<vars, policy, policyResult, verdict, chainVars, timeline, report>>
  BY DEF cnsaVars, gateVars
<1>2. AsJudged'
  BY <1>1, StutteringKeepsJudgement DEF Targeted
<1>3. InOrder'
  BY <1>1 DEF Targeted, InOrder, chainVars, vars, NothingMeasured, HasCertificate, NeverReached
<1>4. Connected' /\ CertificateFollows' /\ ChainFollows'
  BY <1>1, VerifiedStays DEF vars
<1>5. PolicyFollows' /\ VerdictFollows' /\ TimelineFollows'
  BY <1>1 DEF Targeted, vars, PolicyFollows, VerdictFollows, TimelineFollows
<1>6. ReportFollows'
  BY <1>1, DocumentsStay DEF Targeted, ReportFollows, vars
<1> QED
  BY <1>2, <1>3, <1>4, <1>5, <1>6 DEF Targeted

\* Whatever the command knows of a target follows from what was measured: the
\* verdict on the chain, the judgements, the policy result and every document.
THEOREM TargetInvariance == ReportsSpec => []Targeted
<1>1. Targeted /\ [ReportsNext]_<<cnsaVars, report>> => Targeted'
  <2> SUFFICES ASSUME Targeted, [ReportsNext]_<<cnsaVars, report>>
               PROVE  Targeted'
    OBVIOUS
  <2>1. CASE ScanFails
    BY <2>1, FailureKeepsIt
  <2>2. CASE WriteReport
    BY <2>2, WritingKeepsIt
  <2>3. CASE /\ probe = "verified" /\ stage = "measured" => ~NothingMeasured
             /\ ~NeverReached
             /\ CNSANext /\ UNCHANGED report
    <3>1. CASE AnalyzeCNSA2
      <4>1. stage = "returned"
        BY <3>1 DEF AnalyzeCNSA2
      <4>2. probe = "verified"
        BY <4>1 DEF Targeted, InOrder
      <4> QED
        BY <2>3, <3>1, <4>2, AnalysisKeepsIt
    <3>2. CASE (stage = "returned" => timeline # NotAnalyzed) /\ ChainNext /\ UNCHANGED timeline
      <4>1. CASE Verifying
        BY <2>3, <3>2, <4>1, NoConnectionKeepsIt, CaptureKeepsIt, NamingKeepsIt, VerificationKeepsIt,
           TickKeepsIt DEF Verifying
      <4>2. CASE probe = "verified" /\ GateNext /\ UNCHANGED chainVars
        <5>1. CASE Scanning
          BY <2>3, <3>2, <4>2, <5>1, ScanningKeepsIt
        <5>2. CASE EvaluatePolicy
          BY <2>3, <3>2, <4>2, <5>2, EvaluationKeepsIt DEF EvaluatePolicy
        <5>3. CASE PolicyOutcome
          BY <2>3, <3>2, <4>2, <5>3, OutcomeKeepsIt
        <5>4. CASE UNCHANGED gateVars
          BY <2>3, <3>2, <4>2, <5>4, StutteringKeepsIt DEF cnsaVars
        <5> QED
          BY <4>2, <5>1, <5>2, <5>3, <5>4 DEF GateNext
      <4> QED
        BY <3>2, <4>1, <4>2 DEF ChainNext
    <3> QED
      BY <2>3, <3>1, <3>2 DEF CNSANext
  <2>4. CASE UNCHANGED <<cnsaVars, report>>
    BY <2>4, StutteringKeepsIt
  <2> QED
    BY <2>1, <2>2, <2>3, <2>4 DEF ReportsNext
<1> QED
  BY <1>1, ReportsInitIsTargeted, PTL DEF ReportsSpec

-----------------------------------------------------------------------------
(***************************************************************************)
(* The verification of the certificate.                                    *)
(***************************************************************************)
\* An answer that blames a certificate's dates: something was outside its window
\* when the verifier looked, and the verifier names the leaf or such a one.
LEMMA BlamedFor ==
  ASSUME NEW c, NEW t, NEW a \in VerifierAnswers(c, t), a.result = "expired"
  PROVE  /\ Faults(c, t) # {}
         /\ a.blamed = Leaf \/ a.blamed \in Faults(c, t)
<1>1. Faults(c, t) # {}
  BY DEF VerifierAnswers
<1>2. a.blamed \in Blamable(c, t)
  BY <1>1 DEF VerifierAnswers
<1> QED
  BY <1>1, <1>2 DEF Blamable

LEMMA FirstStale ==
  ASSUME NEW c \in Connection, NEW stale \in SUBSET SentWith(c), stale # {}
  PROVE  (CHOOSE i \in stale : \A j \in stale : i <= j) \in stale
<1>1. Len(c.chain) \in Nat
  BY DEF Connection
<1>2. stale \in SUBSET Nat
  BY <1>1 DEF SentWith
<1>3. \E i \in stale : \A j \in stale : i <= j
  BY <1>2, LeastExists
<1> QED
  BY <1>3

\* The four ways in which the verdict on the chain comes about when it is
\* refused.
LEMMA HowItIsJudged ==
  ASSUME NEW c \in Connection, Len(c.chain) >= 2, NEW t, NEW now0,
         NEW a \in VerifierAnswers(c, t), a.result \in {"expired", "untrusted"}
  PROVE  LET judgment == ChainJudgment(c, a, now0)
             stale == {i \in SentWith(c) : IsOutside(c.chain[i], now0)}
         IN  \/ /\ a.result = "untrusted"
                /\ judgment = Judgment("failed", Because("verifier", 0, "none"))
             \/ /\ a.result = "expired" /\ IsOutside(c.chain[Leaf], now0)
                /\ judgment = Judgment("notPerformed", Because("reported_on_its_own", Leaf, "none"))
             \/ /\ a.result = "expired" /\ ~IsOutside(c.chain[Leaf], now0)
                /\ a.blamed # Leaf /\ a.blamed \in Faults(c, t)
                /\ judgment = Judgment("failed", NamedReason(c, a.blamed, now0, "verifier_named"))
             \/ /\ a.result = "expired" /\ ~IsOutside(c.chain[Leaf], now0)
                /\ \E i \in stale : judgment = Judgment("failed", NamedReason(c, i, now0, "presented"))
             \/ /\ a.result = "expired" /\ ~IsOutside(c.chain[Leaf], now0)
                /\ stale = {} /\ Faults(c, t) # {}
                /\ judgment = Judgment("failed", Because("trust_store", Len(c.chain), "none"))
<1> DEFINE judgment == ChainJudgment(c, a, now0)
           stale == {i \in SentWith(c) : IsOutside(c.chain[i], now0)}
           first == CHOOSE i \in stale : \A j \in stale : i <= j
<1>1. CASE a.result = "untrusted"
  BY <1>1 DEF ChainJudgment
<1>2. CASE a.result = "expired"
  <2>1. judgment = ApplyValidityWindowVerdict(c, a.blamed, now0)
    BY <1>2 DEF ChainJudgment
  <2>2. Faults(c, t) # {} /\ (a.blamed = Leaf \/ a.blamed \in Faults(c, t))
    BY <1>2, BlamedFor
  <2>3. stale # {} => first \in stale
    <3>1. stale \in SUBSET SentWith(c)
      OBVIOUS
    <3> HIDE DEF stale
    <3> QED
      BY <3>1, FirstStale
  <2>4. judgment =
          IF IsOutside(c.chain[Leaf], now0)
            THEN Judgment("notPerformed", Because("reported_on_its_own", Leaf, "none"))
          ELSE IF a.blamed # Leaf
            THEN Judgment("failed", NamedReason(c, a.blamed, now0, "verifier_named"))
          ELSE IF stale # {}
            THEN Judgment("failed", NamedReason(c, first, now0, "presented"))
          ELSE Judgment("failed", Because("trust_store", Len(c.chain), "none"))
    BY <2>1 DEF ApplyValidityWindowVerdict
  <2> HIDE DEF judgment, first, stale
  <2>5. CASE IsOutside(c.chain[Leaf], now0)
    BY <1>2, <2>4, <2>5 DEF judgment, stale
  <2>6. CASE ~IsOutside(c.chain[Leaf], now0) /\ a.blamed # Leaf
    BY <1>2, <2>2, <2>4, <2>6 DEF judgment, stale
  <2>7. CASE ~IsOutside(c.chain[Leaf], now0) /\ a.blamed = Leaf /\ stale # {}
    <3>1. judgment = Judgment("failed", NamedReason(c, first, now0, "presented"))
      BY <2>4, <2>7
    <3> QED
      BY <1>2, <2>3, <2>7, <3>1 DEF judgment, stale
  <2>8. CASE ~IsOutside(c.chain[Leaf], now0) /\ a.blamed = Leaf /\ stale = {}
    BY <1>2, <2>2, <2>4, <2>8 DEF judgment, stale
  <2> QED
    BY <2>5, <2>6, <2>7, <2>8
<1> QED
  BY <1>1, <1>2

LEMMA BlameFollows ==
  ASSUME Targeted
  PROVE  BlameIsHonest
<1> SUFFICES ASSUME probe = "verified", Rejected
             PROVE  LET link(i) == connection.chain[i]
                        steady == Faults(connection, now) = Faults(connection, clock)
                    IN  /\ reason.end = "expired" => now > link(reason.about).to
                        /\ reason.end = "not_valid_yet" => now < link(reason.about).from
                        /\ reason.about = Leaf <=> measured.cert.chain = "notPerformed"
                        /\ reason.about = Leaf => Expired(measured.cert) \/ measured.cert.notYetValid
                        /\ steady /\ reason.says \in {"verifier_named", "trust_store"} =>
                             reason.about \in Faults(connection, now)
                        /\ steady /\ reason.says = "presented" => reason.end # "outside"
  BY DEF BlameIsHonest
<1> DEFINE c == connection
           judgment == ChainJudgment(c, answer, now)
           stale == {i \in SentWith(c) : IsOutside(c.chain[i], now)}
<1>1. /\ c \in Connection /\ Len(c.chain) >= 2 /\ c.chain[Leaf].onPath
      /\ Len(c.chain) \in Nat /\ DOMAIN c.chain = 1..Len(c.chain)
  BY DEF Targeted, Connected, Connection
<1>2. HasCertificate
  BY DEF Targeted, ChainFollows, Rejected
<1>3. /\ answer \in VerifierAnswers(c, clock) /\ answer.result \in {"expired", "untrusted"}
      /\ measured.cert.chain = judgment.chain /\ reason = judgment.reason
  BY <1>2 DEF Targeted, ChainFollows, Rejected
<1>4. IsOutside(c.chain[Leaf], now) => Expired(measured.cert) \/ measured.cert.notYetValid
  <2>1. /\ measured.cert.hours = c.chain[Leaf].to - now
        /\ measured.cert.notYetValid <=> now < c.chain[Leaf].from
    BY <1>2 DEF Targeted, CertificateFollows
  <2>2. now \in Int /\ c.chain[Leaf].to \in Int
    <3>1. MaxClock \in Nat
      BY ChainAssumption
    <3>2. c.chain[Leaf] \in Link
      BY <1>1 DEF Connection, Leaf
    <3> QED
      BY <3>1, <3>2 DEF Targeted, Connected, Link
  <2> QED
    BY <2>1, <2>2 DEF IsOutside, IsLate, Expired
<1>5. \/ judgment = Judgment("failed", Because("verifier", 0, "none"))
      \/ /\ IsOutside(c.chain[Leaf], now)
         /\ judgment = Judgment("notPerformed", Because("reported_on_its_own", Leaf, "none"))
      \/ /\ answer.blamed # Leaf /\ answer.blamed \in Faults(c, clock)
         /\ judgment = Judgment("failed", NamedReason(c, answer.blamed, now, "verifier_named"))
      \/ \E i \in stale : judgment = Judgment("failed", NamedReason(c, i, now, "presented"))
      \/ /\ ~IsOutside(c.chain[Leaf], now) /\ stale = {} /\ Faults(c, clock) # {}
         /\ judgment = Judgment("failed", Because("trust_store", Len(c.chain), "none"))
  BY <1>1, <1>3, HowItIsJudged
<1> HIDE DEF judgment, c
<1> SUFFICES /\ reason.end = "expired" => now > c.chain[reason.about].to
             /\ reason.end = "not_valid_yet" => now < c.chain[reason.about].from
             /\ reason.about = Leaf <=> measured.cert.chain = "notPerformed"
             /\ reason.about = Leaf => Expired(measured.cert) \/ measured.cert.notYetValid
             /\ Faults(c, now) = Faults(c, clock) /\ reason.says \in {"verifier_named", "trust_store"} =>
                  reason.about \in Faults(c, now)
             /\ Faults(c, now) = Faults(c, clock) /\ reason.says = "presented" => reason.end # "outside"
  BY DEF c
<1>6. CASE judgment = Judgment("failed", Because("verifier", 0, "none"))
  BY <1>3, <1>6 DEF Judgment, Because, Leaf
<1>7. CASE /\ IsOutside(c.chain[Leaf], now)
           /\ judgment = Judgment("notPerformed", Because("reported_on_its_own", Leaf, "none"))
  BY <1>3, <1>4, <1>7 DEF Judgment, Because, Leaf
<1>8. CASE /\ answer.blamed # Leaf /\ answer.blamed \in Faults(c, clock)
           /\ judgment = Judgment("failed", NamedReason(c, answer.blamed, now, "verifier_named"))
  BY <1>3, <1>8 DEF Judgment, Because, NamedReason, IsLate
<1>9. ASSUME NEW i \in stale, judgment = Judgment("failed", NamedReason(c, i, now, "presented"))
      PROVE  /\ reason.end = "expired" => now > c.chain[reason.about].to
             /\ reason.end = "not_valid_yet" => now < c.chain[reason.about].from
             /\ reason.about = Leaf <=> measured.cert.chain = "notPerformed"
             /\ reason.about = Leaf => Expired(measured.cert) \/ measured.cert.notYetValid
             /\ reason.says = "presented" /\ reason.end # "outside"
  <2>1. i # Leaf /\ IsOutside(c.chain[i], now)
    BY <1>1 DEF SentWith, Leaf
  <2> HIDE DEF stale
  <2> QED
    BY <1>3, <1>9, <2>1 DEF Judgment, Because, NamedReason, IsLate, IsOutside
<1>10. CASE /\ ~IsOutside(c.chain[Leaf], now) /\ stale = {} /\ Faults(c, clock) # {}
            /\ judgment = Judgment("failed", Because("trust_store", Len(c.chain), "none"))
  <2>1. reason = Because("trust_store", Len(c.chain), "none") /\ measured.cert.chain = "failed"
    BY <1>3, <1>10 DEF Judgment
  <2>2. Len(c.chain) # Leaf
    <3> DEFINE last == Len(c.chain)
    <3>1. last \in Nat /\ last >= 2
      BY <1>1
    <3> HIDE DEF last
    <3>2. last # 1
      BY <3>1
    <3> QED
      BY <3>2 DEF Leaf, last
  <2>3. ASSUME Faults(c, now) = Faults(c, clock)
        PROVE  Len(c.chain) \in Faults(c, now)
    <3>1. PICK i \in Faults(c, now) : TRUE
      BY <1>10, <2>3
    <3>2. i \in 1..Len(c.chain) /\ IsOutside(c.chain[i], now)
      BY <1>1 DEF Faults
    <3>3. i # Leaf /\ i \notin SentWith(c)
      BY <1>10, <3>2
    <3>4. i = Len(c.chain)
      BY <1>1, <3>2, <3>3 DEF Leaf, SentWith
    <3> QED
      BY <3>1, <3>4
  <2> HIDE DEF stale
  <2> QED
    BY <2>1, <2>2, <2>3 DEF Because
<1> HIDE DEF stale
<1> QED
  BY <1>5, <1>6, <1>7, <1>8, <1>9, <1>10

\* Whoever is blamed for a chain that failed is at fault.
THEOREM BlameIsDeserved == ReportsSpec => []BlameIsHonest
<1>1. Targeted => BlameIsHonest
  BY BlameFollows
<1> QED
  BY <1>1, TargetInvariance, PTL

-----------------------------------------------------------------------------
(***************************************************************************)
(* What an open gate has seen.                                             *)
(***************************************************************************)
LEMMA PolicyOfTheRun ==
  ASSUME Targeted
  PROVE  policy \in Policy /\ measured \in Measurement /\ config \in Config
BY PolicyAssumption DEF Targeted, Connected, AsJudged

\* The verdict is on the result as it was returned.
LEMMA WhatPassed ==
  ASSUME Targeted, Passed
  PROVE  /\ Judged /\ probe = "verified"
         /\ quantum = RiskUnder(measured, config)
         /\ ProtocolViolations(policy, measured.versions) = {} /\ CipherViolations(policy, measured) = {}
         /\ CertificateViolations(policy, measured.cert) = {}
         /\ QuantumViolations(policy, measured, quantum) = {}
         /\ SkippedRules(policy, measured, quantum) = {}
<1>1. /\ policyResult # NotEvaluated /\ VerdictOf(policyResult) = "compliant"
      /\ stage = "returned" /\ policyResult = Evaluate(policy, measured, quantum)
  BY DEF Targeted, VerdictFollows, PolicyFollows, Passed
<1>2. quantum = RiskUnder(measured, config)
  BY <1>1 DEF Targeted, AsJudged, QuantumFollows
<1>3. probe = "verified"
  BY <1>1 DEF Targeted, InOrder
<1> QED
  BY <1>1, <1>2, <1>3, Evaluated DEF Judged

\* The certificate that any policy passes.
LEMMA WhatAnyPolicyAccepts ==
  ASSUME Targeted, Passed
  PROVE  /\ HasCertificate /\ measured.cert \in Certificate
         /\ measured.cert.name = "passed" /\ measured.cert.chain = "passed"
         /\ ~Expired(measured.cert) /\ ~measured.cert.notYetValid
         /\ ~RefusedByClients(measured.cert)
<1>1. CertificateViolations(policy, measured.cert) = {} /\ SkippedRules(policy, measured, quantum) = {}
  BY WhatPassed
<1>2. /\ measured.cert # NoCertificate
      /\ measured.cert.name # "failed" /\ measured.cert.chain # "failed"
      /\ ~Expired(measured.cert) /\ ~measured.cert.notYetValid
  BY <1>1, CertificateAccepted
<1>3. measured.cert.name # "notPerformed" /\ measured.cert.chain # "notPerformed"
  BY <1>1, <1>2, NothingSkipped
<1>4. measured.cert \in Certificate
  BY <1>2, PolicyOfTheRun DEF Measurement
<1>5. measured.cert.name = "passed" /\ measured.cert.chain = "passed"
  BY <1>2, <1>3, <1>4 DEF Certificate, Check
<1> QED
  BY <1>2, <1>4, <1>5 DEF HasCertificate, RefusedByClients, Expired

-----------------------------------------------------------------------------
(***************************************************************************)
(* A refused chain stays refused.                                          *)
(***************************************************************************)
LEMMA RejectionIsRefusal ==
  ASSUME Targeted, probe = "verified", Rejected
  PROVE  HasCertificate /\ RefusedByClients(measured.cert)
<1> DEFINE judgment == ChainJudgment(connection, answer, now)
<1>1. HasCertificate
  BY DEF Targeted, ChainFollows, Rejected
<1>2. BlameIsHonest
  BY BlameFollows
<1>3. measured.cert.chain = judgment.chain /\ reason = judgment.reason
  BY <1>1 DEF Targeted, ChainFollows
<1>4. /\ connection \in Connection /\ Len(connection.chain) >= 2
      /\ answer \in VerifierAnswers(connection, clock) /\ answer.result \in {"expired", "untrusted"}
  BY <1>1 DEF Targeted, Connected, ChainFollows, Rejected
<1>5. judgment.chain \in {"failed", "notPerformed"}
  BY <1>4 DEF ChainJudgment, ApplyValidityWindowVerdict, Judgment
<1>6. CASE judgment.chain = "failed"
  BY <1>1, <1>3, <1>6 DEF RefusedByClients
<1>7. CASE judgment.chain = "notPerformed"
  <2>1. measured.cert.chain = "notPerformed"
    BY <1>3, <1>7
  <2>2. Expired(measured.cert) \/ measured.cert.notYetValid
    BY <1>2, <2>1 DEF BlameIsHonest
  <2> QED
    BY <1>1, <2>2 DEF RefusedByClients, Expired
<1> QED
  BY <1>5, <1>6, <1>7

LEMMA RejectionFollows ==
  ASSUME Targeted
  PROVE  RejectedChainIsExposed
<1> SUFFICES ASSUME Judged, Rejected
             PROVE  /\ grade.factors["certificate"] = 0
                    /\ config.checkVulns =>
                         \E v \in CertificateFindings(measured.cert) \cap vulns : v.severity \in {"CRITICAL", "HIGH"}
                    /\ verdict # "compliant"
  BY DEF RejectedChainIsExposed
<1>1. probe = "verified"
  BY DEF Judged, Targeted, InOrder
<1>2. HasCertificate /\ RefusedByClients(measured.cert)
  BY <1>1, RejectionIsRefusal
<1>3. RefusedCertificateIsExposed
  BY RefusedFollows DEF Targeted
<1>4. verdict # "compliant"
  BY <1>2, WhatAnyPolicyAccepts DEF Passed
<1> QED
  BY <1>2, <1>3, <1>4 DEF RefusedCertificateIsExposed

\* A chain that the verifier refused earns nothing, is found, and passes no
\* policy, whatever the clock and the verifier did.
THEOREM RejectionIsExposed == ReportsSpec => []RejectedChainIsExposed
<1>1. Targeted => RejectedChainIsExposed
  BY RejectionFollows
<1> QED
  BY <1>1, TargetInvariance, PTL

-----------------------------------------------------------------------------
(***************************************************************************)
(* Skipping, and the built-in policies.                                    *)
(***************************************************************************)
LEMMA SkippingFollows ==
  ASSUME Targeted
  PROVE  SkippingOpensNoGate
<1> SUFFICES ASSUME Passed
             PROVE  Judgement(policy, measured, [config EXCEPT !.checkQuantum = TRUE]) = "compliant"
  BY DEF SkippingOpensNoGate
<1> DEFINE full == [config EXCEPT !.checkQuantum = TRUE]
           risk == AssessQuantumRisk(measured)
<1>1. /\ quantum = RiskUnder(measured, config)
      /\ ProtocolViolations(policy, measured.versions) = {} /\ CipherViolations(policy, measured) = {}
      /\ CertificateViolations(policy, measured.cert) = {}
      /\ QuantumViolations(policy, measured, quantum) = {}
      /\ SkippedRules(policy, measured, quantum) = {}
  BY WhatPassed
<1>2. policy \in Policy /\ measured \in Measurement /\ config \in Config
  BY PolicyOfTheRun
<1>3. full.checkQuantum
  BY <1>2 DEF Config
<1>4. Judgement(policy, measured, full) = VerdictOf(Evaluate(policy, measured, risk))
  BY <1>3 DEF Judgement
<1>5. risk.assessed /\ RiskUnder(measured, full) = risk /\ full \in Config
  BY <1>2, <1>3 DEF AssessQuantumRisk, RiskUnder, Config
<1>6. CASE config.checkQuantum
  BY <1>1, <1>4, <1>6, Evaluated DEF RiskUnder
<1>7. CASE ~config.checkQuantum
  <2>1. quantum = NotAssessed
    BY <1>1, <1>7 DEF RiskUnder
  <2>2. ~quantum.assessed
    BY <2>1 DEF NotAssessed
  <2>3. ~(policy.minQuantumScore > 0)
    BY <1>1, <2>2, NothingSkipped
  <2>4. risk.score \in Nat
    <3> HIDE DEF risk, full
    <3> QED
      BY <1>2, <1>5, FactorsAreBounded
  <2>5. ~(risk.score < policy.minQuantumScore)
    <3>1. policy.minQuantumScore \in Nat
      BY <1>2 DEF Policy
    <3> HIDE DEF risk
    <3> QED
      BY <2>3, <2>4, <3>1
  <2>6. QuantumViolations(policy, measured, risk) = {}
    BY <1>1, <2>5, QuantumAccepted
  <2>7. SkippedRules(policy, measured, risk) = {}
    BY <1>1, <1>5, NothingSkipped
  <2>8. VerdictOf(Evaluate(policy, measured, risk)) = "compliant"
    <3> HIDE DEF risk
    <3> QED
      BY <1>1, <2>6, <2>7, Evaluated
  <2> QED
    BY <1>4, <2>8
<1> QED
  BY <1>6, <1>7

\* Whatever passes with --skip-quantum passes the full scan.
THEOREM SkippingIsNoShortcut == ReportsSpec => []SkippingOpensNoGate
<1>1. Targeted => SkippingOpensNoGate
  BY SkippingFollows
<1> QED
  BY <1>1, TargetInvariance, PTL

-----------------------------------------------------------------------------
(***************************************************************************)
(* The built-in policies, rule by rule.                                    *)
(***************************************************************************)
LEMMA ModernRules ==
  LET p == DefaultPolicies.modern
  IN  /\ p.minVersion = "TLS1.2" /\ p.maxVersion = Unset /\ p.requiredVersions = {}
      /\ p.bannedVersions = {"TLS1.0", "TLS1.1"} /\ p.minKeySize = 128 /\ p.requireForwardSecrecy
      /\ p.requiredKeyExchange = {} /\ p.bannedAlgorithms = {"3DES", "RC4", "SHA1", "MD5"}
      /\ p.allowedCipherSuites = {} /\ p.bannedCipherSuites = {} /\ p.maxValidityDays = 0
      /\ p.minRsaKeySize = 2048 /\ p.minEccKeySize = 256 /\ p.requiredSignatures = {}
      /\ p.bannedSignatures = {"SHA1", "MD5"} /\ ~p.requireCt /\ ~p.allowSelfSigned
      /\ ~p.requireHybrid /\ p.minQuantumScore = 0 /\ p.requiredKeyExchangeAlgorithms = {}
<1> DEFINE p == DefaultPolicies.modern
<1>1. p = [NoRules EXCEPT !.minVersion = "TLS1.2", !.bannedVersions = {"TLS1.0", "TLS1.1"},
             !.minKeySize = 128, !.requireForwardSecrecy = TRUE,
             !.bannedAlgorithms = {"3DES", "RC4", "SHA1", "MD5"},
             !.minValidityDays = 30, !.minRsaKeySize = 2048, !.minEccKeySize = 256,
             !.bannedSignatures = {"SHA1", "MD5"}]
  BY DEF DefaultPolicies
<1> HIDE DEF p
<1>2. p.minVersion = "TLS1.2" /\ p.maxVersion = Unset /\ p.requiredVersions = {}
  BY <1>1 DEF NoRules
<1>3. p.bannedVersions = {"TLS1.0", "TLS1.1"} /\ p.minKeySize = 128 /\ p.requireForwardSecrecy
  BY <1>1 DEF NoRules
<1>4. p.requiredKeyExchange = {} /\ p.bannedAlgorithms = {"3DES", "RC4", "SHA1", "MD5"}
  BY <1>1 DEF NoRules
<1>5. p.allowedCipherSuites = {} /\ p.bannedCipherSuites = {} /\ p.maxValidityDays = 0
  BY <1>1 DEF NoRules
<1>6. p.minRsaKeySize = 2048 /\ p.minEccKeySize = 256 /\ p.requiredSignatures = {}
  BY <1>1 DEF NoRules
<1>7. p.bannedSignatures = {"SHA1", "MD5"} /\ ~p.requireCt /\ ~p.allowSelfSigned
  BY <1>1 DEF NoRules
<1>8. ~p.requireHybrid /\ p.minQuantumScore = 0 /\ p.requiredKeyExchangeAlgorithms = {}
  BY <1>1 DEF NoRules
<1> QED
  BY <1>2, <1>3, <1>4, <1>5, <1>6, <1>7, <1>8 DEF p

LEMMA StrictRules ==
  LET p == DefaultPolicies.strict
  IN  /\ p.minVersion = "TLS1.3" /\ p.minKeySize = 256 /\ p.requireForwardSecrecy
      /\ p.bannedVersions = VersionNames \ {"TLS1.3"} /\ p.bannedAlgorithms = Algorithms
      /\ p.minRsaKeySize = 4096 /\ p.minEccKeySize = 384
      /\ p.bannedSignatures = {"SHA1", "MD5", "SHA256"} /\ ~p.allowSelfSigned
<1> DEFINE p == DefaultPolicies.strict
<1>1. p = [NoRules EXCEPT !.minVersion = "TLS1.3", !.requiredVersions = {"TLS1.3"},
             !.bannedVersions = VersionNames \ {"TLS1.3"}, !.minKeySize = 256,
             !.requireForwardSecrecy = TRUE, !.bannedAlgorithms = Algorithms,
             !.minValidityDays = 30, !.minRsaKeySize = 4096, !.minEccKeySize = 384,
             !.bannedSignatures = {"SHA1", "MD5", "SHA256"}]
  BY DEF DefaultPolicies
<1> HIDE DEF p
<1>2. p.minVersion = "TLS1.3" /\ p.minKeySize = 256 /\ p.requireForwardSecrecy
  BY <1>1 DEF NoRules
<1>3. p.bannedVersions = VersionNames \ {"TLS1.3"} /\ p.bannedAlgorithms = Algorithms
  BY <1>1 DEF NoRules
<1>4. p.minRsaKeySize = 4096 /\ p.minEccKeySize = 384
  BY <1>1 DEF NoRules
<1>5. p.bannedSignatures = {"SHA1", "MD5", "SHA256"} /\ ~p.allowSelfSigned
  BY <1>1 DEF NoRules
<1> QED
  BY <1>2, <1>3, <1>4, <1>5 DEF p

LEMMA DeadlineRules ==
  ASSUME NEW minVersion, NEW minRsa, NEW score
  PROVE  LET p == Deadline(minVersion, minRsa, score)
         IN  /\ p.minVersion = minVersion /\ p.minKeySize = 256 /\ p.minRsaKeySize = minRsa
             /\ p.requiredVersions = {"TLS1.3"} /\ p.requireHybrid
             /\ DOMAIN p = DOMAIN NoRules
<1> DEFINE p == Deadline(minVersion, minRsa, score)
<1>1. p = [NoRules EXCEPT !.minVersion = minVersion, !.requiredVersions = {"TLS1.3"}, !.minKeySize = 256,
             !.requireForwardSecrecy = TRUE, !.minValidityDays = 30, !.minRsaKeySize = minRsa,
             !.minEccKeySize = 384, !.requireHybrid = TRUE, !.minQuantumScore = score,
             !.requiredKeyExchangeAlgorithms = {"ML-KEM-768", "ML-KEM-1024"}]
  BY DEF Deadline
<1> HIDE DEF p
<1>2. p.minVersion = minVersion /\ p.minKeySize = 256 /\ p.minRsaKeySize = minRsa
  BY <1>1 DEF NoRules
<1>3. p.requiredVersions = {"TLS1.3"} /\ p.requireHybrid
  BY <1>1 DEF NoRules
<1>4. DOMAIN p = DOMAIN NoRules
  BY <1>1 DEF NoRules
<1> QED
  BY <1>2, <1>3, <1>4 DEF p

LEMMA NamesOfRules ==
  { "minVersion", "minKeySize", "minRsaKeySize", "requiredVersions", "requireHybrid",
    "bannedVersions", "requiredSignatures" } \subseteq DOMAIN NoRules
BY DEF NoRules

LEMMA Rules2027 ==
  LET p == DefaultPolicies.cnsa2027
  IN  /\ p.minVersion = "TLS1.2" /\ p.minKeySize = 256 /\ p.minRsaKeySize = 3072
      /\ p.requiredVersions = {"TLS1.3"} /\ p.requireHybrid
<1> DEFINE d == Deadline("TLS1.2", 3072, 50)
           p == DefaultPolicies.cnsa2027
<1>1. p = [d EXCEPT !.requiredKeyExchange = DeadlineGroups]
  BY DEF DefaultPolicies
<1>2. /\ d.minVersion = "TLS1.2" /\ d.minKeySize = 256 /\ d.minRsaKeySize = 3072
      /\ d.requiredVersions = {"TLS1.3"} /\ d.requireHybrid
      /\ DOMAIN d = DOMAIN NoRules
  BY DeadlineRules
<1> HIDE DEF p, d
<1> QED
  BY <1>1, <1>2, NamesOfRules DEF p

LEMMA Rules2030 ==
  LET p == DefaultPolicies.cnsa2030
  IN  /\ p.minVersion = "TLS1.3" /\ p.minKeySize = 256 /\ p.minRsaKeySize = 3072
      /\ p.requiredVersions = {"TLS1.3"} /\ p.requireHybrid
      /\ p.bannedVersions = VersionNames \ {"TLS1.3"}
<1> DEFINE d == Deadline("TLS1.3", 3072, 70)
           e == [d EXCEPT !.requiredKeyExchange = DeadlineGroups]
           p == DefaultPolicies.cnsa2030
<1>1. p = [e EXCEPT !.bannedVersions = VersionNames \ {"TLS1.3"}]
  BY DEF DefaultPolicies
<1>2. /\ d.minVersion = "TLS1.3" /\ d.minKeySize = 256 /\ d.minRsaKeySize = 3072
      /\ d.requiredVersions = {"TLS1.3"} /\ d.requireHybrid
      /\ DOMAIN d = DOMAIN NoRules
  BY DeadlineRules
<1> HIDE DEF d
<1>3. /\ e.minVersion = "TLS1.3" /\ e.minKeySize = 256 /\ e.minRsaKeySize = 3072
      /\ e.requiredVersions = {"TLS1.3"} /\ e.requireHybrid
      /\ DOMAIN e = DOMAIN NoRules
  BY <1>2, NamesOfRules
<1> HIDE DEF p, e
<1> QED
  BY <1>1, <1>3, NamesOfRules DEF p

LEMMA Rules2035 ==
  LET p == DefaultPolicies.cnsa2035
  IN  /\ p.minVersion = "TLS1.3" /\ p.minKeySize = 256 /\ p.minRsaKeySize = 4096
<1> DEFINE d == Deadline("TLS1.3", 4096, 90)
           e == [d EXCEPT !.requiredSignatures = {"ML-DSA"}]
           p == DefaultPolicies.cnsa2035
<1>1. p = [e EXCEPT !.requirePqcCertificates = TRUE]
  BY DEF DefaultPolicies
<1>2. /\ d.minVersion = "TLS1.3" /\ d.minKeySize = 256 /\ d.minRsaKeySize = 4096
      /\ DOMAIN d = DOMAIN NoRules
  BY DeadlineRules
<1> HIDE DEF d
<1>3. /\ e.minVersion = "TLS1.3" /\ e.minKeySize = 256 /\ e.minRsaKeySize = 4096
      /\ DOMAIN e = DOMAIN NoRules
  BY <1>2, NamesOfRules
<1> HIDE DEF p, e
<1> QED
  BY <1>1, <1>3, NamesOfRules DEF p

\* What every built-in policy asks for.
LEMMA BuiltInRules ==
  ASSUME NEW p \in BuiltIn
  PROVE  /\ p.minVersion \in {"TLS1.2", "TLS1.3"}
         /\ p.minKeySize = 256 \/ {"3DES", "RC4"} \subseteq p.bannedAlgorithms
         /\ p.minRsaKeySize \in {2048, 3072, 4096}
<1>1. p \in { DefaultPolicies.modern, DefaultPolicies.strict, DefaultPolicies.cnsa2027,
              DefaultPolicies.cnsa2030, DefaultPolicies.cnsa2035 }
  <2>1. DOMAIN DefaultPolicies = {"modern", "strict", "cnsa2027", "cnsa2030", "cnsa2035"}
    BY DEF DefaultPolicies
  <2> QED
    BY <2>1 DEF BuiltIn
<1> QED
  BY <1>1, ModernRules, StrictRules, Rules2027, Rules2030, Rules2035

-----------------------------------------------------------------------------
(***************************************************************************)
(* The gate and the vulnerability report.                                  *)
(***************************************************************************)
LEMMA NoOldVersionPasses ==
  ASSUME Targeted, Passed, policy \in BuiltIn
  PROVE  "TLS1.0" \notin measured.versions /\ "TLS1.1" \notin measured.versions
<1>1. policy.minVersion \in {"TLS1.2", "TLS1.3"}
  BY BuiltInRules
<1>2. \A v \in measured.versions : ~(Rank(v) < Rank(policy.minVersion))
  <2>1. ProtocolViolations(policy, measured.versions) = {}
    BY WhatPassed
  <2>2. policy.minVersion # Unset
    BY <1>1 DEF Unset
  <2> QED
    BY <2>1, <2>2, ProtocolAccepted
<1>3. Rank(policy.minVersion) >= 3 /\ Rank("TLS1.0") = 1 /\ Rank("TLS1.1") = 2
      /\ Rank(policy.minVersion) \in Nat
  BY <1>1 DEF Rank
<1> QED
  BY <1>2, <1>3

LEMMA NoDeprecatedSuitePasses ==
  ASSUME Targeted, Passed, policy \in BuiltIn, NEW s \in measured.suites
  PROVE  ~Deprecated(s)
<1>1. /\ ~(policy.minKeySize > 0 /\ Bits(s) < policy.minKeySize)
      /\ policy.bannedAlgorithms \cap Contains(s) = {}
  <2>1. SuiteViolations(policy, s) = {}
    BY WhatPassed, CiphersAccepted
  <2> QED
    BY <2>1, SuiteAccepted
<1>2. CASE policy.minKeySize = 256
  BY <1>1, <1>2 DEF Deprecated, Bits
<1>3. CASE {"3DES", "RC4"} \subseteq policy.bannedAlgorithms
  BY <1>1, <1>3 DEF Deprecated, Contains
<1> QED
  BY <1>2, <1>3, BuiltInRules

\* What the verifier has passed is signed with a digest it accepts.
LEMMA PassedMeansAnchored ==
  ASSUME Targeted, Passed
  PROVE  measured.cert.sig \notin {"SHA1", "MD5"} \/ measured.cert.selfSigned
<1> DEFINE judgment == ChainJudgment(connection, answer, now)
<1>1. HasCertificate /\ probe = "verified" /\ measured.cert.chain = "passed"
  BY WhatPassed, WhatAnyPolicyAccepts
<1>2. answer \in VerifierAnswers(connection, clock) /\ judgment.chain = "passed"
  BY <1>1 DEF Targeted, ChainFollows
<1>3. answer.result = "ok"
  BY <1>2 DEF ChainJudgment, ApplyValidityWindowVerdict, Judgment
<1>4. connection.anchored
  BY <1>2, <1>3 DEF VerifierAnswers
<1> QED
  BY <1>1, <1>4 DEF Targeted, CertificateFollows

LEMMA GateFollows ==
  ASSUME Targeted
  PROVE  GateAgreesWithFindings
<1> SUFFICES ASSUME Passed, policy \in BuiltIn, NEW v \in Vulnerabilities(measured),
                    v.severity \in {"CRITICAL", "HIGH"}
             PROVE  v.id = "CERT_WEAK_SIG" /\ measured.cert.selfSigned
  BY DEF GateAgreesWithFindings
<1>1. CASE v \in ProtocolFindings(measured.versions)
  BY <1>1, InProtocolFindings, NoOldVersionPasses DEF Note
<1>2. ASSUME NEW s \in measured.suites, v \in SuiteFindings(s)
      PROVE  FALSE
  <2>1. v = Note("NO_PFS", <<s.kx, s.cipher>>, "MEDIUM")
    BY <1>2, InSuiteFindings, NoDeprecatedSuitePasses
  <2> QED
    BY <2>1 DEF Note
<1>3. CASE measured.cert # NoCertificate /\ v \in CertificateFindings(measured.cert)
  <2> DEFINE c == measured.cert
  <2>1. /\ c \in Certificate /\ c.name = "passed" /\ c.chain = "passed"
        /\ ~Expired(c) /\ ~c.notYetValid
    BY WhatAnyPolicyAccepts
  <2>2. ~(c.key = "RSA" /\ c.bits < 2048)
    <3>1. CertificateViolations(policy, c) = {}
      BY WhatPassed
    <3>2. ~(c.key = "RSA" /\ KeyTooSmall(c.bits, policy.minRsaKeySize))
      BY <3>1, CertificateAccepted
    <3>3. c.bits \in Nat
      BY <2>1 DEF Certificate
    <3>4. policy.minRsaKeySize \in {2048, 3072, 4096}
      BY BuiltInRules
    <3> HIDE DEF c
    <3> QED
      BY <3>2, <3>3, <3>4 DEF KeyTooSmall
  <2>3. v \in WindowFindings(c) => v.severity = "MEDIUM"
    <3>1. v \in WindowFindings(c) => v = Note("CERT_EXPIRING", << >>, "MEDIUM")
      BY <2>1, InWindowFindings
    <3> QED
      BY <3>1 DEF Note
  <2>4. v \in ChainFindings(c) => v.severity = "MEDIUM"
    <3>1. v \in ChainFindings(c) => v = Note("CERT_SELF_SIGNED", <<c.chain>>, "MEDIUM")
      BY <2>1, InChainFindings
    <3> QED
      BY <3>1 DEF Note
  <2>5. c.sig \in {"SHA1", "MD5"} /\ v = Note("CERT_WEAK_SIG", << >>, "HIGH")
    BY <1>3, <2>1, <2>2, <2>3, <2>4, InCertificateFindings
  <2> QED
    BY <2>5, PassedMeansAnchored DEF Note
<1> QED
  BY <1>1, <1>2, <1>3, InVulnerabilities

\* Whatever satisfies a built-in policy has no serious finding in the same scan.
THEOREM GateHeedsTheFindings == ReportsSpec => []GateAgreesWithFindings
<1>1. Targeted => GateAgreesWithFindings
  BY GateFollows
<1> QED
  BY <1>1, TargetInvariance, PTL

LEMMA VacuityFollows ==
  ASSUME Targeted
  PROVE  NoVacuousPass
<1> SUFFICES ASSUME Passed
             PROVE  /\ HasCertificate /\ measured.suites # {}
                    /\ ~RefusedByClients(measured.cert)
                    /\ measured.cert.name = "passed" /\ measured.cert.chain = "passed"
  BY DEF NoVacuousPass
<1> QED
  BY WhatAnyPolicyAccepts DEF Targeted, CertificateFollows

\* No policy passes a scan that looked at nothing.
THEOREM NothingPassesUnseen == ReportsSpec => []NoVacuousPass
<1>1. Targeted => NoVacuousPass
  BY VacuityFollows
<1> QED
  BY <1>1, TargetInvariance, PTL

-----------------------------------------------------------------------------
(***************************************************************************)
(* strict and modern.                                                      *)
(***************************************************************************)
LEMMA StrictFollows ==
  ASSUME Targeted
  PROVE  StrictImpliesModern
<1> SUFFICES ASSUME Passed, policy = DefaultPolicies.strict
             PROVE  Judgement(DefaultPolicies.modern, measured, config) = "compliant"
  BY DEF StrictImpliesModern
<1> DEFINE modern == DefaultPolicies.modern
           risk == RiskUnder(measured, config)
<1>1. /\ quantum = risk
      /\ ProtocolViolations(policy, measured.versions) = {} /\ CipherViolations(policy, measured) = {}
      /\ CertificateViolations(policy, measured.cert) = {}
      /\ SkippedRules(policy, measured, quantum) = {}
  BY WhatPassed
<1>2. measured \in Measurement /\ config \in Config
  BY PolicyOfTheRun
<1>3. Judgement(modern, measured, config) = VerdictOf(Evaluate(modern, measured, risk))
  BY DEF Judgement, RiskUnder
<1>4. ProtocolViolations(modern, measured.versions) = {}
  <2>1. /\ measured.versions # {} /\ measured.versions \subseteq VersionNames
        /\ \A v \in measured.versions : ~(Rank(v) < Rank("TLS1.3"))
    <3>1. policy.minVersion = "TLS1.3" /\ policy.minVersion # Unset
      BY StrictRules DEF Unset
    <3> QED
      BY <1>1, <1>2, <3>1, ProtocolAccepted DEF Measurement
  <2>2. measured.versions = {"TLS1.3"}
    BY <2>1 DEF Rank, VersionNames
  <2>3. ~(Rank("TLS1.3") < Rank("TLS1.2"))
    BY DEF Rank
  <2> HIDE DEF modern
  <2>4. /\ modern.minVersion = "TLS1.2" /\ modern.maxVersion = Unset /\ modern.requiredVersions = {}
        /\ modern.bannedVersions = {"TLS1.0", "TLS1.1"}
    BY ModernRules DEF modern
  <2> QED
    BY <2>2, <2>3, <2>4, ProtocolAccepted
<1>5. CipherViolations(modern, measured) = {}
  <2>1. ASSUME NEW s \in measured.suites
        PROVE  SuiteViolations(modern, s) = {}
    <3>1. SuiteViolations(policy, s) = {}
      BY <1>1, CiphersAccepted
    <3>2. /\ ~(policy.minKeySize > 0 /\ Bits(s) < policy.minKeySize)
          /\ policy.requireForwardSecrecy => ForwardSecrecy(s)
          /\ policy.bannedAlgorithms \cap Contains(s) = {}
      BY <3>1, SuiteAccepted
    <3>3. Bits(s) \in Nat
      BY DEF Bits
    <3>4. ~(Bits(s) < 128)
      BY <3>2, <3>3, StrictRules
    <3>5. ForwardSecrecy(s)
      BY <3>2, StrictRules
    <3>6. {"3DES", "RC4", "SHA1", "MD5"} \cap Contains(s) = {}
      BY <3>2, StrictRules DEF Algorithms
    <3> HIDE DEF modern
    <3>7. /\ modern.minKeySize = 128 /\ modern.bannedAlgorithms = {"3DES", "RC4", "SHA1", "MD5"}
          /\ modern.allowedCipherSuites = {} /\ modern.bannedCipherSuites = {}
      BY ModernRules DEF modern
    <3> QED
      BY <3>4, <3>5, <3>6, <3>7, SuiteAccepted
  <2>2. modern.requiredKeyExchange = {}
    BY ModernRules
  <2> HIDE DEF modern
  <2> QED
    BY <2>1, <2>2, CiphersAccepted
<1>6. CertificateViolations(modern, measured.cert) = {}
  <2> DEFINE c == measured.cert
  <2>1. /\ c # NoCertificate
        /\ c.name # "failed" /\ c.chain # "failed"
        /\ ~Expired(c) /\ ~c.notYetValid
        /\ ~(c.key = "RSA" /\ KeyTooSmall(c.bits, policy.minRsaKeySize))
        /\ ~(c.key = "ECDSA" /\ KeyTooSmall(c.bits, policy.minEccKeySize))
        /\ c.sig \notin policy.bannedSignatures
        /\ ~policy.allowSelfSigned => ~(c.selfSigned /\ ~c.isCA)
    BY <1>1, CertificateAccepted
  <2>2. c.bits \in Nat
    BY WhatAnyPolicyAccepts DEF Certificate
  <2> HIDE DEF c, modern
  <2>3. /\ ~(c.key = "RSA" /\ KeyTooSmall(c.bits, 2048))
        /\ ~(c.key = "ECDSA" /\ KeyTooSmall(c.bits, 256))
    BY <2>1, <2>2, StrictRules DEF KeyTooSmall
  <2>4. c.sig \notin {"SHA1", "MD5"} /\ ~(c.selfSigned /\ ~c.isCA)
    BY <2>1, StrictRules
  <2>5. /\ modern.minRsaKeySize = 2048 /\ modern.minEccKeySize = 256 /\ modern.requiredSignatures = {}
        /\ modern.bannedSignatures = {"SHA1", "MD5"} /\ modern.maxValidityDays = 0
    BY ModernRules DEF modern
  <2>6. CertificateViolations(modern, c) = {}
    BY <2>1, <2>3, <2>4, <2>5, CertificateAccepted
  <2> QED
    BY <2>6 DEF c
<1>7. QuantumViolations(modern, measured, risk) = {}
  <2>1. risk.score \in Nat
    <3> HIDE DEF risk
    <3> QED
      BY <1>2, FactorsAreBounded DEF risk
  <2>2. ~modern.requireHybrid /\ modern.minQuantumScore = 0 /\ modern.requiredKeyExchangeAlgorithms = {}
    BY ModernRules
  <2> HIDE DEF risk, modern
  <2> QED
    BY <2>1, <2>2, QuantumAccepted
<1>8. SkippedRules(modern, measured, risk) = {}
  <2>1. measured.cert.name = "passed" /\ measured.cert.chain = "passed"
    BY WhatAnyPolicyAccepts
  <2>2. /\ modern.requiredVersions = {} /\ modern.bannedVersions = {"TLS1.0", "TLS1.1"}
        /\ modern.minQuantumScore = 0 /\ ~modern.requireCt
    BY ModernRules
  <2> HIDE DEF risk, modern
  <2> QED
    BY <2>1, <2>2, NothingSkipped DEF Unprobeable
<1>9. VerdictOf(Evaluate(modern, measured, risk)) = "compliant"
  <2> HIDE DEF risk, modern
  <2> QED
    BY <1>4, <1>5, <1>6, <1>7, <1>8, Evaluated
<1> QED
  BY <1>3, <1>9

\* Whatever passes strict passes modern.
THEOREM StrictIsStricter == ReportsSpec => []StrictImpliesModern
<1>1. Targeted => StrictImpliesModern
  BY StrictFollows
<1> QED
  BY <1>1, TargetInvariance, PTL
=============================================================================
