-------------------------- MODULE TargetInvariant ---------------------------
(***************************************************************************)
(* The inductive invariant behind the safety of one target's way from the  *)
(* ordinary connection to its report (ReportsSpec).  What is recorded of   *)
(* the certificate follows from the connection and the two readings of the *)
(* clock; what is judged follows from the measurements (AsJudged); the     *)
(* policy, the verdict, the timeline and the documents follow from what    *)
(* was judged; and each comes only after what it is made from is final.    *)
(***************************************************************************)
EXTENDS Reports, AssessmentInvariant

Judgements == {"checked", "assessed", "graded", "returned"}

\* Where the run over one target is, and that nothing is judged too early.
InOrder ==
  /\ stage \in {"measured", "unreached"} \cup Judgements
  /\ probe \in {"connected", "parsed", "named", "verified"}
  /\ stage # "measured" => probe = "verified"
  /\ stage = "unreached" => NothingMeasured
  /\ stage \in Judgements => ~NothingMeasured
  /\ policyResult # NotEvaluated => timeline # NotAnalyzed
  /\ report # NotWritten => NeverReached \/ policyResult # NotEvaluated

\* The connection, and the clock since it was up.
Connected ==
  /\ connection \in Connection
  /\ Len(connection.chain) >= 2 /\ connection.chain[Leaf].onPath
  /\ clock \in 0..MaxClock /\ now \in 0..clock
  /\ policy \in Policies

\* The certificate is as its connection has it.
CertificateFollows ==
  /\ HasCertificate =>
       /\ measured.suites # {}
       /\ connection.anchored => measured.cert.sig \notin {"SHA1", "MD5"} \/ measured.cert.selfSigned
  /\ probe \in {"parsed", "named"} => HasCertificate
  /\ probe \in {"parsed", "named", "verified"} /\ HasCertificate =>
       /\ measured.cert.hours = connection.chain[Leaf].to - now
       /\ measured.cert.notYetValid <=> now < connection.chain[Leaf].from
  /\ probe \in {"named", "verified"} /\ HasCertificate =>
       measured.cert.name = IF connection.requested = "covered" THEN "passed" ELSE "failed"

\* The verdict on its chain is what the verifier's answer amounts to.
ChainFollows ==
  IF probe = "verified" /\ HasCertificate
    THEN /\ answer \in VerifierAnswers(connection, clock)
         /\ measured.cert.chain = ChainJudgment(connection, answer, now).chain
         /\ reason = ChainJudgment(connection, answer, now).reason
    ELSE answer = [result |-> "none"] /\ reason = NoReason

PolicyFollows ==
  policyResult # NotEvaluated =>
    stage = "returned" /\ policyResult = Evaluate(policy, measured, quantum)

VerdictFollows ==
  verdict # "unjudged" => policyResult # NotEvaluated /\ verdict = VerdictOf(policyResult)

TimelineFollows ==
  timeline # NotAnalyzed =>
    stage = "returned" /\ timeline \in Analyses(measured) \cup {NoTimeline}

ReportFollows ==
  report # NotWritten => report = [text |-> Text, html |-> Html, sarif |-> Sarif, cbom |-> Cbom]

Targeted ==
  /\ InOrder /\ Connected
  /\ CertificateFollows /\ ChainFollows
  /\ AsJudged
  /\ PolicyFollows /\ VerdictFollows /\ TimelineFollows /\ ReportFollows
=============================================================================
