------------------------ MODULE AssessmentInvariant -------------------------
(***************************************************************************)
(* The inductive invariant behind the safety of Assessment: from the step  *)
(* that fills it on, each field of the result is what its step computes    *)
(* from the measured result and the flags, and it is empty until then.     *)
(* It holds wherever the four steps are composed with others that leave a  *)
(* result alone once it is being judged.                                   *)
(***************************************************************************)
EXTENDS Assessment

\* The four fields as functions of what was measured and of the flags.
FindingsUnder(m, cfg) == IF cfg.checkVulns THEN Vulnerabilities(m) ELSE {}
RiskUnder(m, cfg) == IF cfg.checkQuantum THEN AssessQuantumRisk(m) ELSE NotAssessed
GradeUnder(m, cfg) == CalculateGrade(m, cfg, FindingsUnder(m, cfg), RiskUnder(m, cfg))
AdviceUnder(m, cfg) == GenerateRecommendations(m, cfg, RiskUnder(m, cfg))

FindingsFollow ==
  vulns = IF stage \in {"checked", "assessed", "graded", "returned"}
            THEN FindingsUnder(measured, config) ELSE {}

QuantumFollows ==
  quantum = IF stage \in {"assessed", "graded", "returned"}
              THEN RiskUnder(measured, config) ELSE NotAssessed

GradeFollows ==
  grade = IF stage \in {"graded", "returned"} THEN GradeUnder(measured, config) ELSE Pending

AdviceFollows ==
  recs = IF stage = "returned" THEN AdviceUnder(measured, config) ELSE << >>

\* A result that can be judged, and the judgements so far.
AsJudged ==
  /\ measured \in Measurement /\ config \in Config
  /\ FindingsFollow /\ QuantumFollows /\ GradeFollows /\ AdviceFollows

\* The inductive invariant of Assessment on its own.
Judging ==
  /\ measured \in Measurements /\ config \in Configs
  /\ stage \in {"measured", "checked", "assessed", "graded", "returned"}
  /\ AsJudged
=============================================================================
