------------------------------ MODULE Outcomes ------------------------------
(***************************************************************************)
(* What one target's scan ends in, as the orchestration code sees it: a    *)
(* *types.ScanResult reduced to the two fields that the exit status        *)
(* depends on, its Error and its PolicyResult.                             *)
(***************************************************************************)
EXTENDS Integers, Sequences

\* result.Error # "": the target was never measured.
Unreached == "unreached"

\* A scanned target, by its PolicyResult: nil ("unjudged"); compliant and
\* complete; compliant with rules left unevaluated; not compliant.
Judged  == {"compliant", "incomplete", "violated"}
Verdict == {Unreached, "unjudged"} \cup Judged

\* A result carries the target it is about: slots are numbered from 1 in the
\* order of the targets file, and a target is identified with its slot.
Result(S) == [target : S, verdict : Verdict]

\* The nil a results slot holds before its goroutine stores into it.
NoResult == [target |-> 0, verdict |-> "nil"]

\* The place of a report in the output when some of what was written for it did
\* not arrive and nobody looked.
Lost == [target |-> 0, verdict |-> "lost"]

\* What may be left of an output when the system loses some of its entries.
Remains(d) == {[k \in DOMAIN d |-> IF k \in gone THEN Lost ELSE d[k]] : gone \in SUBSET DOMAIN d}
=============================================================================
