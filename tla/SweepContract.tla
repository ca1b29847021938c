--------------------------- MODULE SweepContract ----------------------------
(***************************************************************************)
(* What a run over N targets promises its caller, with no goroutine, no    *)
(* semaphore and no slot: targets become known in any order; once all are  *)
(* known a document is published in the order of the targets file, without *)
(* gaps as long as the run has no way to lose a report unseen; and the     *)
(* exit status is the one a pipeline can act on.                           *)
(***************************************************************************)
EXTENDS Outcomes

CONSTANT N    \* at least 1

Slots == 1..N

VARIABLES
  known,    \* what the run has learned about each target, or NoResult
  doc,      \* the published document: one entry per target
  status,   \* "running", or how the process ended
  unseen    \* how a report can be lost unseen: by a write, by the last Close

vars == <<known, doc, status, unseen>>

TypeOK ==
  /\ known \in [Slots -> Result(Slots) \cup {NoResult}]
  /\ doc \in Seq(Result(Slots) \cup {Lost})
  /\ status \in {"running", "passed", "gated", "failed"}
  /\ unseen \subseteq {"write", "close"}

AllKnown  == \A i \in Slots : known[i] # NoResult
AllClean  == \A i \in Slots : known[i].verdict \in {"unjudged", "compliant"}
AllMet    == \A i \in Slots : known[i].verdict # Unreached
Published == Len(doc) = N

Init ==
  /\ known = [i \in Slots |-> NoResult]
  /\ doc = << >>
  /\ status = "running"
  /\ unseen \subseteq {"write", "close"}

Learn(i) ==
  /\ status = "running"
  /\ known[i] = NoResult
  /\ \E v \in Verdict : known' = [known EXCEPT ![i] = [target |-> i, verdict |-> v]]
  /\ UNCHANGED <<doc, status, unseen>>

\* The document only ever grows along the order of the targets file, and what
\* is added to it is what is known, unless a write can fail unseen.
Publish ==
  /\ status = "running"
  /\ AllKnown
  /\ \E n \in Len(doc)+1 .. N, gone \in SUBSET Slots :
       /\ gone # {} => "write" \in unseen
       /\ doc' = [k \in 1..n |-> IF k <= Len(doc) THEN doc[k]
                                ELSE IF k \in gone THEN Lost ELSE known[k]]
  /\ UNCHANGED <<known, status, unseen>>

\* The run ends, and with it what was accepted for its output is saved or not.
End(how) ==
  /\ status = "running"
  /\ status' = how
  /\ doc' \in IF "close" \in unseen THEN Remains(doc) ELSE {doc}
  /\ UNCHANGED <<known, unseen>>

Pass == Published /\ AllKnown /\ AllClean /\ End("passed")

\* The policy gate speaks only about targets that were all measured and
\* reported.
Gate == Published /\ AllKnown /\ AllMet /\ ~AllClean /\ End("gated")

\* The run fails before it starts, or after every target is known: because
\* one was not reached or because the document could not be written.
Fail ==
  /\ \/ \A i \in Slots : known[i] = NoResult
     \/ AllKnown /\ (~Published \/ ~AllMet)
  /\ End("failed")

Next == (\E i \in Slots : Learn(i)) \/ Publish \/ Pass \/ Gate \/ Fail

Spec == Init /\ [][Next]_vars
=============================================================================
