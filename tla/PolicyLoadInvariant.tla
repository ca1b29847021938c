------------------------ MODULE PolicyLoadInvariant -------------------------
(***************************************************************************)
(* The inductive invariant behind the safety of PolicyLoad: what each      *)
(* stage of the loader knows about the file, so that the rules the gate    *)
(* judges by are the first document decoded onto what it extends, no       *)
(* other document says anything, and nothing is judged before that.        *)
(***************************************************************************)
EXTENDS PolicyLoad, AssessmentInvariant

Fresh == [name |-> Unset, rules |-> NoRules]

\* What the document under way is decoded onto.
Onto ==
  IF overlaying THEN [name |-> First.extends, rules |-> DefaultPolicies[First.extends]] ELSE Fresh

\* No document from the second to before the given one carries anything.
SilentBefore(d) == \A k \in 2..(d - 1) : ~Carries(file.documents[k])

LoaderInOrder ==
  /\ file \in Files
  /\ loading \in {"read", "decode", "count", "decoded", "validate", "loaded", "refused"}
  /\ overlaying \in BOOLEAN /\ extra \in BOOLEAN /\ position \in Nat
  /\ loading = "read" => ~overlaying

\* The document has a policy in it, and what was decoded is that policy.
FirstIsDecoded ==
  /\ loading \in {"read", "decode"} => decoded = Onto
  /\ loading \in {"count", "decoded", "validate", "loaded"} =>
       /\ file.documents # << >> /\ First.kind \in {"policy", "null"}
       /\ decoded = Decode(First, Onto)

\* The second decode is onto the policy that the first one named.
OverlayIsNamed ==
  /\ overlaying /\ loading # "refused" =>
       /\ First.extends \in DOMAIN DefaultPolicies
       /\ standalone = Decode(First, Fresh).rules
  /\ loading \in {"validate", "loaded"} =>
       /\ standalone = Decode(First, Fresh).rules
       /\ ~overlaying => First.extends = Unset

OthersAreSilent ==
  /\ loading = "count" => position >= 2 /\ (extra \/ SilentBefore(position))
  /\ loading \in {"decoded", "validate", "loaded"} => SilentBefore(Len(file.documents) + 1)

\* What validatePolicy lets through.
RulesAreValid ==
  loading = "loaded" =>
    /\ policy = decoded.rules
    /\ \/ DeclaresARule(WrittenKeys(First), standalone)
       \/ overlaying /\ DeclaresARule(RuleKeys, decoded.rules)
    /\ ~UnknownVersion(policy) /\ ~NamesNothing(policy)

\* The gate waits for the loader, and judges the result as it was returned.
GateFollows ==
  /\ loading # "loaded" => policyResult = NotEvaluated /\ verdict = "unjudged"
  /\ policyResult # NotEvaluated =>
       stage = "returned" /\ policyResult = Evaluate(policy, measured, quantum)
  /\ verdict # "unjudged" => policyResult # NotEvaluated /\ verdict = VerdictOf(policyResult)

Loading ==
  /\ LoaderInOrder /\ FirstIsDecoded /\ OverlayIsNamed /\ OthersAreSilent
  /\ RulesAreValid /\ GateFollows
  /\ AsJudged

\* Whatever was written, inherited or written away, a policy that loads holds a
\* rule that constrains and whose violation fails the gate.
LoadedPolicyDeclares == Loaded => \E key \in Enforceable : Constrains(key, policy[key])
=============================================================================
