------------------------------- MODULE CNSA2 --------------------------------
(***************************************************************************)
(* CNSA2Analyzer.Analyze, run by the command between the scan and the      *)
(* policy: five milestones, a list of findings, a score and a next action, *)
(* all read from the measured result and written out apart from the        *)
(* quantum section, the advice and the policies.                           *)
(*                                                                         *)
(* The phase and the days to the deadline depend on the date alone and are *)
(* left out.                                                               *)
(***************************************************************************)
EXTENDS ChainVerdict

Milestone(name, status, gap) == [name |-> name, status |-> status, gap |-> gap]

NSSGap(m) ==
  Advise("ML-KEM_key_exchange_not_detected", ~HasHybrid(m))
    \o Advise("no_256-bit_symmetric_cipher_suite", m.suites # {} /\ \A s \in m.suites : Bits(s) < 256)

\* Mutant: the one hybrid group that browsers offer is looked for by name.
NSSByName(m) ==
  Milestone("New_NSS_Systems",
            IF "X25519MLKEM768" \notin m.groups THEN "non-compliant"
            ELSE IF NSSGap(m) = << >> THEN "compliant" ELSE "partial", NSSGap(m))

NewNSSSystems(m) ==
  Milestone("New_NSS_Systems",
            IF ~HasHybrid(m) THEN "non-compliant"
            ELSE IF NSSGap(m) = << >> THEN "compliant" ELSE "partial", NSSGap(m))

LegacyGap(m) ==
  Advise("Legacy_protocol_still_enabled:_TLS1.2", "TLS1.2" \in m.versions)
    \o Advise("Legacy_protocol_still_enabled:_TLS1.1", "TLS1.1" \in m.versions)
    \o Advise("Legacy_protocol_still_enabled:_TLS1.0", "TLS1.0" \in m.versions)

TLS13Required(m) ==
  LET has13 == "TLS1.3" \in m.versions
  IN  Milestone("TLS1.3_Required",
                IF ~has13 THEN "non-compliant" ELSE IF LegacyGap(m) = << >> THEN "compliant" ELSE "partial",
                Advise("TLS1.3_not_supported", ~has13) \o LegacyGap(m))

\* No certificate that Go can parse is post-quantum.
NotYetRequired(name) == Milestone(name, "not-applicable", <<"PQC_certificates_not_yet_available">>)

\* analyzeMilestone, over CNSA2Milestones.
Milestones(m) ==
  << Milestone("Preparation_Phase", "in-progress", << >>), NewNSSSystems(m), TLS13Required(m),
     NotYetRequired("Legacy_System_Update"), NotYetRequired("Full_PQC_Transition") >>

-----------------------------------------------------------------------------
Says(category, algorithm, status) == [category |-> category, algorithm |-> algorithm, status |-> status]

KeyExchangeStatus(g) ==
  IF g \in HybridGroups THEN "approved" ELSE IF g = "X25519" THEN "transitional" ELSE "deprecated"

AnalyzeKeyExchange(m) ==
  {Says("key-exchange", g, KeyExchangeStatus(g)) : g \in m.groups}
    \cup (IF m.groups = {} \/ HasHybrid(m) THEN {}
          ELSE {Says("key-exchange", "classical-only", "prohibited")})

AnalyzeSignatures(c) ==
  IF c = NoCertificate THEN {}
  ELSE LET enough == IF c.key = "RSA" THEN 3072 ELSE 384
       IN  { Says("signature", c.sig, IF c.sig \in {"SHA384", "SHA256"} THEN "transitional" ELSE "deprecated"),
             Says("signature-key", c.key,
                  IF c.key \notin {"RSA", "ECDSA"} THEN "unknown"
                  ELSE IF c.bits >= enough THEN "transitional" ELSE "deprecated") }

\* By the number of bits alone: 3DES has 168 and RC4 has 128.
AnalyzeSymmetric(m) ==
  {Says("symmetric", s.cipher, IF Bits(s) >= 256 THEN "approved"
                               ELSE IF Bits(s) >= 128 THEN "transitional" ELSE "deprecated") : s \in m.suites}

Categories == <<"key-exchange", "signature", "signature-key", "symmetric">>

CNSAFindings(m) == AnalyzeKeyExchange(m) \cup AnalyzeSignatures(m.cert) \cup AnalyzeSymmetric(m)

-----------------------------------------------------------------------------
Weights ==
  [n \in 1..5 |-> IF n = 1 THEN 10 ELSE IF n = 2 THEN 30 ELSE IF n = 3 THEN 25 ELSE IF n = 4 THEN 20 ELSE 15]

\* Mutant: a status the table does not list is not held against the server.
StatusScoreLenient(status) ==
  IF status = "partial" THEN 60 ELSE IF status = "in-progress" THEN 40 ELSE 100

\* What lies in the future costs nothing.
StatusScore(status) ==
  IF status \in {"compliant", "not-applicable"} THEN 100
  ELSE IF status = "partial" THEN 60 ELSE IF status = "in-progress" THEN 40 ELSE 0

\* calculateTimelineScore; the weights add up to 100.
TimelineScore(milestones) ==
  LET part(n) == (Weights[n] * StatusScore(milestones[n].status)) \div 100
  IN  part(1) + part(2) + part(3) + part(4) + part(5)

\* determineNextAction: the first gap of the first milestone that is missed, or
\* the first deprecated algorithm by category; the order within a category is
\* that of the scan and left open.
NextActions(milestones, findings) ==
  LET missed == {n \in 1..5 : milestones[n].status \in {"non-compliant", "partial"} /\ milestones[n].gap # << >>}
      bad(k) == {f \in findings : f.category = Categories[k] /\ f.status \in {"deprecated", "prohibited"}}
      blamed == {k \in 1..4 : bad(k) # {}}
      First(S) == CHOOSE n \in S : \A k \in S : n <= k
  IN  IF missed # {} THEN {<<"close", milestones[First(missed)].gap[1]>>}
      ELSE IF blamed # {} THEN {<<"replace", f.algorithm>> : f \in bad(First(blamed))}
      ELSE {<<"continue_monitoring">>}

\* Analyze, once for each next action it may come to.
Analyses(m) ==
  { [ status |-> "analyzed", milestones |-> Milestones(m), findings |-> CNSAFindings(m),
      score |-> TimelineScore(Milestones(m)), next |-> a ] :
    a \in NextActions(Milestones(m), CNSAFindings(m)) }

-----------------------------------------------------------------------------
VARIABLE timeline    \* CNSA2Timeline

NotAnalyzed == [status |-> "pending"]
NoTimeline == [status |-> "skipped"]

cnsaVars == <<gateVars, chainVars, timeline>>

CNSAInit == ChainInit /\ timeline = NotAnalyzed

\* The flag --skip-cnsa2 is read here and nowhere else.
AnalyzeCNSA2 ==
  /\ stage = "returned" /\ timeline = NotAnalyzed
  /\ timeline' \in Analyses(measured) \cup {NoTimeline}
  /\ UNCHANGED <<gateVars, chainVars>>

\* The policy is evaluated after the analysis.
CNSANext ==
  \/ AnalyzeCNSA2
  \/ (stage = "returned" => timeline # NotAnalyzed) /\ ChainNext /\ UNCHANGED timeline

CNSASpec == CNSAInit /\ [][CNSANext]_cnsaVars

-----------------------------------------------------------------------------
(***************************************************************************)
(* Properties.                                                             *)
(***************************************************************************)
Analyzed == timeline.status = "analyzed"
StatusOf(n) == timeline.milestones[n].status

\* Two judgements of one deadline never contradict each other in the direction
\* that their scope notes exclude (cnsa2.go:137-153): a server that passes the
\* policy of a target year meets that year's milestone, exclusivity being more
\* than adoption; for 2030 no server shows it yet, because none attains the
\* policy's quantum score (DocumentedChecksSuffice).  And the timeline, the quantum section and the advice, each
\* with its own test for hybrid key exchange and for TLS 1.3, see one server
\* (CHANGELOG.md:542, a report whose sections disagree on quantum readiness).
TimelineTellsTheSameStory ==
  Analyzed =>
    /\ Passed /\ policy = DefaultPolicies.cnsa2027 => StatusOf(2) = "compliant"
    /\ Passed /\ policy = DefaultPolicies.cnsa2030 => StatusOf(2) = "compliant" /\ StatusOf(3) = "compliant"
    /\ StatusOf(3) = "non-compliant" <=> "Enable_TLS1.3" \in Advised
    /\ {"Disable_TLS1.0", "Disable_TLS1.1"} \cap Advised # {} => StatusOf(3) # "compliant"
    /\ quantum.assessed =>
         /\ quantum.hybridReady <=> StatusOf(2) # "non-compliant"
         /\ quantum.hybridReady <=> \E f \in timeline.findings : f.category = "key-exchange" /\ f.status = "approved"
         /\ quantum.hybridReady => \A f \in timeline.findings : f.status # "prohibited"
         /\ timeline.next = <<"close", "ML-KEM_key_exchange_not_detected">> <=>
              "Enable_Hybrid_Post-Quantum_Key_Exchange" \in Advised

\* A server never advances on the timeline by becoming weaker: an older version,
\* one more suite, giving up its hybrid groups or TLS 1.3 never raises the score
\* (cnsa2.go:222, an unobserved cipher list is not a measured absence; :459,
\* "Future requirements don't penalize").
WeakerNeverAdvances ==
  Analyzed =>
    \A weaker \in
         { [measured EXCEPT !.versions = @ \cup {v}] : v \in VersionNames \ {"TLS1.3"} }
           \cup { [measured EXCEPT !.suites = @ \cup {s}] : s \in {x \in Suite : Bits(x) < 256} }
           \cup { [measured EXCEPT !.groups = @ \ HybridGroups],
                  [measured EXCEPT !.versions = @ \ {"TLS1.3"}] } :
      TimelineScore(Milestones(weaker)) <= timeline.score

\* docs/cnsa-2.0-compliance.md:118, "`compliant` - all requirements met", of the
\* milestone whose requirements name TLS 1.3 and "Hybrid PQC key exchange
\* required" (cnsa2.go:111-115).
CompliantMilestoneMeetsItsRequirements ==
  Analyzed /\ StatusOf(3) = "compliant" => measured.versions = {"TLS1.3"} /\ HasHybrid(measured)
=============================================================================
