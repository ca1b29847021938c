# A verification model of tlsanalyzer

`tlsanalyzer` scans TLS servers, judges what it measured (findings, grade,
quantum readiness, advice), evaluates a policy, and answers with a report and an
exit status that a deployment pipeline acts on. This directory holds TLA+ models
of that program, translated from its Go source, configurations that model-check
them with TLC, and proofs that TLAPS checks.

The promise everything else serves is: *a report says what was measured and who
it was measured on, and exit 0 is never given for something that was not
measured*. The models ask where interleaving, failure, cancellation, skipped
checks or independently written rules could break it.

All paths are relative to the repository. Every definition that models code is
listed in `PROJECT.json` under `map` with the lines it stands for.

## 1. The system

| Component | Source | State | Operations | What makes it correct |
|---|---|---|---|---|
| sweep orchestration | `cmd/tlsanalyzer/main.go` | flags, the result slice, semaphore channel, WaitGroup, progress counter, exit status | `runScan`, `validateFlags`, `scanSingleTarget`, `scanBatchTargets`, `policyOutcome`, `batchOutcome` | ends; never more scans than `--concurrency`; each target's own result in the order of the list; an exit status that was earned |
| probe engine | `internal/scanner/scanner.go` | one `ScanResult` and a few locals shared by four goroutines under a mutex | `Scan`, `probeProtocols`, `probeConnection`, `probeKeyExchangeGroups`, `probeCipherSuites`, the merges | the result is exactly what the handshakes showed; absence is explained; returns, and honours cancellation |
| certificate parsing and verification | `scanner.go` | fields of `Certificate`, one captured instant | `parseCertificateAt`, `verifyCertificateName`, `verifyCertificateChainAt`, `applyValidityWindowVerdict` | a refused chain is never lost; nobody is blamed who is not at fault |
| vulnerability checks | `vulnerabilities.go` | `result.Vulnerabilities` | `checkVulnerabilities` | one finding for each condition, none for its opposite |
| quantum risk | `quantum.go` | `result.QuantumRisk` | `assessQuantumRisk` | its sections tell one story; silent when skipped |
| grade | `grade.go` | `result.Grade` | `calculateGrade` | nothing weaker scores higher; adds up; discloses what was skipped |
| recommendations | `recommendations.go` | `result.Recommendations` | `generateRecommendations` | agrees with the findings |
| policy evaluation | `internal/analyzer/policy.go`, `pkg/types/policy.go` | `PolicyResult` | `Evaluate` and the built-in tables | never passes on missing evidence; agrees with the findings |
| policy loading | `internal/analyzer/policy.go` | a policy under construction | `LoadPolicy`, the `extends` merge, validation | a written rule is never lost or disarmed |
| CNSA 2.0 timeline | `internal/analyzer/cnsa2.go` | a status per milestone, findings, a score, a next action | `Analyze` | agrees with the policies of the same years, the quantum section and the advice |
| reporters | `internal/reporter` | none | `Report` of text, HTML, SARIF, CBOM, JSON | what was not measured never reads as measured; the documents agree |
| sanitisation, encoders | `internal/sanitize`, `pkg/types` | none | rewriting of strings | text only |
| command line and help | `cmd/tlsanalyzer/main.go` | none | cobra, `version`, `policies`, `print-policy` | text only |

How they interact: `runScan` prepares (targets, flags, output file, policy), then
calls `Scanner.Scan` once (single mode) or from one goroutine per target (batch
mode), bounded by a channel used as a semaphore. `Scan` starts its own probe
goroutines, waits, merges, and passes the one `ScanResult` through the
vulnerability, quantum, grade and recommendation steps; the same goroutine then
runs the CNSA analysis and calls `Evaluate`, which
attaches a `PolicyResult`. After `wg.Wait` the main goroutine writes the report and reads the exit status from errors and policy results.
There is no callback and nothing is persisted, so there is no crash recovery to
model. Handshakes are not repeated: a lost connection is a missing measurement.

Hard behaviours: goroutines finishing in any order into a shared slice or
result; a semaphore and two deferred calls; peers that go silent; a context
cancelled in the middle; one target of many failing; measurements that did not
happen, whose zero value looks like a bad (or good) score; and judgements of one
fact written independently in eight files. `PROJECT.json` lists them line by line
under `hazards`.

## 2. The modules

| Module | Models | Notes |
|---|---|---|
| `Outcomes` | what a target's scan ends in, for the orchestration | shared vocabulary |
| `SweepContract` | what a run promises its caller | abstract: no goroutine, semaphore or slot |
| `Sweep` | `runScan` to the exit status | one action per step of the main goroutine and of each target's goroutine |
| `SweepInvariant` | the inductive invariant of `Sweep` | checked by TLC, used by the proofs |
| `SweepProofs` | proofs about `Sweep` | safety for all constants; `Sweep` implements `SweepContract` |
| `Offers` | what each probe offers, how a handshake can end, what an entry of a result is | pure operators, shared by the next two |
| `ScanContract` | what a scan promises its caller | abstract: one look at the server, reported in one piece |
| `ScanProbes` | `Scanner.Scan` up to the merged result | one action per way a handshake ends, one per family's store, the join |
| `ScanInvariant`, `ScanProofs` | the inductive invariant of `ScanProbes`, and the proofs | any servers, suites, groups and number of losses |
| `ScanRefinement` | proofs | `ScanProbes` implements `ScanContract` |
| `Assessment` | the judging steps of `Scan` | pure operators, run as four ordered steps |
| `AssessmentInvariant`, `AssessmentProofs` | the inductive invariant of `Assessment`, and the proofs | scoring is monotone and findings and advice agree, for any measured server |
| `PolicyGate` | `Evaluate`, the built-in policies, the verdict | extends `Assessment` |
| `ChainVerdict` | the ordinary connection's certificate, from the captured instant to the chain verdict | extends `PolicyGate`, supplies the certificate it starts from |
| `CNSA2` | `CNSA2Analyzer.Analyze` | extends `ChainVerdict`, a step between scan and policy |
| `Reports` | what the four documents claim, and the failed scan | extends `CNSA2`, a step between policy and outcome |
| `TargetInvariant` | the inductive invariant of `ReportsSpec` | one target from the connection to its documents |
| `GateProofs` | lemmas | what an evaluation that a server passes says of the server, rule section by rule section |
| `TargetProofs`, `ReportProofs` | proofs about `ReportsSpec` | chain and gate; timeline and documents |
| `PolicyLoad` | `LoadPolicy`, from a file to the rules | extends `PolicyGate`, supplies the policy it judges by |
| `PolicyLoadInvariant`, `PolicyLoadProofs` | the inductive invariant of `LoadSpec`, and the proofs | any policy files and servers |
| `MCSweep`, `MCScanProbes`, `MCAssessment`, `MCHosts`, `MCPolicyGate`, `MCPolicyLoad` | instances for TLC | values only, no behaviour; `MCHosts` is shared by the last two |

The modules meet at narrow places. `Sweep` treats a scan as a call with some
verdict (`ScanReturns`); `ScanProbes` opens the measuring half of that call (its
`Ended` states are the ways the call returns), `Assessment` the judging half, and
`PolicyGate` computes the verdict that `Sweep` otherwise draws at random. Because `Sweep`
allows every verdict for every target, what is shown of it does not depend on
the others. The judging side is one chain of modules, each adding its variables
and steps to those of the one below:

    ChainVerdict (connection, clock)  -> Assessment (findings ... advice)
      -> CNSA2 (timeline) -> PolicyGate (evaluate) -> Reports (documents)
      -> PolicyGate (outcome)

`ReportsSpec` is this whole path of one target, and what `policy_gate` checks.
`PolicyLoad` is the other entrance: `LoadSpec` runs from a policy file to the
outcome on a host.

An operator whose comment begins with *Mutant:* is not part of the model. It is
the form a plausible defect would give the definition that follows it;
`PROJECT.json` (`mutants`) names, for each property, a mutant that it rejects.

### Sweep

`main` is where the main goroutine is, `worker[i]` where the goroutine of target `i` is;
`local[i]` is that goroutine's variable `result`, `results` the shared slice, `sem` the
tokens in the channel, `wg` the WaitGroup, `doc` the reports that have been handed to the
output so far, `Lost` in the place of one that did not arrive.
`CollectTargets`, `ValidateFlags`, `RequireTargets`, `OpenOutput` and `LoadPolicy` are the
preparation in the order of the code, each with its early return. `Spawn` is
`wg.Add(1); go ...`; `Acquire`, `ScanReturns`, `Store`, `Count`, `Release`, `Done` are a goroutine's
life, the last two being the deferred calls in the order they run. `EmitJSON`
writes one document, `EmitReport` one report per target. What a failed write does depends on the
format (`WritesChecked`): the reporters that return the error end the run (`WriteFails`); the text
report ignores every `Fprintf` error and returns nil, so the run goes on to the next
report and to the outcome with `Lost` in the document (`Arrives`). The output file
of `-o` is closed by a deferred call whose error nobody reads, and what was buffered below it may
be lost then, under any format (`Closed`, part of `Exit`). In single mode `worker[1]` stands for the main goroutine's position in
`scanSingleTarget`. A peer may fall silent in a handshake (`FallSilent`); only a
timeout ends that, and `ConnectTimeout` is `timeout/2` in integer division, 0
meaning none. An interrupt appears as scans that return whatever verdict they
then have: what it does inside a scan is in `ScanProbes`.

### ScanProbes

A server is what it accepts: versions, suites, groups, or silence. `Offer(p)` is the
`tls.Config` of each probe and `Handshakes(offer, server)` the handshakes such an
offer can end in (external: Go's `crypto/tls` and the peer, which chooses the
highest common version and then any common suite and group). A probe's handshake
completes, is declined, times out, is aborted by the context, or is lost. The
ordinary connection does not honour the context. A family stores its findings
once its probes are settled; stores are atomic because the code holds `mu`. After
the join the scan merges or reports that it measured nothing.

`ScanContract` says what all this amounts to for the caller, with no goroutine and no
mutex: the scan rejects its target (`Reject`), or looks at the server once and reports what
that look showed (`Measure`). A look is a set of probes that were answered; while
nothing is `disturbed`, every probe that the server cannot but answer is among
them. The report on it is specified, not computed: which entries, which of them marked,
in which order. The mapping takes `state` to `State`, where all that happens before the
scan returns is one `"scanning"`, and `disturbed` to `~Undisturbed`, a lost connection or a cancellation.

### Assessment and PolicyGate

Both are pure functions of a measured result, so their state machine is the order
of the steps, and the interesting part is the set of results: they are
enumerated from `MCAssessment`, and from `MCPolicyGate` by way of `ChainVerdict`. A suite is reduced to the two parts of its
name that the judgements read, a certificate to the fields they read (remaining
life in hours, so that the truncating division to days is real).

### ChainVerdict

A chain is the windows of the leaf, of what the server sent with it and of what
the trust store adds, and whether each is on the path to a root. `CaptureInstant` is
`now := time.Now()` with `parseCertificateAt`; `VerifyCertificateName` and
`VerifyCertificateChain` follow, and in between `Tick` lets the clock run, because
`x509.Verify` is given no `CurrentTime` and reads the clock itself. `VerifierAnswers`
(external) is what it may then say: Go's verifier looks at the leaf's dates first
and names the certificate that failed; a platform verifier names the leaf
whatever failed. `ApplyValidityWindowVerdict` is the code's answer to that: it reads
the leaf's own window, and believes the verifier only when it names another
certificate. `reason` is `ChainTrustReason` as data: which certificate, which end
of its window, on whose word.

### CNSA2

`Milestones`, `CNSAFindings`, `TimelineScore` and `NextActions` translate the functions of
`cnsa2.go` on the measured result. `AnalyzeCNSA2` takes its step after the scan and
before the policy, or skips it (`--skip-cnsa2`). The next action may name any of the
findings of one category that are deprecated: their order is that of the scan.

### Reports

One operator per document, with the claims a reader or a program can take from
it: which sections are there, what stands beside the score, how the certificate
is headed, which alerts and rules, which components. `WriteReport` writes all four,
so that they can be compared; the program writes the one asked for. `ScanFails` is
the error of `Scan` on a result of its own, which every format has to show as a host
that was not reached. Compared are renderers that classify one fact apart:
`CertificateStatus`, the findings behind `BuildResults` and `CertificateValidityContext`;
the letter, the `assessed` flag and the quantum level; the position and the `Priority` of an advice.

### PolicyLoad

A document is what the decoder makes of it: the keys it writes and the value each
field then has. `Spelled` marks a scalar that an untyped reader would take for
something else (`no`, `0.4`). The steps are the code's: read, decode the first
document, ask for the others one at a time (`CountDocument`), then, if the file
extends a built-in policy, decode the same document again onto a copy of it
(`Extend` goes back to `decode` with `overlaying`), and `ValidatePolicy`. `Received` (external)
is what the decoder does to a field that already holds a value: a null empties a
list and leaves the rest alone. A loaded policy then judges a host, because what
must not get lost is the effect of a rule, not its text.

## 3. What is checked

All `pass` runs finish without error; `violation` runs each check one statement that
the repository makes and the code does not keep (section 6).

| Run | Question | Bounds |
|---|---|---|
| `sweep_batch` | Does a sweep end, stay within its concurrency, publish each target's own result in order, and exit with an earned status, whichever format and output it writes to? `IInv` and the safety properties it contains, `QuietAfterWait`, `RunEnds`, `EveryTargetIsScanned`, and the refinement of the contract | 3 targets; concurrency 0, 1, 2; timeout 0, 2; every combination of flags |
| `sweep_single` | The same for one target, which takes another path | 1 target, the same flags |
| `sweep_timeout` (violation) | Does a run end with the smallest timeout `validateFlags` accepts? | 2 targets, timeout 1 |
| `scan_probes` | Is the result exactly what the probes saw, does `Scan` return, and is what its goroutines do one look at the server for the caller (`ImplementsScanContract`)? | 5 servers, one scanner configuration, one loss and one cancellation at any point |
| `scan_interrupted` (violation) | Does every probe honour the context? | a modern server |
| `scan_legacy` (violation) | Is "no TLS connection could be established" only said when it is true? | a server of static-RSA suites |
| `assessment` | Do findings, quantum section, grade and advice agree, and can a worse server or a skipped check look better? | all version sets with the suites they allow; all certificates of a grid |
| `assessment_tls12` (violation) | Is disabling TLS 1.2 free? | servers with TLS 1.3 and 1.2 |
| `policy_gate` | One target from connection to verdict: the gate opens only on evidence; a refused chain is exposed and the right certificate blamed; findings, timeline, policies and documents tell one story | 5 built-in and 4 custom policies; 359 pairs of a server and a connection; the clock may run one hour; either check skipped |
| `policy_load` | Does loading end, refuse what it cannot enforce, and keep every rule that is stated? | 143 files, each judged on 46 hosts |
| `cnsa2_milestone` (violation) | Does `compliant` mean that all requirements of the milestone are met? | the servers of `policy_gate` |
| `policy_2030` (violation) | Do the documented requirements of 2030 suffice to pass it? | the built-in `cnsa-2.0-2030` |

Why the bounds are enough to be interesting:

- *Three targets, concurrency up to two*: the least with a scan running, one
  overlapping it and one queued behind both, so that completion order, starvation
  and a lost token all show. Concurrency 0 and timeout 0 are tried because
  `validateFlags` has to refuse them. The proofs remove this bound for safety.
- *Servers*: one for each way the probes can disagree: TLS 1.3 preferred over
  older suites; every older version with both suites, so that the connection and the
  enumeration find the same one; only suites that a default Go
  client does not offer; silence; refusal. Two older suites (an ephemeral AEAD
  suite and a static-RSA one) differ in everything `Handshakes` reads. Three groups:
  one this build offers, one it does not, a classical one.
- *`MaxLosses = 1`*: one lost handshake can remove any single piece of evidence; a
  cancellation can remove any suffix of them. `ConnectTimeout = 1`: any positive
  bound is the same.
- *Certificates*: hours on each side of both ends of the window and of the 30-day
  mark, each key type around each size limit, each outcome of the name and chain
  checks that `verifyCertificateChainAt` and `applyValidityWindowVerdict` can produce.
- *Custom policies*: each rule that no built-in policy uses.
- *Chains*: a leaf on each side of each end of its window and of thirty days,
  expiring or starting just in the hour the clock may run, and never valid; above it
  a good certificate, a stale one, one that ends during the verification, a stale
  one on no path, and both; a trust store in order or stale; no trusted root; a name
  that is not covered; either kind of verifier. `MaxClock = 1` crosses every
  boundary once, and what matters is on which side of it each reading falls.
- *Policy files*: each rule that can fail a host alone; each way to write a rule that
  is worth nothing; unknown names; overlays on three of the built-in policies that
  tighten, loosen, omit or null a key; overlays that write every rule of the base away
  and leave one or none; one to three documents, among them empty and malformed
  ones, after a first document that is lenient, inheriting, relaxing what it inherits, or empty.
- *Hosts of `policy_load`*: for every rule above one that breaks it and one that
  keeps it. `LoadedPolicyCanFail` looks among these for the host that a declared rule turns
  away, and takes it only if a scan can return it (`Scannable`): each version has a
  suite that exists in it, TLS 1.3 exactly one; the ordinary connection went through, which takes an
  ephemeral AEAD suite and gave a group and a certificate; the key is of a size and
  the signature of a kind that Go's handshake and `x509` accept. The others are judged all the same.
- *`Inert`* names, one by one, the values of a rule that no such host falls short of: a
  floor at or below every suite or key, a ban on what no suite uses, a list that
  leaves nothing out, TLS 1.0 as the minimum, an SSL version as the minimum. Each is the author's
  choice, which the loader's tests call an inert floor. So a policy whose only rule is
  `minVersion: SSL 3.0` **loads and passes every server that a scan can return with a
  certificate its clients accept**: the loader counts the rule as declared, the name is a
  known one (`UnknownVersion` holds all four version fields against the same six names),
  nothing that is probed ranks below it, and unlike a ban it is not recorded as skipped,
  deliberately (`policy.go:1037`, `docs/policies.md:121`).

Deadlock is checked in every other run: the end of a behaviour is an explicit
stuttering step (`Finished`, `Ended`, a reached verdict, a refused file). Only `sweep_timeout` turns it off: a sweep that can move no more, with
every peer silent, is what that run exhibits, and `RunEnds` is the property that
says so.

### Fairness

`Sweep`: weak fairness of the main goroutine and of each target's goroutine. The Go
scheduler runs every goroutine that can run; a dial with a timeout returns; and
each goroutine waiting for the channel eventually gets a token because all of them
give theirs back and none takes a second one. `FallSilent` is not fair and nothing
assumes that a peer answers: that is what makes `RunEnds` depend on the timeout.
`ScanProbes`: weak fairness of the program's own steps together, enough because
each step can be taken once. `Cancel` and `IsLost` are not fair.
`PolicyLoad`: weak fairness of its own step; it is one goroutine that waits for nothing
but the file. That it ends is `LoadReturns`, which needs the decoder's position to move
with every document. The modules from `Assessment` to `Reports` have no liveness
property: each is a fixed number of steps.

## 4. What is proved

Every safety and action property that the passing runs check, and both refinements, are
proved for all values of the constants. A theorem holds for any number of targets, any concurrency and timeout, any servers, suites, groups and losses, any
certificate chains and clocks, any policies and any policy files.

| Module | Theorem | States |
|---|---|---|
| `SweepProofs` | `Invariance` | `Spec => []IInv` |
| | `TypeCorrect` | types; in particular no counter is decremented below zero |
| | `DocumentFaithful` | entry k of the output is what the scan of target k returned, or lost unseen |
| | `SuccessEarned` | exit 0 means every target scanned, its report handed to the writer and, under a policy, compliant and complete; no report is missing unless by a write or a close whose error the run does not look at |
| | `GateMeasured` | exit 2 means the same of the reports, that every target was measured, and that one failed the policy |
| | `ConcurrencyBounded` | scans in flight never exceed `--concurrency` |
| | `QuietWhenReporting` | no goroutine changes anything once main is past `wg.Wait` |
| | `Refinement` | every behaviour of `Sweep` is one of `SweepContract` |
| `ScanProofs` | `Invariance`, `TypeCorrect` | `Spec => []Faithful`; types |
| | `SettledForGood` | what a probe ended in it ends in for good; no family takes back what it stored |
| | `EvidenceNeeded` | a result needs a completed handshake |
| | `NothingLostNothingAdded` | the merged result is exactly what the handshakes showed |
| | `MarkedOnce` | exactly what the ordinary connection used is marked, and nothing is listed twice |
| | `AbsenceIsNeverSilent` | an absent group was offered in vain or is noted |
| | `PreferredVersion` | one preferred version at most, and the one an undisturbed connection negotiated |
| | `EnumerationIsExhaustive` | an undisturbed scan lists every older suite that the server would use with this client |
| `ScanRefinement` | `ImplementsOneLook` | every behaviour of `ScanProbes` is one of `ScanContract` |
| `AssessmentProofs` | `Invariance`, `TypeCorrect` | `Spec => []Judging`; types, among them that a score is between 0 and 100 |
| | `SelfDescriptionIsWorthless` | naming itself its issuer never raises a certificate's score |
| | `RefusalIsExposed` | a refused certificate earns nothing, is found, and is worth repairing |
| | `WeaknessIsWorthless` | accepting something weaker never raises the score |
| | `SkippingIsDisclosed` | a score that is not the full scan's is marked |
| | `QuantumStoryIsOne` | score, level, risks, letter and advice agree |
| | `FindingsAreAdvisedOn` | findings and advice speak of the same conditions |
| `TargetProofs` | `TargetInvariance` | `ReportsSpec => []Targeted` |
| | `BlameIsDeserved` | whoever is blamed for a chain is at fault |
| | `RejectionIsExposed` | a refused chain earns nothing, is found and passes no policy |
| | `SkippingIsNoShortcut` | what passes with `--skip-quantum` passes the full scan |
| | `GateHeedsTheFindings` | what passes a built-in policy has no serious finding |
| | `NothingPassesUnseen` | what passes any policy has a suite and a certificate that clients accept |
| | `StrictIsStricter` | what passes strict passes modern |
| `ReportProofs` | `TimelineIsOneStory` | timeline, deadline policies, quantum section and advice see one server |
| | `WeaknessAdvancesNobody` | becoming weaker never raises the timeline's score |
| | `SilenceIsNotEvidence` | what was not measured reads as measured in no document |
| | `DocumentsAgree` | text, HTML, SARIF and CBOM come to one conclusion |
| `PolicyLoadProofs` | `LoadInvariance` | `LoadSpec => []Loading` |
| | `WrittenRulesDecide` | the verdict is about the rules that the file writes or inherits, each on its own |
| | `LoadedPolicyHasTeeth` | a policy that loads holds an enforceable rule that constrains |
| | `DeclaredRulesBite` | each rule that a loaded policy declares, unless its value is in `Inert`, turns away a server that would pass without it |

### From which assumptions

They stand in the modules that declare the constants, and TLC evaluates them on each run.

- `SweepAssumption`: `N` is a positive natural, the others are sets of integers.
- `ProbesAssumption`, `ProbeInputsAssumption`: the lists of suites and groups are finite, as
  tables of Go are; the TLS 1.3 suites are not among the older ones; no two names sort
  alike (`NameRank`: they are distinct strings); `NoGroup` is not the name of a group.
- `AssessmentAssumption`, `PolicyAssumption`: what is judged is a measurement, what it is
  judged by a policy, of the types that the code has. `Measurement` has no invariant beyond its types.
- `ChainAssumption`: the chain of a connection has its leaf first, and at least one certificate above it.
- `VerifierAssumption`: no verifier builds a path through a SHA-1 or MD5 signature, which
  is `x509.Verify`'s doing; a certificate that is itself trusted needs no signature.
  Only `GateHeedsTheFindings` needs it: no built-in policy has a rule on digests.
- `HandshakeAssumption`: a result with a certificate has a suite. `ScanProbes` shows that
  (`NegotiatedIsMarked`: the connection that gave the certificate gave a suite, and the merge keeps it).
- `PolicyLoadAssumption`: what the decoder makes of a file. A null document writes nothing,
  the rules of a document are among those that exist, and a number or a switch that it
  writes is one, which is what decoding into a typed struct means.
- `DeclaredRulesBite` has a hypothesis of its own: `Measurements` has in it every result that is
  `Scannable`. With fewer a rule might find nobody to turn away; on the hosts of `policy_load`, TLC
  finds that each does. Results that no scan can return are neither needed nor used.

### Along which argument

*Sweep.* None of its properties is inductive. That the report is faithful
needs that every slot was filled when main reads it; that needs that `wg = 0`
implies that every goroutine is done; and that needs the WaitGroup to *count*
the active goroutines (`WaitsCounted`) and all of them to have been started when
main waits (`BatchShape`). The semaphore bound likewise needs `TokensCounted`: the
channel holds one token for each goroutine between acquire and release. `LocalsOwned` and
`SlotsOwned` say whose result each slot holds, `PhasesImply` what each phase of main knows
(no policy verdict before a policy has loaded; all goroutines done at emit). Their
conjunction with `TypeOK` and the goals is `IInv`. `SweepProofs` has a lemma for
each action that `IInv` is kept, grouped by what the action disturbs; lemmas on
cardinalities (`CountUp`, `CountDown`) carry the two counters. The refinement maps
`known` to `local`, `doc` to itself, `status` to `Status` and `unseen` to `Unseen`, the ways a run has to lose a
report without an error that it could see; the contract allows a loss only where there
is one. A returning scan is `Learn`, a report handed over `Publish`, an exit `Pass`, `Gate` or `Fail`, and all else a stutter.

*ScanProbes.* A result is written once, at the join, from what four families stored at
four other moments, so the properties of the result speak of steps long past.
`Faithful` keeps them: a completed probe's handshake is one its offer and the server allow
(`HandshakesAreReal`), a failed one in an undisturbed scan has a reason of the server's (`FailuresAreEarned`), a
family that stored has only settled probes (`StoredIsSettled`), and its store is the summary of those
(`ProtocolsAgree` to `SuitesAgree`). That settled probes stay settled is what makes a summary
stay true (`SummariesStay`). `SuitesMerged` and `GroupsMerged` say what the two merges return, in whatever
order the code sorts them; `SortedIsBijection` that sorting neither drops nor repeats. `EnumerationIsExhaustive`
and `PreferredVersion` need more: which version two offers to one server end in (`HandshakeVersion`).

*One look.* The refinement has one visible step, the join. The probes that completed are the
look: each could be answered (`HandshakesAreReal`), and in an undisturbed scan those that had to be were,
because a probe that failed failed for a reason of the server's (`EvidenceIsALook`). It is the
invariant on stored summaries that makes the stored findings those of this one set of
probes, although each family stored at a moment of its own. Then each part of the
report is shown to be what the contract asks of it; `SortedAlong` turns a sort by the
code's comparison into an order the contract can speak of, for any list. Every
other step is invisible, or loses a connection, or gives up, which is `Disturb`.

*Assessment.* The fields of the result are functions of measurements and flags once their step
is taken, which is the invariant (`Judging`); the work is in the functions. A score is a quotient
of sums with a penalty off, clamped, so *worse never scores higher* is a chain of
monotonicity lemmas: more findings cost more (`PenaltyGrows`), more points are a
higher percentage (`PercentageIsMonotone`), and `ScoreIsMonotone` joins them. What is left for each property is what the change
does to each factor and each finding (`OldVersionsCost`, `WeakSuitesCost`, `RepairPays`). Changing
a certificate replaces one finding by another, so the findings of the two servers are not
subsets of each other; `PenaltySplits` compares the ones that the change touches apart from all the others. For findings and advice,
each pair of an identifier and a title is shown to come from one condition
(`FoundForACause`, `CauseIsAdvised`).

*The target.* `Targeted` says of every field on the way from connection to document what it is
computed from, and that it is computed only when that is final (`InOrder`): a clock that runs
between the two readings, a policy judged before the chain verdict, or a document
written before the verdict would each break it. Above it, `GateProofs` says for each section of rules what a
passing evaluation implies; `WhatAnyPolicyAccepts` and `DeadlineRules` draw the consequences for
any policy and for the built-in tables, which are independent of each other, so that `StrictIsStricter` and the
timeline theorem compare them rule by rule. `SurfacesFollow` compares the documents claim by claim.

*Policy loading.* `Loading` says at each stage what has been decoded onto what, and that no document
after the first one carried anything. `RuleByRule` is the key lemma: an evaluation is
compliant just when each single rule is satisfied. It turns the verdict on the whole policy
into verdicts on policies of one rule, which is how the property states what a rule is worth.
`DeclaredRulesBite` needs for each kind of rule a server that it alone turns away: one with a
certificate that every policy accepts, and beside it the version, suite, key,
lifetime or group that the rule is about (`ProtocolRuleBites` to `QuantumRuleBites`). It has to
be one that a scan can return (`HostIsSound`), so an old version comes beside TLS 1.2 and a static-RSA suite
beside an ephemeral one (`AlsoSpeaking`, `Running`): alone, they would leave the connection without a certificate. That such a server exists is where
validation is used: a version that nobody knows would rank nowhere, and a bound that
is not a number would bound nothing (`VersionsAreKnown`, `SizesAreNumbers`).

Names in the models have no spaces (`"Enable_TLS1.3"`): the provers cannot translate a string that has them.

### What the proof attempts corrected

TLC had passed these on their small instances; the proofs did not go through, and were right.

- `FindingsAndAdviceAgree` said that a certificate has at most one finding on its window and that each one is advised
  on. A certificate whose window ends before it begins is both expired and not yet
  valid: two findings (`vulnerabilities.go:109`, `:123`), and advice about one of them only
  (`recommendations.go:120-129`). The property now says so, and the grid has such a certificate.
- `EveryWrittenRuleDecides` held the base policy's rule against a file whose first document
  relaxes it and whose second document is empty: it asked of the empty document what it
  inherits. It now speaks of the rules written in any document and of what the first
  one states or inherits; `policy_load` has the file.
- `DeclaredRulesBite` chose its servers among all measurements of the right type, some of
  which no scan returns, such as TLS 1.0 alone with a certificate. Asking for a `Scannable` one showed that a floor
  of 224 bits for elliptic keys, 1024 for RSA, and a key exchange list with every group in it are inert too.
- `LoadedPolicyCanFail` asked for one host that fails the whole policy, which a single rule could provide
  while all others were worth nothing, and it exempted every policy with a version bound that
  nothing undercuts. It now asks for a host for each rule that is declared, and only the values for
  which there is none are exempt (`Inert`).

### What is only model-checked

- `RunEnds`, `EveryTargetIsScanned`, `ScanReturns` and `LoadReturns`: liveness under fairness is out of the
  prover's reach.
- The six statements of the `violation` runs, which are false.

## 5. What the models leave out

- *Names, prose, layout.* No string is put together. The factors' descriptions,
  report layouts, colours, sanitisation, the JSON encoding and the CBOM schema are not
  modelled; a reason is which certificate and which end of its window. JSON is the
  result itself.
- *Duplicates.* A set stands for a list when the code removes duplicates or when
  each entry occurs once; scores and penalties count distinct findings.
- *Representatives.* `X25519` stands for the classical groups; the AES and ChaCha20 suites are AEAD ones;
  there is at most one suite of each kind. CBC suites other than 3DES are not
  enumerated.
- *One address per scan.* Each probe of the code resolves and dials the name
  again; the model has one server behind it.
- *Verifying a chain* is external: which path Go or the platform builds, and their
  other reasons to refuse, are one outcome "untrusted". `assessment` enumerates the
  outcomes of the name and chain checks instead of deriving them.
- *Phase and days* of the CNSA timeline, which depend on the date only, and the
  deadline texts of its findings. 3DES and RC4 come out as "transitional" there because
  the code goes by the number of bits; the model says so, no property does.
- *A policy is always given* in `PolicyGate` and the modules above it; the text report
  without one only lacks its section.
- *The YAML syntax*: a document is malformed, has an unknown key, is empty, or carries
  values of the right kinds.
- *Names of policies*: a file that extends a built-in and sets no `name` is loaded under the
  name of the built-in; the model has it, and no property speaks of names.
- *SSL 2.0 and 3.0* are never probed, so nothing about them is measured. `bannedVersions` and
  `requiredVersions` that name them become skipped rules; as `minVersion` they are
  a floor that nothing undercuts, as `maxVersion` a cap that every version exceeds.
- *Parts of a report.* An entry of `doc` is a whole report; one that arrived in part counts as
  `Lost`. What the process does not live to see (a signal, a closed pipe on standard output) is not modelled.
- *MD2* is not among the signatures; Go has not been able to verify or produce one for years,
  and only `vulnerabilities.go:294` names it.
- *Post-quantum certificates*: Go cannot parse a certificate that would earn
  quantum points, so `CertificateQuantumScore` is 0.

## 6. Findings

Each is shown by a `violation` run; `PROJECT.json` quotes the lines.

1. `sweep_timeout`: `--timeout 1` is accepted and halves to 0, which means no
   bound, so a single silent host keeps the sweep waiting for ever: the effect that
   `validateFlags` says it prevents.
2. `scan_interrupted`: the ordinary connection uses `tls.DialWithDialer`, which takes
   no context, though the changelog says that connection probes honour it.
3. `scan_legacy`: the evidence test after the join does not read the enumerated
   suites, so a server with which only a suite probe could shake hands is
   reported as not speaking TLS.
4. `assessment_tls12`: with TLS 1.3 one suite is reported, so without TLS 1.2 the
   suites that carried the 256-bit points are gone and the score falls, though the
   README says disabling TLS 1.2 is free.
5. `policy_2030`: the built-in policy also demands a quantum score of 70; hybrid
   key exchange with a classical certificate is worth 64, so doing everything the
   documentation lists is not enough.
6. `cnsa2_milestone`: the milestone "TLS 1.3 Required" lists hybrid key exchange among its
   requirements, and its status does not look at key exchange: TLS 1.3 alone is
   `compliant`, which the documentation defines as all requirements met.

Two more limits of the code have no run of their own; the properties allow for them. First,
`SuccessIsEarned` and `GateSpeaksOfMeasuredTargets` cannot say that every report exists. A text report that cannot be written
(`text.go:30-109` drops the error of every write) and an output file that
cannot be closed (`main.go:405`) end in the status the verdicts give, 0 or 2, without a report; the
comment at `main.go:472`, that a failing policy still prints its findings, does not hold then.
Second, `minVersion: SSL 3.0` alone is a policy that loads and cannot fail a measured server (section 3).

## 7. Plan

Done: `Sweep` and `ScanProbes`, each with its contract, invariant, proofs and refinement; the judging
path `ChainVerdict`, `Assessment`, `CNSA2`, `PolicyGate`, `Reports` with the invariant of the whole
path, and `PolicyLoad` before it, with theirs.

Next: composition. That the three ways a scan returns in `Sweep` are the ways that `ReportsSpec` ends, so
that the verdict drawn there is the one computed by `PolicyGate`.
