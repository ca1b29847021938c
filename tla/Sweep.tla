------------------------------- MODULE Sweep --------------------------------
(***************************************************************************)
(* One invocation of tlsanalyzer, from its flags to its exit status:       *)
(* runScan's preparation, then scanSingleTarget for one target or          *)
(* scanBatchTargets for several.                                           *)
(*                                                                         *)
(* Processes: the main goroutine, and in batch mode one goroutine per      *)
(* target (worker).  A scan is a call that returns some outcome, at once   *)
(* or after the peer goes silent; module ScanProbes opens it up.           *)
(***************************************************************************)
EXTENDS Outcomes, FiniteSets

CONSTANTS
  N,              \* number of targets collected when the list is not empty
  Concurrencies,  \* values of --concurrency to try
  Timeouts        \* values of --timeout to try, in seconds

ASSUME SweepAssumption ==
  /\ N \in Nat \ {0}
  /\ Concurrencies \subseteq Int
  /\ Timeouts \subseteq Int

Slots == 1..N
Batch == N > 1

(***************************************************************************)
(* The command line.  "stream" stands for sarif, cbom and html, which like *)
(* text are written one report after another, "unknown" for a value        *)
(* outside supportedFormats; a policy is absent, loads, is refused when it *)
(* is loaded or looked up, or is named by both flags; the output is        *)
(* standard output or a file.                                              *)
(***************************************************************************)
Flags ==
  [ targets     : {"listed", "none", "unreadable"},
    format      : {"json", "text", "stream", "unknown"},
    port        : {"usable", "outOfRange"},
    concurrency : Concurrencies,
    timeout     : Timeouts,
    policy      : {"absent", "loads", "refused", "both"},
    output      : {"stdout", "file", "uncreatable"} ]

VARIABLES
  flags,      \* the command line
  main,       \* where the main goroutine is
  next,       \* the slot its spawning loop reaches next
  worker,     \* where each target's goroutine is
  local,      \* that goroutine's variable `result`
  results,    \* the shared slice
  sem,        \* tokens in the semaphore channel
  wg,         \* the WaitGroup counter
  completed,  \* the progress counter
  doc,        \* what has arrived in the output, one entry per report
  code        \* the exit code, once main = "exited"

vars == <<flags, main, next, worker, local, results, sem, wg, completed, doc, code>>

exitOK           == 0
exitScanFailed   == 1
exitPolicyFailed == 2

Preparing == {"collect", "validate", "require", "open", "load"}
Holding   == {"scanning", "silent", "scanned", "stored", "counted"}

TypeOK ==
  /\ flags \in Flags
  /\ main \in Preparing \cup {"spawn", "wait", "emit", "single", "exited"}
  /\ next \in 1..N+1
  /\ worker \in [Slots -> {"unstarted", "queued", "released", "done"} \cup Holding]
  /\ local \in [Slots -> Result(Slots) \cup {NoResult}]
  /\ results \in [Slots -> Result(Slots) \cup {NoResult}]
  /\ sem \in Nat /\ wg \in Nat /\ completed \in Nat
  /\ doc \in Seq(Result(Slots) \cup {Lost})
  /\ code \in {exitOK, exitScanFailed, exitPolicyFailed}

Init ==
  /\ flags \in Flags
  /\ main = "collect"
  /\ next = 1
  /\ worker = [i \in Slots |-> "unstarted"]
  /\ local = [i \in Slots |-> NoResult]
  /\ results = [i \in Slots |-> NoResult]
  /\ sem = 0 /\ wg = 0 /\ completed = 0
  /\ doc = << >>
  /\ code = exitOK

-----------------------------------------------------------------------------
(***************************************************************************)
(* The exit status.                                                        *)
(***************************************************************************)

\* policyOutcome: non-compliance and an incomplete evaluation both fail the
\* gate; results without a policy verdict are passed over.
PolicyOutcome(rs) ==
  IF \E i \in DOMAIN rs : rs[i].verdict \in {"violated", "incomplete"}
    THEN exitPolicyFailed
    ELSE exitOK

\* Mutant: the policy gate is consulted before the scan failures.
PolicyFirst(rs) ==
  IF PolicyOutcome(rs) # exitOK THEN PolicyOutcome(rs)
  ELSE IF \E i \in DOMAIN rs : rs[i].verdict = Unreached THEN exitScanFailed ELSE exitOK

\* Mutant: a sweep exits by its policy alone, whatever could not be scanned.
IgnoreUnreached(rs) == PolicyOutcome(rs)

\* batchOutcome: a target that could not be scanned is reported before, and
\* instead of, any policy failure.
BatchOutcome(rs) ==
  IF \E i \in DOMAIN rs : rs[i].verdict = Unreached
    THEN exitScanFailed
    ELSE PolicyOutcome(rs)

-----------------------------------------------------------------------------
(***************************************************************************)
(* The main goroutine: preparation.                                        *)
(***************************************************************************)
shared == <<worker, local, results, sem, wg, completed>>

\* The deferred Close of an output file is the last to hear that some of it
\* could not be saved, and its error is dropped.
Closed == IF flags.output = "file" THEN Remains(doc) ELSE {doc}

\* runScan returns and the process ends.
Exit(c) == main' = "exited" /\ code' = c /\ doc' \in Closed

\* One preparation step: proceed to `to` when ok, else exit with a scan failure.
Prepare(at, ok, to) ==
  /\ main = at
  /\ IF ok THEN main' = to /\ UNCHANGED <<code, doc>> ELSE Exit(exitScanFailed)
  /\ UNCHANGED <<flags, next, shared>>

CollectTargets == Prepare("collect", flags.targets # "unreadable", "validate")

\* Mutants: --concurrency and --timeout accept the value 0.
AcceptZeroConcurrency(f) ==
  /\ f.format # "unknown"
  /\ f.port = "usable"
  /\ f.concurrency >= 0
  /\ f.timeout >= 1
  /\ f.policy # "both"

AcceptZeroTimeout(f) ==
  /\ f.format # "unknown"
  /\ f.port = "usable"
  /\ f.concurrency >= 1
  /\ f.timeout >= 0
  /\ f.policy # "both"

UsableFlags(f) ==
  /\ f.format # "unknown"
  /\ f.port = "usable"
  /\ f.concurrency >= 1
  /\ f.timeout >= 1
  /\ f.policy # "both"

ValidateFlags  == Prepare("validate", UsableFlags(flags), "require")
RequireTargets == Prepare("require", flags.targets # "none", "open")

\* os.Create: the previous report is truncated here, before the policy loads.
OpenOutput == Prepare("open", flags.output # "uncreatable", "load")

LoadPolicy ==
  Prepare("load", flags.policy # "refused", IF Batch THEN "spawn" ELSE "single")

\* cfg.ConnectTimeout, the only bound on a handshake: integer division of the
\* seconds, and to the dialer 0 means no bound.
ConnectTimeout == flags.timeout \div 2

-----------------------------------------------------------------------------
(***************************************************************************)
(* A scan, as the call s.Scan(ctx, t).                                     *)
(***************************************************************************)
ScanVerdicts ==
  {Unreached} \cup IF flags.policy = "loads" THEN Judged ELSE {"unjudged"}

\* The peer stops answering in the middle of a handshake.
FallSilent(i) ==
  /\ worker[i] = "scanning"
  /\ worker' = [worker EXCEPT ![i] = "silent"]
  /\ UNCHANGED <<flags, main, next, local, results, sem, wg, completed, doc, code>>

\* The call returns, with an error (which becomes an Unreached result) or with
\* a result, which the same goroutine then evaluates against the policy.  A
\* silent peer is left behind only by a timeout.
ScanReturns(i) ==
  /\ \/ worker[i] = "scanning"
     \/ worker[i] = "silent" /\ ConnectTimeout > 0
  /\ worker' = [worker EXCEPT ![i] = "scanned"]
  /\ \E v \in ScanVerdicts : local' = [local EXCEPT ![i] = [target |-> i, verdict |-> v]]
  /\ UNCHANGED <<flags, main, next, results, sem, wg, completed, doc, code>>

-----------------------------------------------------------------------------
(***************************************************************************)
(* Writing a report, which the system may refuse at any byte (a full disk, *)
(* a closed pipe).  The JSON, SARIF, CBOM and HTML reporters return that   *)
(* error.  TextReporter.Report ignores the error of every Fprintf and      *)
(* returns nil, as main does with the separator after it: the run goes on  *)
(* without the report.                                                     *)
(***************************************************************************)
\* A write that fails is seen.
WritesChecked == flags.format # "text"

\* Mutant: a reporter drops the error of its writes in every format.
ArrivesUnchecked(r) == {r, Lost}

\* What stands in the output after Report(output, r) returned nil.
Arrives(r) == {r} \cup IF WritesChecked THEN {} ELSE {Lost}

\* A report is due: the next one of a sweep, or the one of a single target.
ReportDue ==
  \/ main = "emit" /\ Len(doc) < N
  \/ main = "single" /\ worker[1] = "scanned" /\ local[1].verdict # Unreached /\ doc = << >>

\* reporter.WriteJSON or Report returns an error: no outcome is computed.
WriteFails ==
  /\ ReportDue
  /\ WritesChecked
  /\ Exit(exitScanFailed)
  /\ UNCHANGED <<flags, next, shared>>

-----------------------------------------------------------------------------
(***************************************************************************)
(* Single-target mode: the main goroutine makes the call itself, so        *)
(* worker[1] stands for its own position inside scanSingleTarget.          *)
(***************************************************************************)
SingleScan ==
  /\ main = "single" /\ worker[1] = "unstarted"
  /\ worker' = [worker EXCEPT ![1] = "scanning"]
  /\ UNCHANGED <<flags, main, next, local, results, sem, wg, completed, doc, code>>

\* Mutant: the failure of the scan is swallowed.
SingleFailsSilently ==
  /\ main = "single" /\ worker[1] = "scanned" /\ local[1].verdict = Unreached
  /\ Exit(exitOK)
  /\ UNCHANGED <<flags, next, shared>>

\* A failed scan ends the run with no report at all.
SingleFails ==
  /\ main = "single" /\ worker[1] = "scanned" /\ local[1].verdict = Unreached
  /\ Exit(exitScanFailed)
  /\ UNCHANGED <<flags, next, shared>>

SingleReport ==
  /\ main = "single" /\ ReportDue
  /\ \E r \in Arrives(local[1]) : doc' = <<r>>
  /\ UNCHANGED <<flags, main, next, code, shared>>

\* The gate is consulted after the report was handed over, so that a failing
\* policy still prints the findings that explain it.
SingleOutcome ==
  /\ main = "single" /\ doc # << >>
  /\ Exit(PolicyOutcome(<<local[1]>>))
  /\ UNCHANGED <<flags, next, shared>>

-----------------------------------------------------------------------------
(***************************************************************************)
(* Batch mode: the main goroutine.                                         *)
(***************************************************************************)
\* Mutant: wg.Add is left to the goroutine, which has not run yet.
SpawnWithoutAdd ==
  /\ main = "spawn" /\ next <= N
  /\ worker' = [worker EXCEPT ![next] = "queued"]
  /\ next' = next + 1
  /\ UNCHANGED <<flags, main, local, results, sem, wg, completed, doc, code>>

Spawn ==
  /\ main = "spawn" /\ next <= N
  /\ wg' = wg + 1
  /\ worker' = [worker EXCEPT ![next] = "queued"]
  /\ next' = next + 1
  /\ UNCHANGED <<flags, main, local, results, sem, completed, doc, code>>

SpawnedAll ==
  /\ main = "spawn" /\ next > N
  /\ main' = "wait"
  /\ UNCHANGED <<flags, next, doc, code, shared>>

Wait ==
  /\ main = "wait" /\ wg = 0
  /\ main' = "emit"
  /\ UNCHANGED <<flags, next, doc, code, shared>>

\* --format json: one document for the whole batch.
EmitJSON ==
  /\ main = "emit" /\ flags.format = "json" /\ doc = << >>
  /\ doc' = results
  /\ UNCHANGED <<flags, main, next, code, shared>>

\* Every other format: one report per result, in slice order.
EmitReport ==
  /\ main = "emit" /\ flags.format # "json" /\ Len(doc) < N
  /\ \E r \in Arrives(results[Len(doc) + 1]) : doc' = Append(doc, r)
  /\ UNCHANGED <<flags, main, next, code, shared>>

Conclude ==
  /\ main = "emit" /\ Len(doc) = N
  /\ Exit(BatchOutcome(results))
  /\ UNCHANGED <<flags, next, shared>>

-----------------------------------------------------------------------------
(***************************************************************************)
(* Batch mode: the goroutine of target i.                                  *)
(***************************************************************************)
\* Mutant: an off-by-one in the capacity of the channel.
AcquireLate(i) ==
  /\ worker[i] = "queued"
  /\ sem <= flags.concurrency
  /\ sem' = sem + 1
  /\ worker' = [worker EXCEPT ![i] = "scanning"]
  /\ UNCHANGED <<flags, main, next, local, results, wg, completed, doc, code>>

\* sem <- struct{}{}: blocks while the channel is full.
Acquire(i) ==
  /\ worker[i] = "queued"
  /\ sem < flags.concurrency
  /\ sem' = sem + 1
  /\ worker' = [worker EXCEPT ![i] = "scanning"]
  /\ UNCHANGED <<flags, main, next, local, results, wg, completed, doc, code>>

\* Mutant: results are appended as the scans finish.
StoreAsCompleted(i) ==
  LET free == {k \in Slots : results[k] = NoResult}
      first == CHOOSE k \in free : \A m \in free : k <= m
  IN  /\ Batch /\ worker[i] = "scanned"
      /\ results' = [results EXCEPT ![first] = local[i]]
      /\ worker' = [worker EXCEPT ![i] = "stored"]
      /\ UNCHANGED <<flags, main, next, local, sem, wg, completed, doc, code>>

\* results[slot] = result
Store(i) ==
  /\ Batch /\ worker[i] = "scanned"
  /\ results' = [results EXCEPT ![i] = local[i]]
  /\ worker' = [worker EXCEPT ![i] = "stored"]
  /\ UNCHANGED <<flags, main, next, local, sem, wg, completed, doc, code>>

\* The critical section of progressMu, which touches nothing else.
Count(i) ==
  /\ worker[i] = "stored"
  /\ completed' = completed + 1
  /\ worker' = [worker EXCEPT ![i] = "counted"]
  /\ UNCHANGED <<flags, main, next, local, results, sem, wg, doc, code>>

\* Mutant: the token is not given back.
ReleaseForgotten(i) ==
  /\ worker[i] = "counted"
  /\ worker' = [worker EXCEPT ![i] = "released"]
  /\ UNCHANGED <<flags, main, next, local, results, sem, wg, completed, doc, code>>

\* The deferred calls run in reverse order: the token first, then wg.Done.
Release(i) ==
  /\ worker[i] = "counted"
  /\ sem' = sem - 1
  /\ worker' = [worker EXCEPT ![i] = "released"]
  /\ UNCHANGED <<flags, main, next, local, results, wg, completed, doc, code>>

Done(i) ==
  /\ worker[i] = "released"
  /\ wg' = wg - 1
  /\ worker' = [worker EXCEPT ![i] = "done"]
  /\ UNCHANGED <<flags, main, next, local, results, sem, completed, doc, code>>

-----------------------------------------------------------------------------
MainStep ==
  \/ CollectTargets \/ ValidateFlags \/ RequireTargets \/ OpenOutput \/ LoadPolicy
  \/ SingleScan \/ SingleFails \/ SingleReport \/ SingleOutcome
  \/ Spawn \/ SpawnedAll \/ Wait \/ EmitJSON \/ EmitReport \/ WriteFails \/ Conclude

WorkerStep(i) ==
  Acquire(i) \/ ScanReturns(i) \/ Store(i) \/ Count(i) \/ Release(i) \/ Done(i)

Finished == main = "exited" /\ UNCHANGED vars

Next ==
  \/ MainStep
  \/ \E i \in Slots : WorkerStep(i) \/ FallSilent(i)
  \/ Finished

Spec == Init /\ [][Next]_vars

\* The Go scheduler runs every goroutine that can run, and a dial that has a
\* timeout returns; that a peer answers is assumed of nobody.
FairSpec ==
  /\ Spec
  /\ WF_vars(MainStep)
  /\ \A i \in Slots : WF_vars(WorkerStep(i))
-----------------------------------------------------------------------------
(***************************************************************************)
(* Properties.                                                             *)
(***************************************************************************)

\* The ways in which this run may lose a report without noticing.
Unseen ==
  (IF WritesChecked THEN {} ELSE {"write"}) \cup (IF flags.output = "file" THEN {"close"} ELSE {})

\* The k-th entry of the output is what the k-th target's own scan returned,
\* whatever order the scans finished in and however far the writing got: no
\* slot is read before its goroutine stored into it, and no result lands under
\* another target's name (main.go:483, "batch output follows the order of the
\* targets file").  An entry is missing from its place only in a run that does
\* not look at the errors of its writes or of its Close.
DocumentIsFaithful ==
  \A k \in DOMAIN doc :
    IF doc[k] = Lost THEN Unseen # {} ELSE doc[k] = local[k] /\ doc[k].target = k

\* Every target's report was handed to the writer, and nothing of them is
\* missing unless the run had a way to lose it unseen: text reports
\* (text.go:30) and output files (main.go:405) may be.
Reported ==
  /\ Len(doc) = N
  /\ Unseen = {} => \A k \in DOMAIN doc : doc[k] # Lost

\* Exit 0 is earned: every target was scanned, under a policy every one of them
\* was fully evaluated and compliant ("tlsanalyzer --targets hosts.txt &&
\* deploy", main.go:588), and no write error that a reporter returned was
\* overtaken by the pass.
SuccessIsEarned ==
  main = "exited" /\ code = exitOK =>
    /\ Reported
    /\ \A i \in Slots :
         local[i].verdict = IF flags.policy = "absent" THEN "unjudged" ELSE "compliant"

\* Exit 2 is a verdict about evidence: it is given only under a loaded policy,
\* after every target was scanned and its report written without an error that
\* the run could see, and some target failed it.  A target that was never
\* reached turns the status into 1 even beside a violated policy (main.go:82,
\* "a verdict about nothing").
GateSpeaksOfMeasuredTargets ==
  main = "exited" /\ code = exitPolicyFailed =>
    /\ flags.policy = "loads"
    /\ Reported
    /\ \A i \in Slots : local[i].verdict \in Judged
    /\ \E i \in Slots : local[i].verdict # "compliant"

\* Never more scans in flight than --concurrency allows, counting a goroutine
\* until it gives its token back (main.go:491).
InFlight == {i \in Slots : worker[i] \in Holding}
SemaphoreRespected == Batch /\ InFlight # {} => Cardinality(InFlight) <= flags.concurrency

\* Once the main goroutine is past wg.Wait, no goroutine touches what it reads,
\* nor the counters: the report is written with nothing running beside it.
QuietAfterWait ==
  [][(main = "emit" \/ main = "exited") => UNCHANGED shared]_vars

\* Every invocation ends, also with a peer that falls silent in the middle of a
\* handshake and also with values of --concurrency and --timeout that cannot
\* work (validateFlags: "a single unresponsive host wedged an entire sweep").
RunEnds == <>(main = "exited")

\* No queued target is starved of the semaphore.
EveryTargetIsScanned == \A i \in Slots : worker[i] = "queued" ~> worker[i] = "done"

\* The run implements what a run promises.
Status ==
  IF main # "exited" THEN "running"
  ELSE IF code = exitOK THEN "passed"
  ELSE IF code = exitPolicyFailed THEN "gated"
  ELSE "failed"

Contract == INSTANCE SweepContract WITH known <- local, status <- Status, unseen <- Unseen
ImplementsContract == Contract!Spec
=============================================================================
