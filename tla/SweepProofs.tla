---------------------------- MODULE SweepProofs -----------------------------
(***************************************************************************)
(* Theorems about Sweep, for every number of targets, every set of values  *)
(* of --concurrency and --timeout, and every interleaving.                 *)
(*                                                                         *)
(* The argument is the inductive invariant IInv of SweepInvariant.  The    *)
(* lemmas that follow go through the actions of Next in three groups: the  *)
(* preparation, the main goroutine, and the goroutines of the targets.     *)
(***************************************************************************)
EXTENDS SweepInvariant, FiniteSetTheorems, TLAPS

-----------------------------------------------------------------------------
(***************************************************************************)
(* Counting goroutines.                                                    *)
(***************************************************************************)

\* Every set of slots is finite, so the goroutines can be counted.
LEMMA SlotsFinite == ASSUME NEW S \in SUBSET Slots PROVE IsFiniteSet(S) /\ Cardinality(S) \in Nat
<1>1. IsFiniteSet(Slots)
  BY SweepAssumption, FS_Interval DEF Slots
<1>2. IsFiniteSet(S)
  BY <1>1, FS_Subset
<1> QED
  BY <1>2, FS_CardinalityType

\* One more goroutine counts one more.
LEMMA CountUp ==
  ASSUME NEW S \in SUBSET Slots, NEW T \in SUBSET Slots, NEW i \in Slots,
         i \notin S, T = S \cup {i}
  PROVE  Cardinality(T) = Cardinality(S) + 1
BY SlotsFinite, FS_AddElement

\* One goroutine fewer counts one fewer.
LEMMA CountDown ==
  ASSUME NEW S \in SUBSET Slots, NEW T \in SUBSET Slots, NEW i \in Slots,
         i \in S, T = S \ {i}
  PROVE  Cardinality(T) = Cardinality(S) - 1 /\ Cardinality(S) > 0
<1>1. Cardinality(S) = Cardinality(T) + 1
  BY CountUp, i \notin T, S = T \cup {i}
<1> QED
  BY <1>1, SlotsFinite

\* Nobody to count.
LEMMA CountNone == Cardinality({}) = 0
BY FS_EmptySet

-----------------------------------------------------------------------------
(***************************************************************************)
(* The initial states.                                                     *)
(***************************************************************************)

\* IInv holds before the flags are looked at.
LEMMA InitInv == Init => IInv
<1> SUFFICES ASSUME Init PROVE IInv
  OBVIOUS
<1>1. InFlight = {} /\ Active = {}
  BY DEF Init, InFlight, Holding, Active
<1>2. TypeOK
  BY SweepAssumption DEF Init, TypeOK, Preparing, Holding, exitOK, exitScanFailed, exitPolicyFailed, Slots
<1>3. TokensCounted /\ WaitsCounted /\ SemaphoreRespected
  BY <1>1, CountNone DEF Init, TokensCounted, WaitsCounted, SemaphoreRespected
<1>4. LocalsOwned /\ SlotsOwned
  BY DEF Init, LocalsOwned, SlotsOwned, Returned, Stored
<1>5. SingleShape /\ BatchShape /\ PhasesImply
  BY SweepAssumption DEF Init, SingleShape, BatchShape, PhasesImply, Preparing, Slots, Batch
<1>6. DocumentOwned /\ SuccessIsEarned /\ GateSpeaksOfMeasuredTargets
  BY SweepAssumption DEF Init, DocumentOwned, DocumentIsFaithful, Unseen, WritesChecked, SuccessIsEarned, GateSpeaksOfMeasuredTargets
<1> QED
  BY <1>2, <1>3, <1>4, <1>5, <1>6 DEF IInv

-----------------------------------------------------------------------------
(***************************************************************************)
(* The main goroutine: preparation.                                        *)
(***************************************************************************)

\* A system that loses entries of an output leaves the others in their places.
LEMMA RemainsOf ==
  ASSUME NEW S, NEW d \in Seq(S \cup {Lost}), NEW e \in Remains(d)
  PROVE  /\ e \in Seq(S \cup {Lost}) /\ Len(e) = Len(d)
         /\ \A k \in DOMAIN e : k \in DOMAIN d /\ e[k] \in {d[k], Lost}
<1>1. PICK gone \in SUBSET DOMAIN d : e = [k \in DOMAIN d |-> IF k \in gone THEN Lost ELSE d[k]]
  BY DEF Remains
<1>2. DOMAIN d = 1..Len(d) /\ Len(d) \in Nat /\ \A k \in 1..Len(d) : d[k] \in S \cup {Lost}
  OBVIOUS
<1>3. e \in [1..Len(d) -> S \cup {Lost}]
  BY <1>1, <1>2
<1>4. e \in Seq(S \cup {Lost}) /\ Len(e) = Len(d)
  BY <1>2, <1>3
<1> QED
  BY <1>1, <1>2, <1>4

\* From an empty output nothing can be lost.
LEMMA RemainsOfNone == Remains(<< >>) = {<< >>}
<1>1. \A gone : [k \in DOMAIN << >> |-> IF k \in gone THEN Lost ELSE << >>[k]] = << >>
  OBVIOUS
<1>2. {} \in SUBSET DOMAIN << >>
  OBVIOUS
<1> QED
  BY <1>1, <1>2 DEF Remains

\* The end of the run may lose what it wrote only where nobody looks, and moves
\* no report to another place.
LEMMA ExitKeeps ==
  ASSUME IInv, NEW c, Exit(c), UNCHANGED <<flags, shared>>
  PROVE  /\ main' = "exited" /\ code' = c
         /\ doc' \in Seq(Result(Slots) \cup {Lost}) /\ Len(doc') = Len(doc)
         /\ DocumentOwned'
         /\ doc' = << >> <=> doc = << >>
<1>1. doc \in Seq(Result(Slots) \cup {Lost}) /\ Len(doc) <= N
      /\ \A k \in DOMAIN doc :
           IF doc[k] = Lost THEN Unseen # {} ELSE doc[k] = local[k] /\ doc[k].target = k
  BY DEF IInv, TypeOK, DocumentOwned, DocumentIsFaithful
<1>2. Unseen' = Unseen /\ local' = local
  BY DEF Unseen, WritesChecked, shared
<1>3. CASE doc' = doc
  BY <1>1, <1>2, <1>3 DEF Exit, Closed, DocumentOwned, DocumentIsFaithful
<1>4. CASE flags.output = "file" /\ doc' \in Remains(doc)
  <2>1. /\ doc' \in Seq(Result(Slots) \cup {Lost}) /\ Len(doc') = Len(doc)
        /\ \A k \in DOMAIN doc' : k \in DOMAIN doc /\ doc'[k] \in {doc[k], Lost}
    BY <1>1, <1>4, RemainsOf
  <2>2. Unseen # {}
    BY <1>4 DEF Unseen
  <2>3. DocumentOwned'
    BY <1>1, <1>2, <2>1, <2>2 DEF DocumentOwned, DocumentIsFaithful
  <2>4. doc' = << >> <=> doc = << >>
    BY <1>1, <2>1
  <2> QED
    BY <2>1, <2>3, <2>4 DEF Exit, Closed
<1> QED
  BY <1>3, <1>4 DEF Exit, Closed

\* A preparation step keeps IInv, if the mode it enters is the right one and
\* it is entered with a policy that loaded or with none.
LEMMA PrepareInv ==
  ASSUME IInv, NEW at \in Preparing, NEW ok \in BOOLEAN,
         NEW to \in Preparing \cup {"spawn", "single"},
         Prepare(at, ok, to),
         to = "spawn" => Batch,
         to = "single" => ~Batch,
         ok /\ to \in {"require", "open", "load"} => flags.policy # "both",
         ok /\ to \notin Preparing => flags.policy \in {"absent", "loads"}
  PROVE  IInv'
<1>1. /\ main = at /\ main \in Preparing
      /\ UNCHANGED <<flags, next, doc, worker, local, results, sem, wg, completed>>
  <2>1. main = at /\ doc = << >>
    BY DEF Prepare, IInv, PhasesImply
  <2>2. doc' = doc
    BY <2>1, RemainsOfNone DEF Prepare, Exit, Closed
  <2> QED
    BY <2>1, <2>2 DEF Prepare, shared
<1>2. \/ ok /\ main' = to /\ code' = code
      \/ main' = "exited" /\ code' = exitScanFailed
  BY DEF Prepare, Exit, Closed
<1>3. InFlight' = InFlight /\ Active' = Active /\ ScanVerdicts' = ScanVerdicts
  BY <1>1 DEF InFlight, Active, ScanVerdicts
<1>4. TypeOK'
  BY <1>1, <1>2 DEF IInv, TypeOK, Preparing, exitScanFailed
<1>5. TokensCounted' /\ WaitsCounted' /\ SemaphoreRespected'
  BY <1>1, <1>3 DEF IInv, TokensCounted, WaitsCounted, SemaphoreRespected
<1>6. LocalsOwned' /\ SlotsOwned' /\ DocumentOwned'
  BY <1>1, <1>3 DEF IInv, LocalsOwned, SlotsOwned, DocumentOwned, DocumentIsFaithful, Unseen, WritesChecked
<1>7. doc = << >> /\ next = 1 /\ \A i \in Slots : worker[i] = "unstarted"
  BY <1>1 DEF IInv, PhasesImply
<1>8. SingleShape' /\ BatchShape'
  BY <1>1, <1>2, <1>7, SweepAssumption DEF IInv, SingleShape, BatchShape, Preparing, Slots
<1>9. PhasesImply'
  BY <1>1, <1>2, <1>7 DEF PhasesImply, Preparing
<1>10. SuccessIsEarned' /\ GateSpeaksOfMeasuredTargets'
  BY <1>1, <1>2 DEF Preparing, SuccessIsEarned, GateSpeaksOfMeasuredTargets,
     exitOK, exitScanFailed, exitPolicyFailed
<1> QED
  BY <1>4, <1>5, <1>6, <1>8, <1>9, <1>10 DEF IInv

\* The five preparation steps keep IInv.
LEMMA PreparationInv ==
  ASSUME IInv,
         CollectTargets \/ ValidateFlags \/ RequireTargets \/ OpenOutput \/ LoadPolicy
  PROVE  IInv'
<1>1. CASE CollectTargets
  BY <1>1, PrepareInv DEF CollectTargets, Preparing
<1>2. CASE ValidateFlags
  BY <1>2, PrepareInv DEF ValidateFlags, UsableFlags, Preparing
<1>3. CASE RequireTargets
  <2>1. flags.policy # "both"
    BY <1>3 DEF RequireTargets, Prepare, IInv, PhasesImply
  <2> QED
    BY <1>3, <2>1, PrepareInv DEF RequireTargets, Preparing
<1>4. CASE OpenOutput
  <2>1. flags.policy # "both"
    BY <1>4 DEF OpenOutput, Prepare, IInv, PhasesImply
  <2> QED
    BY <1>4, <2>1, PrepareInv DEF OpenOutput, Preparing
<1>5. CASE LoadPolicy
  <2>1. flags.policy \in {"absent", "loads", "refused"}
    BY <1>5 DEF LoadPolicy, Prepare, IInv, PhasesImply, TypeOK, Flags
  <2>2. Prepare("load", flags.policy # "refused", IF Batch THEN "spawn" ELSE "single")
    BY <1>5 DEF LoadPolicy
  <2>3. CASE Batch
    BY <2>1, <2>2, <2>3, PrepareInv DEF Preparing
  <2>4. CASE ~Batch
    BY <2>1, <2>2, <2>4, PrepareInv DEF Preparing
  <2> QED
    BY <2>3, <2>4
<1> QED
  BY <1>1, <1>2, <1>3, <1>4, <1>5

-----------------------------------------------------------------------------
(***************************************************************************)
(* The main goroutine: steps that leave the other goroutines' state alone. *)
(***************************************************************************)

\* The parts of IInv that speak of the goroutines alone.
LEMMA MainKeeps ==
  ASSUME IInv, UNCHANGED <<flags, shared>>
  PROVE  /\ TokensCounted' /\ WaitsCounted' /\ SemaphoreRespected'
         /\ LocalsOwned' /\ SlotsOwned'
<1>1. InFlight' = InFlight /\ Active' = Active /\ ScanVerdicts' = ScanVerdicts
  BY DEF InFlight, Active, ScanVerdicts, shared
<1> QED
  BY <1>1 DEF IInv, shared, TokensCounted, WaitsCounted, SemaphoreRespected, LocalsOwned, SlotsOwned

\* What a worker can have measured, once the policy question is settled.
LEMMA VerdictsSettled ==
  ASSUME TypeOK, flags.policy \in {"absent", "loads"}
  PROVE  /\ flags.policy = "loads" => ScanVerdicts = {Unreached} \cup Judged
         /\ flags.policy = "absent" => ScanVerdicts = {Unreached, "unjudged"}
BY DEF ScanVerdicts

\* Leaving the program with a scan failure keeps IInv.
LEMMA FailureInv ==
  ASSUME IInv, Exit(exitScanFailed), UNCHANGED <<flags, next, shared>>,
         \/ main = "emit"
         \/ main = "single" /\ worker[1] = "scanned"
  PROVE  IInv'
<1>1. /\ TokensCounted' /\ WaitsCounted' /\ SemaphoreRespected'
      /\ LocalsOwned' /\ SlotsOwned'
  BY MainKeeps
<1>2. /\ main' = "exited" /\ code' = exitScanFailed /\ DocumentOwned'
      /\ doc' \in Seq(Result(Slots) \cup {Lost}) /\ (doc' = << >> <=> doc = << >>)
  BY ExitKeeps
<1>3. TypeOK'
  BY <1>2 DEF IInv, TypeOK, shared, exitScanFailed
<1>4. SingleShape' /\ BatchShape'
  BY <1>2 DEF IInv, shared, SingleShape, BatchShape, Preparing
<1>5. PhasesImply'
  BY <1>2, SweepAssumption DEF IInv, shared, PhasesImply, Preparing, BatchShape, Batch
<1>6. SuccessIsEarned' /\ GateSpeaksOfMeasuredTargets'
  BY <1>2 DEF SuccessIsEarned, GateSpeaksOfMeasuredTargets, exitOK, exitScanFailed, exitPolicyFailed
<1> QED
  BY <1>1, <1>2, <1>3, <1>4, <1>5, <1>6 DEF IInv

\* Single mode: handing over the report keeps IInv.
LEMMA SingleReportInv == ASSUME IInv, SingleReport PROVE IInv'
<1>1. /\ main = "single" /\ worker[1] = "scanned" /\ local[1].verdict # Unreached
      /\ UNCHANGED <<flags, main, next, code, shared>>
  BY DEF SingleReport, ReportDue
<1>2. PICK r \in Arrives(local[1]) : doc' = <<r>>
  BY DEF SingleReport
<1>3. 1 \in Slots /\ ~Batch /\ N = 1
  BY <1>1, SweepAssumption DEF IInv, BatchShape, Slots, Batch
<1>4. /\ TokensCounted' /\ WaitsCounted' /\ SemaphoreRespected'
      /\ LocalsOwned' /\ SlotsOwned'
  BY <1>1, MainKeeps
<1>5. local[1] \in [target : {1}, verdict : ScanVerdicts]
  BY <1>1, <1>3 DEF IInv, LocalsOwned, Returned
<1>6. local[1] \in Result(Slots) /\ local[1].target = 1 /\ local[1] # Lost
  BY <1>3, <1>5 DEF Result, ScanVerdicts, Verdict, Judged, Lost
<1>7. r = local[1] \/ (r = Lost /\ Unseen # {})
  BY <1>2 DEF Arrives, Unseen
<1>8. TypeOK'
  BY <1>1, <1>2, <1>6, <1>7 DEF IInv, TypeOK, shared
<1>9. SingleShape' /\ BatchShape'
  BY <1>1, <1>3 DEF IInv, SingleShape, BatchShape, shared
<1>10. PhasesImply'
  BY <1>1 DEF IInv, PhasesImply, shared, Preparing
<1>11. DocumentOwned'
  <2>1. Unseen' = Unseen /\ local' = local
    BY <1>1 DEF Unseen, WritesChecked, shared
  <2>2. Len(doc') = 1 /\ DOMAIN doc' = {1} /\ doc'[1] = r
    BY <1>2
  <2> QED
    BY <1>3, <1>6, <1>7, <2>1, <2>2 DEF DocumentOwned, DocumentIsFaithful
<1>12. SuccessIsEarned' /\ GateSpeaksOfMeasuredTargets'
  BY <1>1 DEF SuccessIsEarned, GateSpeaksOfMeasuredTargets
<1> QED
  BY <1>4, <1>8, <1>9, <1>10, <1>11, <1>12 DEF IInv

\* Single mode: the policy gate keeps IInv.
LEMMA SingleOutcomeInv == ASSUME IInv, SingleOutcome PROVE IInv'
<1>1. /\ main = "single" /\ doc # << >> /\ Exit(PolicyOutcome(<<local[1]>>))
      /\ UNCHANGED <<flags, next, shared>>
  BY DEF SingleOutcome
<1>2. 1 \in Slots /\ Slots = {1} /\ ~Batch /\ N = 1
  BY <1>1, SweepAssumption DEF IInv, BatchShape, Slots, Batch
<1>3. /\ TokensCounted' /\ WaitsCounted' /\ SemaphoreRespected'
      /\ LocalsOwned' /\ SlotsOwned'
  BY <1>1, MainKeeps
<1>4. worker[1] = "scanned" /\ local[1].verdict # Unreached
  BY <1>1, <1>2 DEF IInv, SingleShape
<1>5. local[1].verdict \in ScanVerdicts
  BY <1>2, <1>4 DEF IInv, LocalsOwned, Returned
<1>6. /\ main' = "exited" /\ code' = PolicyOutcome(<<local[1]>>) /\ DocumentOwned'
      /\ doc' \in Seq(Result(Slots) \cup {Lost}) /\ Len(doc') = Len(doc)
  BY <1>1, ExitKeeps
<1>7. code' = IF local[1].verdict \in {"violated", "incomplete"} THEN exitPolicyFailed ELSE exitOK
  BY <1>6 DEF PolicyOutcome
<1>8. TypeOK'
  BY <1>1, <1>6, <1>7 DEF IInv, TypeOK, shared
<1>9. SingleShape' /\ BatchShape'
  BY <1>1, <1>2, <1>4, <1>6 DEF IInv, SingleShape, BatchShape, shared
<1>10. PhasesImply'
  BY <1>1, <1>2, <1>4, <1>6 DEF IInv, PhasesImply, shared, Preparing
<1>11. /\ flags.policy = "loads" => local[1].verdict \in Judged
       /\ flags.policy = "absent" => local[1].verdict = "unjudged"
       /\ flags.policy \in {"absent", "loads"}
  BY <1>1, <1>4, <1>5, VerdictsSettled DEF IInv, PhasesImply
<1>12. Reported'
  <2>1. Len(doc) = N
    BY <1>1, <1>2 DEF IInv, TypeOK, DocumentOwned
  <2> QED
    BY <1>6, <2>1 DEF DocumentOwned, DocumentIsFaithful, Reported
<1>13. SuccessIsEarned' /\ GateSpeaksOfMeasuredTargets'
  BY <1>1, <1>2, <1>4, <1>6, <1>7, <1>11, <1>12
  DEF SuccessIsEarned, GateSpeaksOfMeasuredTargets, shared, Judged, exitOK, exitPolicyFailed
<1> QED
  BY <1>3, <1>6, <1>8, <1>9, <1>10, <1>13 DEF IInv

\* Batch mode: the end of the spawning loop keeps IInv.
LEMMA SpawnedAllInv == ASSUME IInv, SpawnedAll PROVE IInv'
<1>1. main = "spawn" /\ next = N + 1 /\ main' = "wait" /\ UNCHANGED <<flags, next, doc, code, shared>>
  BY SweepAssumption DEF SpawnedAll, IInv, TypeOK
<1>2. /\ TokensCounted' /\ WaitsCounted' /\ SemaphoreRespected'
      /\ LocalsOwned' /\ SlotsOwned'
  BY <1>1, MainKeeps
<1>3. TypeOK'
  BY <1>1 DEF IInv, TypeOK, shared
<1>4. SingleShape' /\ BatchShape' /\ PhasesImply'
  BY <1>1 DEF IInv, SingleShape, BatchShape, PhasesImply, Preparing, shared
<1>5. DocumentOwned' /\ SuccessIsEarned' /\ GateSpeaksOfMeasuredTargets'
  BY <1>1 DEF IInv, DocumentOwned, DocumentIsFaithful, Unseen, WritesChecked, SuccessIsEarned, GateSpeaksOfMeasuredTargets, shared
<1> QED
  BY <1>2, <1>3, <1>4, <1>5 DEF IInv

\* wg.Wait returns only when every goroutine has run to its end.
LEMMA WaitInv == ASSUME IInv, Wait PROVE IInv'
<1>1. main = "wait" /\ wg = 0 /\ main' = "emit" /\ UNCHANGED <<flags, next, doc, code, shared>>
  BY DEF Wait
<1>2. Batch /\ next = N + 1
  BY <1>1 DEF IInv, SingleShape, BatchShape, Preparing
<1>3. Active = {}
  <2>1. Active \in SUBSET Slots /\ Cardinality(Active) = 0
    BY <1>1, <1>2 DEF IInv, WaitsCounted, Active
  <2> QED
    BY <2>1, SlotsFinite, FS_EmptySet
<1>4. \A i \in Slots : worker[i] = "done"
  <2>1. \A i \in Slots : worker[i] # "unstarted"
    BY <1>1, <1>2, SweepAssumption DEF IInv, BatchShape, Slots
  <2> QED
    BY <1>3, <2>1 DEF Active
<1>5. /\ TokensCounted' /\ WaitsCounted' /\ SemaphoreRespected'
      /\ LocalsOwned' /\ SlotsOwned'
  BY <1>1, MainKeeps
<1>6. TypeOK'
  BY <1>1 DEF IInv, TypeOK, shared
<1>7. SingleShape' /\ BatchShape' /\ PhasesImply'
  BY <1>1, <1>2, <1>4 DEF IInv, SingleShape, BatchShape, PhasesImply, Preparing, shared
<1>8. DocumentOwned' /\ SuccessIsEarned' /\ GateSpeaksOfMeasuredTargets'
  BY <1>1 DEF IInv, DocumentOwned, DocumentIsFaithful, Unseen, WritesChecked, SuccessIsEarned, GateSpeaksOfMeasuredTargets, shared
<1> QED
  BY <1>5, <1>6, <1>7, <1>8 DEF IInv

\* In the emitting phase every slot holds its own target's result.
LEMMA EmitKnows ==
  ASSUME IInv, main = "emit"
  PROVE  /\ Batch
         /\ flags.policy \in {"absent", "loads"}
         /\ \A i \in Slots : /\ worker[i] = "done"
                            /\ results[i] = local[i]
                            /\ local[i] \in [target : {i}, verdict : ScanVerdicts]
                            /\ local[i] \in Result(Slots)
<1>1. Batch /\ flags.policy \in {"absent", "loads"} /\ \A i \in Slots : worker[i] = "done"
  BY DEF IInv, SingleShape, PhasesImply, Preparing
<1>2. \A i \in Slots : results[i] = local[i] /\ local[i] \in [target : {i}, verdict : ScanVerdicts]
  BY <1>1 DEF IInv, SlotsOwned, LocalsOwned, Returned, Stored
<1>3. \A i \in Slots : local[i] \in Result(Slots)
  BY <1>2 DEF Result, ScanVerdicts, Verdict, Judged
<1> QED
  BY <1>1, <1>2, <1>3

\* Writing all or one more of the reports keeps IInv.
LEMMA EmitInv == ASSUME IInv, EmitJSON \/ EmitReport PROVE IInv'
<1>1. main = "emit" /\ UNCHANGED <<flags, main, next, code, shared>>
  BY DEF EmitJSON, EmitReport
<1>2. /\ TokensCounted' /\ WaitsCounted' /\ SemaphoreRespected'
      /\ LocalsOwned' /\ SlotsOwned'
  BY <1>1, MainKeeps
<1> DEFINE Entry == Result(Slots) \cup {Lost}
<1>3. doc \in Seq(Entry) /\ Len(doc) \in Nat /\ Len(doc) <= N
      /\ \A k \in DOMAIN doc :
           IF doc[k] = Lost THEN Unseen # {} ELSE doc[k] = local[k] /\ doc[k].target = k
  BY DEF IInv, TypeOK, DocumentOwned, DocumentIsFaithful
<1>4. /\ doc' \in Seq(Entry)
      /\ Len(doc') <= N
      /\ \A k \in DOMAIN doc' :
           IF doc'[k] = Lost THEN Unseen # {} ELSE doc'[k] = local[k] /\ doc'[k].target = k
  <2>1. CASE EmitJSON
    <3>1. doc' = results /\ results \in [1..N -> Entry]
      BY <1>1, <2>1, EmitKnows DEF EmitJSON, IInv, TypeOK, Slots
    <3>2. doc' \in Seq(Entry) /\ Len(doc') = N /\ DOMAIN doc' = Slots
      BY <3>1, SweepAssumption DEF Slots
    <3>3. \A k \in Slots : results[k] = local[k] /\ results[k].target = k /\ results[k] # Lost
      BY <1>1, EmitKnows, SweepAssumption DEF Slots, Lost
    <3> QED
      BY <3>1, <3>2, <3>3
  <2>2. CASE EmitReport
    <3> DEFINE n == Len(doc) + 1
    <3>1. PICK r \in Arrives(results[n]) : doc' = Append(doc, r)
      BY <2>2 DEF EmitReport
    <3>2. n \in Slots
      BY <2>2, <1>3, SweepAssumption DEF EmitReport, Slots
    <3>3. /\ results[n] = local[n] /\ results[n] \in Result(Slots) /\ local[n].target = n
          /\ results[n] # Lost
      BY <1>1, <3>2, EmitKnows, SweepAssumption DEF Slots, Lost
    <3>4. r = results[n] \/ (r = Lost /\ Unseen # {})
      BY <3>1 DEF Arrives, Unseen
    <3> HIDE DEF n, Entry
    <3>5. r \in Entry
      BY <3>3, <3>4 DEF Entry
    <3>6. doc' \in Seq(Entry)
      BY <1>3, <3>1, <3>5
    <3>7. Len(doc') = n /\ DOMAIN doc' = 1..n /\ doc'[n] = r
      BY <1>3, <3>1, <3>5 DEF n
    <3>8. \A k \in 1..Len(doc) : doc'[k] = doc[k]
      BY <1>3, <3>1, <3>5
    <3>9. \A k \in 1..n : k = n \/ k \in 1..Len(doc)
      BY <1>3 DEF n
    <3>10. DOMAIN doc = 1..Len(doc) /\ n <= N
      BY <1>3, <3>2, SweepAssumption DEF Slots
    <3>11. IF doc'[n] = Lost THEN Unseen # {} ELSE doc'[n] = local[n] /\ doc'[n].target = n
      BY <3>3, <3>4, <3>7
    <3>12. ASSUME NEW k \in 1..Len(doc)
           PROVE  IF doc'[k] = Lost THEN Unseen # {} ELSE doc'[k] = local[k] /\ doc'[k].target = k
      BY <1>3, <3>8, <3>10
    <3>13. \A k \in DOMAIN doc' :
             IF doc'[k] = Lost THEN Unseen # {} ELSE doc'[k] = local[k] /\ doc'[k].target = k
      BY <3>7, <3>9, <3>11, <3>12
    <3> QED
      BY <3>6, <3>7, <3>10, <3>13
  <2> QED
    BY <2>1, <2>2
<1>5. TypeOK'
  BY <1>1, <1>4 DEF IInv, TypeOK, shared
<1>6. DocumentOwned'
  <2>1. Unseen' = Unseen /\ local' = local
    BY <1>1 DEF Unseen, WritesChecked, shared
  <2> QED
    BY <1>4, <2>1 DEF DocumentOwned, DocumentIsFaithful
<1>7. SingleShape' /\ BatchShape' /\ PhasesImply'
  BY <1>1, EmitKnows DEF IInv, SingleShape, BatchShape, PhasesImply, Preparing, shared
<1>8. SuccessIsEarned' /\ GateSpeaksOfMeasuredTargets'
  BY <1>1 DEF SuccessIsEarned, GateSpeaksOfMeasuredTargets
<1> QED
  BY <1>2, <1>5, <1>6, <1>7, <1>8 DEF IInv

\* The exit status of a sweep keeps IInv: it is computed from slots that hold
\* the results of all targets.
LEMMA ConcludeInv == ASSUME IInv, Conclude PROVE IInv'
<1>0. Exit(BatchOutcome(results)) /\ UNCHANGED <<flags, shared>>
  BY DEF Conclude
<1>1. /\ main = "emit" /\ Len(doc) = N /\ main' = "exited"
      /\ code' = BatchOutcome(results)
      /\ doc' \in Seq(Result(Slots) \cup {Lost}) /\ Len(doc') = N /\ DocumentOwned'
      /\ UNCHANGED <<flags, next, shared>>
  BY <1>0, ExitKeeps DEF Conclude
<1>2. /\ TokensCounted' /\ WaitsCounted' /\ SemaphoreRespected'
      /\ LocalsOwned' /\ SlotsOwned'
  BY <1>1, MainKeeps
<1>3. DOMAIN results = Slots
  BY DEF IInv, TypeOK
<1>4. /\ code' \in {exitOK, exitScanFailed, exitPolicyFailed}
      /\ code' = exitOK => \A i \in Slots :
           local[i].verdict \notin {Unreached, "violated", "incomplete"}
      /\ code' = exitPolicyFailed =>
           /\ \A i \in Slots : local[i].verdict # Unreached
           /\ \E i \in Slots : local[i].verdict \in {"violated", "incomplete"}
  BY <1>1, <1>3, EmitKnows DEF BatchOutcome, PolicyOutcome, exitOK, exitScanFailed, exitPolicyFailed
<1>5. TypeOK'
  BY <1>1, <1>4 DEF IInv, TypeOK, shared
<1>6. SingleShape' /\ BatchShape' /\ PhasesImply'
  BY <1>1, EmitKnows DEF IInv, SingleShape, BatchShape, PhasesImply, Preparing, shared
<1>11. Reported'
  BY <1>1 DEF DocumentOwned, DocumentIsFaithful, Reported
<1>7. \A i \in Slots : local[i].verdict \in ScanVerdicts
  BY <1>1, EmitKnows
<1>8. /\ flags.policy \in {"absent", "loads"}
      /\ flags.policy = "loads" => \A i \in Slots : local[i].verdict \in {Unreached} \cup Judged
      /\ flags.policy = "absent" => \A i \in Slots : local[i].verdict \in {Unreached, "unjudged"}
  BY <1>1, <1>7, EmitKnows, VerdictsSettled DEF IInv
<1>9. SuccessIsEarned'
  BY <1>1, <1>4, <1>8, <1>11 DEF SuccessIsEarned, shared, Judged
<1>10. GateSpeaksOfMeasuredTargets'
  BY <1>1, <1>4, <1>8, <1>11 DEF GateSpeaksOfMeasuredTargets, shared, Judged, Unreached
<1> QED
  BY <1>1, <1>2, <1>5, <1>6, <1>9, <1>10 DEF IInv

-----------------------------------------------------------------------------
(***************************************************************************)
(* The goroutines of the targets.                                          *)
(***************************************************************************)

\* One goroutine moves: what that does to the two sets that are counted.
LEMMA WorkerMoves ==
  ASSUME TypeOK, NEW i \in Slots, NEW w, worker' = [worker EXCEPT ![i] = w]
  PROVE  /\ \A j \in Slots : worker'[j] = IF j = i THEN w ELSE worker[j]
         /\ InFlight' = IF w \in Holding THEN InFlight \cup {i} ELSE InFlight \ {i}
         /\ Active' = IF w \notin {"unstarted", "done"} THEN Active \cup {i} ELSE Active \ {i}
<1>1. \A j \in Slots : worker'[j] = IF j = i THEN w ELSE worker[j]
  BY DEF TypeOK
<1> QED
  BY <1>1 DEF InFlight, Active

\* A goroutine that can still move finds the main goroutine spawning or
\* waiting, or inside scanSingleTarget, and nothing written yet.
LEMMA WorkerRuns ==
  ASSUME IInv, NEW i \in Slots, worker[i] \notin {"unstarted", "done"},
         Batch \/ worker[i] # "scanned"
  PROVE  /\ doc = << >>
         /\ \/ Batch /\ main \in {"spawn", "wait"}
            \/ ~Batch /\ main = "single" /\ i = 1 /\ worker[i] \in {"scanning", "silent"}
<1>1. main \in {"spawn", "wait", "single"}
  BY SweepAssumption DEF IInv, TypeOK, PhasesImply, Preparing, Slots, Batch
<1>2. CASE Batch
  BY <1>1, <1>2 DEF IInv, BatchShape
<1>3. CASE ~Batch
  <2>1. i = 1
    BY <1>3, SweepAssumption DEF Slots, Batch
  <2> QED
    BY <1>1, <1>3, <2>1 DEF IInv, SingleShape, Preparing
<1> QED
  BY <1>2, <1>3

\* The parts of IInv that a goroutine's move keeps for the same reason in each
\* of its steps.
LEMMA WorkerKeeps ==
  ASSUME IInv, NEW i \in Slots, NEW w \in Holding \cup {"released", "done"},
         worker[i] \notin {"unstarted", "done"},
         Batch \/ (worker[i] # "scanned" /\ w \in {"scanning", "silent", "scanned"}),
         worker' = [worker EXCEPT ![i] = w],
         UNCHANGED <<flags, main, next, doc, code>>
  PROVE  SingleShape' /\ BatchShape' /\ PhasesImply' /\ DocumentOwned'
         /\ SuccessIsEarned' /\ GateSpeaksOfMeasuredTargets'
<1>1. /\ doc = << >>
      /\ \/ Batch /\ main \in {"spawn", "wait"}
         \/ ~Batch /\ main = "single" /\ i = 1
  BY WorkerRuns
<1>2. \A j \in Slots : worker'[j] = IF j = i THEN w ELSE worker[j]
  BY WorkerMoves DEF IInv
<1>3. w # "unstarted" /\ worker[i] # "unstarted"
  BY DEF Holding
<1>4. SingleShape'
  BY <1>1, <1>2 DEF IInv, SingleShape, Preparing, Batch
<1>5. BatchShape'
  BY <1>1, <1>2, <1>3 DEF IInv, BatchShape, Batch
<1>6. PhasesImply'
  BY <1>1 DEF IInv, PhasesImply, Preparing, Batch
<1>7. DocumentOwned'
  BY <1>1, SweepAssumption DEF DocumentOwned, DocumentIsFaithful, Unseen, WritesChecked
<1>8. SuccessIsEarned' /\ GateSpeaksOfMeasuredTargets'
  BY <1>1 DEF SuccessIsEarned, GateSpeaksOfMeasuredTargets
<1> QED
  BY <1>4, <1>5, <1>6, <1>7, <1>8

\* A goroutine that does not touch its result keeps the ownership of slots.
LEMMA OwnershipKept ==
  ASSUME IInv, NEW i \in Slots, NEW w,
         worker' = [worker EXCEPT ![i] = w],
         worker[i] \in Returned <=> w \in Returned,
         worker[i] \in Stored <=> w \in Stored,
         UNCHANGED <<flags, local, results>>
  PROVE  LocalsOwned' /\ SlotsOwned'
<1>1. \A j \in Slots : worker'[j] = IF j = i THEN w ELSE worker[j]
  BY WorkerMoves DEF IInv
<1>2. ScanVerdicts' = ScanVerdicts
  BY DEF ScanVerdicts
<1> QED
  BY <1>1, <1>2 DEF IInv, LocalsOwned, SlotsOwned

\* Taking a token keeps IInv: this is where --concurrency is enforced.
LEMMA AcquireInv == ASSUME IInv, NEW i \in Slots, Acquire(i) PROVE IInv'
<1>1. /\ worker[i] = "queued" /\ sem < flags.concurrency /\ sem' = sem + 1
      /\ worker' = [worker EXCEPT ![i] = "scanning"]
      /\ UNCHANGED <<flags, main, next, local, results, wg, completed, doc, code>>
  BY DEF Acquire
<1>2. Batch
  BY <1>1, WorkerRuns
<1>3. InFlight' = InFlight \cup {i} /\ i \notin InFlight /\ Active' = Active
  BY <1>1, WorkerMoves DEF IInv, InFlight, Active, Holding
<1>4. Cardinality(InFlight') = Cardinality(InFlight) + 1 /\ Cardinality(InFlight) \in Nat
  BY <1>3, CountUp, SlotsFinite DEF InFlight
<1>5. flags.concurrency \in Int
  BY SweepAssumption DEF IInv, TypeOK, Flags
<1>6. TypeOK'
  BY <1>1 DEF IInv, TypeOK, Holding
<1>7. TokensCounted' /\ WaitsCounted' /\ SemaphoreRespected'
  BY <1>1, <1>2, <1>3, <1>4, <1>5 DEF IInv, TokensCounted, WaitsCounted, SemaphoreRespected, Batch
<1>8. LocalsOwned' /\ SlotsOwned'
  BY <1>1, OwnershipKept DEF Returned, Stored
<1>9. SingleShape' /\ BatchShape' /\ PhasesImply' /\ DocumentOwned'
      /\ SuccessIsEarned' /\ GateSpeaksOfMeasuredTargets'
  BY <1>1, <1>2, WorkerKeeps DEF Holding
<1> QED
  BY <1>6, <1>7, <1>8, <1>9 DEF IInv

\* A move between two positions that both hold a token counts the same.
LEMMA CountsKept ==
  ASSUME IInv, NEW i \in Slots, NEW w \in Holding, worker[i] \in Holding,
         worker' = [worker EXCEPT ![i] = w], UNCHANGED <<flags, sem, wg>>
  PROVE  TokensCounted' /\ WaitsCounted' /\ SemaphoreRespected'
<1>1. InFlight' = InFlight /\ Active' = Active
  BY WorkerMoves DEF IInv, InFlight, Active, Holding
<1> QED
  BY <1>1 DEF IInv, TokensCounted, WaitsCounted, SemaphoreRespected, Batch

\* A peer falling silent keeps IInv.
LEMMA FallSilentInv == ASSUME IInv, NEW i \in Slots, FallSilent(i) PROVE IInv'
<1>1. /\ worker[i] = "scanning" /\ worker' = [worker EXCEPT ![i] = "silent"]
      /\ UNCHANGED <<flags, main, next, local, results, sem, wg, completed, doc, code>>
  BY DEF FallSilent
<1>2. TypeOK'
  BY <1>1 DEF IInv, TypeOK, Holding
<1>3. TokensCounted' /\ WaitsCounted' /\ SemaphoreRespected'
  BY <1>1, CountsKept DEF Holding
<1>4. LocalsOwned' /\ SlotsOwned'
  BY <1>1, OwnershipKept DEF Returned, Stored
<1>5. SingleShape' /\ BatchShape' /\ PhasesImply' /\ DocumentOwned'
      /\ SuccessIsEarned' /\ GateSpeaksOfMeasuredTargets'
  BY <1>1, WorkerKeeps DEF Holding
<1> QED
  BY <1>2, <1>3, <1>4, <1>5 DEF IInv

\* A returning scan leaves its result to the goroutine that made the call.
LEMMA ScanReturnsInv == ASSUME IInv, NEW i \in Slots, ScanReturns(i) PROVE IInv'
<1>1. /\ worker[i] \in {"scanning", "silent"} /\ worker' = [worker EXCEPT ![i] = "scanned"]
      /\ UNCHANGED <<flags, main, next, results, sem, wg, completed, doc, code>>
  BY DEF ScanReturns
<1>2. PICK v \in ScanVerdicts : local' = [local EXCEPT ![i] = [target |-> i, verdict |-> v]]
  BY DEF ScanReturns
<1>3. ScanVerdicts' = ScanVerdicts /\ ScanVerdicts \subseteq Verdict
  BY <1>1 DEF ScanVerdicts, Verdict, Judged
<1>4. TypeOK'
  BY <1>1, <1>2, <1>3 DEF IInv, TypeOK, Holding, Result
<1>5. TokensCounted' /\ WaitsCounted' /\ SemaphoreRespected'
  BY <1>1, CountsKept DEF Holding
<1>6. \A j \in Slots : worker'[j] = IF j = i THEN "scanned" ELSE worker[j]
  BY <1>1, WorkerMoves DEF IInv
<1>7. \A j \in Slots : local'[j] = IF j = i THEN [target |-> i, verdict |-> v] ELSE local[j]
  BY <1>2 DEF IInv, TypeOK
<1>8. LocalsOwned' /\ SlotsOwned'
  BY <1>1, <1>3, <1>6, <1>7 DEF IInv, LocalsOwned, SlotsOwned, Returned, Stored
<1>9. SingleShape' /\ BatchShape' /\ PhasesImply' /\ DocumentOwned'
      /\ SuccessIsEarned' /\ GateSpeaksOfMeasuredTargets'
  BY <1>1, WorkerKeeps DEF Holding
<1> QED
  BY <1>4, <1>5, <1>8, <1>9 DEF IInv

\* Storing into its own slot is what makes the slot its target's.
LEMMA StoreInv == ASSUME IInv, NEW i \in Slots, Store(i) PROVE IInv'
<1>1. /\ Batch /\ worker[i] = "scanned"
      /\ results' = [results EXCEPT ![i] = local[i]]
      /\ worker' = [worker EXCEPT ![i] = "stored"]
      /\ UNCHANGED <<flags, main, next, local, sem, wg, completed, doc, code>>
  BY DEF Store
<1>2. TypeOK'
  BY <1>1 DEF IInv, TypeOK, Holding
<1>3. TokensCounted' /\ WaitsCounted' /\ SemaphoreRespected'
  BY <1>1, CountsKept DEF Holding
<1>4. \A j \in Slots : worker'[j] = IF j = i THEN "stored" ELSE worker[j]
  BY <1>1, WorkerMoves DEF IInv
<1>5. \A j \in Slots : results'[j] = IF j = i THEN local[i] ELSE results[j]
  BY <1>1 DEF IInv, TypeOK
<1>6. ScanVerdicts' = ScanVerdicts
  BY <1>1 DEF ScanVerdicts
<1>7. LocalsOwned' /\ SlotsOwned'
  BY <1>1, <1>4, <1>5, <1>6 DEF IInv, LocalsOwned, SlotsOwned, Returned, Stored
<1>8. SingleShape' /\ BatchShape' /\ PhasesImply' /\ DocumentOwned'
      /\ SuccessIsEarned' /\ GateSpeaksOfMeasuredTargets'
  BY <1>1, WorkerKeeps DEF Holding
<1> QED
  BY <1>2, <1>3, <1>7, <1>8 DEF IInv

\* Counting progress keeps IInv.
LEMMA CountInv == ASSUME IInv, NEW i \in Slots, Count(i) PROVE IInv'
<1>1. /\ worker[i] = "stored" /\ completed' = completed + 1
      /\ worker' = [worker EXCEPT ![i] = "counted"]
      /\ UNCHANGED <<flags, main, next, local, results, sem, wg, doc, code>>
  BY DEF Count
<1>2. Batch
  BY <1>1, WorkerRuns
<1>3. TypeOK'
  BY <1>1 DEF IInv, TypeOK, Holding
<1>4. TokensCounted' /\ WaitsCounted' /\ SemaphoreRespected'
  BY <1>1, CountsKept DEF Holding
<1>5. LocalsOwned' /\ SlotsOwned'
  BY <1>1, OwnershipKept DEF Returned, Stored
<1>6. SingleShape' /\ BatchShape' /\ PhasesImply' /\ DocumentOwned'
      /\ SuccessIsEarned' /\ GateSpeaksOfMeasuredTargets'
  BY <1>1, <1>2, WorkerKeeps DEF Holding
<1> QED
  BY <1>3, <1>4, <1>5, <1>6 DEF IInv

\* Giving the token back never makes the count negative.
LEMMA ReleaseInv == ASSUME IInv, NEW i \in Slots, Release(i) PROVE IInv'
<1>1. /\ worker[i] = "counted" /\ sem' = sem - 1
      /\ worker' = [worker EXCEPT ![i] = "released"]
      /\ UNCHANGED <<flags, main, next, local, results, wg, completed, doc, code>>
  BY DEF Release
<1>2. Batch
  BY <1>1, WorkerRuns
<1>3. InFlight' = InFlight \ {i} /\ i \in InFlight /\ Active' = Active
  BY <1>1, WorkerMoves DEF IInv, InFlight, Active, Holding
<1>4. /\ Cardinality(InFlight') = Cardinality(InFlight) - 1
      /\ Cardinality(InFlight) > 0 /\ Cardinality(InFlight) \in Nat
  BY <1>3, CountDown, SlotsFinite DEF InFlight
<1>5. flags.concurrency \in Int
  BY SweepAssumption DEF IInv, TypeOK, Flags
<1>6. sem = Cardinality(InFlight)
  BY <1>2 DEF IInv, TokensCounted
<1>7. TypeOK'
  BY <1>1, <1>4, <1>6 DEF IInv, TypeOK, Holding
<1>8. TokensCounted' /\ WaitsCounted' /\ SemaphoreRespected'
  BY <1>1, <1>2, <1>3, <1>4, <1>5, <1>6
  DEF IInv, TokensCounted, WaitsCounted, SemaphoreRespected, Batch
<1>9. LocalsOwned' /\ SlotsOwned'
  BY <1>1, OwnershipKept DEF Returned, Stored
<1>10. SingleShape' /\ BatchShape' /\ PhasesImply' /\ DocumentOwned'
      /\ SuccessIsEarned' /\ GateSpeaksOfMeasuredTargets'
  BY <1>1, <1>2, WorkerKeeps
<1> QED
  BY <1>7, <1>8, <1>9, <1>10 DEF IInv

\* wg.Done never makes the counter negative.
LEMMA DoneInv == ASSUME IInv, NEW i \in Slots, Done(i) PROVE IInv'
<1>1. /\ worker[i] = "released" /\ wg' = wg - 1
      /\ worker' = [worker EXCEPT ![i] = "done"]
      /\ UNCHANGED <<flags, main, next, local, results, sem, completed, doc, code>>
  BY DEF Done
<1>2. Batch
  BY <1>1, WorkerRuns
<1>3. InFlight' = InFlight /\ Active' = Active \ {i} /\ i \in Active
  BY <1>1, WorkerMoves DEF IInv, InFlight, Active, Holding
<1>4. /\ Cardinality(Active') = Cardinality(Active) - 1
      /\ Cardinality(Active) > 0 /\ Cardinality(Active) \in Nat
  BY <1>3, CountDown, SlotsFinite DEF Active
<1>5. wg = Cardinality(Active)
  BY <1>2 DEF IInv, WaitsCounted
<1>6. TypeOK'
  BY <1>1, <1>4, <1>5 DEF IInv, TypeOK, Holding
<1>7. TokensCounted' /\ WaitsCounted' /\ SemaphoreRespected'
  BY <1>1, <1>2, <1>3, <1>4, <1>5
  DEF IInv, TokensCounted, WaitsCounted, SemaphoreRespected, Batch
<1>8. LocalsOwned' /\ SlotsOwned'
  BY <1>1, OwnershipKept DEF Returned, Stored
<1>9. SingleShape' /\ BatchShape' /\ PhasesImply' /\ DocumentOwned'
      /\ SuccessIsEarned' /\ GateSpeaksOfMeasuredTargets'
  BY <1>1, <1>2, WorkerKeeps
<1> QED
  BY <1>6, <1>7, <1>8, <1>9 DEF IInv

\* Starting a goroutine: it is counted by the WaitGroup before it exists.
LEMMA SpawnInv == ASSUME IInv, Spawn PROVE IInv'
<1>1. /\ main = "spawn" /\ next <= N /\ wg' = wg + 1
      /\ worker' = [worker EXCEPT ![next] = "queued"] /\ next' = next + 1
      /\ UNCHANGED <<flags, main, local, results, sem, completed, doc, code>>
  BY DEF Spawn
<1>2. Batch /\ next \in Slots /\ worker[next] = "unstarted" /\ doc = << >>
  BY <1>1, SweepAssumption DEF IInv, TypeOK, SingleShape, BatchShape, Slots, Preparing
<1> PICK i \in Slots : i = next
  BY <1>2
<1>0. worker[i] = "unstarted" /\ worker' = [worker EXCEPT ![i] = "queued"]
  BY <1>1, <1>2
<1>3. InFlight' = InFlight /\ Active' = Active \cup {i} /\ i \notin Active
  <2>1. i \notin InFlight /\ i \notin Active
    BY <1>0 DEF InFlight, Active, Holding
  <2>2. InFlight' = InFlight \ {i} /\ Active' = Active \cup {i}
    <3>1. TypeOK /\ "queued" \notin Holding /\ "queued" \notin {"unstarted", "done"}
      BY DEF IInv, Holding
    <3> DEFINE w == "queued"
    <3>2. worker' = [worker EXCEPT ![i] = w] /\ w \notin Holding /\ w \notin {"unstarted", "done"}
      BY <1>0, <3>1
    <3> HIDE DEF w
    <3> QED
      BY <3>1, <3>2, WorkerMoves
  <2> QED
    BY <2>1, <2>2
<1>4. Cardinality(Active') = Cardinality(Active) + 1 /\ Cardinality(Active) \in Nat
  BY <1>2, <1>3, CountUp, SlotsFinite DEF Active
<1>5. \A j \in Slots : worker'[j] = IF j = i THEN "queued" ELSE worker[j]
  BY <1>0, WorkerMoves DEF IInv
<1>6. TypeOK'
  BY <1>1, <1>2, SweepAssumption DEF IInv, TypeOK, Slots
<1>7. TokensCounted' /\ WaitsCounted' /\ SemaphoreRespected'
  BY <1>1, <1>2, <1>3, <1>4 DEF IInv, TokensCounted, WaitsCounted, SemaphoreRespected, Batch
<1>8. LocalsOwned' /\ SlotsOwned'
  BY <1>1, <1>0, OwnershipKept DEF Returned, Stored
<1>9. SingleShape' /\ DocumentOwned' /\ SuccessIsEarned' /\ GateSpeaksOfMeasuredTargets'
  BY <1>1, <1>2, SweepAssumption
  DEF SingleShape, DocumentOwned, DocumentIsFaithful, Unseen, WritesChecked, SuccessIsEarned, GateSpeaksOfMeasuredTargets, Batch
<1>10. BatchShape'
  BY <1>1, <1>2, <1>5, SweepAssumption DEF IInv, TypeOK, BatchShape, Slots
<1>11. PhasesImply'
  BY <1>1 DEF IInv, PhasesImply, Preparing
<1> QED
  BY <1>6, <1>7, <1>8, <1>9, <1>10, <1>11 DEF IInv

\* Single mode: making the call keeps IInv; no counter is involved.
LEMMA SingleScanInv == ASSUME IInv, SingleScan PROVE IInv'
<1>1. /\ main = "single" /\ worker[1] = "unstarted"
      /\ worker' = [worker EXCEPT ![1] = "scanning"]
      /\ UNCHANGED <<flags, main, next, local, results, sem, wg, completed, doc, code>>
  BY DEF SingleScan
<1>2. ~Batch /\ N = 1 /\ 1 \in Slots /\ doc = << >>
  BY <1>1, SweepAssumption DEF IInv, BatchShape, SingleShape, Slots, Batch
<1>3. \A j \in Slots : worker'[j] = IF j = 1 THEN "scanning" ELSE worker[j]
  BY <1>1, <1>2, WorkerMoves DEF IInv
<1>4. TypeOK'
  BY <1>1, <1>2 DEF IInv, TypeOK, Holding
<1>5. TokensCounted' /\ WaitsCounted' /\ SemaphoreRespected'
  BY <1>1, <1>2 DEF IInv, TokensCounted, WaitsCounted, SemaphoreRespected, Batch
<1>6. LocalsOwned' /\ SlotsOwned'
  BY <1>1, <1>2, OwnershipKept DEF Returned, Stored
<1>7. SingleShape' /\ BatchShape' /\ PhasesImply'
  BY <1>1, <1>2, <1>3 DEF IInv, SingleShape, BatchShape, PhasesImply, Preparing, Batch
<1>8. DocumentOwned' /\ SuccessIsEarned' /\ GateSpeaksOfMeasuredTargets'
  BY <1>1, <1>2 DEF DocumentOwned, DocumentIsFaithful, Unseen, WritesChecked, SuccessIsEarned, GateSpeaksOfMeasuredTargets
<1> QED
  BY <1>4, <1>5, <1>6, <1>7, <1>8 DEF IInv

-----------------------------------------------------------------------------
(***************************************************************************)
(* The invariant, and what follows from it.                                *)
(***************************************************************************)

\* Every step of a run keeps IInv.
LEMMA NextInv == ASSUME IInv, [Next]_vars PROVE IInv'
<1>1. CASE CollectTargets \/ ValidateFlags \/ RequireTargets \/ OpenOutput \/ LoadPolicy
  BY <1>1, PreparationInv
<1>2. CASE SingleScan \/ SingleReport \/ SingleOutcome
  BY <1>2, SingleScanInv, SingleReportInv, SingleOutcomeInv
<1>3. CASE SingleFails \/ WriteFails
  BY <1>3, FailureInv DEF SingleFails, WriteFails, ReportDue
<1>4. CASE Spawn \/ SpawnedAll \/ Wait
  BY <1>4, SpawnInv, SpawnedAllInv, WaitInv
<1>5. CASE EmitJSON \/ EmitReport \/ Conclude
  BY <1>5, EmitInv, ConcludeInv
<1>6. ASSUME NEW i \in Slots, WorkerStep(i) \/ FallSilent(i) PROVE IInv'
  BY <1>6, AcquireInv, ScanReturnsInv, StoreInv, CountInv, ReleaseInv, DoneInv, FallSilentInv
  DEF WorkerStep
<1>7. CASE UNCHANGED vars
  <2>1. UNCHANGED <<flags, shared, main, next, doc, code>>
    BY <1>7 DEF vars, shared
  <2>2. /\ TokensCounted' /\ WaitsCounted' /\ SemaphoreRespected'
        /\ LocalsOwned' /\ SlotsOwned'
    BY <2>1, MainKeeps
  <2>3. TypeOK' /\ SingleShape' /\ BatchShape' /\ PhasesImply' /\ DocumentOwned'
    BY <2>1 DEF IInv, TypeOK, SingleShape, BatchShape, PhasesImply, DocumentOwned, DocumentIsFaithful, Unseen, WritesChecked, shared
  <2>4. SuccessIsEarned' /\ GateSpeaksOfMeasuredTargets'
    BY <2>1 DEF IInv, SuccessIsEarned, GateSpeaksOfMeasuredTargets, Reported, Unseen, WritesChecked,
       shared
  <2> QED
    BY <2>2, <2>3, <2>4 DEF IInv
<1> QED
  BY <1>1, <1>2, <1>3, <1>4, <1>5, <1>6, <1>7 DEF Next, MainStep, Finished

\* IInv is an invariant of every run.
THEOREM Invariance == Spec => []IInv
<1>1. Init => IInv
  BY InitInv
<1>2. IInv /\ [Next]_vars => IInv'
  BY NextInv
<1> QED
  BY <1>1, <1>2, PTL DEF Spec

\* Every variable of a run keeps its type.
THEOREM TypeCorrect == Spec => []TypeOK
<1>1. IInv => TypeOK
  BY DEF IInv
<1> QED
  BY <1>1, Invariance, PTL

\* The k-th entry of the output is the k-th target's own result, for every
\* number of targets and every order in which the scans finish.
THEOREM DocumentFaithful == Spec => []DocumentIsFaithful
<1>1. IInv => DocumentIsFaithful
  BY DEF IInv, DocumentOwned, DocumentIsFaithful, Unseen, WritesChecked, DocumentIsFaithful
<1> QED
  BY <1>1, Invariance, PTL

\* Exit 0 means that every target was scanned, reported and, under a policy,
\* found compliant on a complete evaluation.
THEOREM SuccessEarned == Spec => []SuccessIsEarned
<1>1. IInv => SuccessIsEarned
  BY DEF IInv
<1> QED
  BY <1>1, Invariance, PTL

\* Exit 2 is given only about targets that were all measured and reported.
THEOREM GateMeasured == Spec => []GateSpeaksOfMeasuredTargets
<1>1. IInv => GateSpeaksOfMeasuredTargets
  BY DEF IInv
<1> QED
  BY <1>1, Invariance, PTL

\* At most --concurrency scans are ever in flight.
THEOREM ConcurrencyBounded == Spec => []SemaphoreRespected
<1>1. IInv => SemaphoreRespected
  BY DEF IInv
<1> QED
  BY <1>1, Invariance, PTL

\* Past wg.Wait nothing moves but the main goroutine.
LEMMA QuietStep ==
  ASSUME IInv, [Next]_vars, main = "emit" \/ main = "exited" PROVE UNCHANGED shared
<1>1. ASSUME NEW i \in Slots PROVE ~(WorkerStep(i) \/ FallSilent(i))
  BY WorkerRuns, <1>1
  DEF WorkerStep, Acquire, ScanReturns, Store, Count, Release, Done, FallSilent
<1>2. CASE EmitJSON \/ EmitReport \/ WriteFails \/ Conclude
  BY <1>2 DEF EmitJSON, EmitReport, WriteFails, Conclude
<1>3. CASE UNCHANGED vars
  BY <1>3 DEF vars, shared
<1>4. \/ EmitJSON \/ EmitReport \/ WriteFails \/ Conclude
      \/ UNCHANGED vars
      \/ \E i \in Slots : WorkerStep(i) \/ FallSilent(i)
  BY DEF Next, MainStep, Finished, Prepare, CollectTargets, ValidateFlags, RequireTargets,
     OpenOutput, LoadPolicy, SingleScan, SingleFails, SingleReport, SingleOutcome,
     Spawn, SpawnedAll, Wait
<1> QED
  BY <1>1, <1>2, <1>3, <1>4

\* The report is written, and the exit status computed, with nothing running
\* beside the main goroutine.
THEOREM QuietWhenReporting == Spec => QuietAfterWait
<1>1. IInv /\ [Next]_vars => [(main = "emit" \/ main = "exited") => UNCHANGED shared]_vars
  BY QuietStep
<1> QED
  BY <1>1, Invariance, PTL DEF Spec, QuietAfterWait

-----------------------------------------------------------------------------
(***************************************************************************)
(* A run implements SweepContract, for every value of the constants: each  *)
(* of its steps learns about one target, publishes a longer prefix of the  *)
(* document, ends the run in a way the contract allows, or is invisible.   *)
(***************************************************************************)
\* The part of the state the contract sees.
seen == <<local, doc, Status, Unseen>>

\* Before the exit the status is running.
LEMMA RunningStatus == ASSUME main # "exited" PROVE Status = "running"
BY DEF Status

\* A step that neither exits nor touches a result or the document is invisible.
LEMMA Invisible ==
  ASSUME UNCHANGED <<flags, local, doc>>,
         \/ main # "exited" /\ main' # "exited"
         \/ UNCHANGED <<main, code>>
  PROVE  UNCHANGED seen
BY DEF Status, seen, Unseen, WritesChecked

\* A run that goes on does not change how it can lose a report.
LEMMA UnseenKept == ASSUME UNCHANGED flags PROVE Unseen' = Unseen
BY DEF Unseen, WritesChecked

\* Every exit ends the run for the contract too, with what Close left of the
\* document.
LEMMA EndRefines ==
  ASSUME main # "exited", NEW c \in {exitOK, exitScanFailed, exitPolicyFailed},
         Exit(c), UNCHANGED <<flags, local>>
  PROVE  /\ Status = "running"
         /\ c = exitOK => Contract!End("passed")
         /\ c = exitPolicyFailed => Contract!End("gated")
         /\ c = exitScanFailed => Contract!End("failed")
<1>1. main' = "exited" /\ code' = c /\ Unseen' = Unseen /\ Status = "running"
  BY UnseenKept DEF Exit, Closed, Status
<1>2. doc' \in IF "close" \in Unseen THEN Contract!Remains(doc) ELSE {doc}
  <2>1. "close" \in Unseen <=> flags.output = "file"
    BY DEF Unseen
  <2>2. Contract!Remains(doc) = Remains(doc)
    BY DEF Contract!Remains, Remains, Contract!Lost, Lost
  <2> QED
    BY <2>1, <2>2 DEF Exit, Closed
<1>3. /\ c = exitOK => Status' = "passed"
      /\ c = exitPolicyFailed => Status' = "gated"
      /\ c = exitScanFailed => Status' = "failed"
  BY <1>1 DEF Status, exitOK, exitScanFailed, exitPolicyFailed
<1> QED
  BY <1>1, <1>2, <1>3 DEF Contract!End

\* A known target is not NoResult.
LEMMA KnownIsSomething ==
  ASSUME NEW i \in Slots, NEW S, local[i] \in [target : {i}, verdict : S]
  PROVE  local[i] # NoResult
BY SweepAssumption DEF Slots, NoResult

\* The initial states of a run are those of the contract.
LEMMA InitRefines == Init => Contract!Init
BY DEF Init, Contract!Init, Contract!Slots, Contract!NoResult, NoResult, Slots, Status, Unseen

\* Preparation is invisible, or fails before anything is known.
LEMMA PrepareRefines ==
  ASSUME IInv, NEW at \in Preparing, NEW ok \in BOOLEAN,
         NEW to \in Preparing \cup {"spawn", "single"}, Prepare(at, ok, to)
  PROVE  Contract!Fail \/ UNCHANGED seen
<1>1. main = at /\ UNCHANGED <<flags, local>> /\ main # "exited"
  BY DEF Prepare, shared, Preparing
<1>2. CASE ok
  <2>1. main' = to /\ UNCHANGED <<doc, code>>
    BY <1>2 DEF Prepare
  <2> QED
    BY <1>1, <2>1, Invisible DEF Preparing
<1>3. CASE ~ok
  <2>1. \A i \in Slots : local[i] = NoResult
    BY <1>1 DEF IInv, PhasesImply, LocalsOwned, Returned
  <2>2. Contract!End("failed")
    BY <1>1, <1>3, EndRefines DEF Prepare
  <2> QED
    BY <2>1, <2>2 DEF Contract!Fail, Contract!Slots, Slots, Contract!NoResult, NoResult
<1> QED
  BY <1>2, <1>3

\* A returning scan makes one target known.
LEMMA ScanReturnsRefines ==
  ASSUME IInv, NEW i \in Slots, ScanReturns(i) PROVE Contract!Learn(i)
<1>1. /\ worker[i] \in {"scanning", "silent"} /\ UNCHANGED <<flags, main, doc, code>>
      /\ \E v \in ScanVerdicts : local' = [local EXCEPT ![i] = [target |-> i, verdict |-> v]]
  BY DEF ScanReturns
<1>2. main # "exited"
  BY <1>1, WorkerRuns
<1>3. Status = "running" /\ Status' = Status /\ Unseen' = Unseen
  BY <1>1, <1>2, UnseenKept DEF Status
<1>4. local[i] = NoResult
  BY <1>1 DEF IInv, LocalsOwned, Returned
<1>5. ScanVerdicts \subseteq Verdict
  BY DEF ScanVerdicts, Verdict, Judged
<1> QED
  BY <1>1, <1>3, <1>4, <1>5 DEF Contract!Learn, Contract!NoResult, NoResult,
     Contract!Verdict, Verdict, Contract!Unreached, Unreached, Contract!Judged, Judged

\* Writing reports publishes a longer prefix of what is known.
LEMMA EmitRefines == ASSUME IInv, EmitJSON \/ EmitReport PROVE Contract!Publish
<1>1. main = "emit" /\ UNCHANGED <<flags, local, main, code>>
  BY DEF EmitJSON, EmitReport, shared
<1>2. Status = "running" /\ Status' = "running" /\ Unseen' = Unseen
  BY <1>1, UnseenKept DEF Status
<1>3. Contract!AllKnown
  BY <1>1, EmitKnows, KnownIsSomething
  DEF Contract!AllKnown, Contract!Slots, Slots, Contract!NoResult, NoResult
<1>4. doc \in Seq(Result(Slots) \cup {Lost}) /\ Len(doc) \in Nat
  BY DEF IInv, TypeOK
<1>5. PICK n \in Len(doc)+1 .. N, gone \in SUBSET Slots :
        /\ gone # {} => "write" \in Unseen
        /\ doc' = [k \in 1..n |-> IF k <= Len(doc) THEN doc[k]
                                ELSE IF k \in gone THEN Lost ELSE local[k]]
  <2>1. CASE EmitJSON
    <3>1. doc' = results /\ Len(doc) = 0
      BY <2>1 DEF EmitJSON
    <3>2. results = [k \in 1..N |-> local[k]]
      BY <1>1, EmitKnows DEF IInv, TypeOK, Slots
    <3>3. doc' = [k \in 1..N |-> IF k <= Len(doc) THEN doc[k]
                                 ELSE IF k \in {} THEN Lost ELSE local[k]]
      BY <3>1, <3>2
    <3>4. N \in Len(doc)+1 .. N /\ {} \in SUBSET Slots
      BY <3>1, SweepAssumption
    <3> QED
      BY <3>3, <3>4
  <2>2. CASE EmitReport
    <3> DEFINE n == Len(doc) + 1
    <3>1. PICK r \in Arrives(results[n]) : doc' = Append(doc, r)
      BY <2>2 DEF EmitReport
    <3>2. n \in Slots /\ n \in Len(doc)+1 .. N
      BY <2>2, <1>4, SweepAssumption DEF EmitReport, Slots
    <3>3. results[n] = local[n]
      BY <1>1, <3>2, EmitKnows
    <3> DEFINE gone == IF r = local[n] THEN {} ELSE {n}
    <3>4. gone \in SUBSET Slots /\ (gone # {} => "write" \in Unseen)
      BY <3>1, <3>2, <3>3 DEF Arrives, Unseen
    <3>5. r = IF n \in gone THEN Lost ELSE local[n]
      BY <3>1, <3>3 DEF Arrives
    <3> HIDE DEF gone
    <3>6. doc' = [k \in 1..n |-> IF k <= Len(doc) THEN doc[k]
                                 ELSE IF k \in gone THEN Lost ELSE local[k]]
      BY <1>4, <3>1, <3>5
    <3> QED
      BY <3>2, <3>4, <3>6
  <2> QED
    BY <2>1, <2>2
<1> QED
  BY <1>1, <1>2, <1>3, <1>5 DEF Contract!Publish, Contract!Slots, Slots, Contract!Lost, Lost

\* The gate of single mode passes or gates, as the contract allows.
LEMMA SingleOutcomeRefines ==
  ASSUME IInv, SingleOutcome PROVE Contract!Pass \/ Contract!Gate
<1>1. /\ main = "single" /\ doc # << >> /\ Exit(PolicyOutcome(<<local[1]>>))
      /\ UNCHANGED <<flags, local>>
  BY DEF SingleOutcome, shared
<1>2. Slots = {1} /\ N = 1 /\ ~Batch
  BY <1>1, SweepAssumption DEF IInv, BatchShape, Slots, Batch
<1>3. /\ Len(doc) = N /\ local[1].verdict # Unreached
      /\ local[1] \in [target : {1}, verdict : ScanVerdicts]
  BY <1>1, <1>2 DEF IInv, TypeOK, DocumentOwned, SingleShape, LocalsOwned, Returned
<1>4. local[1] # NoResult
  BY <1>2, <1>3, KnownIsSomething
<1>5. Contract!AllKnown /\ Contract!AllMet /\ Contract!Published
  BY <1>2, <1>3, <1>4
  DEF Contract!AllKnown, Contract!AllMet, Contract!Published, Contract!Slots, Slots,
      Contract!NoResult, NoResult, Contract!Unreached, Unreached
<1>6. local[1].verdict \in {"unjudged", "compliant", "incomplete", "violated"}
  BY <1>3 DEF ScanVerdicts, Judged
<1>7. CASE local[1].verdict \in {"violated", "incomplete"}
  <2>1. Contract!End("gated")
    <3>1. PolicyOutcome(<<local[1]>>) = exitPolicyFailed
      BY <1>7 DEF PolicyOutcome
    <3> QED
      BY <1>1, <3>1, EndRefines
  <2>2. ~Contract!AllClean
    BY <1>2, <1>7 DEF Contract!AllClean, Contract!Slots, Slots
  <2> QED
    BY <1>1, <1>5, <2>1, <2>2 DEF Contract!Gate
<1>8. CASE local[1].verdict \in {"unjudged", "compliant"}
  <2>1. Contract!End("passed")
    <3>1. PolicyOutcome(<<local[1]>>) = exitOK
      BY <1>8 DEF PolicyOutcome
    <3> QED
      BY <1>1, <3>1, EndRefines
  <2>2. Contract!AllClean
    BY <1>2, <1>8 DEF Contract!AllClean, Contract!Slots, Slots
  <2> QED
    BY <1>1, <1>5, <2>1, <2>2 DEF Contract!Pass
<1> QED
  BY <1>6, <1>7, <1>8

\* The exit status of a sweep is one the contract allows for what is known.
LEMMA ConcludeRefines ==
  ASSUME IInv, Conclude PROVE Contract!Pass \/ Contract!Gate \/ Contract!Fail
<1>1. /\ main = "emit" /\ Len(doc) = N /\ Exit(BatchOutcome(results))
      /\ UNCHANGED <<flags, local>>
  BY DEF Conclude, shared
<1>2. Contract!Published
  BY <1>1 DEF Contract!Published
<1>3. Contract!AllKnown
  BY <1>1, EmitKnows, KnownIsSomething
  DEF Contract!AllKnown, Contract!Slots, Slots, Contract!NoResult, NoResult
<1>4. DOMAIN results = Slots /\ \A i \in Slots : results[i] = local[i]
  BY <1>1, EmitKnows DEF IInv, TypeOK
<1>5. CASE \E i \in Slots : local[i].verdict = Unreached
  <2>1. Contract!End("failed")
    <3>1. BatchOutcome(results) = exitScanFailed
      BY <1>4, <1>5 DEF BatchOutcome, PolicyOutcome
    <3> QED
      BY <1>1, <3>1, EndRefines
  <2>2. ~Contract!AllMet
    BY <1>5 DEF Contract!AllMet, Contract!Slots, Slots, Contract!Unreached, Unreached
  <2> QED
    BY <1>1, <1>2, <1>3, <2>1, <2>2 DEF Contract!Fail
<1>6. CASE \A i \in Slots : local[i].verdict # Unreached
  <2>1. Contract!AllMet
    BY <1>6 DEF Contract!AllMet, Contract!Slots, Slots, Contract!Unreached, Unreached
  <2>2. \A i \in Slots : local[i].verdict \in ScanVerdicts
    BY <1>1, EmitKnows
  <2>3. \A i \in Slots : local[i].verdict \in {"unjudged", "compliant", "incomplete", "violated"}
    BY <1>6, <2>2 DEF ScanVerdicts, Judged
  <2>4. CASE \E i \in Slots : local[i].verdict \in {"violated", "incomplete"}
    <3>1. Contract!End("gated")
      <4>1. BatchOutcome(results) = exitPolicyFailed
        BY <1>4, <1>6, <2>4 DEF BatchOutcome, PolicyOutcome
      <4> QED
        BY <1>1, <4>1, EndRefines
    <3>2. ~Contract!AllClean
      BY <2>4 DEF Contract!AllClean, Contract!Slots, Slots
    <3> QED
      BY <1>1, <1>2, <1>3, <2>1, <3>1, <3>2 DEF Contract!Gate
  <2>5. CASE \A i \in Slots : local[i].verdict \notin {"violated", "incomplete"}
    <3>1. Contract!End("passed")
      <4>1. BatchOutcome(results) = exitOK
        BY <1>4, <1>6, <2>5 DEF BatchOutcome, PolicyOutcome
      <4> QED
        BY <1>1, <4>1, EndRefines
    <3>2. Contract!AllClean
      BY <2>3, <2>5 DEF Contract!AllClean, Contract!Slots, Slots
    <3> QED
      BY <1>1, <1>2, <1>3, <3>1, <3>2 DEF Contract!Pass
  <2> QED
    BY <2>4, <2>5
<1> QED
  BY <1>5, <1>6

\* Reporting in single mode publishes the one result, or what is left of it.
LEMMA SingleReportRefines == ASSUME IInv, SingleReport PROVE Contract!Publish
<1>1. /\ main = "single" /\ worker[1] = "scanned" /\ doc = << >>
      /\ UNCHANGED <<flags, main, code, local>>
  BY DEF SingleReport, ReportDue, shared
<1>2. Slots = {1} /\ N = 1
  BY <1>1, SweepAssumption DEF IInv, BatchShape, Slots, Batch
<1>3. local[1] # NoResult
  BY <1>1, <1>2, KnownIsSomething DEF IInv, LocalsOwned, Returned
<1>4. Contract!AllKnown /\ Status = "running" /\ Status' = Status /\ Unseen' = Unseen
  BY <1>1, <1>2, <1>3, UnseenKept
  DEF Contract!AllKnown, Contract!Slots, Slots, Contract!NoResult, NoResult, Status
<1>5. PICK r \in Arrives(local[1]) : doc' = <<r>>
  BY DEF SingleReport
<1> DEFINE gone == IF r = local[1] THEN {} ELSE Slots
<1>6. gone \in SUBSET Slots /\ (gone # {} => "write" \in Unseen)
  BY <1>5 DEF Arrives, Unseen
<1>7. r = IF 1 \in gone THEN Lost ELSE local[1]
  BY <1>2, <1>5 DEF Arrives
<1> HIDE DEF gone
<1>8. /\ 1 \in Len(doc)+1 .. N
      /\ doc' = [k \in 1..1 |-> IF k <= Len(doc) THEN doc[k] ELSE IF k \in gone THEN Lost ELSE local[k]]
  BY <1>1, <1>2, <1>5, <1>7
<1> QED
  BY <1>1, <1>4, <1>6, <1>8 DEF Contract!Publish, Contract!Slots, Slots, Contract!Lost, Lost

\* A scan that failed in single mode, and a report whose write error was seen,
\* end the run in a failure the contract allows.
LEMMA FailureRefines == ASSUME IInv, SingleFails \/ WriteFails PROVE Contract!Fail
<1>1. Contract!End("failed")
  <2>1. Exit(exitScanFailed) /\ UNCHANGED <<flags, local>> /\ main # "exited"
    BY DEF SingleFails, WriteFails, ReportDue, shared
  <2> QED
    BY <2>1, EndRefines
<1>2. CASE main = "single" /\ worker[1] = "scanned"
  <2>1. Slots = {1} /\ N = 1
    BY <1>2, SweepAssumption DEF IInv, BatchShape, Slots, Batch
  <2>2. local[1] # NoResult
    BY <1>2, <2>1, KnownIsSomething DEF IInv, LocalsOwned, Returned
  <2>3. Contract!AllKnown
    BY <2>1, <2>2 DEF Contract!AllKnown, Contract!Slots, Slots, Contract!NoResult, NoResult
  <2>4. ~Contract!Published \/ ~Contract!AllMet
    <3>1. CASE doc = << >>
      BY <2>1, <3>1 DEF Contract!Published
    <3>2. CASE local[1].verdict = Unreached
      BY <2>1, <3>2 DEF Contract!AllMet, Contract!Slots, Slots, Contract!Unreached, Unreached
    <3> QED
      BY <3>1, <3>2, <1>2 DEF SingleFails, WriteFails, ReportDue
  <2> QED
    BY <1>1, <2>3, <2>4 DEF Contract!Fail
<1>3. CASE main = "emit" /\ Len(doc) < N
  <2>1. Contract!AllKnown
    BY <1>3, EmitKnows, KnownIsSomething
    DEF Contract!AllKnown, Contract!Slots, Slots, Contract!NoResult, NoResult
  <2>2. ~Contract!Published
    BY <1>3, SweepAssumption DEF Contract!Published, IInv, TypeOK
  <2> QED
    BY <1>1, <2>1, <2>2 DEF Contract!Fail
<1> QED
  BY <1>2, <1>3 DEF SingleFails, WriteFails, ReportDue

\* The five preparation steps: invisible, or a failure before the first scan.
LEMMA PreparationRefines ==
  ASSUME IInv, CollectTargets \/ ValidateFlags \/ RequireTargets \/ OpenOutput \/ LoadPolicy
  PROVE  Contract!Fail \/ UNCHANGED seen
<1>1. CASE CollectTargets
  BY <1>1, PrepareRefines DEF CollectTargets, Preparing
<1>2. CASE ValidateFlags
  BY <1>2, PrepareRefines DEF ValidateFlags, UsableFlags, Preparing
<1>3. CASE RequireTargets
  BY <1>3, PrepareRefines DEF RequireTargets, Preparing
<1>4. CASE OpenOutput
  BY <1>4, PrepareRefines DEF OpenOutput, Preparing
<1>5. CASE LoadPolicy
  <2>1. Prepare("load", flags.policy # "refused", IF Batch THEN "spawn" ELSE "single")
    BY <1>5 DEF LoadPolicy
  <2> QED
    BY <2>1, PrepareRefines DEF Preparing
<1> QED
  BY <1>1, <1>2, <1>3, <1>4, <1>5

\* Every step of a run is a step of the contract or invisible to it.
LEMMA NextRefines == ASSUME IInv, [Next]_vars PROVE Contract!Next \/ UNCHANGED seen
<1>1. CASE CollectTargets \/ ValidateFlags \/ RequireTargets \/ OpenOutput \/ LoadPolicy
  BY <1>1, PreparationRefines DEF Contract!Next
<1>2. CASE SingleReport \/ SingleOutcome \/ SingleFails \/ WriteFails
  BY <1>2, SingleReportRefines, SingleOutcomeRefines, FailureRefines DEF Contract!Next
<1>3. CASE EmitJSON \/ EmitReport \/ Conclude
  BY <1>3, EmitRefines, ConcludeRefines DEF Contract!Next
<1>4. CASE SingleScan \/ Spawn \/ SpawnedAll \/ Wait
  <2>1. UNCHANGED <<flags, local, doc>> /\ main # "exited" /\ main' # "exited"
    BY <1>4 DEF SingleScan, Spawn, SpawnedAll, Wait, shared
  <2> QED
    BY <2>1, Invisible
<1>5. ASSUME NEW i \in Slots, ScanReturns(i) PROVE Contract!Next
  <2>1. Contract!Learn(i)
    BY <1>5, ScanReturnsRefines
  <2> QED
    BY <2>1 DEF Contract!Next, Contract!Slots, Slots
<1>6. ASSUME NEW i \in Slots,
             Acquire(i) \/ Store(i) \/ Count(i) \/ Release(i) \/ Done(i) \/ FallSilent(i)
      PROVE  UNCHANGED seen
  <2>1. UNCHANGED <<flags, local, doc, main, code>>
    BY <1>6 DEF Acquire, Store, Count, Release, Done, FallSilent
  <2> QED
    BY <2>1, Invisible
<1>7. CASE UNCHANGED vars
  BY <1>7, Invisible DEF vars
<1> QED
  BY <1>1, <1>2, <1>3, <1>4, <1>5, <1>6, <1>7 DEF Next, MainStep, WorkerStep, Finished

\* The goroutines, the semaphore and the slots implement what a run promises:
\* for every number of targets and every concurrency, a run is a run of
\* SweepContract.
THEOREM Refinement == Spec => ImplementsContract
<1>1. Init => Contract!Init
  BY InitRefines
<1>2. IInv /\ [Next]_vars => [Contract!Next]_(Contract!vars)
  BY NextRefines DEF seen, Contract!vars
<1> QED
  BY <1>1, <1>2, Invariance, PTL DEF Spec, ImplementsContract, Contract!Spec
=============================================================================
