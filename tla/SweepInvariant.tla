--------------------------- MODULE SweepInvariant ---------------------------
(***************************************************************************)
(* The inductive invariant behind the safety of Sweep: what the semaphore  *)
(* and the WaitGroup count, who owns each slot, and what each phase of the *)
(* main goroutine implies about the goroutines it started.                 *)
(***************************************************************************)
EXTENDS Sweep

Returned == {"scanned", "stored", "counted", "released", "done"}
Stored   == {"stored", "counted", "released", "done"}
Active   == {i \in Slots : worker[i] \notin {"unstarted", "done"}}

\* One token in the channel per goroutine between its acquire and its release.
TokensCounted == sem = IF Batch THEN Cardinality(InFlight) ELSE 0

\* The WaitGroup counts the goroutines that were started and have not finished.
WaitsCounted == wg = IF Batch THEN Cardinality(Active) ELSE 0

\* A goroutine's own result: nothing until its scan returns, then its target's.
LocalsOwned ==
  \A i \in Slots :
    IF worker[i] \in Returned
      THEN local[i] \in [target : {i}, verdict : ScanVerdicts]
      ELSE local[i] = NoResult

\* A slot belongs to the goroutine of its target alone.
SlotsOwned == \A i \in Slots : worker[i] \in Stored => results[i] = local[i]

\* Single mode uses one worker, which never gets past its scan.
SingleShape ==
  ~Batch =>
    /\ main \in Preparing \cup {"single", "exited"}
    /\ worker[1] \in {"unstarted", "scanning", "silent", "scanned"}
    /\ doc # << >> => worker[1] = "scanned" /\ local[1].verdict # Unreached

BatchShape ==
  Batch =>
    /\ main # "single"
    /\ main # "exited" => \A i \in Slots : worker[i] = "unstarted" <=> i >= next
    /\ main \in {"wait", "emit"} => next = N + 1
    /\ doc # << >> => main \in {"emit", "exited"}

\* What each phase of the main goroutine knows.
PhasesImply ==
  /\ main \in Preparing =>
       next = 1 /\ doc = << >> /\ \A i \in Slots : worker[i] = "unstarted"
  /\ main \in {"require", "open", "load"} => flags.policy # "both"
  /\ main \in {"spawn", "wait", "emit", "single"} => flags.policy \in {"absent", "loads"}
  /\ main = "emit" => \A i \in Slots : worker[i] = "done"
  /\ main = "exited" => \/ doc = << >> /\ \A i \in Slots : worker[i] = "unstarted"
                        \/ \A i \in Slots : worker[i] = "done"
                        \/ ~Batch /\ worker[1] = "scanned"

DocumentOwned == Len(doc) <= N /\ DocumentIsFaithful

\* The inductive invariant.
IInv ==
  /\ TypeOK
  /\ TokensCounted
  /\ WaitsCounted
  /\ SemaphoreRespected
  /\ LocalsOwned
  /\ SlotsOwned
  /\ SingleShape
  /\ BatchShape
  /\ PhasesImply
  /\ DocumentOwned
  /\ SuccessIsEarned
  /\ GateSpeaksOfMeasuredTargets
=============================================================================
