------------------------------- MODULE RunJob -------------------------------
(***************************************************************************)
(* One test run and the job that executes it: the `runs` row, its          *)
(* `run_steps` rows, the `test_cases.last_run_result` column, and the      *)
(* coroutine `run_test_case(ctx, run_id)` of the runner.                   *)
(*                                                                         *)
(* The job reads and writes the row in short database sessions (READ       *)
(* COMMITTED, no row locks).  A session whose read and write are separated *)
(* by an await is two actions here: the "Load" action remembers the status *)
(* it read in job.loaded, the "Commit" action writes.  Between the two any *)
(* other process may commit.  Who starts the job, and who else writes the  *)
(* row, is left to the modules that extend this one.                       *)
(***************************************************************************)
EXTENDS Naturals, Sequences, FiniteSets

CONSTANTS
  Cases,        \* test case ids
  Selection,    \* Selection[i] is the case of the i-th step of the run
  Planned,      \* runs.metadata_json["planned_cases"]
  MaxAttempts   \* WorkerSettings.max_tries: deliveries of one job

ASSUME RunJobAssumption ==
  /\ Selection \in Seq(Cases)
  /\ Planned \subseteq Cases
  /\ MaxAttempts \in Nat \ {0}

VARIABLES
  row,          \* the committed `runs` row: status and step counters
  runSteps,     \* the committed `run_steps` rows
  caseResult,   \* test_cases.last_run_result
  announced,    \* status carried by the last "run.completed" event
  job,          \* control state of the coroutine
  tally,        \* `summary`: number of results of each kind, this attempt
  outcome       \* `case_outcome`: result of each case, this attempt

jobVars == <<row, runSteps, caseResult, announced, job, tally, outcome>>

Verdicts    == {"PASS", "FAIL", "ERROR"}
Terminal    == Verdicts \union {"CANCELLED", "INTERRUPTED"}
RunStatus   == Terminal \union {"QUEUED", "RUNNING"}
StepOutcome == {"PASS", "FAIL", "ERROR", "SKIP"}
Failing     == {"FAIL", "ERROR"}
CaseResult  == StepOutcome \union {"CANCELLED", "NONE"}
Steps       == 1 .. Len(Selection)
Attempts    == 1 .. MaxAttempts

RunStepRow == [attempt : Attempts, order : Steps, outcome : StepOutcome]

\* Where the coroutine is.  "starting" is before the first read of the row,
\* "loop" between two steps, "lost" after its process died.
Pc == {"idle", "starting", "init", "loop", "exec", "record", "recording",
       "final", "finalizing", "announce", "handler", "handling", "lost", "done"}
Live == Pc \ {"idle", "lost", "done"}

\* In-flight positions whose exception handler is run_test_case's.
Body == Live \ {"handler", "handling"}

Faults == {"exception", "timeout", "shutdown"}

Job ==
  [pc        : Pc,
   attempt   : 0 .. MaxAttempts,
   loaded    : RunStatus \union {"NONE"},    \* read by the open session
   idx       : 1 .. Len(Selection) + 1,
   cancelled : BOOLEAN,
   result    : StepOutcome \union {"NONE"},  \* of a step not yet recorded
   fatal     : BOOLEAN,                      \* its is_fatal_infra flag
   fault     : Faults \union {"NONE"}]       \* what reached the handler

RowType == [status : RunStatus \union {"ABSENT"}, passed : Nat, failed : Nat]

RunJobTypeOK ==
  /\ row \in RowType
  /\ runSteps \subseteq RunStepRow
  /\ caseResult \in [Cases -> CaseResult]
  /\ announced \in RunStatus \union {"NONE"}
  /\ job \in Job
  /\ tally \in [StepOutcome -> Nat]
  /\ outcome \in [Cases -> StepOutcome \union {"NONE"}]

NoTally   == [o \in StepOutcome |-> 0]
NoOutcome == [c \in Cases |-> "NONE"]

\* A job whose process holds nothing in memory.
FreshJob(pc, attempt, fault) ==
  [pc |-> pc, attempt |-> attempt, loaded |-> "NONE", idx |-> 1,
   cancelled |-> FALSE, result |-> "NONE", fatal |-> FALSE, fault |-> fault]

RunJobInit ==
  /\ row = [status |-> "ABSENT", passed |-> 0, failed |-> 0]
  /\ runSteps = {}
  /\ caseResult = NoOutcome
  /\ announced = "NONE"
  /\ job = FreshJob("idle", 0, "NONE")
  /\ tally = NoTally
  /\ outcome = NoOutcome

-----------------------------------------------------------------------------
\* Writing the row

\* Mutant: without the guard on CANCELLED.
UpdateStatusUnguarded(loaded, status) ==
  IF status = loaded THEN row.status ELSE status

\* RunRepo.update_status on an object whose status attribute was loaded as
\* `loaded`: CANCELLED is not taken back to RUNNING, and the ORM emits a column
\* only when the attribute differs from what was loaded, so that assigning the
\* loaded value leaves whatever another transaction committed meanwhile.
UpdateStatus(loaded, status) ==
  LET attribute == IF loaded = "CANCELLED" /\ status = "RUNNING"
                   THEN loaded ELSE status
  IN  IF attribute = loaded THEN row.status ELSE attribute

Goto(pc) == job' = [job EXCEPT !.pc = pc]

\* The coroutine ends, or is left for its handler: its locals are gone.
Forget(pc, fault) ==
  /\ job' = FreshJob(pc, job.attempt, fault)
  /\ tally' = NoTally
  /\ outcome' = NoOutcome

\* Open a session and read the row's status.
LoadRow(pc) == job' = [job EXCEPT !.pc = pc, !.loaded = row.status]

-----------------------------------------------------------------------------
\* _init_run_record: one session that reads the row first, awaits the registry,
\* the credential refresh and the capability rows, and writes RUNNING last.

\* The row is not visible yet: the job returns RUN_NOT_FOUND and is finished.
JobRunNotFound ==
  /\ job.pc = "starting"
  /\ row.status = "ABSENT"
  /\ Forget("done", "NONE")
  /\ UNCHANGED <<row, runSteps, caseResult, announced>>

JobInitLoad ==
  /\ job.pc = "starting"
  /\ row.status # "ABSENT"
  /\ LoadRow("init")
  /\ UNCHANGED <<row, runSteps, caseResult, announced, tally, outcome>>

JobInitCommit ==
  /\ job.pc = "init"
  /\ row' = [status |-> UpdateStatus(job.loaded, "RUNNING"),
             passed |-> 0, failed |-> 0]
  /\ job' = [job EXCEPT !.pc = "loop", !.loaded = "NONE",
                        !.idx = 1, !.cancelled = FALSE]
  /\ tally' = NoTally
  /\ outcome' = NoOutcome
  /\ UNCHANGED <<runSteps, caseResult, announced>>

-----------------------------------------------------------------------------
\* The loop over the selection

Failed(c) == outcome[c] \in Failing

\* _is_run_cancelled at the head of an iteration.
StopRequested == row.status \in {"CANCELLED", "INTERRUPTED"}

JobSeesStop ==
  /\ job.pc = "loop"
  /\ job.idx \in Steps
  /\ StopRequested
  /\ job' = [job EXCEPT !.pc = "final", !.cancelled = TRUE]
  /\ UNCHANGED <<row, runSteps, caseResult, announced, tally, outcome>>

\* The remaining steps of a failed case are passed over.
JobSkipsStep ==
  /\ job.pc = "loop"
  /\ job.idx \in Steps
  /\ ~ StopRequested
  /\ Failed(Selection[job.idx])
  /\ job' = [job EXCEPT !.idx = @ + 1]
  /\ UNCHANGED <<row, runSteps, caseResult, announced, tally, outcome>>

JobBeginsStep ==
  /\ job.pc = "loop"
  /\ job.idx \in Steps
  /\ ~ StopRequested
  /\ ~ Failed(Selection[job.idx])
  /\ Goto("exec")
  /\ UNCHANGED <<row, runSteps, caseResult, announced, tally, outcome>>

JobSelectionDone ==
  /\ job.pc = "loop"
  /\ job.idx = Len(Selection) + 1
  /\ Goto("final")
  /\ UNCHANGED <<row, runSteps, caseResult, announced, tally, outcome>>

\* _update_outcomes: the result a case has after one more step of it.
CaseOutcome(before, o) ==
  CASE o = "PASS"  -> IF before \in Failing THEN before ELSE "PASS"
    [] o = "FAIL"  -> "FAIL"
    [] o = "ERROR" -> IF before = "FAIL" THEN before ELSE "ERROR"
    [] o = "SKIP"  -> IF before = "NONE" THEN "SKIP" ELSE before

\* The step runs (execute_step with its healing retry) and returns a result.
\* Only errors of the infrastructure are fatal.
JobExecutesStep(o, fatal) ==
  /\ job.pc = "exec"
  /\ fatal => o = "ERROR"
  /\ job' = [job EXCEPT !.pc = "record", !.result = o, !.fatal = fatal]
  /\ tally' = [tally EXCEPT ![o] = @ + 1]
  /\ outcome' = [outcome EXCEPT ![Selection[job.idx]] = CaseOutcome(@, o)]
  /\ UNCHANGED <<row, runSteps, caseResult, announced>>

\* _record_step_persistence: the run_steps row is inserted and the artifacts
\* are uploaded before the run's status is read.
JobRecordLoad ==
  /\ job.pc = "record"
  /\ LoadRow("recording")
  /\ UNCHANGED <<row, runSteps, caseResult, announced, tally, outcome>>

\* Mutant: skipped steps counted as passed ones.
CountersWithSkips(t) ==
  [passed |-> t["PASS"] + t["SKIP"], failed |-> t["FAIL"] + t["ERROR"]]

\* Counters of the row: an errored step counts as a failed one.
CountersFrom(t) == [passed |-> t["PASS"], failed |-> t["FAIL"] + t["ERROR"]]

NewStepRow ==
  [attempt |-> job.attempt, order |-> job.idx, outcome |-> job.result]

Recorded ==
  [job EXCEPT !.loaded = "NONE", !.result = "NONE", !.fatal = FALSE]

JobRecordCommit ==
  /\ job.pc = "recording"
  /\ runSteps' = runSteps \union {NewStepRow}
  /\ \/ /\ job.loaded = "CANCELLED"
        /\ job' = [Recorded EXCEPT !.pc = "final", !.cancelled = TRUE]
        /\ row' = row
     \/ /\ job.loaded # "CANCELLED"
        /\ row' = [status |-> UpdateStatus(job.loaded, "RUNNING"),
                   passed |-> CountersFrom(tally).passed,
                   failed |-> CountersFrom(tally).failed]
        /\ job' = IF job.fatal
                  THEN [Recorded EXCEPT !.pc = "final"]
                  ELSE [Recorded EXCEPT !.pc = "loop", !.idx = @ + 1]
  /\ UNCHANGED <<caseResult, announced, tally, outcome>>

-----------------------------------------------------------------------------
\* _finalize_run

NoStepRan == \A o \in StepOutcome : tally[o] = 0

\* Mutant: errored steps do not count.
FinalStatusIgnoresErrors ==
  IF job.cancelled THEN "CANCELLED"
  ELSE IF NoStepRan THEN "ERROR"
  ELSE IF tally["FAIL"] > 0 THEN "FAIL" ELSE "PASS"

\* _determine_final_run_status
FinalStatus ==
  CASE job.cancelled                                -> "CANCELLED"
    [] ~ job.cancelled /\ NoStepRan                 -> "ERROR"
    [] ~ job.cancelled /\ tally["FAIL"] > 0         -> "FAIL"
    [] ~ job.cancelled /\ tally["FAIL"] = 0
         /\ tally["ERROR"] > 0                      -> "ERROR"
    [] OTHER                                        -> "PASS"

SelectedCases == {Selection[i] : i \in Steps}

\* Mutant: a selected case that was never reached counts as failed.
FinalCaseResultPessimistic(c) ==
  IF c \in SelectedCases
  THEN IF outcome[c] = "NONE" THEN "FAIL" ELSE outcome[c]
  ELSE caseResult[c]

\* What finalization writes to last_run_result.  A selected case with no
\* recorded outcome gets the default of `case_outcome.get`.
FinalCaseResult(c) ==
  IF c \in SelectedCases
  THEN IF job.cancelled /\ c = Selection[job.idx] /\ ~ Failed(c)
       THEN "CANCELLED"
       ELSE IF outcome[c] = "NONE" THEN "PASS" ELSE outcome[c]
  ELSE IF c \in Planned
       THEN IF job.cancelled THEN "CANCELLED" ELSE "SKIP"
       ELSE caseResult[c]

JobFinalLoad ==
  /\ job.pc = "final"
  /\ LoadRow("finalizing")
  /\ UNCHANGED <<row, runSteps, caseResult, announced, tally, outcome>>

JobFinalCommit ==
  /\ job.pc = "finalizing"
  /\ row' = IF job.loaded \in {"INTERRUPTED", "CANCELLED"}
            THEN row
            ELSE [status |-> UpdateStatus(job.loaded, FinalStatus),
                  passed |-> CountersFrom(tally).passed,
                  failed |-> CountersFrom(tally).failed]
  /\ caseResult' = [c \in Cases |-> FinalCaseResult(c)]
  /\ Goto("announce")
  /\ UNCHANGED <<runSteps, announced, tally, outcome>>

\* The "run.completed" event carries the status decided by this session.
JobAnnounce ==
  /\ job.pc = "announce"
  /\ announced' = IF job.loaded \in {"INTERRUPTED", "CANCELLED"}
                  THEN job.loaded ELSE FinalStatus
  /\ Forget("done", "NONE")
  /\ UNCHANGED <<row, runSteps, caseResult>>

-----------------------------------------------------------------------------
\* run_test_case's exception handlers, and the death of the process

\* An unhandled exception, the job timeout, or a graceful worker shutdown.
JobFault(f) ==
  /\ job.pc \in Body
  /\ Forget("handler", f)
  /\ UNCHANGED <<row, runSteps, caseResult, announced>>

\* Once the handler is through, a shutdown leaves the job in the queue.
AfterHandler == IF job.fault = "shutdown" THEN "lost" ELSE "done"

JobHandlerKeeps ==
  /\ job.pc = "handler"
  /\ row.status \in Terminal \union {"ABSENT"}
  /\ Forget(AfterHandler, "NONE")
  /\ UNCHANGED <<row, runSteps, caseResult, announced>>

JobHandlerLoad ==
  /\ job.pc = "handler"
  /\ row.status \notin Terminal \union {"ABSENT"}
  /\ LoadRow("handling")
  /\ UNCHANGED <<row, runSteps, caseResult, announced, tally, outcome>>

HandlerStatus == IF job.fault = "exception" THEN "ERROR" ELSE "CANCELLED"

JobHandlerCommit ==
  /\ job.pc = "handling"
  /\ row' = [row EXCEPT !.status = HandlerStatus]
  /\ Forget(AfterHandler, "NONE")
  /\ UNCHANGED <<runSteps, caseResult, announced>>

JobCrash ==
  /\ job.pc \in Live
  /\ Forget("lost", "NONE")
  /\ UNCHANGED <<row, runSteps, caseResult, announced>>

-----------------------------------------------------------------------------
\* Mutant: deliveries are not counted against max_tries.
JobStartsUncapped ==
  /\ job' = [job EXCEPT !.pc = "starting", !.attempt = @ + 1]
  /\ UNCHANGED <<row, runSteps, caseResult, announced, tally, outcome>>

\* A worker picks the job up, for the first time or again.
JobStarts ==
  /\ job.attempt < MaxAttempts
  /\ job' = [job EXCEPT !.pc = "starting", !.attempt = @ + 1]
  /\ UNCHANGED <<row, runSteps, caseResult, announced, tally, outcome>>

\* What the coroutine does by itself once started.
JobProgress ==
  \/ JobRunNotFound \/ JobInitLoad \/ JobInitCommit
  \/ JobSeesStop \/ JobSkipsStep \/ JobBeginsStep \/ JobSelectionDone
  \/ \E o \in StepOutcome, fatal \in BOOLEAN : JobExecutesStep(o, fatal)
  \/ JobRecordLoad \/ JobRecordCommit
  \/ JobFinalLoad \/ JobFinalCommit \/ JobAnnounce
  \/ JobHandlerKeeps \/ JobHandlerLoad \/ JobHandlerCommit

JobFails == JobCrash \/ \E f \in Faults : JobFault(f)
=============================================================================
