----------------------------- MODULE ServerRuns -----------------------------
(***************************************************************************)
(* The life of one run in server mode: the API request that creates and    *)
(* enqueues it, the ARQ worker that executes RunJob's coroutine, and the   *)
(* other writers of the same row: cancel requests, the lazy reconciliation *)
(* done while a run is read, and the reconciliation every worker process   *)
(* does when it boots.  Runs do not touch each other's row, so one run is  *)
(* enough; the boot of another replica is an action of this run.           *)
(***************************************************************************)
EXTENDS RunJob

CONSTANTS
  Requests,     \* POST /runs/{id}/cancel requests
  HostSleeps    \* may the host of a live job be suspended past the cutoff?

ASSUME ServerRunsAssumption == HostSleeps \in BOOLEAN

VARIABLES
  creator,      \* the POST /runs request
  cancel,       \* cancel[r]: the cancel request r
  reaper,       \* a GET that reconciles the run lazily
  booter        \* a worker process running its startup hook

envVars == <<creator, cancel, reaper, booter>>
vars == <<row, runSteps, caseResult, announced, job, tally, outcome,
          creator, cancel, reaper, booter>>

TypeOK ==
  /\ RunJobTypeOK
  /\ creator \in {"flushed", "enqueued", "committed"}
  /\ cancel \in [Requests -> {"idle", "aborting", "done"}]
  /\ reaper \in {"idle", "reading"}
  /\ booter \in {"idle", "reading"}

Init ==
  /\ RunJobInit
  /\ creator = "flushed"
  /\ cancel = [r \in Requests |-> "idle"]
  /\ reaper = "idle"
  /\ booter = "idle"

-----------------------------------------------------------------------------
\* POST /runs: create_run has flushed the row; the job is enqueued before the
\* request's transaction commits.
EnqueueRun ==
  /\ creator = "flushed"
  /\ creator' = "enqueued"
  /\ UNCHANGED <<jobVars, cancel, reaper, booter>>

CommitRun ==
  /\ creator = "enqueued"
  /\ creator' = "committed"
  /\ row' = [row EXCEPT !.status = "QUEUED"]
  /\ UNCHANGED <<runSteps, caseResult, announced, job, tally, outcome,
                 cancel, reaper, booter>>

\* ARQ hands the job to a worker once it is in the queue, and again after the
\* worker died or was shut down, up to max_tries times.
Deliver ==
  /\ creator # "flushed"
  /\ job.pc = "idle"
  /\ JobStarts
  /\ UNCHANGED envVars

Redeliver ==
  /\ job.pc = "lost"
  /\ JobStarts
  /\ UNCHANGED envVars

JobStep == JobProgress /\ UNCHANGED envVars
JobFailure == JobFails /\ UNCHANGED envVars

-----------------------------------------------------------------------------
Cancellable == {"QUEUED", "RUNNING"}

\* POST /runs/{id}/cancel: the status is checked, then the request awaits the
\* abort of the ARQ job for as long as that takes.  A run in any other status
\* answers 409 and changes nothing.
CancelLoad(r) ==
  /\ cancel[r] = "idle"
  /\ row.status \in Cancellable
  /\ cancel' = [cancel EXCEPT ![r] = "aborting"]
  /\ UNCHANGED <<jobVars, creator, reaper, booter>>

\* update_status on the object read before the abort.
CancelCommit(r) ==
  /\ cancel[r] = "aborting"
  /\ cancel' = [cancel EXCEPT ![r] = "done"]
  /\ row' = [row EXCEPT !.status = "CANCELLED"]
  /\ UNCHANGED <<runSteps, caseResult, announced, job, tally, outcome,
                 creator, reaper, booter>>

\* Mutant: only a run whose job has returned looks abandoned.
InactiveOnlyDone == job.pc = "done"

\* The heartbeat and every session of the job touch updated_at, so that a run
\* looks abandoned only while no job is alive, or its host is suspended.
Inactive == job.pc \notin Live \/ HostSleeps

\* _reconcile_lazy_interrupted_run, on every read of the run through the API.
ReapLoad ==
  /\ reaper = "idle"
  /\ row.status = "RUNNING"
  /\ Inactive
  /\ reaper' = "reading"
  /\ UNCHANGED <<jobVars, creator, cancel, booter>>

ReapCommit ==
  /\ reaper = "reading"
  /\ reaper' = "idle"
  /\ row' = [row EXCEPT !.status = "INTERRUPTED"]
  /\ UNCHANGED <<runSteps, caseResult, announced, job, tally, outcome,
                 creator, cancel, booter>>

\* reconcile_interrupted_runs in the startup hook of a worker process: every
\* RUNNING run becomes an ERROR, whichever process executes it.
BootLoad ==
  /\ booter = "idle"
  /\ row.status = "RUNNING"
  /\ booter' = "reading"
  /\ UNCHANGED <<jobVars, creator, cancel, reaper>>

BootCommit ==
  /\ booter = "reading"
  /\ booter' = "idle"
  /\ row' = [row EXCEPT !.status = "ERROR"]
  /\ UNCHANGED <<runSteps, caseResult, announced, job, tally, outcome,
                 creator, cancel, reaper>>

-----------------------------------------------------------------------------
\* The system while no worker fails.
HealthyNext ==
  \/ EnqueueRun \/ CommitRun \/ Deliver \/ Redeliver
  \/ JobStep
  \/ \E r \in Requests : CancelLoad(r) \/ CancelCommit(r)
  \/ ReapLoad \/ ReapCommit \/ BootLoad \/ BootCommit

Next == HealthyNext \/ JobFailure

Spec == Init /\ [][Next]_vars

\* The API request, the event loop of a live worker and ARQ's first delivery
\* make progress, and somebody keeps looking at the run.  Nobody has to cancel,
\* no process has to fail, no replica has to boot, and a lost job need not be
\* delivered again.
Fairness ==
  /\ WF_vars(EnqueueRun) /\ WF_vars(CommitRun) /\ WF_vars(Deliver)
  /\ WF_vars(JobStep)
  /\ WF_vars(ReapLoad) /\ WF_vars(ReapCommit)

LiveSpec == Spec /\ Fairness
HealthySpec == Init /\ [][HealthyNext]_vars /\ Fairness

-----------------------------------------------------------------------------
\* Safety

\* Attempt a recorded every step of the selection, none of them as a failure.
CompletedBy(a) ==
  \A i \in Steps : \E s \in runSteps :
    s.attempt = a /\ s.order = i /\ s.outcome \notin Failing

\* A run that shows or announces PASS has an attempt in which every selected
\* step was executed, recorded and did not fail, whatever was cancelled,
\* retried or reconciled in between (_determine_final_run_status).
PassVerdictSound ==
  "PASS" \in {row.status, announced} =>
    Steps # {} /\ \E a \in Attempts : CompletedBy(a)

StepsRecorded(a, outcomes) ==
  Cardinality({s \in runSteps : s.attempt = a /\ s.outcome \in outcomes})

\* The step counters of the row never claim more than the run_steps rows of one
\* attempt back, and a PASS or FAIL verdict comes with the exact numbers, even
\* after a redelivery that recorded some steps twice.
CountersBacked ==
  \E a \in Attempts :
    /\ row.passed <= StepsRecorded(a, {"PASS"})
    /\ row.failed <= StepsRecorded(a, Failing)
    /\ row.status \in {"PASS", "FAIL"} =>
         /\ row.passed = StepsRecorded(a, {"PASS"})
         /\ row.failed = StepsRecorded(a, Failing)

\* A passing run leaves every selected case passed or skipped: the run's row
\* and the cases' last_run_result are written by one finalization.
PassedRunPassesCases ==
  row.status = "PASS" =>
    \A c \in SelectedCases : caseResult[c] \in {"PASS", "SKIP"}

\* A FAIL verdict, and a FAIL or ERROR left on a case, can be traced to a
\* run_steps row with that outcome.
FailureHasEvidence ==
  /\ "FAIL" \in {row.status, announced} => \E s \in runSteps : s.outcome = "FAIL"
  /\ \A c \in Cases : caseResult[c] \in Failing =>
       \E s \in runSteps :
         Selection[s.order] = c /\ s.outcome = caseResult[c]

\* Some session read the row before the cancellation and has yet to write it.
StaleWriter ==
  \/ job.pc \in {"init", "recording", "finalizing", "handling"}
       /\ job.loaded # "CANCELLED"
  \/ reaper = "reading"
  \/ booter = "reading"

\* A committed cancellation is undone only by a session that was already open
\* when it committed: whoever reads CANCELLED leaves it alone (the guards of
\* update_status, _finalize_run, _is_run_cancelled and the handlers together).
CancelUndoneOnlyByStaleWriter ==
  [][row.status = "CANCELLED" /\ row'.status # "CANCELLED" => StaleWriter]_vars

\* A run seen RUNNING ends in a terminal status for good, through crashes,
\* shutdowns and redeliveries, as long as it is looked at.
RunSettles == (row.status = "RUNNING") ~> [](row.status \in Terminal)

-----------------------------------------------------------------------------
\* Claims of the code's comments and docstrings that do not hold

\* "Don't regress CANCELLED back to RUNNING" (RunRepo.update_status).
NeverRegressCancelled ==
  [][row.status = "CANCELLED" => row'.status # "RUNNING"]_vars

\* "Any other status (PASS / FAIL / ERROR / CANCELLED) is terminal and returns
\* 409" (routers/runs.py): no request turns a verdict into CANCELLED.
CancelSparesVerdicts ==
  [][\A r \in Requests :
       CancelCommit(r) => row.status \notin {"PASS", "FAIL"}]_vars

\* "the runner flips the status to RUNNING / PASS / FAIL asynchronously"
\* (create_run): a committed run does not stay QUEUED.
QueuedRunIsPickedUp == (row.status = "QUEUED") ~> (row.status # "QUEUED")

\* "Reconcile any orphaned in-flight runs left from a prior worker process"
\* (worker.py startup): a run whose job is alive is not an orphan.
BootReconcilesOrphans == [][BootCommit => job.pc \notin Live]_vars

\* A case none of whose steps was executed is not recorded as passed by the
\* finalization of the run.
NoUnrunCasePasses ==
  \A c \in Cases : caseResult[c] = "PASS" =>
    \E s \in runSteps : Selection[s.order] = c
=============================================================================
