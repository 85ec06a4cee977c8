------------------------------ MODULE LocalRuns ------------------------------
(***************************************************************************)
(* The life of one run in LOCAL mode: no queue and no worker, but a        *)
(* supervisor process that polls the database for QUEUED runs and executes *)
(* RunJob's coroutine itself, one run after the other.  Starting a second  *)
(* supervisor is kept out by a file lock, which the operating system gives *)
(* back when its holder dies.  The requests that create, cancel and read   *)
(* the run are those of ServerRuns.                                        *)
(***************************************************************************)
EXTENDS ServerRuns

CONSTANTS
  Supervisors,  \* processes started with `python -m suitest_runner.local_supervisor`
  MaxFaults     \* bound: crashes and failed writes of supervisors

\* A run is started again only after a fault, so that MaxAttempts never binds.
ASSUME LocalRunsAssumption == MaxFaults \in Nat /\ MaxFaults < MaxAttempts

VARIABLES
  sup,          \* sup[p]: where supervisor p is
  exits,        \* exits[p]: it was told to stop (CancelledError)
  faults        \* number of crashes and failed writes so far

localVars == <<vars, sup, exits, faults>>

\* "listed": the run is in the list read by the last poll, and has yet to be
\* started.  "raised": run_test_case ended with an exception.
Places == {"down", "booting", "reconciling", "polling", "listed", "running",
           "raised", "catching"}

LocalTypeOK ==
  /\ TypeOK
  /\ sup \in [Supervisors -> Places]
  /\ exits \in [Supervisors -> BOOLEAN]
  /\ faults \in 0 .. MaxFaults

LocalInit ==
  /\ Init
  /\ sup = [p \in Supervisors |-> "down"]
  /\ exits = [p \in Supervisors |-> FALSE]
  /\ faults = 0

At(p, place) == sup[p] = place
Moves(p, place) == sup' = [sup EXCEPT ![p] = place]

\* A failure the bound still allows.
Faulty == faults < MaxFaults /\ faults' = faults + 1

\* The supervisor's write to the row, and no other.
Interrupts ==
  /\ row' = [row EXCEPT !.status = "INTERRUPTED"]
  /\ UNCHANGED <<runSteps, caseResult, announced, job, tally, outcome, envVars>>

-----------------------------------------------------------------------------
\* Starting: the lock, then the reconciliation of what a dead supervisor left

\* Mutant: the lock is not taken.
BootUnlocked(p) ==
  /\ At(p, "down")
  /\ Moves(p, "booting")
  /\ UNCHANGED <<vars, exits, faults>>

\* Mutant: the lock is a file that a dead holder leaves behind.
BootUnlessFileLeft(p) ==
  /\ \A q \in Supervisors : At(q, "down")
  /\ faults = 0
  /\ Moves(p, "booting")
  /\ UNCHANGED <<vars, exits, faults>>

\* A second supervisor finds the lock taken and exits at once.
Boot(p) ==
  /\ \A q \in Supervisors : At(q, "down")
  /\ Moves(p, "booting")
  /\ UNCHANGED <<vars, exits, faults>>

\* _reconcile_zombie_runs: the RUNNING rows are read, then written.
ZombieLoad(p) ==
  /\ At(p, "booting")
  /\ Moves(p, IF row.status = "RUNNING" THEN "reconciling" ELSE "polling")
  /\ UNCHANGED <<vars, exits, faults>>

ZombieCommit(p) ==
  /\ At(p, "reconciling")
  /\ Interrupts
  /\ Moves(p, "polling")
  /\ UNCHANGED <<exits, faults>>

\* A database error is logged, and the loop starts all the same.
ZombieFails(p) ==
  /\ sup[p] \in {"booting", "reconciling"}
  /\ Faulty
  /\ Moves(p, "polling")
  /\ UNCHANGED <<vars, exits>>

-----------------------------------------------------------------------------
\* drain_once: the ids are read once, the runs executed one after the other

\* Mutant: a run left RUNNING is resumed.
PollUnfinished(p) ==
  /\ At(p, "polling")
  /\ row.status \in {"QUEUED", "RUNNING"}
  /\ Moves(p, "listed")
  /\ UNCHANGED <<vars, exits, faults>>

Poll(p) ==
  /\ At(p, "polling")
  /\ row.status = "QUEUED"
  /\ Moves(p, "listed")
  /\ UNCHANGED <<vars, exits, faults>>

\* The runs before this one in the list may take long: its status is not read
\* again.
StartRun(p) ==
  /\ At(p, "listed")
  /\ JobStarts
  /\ Moves(p, "running")
  /\ UNCHANGED <<envVars, exits, faults>>

\* The supervisor that executes the run drives the coroutine.  Nothing limits
\* its time; an interrupt of the process cancels it.
Executes(p) ==
  /\ At(p, "running")
  /\ JobStep
  /\ UNCHANGED <<sup, exits, faults>>

Breaks(p) ==
  /\ At(p, "running")
  /\ \E f \in {"exception", "shutdown"} :
       /\ JobFault(f)
       /\ exits' = [exits EXCEPT ![p] = f = "shutdown"]
  /\ UNCHANGED <<envVars, sup, faults>>

\* The session of run_test_case's handler fails: this exception reaches the
\* supervisor instead of the one being handled, and a CancelledError is lost.
HandlerFails(p) ==
  /\ At(p, "running")
  /\ job.pc \in {"handler", "handling"}
  /\ Faulty
  /\ Forget("lost", "NONE")
  /\ exits' = [exits EXCEPT ![p] = FALSE]
  /\ UNCHANGED <<row, runSteps, caseResult, announced, envVars, sup>>

Returned(p) ==
  /\ At(p, "running")
  /\ job.pc = "done"
  /\ Moves(p, "polling")
  /\ UNCHANGED <<vars, exits, faults>>

Raised(p) ==
  /\ At(p, "running")
  /\ job.pc = "lost"
  /\ Moves(p, "raised")
  /\ UNCHANGED <<vars, exits, faults>>

\* After an exception the loop goes on; after a CancelledError it ends.
Goes(p) ==
  /\ Moves(p, IF exits[p] THEN "down" ELSE "polling")
  /\ exits' = [exits EXCEPT ![p] = FALSE]

CatchLoad(p) ==
  /\ At(p, "raised")
  /\ \/ row.status = "RUNNING" /\ Moves(p, "catching") /\ UNCHANGED exits
     \/ row.status # "RUNNING" /\ Goes(p)
  /\ UNCHANGED <<vars, faults>>

CatchCommit(p) ==
  /\ At(p, "catching")
  /\ Interrupts
  /\ Goes(p)
  /\ UNCHANGED faults

CatchFails(p) ==
  /\ sup[p] \in {"raised", "catching"}
  /\ Faulty
  /\ Goes(p)
  /\ UNCHANGED vars

-----------------------------------------------------------------------------
\* The process dies, with the coroutine it was executing.
Crash(p) ==
  /\ ~ At(p, "down")
  /\ Faulty
  /\ Moves(p, "down")
  /\ exits' = [exits EXCEPT ![p] = FALSE]
  /\ \/ At(p, "running") /\ JobCrash
     \/ ~ (At(p, "running") /\ job.pc \in Live) /\ UNCHANGED jobVars
  /\ UNCHANGED envVars

Loops(p) ==
  \/ ZombieLoad(p) \/ ZombieCommit(p)
  \/ Poll(p) \/ StartRun(p) \/ Executes(p)
  \/ Returned(p) \/ Raised(p) \/ CatchLoad(p) \/ CatchCommit(p)

Fails(p) ==
  \/ ZombieFails(p) \/ Breaks(p) \/ HandlerFails(p) \/ CatchFails(p) \/ Crash(p)

\* dispatch_run enqueues nothing in LOCAL mode.
Api ==
  /\ \/ EnqueueRun \/ CommitRun
     \/ \E r \in Requests : CancelLoad(r) \/ CancelCommit(r)
     \/ ReapLoad \/ ReapCommit
  /\ UNCHANGED <<sup, exits, faults>>

LocalNext == Api \/ \E p \in Supervisors : Boot(p) \/ Loops(p) \/ Fails(p)

LocalSpec == LocalInit /\ [][LocalNext]_localVars

\* The API serves its requests, somebody starts a supervisor when none is up
\* and looks at the run, and a live supervisor makes progress.
LocalFairness ==
  /\ WF_localVars(EnqueueRun /\ UNCHANGED <<sup, exits, faults>>)
  /\ WF_localVars(CommitRun /\ UNCHANGED <<sup, exits, faults>>)
  /\ WF_localVars(ReapLoad /\ UNCHANGED <<sup, exits, faults>>)
  /\ WF_localVars(ReapCommit /\ UNCHANGED <<sup, exits, faults>>)
  /\ WF_localVars(\E p \in Supervisors : Boot(p))
  /\ \A p \in Supervisors : WF_localVars(Loops(p))

LocalLiveSpec == LocalSpec /\ LocalFairness

-----------------------------------------------------------------------------
\* A supervisor that starts, or that catches an exception, marks a run as
\* interrupted only if nothing executes it any more: the lock makes RUNNING
\* mean "left by a dead process" (_reconcile_zombie_runs).
ZombiesAreDead ==
  [][\A p \in Supervisors :
       ZombieCommit(p) \/ CatchCommit(p) => job.pc \notin Live]_localVars

\* Unlike a job redelivered by ARQ, a run of LOCAL mode that was interrupted
\* after it recorded a step is not executed again: its run_steps rows and its
\* counters belong to one attempt.
StepsOfOneAttempt == \A s, t \in runSteps : s.attempt = t.attempt

\* So the counters of the row are those of all its run_steps rows, which in
\* server mode they need not be: at most as many while it runs, exactly as many
\* with a PASS or FAIL verdict.
RowsWith(outcomes) == Cardinality({s \in runSteps : s.outcome \in outcomes})

CountersOfAllRows ==
  /\ row.passed <= RowsWith({"PASS"})
  /\ row.failed <= RowsWith(Failing)
  /\ row.status \in {"PASS", "FAIL"} =>
       /\ row.passed = RowsWith({"PASS"})
       /\ row.failed = RowsWith(Failing)

\* What CancelUndoneOnlyByStaleWriter says, with the supervisor among those who
\* may have read the row before the cancellation committed.
CancelUndoneOnlyByStaleProcess ==
  [][row.status = "CANCELLED" /\ row'.status # "CANCELLED" =>
       \/ StaleWriter
       \/ \E p \in Supervisors : sup[p] \in {"reconciling", "catching"}]_localVars

\* The bound on attempts keeps no supervisor from starting a run it has listed:
\* every attempt but the first was preceded by a fault of its own.
StartsNeverCapped ==
  \A p \in Supervisors : At(p, "listed") =>
    job.attempt <= faults /\ job.attempt < MaxAttempts

\* A run left QUEUED by the API is executed, cancelled or given up, and then
\* stays so, although supervisors crash and the database fails on them.
QueuedRunEnds == (row.status = "QUEUED") ~> [](row.status \in Terminal)
=============================================================================
