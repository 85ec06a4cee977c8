----------------------------- MODULE RunsProofs -----------------------------
(***************************************************************************)
(* Proofs about the life of a run: of ServerRuns (its coroutine and its    *)
(* other writers), of the ledger its rows keep, and of LocalRuns, which    *)
(* has supervisors execute the same coroutine.                             *)
(***************************************************************************)
EXTENDS LocalRuns, FiniteSetTheorems, TLAPS

(***************************************************************************)
(* Proofs about ServerRuns for every selection, every set of planned cases *)
(* and cancel requests, and every number of deliveries.                    *)
(*                                                                         *)
(* TypeOK is not inductive: a step row is well formed only because the     *)
(* coroutine's position says which of its locals are meaningful (JobInv).  *)
(* PassVerdictSound needs, in addition, what the locals of an attempt that *)
(* has seen no failure say about the rows it has recorded (ProgressInv).   *)
(* CancelStands needs RowInv: which sessions may be open before the row is *)
(* visible.                                                                *)
(***************************************************************************)
\* The positions in which the coroutine has initialised the run.
Running == {"loop", "exec", "record", "recording",
            "final", "finalizing", "announce"}

\* Which locals of the coroutine are meaningful where; past its first session
\* the coroutine has seen the row.
JobInv ==
  /\ job.pc # "idle" => job.attempt \in Attempts
  /\ job.pc \in {"exec", "record", "recording"} => job.idx \in Steps
  /\ job.pc \in {"record", "recording"} => job.result \in StepOutcome
  /\ job.pc \in Running \union {"init", "handling"} => row.status # "ABSENT"

NoFailureYet == tally["FAIL"] = 0 /\ tally["ERROR"] = 0

StepDone(i) ==
  \E s \in runSteps :
    s.attempt = job.attempt /\ s.order = i /\ s.outcome \notin Failing

\* As long as the attempt has seen no failure, all the steps it has passed are
\* recorded, and it ends early only by being cancelled.
ProgressInv ==
  job.pc \in Running /\ NoFailureYet =>
    /\ \A c \in Cases : outcome[c] \notin Failing
    /\ \A i \in 1 .. (job.idx - 1) : StepDone(i)
    /\ job.pc \in {"record", "recording"} =>
         job.result \notin Failing /\ ~ job.fatal
    /\ job.pc \in {"final", "finalizing", "announce"} /\ ~ job.cancelled =>
         job.idx = Len(Selection) + 1

\* A result can only come from a step of the selection.
ResultInv == job.pc \in Running /\ ~ NoStepRan => Steps # {}

IInv == TypeOK /\ JobInv /\ ProgressInv /\ ResultInv /\ PassVerdictSound

-----------------------------------------------------------------------------
LEMMA LenSelection == Len(Selection) \in Nat
  BY RunJobAssumption

LEMMA CountersType ==
  ASSUME TypeOK
  PROVE  /\ CountersFrom(tally).passed \in Nat
         /\ CountersFrom(tally).failed \in Nat
  BY DEF TypeOK, RunJobTypeOK, CountersFrom, StepOutcome, Verdicts

\* Whatever was loaded, update_status leaves the committed status, or writes
\* the one it was asked for.
LEMMA UpdateStatusWrites ==
  ASSUME NEW loaded, NEW status
  PROVE  UpdateStatus(loaded, status) \in {row.status, status}
  BY DEF UpdateStatus

LEMMA InitInv == Init => IInv
  BY LenSelection, RunJobAssumption
  DEF Init, RunJobInit, IInv, TypeOK, RunJobTypeOK, JobInv, ProgressInv,
      ResultInv, PassVerdictSound, FreshJob, NoTally, NoOutcome, RowType, Job,
      Pc, Live, Running, Faults, CaseResult, StepOutcome, RunStepRow,
      Attempts, RunStatus, Terminal, Verdicts

-----------------------------------------------------------------------------
\* Type correctness

\* The coroutine's record keeps its type when some of its fields change.
LEMMA ForgetType ==
  ASSUME TypeOK, job.attempt \in Attempts,
         NEW pc \in {"handler", "lost", "done"},
         NEW fault \in Faults \union {"NONE"}, Forget(pc, fault)
  PROVE  /\ job' \in Job
         /\ job'.pc = pc
         /\ job'.attempt \in Attempts
         /\ tally' \in [StepOutcome -> Nat]
         /\ outcome' \in [Cases -> StepOutcome \union {"NONE"}]
  BY LenSelection, RunJobAssumption
  DEF TypeOK, RunJobTypeOK, Forget, FreshJob, Job, Pc, NoTally, NoOutcome,
      Attempts, Live

\* RunJob's variables keep their types and JobInv in every step of the
\* coroutine; a step is typed by first typing the job's record.
LEMMA JobStepType ==
  ASSUME TypeOK, JobInv, JobProgress
  PROVE  RunJobTypeOK' /\ JobInv'
<1> USE LenSelection, RunJobAssumption
<1>1. RunJobTypeOK /\ job \in Job
  BY DEF TypeOK, RunJobTypeOK
<1>2. job.pc # "idle" => job.attempt \in Attempts
  BY DEF JobInv
<1>3. CASE JobRunNotFound
  <2>1. Forget("done", "NONE") /\ job.pc = "starting"
    BY <1>3 DEF JobRunNotFound
  <2> QED
    BY <1>1, <1>2, <1>3, <2>1, ForgetType
    DEF JobRunNotFound, RunJobTypeOK, JobInv, Running
<1>4. CASE JobInitLoad
  BY <1>1, <1>4 DEF JobInitLoad, LoadRow, RunJobTypeOK, JobInv, Running, Job, Pc, RowType
<1>5. CASE JobInitCommit
  <2>0. 1 \in 1 .. Len(Selection) + 1
    OBVIOUS
  <2>1. job' \in Job /\ job'.pc = "loop" /\ job'.attempt = job.attempt
    BY <1>1, <1>5, <2>0 DEF JobInitCommit, Job, Pc
  <2>2. row' \in RowType /\ row'.status # "ABSENT"
    BY <1>1, <1>5, UpdateStatusWrites
    DEF JobInitCommit, RunJobTypeOK, RowType, JobInv, RunStatus
  <2>3. tally' \in [StepOutcome -> Nat] /\ outcome' \in [Cases -> StepOutcome \union {"NONE"}]
    BY <1>5 DEF JobInitCommit, NoTally, NoOutcome
  <2>4. RunJobTypeOK'
    BY <1>1, <1>5, <2>1, <2>2, <2>3 DEF JobInitCommit, RunJobTypeOK
  <2> QED
    BY <1>2, <1>5, <2>1, <2>2, <2>4 DEF JobInitCommit, JobInv, Running
<1>6. CASE JobSeesStop
  BY <1>1, <1>6 DEF JobSeesStop, RunJobTypeOK, JobInv, Running, Job, Pc
<1>7. CASE JobSkipsStep
  <2>1. job.idx + 1 \in 1 .. Len(Selection) + 1
    BY <1>7 DEF JobSkipsStep, Steps
  <2>2. job' \in Job /\ job'.pc = "loop" /\ job'.attempt = job.attempt
    BY <1>1, <1>7, <2>1 DEF JobSkipsStep, Job
  <2> QED
    BY <1>1, <1>7, <2>2 DEF JobSkipsStep, RunJobTypeOK, JobInv, Running
<1>8. CASE JobBeginsStep
  BY <1>1, <1>8 DEF JobBeginsStep, Goto, RunJobTypeOK, JobInv, Running, Job, Pc
<1>9. CASE JobSelectionDone
  BY <1>1, <1>9 DEF JobSelectionDone, Goto, RunJobTypeOK, JobInv, Running, Job, Pc
<1>10. ASSUME NEW o \in StepOutcome, NEW fatal \in BOOLEAN, JobExecutesStep(o, fatal)
       PROVE  RunJobTypeOK' /\ JobInv'
  <2>1. /\ job' \in Job
        /\ job'.pc = "record" /\ job'.result = o
        /\ job'.attempt = job.attempt /\ job'.idx = job.idx
    BY <1>1, <1>10 DEF JobExecutesStep, Job, Pc
  <2>2. tally' \in [StepOutcome -> Nat]
    BY <1>1, <1>10 DEF JobExecutesStep, RunJobTypeOK
  <2>3. \A before \in StepOutcome \union {"NONE"} :
          CaseOutcome(before, o) \in StepOutcome \union {"NONE"}
    BY DEF CaseOutcome, StepOutcome
  <2>4. outcome' \in [Cases -> StepOutcome \union {"NONE"}]
    BY <1>1, <1>10, <2>3 DEF JobExecutesStep, RunJobTypeOK
  <2>5. RunJobTypeOK'
    BY <1>1, <1>10, <2>1, <2>2, <2>4 DEF JobExecutesStep, RunJobTypeOK
  <2> QED
    BY <1>2, <1>10, <2>1, <2>5 DEF JobExecutesStep, JobInv, Running
<1>11. CASE JobRecordLoad
  BY <1>1, <1>11 DEF JobRecordLoad, LoadRow, RunJobTypeOK, JobInv, Running, Job, Pc, RowType
<1>12. CASE JobRecordCommit
  <2> USE DEF JobRecordCommit
  <2>1. job.idx \in Steps /\ job.result \in StepOutcome /\ job.attempt \in Attempts
    BY <1>2, <1>12 DEF JobInv
  <2>2. NewStepRow \in RunStepRow
    BY <2>1 DEF NewStepRow, RunStepRow
  <2>3. Recorded \in Job /\ Recorded.idx = job.idx /\ Recorded.attempt = job.attempt
    BY <1>1 DEF Recorded, Job
  <2>4. job.idx + 1 \in 1 .. Len(Selection) + 1
    BY <2>1 DEF Steps
  <2>5. job' \in Job /\ job'.pc \in {"loop", "final"} /\ job'.attempt = job.attempt
    <3> DEFINE OK(j) == /\ j \in Job
                        /\ j.pc \in {"loop", "final"}
                        /\ j.attempt = job.attempt
    <3>1. OK([Recorded EXCEPT !.pc = "final"])
      BY <2>3 DEF Job, Pc
    <3>2. OK([Recorded EXCEPT !.pc = "final", !.cancelled = TRUE])
      BY <2>3 DEF Job, Pc
    <3>3. OK([Recorded EXCEPT !.pc = "loop", !.idx = @ + 1])
      BY <2>3, <2>4 DEF Job, Pc
    <3>4. OK(job')
      <4> HIDE DEF OK
      <4> QED
        BY <1>12, <3>1, <3>2, <3>3
    <3> QED
      BY <3>4
  <2>6. row' \in RowType /\ row'.status # "ABSENT"
    BY <1>1, <1>12, UpdateStatusWrites, CountersType
    DEF RunJobTypeOK, RowType, JobInv, Running, RunStatus
  <2>7. RunJobTypeOK'
    BY <1>1, <1>12, <2>2, <2>5, <2>6 DEF RunJobTypeOK
  <2> QED
    BY <2>1, <2>5, <2>6, <2>7 DEF JobInv, Running
<1>13. CASE JobFinalLoad
  BY <1>1, <1>13 DEF JobFinalLoad, LoadRow, RunJobTypeOK, JobInv, Running, Job, Pc, RowType
<1>14. CASE JobFinalCommit
  <2> USE DEF JobFinalCommit
  <2>1. job' \in Job /\ job'.pc = "announce" /\ job'.attempt = job.attempt
    BY <1>1, <1>14 DEF Goto, Job, Pc
  <2>2. FinalStatus \in RunStatus
    BY DEF FinalStatus, RunStatus, Terminal, Verdicts
  <2>3. row' \in RowType /\ row'.status # "ABSENT"
    BY <1>1, <1>14, <2>2, UpdateStatusWrites, CountersType
    DEF RunJobTypeOK, RowType, JobInv, Running, RunStatus, Terminal, Verdicts
  <2>4. \A c \in Cases : FinalCaseResult(c) \in CaseResult
    BY <1>1 DEF FinalCaseResult, RunJobTypeOK, CaseResult, StepOutcome
  <2>5. caseResult' \in [Cases -> CaseResult]
    BY <1>14, <2>4
  <2>6. RunJobTypeOK'
    BY <1>1, <1>14, <2>1, <2>3, <2>5 DEF RunJobTypeOK
  <2> QED
    BY <1>2, <1>14, <2>1, <2>3, <2>6 DEF JobInv, Running
<1>15. CASE JobAnnounce
  <2>1. Forget("done", "NONE") /\ job.pc = "announce"
    BY <1>15 DEF JobAnnounce
  <2>2. announced' \in RunStatus
    BY <1>15 DEF JobAnnounce, FinalStatus, RunStatus, Terminal, Verdicts
  <2> QED
    BY <1>1, <1>2, <1>15, <2>1, <2>2, ForgetType
    DEF JobAnnounce, RunJobTypeOK, JobInv, Running
<1>16. CASE JobHandlerKeeps
  <2>1. Forget(AfterHandler, "NONE") /\ job.pc = "handler"
    BY <1>16 DEF JobHandlerKeeps
  <2>2. AfterHandler \in {"lost", "done"}
    BY DEF AfterHandler
  <2> QED
    BY <1>1, <1>2, <1>16, <2>1, <2>2, ForgetType
    DEF JobHandlerKeeps, RunJobTypeOK, JobInv, Running
<1>17. CASE JobHandlerLoad
  BY <1>1, <1>17 DEF JobHandlerLoad, LoadRow, RunJobTypeOK, JobInv, Running, Job, Pc, RowType
<1>18. CASE JobHandlerCommit
  <2>1. Forget(AfterHandler, "NONE") /\ job.pc = "handling"
    BY <1>18 DEF JobHandlerCommit
  <2>2. AfterHandler \in {"lost", "done"}
    BY DEF AfterHandler
  <2>3. row' \in RowType
    BY <1>1, <1>18
    DEF JobHandlerCommit, HandlerStatus, RunJobTypeOK, RowType, RunStatus, Terminal, Verdicts
  <2> QED
    BY <1>1, <1>2, <1>18, <2>1, <2>2, <2>3, ForgetType
    DEF JobHandlerCommit, RunJobTypeOK, JobInv, Running
<1> QED
  BY <1>3, <1>4, <1>5, <1>6, <1>7, <1>8, <1>9, <1>10, <1>11, <1>12, <1>13,
     <1>14, <1>15, <1>16, <1>17, <1>18 DEF JobProgress

\* So do a delivery of the job, and its failures.
LEMMA DeliveryType ==
  ASSUME TypeOK, JobInv, Deliver \/ Redeliver
  PROVE  RunJobTypeOK' /\ JobInv'
<1> USE LenSelection, RunJobAssumption DEF Deliver, Redeliver, JobStarts
<1>1. job \in Job
  BY DEF TypeOK, RunJobTypeOK
<1>2. job.attempt + 1 \in Attempts
  BY <1>1 DEF Job, Attempts
<1>3. job.attempt + 1 \in 0 .. MaxAttempts
  BY <1>2 DEF Attempts
<1>4. job' \in Job /\ job'.pc = "starting" /\ job'.attempt \in Attempts
  BY <1>1, <1>2, <1>3 DEF Job, Pc
<1> QED
  BY <1>4 DEF TypeOK, RunJobTypeOK, JobInv, Running

LEMMA FailureType ==
  ASSUME TypeOK, JobInv, JobFails
  PROVE  RunJobTypeOK' /\ JobInv'
<1>1. PICK pc \in {"handler", "lost"}, fault \in Faults \union {"NONE"} :
        Forget(pc, fault)
  BY DEF JobFails, JobCrash, JobFault
<1>2. job.attempt \in Attempts /\ UNCHANGED <<row, runSteps, caseResult, announced>>
  BY DEF JobFails, JobCrash, JobFault, JobInv, Live, Body
<1> QED
  BY <1>1, <1>2, ForgetType DEF TypeOK, RunJobTypeOK, JobInv, Running

LEMMA TypeStep == TypeOK /\ JobInv /\ [Next]_vars => TypeOK' /\ JobInv'
<1> SUFFICES ASSUME TypeOK, JobInv, [Next]_vars PROVE TypeOK' /\ JobInv'
  OBVIOUS
<1> USE DEF RowType, RunStatus, Terminal, Verdicts
<1>1. CASE EnqueueRun
  BY <1>1 DEF EnqueueRun, jobVars, TypeOK, RunJobTypeOK, JobInv
<1>2. CASE CommitRun
  BY <1>2 DEF CommitRun, TypeOK, RunJobTypeOK, JobInv
<1>3. CASE Deliver \/ Redeliver
  BY <1>3, DeliveryType DEF Deliver, Redeliver, envVars, TypeOK
<1>4. CASE JobStep
  BY <1>4, JobStepType DEF JobStep, envVars, TypeOK
<1>5. CASE JobFailure
  BY <1>5, FailureType DEF JobFailure, envVars, TypeOK
<1>6. ASSUME NEW r \in Requests, CancelLoad(r) \/ CancelCommit(r)
      PROVE  TypeOK' /\ JobInv'
  BY <1>6 DEF CancelLoad, CancelCommit, jobVars, TypeOK, RunJobTypeOK, JobInv
<1>7. CASE ReapLoad \/ ReapCommit
  BY <1>7 DEF ReapLoad, ReapCommit, jobVars, TypeOK, RunJobTypeOK, JobInv
<1>8. CASE BootLoad \/ BootCommit
  BY <1>8 DEF BootLoad, BootCommit, jobVars, TypeOK, RunJobTypeOK, JobInv
<1>9. CASE UNCHANGED vars
  BY <1>9 DEF vars, TypeOK, RunJobTypeOK, JobInv
<1> QED
  BY <1>1, <1>2, <1>3, <1>4, <1>5, <1>6, <1>7, <1>8, <1>9 DEF Next, HealthyNext

\* TypeOK holds in every state of every behaviour.
THEOREM TypeCorrect == Spec => []TypeOK
<1>1. Init => TypeOK /\ JobInv
  BY InitInv DEF IInv
<1>2. TypeOK /\ JobInv /\ [Next]_vars => (TypeOK /\ JobInv)'
  BY TypeStep
<1> QED
  BY <1>1, <1>2, PTL DEF Spec

-----------------------------------------------------------------------------
\* The verdict

\* Rows of run_steps are only ever added, so what they establish stays.
LEMMA VerdictKept ==
  ASSUME PassVerdictSound, runSteps \subseteq runSteps',
         row'.status = "PASS" => row.status = "PASS",
         announced' = "PASS" => announced = "PASS"
  PROVE  PassVerdictSound'
  BY DEF PassVerdictSound, CompletedBy

\* The verdict _finalize_run computes is backed by the attempt's rows.
LEMMA FinalVerdict ==
  ASSUME TypeOK, JobInv, ProgressInv, ResultInv,
         job.pc \in {"finalizing", "announce"}, FinalStatus = "PASS"
  PROVE  Steps # {} /\ job.attempt \in Attempts /\ CompletedBy(job.attempt)
<1> USE LenSelection
<1>1. tally \in [StepOutcome -> Nat] /\ job \in Job
  BY DEF TypeOK, RunJobTypeOK
<1>2. ~ job.cancelled /\ ~ NoStepRan /\ ~ (tally["FAIL"] > 0) /\ ~ (tally["ERROR"] > 0)
  BY <1>1 DEF FinalStatus, Job, StepOutcome
<1>3. NoFailureYet
  BY <1>1, <1>2 DEF NoFailureYet, StepOutcome
<1>4. job.idx = Len(Selection) + 1 /\ \A i \in 1 .. (job.idx - 1) : StepDone(i)
  BY <1>2, <1>3 DEF ProgressInv, Running
<1>5. \A i \in Steps : StepDone(i)
  BY <1>4 DEF Steps
<1>6. Steps # {}
  BY <1>2 DEF ResultInv, Running
<1> QED
  BY <1>5, <1>6 DEF CompletedBy, StepDone, JobInv

\* An attempt that is over, or has not begun, has made no progress to speak of.
LEMMA NotRunning ==
  ASSUME job'.pc \notin Running
  PROVE  ProgressInv' /\ ResultInv'
  BY DEF ProgressInv, ResultInv, Running

\* The actions of the others leave the coroutine and the rows of steps alone.
LEMMA OthersKeep ==
  ASSUME ProgressInv, ResultInv, UNCHANGED <<job, tally, outcome, runSteps>>
  PROVE  ProgressInv' /\ ResultInv'
  BY DEF ProgressInv, ResultInv, NoFailureYet, StepDone, NoStepRan

LEMMA ProgressStep ==
  ASSUME TypeOK, JobInv, ProgressInv, ResultInv, JobProgress
  PROVE  ProgressInv' /\ ResultInv'
<1> USE LenSelection, RunJobAssumption
<1>1. job \in Job /\ tally \in [StepOutcome -> Nat]
      /\ outcome \in [Cases -> StepOutcome \union {"NONE"}]
  BY DEF TypeOK, RunJobTypeOK
<1>2. \A i \in Steps : Selection[i] \in Cases
  BY DEF Steps
<1>3. CASE JobRunNotFound \/ JobAnnounce \/ JobHandlerKeeps \/ JobHandlerCommit
  <2>1. job'.pc \in {"done", "lost"}
    BY <1>3 DEF JobRunNotFound, JobAnnounce, JobHandlerKeeps, JobHandlerCommit,
                AfterHandler, Forget, FreshJob
  <2> QED
    BY <2>1, NotRunning DEF Running
<1>4. CASE JobInitLoad \/ JobHandlerLoad
  <2>1. job'.pc \in {"init", "handling"}
    BY <1>1, <1>4 DEF JobInitLoad, JobHandlerLoad, LoadRow, Job
  <2> QED
    BY <2>1, NotRunning DEF Running
<1>5. CASE JobInitCommit
  <2>1. job'.pc = "loop" /\ job'.idx = 1 /\ tally' = NoTally /\ outcome' = NoOutcome
    BY <1>1, <1>5 DEF JobInitCommit, Job
  <2> QED
    BY <2>1 DEF ProgressInv, ResultInv, NoOutcome, NoTally, NoStepRan, Failing
<1>6. CASE JobSeesStop
  <2>1. job'.pc = "final" /\ job'.cancelled = TRUE
        /\ job'.idx = job.idx /\ job'.attempt = job.attempt
    BY <1>1, <1>6 DEF JobSeesStop, Job
  <2> QED
    BY <1>6, <2>1
    DEF JobSeesStop, ProgressInv, ResultInv, NoFailureYet, NoStepRan, StepDone, Running
<1>7. CASE JobSkipsStep
  <2>1. ~ NoFailureYet
    BY <1>2, <1>7 DEF JobSkipsStep, ProgressInv, Running, Failed
  <2>2. job'.pc = "loop"
    BY <1>1, <1>7 DEF JobSkipsStep, Job
  <2> QED
    BY <1>7, <2>1, <2>2
    DEF JobSkipsStep, ProgressInv, ResultInv, NoFailureYet, NoStepRan, Running
<1>8. CASE JobBeginsStep
  <2>1. job'.pc = "exec" /\ job'.idx = job.idx /\ job'.attempt = job.attempt
    BY <1>1, <1>8 DEF JobBeginsStep, Goto, Job
  <2> QED
    BY <1>8, <2>1
    DEF JobBeginsStep, ProgressInv, ResultInv, NoFailureYet, NoStepRan, StepDone, Running
<1>9. CASE JobSelectionDone
  <2>1. /\ job'.pc = "final" /\ job'.idx = job.idx /\ job'.attempt = job.attempt
        /\ job.idx = Len(Selection) + 1
    BY <1>1, <1>9 DEF JobSelectionDone, Goto, Job
  <2> QED
    BY <1>9, <2>1
    DEF JobSelectionDone, ProgressInv, ResultInv, NoFailureYet, NoStepRan, StepDone, Running
<1>10. ASSUME NEW o \in StepOutcome, NEW fatal \in BOOLEAN, JobExecutesStep(o, fatal)
       PROVE  ProgressInv' /\ ResultInv'
  <2>1. /\ job.pc = "exec" /\ job'.pc = "record"
        /\ job'.idx = job.idx /\ job'.attempt = job.attempt
        /\ job'.result = o /\ job'.fatal = fatal
        /\ job.idx \in Steps
    BY <1>1, <1>10 DEF JobExecutesStep, Job, JobInv
  <2>2. ResultInv'
    BY <2>1 DEF ResultInv
  <2>3. SUFFICES ASSUME NoFailureYet' PROVE ProgressInv'
    BY <2>2 DEF ProgressInv
  <2>4. o \notin Failing /\ NoFailureYet
    BY <1>1, <1>10, <2>3 DEF JobExecutesStep, NoFailureYet, Failing, StepOutcome
  <2>5. ~ fatal
    BY <1>10, <2>4 DEF JobExecutesStep, Failing
  <2>6. \A before \in StepOutcome \union {"NONE"} :
          before \notin Failing => CaseOutcome(before, o) \notin Failing
    BY <2>4 DEF CaseOutcome, Failing, StepOutcome
  <2>7. (\A c \in Cases : outcome[c] \notin Failing)
        /\ \A i \in 1 .. (job.idx - 1) : StepDone(i)
    BY <2>1, <2>4 DEF ProgressInv, Running
  <2>8. \A c \in Cases : outcome'[c] \notin Failing
    BY <1>1, <1>10, <2>6, <2>7 DEF JobExecutesStep
  <2>9. \A i \in 1 .. (job'.idx - 1) : StepDone(i)'
    BY <1>10, <2>1, <2>7 DEF JobExecutesStep, StepDone
  <2> QED
    BY <2>1, <2>4, <2>5, <2>8, <2>9 DEF ProgressInv
<1>11. CASE JobRecordLoad
  <2>1. job'.pc = "recording" /\ job'.idx = job.idx /\ job'.attempt = job.attempt
        /\ job'.result = job.result /\ job'.fatal = job.fatal
    BY <1>1, <1>11 DEF JobRecordLoad, LoadRow, Job
  <2> QED
    BY <1>11, <2>1
    DEF JobRecordLoad, ProgressInv, ResultInv, NoFailureYet, NoStepRan, StepDone, Running
<1>12. CASE JobRecordCommit
  <2>1. /\ job.pc = "recording" /\ UNCHANGED <<tally, outcome>>
        /\ runSteps' = runSteps \union {NewStepRow}
    BY <1>12 DEF JobRecordCommit
  <2>2. /\ job.idx \in Nat
        /\ job'.attempt = job.attempt
        /\ \/ job'.pc = "final" /\ job'.cancelled /\ job'.idx = job.idx
           \/ job'.pc = "final" /\ job.fatal /\ job'.idx = job.idx
           \/ job'.pc = "loop" /\ job'.idx = job.idx + 1
    <3>0. /\ Recorded \in Job
          /\ Recorded.idx = job.idx /\ Recorded.attempt = job.attempt
      BY <1>1 DEF Recorded, Job
    <3>1. job.idx \in Nat
      BY <1>1 DEF Job
    <3>2. CASE job.loaded = "CANCELLED"
      <4>1. job' = [Recorded EXCEPT !.pc = "final", !.cancelled = TRUE]
        BY <1>12, <3>2 DEF JobRecordCommit
      <4> QED
        BY <3>0, <3>1, <4>1 DEF Job
    <3>3. CASE job.loaded # "CANCELLED" /\ job.fatal
      BY <1>12, <3>0, <3>1, <3>3 DEF JobRecordCommit, Job
    <3>4. CASE job.loaded # "CANCELLED" /\ ~ job.fatal
      <4>1. job' = [Recorded EXCEPT !.pc = "loop", !.idx = @ + 1]
        BY <1>12, <3>4 DEF JobRecordCommit
      <4> QED
        BY <3>0, <3>1, <4>1 DEF Job
    <3> QED
      BY <3>2, <3>3, <3>4
  <2>3. ResultInv'
    BY <2>1, <2>2 DEF ResultInv, NoStepRan, Running
  <2>4. SUFFICES ASSUME NoFailureYet PROVE ProgressInv'
    BY <2>1, <2>3 DEF ProgressInv, NoFailureYet
  <2>5. /\ \A c \in Cases : outcome[c] \notin Failing
        /\ \A i \in 1 .. (job.idx - 1) : StepDone(i)
        /\ job.result \notin Failing /\ ~ job.fatal
    BY <2>1, <2>4 DEF ProgressInv, Running
  <2>6. /\ \A i \in 1 .. (job.idx - 1) : StepDone(i)'
        /\ \A i : i = job.idx => StepDone(i)'
    <3>1. \A i \in 1 .. (job.idx - 1) : StepDone(i)'
      BY <2>1, <2>2, <2>5 DEF StepDone
    <3>2. /\ NewStepRow \in runSteps'
          /\ NewStepRow.attempt = job'.attempt
          /\ NewStepRow.order = job.idx
          /\ NewStepRow.outcome \notin Failing
      BY <2>1, <2>2, <2>5 DEF NewStepRow
    <3> QED
      BY <3>1, <3>2 DEF StepDone
  <2>7. \A i \in 1 .. (job'.idx - 1) : i \in 1 .. (job.idx - 1) \/ i = job.idx
    BY <2>2
  <2>8. \A i \in 1 .. (job'.idx - 1) : StepDone(i)'
    BY <2>6, <2>7
  <2> QED
    BY <2>1, <2>2, <2>5, <2>8 DEF ProgressInv
<1>13. CASE JobFinalLoad
  <2>1. job'.pc = "finalizing" /\ job'.idx = job.idx /\ job'.attempt = job.attempt
        /\ job'.cancelled = job.cancelled
    BY <1>1, <1>13 DEF JobFinalLoad, LoadRow, Job
  <2> QED
    BY <1>13, <2>1
    DEF JobFinalLoad, ProgressInv, ResultInv, NoFailureYet, NoStepRan, StepDone, Running
<1>14. CASE JobFinalCommit
  <2>1. job'.pc = "announce" /\ job'.idx = job.idx /\ job'.attempt = job.attempt
        /\ job'.cancelled = job.cancelled
    BY <1>1, <1>14 DEF JobFinalCommit, Goto, Job
  <2> QED
    BY <1>14, <2>1
    DEF JobFinalCommit, ProgressInv, ResultInv, NoFailureYet, NoStepRan, StepDone, Running
<1> QED
  BY <1>3, <1>4, <1>5, <1>6, <1>7, <1>8, <1>9, <1>10, <1>11, <1>12, <1>13,
     <1>14 DEF JobProgress

\* A step of the coroutine establishes a PASS only by finalizing.
LEMMA VerdictStep ==
  ASSUME TypeOK, JobInv, ProgressInv, ResultInv, PassVerdictSound, JobProgress
  PROVE  PassVerdictSound'
<1>1. runSteps \subseteq runSteps'
  BY DEF JobProgress, JobRunNotFound, JobInitLoad, JobInitCommit, JobSeesStop,
     JobSkipsStep, JobBeginsStep, JobSelectionDone, JobExecutesStep,
     JobRecordLoad, JobRecordCommit, JobFinalLoad, JobFinalCommit, JobAnnounce,
     JobHandlerKeeps, JobHandlerLoad, JobHandlerCommit
<1>2. row \in RowType
  BY DEF TypeOK, RunJobTypeOK
<1>3. CASE JobFinalCommit \/ JobAnnounce
  <2>1. CASE FinalStatus = "PASS"
    BY <1>3, <2>1, FinalVerdict
    DEF JobFinalCommit, JobAnnounce, PassVerdictSound, CompletedBy
  <2>2. CASE FinalStatus # "PASS"
    BY <1>1, <1>2, <1>3, <2>2, UpdateStatusWrites, VerdictKept
    DEF JobFinalCommit, JobAnnounce
  <2> QED
    BY <2>1, <2>2
<1>4. CASE ~ (JobFinalCommit \/ JobAnnounce)
  <2>1. announced' = announced
    BY <1>4 DEF JobProgress, JobRunNotFound, JobInitLoad, JobInitCommit,
       JobSeesStop, JobSkipsStep, JobBeginsStep, JobSelectionDone,
       JobExecutesStep, JobRecordLoad, JobRecordCommit, JobFinalLoad,
       JobHandlerKeeps, JobHandlerLoad, JobHandlerCommit
  <2>2. CASE JobInitCommit \/ JobRecordCommit
    BY <1>1, <2>1, <2>2, UpdateStatusWrites, VerdictKept
    DEF JobInitCommit, JobRecordCommit
  <2>3. CASE JobHandlerCommit
    BY <1>1, <1>2, <2>1, <2>3, VerdictKept
    DEF JobHandlerCommit, HandlerStatus, RowType
  <2>4. CASE UNCHANGED row
    BY <1>1, <2>1, <2>4, VerdictKept
  <2> QED
    BY <1>4, <2>2, <2>3, <2>4 DEF JobProgress, JobRunNotFound, JobInitLoad,
       JobSeesStop, JobSkipsStep, JobBeginsStep, JobSelectionDone,
       JobExecutesStep, JobRecordLoad, JobFinalLoad, JobHandlerKeeps,
       JobHandlerLoad
<1> QED
  BY <1>3, <1>4

LEMMA InvStep == IInv /\ [Next]_vars => IInv'
<1> SUFFICES ASSUME IInv, [Next]_vars PROVE IInv'
  OBVIOUS
<1> USE DEF IInv
<1>1. TypeOK' /\ JobInv'
  BY TypeStep
<1>2. row \in RowType /\ job \in Job
  BY DEF TypeOK, RunJobTypeOK
<1>3. CASE Deliver \/ Redeliver
  <2>1. job'.pc = "starting" /\ UNCHANGED <<row, runSteps, announced>>
    BY <1>2, <1>3 DEF Deliver, Redeliver, JobStarts, Job
  <2> QED
    BY <1>1, <2>1, NotRunning, VerdictKept DEF Running
<1>4. CASE JobStep
  BY <1>1, <1>4, ProgressStep, VerdictStep DEF JobStep
<1>5. CASE JobFailure
  <2>1. job'.pc \in {"handler", "lost"} /\ UNCHANGED <<row, runSteps, announced>>
    BY <1>5 DEF JobFailure, JobFails, JobCrash, JobFault, Forget, FreshJob
  <2> QED
    BY <1>1, <2>1, NotRunning, VerdictKept DEF Running
<1>6. ASSUME /\ UNCHANGED <<job, tally, outcome, runSteps, announced>>
             /\ row'.status # "PASS" \/ UNCHANGED row
      PROVE  IInv'
  BY <1>1, <1>6, OthersKeep, VerdictKept
<1>7. CASE EnqueueRun
  BY <1>6, <1>7 DEF EnqueueRun, jobVars
<1>8. CASE CommitRun
  BY <1>2, <1>6, <1>8 DEF CommitRun, RowType
<1>9. ASSUME NEW r \in Requests, CancelLoad(r) \/ CancelCommit(r)
      PROVE  IInv'
  BY <1>2, <1>6, <1>9 DEF CancelLoad, CancelCommit, jobVars, RowType
<1>10. CASE ReapLoad \/ ReapCommit
  BY <1>2, <1>6, <1>10 DEF ReapLoad, ReapCommit, jobVars, RowType
<1>11. CASE BootLoad \/ BootCommit
  BY <1>2, <1>6, <1>11 DEF BootLoad, BootCommit, jobVars, RowType
<1>12. CASE UNCHANGED vars
  BY <1>6, <1>12 DEF vars
<1> QED
  BY <1>3, <1>4, <1>5, <1>7, <1>8, <1>9, <1>10, <1>11, <1>12 DEF Next, HealthyNext

\* A PASS, shown or announced, is backed by an attempt that recorded every
\* selected step without a failure, whoever else wrote the row meanwhile.
THEOREM VerdictSound == Spec => []PassVerdictSound
<1>1. Init => IInv
  BY InitInv
<1>2. IInv /\ [Next]_vars => IInv'
  BY InvStep
<1>3. IInv => PassVerdictSound
  BY DEF IInv
<1> QED
  BY <1>1, <1>2, <1>3, PTL DEF Spec

-----------------------------------------------------------------------------
\* Cancellation

\* Nobody holds a row that does not exist, so the request that creates the run
\* overwrites nothing; and a handler that read CANCELLED does not write.
RowInv ==
  /\ creator # "committed" => row.status = "ABSENT"
  /\ (\E r \in Requests : cancel[r] = "aborting") => row.status # "ABSENT"
  /\ reaper = "reading" \/ booter = "reading" => row.status # "ABSENT"
  /\ job.pc = "handling" => job.loaded # "CANCELLED"

\* A row, once there, stays.
LEMMA RowStays ==
  ASSUME TypeOK, JobInv, JobProgress
  PROVE  /\ row.status # "ABSENT" => row'.status # "ABSENT"
         /\ row.status = "ABSENT" => UNCHANGED row
<1>1. JobInv' /\ row \in RowType
  BY JobStepType DEF TypeOK, RunJobTypeOK
<1>2. CASE JobInitCommit \/ JobRecordCommit \/ JobFinalCommit
  <2>1. job.pc \in Running \union {"init"}
    BY <1>2 DEF JobInitCommit, JobRecordCommit, JobFinalCommit, Running
  <2>2. FinalStatus # "ABSENT"
    BY DEF FinalStatus
  <2> QED
    BY <1>2, <2>1, <2>2, UpdateStatusWrites
    DEF JobInitCommit, JobRecordCommit, JobFinalCommit, JobInv
<1>3. CASE JobHandlerCommit
  BY <1>1, <1>3 DEF JobHandlerCommit, HandlerStatus, RowType, JobInv
<1>4. CASE UNCHANGED row
  BY <1>4
<1> QED
  BY <1>2, <1>3, <1>4 DEF JobProgress, JobRunNotFound, JobInitLoad,
     JobSeesStop, JobSkipsStep, JobBeginsStep, JobSelectionDone,
     JobExecutesStep, JobRecordLoad, JobFinalLoad, JobAnnounce,
     JobHandlerKeeps, JobHandlerLoad

LEMMA RowStep ==
  ASSUME TypeOK, JobInv, RowInv, [Next]_vars
  PROVE  RowInv'
<1>1. job \in Job /\ row \in RowType /\ cancel \in [Requests -> {"idle", "aborting", "done"}]
  BY DEF TypeOK, RunJobTypeOK
<1> USE DEF RowInv
<1>2. CASE EnqueueRun
  BY <1>2 DEF EnqueueRun, jobVars
<1>3. CASE CommitRun
  BY <1>1, <1>3 DEF CommitRun, RowType
<1>4. CASE Deliver \/ Redeliver
  <2>1. job'.pc = "starting"
    BY <1>1, <1>4 DEF Deliver, Redeliver, JobStarts, Job
  <2> QED
    BY <1>4, <2>1 DEF Deliver, Redeliver, JobStarts, envVars
<1>5. CASE JobStep
  <2>1. JobProgress /\ UNCHANGED envVars
    BY <1>5 DEF JobStep
  <2>2. job'.pc = "handling" => job'.loaded # "CANCELLED"
    <3>1. CASE JobHandlerLoad
      BY <1>1, <3>1 DEF JobHandlerLoad, LoadRow, Job, Terminal
    <3>2. CASE JobRecordCommit
      <4>1. Recorded \in Job
        BY <1>1 DEF Recorded, Job
      <4>2. /\ [Recorded EXCEPT !.pc = "final", !.cancelled = TRUE].pc = "final"
            /\ [Recorded EXCEPT !.pc = "final"].pc = "final"
            /\ [Recorded EXCEPT !.pc = "loop", !.idx = @ + 1].pc = "loop"
        BY <4>1 DEF Job
      <4>3. job'.pc \in {"final", "loop"}
        BY <3>2, <4>2 DEF JobRecordCommit
      <4> QED
        BY <4>3
    <3>3. CASE JobRunNotFound \/ JobAnnounce \/ JobHandlerKeeps \/ JobHandlerCommit
      BY <3>3 DEF JobRunNotFound, JobAnnounce, JobHandlerKeeps, JobHandlerCommit,
                  AfterHandler, Forget, FreshJob
    <3>4. CASE JobInitLoad \/ JobRecordLoad \/ JobFinalLoad
      BY <1>1, <3>4 DEF JobInitLoad, JobRecordLoad, JobFinalLoad, LoadRow, Job
    <3>5. CASE JobInitCommit \/ JobSeesStop
      BY <1>1, <3>5 DEF JobInitCommit, JobSeesStop, Job
    <3>6. CASE JobSkipsStep \/ JobBeginsStep \/ JobSelectionDone \/ JobFinalCommit
      BY <1>1, <3>6 DEF JobSkipsStep, JobBeginsStep, JobSelectionDone,
                        JobFinalCommit, Goto, Job
    <3>7. ASSUME NEW o \in StepOutcome, NEW fatal \in BOOLEAN,
                 JobExecutesStep(o, fatal)
          PROVE  job'.pc # "handling"
      BY <1>1, <3>7 DEF JobExecutesStep, Job
    <3> QED
      BY <2>1, <3>1, <3>2, <3>3, <3>4, <3>5, <3>6, <3>7 DEF JobProgress
  <2> QED
    BY <2>1, <2>2, RowStays DEF envVars
<1>6. CASE JobFailure
  <2>1. job'.pc \in {"handler", "lost"} /\ UNCHANGED <<row, envVars>>
    BY <1>6 DEF JobFailure, JobFails, JobCrash, JobFault, Forget, FreshJob
  <2> QED
    BY <2>1 DEF envVars
<1>7. ASSUME NEW r \in Requests, CancelLoad(r) \/ CancelCommit(r)
      PROVE  RowInv'
  BY <1>1, <1>7 DEF CancelLoad, CancelCommit, Cancellable, jobVars, RowType
<1>8. CASE ReapLoad \/ ReapCommit
  BY <1>1, <1>8 DEF ReapLoad, ReapCommit, jobVars, RowType
<1>9. CASE BootLoad \/ BootCommit
  BY <1>1, <1>9 DEF BootLoad, BootCommit, jobVars, RowType
<1>10. CASE UNCHANGED vars
  BY <1>10 DEF vars
<1> QED
  BY <1>2, <1>3, <1>4, <1>5, <1>6, <1>7, <1>8, <1>9, <1>10 DEF Next, HealthyNext

\* The coroutine takes a cancellation back only with a status it read before.
LEMMA StaleJob ==
  ASSUME TypeOK, RowInv, JobProgress,
         row.status = "CANCELLED", row'.status # "CANCELLED"
  PROVE  StaleWriter
<1>1. row \in RowType
  BY DEF TypeOK, RunJobTypeOK
<1>2. CASE JobInitCommit \/ JobRecordCommit
  BY <1>2 DEF JobInitCommit, JobRecordCommit, UpdateStatus, StaleWriter
<1>3. CASE JobFinalCommit
  BY <1>3 DEF JobFinalCommit, StaleWriter
<1>4. CASE JobHandlerCommit
  BY <1>4 DEF JobHandlerCommit, RowInv, StaleWriter
<1> QED
  BY <1>2, <1>3, <1>4 DEF JobProgress, JobRunNotFound, JobInitLoad,
     JobSeesStop, JobSkipsStep, JobBeginsStep, JobSelectionDone,
     JobExecutesStep, JobRecordLoad, JobFinalLoad, JobAnnounce,
     JobHandlerKeeps, JobHandlerLoad

\* A committed cancellation is undone only by a session that was already open:
\* the guards of update_status, the finalizer and the handlers together.
THEOREM CancelStands == Spec => CancelUndoneOnlyByStaleWriter
<1> DEFINE CInv == TypeOK /\ JobInv /\ RowInv
<1>1. Init => CInv
  BY InitInv DEF IInv, Init, RunJobInit, RowInv, FreshJob
<1>2. CInv /\ [Next]_vars => CInv'
  BY TypeStep, RowStep
<1>3. CInv /\ [Next]_vars =>
        [row.status = "CANCELLED" /\ row'.status # "CANCELLED" => StaleWriter]_vars
  <2> SUFFICES ASSUME CInv, Next, row.status = "CANCELLED",
                      row'.status # "CANCELLED"
               PROVE  StaleWriter
    OBVIOUS
  <2>1. row \in RowType
    BY DEF TypeOK, RunJobTypeOK
  <2>2. CASE JobStep
    BY <2>2, StaleJob DEF JobStep
  <2>3. CASE CommitRun
    BY <2>3 DEF CommitRun, RowInv
  <2>4. ASSUME NEW r \in Requests, CancelLoad(r) \/ CancelCommit(r)
        PROVE  StaleWriter
    BY <2>1, <2>4 DEF CancelLoad, CancelCommit, jobVars, RowType
  <2>5. CASE EnqueueRun \/ Deliver \/ Redeliver \/ JobFailure
    BY <2>5 DEF EnqueueRun, Deliver, Redeliver, JobStarts, JobFailure, JobFails,
                JobCrash, JobFault, jobVars
  <2>6. CASE ReapLoad \/ ReapCommit \/ BootLoad \/ BootCommit
    BY <2>6 DEF ReapLoad, ReapCommit, BootLoad, BootCommit, jobVars, StaleWriter
  <2> QED
    BY <2>2, <2>3, <2>4, <2>5, <2>6 DEF Next, HealthyNext
<1> QED
  BY <1>1, <1>2, <1>3, PTL DEF Spec, CancelUndoneOnlyByStaleWriter

-----------------------------------------------------------------------------
(***************************************************************************)
(* Proofs that what a run says of itself is backed by its run_steps rows:  *)
(* CountersBacked, FailureHasEvidence and PassedRunPassesCases, for every  *)
(* selection, planned set, number of deliveries and cancel requests.       *)
(*                                                                         *)
(* The ledger of an attempt is its locals against the rows it recorded,    *)
(* which later attempts leave alone (EarlierInv); and no session of an     *)
(* attempt keeps a verdict of an earlier one (LoadedInv).                  *)
(***************************************************************************)
\* The rows an attempt has recorded with one of the outcomes O.
Recs(rs, a, O) == {s \in rs : s.attempt = a /\ s.outcome \in O}
Count(rs, a, O) == Cardinality(Recs(rs, a, O))

\* Rows are of this attempt or an earlier one, and of the steps it has passed.
EarlierInv ==
  \A s \in runSteps :
    /\ s.attempt <= job.attempt
    /\ job.pc \in {"starting", "init"} => s.attempt < job.attempt
    /\ job.pc \in {"loop", "exec", "record", "recording"} /\ s.attempt = job.attempt =>
         s.order < job.idx

Counted == {"PASS", "FAIL"}    \* verdicts that come with exact counters

\* Between the first session of an attempt and its verdict the row has none:
\* only the job writes one, and its first session takes back what it loaded.
LoadedInv ==
  /\ job.pc = "init" /\ row.status \in Counted => job.loaded = row.status
  /\ job.pc \in Running \ {"announce"} => row.status \notin Counted
  /\ job.pc \in {"recording", "finalizing"} => job.loaded \notin Counted

\* A step of one of the outcomes O was executed and is not recorded yet.
Pending(O) == job.pc \in {"record", "recording"} /\ job.result \in O
Owed(O) == IF Pending(O) THEN 1 ELSE 0

TallyInv ==
  job.pc \in Running =>
    /\ CountersFrom(tally).passed = Count(runSteps, job.attempt, {"PASS"}) + Owed({"PASS"})
    /\ CountersFrom(tally).failed = Count(runSteps, job.attempt, Failing) + Owed(Failing)

\* The failures an attempt remembers are recorded, or about to be.
EvidenceInv ==
  job.pc \in Running =>
    /\ tally["FAIL"] > 0 => (\E s \in runSteps : s.outcome = "FAIL") \/ Pending({"FAIL"})
    /\ \A c \in Cases : outcome[c] \in Failing =>
         \/ \E s \in runSteps : Selection[s.order] = c /\ s.outcome = outcome[c]
         \/ Pending({outcome[c]}) /\ Selection[job.idx] = c

LedgerInv ==
  /\ IsFiniteSet(runSteps)
  /\ EarlierInv /\ LoadedInv /\ TallyInv /\ EvidenceInv
  /\ CountersBacked /\ FailureHasEvidence /\ PassedRunPassesCases

-----------------------------------------------------------------------------
LEMMA Types ==
  ASSUME TypeOK, JobInv
  PROVE  /\ job \in Job /\ job.attempt \in Nat /\ job.idx \in Nat
         /\ tally \in [StepOutcome -> Nat]
         /\ outcome \in [Cases -> StepOutcome \cup {"NONE"}]
         /\ runSteps \subseteq RunStepRow
         /\ \A s \in runSteps : s.attempt \in Nat /\ s.order \in Nat
  BY LenSelection, RunJobAssumption DEF TypeOK, RunJobTypeOK, Job, RunStepRow, Attempts, Steps

LEMMA CountType ==
  ASSUME IsFiniteSet(runSteps), NEW a, NEW O
  PROVE  Count(runSteps, a, O) \in Nat
<1>1. IsFiniteSet(Recs(runSteps, a, O))
  BY FS_Subset DEF Recs
<1> QED
  BY <1>1, FS_CardinalityType DEF Count

\* One more row.
LEMMA CountAdded ==
  ASSUME NEW rs, IsFiniteSet(rs), NEW n, n \notin rs, NEW a, NEW O
  PROVE  /\ Count(rs \cup {n}, a, O) =
              Count(rs, a, O) + (IF n.attempt = a /\ n.outcome \in O THEN 1 ELSE 0)
         /\ Count(rs, a, O) \in Nat
<1>1. IsFiniteSet(Recs(rs, a, O)) /\ n \notin Recs(rs, a, O)
  BY FS_Subset DEF Recs
<1>2. CASE n.attempt = a /\ n.outcome \in O
  <2>1. Recs(rs \cup {n}, a, O) = Recs(rs, a, O) \cup {n}
    BY <1>2 DEF Recs
  <2>2. Cardinality(Recs(rs, a, O) \cup {n}) = Cardinality(Recs(rs, a, O)) + 1
    BY <1>1, FS_AddElement
  <2> QED
    BY <1>1, <1>2, <2>1, <2>2, FS_CardinalityType DEF Count
<1>3. CASE ~(n.attempt = a /\ n.outcome \in O)
  <2>1. Recs(rs \cup {n}, a, O) = Recs(rs, a, O)
    BY <1>3 DEF Recs
  <2> QED
    BY <1>1, <1>3, <2>1, FS_CardinalityType DEF Count
<1> QED
  BY <1>2, <1>3

LEMMA CountGrows ==
  ASSUME NEW rs, NEW qs, rs \subseteq qs, IsFiniteSet(qs), NEW a, NEW O
  PROVE  /\ Count(rs, a, O) \in Nat /\ Count(qs, a, O) \in Nat
         /\ Count(rs, a, O) <= Count(qs, a, O)
<1>1. IsFiniteSet(Recs(qs, a, O)) /\ Recs(rs, a, O) \subseteq Recs(qs, a, O)
  BY FS_Subset DEF Recs
<1> QED
  BY <1>1, FS_Subset, FS_CardinalityType DEF Count

LEMMA BackedCount ==
  CountersBacked <=>
    \E a \in Attempts :
      /\ row.passed <= Count(runSteps, a, {"PASS"})
      /\ row.failed <= Count(runSteps, a, Failing)
      /\ row.status \in Counted =>
           /\ row.passed = Count(runSteps, a, {"PASS"})
           /\ row.failed = Count(runSteps, a, Failing)
  BY DEF CountersBacked, StepsRecorded, Count, Recs, Counted

-----------------------------------------------------------------------------
\* Steps of anybody but the coroutine.
OthersStep ==
  \/ EnqueueRun \/ CommitRun \/ Deliver \/ Redeliver
  \/ \E r \in Requests : CancelLoad(r) \/ CancelCommit(r)
  \/ ReapLoad \/ ReapCommit \/ BootLoad \/ BootCommit
  \/ JobFails \/ UNCHANGED vars
  \/ JobStarts \/ Interrupts      \* of LocalRuns

\* They write no verdict with counters, no counter and no row of a step, and
\* move the coroutine only to where it starts or ends.
LEMMA OthersFacts ==
  ASSUME TypeOK, JobInv, OthersStep
  PROVE  /\ runSteps' = runSteps /\ caseResult' = caseResult /\ announced' = announced
         /\ row'.passed = row.passed /\ row'.failed = row.failed
         /\ row' = row \/ row'.status \notin Counted
         /\ \/ /\ job' = job /\ tally' = tally /\ outcome' = outcome
            \/ /\ job'.pc \in {"handler", "lost"} /\ job'.attempt = job.attempt
               /\ row' = row
            \/ /\ job'.pc = "starting" /\ job'.attempt = job.attempt + 1
               /\ row' = row
<1>1. row \in RowType /\ job \in Job
  BY DEF TypeOK, RunJobTypeOK
<1>2. CASE \/ EnqueueRun \/ ReapLoad \/ BootLoad \/ UNCHANGED vars
           \/ \E r \in Requests : CancelLoad(r)
  BY <1>2 DEF EnqueueRun, ReapLoad, BootLoad, CancelLoad, vars, jobVars
<1>3. CASE \/ CommitRun \/ ReapCommit \/ BootCommit \/ Interrupts
           \/ \E r \in Requests : CancelCommit(r)
  BY <1>1, <1>3 DEF CommitRun, ReapCommit, BootCommit, CancelCommit, Interrupts, RowType, Counted
<1>4. CASE Deliver \/ Redeliver \/ JobStarts
  BY <1>1, <1>4 DEF Deliver, Redeliver, JobStarts, Job
<1>5. CASE JobFails
  BY <1>5 DEF JobFails, JobCrash, JobFault, Forget, FreshJob
<1> QED
  BY <1>2, <1>3, <1>4, <1>5 DEF OthersStep

LEMMA OthersLedger ==
  ASSUME TypeOK, JobInv, LedgerInv, OthersStep
  PROVE  LedgerInv'
<1>1. /\ runSteps' = runSteps /\ caseResult' = caseResult /\ announced' = announced
      /\ row'.passed = row.passed /\ row'.failed = row.failed
      /\ row' = row \/ row'.status \notin Counted
      /\ \/ /\ job' = job /\ tally' = tally /\ outcome' = outcome
         \/ /\ job'.pc \in {"handler", "lost"} /\ job'.attempt = job.attempt
         \/ /\ job'.pc = "starting" /\ job'.attempt = job.attempt + 1
  BY OthersFacts
<1>2. EarlierInv'
  BY <1>1, Types DEF EarlierInv, LedgerInv
<1>3. LoadedInv'
  BY <1>1 DEF LoadedInv, LedgerInv, Running
<1>4. TallyInv'
  BY <1>1 DEF TallyInv, LedgerInv, Running, CountersFrom, Count, Recs, Owed, Pending
<1>5. EvidenceInv'
  BY <1>1 DEF EvidenceInv, LedgerInv, Running, Pending
<1>6. CountersBacked'
  BY <1>1, OthersFacts DEF CountersBacked, StepsRecorded, LedgerInv, Counted
<1>7. FailureHasEvidence'
  BY <1>1 DEF FailureHasEvidence, LedgerInv, Counted
<1>8. PassedRunPassesCases'
  BY <1>1 DEF PassedRunPassesCases, LedgerInv, Counted
<1> QED
  BY <1>1, <1>2, <1>3, <1>4, <1>5, <1>6, <1>7, <1>8 DEF LedgerInv

-----------------------------------------------------------------------------
\* Steps of the coroutine

Quietly == JobRunNotFound \/ JobInitLoad \/ JobSeesStop \/ JobSkipsStep \/ JobBeginsStep
           \/ JobSelectionDone \/ JobRecordLoad \/ JobFinalLoad \/ JobHandlerKeeps
           \/ JobHandlerLoad

\* The three ways in which such a step moves the coroutine.
Leaves == job'.pc \notin Running \cup {"starting", "init"}

Opens == job.pc = "starting" /\ job'.pc = "init" /\ job'.loaded = row.status

Proceeds ==
  /\ job.pc \in Running \ {"announce"} /\ job'.pc \in Running \ {"announce"}
  /\ UNCHANGED <<tally, outcome>> /\ job'.result = job.result
  /\ job'.pc \in {"record", "recording"} <=> job.pc \in {"record", "recording"}
  /\ job'.pc \in {"loop", "exec"} => job.pc \in {"loop", "exec"}
  /\ job'.idx >= job.idx /\ job'.idx \in Nat
  /\ job.pc \in {"record", "recording"} => job'.idx = job.idx
  /\ job'.pc \in {"recording", "finalizing"} => job'.loaded = row.status

LEMMA QuietFacts ==
  ASSUME TypeOK, JobInv, Quietly
  PROVE  /\ UNCHANGED <<row, runSteps, caseResult, announced>> /\ job'.attempt = job.attempt
         /\ Leaves \/ Opens \/ Proceeds
<1>0. job \in Job /\ job.idx \in Nat
  BY Types
<1> USE DEF Leaves, Opens, Proceeds, Running, Job, Goto, LoadRow, Forget, FreshJob, AfterHandler
<1>1. CASE JobRunNotFound
  BY <1>0, <1>1 DEF JobRunNotFound
<1>2. CASE JobInitLoad
  BY <1>0, <1>2 DEF JobInitLoad
<1>3. CASE JobSeesStop
  BY <1>0, <1>3 DEF JobSeesStop
<1>4. CASE JobSkipsStep
  BY <1>0, <1>4 DEF JobSkipsStep
<1>5. CASE JobBeginsStep
  BY <1>0, <1>5 DEF JobBeginsStep
<1>6. CASE JobSelectionDone
  BY <1>0, <1>6 DEF JobSelectionDone
<1>7. CASE JobRecordLoad
  BY <1>0, <1>7 DEF JobRecordLoad
<1>8. CASE JobFinalLoad
  BY <1>0, <1>8 DEF JobFinalLoad
<1>9. CASE JobHandlerKeeps
  BY <1>0, <1>9 DEF JobHandlerKeeps
<1>10. CASE JobHandlerLoad
  BY <1>0, <1>10 DEF JobHandlerLoad
<1> QED
  BY <1>1, <1>2, <1>3, <1>4, <1>5, <1>6, <1>7, <1>8, <1>9, <1>10 DEF Quietly

LEMMA QuietLedger ==
  ASSUME TypeOK, JobInv, LedgerInv, Quietly
  PROVE  LedgerInv'
<1>1. /\ UNCHANGED <<row, runSteps, caseResult, announced>> /\ job'.attempt = job.attempt
      /\ Leaves \/ Opens \/ Proceeds
  BY QuietFacts
<1>2. EarlierInv'
  BY <1>1, Types DEF LedgerInv, EarlierInv, Leaves, Opens, Proceeds, Running
<1>3. LoadedInv'
  BY <1>1 DEF LedgerInv, LoadedInv, Leaves, Opens, Proceeds, Running
<1>4. TallyInv'
  BY <1>1 DEF LedgerInv, TallyInv, Leaves, Opens, Proceeds, Running, CountersFrom, Count, Recs, Owed, Pending
<1>5. EvidenceInv'
  BY <1>1 DEF LedgerInv, EvidenceInv, Leaves, Opens, Proceeds, Running, Pending
<1>6. CountersBacked' /\ FailureHasEvidence' /\ PassedRunPassesCases'
  BY <1>1 DEF LedgerInv, CountersBacked, StepsRecorded, FailureHasEvidence, PassedRunPassesCases
<1> QED
  BY <1>1, <1>2, <1>3, <1>4, <1>5, <1>6 DEF LedgerInv

LEMMA InitCommitLedger ==
  ASSUME TypeOK, JobInv, LedgerInv, JobInitCommit
  PROVE  LedgerInv'
<1>1. /\ job.pc = "init" /\ UNCHANGED <<runSteps, caseResult, announced>>
      /\ job'.pc = "loop" /\ job'.attempt = job.attempt /\ job'.idx = 1
      /\ tally' = NoTally /\ outcome' = NoOutcome
      /\ row'.passed = 0 /\ row'.failed = 0
      /\ row'.status = UpdateStatus(job.loaded, "RUNNING")
  BY Types DEF JobInitCommit, Job
<1>2. row'.status \notin Counted
  BY <1>1 DEF UpdateStatus, LedgerInv, LoadedInv, Counted
<1>3. EarlierInv'
  BY <1>1, Types DEF LedgerInv, EarlierInv
<1>4. LoadedInv'
  BY <1>1, <1>2 DEF LoadedInv, Running
<1>5. TallyInv'
  <2>1. \A O : Recs(runSteps, job.attempt, O) = {}
    BY <1>1, Types DEF Recs, LedgerInv, EarlierInv
  <2>2. \A O : Count(runSteps, job.attempt, O) = 0
    BY <2>1, FS_EmptySet DEF Count
  <2>3. CountersFrom(tally').passed = 0 /\ CountersFrom(tally').failed = 0
    BY <1>1 DEF CountersFrom, NoTally, StepOutcome
  <2>4. Owed({"PASS"})' = 0 /\ Owed(Failing)' = 0
    BY <1>1 DEF Owed, Pending
  <2> QED
    BY <1>1, <2>2, <2>3, <2>4 DEF TallyInv
<1>6. EvidenceInv'
  BY <1>1 DEF EvidenceInv, NoTally, NoOutcome, StepOutcome, Failing
<1>7. CountersBacked'
  <2>1. PICK a \in Attempts : TRUE
    BY RunJobAssumption DEF Attempts
  <2>2. Count(runSteps, a, {"PASS"}) \in Nat /\ Count(runSteps, a, Failing) \in Nat
    BY CountType DEF LedgerInv
  <2>3. row'.passed <= Count(runSteps', a, {"PASS"}) /\ row'.failed <= Count(runSteps', a, Failing)
    BY <1>1, <2>2
  <2> QED
    BY <1>2, <2>3 DEF CountersBacked, StepsRecorded, Count, Recs, Counted
<1>8. FailureHasEvidence' /\ PassedRunPassesCases'
  BY <1>1, <1>2 DEF LedgerInv, FailureHasEvidence, PassedRunPassesCases, Counted
<1> QED
  BY <1>1, <1>3, <1>4, <1>5, <1>6, <1>7, <1>8 DEF LedgerInv

\* The step's result is counted before it is recorded.
LEMMA ExecutesLedger ==
  ASSUME TypeOK, JobInv, LedgerInv, NEW o \in StepOutcome, NEW fatal \in BOOLEAN,
         JobExecutesStep(o, fatal)
  PROVE  LedgerInv'
<1>1. /\ job.pc = "exec" /\ job'.pc = "record" /\ job'.result = o
      /\ job'.attempt = job.attempt /\ job'.idx = job.idx
      /\ tally' = [tally EXCEPT ![o] = @ + 1]
      /\ outcome' = [outcome EXCEPT ![Selection[job.idx]] = CaseOutcome(@, o)]
      /\ UNCHANGED <<row, runSteps, caseResult, announced>>
  BY Types DEF JobExecutesStep, Job
<1>2. EarlierInv'
  BY <1>1 DEF LedgerInv, EarlierInv
<1>3. LoadedInv'
  BY <1>1 DEF LedgerInv, LoadedInv, Running
<1>4. TallyInv'
  <2> DEFINE P == Count(runSteps, job.attempt, {"PASS"})
             F == Count(runSteps, job.attempt, Failing)
  <2>1. CountersFrom(tally).passed = P /\ CountersFrom(tally).failed = F
    <3>1. CountersFrom(tally).passed = P + 0 /\ CountersFrom(tally).failed = F + 0
      BY <1>1 DEF LedgerInv, TallyInv, Running, Owed, Pending
    <3>2. P \in Nat /\ F \in Nat
      BY CountType DEF LedgerInv
    <3> HIDE DEF P, F
    <3> QED
      BY <3>1, <3>2
  <2>2. P' = P /\ F' = F
    BY <1>1
  <2> HIDE DEF P, F
  <2>3. Owed({"PASS"})' = IF o = "PASS" THEN 1 ELSE 0
    BY <1>1 DEF Owed, Pending
  <2>4. Owed(Failing)' = IF o \in Failing THEN 1 ELSE 0
    BY <1>1 DEF Owed, Pending
  <2>5. CountersFrom(tally').passed = CountersFrom(tally).passed + (IF o = "PASS" THEN 1 ELSE 0)
    BY <1>1, Types DEF CountersFrom, StepOutcome
  <2>6. CountersFrom(tally').failed = CountersFrom(tally).failed + (IF o \in Failing THEN 1 ELSE 0)
    BY <1>1, Types DEF CountersFrom, StepOutcome, Failing
  <2>7. /\ CountersFrom(tally').passed = P' + Owed({"PASS"})'
        /\ CountersFrom(tally').failed = F' + Owed(Failing)'
    BY <2>1, <2>2, <2>3, <2>4, <2>5, <2>6
  <2> QED
    BY <2>7 DEF TallyInv, P, F
<1>5. EvidenceInv'
  <2>1. job.idx \in Steps /\ Selection[job.idx] \in Cases
    BY <1>1, RunJobAssumption DEF JobInv, Steps
  <2>2. tally'["FAIL"] > 0 =>
          (\E s \in runSteps' : s.outcome = "FAIL") \/ (job'.pc = "record" /\ job'.result = "FAIL")
    BY <1>1, Types DEF LedgerInv, EvidenceInv, Running, Pending, StepOutcome
  <2>3. ASSUME NEW c \in Cases, outcome'[c] \in Failing
        PROVE  \/ \E s \in runSteps' : Selection[s.order] = c /\ s.outcome = outcome'[c]
               \/ job'.pc = "record" /\ job'.result = outcome'[c] /\ Selection[job'.idx] = c
    <3>1. CASE c = Selection[job.idx] /\ outcome'[c] # outcome[c]
      <4>1. outcome'[c] = CaseOutcome(outcome[c], o)
        BY <1>1, <3>1, Types
      <4>2. outcome'[c] = o
        BY <2>3, <3>1, <4>1 DEF CaseOutcome, StepOutcome, Failing
      <4> QED
        BY <1>1, <3>1, <4>2
    <3>2. CASE outcome'[c] = outcome[c]
      BY <1>1, <2>3, <3>2 DEF LedgerInv, EvidenceInv, Running, Pending
    <3> QED
      BY <1>1, <3>1, <3>2, Types
  <2> QED
    BY <2>2, <2>3 DEF EvidenceInv, Pending
<1>6. CountersBacked' /\ FailureHasEvidence' /\ PassedRunPassesCases'
  BY <1>1 DEF LedgerInv, CountersBacked, StepsRecorded, FailureHasEvidence, PassedRunPassesCases
<1> QED
  BY <1>1, <1>2, <1>3, <1>4, <1>5, <1>6 DEF LedgerInv

\* Recording adds the row of the step executed, and the counters as they are
\* remembered, unless the run was seen cancelled.
LEMMA RecordFacts ==
  ASSUME TypeOK, JobInv, JobRecordCommit
  PROVE  /\ job.pc = "recording" /\ runSteps' = runSteps \cup {NewStepRow}
         /\ UNCHANGED <<caseResult, announced, tally, outcome>>
         /\ job'.attempt = job.attempt
         /\ \/ job'.pc = "final" \/ (job'.pc = "loop" /\ job'.idx = job.idx + 1)
         /\ \/ row' = row
            \/ /\ row'.status = UpdateStatus(job.loaded, "RUNNING")
               /\ row'.passed = CountersFrom(tally).passed
               /\ row'.failed = CountersFrom(tally).failed
<1>0. job \in Job /\ runSteps' = runSteps \cup {NewStepRow} /\ job.pc = "recording"
      /\ UNCHANGED <<caseResult, announced, tally, outcome>>
  BY Types DEF JobRecordCommit
<1>1. CASE job.loaded = "CANCELLED"
  <2>1. job' = [Recorded EXCEPT !.pc = "final", !.cancelled = TRUE] /\ row' = row
    BY <1>1 DEF JobRecordCommit
  <2> QED
    BY <1>0, <2>1 DEF Recorded, Job
<1>2. CASE job.loaded # "CANCELLED" /\ job.fatal
  <2>1. /\ job' = [Recorded EXCEPT !.pc = "final"]
        /\ row' = [status |-> UpdateStatus(job.loaded, "RUNNING"),
                   passed |-> CountersFrom(tally).passed,
                   failed |-> CountersFrom(tally).failed]
    BY <1>2 DEF JobRecordCommit
  <2> QED
    BY <1>0, <2>1 DEF Recorded, Job
<1>3. CASE job.loaded # "CANCELLED" /\ ~ job.fatal
  <2>1. /\ job' = [Recorded EXCEPT !.pc = "loop", !.idx = @ + 1]
        /\ row' = [status |-> UpdateStatus(job.loaded, "RUNNING"),
                   passed |-> CountersFrom(tally).passed,
                   failed |-> CountersFrom(tally).failed]
    BY <1>3 DEF JobRecordCommit
  <2> QED
    BY <1>0, <2>1 DEF Recorded, Job
<1> QED
  BY <1>1, <1>2, <1>3

LEMMA RecordLedger ==
  ASSUME TypeOK, JobInv, LedgerInv, JobRecordCommit
  PROVE  LedgerInv'
<1> DEFINE n == NewStepRow
           a == job.attempt
           P == Count(runSteps, a, {"PASS"})
           F == Count(runSteps, a, Failing)
<1>1. /\ job.pc = "recording" /\ runSteps' = runSteps \cup {n}
      /\ UNCHANGED <<caseResult, announced, tally, outcome>>
      /\ job'.attempt = a
      /\ \/ job'.pc = "final" \/ (job'.pc = "loop" /\ job'.idx = job.idx + 1)
      /\ \/ row' = row
         \/ /\ row'.status = UpdateStatus(job.loaded, "RUNNING")
            /\ row'.passed = CountersFrom(tally).passed
            /\ row'.failed = CountersFrom(tally).failed
  BY RecordFacts
<1>2. n.attempt = a /\ n.order = job.idx /\ n.outcome = job.result
  BY DEF NewStepRow
<1>3. n \notin runSteps
  BY <1>1, <1>2, Types DEF LedgerInv, EarlierInv
<1>4. IsFiniteSet(runSteps) /\ IsFiniteSet(runSteps')
  BY <1>1, FS_AddElement DEF LedgerInv
<1>5. a \in Attempts /\ job.result \in StepOutcome /\ job.idx \in Nat
  BY <1>1, Types DEF JobInv
<1>6. row.status \notin Counted /\ row'.status \notin Counted
  <2>1. row.status \notin Counted
    BY <1>1 DEF LedgerInv, LoadedInv, Running
  <2> QED
    BY <1>1, <2>1 DEF UpdateStatus, Counted
<1> HIDE DEF n
<1>7. EarlierInv'
  BY <1>1, <1>2, <1>5, Types DEF LedgerInv, EarlierInv
<1>8. LoadedInv'
  BY <1>1, <1>6 DEF LoadedInv, Running
<1>9. /\ Count(runSteps', a, {"PASS"}) = P + (IF job.result = "PASS" THEN 1 ELSE 0)
      /\ Count(runSteps', a, Failing) = F + (IF job.result \in Failing THEN 1 ELSE 0)
      /\ P \in Nat /\ F \in Nat
  <2>1. \A O : /\ Count(runSteps \cup {n}, a, O) =
                    Count(runSteps, a, O) + (IF n.attempt = a /\ n.outcome \in O THEN 1 ELSE 0)
               /\ Count(runSteps, a, O) \in Nat
    BY <1>3, <1>4, CountAdded
  <2>2. /\ Count(runSteps', a, {"PASS"}) = P + (IF n.attempt = a /\ n.outcome \in {"PASS"} THEN 1 ELSE 0)
        /\ Count(runSteps', a, Failing) = F + (IF n.attempt = a /\ n.outcome \in Failing THEN 1 ELSE 0)
        /\ P \in Nat /\ F \in Nat
    BY <1>1, <2>1
  <2>3. n.outcome \in {"PASS"} <=> job.result = "PASS"
    BY <1>2
  <2> HIDE DEF P, F
  <2> QED
    BY <1>2, <2>2, <2>3
<1>10. /\ CountersFrom(tally).passed = Count(runSteps', a, {"PASS"})
       /\ CountersFrom(tally).failed = Count(runSteps', a, Failing)
  <2>1. Owed({"PASS"}) = IF job.result = "PASS" THEN 1 ELSE 0
    BY <1>1 DEF Owed, Pending
  <2>2. Owed(Failing) = IF job.result \in Failing THEN 1 ELSE 0
    BY <1>1 DEF Owed, Pending
  <2>3. CountersFrom(tally).passed = P + Owed({"PASS"}) /\ CountersFrom(tally).failed = F + Owed(Failing)
    BY <1>1 DEF LedgerInv, TallyInv, Running
  <2> HIDE DEF P, F
  <2> QED
    BY <1>9, <2>1, <2>2, <2>3
<1>11. TallyInv'
  <2>1. Owed({"PASS"})' = 0 /\ Owed(Failing)' = 0
    BY <1>1 DEF Owed, Pending
  <2>2. Count(runSteps', a, {"PASS"}) \in Nat /\ Count(runSteps', a, Failing) \in Nat
    BY <1>4, CountGrows
  <2>3. tally' = tally /\ job'.attempt = a
    BY <1>1
  <2>4. /\ CountersFrom(tally').passed = Count(runSteps', job'.attempt, {"PASS"}) + Owed({"PASS"})'
        /\ CountersFrom(tally').failed = Count(runSteps', job'.attempt, Failing) + Owed(Failing)'
    BY <1>10, <2>1, <2>2, <2>3
  <2> QED
    BY <2>4 DEF TallyInv
<1>12. EvidenceInv'
  <2>1. \A s \in runSteps : s \in runSteps'
    BY <1>1
  <2>2. n \in runSteps'
    BY <1>1
  <2>3. tally["FAIL"] > 0 => \E s \in runSteps' : s.outcome = "FAIL"
    BY <1>1, <1>2, <2>1, <2>2 DEF LedgerInv, EvidenceInv, Running, Pending
  <2>4. \A c \in Cases : outcome[c] \in Failing =>
          \E s \in runSteps' : Selection[s.order] = c /\ s.outcome = outcome[c]
    BY <1>1, <1>2, <2>1, <2>2 DEF LedgerInv, EvidenceInv, Running, Pending
  <2> QED
    BY <1>1, <2>3, <2>4 DEF EvidenceInv
<1>13. CountersBacked'
  <2>1. CASE row' = row
    <3>1. PICK b \in Attempts : /\ row.passed <= Count(runSteps, b, {"PASS"})
                                /\ row.failed <= Count(runSteps, b, Failing)
      BY BackedCount DEF LedgerInv
    <3>2. /\ Count(runSteps, b, {"PASS"}) <= Count(runSteps', b, {"PASS"})
          /\ Count(runSteps, b, Failing) <= Count(runSteps', b, Failing)
          /\ Count(runSteps, b, {"PASS"}) \in Nat /\ Count(runSteps', b, {"PASS"}) \in Nat
          /\ Count(runSteps, b, Failing) \in Nat /\ Count(runSteps', b, Failing) \in Nat
      BY <1>1, <1>4, CountGrows
    <3>3. row.passed \in Nat /\ row.failed \in Nat
      BY DEF TypeOK, RunJobTypeOK, RowType
    <3>4. row'.passed <= Count(runSteps', b, {"PASS"}) /\ row'.failed <= Count(runSteps', b, Failing)
      BY <2>1, <3>1, <3>2, <3>3
    <3> QED
      BY <1>6, <3>4 DEF CountersBacked, StepsRecorded, Count, Recs, Counted
  <2>2. CASE row'.passed = CountersFrom(tally).passed /\ row'.failed = CountersFrom(tally).failed
    <3>1. row'.passed <= Count(runSteps', a, {"PASS"}) /\ row'.failed <= Count(runSteps', a, Failing)
      <4>1. Count(runSteps', a, {"PASS"}) \in Nat /\ Count(runSteps', a, Failing) \in Nat
        BY <1>4, CountGrows
      <4> QED
        BY <1>10, <2>2, <4>1
    <3>2. PICK b \in Attempts : b = a
      BY <1>5
    <3> QED
      BY <1>6, <3>1, <3>2 DEF CountersBacked, StepsRecorded, Count, Recs, Counted
  <2> QED
    BY <1>1, <2>1, <2>2
<1>14. FailureHasEvidence' /\ PassedRunPassesCases'
  <2>1. \A s \in runSteps : s \in runSteps'
    BY <1>1
  <2> QED
    BY <1>1, <1>6, <2>1 DEF LedgerInv, FailureHasEvidence, PassedRunPassesCases, Counted
<1> QED
  BY <1>4, <1>7, <1>8, <1>11, <1>12, <1>13, <1>14 DEF LedgerInv

LEMMA FinalLedger ==
  ASSUME TypeOK, JobInv, ProgressInv, LedgerInv, JobFinalCommit
  PROVE  LedgerInv'
<1> DEFINE a == job.attempt
<1>1. /\ job.pc = "finalizing" /\ job'.pc = "announce" /\ job'.attempt = a
      /\ UNCHANGED <<runSteps, announced, tally, outcome>>
      /\ caseResult' = [c \in Cases |-> FinalCaseResult(c)]
  BY Types DEF JobFinalCommit, Goto, Job
<1>2. a \in Attempts /\ row.status \notin Counted /\ job.loaded \notin Counted
  BY <1>1 DEF JobInv, LedgerInv, LoadedInv, Running
<1>3. \/ row' = row
      \/ /\ row'.status \in {row.status, FinalStatus}
         /\ row'.passed = CountersFrom(tally).passed
         /\ row'.failed = CountersFrom(tally).failed
  BY DEF JobFinalCommit, UpdateStatus
<1>4. /\ CountersFrom(tally).passed = Count(runSteps, a, {"PASS"})
      /\ CountersFrom(tally).failed = Count(runSteps, a, Failing)
      /\ Count(runSteps, a, {"PASS"}) \in Nat /\ Count(runSteps, a, Failing) \in Nat
  <2>1. Owed({"PASS"}) = 0 /\ Owed(Failing) = 0
    BY <1>1 DEF Owed, Pending
  <2>2. /\ CountersFrom(tally).passed = Count(runSteps, a, {"PASS"}) + Owed({"PASS"})
        /\ CountersFrom(tally).failed = Count(runSteps, a, Failing) + Owed(Failing)
    BY <1>1 DEF LedgerInv, TallyInv, Running
  <2>3. Count(runSteps, a, {"PASS"}) \in Nat /\ Count(runSteps, a, Failing) \in Nat
    BY CountType DEF LedgerInv
  <2> QED
    BY <2>1, <2>2, <2>3
<1>5. EarlierInv'
  BY <1>1 DEF LedgerInv, EarlierInv
<1>6. LoadedInv'
  BY <1>1 DEF LoadedInv, Running
<1>7. TallyInv'
  <2>1. Owed({"PASS"})' = 0 /\ Owed(Failing)' = 0
    BY <1>1 DEF Owed, Pending
  <2>2. tally' = tally /\ job'.attempt = a /\ runSteps' = runSteps
    BY <1>1
  <2>3. /\ CountersFrom(tally').passed = Count(runSteps', job'.attempt, {"PASS"}) + Owed({"PASS"})'
        /\ CountersFrom(tally').failed = Count(runSteps', job'.attempt, Failing) + Owed(Failing)'
    BY <1>4, <2>1, <2>2
  <2> QED
    BY <2>3 DEF TallyInv
<1>8. /\ tally["FAIL"] > 0 => \E s \in runSteps : s.outcome = "FAIL"
      /\ \A c \in Cases : outcome[c] \in Failing =>
           \E s \in runSteps : Selection[s.order] = c /\ s.outcome = outcome[c]
  BY <1>1 DEF LedgerInv, EvidenceInv, Running, Pending
<1>9. EvidenceInv'
  BY <1>1, <1>8 DEF EvidenceInv
<1>10. CountersBacked'
  <2>1. CASE row' = row
    BY <1>1, <2>1 DEF LedgerInv, CountersBacked, StepsRecorded
  <2>2. CASE /\ row'.passed = CountersFrom(tally).passed
             /\ row'.failed = CountersFrom(tally).failed
    <3>1. PICK b \in Attempts : b = a
      BY <1>2
    <3>2. /\ row'.passed = Count(runSteps', b, {"PASS"}) /\ row'.failed = Count(runSteps', b, Failing)
          /\ row'.passed \in Nat /\ row'.failed \in Nat
      BY <1>1, <1>4, <2>2, <3>1
    <3>3. row'.passed <= Count(runSteps', b, {"PASS"}) /\ row'.failed <= Count(runSteps', b, Failing)
      BY <3>2
    <3> QED
      BY <3>2, <3>3 DEF CountersBacked, StepsRecorded, Count, Recs
  <2> QED
    BY <1>3, <2>1, <2>2
<1>11. FailureHasEvidence'
  <2>1. row'.status = "FAIL" => \E s \in runSteps' : s.outcome = "FAIL"
    <3>1. FinalStatus = "FAIL" => tally["FAIL"] > 0
      BY DEF FinalStatus
    <3> QED
      BY <1>1, <1>2, <1>3, <1>8, <3>1 DEF Counted
  <2>2. announced' = "FAIL" => \E s \in runSteps' : s.outcome = "FAIL"
    BY <1>1 DEF LedgerInv, FailureHasEvidence
  <2>3. ASSUME NEW c \in Cases, caseResult'[c] \in Failing
        PROVE  \E s \in runSteps' : Selection[s.order] = c /\ s.outcome = caseResult'[c]
    <3>1. FinalCaseResult(c) \in {"PASS", "CANCELLED", "SKIP", outcome[c], caseResult[c]}
      BY DEF FinalCaseResult
    <3>2. caseResult'[c] = FinalCaseResult(c)
      BY <1>1
    <3>3. caseResult'[c] = outcome[c] \/ caseResult'[c] = caseResult[c]
      BY <2>3, <3>1, <3>2 DEF Failing
    <3> QED
      BY <1>1, <1>8, <2>3, <3>3 DEF LedgerInv, FailureHasEvidence
  <2> QED
    BY <2>1, <2>2, <2>3 DEF FailureHasEvidence
<1>12. PassedRunPassesCases'
  <2> SUFFICES ASSUME row'.status = "PASS", NEW c \in SelectedCases
               PROVE  caseResult'[c] \in {"PASS", "SKIP"}
    BY DEF PassedRunPassesCases, SelectedCases, Steps
  <2>1. FinalStatus = "PASS"
    BY <1>2, <1>3 DEF Counted
  <2>0. job \in Job /\ tally["FAIL"] \in Nat /\ tally["ERROR"] \in Nat
    BY Types DEF StepOutcome
  <2>2. ~ job.cancelled /\ ~ (tally["FAIL"] > 0)
        /\ ~ (tally["FAIL"] = 0 /\ tally["ERROR"] > 0)
    BY <2>0, <2>1 DEF FinalStatus, Job
  <2>3. NoFailureYet
    BY <2>0, <2>2 DEF NoFailureYet
  <2>4. c \in Cases
    BY RunJobAssumption DEF SelectedCases, Steps
  <2>5. outcome[c] \notin Failing /\ outcome[c] \in StepOutcome \cup {"NONE"}
    BY <1>1, <2>3, <2>4, Types DEF ProgressInv, Running
  <2>6. caseResult'[c] = FinalCaseResult(c)
    BY <1>1, <2>4
  <2> QED
    BY <2>2, <2>5, <2>6 DEF FinalCaseResult, StepOutcome, Failing
<1> QED
  BY <1>1, <1>5, <1>6, <1>7, <1>9, <1>10, <1>11, <1>12 DEF LedgerInv

\* The coroutine ends: its locals are gone, its rows and its verdict stay.
LEMMA EndLedger ==
  ASSUME TypeOK, JobInv, LedgerInv, JobAnnounce \/ JobHandlerCommit
  PROVE  LedgerInv'
<1>1. /\ job'.pc \in {"done", "lost"} /\ job'.attempt = job.attempt
      /\ UNCHANGED <<runSteps, caseResult>>
  BY DEF JobAnnounce, JobHandlerCommit, Forget, FreshJob, AfterHandler
<1>2. /\ row'.passed = row.passed /\ row'.failed = row.failed
      /\ row' = row \/ row'.status \notin Counted
  BY Types DEF JobAnnounce, JobHandlerCommit, HandlerStatus, Counted, TypeOK, RunJobTypeOK, RowType
<1>3. announced' = "FAIL" =>
        announced = "FAIL" \/ \E s \in runSteps : s.outcome = "FAIL"
  <2>1. CASE JobHandlerCommit
    BY <2>1 DEF JobHandlerCommit
  <2>2. CASE JobAnnounce
    <3>1. job.pc = "announce" /\ (announced' = "FAIL" => FinalStatus = "FAIL")
      BY <2>2 DEF JobAnnounce
    <3>2. FinalStatus = "FAIL" => tally["FAIL"] > 0
      BY DEF FinalStatus
    <3> QED
      BY <3>1, <3>2 DEF LedgerInv, EvidenceInv, Running, Pending
  <2> QED
    BY <2>1, <2>2
<1>4. EarlierInv' /\ LoadedInv' /\ TallyInv' /\ EvidenceInv'
  BY <1>1 DEF LedgerInv, EarlierInv, LoadedInv, TallyInv, EvidenceInv, Running
<1>5. CountersBacked'
  BY <1>1, <1>2 DEF LedgerInv, CountersBacked, StepsRecorded, Counted
<1>6. FailureHasEvidence'
  BY <1>1, <1>2, <1>3 DEF LedgerInv, FailureHasEvidence, Counted
<1>7. PassedRunPassesCases'
  BY <1>1, <1>2 DEF LedgerInv, PassedRunPassesCases, Counted
<1> QED
  BY <1>1, <1>4, <1>5, <1>6, <1>7 DEF LedgerInv

-----------------------------------------------------------------------------
LEMMA InitLedger == Init => LedgerInv
<1> SUFFICES ASSUME Init PROVE LedgerInv
  OBVIOUS
<1>1. /\ runSteps = {} /\ caseResult = NoOutcome /\ announced = "NONE"
      /\ job.pc = "idle" /\ row.status = "ABSENT" /\ row.passed = 0 /\ row.failed = 0
  BY DEF Init, RunJobInit, FreshJob
<1>2. EarlierInv /\ LoadedInv /\ TallyInv /\ EvidenceInv
  BY <1>1 DEF EarlierInv, LoadedInv, TallyInv, EvidenceInv, Running
<1>3. IsFiniteSet(runSteps)
  BY <1>1, FS_EmptySet
<1>4. CountersBacked
  <2>1. PICK a \in Attempts : TRUE
    BY RunJobAssumption DEF Attempts
  <2>2. Count(runSteps, a, {"PASS"}) \in Nat /\ Count(runSteps, a, Failing) \in Nat
    BY <1>3, CountType
  <2>3. row.passed <= Count(runSteps, a, {"PASS"}) /\ row.failed <= Count(runSteps, a, Failing)
    BY <1>1, <2>2
  <2> QED
    BY <1>1, <2>3, BackedCount DEF Counted
<1>5. FailureHasEvidence /\ PassedRunPassesCases
  BY <1>1 DEF FailureHasEvidence, PassedRunPassesCases, NoOutcome, Failing
<1> QED
  BY <1>2, <1>3, <1>4, <1>5 DEF LedgerInv

LEMMA LedgerStep == IInv /\ LedgerInv /\ [Next]_vars => LedgerInv'
<1> SUFFICES ASSUME IInv, LedgerInv, [Next]_vars PROVE LedgerInv'
  OBVIOUS
<1>1. TypeOK /\ JobInv /\ ProgressInv
  BY DEF IInv
<1>2. CASE OthersStep
  BY <1>1, <1>2, OthersLedger
<1>3. CASE Quietly
  BY <1>1, <1>3, QuietLedger
<1>4. CASE JobInitCommit
  BY <1>1, <1>4, InitCommitLedger
<1>5. ASSUME NEW o \in StepOutcome, NEW fatal \in BOOLEAN, JobExecutesStep(o, fatal)
      PROVE  LedgerInv'
  BY <1>1, <1>5, ExecutesLedger
<1>6. CASE JobRecordCommit
  BY <1>1, <1>6, RecordLedger
<1>7. CASE JobFinalCommit
  BY <1>1, <1>7, FinalLedger
<1>8. CASE JobAnnounce \/ JobHandlerCommit
  BY <1>1, <1>8, EndLedger
<1>9. JobProgress => LedgerInv'
  BY <1>3, <1>4, <1>5, <1>6, <1>7, <1>8 DEF JobProgress, Quietly
<1> QED
  BY <1>2, <1>9 DEF Next, HealthyNext, JobStep, JobFailure, OthersStep

LEMMA LedgerHolds == Spec => [](IInv /\ LedgerInv)
<1>1. Init => IInv /\ LedgerInv
  BY InitInv, InitLedger
<1>2. IInv /\ LedgerInv /\ [Next]_vars => (IInv /\ LedgerInv)'
  BY InvStep, LedgerStep
<1> QED
  BY <1>1, <1>2, PTL DEF Spec

\* The step counters of the runs row never claim more than the run_steps rows
\* of one delivery back, and come with a PASS or FAIL exactly, whatever was
\* redelivered, cancelled or reconciled meanwhile.
THEOREM CountersStayBacked == Spec => []CountersBacked
<1>1. IInv /\ LedgerInv => CountersBacked
  BY DEF LedgerInv
<1> QED
  BY <1>1, LedgerHolds, PTL

\* A FAIL verdict of the run, shown or announced, and a failure left on a case
\* can be traced to a run_steps row with that outcome.
THEOREM FailuresHaveEvidence == Spec => []FailureHasEvidence
<1>1. IInv /\ LedgerInv => FailureHasEvidence
  BY DEF LedgerInv
<1> QED
  BY <1>1, LedgerHolds, PTL

\* A run that shows PASS leaves every selected case passed or skipped: the
\* verdict and the cases' results are written by one finalization, and nobody
\* writes that verdict afterwards.
THEOREM PassingRunsPassCases == Spec => []PassedRunPassesCases
<1>1. IInv /\ LedgerInv => PassedRunPassesCases
  BY DEF LedgerInv
<1> QED
  BY <1>1, LedgerHolds, PTL

-----------------------------------------------------------------------------
(***************************************************************************)
(* Proofs about LocalRuns for every number of supervisors, faults and      *)
(* attempts, every selection and every set of cancel requests.             *)
(*                                                                         *)
(* SupInv: the lock leaves one supervisor up, so a live coroutine is its.  *)
(* RunInv: a row that is still QUEUED has no steps, because no session can *)
(* take it back to QUEUED; an attempt that begins therefore begins with an *)
(* empty table.  Most actions of LocalRuns are, for the run, steps of      *)
(* ServerRuns, whose lemmas are used for them.                             *)
(***************************************************************************)
SupInv ==
  /\ sup \in [Supervisors -> Places]
  /\ \A p, q \in Supervisors : ~ At(p, "down") /\ ~ At(q, "down") => p = q
  /\ job.pc \in Live => \E p \in Supervisors : At(p, "running")
  /\ \A p \in Supervisors :
       sup[p] \in {"reconciling", "catching"} => row.status # "ABSENT"

RunInv ==
  /\ \A s \in runSteps : s.attempt = job.attempt
  /\ row.status \in {"ABSENT", "QUEUED"} => runSteps = {}
  /\ \A p \in Supervisors : At(p, "listed") => runSteps = {}
  /\ job.pc \in Running => row.status # "QUEUED"
  /\ job.pc = "init" /\ job.loaded # "QUEUED" => row.status # "QUEUED"

LInv == TypeOK /\ JobInv /\ RowInv /\ SupInv /\ RunInv

-----------------------------------------------------------------------------
\* What a step of the coroutine does to what the invariant speaks of: it keeps
\* its attempt, records steps only while the run is on, and never takes the
\* row back to QUEUED.
LEMMA JobFacts ==
  ASSUME TypeOK, JobInv, JobProgress
  PROVE  /\ job.pc \in Live
         /\ job'.attempt = job.attempt
         /\ \/ UNCHANGED runSteps
            \/ /\ job.pc = "recording"
               /\ runSteps' = runSteps \union {NewStepRow}
         /\ row'.status = "QUEUED" => row.status = "QUEUED"
         /\ job'.pc \in Running =>
              \/ job.pc \in Running
              \/ /\ job.pc = "init"
                 /\ row'.status = UpdateStatus(job.loaded, "RUNNING")
         /\ job'.pc = "init" => job'.loaded = row.status /\ UNCHANGED row
<1>1. job \in Job /\ row \in RowType
  BY DEF TypeOK, RunJobTypeOK
<1>2. CASE JobRunNotFound \/ JobAnnounce \/ JobHandlerKeeps \/ JobHandlerCommit
  <2>1. job'.pc \in {"done", "lost"} /\ job'.attempt = job.attempt
    BY <1>2 DEF JobRunNotFound, JobAnnounce, JobHandlerKeeps, JobHandlerCommit,
                AfterHandler, Forget, FreshJob
  <2>2. job.pc \in Live /\ UNCHANGED runSteps
    BY <1>2 DEF JobRunNotFound, JobAnnounce, JobHandlerKeeps, JobHandlerCommit,
                Live, Pc
  <2>3. row'.status = "QUEUED" => row.status = "QUEUED"
    BY <1>1, <1>2 DEF JobRunNotFound, JobAnnounce, JobHandlerKeeps,
                      JobHandlerCommit, HandlerStatus, RowType
  <2> QED
    BY <2>1, <2>2, <2>3 DEF Running
<1>3. CASE JobInitLoad
  BY <1>1, <1>3 DEF JobInitLoad, LoadRow, Job, Live, Pc, Running
<1>4. CASE JobInitCommit
  <2>1. job'.pc = "loop" /\ job'.attempt = job.attempt
    BY <1>1, <1>4 DEF JobInitCommit, Job
  <2> QED
    BY <1>4, <2>1, UpdateStatusWrites DEF JobInitCommit, Live, Pc, Running
<1>5. CASE JobRecordLoad \/ JobFinalLoad
  BY <1>1, <1>5 DEF JobRecordLoad, JobFinalLoad, LoadRow, Job, Live, Pc, Running
<1>6. CASE JobSeesStop \/ JobSkipsStep \/ JobBeginsStep \/ JobSelectionDone
  BY <1>1, <1>6 DEF JobSeesStop, JobSkipsStep, JobBeginsStep, JobSelectionDone,
                    Goto, Job, Live, Pc, Running
<1>7. ASSUME NEW o \in StepOutcome, NEW fatal \in BOOLEAN,
             JobExecutesStep(o, fatal)
      PROVE  /\ job.pc = "exec" /\ job'.pc = "record"
             /\ job'.attempt = job.attempt /\ UNCHANGED <<row, runSteps>>
  BY <1>1, <1>7 DEF JobExecutesStep, Job
<1>8. CASE JobRecordCommit
  <2>1. Recorded \in Job /\ Recorded.attempt = job.attempt
    BY <1>1 DEF Recorded, Job
  <2>2. /\ [Recorded EXCEPT !.pc = "final", !.cancelled = TRUE].pc = "final"
        /\ [Recorded EXCEPT !.pc = "final"].pc = "final"
        /\ [Recorded EXCEPT !.pc = "loop", !.idx = @ + 1].pc = "loop"
        /\ [Recorded EXCEPT !.pc = "final", !.cancelled = TRUE].attempt = job.attempt
        /\ [Recorded EXCEPT !.pc = "final"].attempt = job.attempt
        /\ [Recorded EXCEPT !.pc = "loop", !.idx = @ + 1].attempt = job.attempt
    BY <2>1 DEF Job
  <2>3. job'.pc \in {"final", "loop"} /\ job'.attempt = job.attempt
    BY <1>8, <2>2 DEF JobRecordCommit
  <2> QED
    BY <1>8, <2>3, UpdateStatusWrites DEF JobRecordCommit, Live, Pc, Running
<1>9. CASE JobHandlerLoad
  BY <1>1, <1>9 DEF JobHandlerLoad, LoadRow, Job, Live, Pc, Running
<1>10. CASE JobFinalCommit
  <2>1. job'.pc = "announce" /\ job'.attempt = job.attempt
    BY <1>1, <1>10 DEF JobFinalCommit, Goto, Job
  <2>2. FinalStatus # "QUEUED"
    BY DEF FinalStatus
  <2> QED
    BY <1>10, <2>1, <2>2, UpdateStatusWrites DEF JobFinalCommit, Live, Pc, Running
<1> QED
  BY <1>2, <1>3, <1>4, <1>5, <1>6, <1>7, <1>8, <1>9, <1>10
  DEF JobProgress, Live, Pc, Running

\* A step of the coroutine, while its supervisor stays where it is.
LEMMA RunInvProgress ==
  ASSUME TypeOK, JobInv, RunInv, SupInv, JobProgress, UNCHANGED sup
  PROVE  RunInv'
<1>1. row'.status # "QUEUED" \/ row.status = "QUEUED"
  BY JobFacts
<1>2. row'.status = "ABSENT" => row.status = "ABSENT"
  BY RowStays
<1>3. CASE job.pc = "recording"
  <2>1. row.status \notin {"QUEUED", "ABSENT"}
    BY <1>3 DEF RunInv, JobInv, Running
  <2>2. \A p \in Supervisors : ~ At(p, "listed")
    BY <1>3 DEF SupInv, At, Live, Pc
  <2>3. \A s \in runSteps' : s.attempt = job'.attempt
    BY JobFacts DEF RunInv, NewStepRow
  <2> QED
    BY <1>1, <1>2, <2>1, <2>2, <2>3, JobFacts DEF RunInv, At
<1>4. CASE job.pc # "recording"
  <2>1. UNCHANGED runSteps /\ job'.attempt = job.attempt
    BY <1>4, JobFacts
  <2>2. job'.pc \in Running => row'.status # "QUEUED"
    BY JobFacts, <1>1 DEF RunInv, UpdateStatus
  <2>3. job'.pc = "init" /\ job'.loaded # "QUEUED" => row'.status # "QUEUED"
    BY JobFacts
  <2> QED
    BY <1>1, <1>2, <2>1, <2>2, <2>3 DEF RunInv, At
<1> QED
  BY <1>3, <1>4

\* The requests of the API: only the creation of the run makes it QUEUED.
LEMMA RunInvApi ==
  ASSUME TypeOK, JobInv, RowInv, RunInv, SupInv, Api
  PROVE  RunInv' /\ SupInv'
<1>1. row \in RowType
  BY DEF TypeOK, RunJobTypeOK
<1>2. CASE EnqueueRun \/ ReapLoad \/ \E r \in Requests : CancelLoad(r)
  BY <1>2 DEF Api, EnqueueRun, ReapLoad, CancelLoad, jobVars, RunInv, SupInv, At
<1>3. CASE CommitRun
  <2>1. row.status = "ABSENT" /\ row'.status = "QUEUED" /\ UNCHANGED <<sup, job, runSteps>>
    BY <1>1, <1>3 DEF Api, CommitRun, RowInv, RowType
  <2> QED
    BY <2>1 DEF RunInv, SupInv, At, JobInv
<1>4. CASE ReapCommit \/ \E r \in Requests : CancelCommit(r)
  <2>1. /\ row'.status \in {"INTERRUPTED", "CANCELLED"}
        /\ UNCHANGED <<sup, job, runSteps>>
    BY <1>1, <1>4 DEF Api, ReapCommit, CancelCommit, RowType
  <2> QED
    BY <2>1 DEF RunInv, SupInv, At
<1> QED
  BY <1>2, <1>3, <1>4 DEF Api

\* A supervisor that takes up the run finds no step of an earlier attempt.
LEMMA RunInvStart ==
  ASSUME TypeOK, JobInv, RowInv, RunInv, SupInv,
         NEW p \in Supervisors, StartRun(p)
  PROVE  LInv'
<1> USE LenSelection, RunJobAssumption
<1>1. job \in Job /\ runSteps = {}
  BY DEF TypeOK, RunJobTypeOK, StartRun, RunInv
<1>2. job.attempt + 1 \in Attempts /\ job.attempt + 1 \in 0 .. MaxAttempts
  BY <1>1 DEF StartRun, JobStarts, Job, Attempts
<1>3. job' \in Job /\ job'.pc = "starting" /\ job'.attempt \in Attempts
  BY <1>1, <1>2 DEF StartRun, JobStarts, Job, Pc
<1>4. UNCHANGED <<row, runSteps, caseResult, announced, tally, outcome, envVars>>
  BY DEF StartRun, JobStarts
<1>5. TypeOK'
  BY <1>3, <1>4 DEF TypeOK, RunJobTypeOK, envVars
<1>6. JobInv'
  BY <1>3, <1>4 DEF JobInv, Running
<1>7. RowInv'
  BY <1>3, <1>4 DEF RowInv, envVars
<1>8. sup' = [sup EXCEPT ![p] = "running"] /\ sup[p] = "listed"
  BY DEF StartRun, Moves, At
<1>9. SupInv'
  BY <1>4, <1>8 DEF SupInv, At, Places
<1>10. RunInv'
  BY <1>1, <1>3, <1>4 DEF RunInv, Running
<1> QED
  BY <1>5, <1>6, <1>7, <1>9, <1>10 DEF LInv

\* An interruption: the row is there, and no coroutine is live.
LEMMA InterruptsInv ==
  ASSUME TypeOK, JobInv, RowInv, RunInv, SupInv, Interrupts,
         NEW p \in Supervisors, sup[p] \in {"reconciling", "catching"},
         NEW place \in {"polling", "down"}, Moves(p, place)
  PROVE  LInv' /\ job.pc \notin Live
<1>1. row \in RowType /\ row.status # "ABSENT"
  BY DEF TypeOK, RunJobTypeOK, SupInv
<1>2. /\ row' \in RowType /\ row'.status = "INTERRUPTED"
      /\ UNCHANGED <<runSteps, caseResult, announced, job, tally, outcome, envVars>>
  BY <1>1 DEF Interrupts, RowType, RunStatus, Terminal
<1>3. job.pc \notin Live
  BY DEF SupInv, At
<1>4. TypeOK' /\ JobInv' /\ RowInv'
  BY <1>1, <1>2 DEF TypeOK, RunJobTypeOK, JobInv, RowInv, envVars
<1>5. SupInv'
  BY <1>2, <1>3 DEF Moves, SupInv, At, Places
<1>6. RunInv'
  BY <1>2 DEF Moves, RunInv, SupInv, At
<1> QED
  BY <1>3, <1>4, <1>5, <1>6 DEF LInv

\* A supervisor that moves while the run stays as it is.  It may become the
\* one supervisor up if none was, leave the coroutine if that has ended, and
\* list the run if it is QUEUED.
LEMMA MovesInv ==
  ASSUME LInv, UNCHANGED vars, NEW p \in Supervisors,
         NEW place \in Places \ {"running"}, Moves(p, place),
         At(p, "down") => \A q \in Supervisors : At(q, "down"),
         At(p, "running") => job.pc \notin Live,
         place = "listed" => row.status = "QUEUED",
         place \in {"reconciling", "catching"} => row.status = "RUNNING"
  PROVE  LInv'
<1>1. TypeOK' /\ JobInv' /\ RowInv'
  BY DEF LInv, vars, TypeOK, RunJobTypeOK, JobInv, RowInv
<1>2. SupInv'
  BY DEF LInv, SupInv, At, Moves, vars
<1>3. RunInv'
  BY DEF LInv, RunInv, SupInv, At, Moves, vars
<1> QED
  BY <1>1, <1>2, <1>3 DEF LInv

\* The coroutine is left for its handler, or dies.
LEMMA RunInvFails ==
  ASSUME LInv, JobFailure, UNCHANGED sup
  PROVE  LInv'
<1>1. PICK pc \in {"handler", "lost"} :
        /\ job'.pc = pc /\ job'.attempt = job.attempt
        /\ UNCHANGED <<row, runSteps, envVars>>
        /\ job.pc \in Live
  BY DEF JobFailure, JobFails, JobCrash, JobFault, Forget, FreshJob, Live, Body
<1>2. [Next]_vars
  BY DEF Next
<1>3. TypeOK' /\ JobInv' /\ RowInv'
  BY <1>2, TypeStep, RowStep DEF LInv
<1>4. SupInv' /\ RunInv'
  BY <1>1 DEF LInv, SupInv, RunInv, At, Running
<1> QED
  BY <1>3, <1>4 DEF LInv

\* The process dies, and the coroutine with it.
LEMMA CrashInv ==
  ASSUME LInv, NEW p \in Supervisors, Crash(p)
  PROVE  LInv'
<1>1. sup[p] # "down" /\ Moves(p, "down")
  BY DEF Crash, At
<1>2. CASE At(p, "running") /\ JobCrash
  <2>1. JobFailure
    BY <1>2 DEF Crash, JobFailure, JobFails
  <2>2. TypeOK' /\ JobInv' /\ RowInv'
    BY <2>1, TypeStep, RowStep DEF LInv, Next
  <2>3. job'.pc = "lost" /\ job'.attempt = job.attempt /\ UNCHANGED <<row, runSteps>>
    BY <1>2 DEF JobCrash, Forget, FreshJob
  <2>4. SupInv' /\ RunInv'
    BY <1>1, <2>3 DEF LInv, SupInv, RunInv, At, Moves, Places, Live, Running
  <2> QED
    BY <2>2, <2>4 DEF LInv
<1>3. CASE ~ (At(p, "running") /\ job.pc \in Live) /\ UNCHANGED jobVars
  <2>1. UNCHANGED vars
    BY <1>3 DEF Crash, vars, jobVars, envVars
  <2> QED
    BY <1>1, <1>3, <2>1, MovesInv DEF Places, At
<1> QED
  BY <1>2, <1>3 DEF Crash

LEMMA LocalInitInv == LocalInit => LInv
<1> SUFFICES ASSUME LocalInit PROVE LInv
  OBVIOUS
<1>1. TypeOK /\ JobInv
  BY InitInv DEF LocalInit, IInv
<1>2. RowInv /\ SupInv /\ RunInv
  BY DEF LocalInit, Init, RunJobInit, FreshJob, RowInv, SupInv, RunInv, At,
         Places, Live, Running
<1> QED
  BY <1>1, <1>2 DEF LInv

LEMMA LocalInvStep == LInv /\ [LocalNext]_localVars => LInv'
<1> SUFFICES ASSUME LInv, [LocalNext]_localVars PROVE LInv'
  OBVIOUS
<1>1. CASE Api
  <2>1. [Next]_vars
    BY <1>1 DEF Api, Next, HealthyNext
  <2> QED
    BY <1>1, <2>1, TypeStep, RowStep, RunInvApi DEF LInv
<1>2. ASSUME NEW p \in Supervisors, Boot(p) PROVE LInv'
  BY <1>2, MovesInv DEF Boot, At, Places
<1>3. ASSUME NEW p \in Supervisors, ZombieLoad(p) PROVE LInv'
  BY <1>3, MovesInv DEF ZombieLoad, At, Places
<1>4. ASSUME NEW p \in Supervisors, ZombieCommit(p) \/ CatchCommit(p) PROVE LInv'
  BY <1>4, InterruptsInv DEF ZombieCommit, CatchCommit, Goes, At, LInv
<1>5. ASSUME NEW p \in Supervisors, ZombieFails(p) \/ CatchFails(p) PROVE LInv'
  BY <1>5, MovesInv DEF ZombieFails, CatchFails, Goes, At, Places
<1>6. ASSUME NEW p \in Supervisors, Poll(p) PROVE LInv'
  BY <1>6, MovesInv DEF Poll, At, Places
<1>7. ASSUME NEW p \in Supervisors, StartRun(p) PROVE LInv'
  BY <1>7, RunInvStart DEF LInv
<1>8. ASSUME NEW p \in Supervisors, Executes(p) PROVE LInv'
  <2>1. JobProgress /\ UNCHANGED <<envVars, sup>> /\ At(p, "running")
    BY <1>8 DEF Executes, JobStep
  <2>2. [Next]_vars
    BY <1>8 DEF Executes, Next, HealthyNext
  <2>3. TypeOK' /\ JobInv' /\ RowInv' /\ RunInv'
    BY <2>1, <2>2, TypeStep, RowStep, RunInvProgress DEF LInv
  <2>4. SupInv'
    BY <2>1, RowStays DEF LInv, SupInv, At
  <2> QED
    BY <2>3, <2>4 DEF LInv
<1>9. ASSUME NEW p \in Supervisors, Breaks(p) \/ HandlerFails(p) PROVE LInv'
  <2>1. JobFailure /\ UNCHANGED sup
    BY <1>9 DEF Breaks, HandlerFails, JobFailure, JobFails, JobCrash, Faults,
                Live, Pc
  <2> QED
    BY <2>1, RunInvFails
<1>10. ASSUME NEW p \in Supervisors, Returned(p) \/ Raised(p) PROVE LInv'
  BY <1>10, MovesInv DEF Returned, Raised, At, Places, Live
<1>11. ASSUME NEW p \in Supervisors, CatchLoad(p) PROVE LInv'
  BY <1>11, MovesInv DEF CatchLoad, Goes, At, Places
<1>12. ASSUME NEW p \in Supervisors, Crash(p) PROVE LInv'
  BY <1>12, CrashInv
<1>13. CASE UNCHANGED localVars
  BY <1>13 DEF localVars, vars, LInv, TypeOK, RunJobTypeOK, JobInv, RowInv,
               SupInv, RunInv, At
<1> QED
  BY <1>1, <1>2, <1>3, <1>4, <1>5, <1>6, <1>7, <1>8, <1>9, <1>10, <1>11,
     <1>12, <1>13 DEF LocalNext, Loops, Fails

\* In LOCAL mode the run_steps rows of a run belong to one attempt: a run that
\* was interrupted after it recorded a step is never executed again.
THEOREM OneAttemptRecorded == LocalSpec => []StepsOfOneAttempt
<1>1. LInv => StepsOfOneAttempt
  BY DEF LInv, RunInv, StepsOfOneAttempt
<1> QED
  BY <1>1, LocalInitInv, LocalInvStep, PTL DEF LocalSpec

\* A supervisor that marks a run as interrupted, at its start or after an
\* exception, never does so to a run that a coroutine is executing.
THEOREM OnlyTheDeadAreZombies == LocalSpec => ZombiesAreDead
<1>1. LInv /\ [LocalNext]_localVars =>
        [\A p \in Supervisors :
           ZombieCommit(p) \/ CatchCommit(p) => job.pc \notin Live]_localVars
  BY InterruptsInv DEF ZombieCommit, CatchCommit, Goes, At, LInv
<1> QED
  BY <1>1, LocalInitInv, LocalInvStep, PTL DEF LocalSpec, ZombiesAreDead

-----------------------------------------------------------------------------
\* The verdict

\* Seen from the run, a step of LOCAL mode is one of ServerRuns, or the start of
\* an attempt, or the interruption of one that is over.
ApiStep ==
  \/ EnqueueRun \/ CommitRun
  \/ \E r \in Requests : CancelLoad(r) \/ CancelCommit(r)
  \/ ReapLoad \/ ReapCommit

LEMMA LocalStepOfRun ==
  ASSUME [LocalNext]_localVars
  PROVE  \/ JobStep \/ JobFailure \/ ApiStep \/ UNCHANGED vars
         \/ (\E p \in Supervisors : StartRun(p))
         \/ Interrupts
<1>1. ASSUME NEW p \in Supervisors, Fails(p)
      PROVE  JobFailure \/ UNCHANGED vars
  BY <1>1 DEF Fails, ZombieFails, Breaks, HandlerFails, CatchFails, Crash,
              JobFailure, JobFails, JobCrash, Faults, Live, Pc,
              vars, jobVars, envVars
<1>2. ASSUME NEW p \in Supervisors, Boot(p) \/ Loops(p)
      PROVE  JobStep \/ StartRun(p) \/ Interrupts \/ UNCHANGED vars
  BY <1>2 DEF Boot, Loops, ZombieLoad, ZombieCommit, Poll, Executes, Returned,
              Raised, CatchLoad, CatchCommit
<1>3. CASE UNCHANGED localVars
  BY <1>3 DEF localVars
<1>4. CASE Api
  BY <1>4 DEF Api, ApiStep
<1> QED
  BY <1>1, <1>2, <1>3, <1>4 DEF LocalNext

LEMMA LocalVerdictStep ==
  LInv /\ IInv /\ [LocalNext]_localVars => IInv'
<1> SUFFICES ASSUME LInv, IInv, [LocalNext]_localVars PROVE IInv'
  OBVIOUS
<1>1. TypeOK' /\ JobInv'
  BY LocalInvStep DEF LInv
<1>2. CASE JobStep \/ JobFailure \/ ApiStep \/ UNCHANGED vars
  BY <1>2, InvStep DEF ApiStep, Next, HealthyNext
<1>3. ASSUME NEW p \in Supervisors, StartRun(p) PROVE IInv'
  <2>1. job'.pc = "starting" /\ UNCHANGED <<row, runSteps, announced>>
    BY <1>3 DEF StartRun, JobStarts, LInv, TypeOK, RunJobTypeOK, Job
  <2> QED
    BY <1>1, <2>1, NotRunning, VerdictKept DEF Running, IInv
<1>4. CASE Interrupts
  <2>1. /\ row'.status = "INTERRUPTED"
        /\ UNCHANGED <<runSteps, announced, job, tally, outcome>>
    BY <1>4 DEF Interrupts, LInv, TypeOK, RunJobTypeOK, RowType
  <2> QED
    BY <1>1, <2>1, OthersKeep, VerdictKept DEF IInv
<1> QED
  BY <1>2, <1>3, <1>4, LocalStepOfRun

\* A PASS is backed by the recorded steps in LOCAL mode too, whenever
\* supervisors die and whatever else writes the row.
THEOREM LocalVerdictSound == LocalSpec => []PassVerdictSound
<1>1. LocalInit => LInv /\ IInv
  BY LocalInitInv, InitInv DEF LocalInit
<1>2. LInv /\ IInv /\ [LocalNext]_localVars => (LInv /\ IInv)'
  BY LocalInvStep, LocalVerdictStep
<1>3. IInv => PassVerdictSound
  BY DEF IInv
<1> QED
  BY <1>1, <1>2, <1>3, PTL DEF LocalSpec

-----------------------------------------------------------------------------
(***************************************************************************)
(* The ledger in LOCAL mode.  There it is exact: the rows are those of the *)
(* last attempt (RunInv), so what the row counts is what the table holds.  *)
(***************************************************************************)
LEMMA LocalLedgerStep ==
  LInv /\ IInv /\ LedgerInv /\ [LocalNext]_localVars => LedgerInv'
<1> SUFFICES ASSUME LInv, IInv, LedgerInv, [LocalNext]_localVars PROVE LedgerInv'
  OBVIOUS
<1>1. CASE JobStep \/ JobFailure \/ ApiStep \/ UNCHANGED vars
  BY <1>1, LedgerStep DEF ApiStep, Next, HealthyNext
<1>2. CASE Interrupts \/ \E p \in Supervisors : StartRun(p)
  BY <1>2, OthersLedger DEF OthersStep, StartRun, IInv
<1> QED
  BY <1>1, <1>2, LocalStepOfRun

ExactInv ==
  LET P == Count(runSteps, job.attempt, {"PASS"})
      F == Count(runSteps, job.attempt, Failing)
  IN  /\ row.passed <= P /\ row.failed <= F
      /\ row.status \in Counted => row.passed = P /\ row.failed = F

LEMMA ExactJobStep ==
  ASSUME IInv, LedgerInv, LedgerInv', ExactInv, JobProgress
  PROVE  ExactInv'
<1> DEFINE P == Count(runSteps, job.attempt, {"PASS"})
           F == Count(runSteps, job.attempt, Failing)
<1>0. TypeOK /\ JobInv /\ row.passed \in Nat /\ row.failed \in Nat
  BY DEF IInv, TypeOK, RunJobTypeOK, RowType
<1>1. job'.attempt = job.attempt
  BY <1>0, JobFacts
<1>2. P \in Nat /\ F \in Nat /\ P' \in Nat /\ F' \in Nat
  BY CountGrows DEF LedgerInv
<1>3. ASSUME UNCHANGED <<row, runSteps>> PROVE ExactInv'
  BY <1>1, <1>3 DEF ExactInv, Count, Recs
<1>4. CASE JobInitCommit
  <2>1. row'.passed = 0 /\ row'.failed = 0 /\ job'.pc = "loop"
    BY <1>0, <1>4, Types DEF JobInitCommit, Job
  <2>2. row'.status \notin Counted
    BY <2>1 DEF LedgerInv, LoadedInv, Running
  <2> HIDE DEF P, F
  <2>3. row'.passed <= P' /\ row'.failed <= F'
    BY <1>2, <2>1
  <2> QED
    BY <2>2, <2>3 DEF ExactInv, P, F
<1>5. CASE JobRecordCommit
  <2>1. /\ job'.pc \in {"final", "loop"} /\ runSteps \subseteq runSteps' /\ tally' = tally
        /\ \/ row' = row
           \/ /\ row'.passed = CountersFrom(tally).passed
              /\ row'.failed = CountersFrom(tally).failed
    BY <1>0, <1>5, RecordFacts
  <2>2. row'.status \notin Counted
    BY <2>1 DEF LedgerInv, LoadedInv, Running
  <2>3. P <= P' /\ F <= F'
    BY <1>1, <2>1, CountGrows DEF LedgerInv
  <2>4. row.passed <= P /\ row.failed <= F
    BY DEF ExactInv
  <2>5. CountersFrom(tally').passed = P' + 0 /\ CountersFrom(tally').failed = F' + 0
    BY <2>1 DEF LedgerInv, TallyInv, Running, Owed, Pending
  <2> HIDE DEF P, F
  <2>6. row'.passed <= P' /\ row'.failed <= F'
    BY <1>0, <1>2, <2>1, <2>3, <2>4, <2>5
  <2> QED
    BY <2>2, <2>6 DEF ExactInv, P, F
<1>6. CASE JobFinalCommit
  <2>1. /\ job'.pc = "announce" /\ UNCHANGED <<runSteps, tally>>
        /\ \/ row' = row
           \/ /\ row'.passed = CountersFrom(tally).passed
              /\ row'.failed = CountersFrom(tally).failed
    BY <1>0, <1>6, Types DEF JobFinalCommit, Goto, Job
  <2>2. CountersFrom(tally').passed = P' + 0 /\ CountersFrom(tally').failed = F' + 0
    BY <2>1 DEF LedgerInv, TallyInv, Running, Owed, Pending
  <2>3. CASE row' = row
    BY <1>3, <2>1, <2>3
  <2>4. CASE /\ row'.passed = CountersFrom(tally).passed
             /\ row'.failed = CountersFrom(tally).failed
    <3> HIDE DEF P, F
    <3>1. row'.passed = P' /\ row'.failed = F' /\ row'.passed <= P' /\ row'.failed <= F'
      BY <1>2, <2>1, <2>2, <2>4
    <3> QED
      BY <3>1 DEF ExactInv, P, F
  <2> QED
    BY <2>1, <2>3, <2>4
<1>7. CASE JobHandlerCommit
  <2>1. /\ UNCHANGED runSteps /\ row'.passed = row.passed /\ row'.failed = row.failed
        /\ row'.status \notin Counted
    BY <1>0, <1>7 DEF JobHandlerCommit, HandlerStatus, Counted, TypeOK, RunJobTypeOK, RowType
  <2> QED
    BY <1>1, <2>1 DEF ExactInv
<1>8. CASE Quietly
  BY <1>0, <1>3, <1>8, QuietFacts
<1>9. CASE JobAnnounce \/ \E o \in StepOutcome, fatal \in BOOLEAN : JobExecutesStep(o, fatal)
  BY <1>3, <1>9 DEF JobAnnounce, JobExecutesStep
<1> QED
  BY <1>4, <1>5, <1>6, <1>7, <1>8, <1>9 DEF JobProgress, Quietly

LEMMA ExactStep ==
  ASSUME LInv, IInv, LedgerInv, LedgerInv', ExactInv, [LocalNext]_localVars
  PROVE  ExactInv'
<1>0. TypeOK /\ JobInv
  BY DEF IInv
<1>1. CASE JobStep
  BY <1>1, ExactJobStep DEF JobStep
<1>2. CASE JobFailure \/ ApiStep \/ UNCHANGED vars \/ Interrupts
  <2>1. job'.attempt = job.attempt
    BY <1>2 DEF JobFailure, JobFails, JobCrash, JobFault, Forget, FreshJob, ApiStep,
       EnqueueRun, CommitRun, CancelLoad, CancelCommit, ReapLoad, ReapCommit,
       jobVars, vars, Interrupts
  <2>2. /\ runSteps' = runSteps /\ row'.passed = row.passed /\ row'.failed = row.failed
        /\ row' = row \/ row'.status \notin Counted
    BY <1>0, <1>2, OthersFacts DEF OthersStep, ApiStep, JobFailure
  <2> QED
    BY <2>1, <2>2 DEF ExactInv
<1>3. ASSUME NEW p \in Supervisors, StartRun(p) PROVE ExactInv'
  <2>1. runSteps = {} /\ UNCHANGED <<row, runSteps>>
    BY <1>3 DEF LInv, RunInv, StartRun, JobStarts
  <2>2. \A a, O : Count(runSteps, a, O) = 0 /\ Count(runSteps', a, O) = 0
    BY <2>1, FS_EmptySet DEF Count, Recs
  <2> QED
    BY <2>1, <2>2 DEF ExactInv
<1> QED
  BY <1>1, <1>2, <1>3, LocalStepOfRun

LEMMA ExactInit == LocalInit => ExactInv
<1> SUFFICES ASSUME LocalInit PROVE ExactInv
  OBVIOUS
<1>1. runSteps = {} /\ row.status = "ABSENT" /\ row.passed = 0 /\ row.failed = 0
  BY DEF LocalInit, Init, RunJobInit
<1>2. \A a, O : Count(runSteps, a, O) = 0
  BY <1>1, FS_EmptySet DEF Count, Recs
<1> QED
  BY <1>1, <1>2 DEF ExactInv, Counted

LEMMA LocalLedgerHolds == LocalSpec => [](LInv /\ IInv /\ LedgerInv /\ ExactInv)
<1>1. LocalInit => LInv /\ IInv /\ LedgerInv /\ ExactInv
  BY LocalInitInv, InitInv, InitLedger, ExactInit DEF LocalInit
<1>2. LInv /\ IInv /\ LedgerInv /\ ExactInv /\ [LocalNext]_localVars
        => (LInv /\ IInv /\ LedgerInv /\ ExactInv)'
  BY LocalInvStep, LocalVerdictStep, LocalLedgerStep, ExactStep
<1> QED
  BY <1>1, <1>2, PTL DEF LocalSpec

\* In LOCAL mode too a FAIL, and a failure left on a case, can be traced to a
\* run_steps row, and a PASS leaves every selected case passed or skipped.
THEOREM LocalVerdictsTraced ==
  LocalSpec => [](FailureHasEvidence /\ PassedRunPassesCases)
<1>1. LedgerInv => FailureHasEvidence /\ PassedRunPassesCases
  BY DEF LedgerInv
<1> QED
  BY <1>1, LocalLedgerHolds, PTL

\* In LOCAL mode the counters of the row are those of all its run_steps rows,
\* exactly so under a PASS or FAIL verdict: what the API shows as passed and
\* failed is what the list of steps below it shows.
THEOREM LocalCountersExact == LocalSpec => []CountersOfAllRows
<1>1. LInv /\ ExactInv => CountersOfAllRows
  <2> SUFFICES ASSUME LInv, ExactInv PROVE CountersOfAllRows
    OBVIOUS
  <2>1. \A O : RowsWith(O) = Count(runSteps, job.attempt, O)
    <3> SUFFICES ASSUME NEW O PROVE RowsWith(O) = Count(runSteps, job.attempt, O)
      OBVIOUS
    <3>1. {s \in runSteps : s.outcome \in O} = Recs(runSteps, job.attempt, O)
      BY DEF LInv, RunInv, Recs
    <3> QED
      BY <3>1 DEF RowsWith, Count
  <2> QED
    BY <2>1 DEF ExactInv, CountersOfAllRows, Counted
<1> QED
  BY <1>1, LocalLedgerHolds, PTL

\* A committed cancellation is undone in LOCAL mode only by a session that was
\* open when it committed: the coroutine's, a reader's, or the supervisor's.
THEOREM LocalCancelStands == LocalSpec => CancelUndoneOnlyByStaleProcess
<1>1. LInv /\ [LocalNext]_localVars =>
        [row.status = "CANCELLED" /\ row'.status # "CANCELLED" =>
           \/ StaleWriter
           \/ \E p \in Supervisors : sup[p] \in {"reconciling", "catching"}]_localVars
  <2> SUFFICES ASSUME LInv, LocalNext, row.status = "CANCELLED",
                      row'.status # "CANCELLED"
               PROVE  \/ StaleWriter
                      \/ \E p \in Supervisors : sup[p] \in {"reconciling", "catching"}
    OBVIOUS
  <2>0. TypeOK /\ RowInv /\ row \in RowType
    BY DEF LInv, TypeOK, RunJobTypeOK
  <2>1. CASE JobStep
    BY <2>0, <2>1, StaleJob DEF JobStep
  <2>2. CASE ApiStep
    <3>1. CASE ReapCommit
      BY <3>1 DEF ReapCommit, StaleWriter
    <3>2. CASE CommitRun
      BY <2>0, <3>2 DEF CommitRun, RowInv
    <3> QED
      BY <2>0, <2>2, <3>1, <3>2
      DEF ApiStep, EnqueueRun, CancelLoad, CancelCommit, ReapLoad, jobVars, RowType
  <2>3. ASSUME NEW p \in Supervisors, Boot(p) \/ Loops(p) \/ Fails(p), row' # row
        PROVE  JobStep \/ sup[p] \in {"reconciling", "catching"}
    BY <2>3 DEF Boot, Loops, ZombieLoad, ZombieCommit, Poll, StartRun, JobStarts,
       Executes, Returned, Raised, CatchLoad, CatchCommit, At,
       Fails, ZombieFails, Breaks, JobFault, HandlerFails, CatchFails, Crash, JobCrash,
       jobVars, vars
  <2> QED
    BY <2>1, <2>2, <2>3 DEF LocalNext, Api, ApiStep
<1> QED
  BY <1>1, LocalInitInv, LocalInvStep, PTL DEF LocalSpec, CancelUndoneOnlyByStaleProcess

-----------------------------------------------------------------------------
(***************************************************************************)
(* The bound on attempts in LOCAL mode.  An attempt that ends by itself    *)
(* leaves a row that is over; one that leaves it QUEUED was ended by a     *)
(* fault.  The attempts of a run that is still to be started are therefore *)
(* no more than the faults.                                                *)
(***************************************************************************)
Startable ==
  row.status \in {"ABSENT", "QUEUED"} \/ \E p \in Supervisors : At(p, "listed")

BoundInv ==
  /\ exits \in [Supervisors -> BOOLEAN]
  /\ faults \in 0 .. MaxFaults
  /\ job.pc # "idle" \/ (\E p \in Supervisors : At(p, "listed")) => row.status # "ABSENT"
  /\ job.pc \in Live => job.attempt <= faults + 1
  /\ job.pc \notin Live /\ Startable => job.attempt <= faults

LEMMA BoundStep ==
  ASSUME LInv, LInv', BoundInv, [LocalNext]_localVars
  PROVE  BoundInv'
<1>0. /\ TypeOK /\ JobInv /\ job \in Job /\ row \in RowType
      /\ job.attempt \in Nat /\ faults \in Nat /\ MaxFaults \in Nat
  BY Types, LocalRunsAssumption DEF LInv, BoundInv, TypeOK, RunJobTypeOK
\* The coroutine: it stays live, or leaves a row that is over.
<1>1. ASSUME NEW p \in Supervisors, Executes(p) PROVE BoundInv'
  <2>1. /\ JobProgress /\ At(p, "running") /\ UNCHANGED <<sup, exits, faults>>
        /\ job.pc \in Live /\ job'.attempt = job.attempt
        /\ row.status # "ABSENT" => row'.status # "ABSENT"
    BY <1>0, <1>1, JobFacts, RowStays DEF Executes, JobStep
  <2>2. row.status # "ABSENT"
    BY <2>1 DEF BoundInv, Live, Pc
  <2>3. \A q \in Supervisors : ~ At(q, "listed") /\ ~ At(q, "listed")'
    BY <2>1 DEF LInv, SupInv, At
  <2>4. job'.pc \in Live \/ row'.status \notin {"QUEUED", "ABSENT"}
    <3>1. CASE JobRunNotFound
      BY <2>2, <3>1 DEF JobRunNotFound
    <3>2. CASE JobAnnounce
      BY <2>2, <3>2 DEF JobAnnounce, LInv, RunInv, Running
    <3>3. CASE JobHandlerKeeps
      BY <2>2, <3>3 DEF JobHandlerKeeps, Terminal, Verdicts
    <3>4. CASE JobHandlerCommit
      BY <1>0, <3>4 DEF JobHandlerCommit, HandlerStatus, RowType
    <3>5. CASE JobInitLoad \/ JobRecordLoad \/ JobFinalLoad \/ JobHandlerLoad
      BY <1>0, <3>5
      DEF JobInitLoad, JobRecordLoad, JobFinalLoad, JobHandlerLoad, LoadRow, Job, Live, Pc
    <3>6. CASE JobInitCommit \/ JobSeesStop
      BY <1>0, <3>6 DEF JobInitCommit, JobSeesStop, Job, Live, Pc
    <3>7. CASE JobSkipsStep \/ JobBeginsStep \/ JobSelectionDone \/ JobFinalCommit
      BY <1>0, <3>7
      DEF JobSkipsStep, JobBeginsStep, JobSelectionDone, JobFinalCommit, Goto, Job, Live, Pc
    <3>8. CASE JobRecordCommit
      BY <1>0, <3>8, RecordFacts DEF Live, Pc
    <3>9. ASSUME NEW o \in StepOutcome, NEW fatal \in BOOLEAN, JobExecutesStep(o, fatal)
          PROVE  job'.pc \in Live
      BY <1>0, <3>9 DEF JobExecutesStep, Job, Live, Pc
    <3> QED
      BY <2>1, <3>1, <3>2, <3>3, <3>4, <3>5, <3>6, <3>7, <3>8, <3>9 DEF JobProgress
  <2> QED
    BY <1>0, <2>1, <2>2, <2>3, <2>4 DEF BoundInv, Startable
\* The handler takes over, and the attempt goes on.
<1>2. ASSUME NEW p \in Supervisors, Breaks(p) PROVE BoundInv'
  <2>1. /\ job.pc \in Live /\ job'.pc = "handler" /\ job'.attempt = job.attempt
        /\ UNCHANGED <<row, sup, faults>> /\ exits' \in [Supervisors -> BOOLEAN]
    BY <1>2 DEF Breaks, JobFault, Forget, FreshJob, Body, BoundInv
  <2> QED
    BY <2>1 DEF BoundInv, Startable, At, Live, Pc
\* A fault ends the attempt.
<1>3. ASSUME NEW p \in Supervisors, HandlerFails(p) PROVE BoundInv'
  <2>1. /\ job.pc \in Live /\ job'.pc = "lost" /\ job'.attempt = job.attempt
        /\ UNCHANGED <<row, sup>> /\ exits' \in [Supervisors -> BOOLEAN]
        /\ faults < MaxFaults /\ faults' = faults + 1
    BY <1>3 DEF HandlerFails, Forget, FreshJob, Faulty, Live, Pc, BoundInv
  <2> QED
    BY <1>0, <2>1 DEF BoundInv, Startable, At, Live, Pc
<1>4. ASSUME NEW p \in Supervisors, Crash(p) PROVE BoundInv'
  <2>1. /\ UNCHANGED row /\ exits' \in [Supervisors -> BOOLEAN]
        /\ faults < MaxFaults /\ faults' = faults + 1
        /\ \A q \in Supervisors : At(q, "listed")' => At(q, "listed")
    BY <1>4 DEF Crash, JobCrash, jobVars, Faulty, BoundInv, LInv, SupInv, At, Moves
  <2>2. \/ /\ job.pc \in Live /\ job'.pc = "lost" /\ job'.attempt = job.attempt
        \/ job' = job
    BY <1>4 DEF Crash, JobCrash, Forget, FreshJob, jobVars
  <2> QED
    BY <1>0, <2>1, <2>2 DEF BoundInv, Startable, Live, Pc
\* Supervisors that move without the run, and list it only if it is QUEUED.
<1>5. ASSUME UNCHANGED vars, exits' \in [Supervisors -> BOOLEAN],
             faults' \in 0 .. MaxFaults, faults' >= faults,
             \A q \in Supervisors : At(q, "listed")' =>
               At(q, "listed") \/ row.status = "QUEUED"
      PROVE  BoundInv'
  BY <1>0, <1>5 DEF BoundInv, Startable, vars
<1>6. ASSUME NEW p \in Supervisors, Boot(p) \/ ZombieLoad(p) \/ Poll(p) \/ Returned(p) \/ Raised(p)
      PROVE  BoundInv'
  <2>1. /\ UNCHANGED vars /\ exits' \in [Supervisors -> BOOLEAN]
        /\ faults' \in 0 .. MaxFaults /\ faults' >= faults
    BY <1>0, <1>6 DEF Boot, ZombieLoad, Poll, Returned, Raised, BoundInv
  <2>2. \A q \in Supervisors : At(q, "listed")' => At(q, "listed") \/ row.status = "QUEUED"
    BY <1>6 DEF Boot, ZombieLoad, Poll, Returned, Raised, At, Moves, LInv, SupInv
  <2> QED
    BY <1>5, <2>1, <2>2
<1>7. ASSUME NEW p \in Supervisors, CatchLoad(p) \/ ZombieFails(p) \/ CatchFails(p)
      PROVE  BoundInv'
  <2>1. /\ UNCHANGED vars /\ exits' \in [Supervisors -> BOOLEAN]
        /\ faults' \in 0 .. MaxFaults /\ faults' >= faults
    <3>1. CASE CatchLoad(p)
      <4>1. exits \in [Supervisors -> BOOLEAN] /\ faults \in 0 .. MaxFaults
        BY DEF BoundInv
      <4>2. UNCHANGED vars /\ faults' = faults
        BY <3>1 DEF CatchLoad
      <4>3. exits' = exits \/ exits' = [exits EXCEPT ![p] = FALSE]
        BY <3>1 DEF CatchLoad, Goes
      <4>4. exits' \in [Supervisors -> BOOLEAN]
        BY <4>1, <4>3
      <4>5. faults' \in 0 .. MaxFaults /\ faults' >= faults
        BY <1>0, <4>1, <4>2
      <4> QED
        BY <4>2, <4>4, <4>5
    <3>2. CASE ZombieFails(p)
      BY <1>0, <3>2 DEF ZombieFails, Faulty, BoundInv
    <3>3. CASE CatchFails(p)
      BY <1>0, <3>3 DEF CatchFails, Faulty, Goes, BoundInv
    <3> QED
      BY <1>7, <3>1, <3>2, <3>3
  <2>2. \A q \in Supervisors : At(q, "listed")' => At(q, "listed") \/ row.status = "QUEUED"
    BY <1>7 DEF CatchLoad, ZombieFails, CatchFails, Goes, At, Moves, LInv, SupInv
  <2> QED
    BY <1>5, <2>1, <2>2
\* The row is written by somebody else.
<1>8. ASSUME UNCHANGED <<job, faults>>, exits' \in [Supervisors -> BOOLEAN],
             \A q \in Supervisors : At(q, "listed")' => At(q, "listed"),
             row.status = "ABSENT" \/ row'.status \notin {"ABSENT", "QUEUED"} \/ row' = row,
             row'.status # "ABSENT" \/ row' = row
      PROVE  BoundInv'
  BY <1>8 DEF BoundInv, Startable
<1>9. ASSUME NEW p \in Supervisors, ZombieCommit(p) \/ CatchCommit(p) PROVE BoundInv'
  <2>1. UNCHANGED <<job, faults>> /\ row'.status = "INTERRUPTED"
    BY <1>0, <1>9 DEF ZombieCommit, CatchCommit, Interrupts, RowType
  <2>2. /\ exits' \in [Supervisors -> BOOLEAN]
        /\ \A q \in Supervisors : At(q, "listed")' => At(q, "listed")
    BY <1>9 DEF ZombieCommit, CatchCommit, Goes, At, Moves, LInv, SupInv, BoundInv
  <2> QED
    BY <1>8, <2>1, <2>2
<1>10. CASE Api
  <2>1. UNCHANGED <<job, faults, exits, sup>>
    BY <1>10 DEF Api, EnqueueRun, CommitRun, CancelLoad, CancelCommit, ReapLoad, ReapCommit, jobVars
  <2>2. \/ row' = row
        \/ row.status = "ABSENT" /\ row'.status = "QUEUED"
        \/ row'.status \in {"CANCELLED", "INTERRUPTED"}
    BY <1>0, <1>10 DEF Api, EnqueueRun, CommitRun, CancelLoad, CancelCommit, ReapLoad,
       ReapCommit, jobVars, RowType, LInv, RowInv
  <2>3. exits' \in [Supervisors -> BOOLEAN] /\ \A q \in Supervisors : At(q, "listed")' => At(q, "listed")
    BY <2>1 DEF BoundInv, At
  <2> QED
    BY <1>8, <2>1, <2>2, <2>3
\* An attempt begins: it is one more than the faults at most.
<1>11. ASSUME NEW p \in Supervisors, StartRun(p) PROVE BoundInv'
  <2>1. /\ job'.pc = "starting" /\ job'.attempt = job.attempt + 1
        /\ UNCHANGED <<row, exits, faults>> /\ At(p, "listed")
    BY <1>0, <1>11 DEF StartRun, JobStarts, Job
  <2>2. job.pc \notin Live
    BY <2>1 DEF LInv, SupInv, At
  <2>3. job.attempt <= faults /\ row.status # "ABSENT"
    BY <2>1, <2>2 DEF BoundInv, Startable
  <2> QED
    BY <1>0, <2>1, <2>3 DEF BoundInv, Live, Pc
<1>12. CASE UNCHANGED localVars
  BY <1>12 DEF localVars, vars, BoundInv, Startable, At
<1> QED
  BY <1>1, <1>2, <1>3, <1>4, <1>6, <1>7, <1>9, <1>10, <1>11, <1>12
  DEF LocalNext, Loops, Fails

LEMMA BoundInit == LocalInit => BoundInv
  BY LocalRunsAssumption
  DEF LocalInit, Init, RunJobInit, FreshJob, BoundInv, Startable, At, Live

LEMMA BoundHolds == LocalSpec => [](LInv /\ BoundInv)
<1>1. LocalInit => LInv /\ BoundInv
  BY LocalInitInv, BoundInit
<1>2. LInv /\ BoundInv /\ [LocalNext]_localVars => (LInv /\ BoundInv)'
  BY LocalInvStep, BoundStep
<1> QED
  BY <1>1, <1>2, PTL DEF LocalSpec

\* The types of a run in LOCAL mode.
THEOREM LocalTypeCorrect == LocalSpec => []LocalTypeOK
<1>1. LInv /\ BoundInv => LocalTypeOK
  BY DEF LInv, SupInv, BoundInv, LocalTypeOK
<1> QED
  BY <1>1, BoundHolds, PTL

\* The model's bound on attempts takes no start from a supervisor: every
\* attempt of a run that is still to be started was ended by a fault, and an
\* attempt that ends by itself leaves a run that is never started again.
THEOREM AttemptsNeedFaults == LocalSpec => []StartsNeverCapped
<1>1. LInv /\ BoundInv => StartsNeverCapped
  <2> SUFFICES ASSUME LInv, BoundInv, NEW p \in Supervisors, At(p, "listed")
               PROVE  job.attempt <= faults /\ job.attempt < MaxAttempts
    BY DEF StartsNeverCapped
  <2>1. job.pc \notin Live
    BY DEF LInv, SupInv, At
  <2>2. job.attempt <= faults
    BY <2>1 DEF BoundInv, Startable
  <2>3. job.attempt \in Nat /\ faults \in 0 .. MaxFaults /\ MaxAttempts \in Nat
    BY Types, RunJobAssumption DEF LInv, BoundInv
  <2> QED
    BY <2>2, <2>3, LocalRunsAssumption
<1> QED
  BY <1>1, BoundHolds, PTL
=============================================================================
