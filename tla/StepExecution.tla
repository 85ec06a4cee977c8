---------------------------- MODULE StepExecution ----------------------------
(***************************************************************************)
(* The execution of one test step by the runner: execute_step and the      *)
(* wrapper that heals and retries it, written as the stack of coroutine    *)
(* frames the code builds.  A tool frame is one activation of              *)
(* _invoke_tool, a solve frame one of _handle_solve_captcha_operation.     *)
(* Every MCP call ends in an outcome chosen by the environment; a frame    *)
(* hands its own result to the frame below it in `ret`.                    *)
(*                                                                         *)
(* Arguments, selectors and scripts are abstracted to what the control     *)
(* depends on: the kind of tool, whether it hints at a captcha (its target *)
(* or description says so, or its click submits a form), whether its       *)
(* selector already carries an nth index, and whether the captcha found    *)
(* has a refresh target, which is mostly the captcha image and hints at a  *)
(* captcha itself.                                                         *)
(***************************************************************************)
EXTENDS Integers, Sequences, SequencesExt

CONSTANTS
  Ops,            \* the kinds of tool a step may call
  MaxRetries,     \* max_retries of an explicit solve step
  Polls,          \* DOM polls of the healer, option polls of a select
  Asserts,        \* how many assertions a step may carry
  MaxDepth        \* frames on the stack before the interpreter's recursion limit

ASSUME StepAssumption ==
  /\ Ops \subseteq {"click", "type", "select", "navigate", "check", "solve",
                    "single", "other", "fakepath"}
  /\ MaxRetries \in Nat /\ Polls \in Nat \ {0} /\ Asserts \subseteq Nat
  /\ MaxDepth \in Nat

VARIABLES
  setup,       \* what the step, the page and the workspace are
  stack,       \* frames, the innermost last
  ret,         \* what the innermost finished frame returned or raised
  stage,       \* where the step itself is
  attempt,     \* 1, and 2 for the retry after a repair
  checked,     \* assertions that passed in this attempt
  value,       \* how the main tool of this attempt succeeded
  outcome,     \* StepResult of the last attempt
  kept,        \* the step's code in the test case: "own", "repaired", "solve"
  inserted,    \* the test case has a solve step that healing inserted
  report,      \* self_heal_state: [kind, persisted]
  acted,       \* times the step's own operation succeeded in this attempt
  poked,       \* the healer's poll dispatched a click on the step's target
  timedOut,    \* a call of the step's own operation timed out in this attempt
  found,       \* captchas that interceptions found in this attempt
  solves       \* calls of the vision solver in this attempt

vars == <<setup, stack, ret, stage, attempt, checked, value, outcome, kept, inserted,
          report, acted, poked, timedOut, found, solves>>
ghosts == <<acted, poked, timedOut, found, solves>>
healing == <<kept, inserted, report>>
stepVars == <<setup, stage, attempt, checked, value, outcome, healing>>

----------------------------------------------------------------------------
\* How a call ends.  A McpToolFailed is told apart by its text.
Failed == {"strict", "hint", "intercept", "infra", "other"}
CallOutcome == {"ok", "timeout", "crash"} \cup Failed
Healable == {"hint", "intercept"}

NoRet == "none"
\* The ways in which _invoke_tool returns.
Returned == {"ok", "captcha", "injected", "synthetic", "overlay", "modal"}

\* max_retries of the solve a captcha interception starts.
InterceptRetries == 3

\* StepResult.outcome of an exception; "FATAL" is an ERROR with is_fatal_infra.
OutcomeOf(exc) == IF exc \in {"timeout", "crash", "infra"} THEN "FATAL" ELSE "FAIL"

\* Where an activation of _invoke_tool may be, and one of the solver's loop.
ToolPositions ==
  {"start", "options", "direct", "main", "snapshot", "preflight", "detect",
   "solving", "submit", "nth0", "poll", "toggle", "settle", "toggleNth"}
SolvePositions == {"snap", "typing", "refreshing"}

Frame == [fn : {"tool", "solve"}, op : Ops \cup {"click", "type", "other"},
          hint : BOOLEAN, nth : BOOLEAN, solver : BOOLEAN,
          pc : ToolPositions \cup SolvePositions, n : Nat, max : Nat,
          exc : {NoRet} \cup Failed]

ToolFrame(op, hint, nth, solver) ==
  [fn |-> "tool", op |-> op, hint |-> hint, nth |-> nth,
   solver |-> solver, pc |-> "start", n |-> 0, max |-> 0, exc |-> NoRet]

SolveFrame(f, max) ==
  [f EXCEPT !.fn = "solve", !.pc = "snap", !.n = 0,
            !.max = IF max < 1 THEN 1 ELSE max]

Top == Last(stack)
Running(fn, pc) == stack # <<>> /\ ret = NoRet /\ Top.fn = fn /\ Top.pc = pc
Resuming(fn, pc) == stack # <<>> /\ ret # NoRet /\ Top.fn = fn /\ Top.pc = pc

Goto(f) == stack' = Append(Front(stack), f) /\ ret' = NoRet
Jump(pc) == Goto([Top EXCEPT !.pc = pc])
Return(r) == stack' = Front(stack) /\ ret' = r
\* A call awaits a new frame; at the recursion limit it raises RecursionError.
Call(pc, f) ==
  IF Len(stack) < MaxDepth
  THEN stack' = Front(stack) \o <<[Top EXCEPT !.pc = pc], f>> /\ ret' = NoRet
  ELSE stack' = Append(Front(stack), [Top EXCEPT !.pc = pc]) /\ ret' = "crash"

\* The frame on top is the step's own tool, not a helper's or an assertion's.
Own == Len(stack) = 1 /\ stage = "tool"

\* A call of the frame's operation on its target ended with o.
Did(o) ==
  /\ acted' = IF Own /\ o = "ok" THEN acted + 1 ELSE acted
  /\ timedOut' = (timedOut \/ (Own /\ o = "timeout"))
  /\ UNCHANGED <<poked, found, solves>>

Quiet == UNCHANGED <<stepVars, ghosts>>

----------------------------------------------------------------------------
\* _invoke_tool: where an activation goes first.
Detects(f) == f.solver /\ f.hint

StartTool ==
  /\ Running("tool", "start")
  /\ CASE Top.op = "fakepath" -> Return("ok")
       [] Top.op = "solve" ->
            IF Top.solver THEN Goto(SolveFrame(Top, MaxRetries))
                          ELSE Return("other")
       [] Top.op \in {"click", "type"} ->
            Jump(IF Detects(Top) THEN "detect" ELSE "main")
       [] Top.op = "select" -> Goto([Top EXCEPT !.pc = "options", !.n = Polls])
       [] Top.op = "navigate" -> Jump("preflight")
       [] Top.op = "check" -> Jump("snapshot")
       [] Top.op = "single" -> Jump("direct")
       [] Top.op = "other" -> Jump("main")
  /\ Quiet

\* A select waits for its option, then is invoked whether or not it appeared.
PollOption ==
  /\ Running("tool", "options")
  /\ \E shown \in BOOLEAN :
       IF shown \/ Top.n = 1 THEN Jump("direct")
                             ELSE Goto([Top EXCEPT !.n = @ - 1])
  /\ Quiet

\* Selects, uploads and operations inside a frame: one call, not healed.
InvokeDirect ==
  /\ Running("tool", "direct")
  /\ \E o \in CallOutcome : Return(o) /\ Did(o)
  /\ UNCHANGED stepVars

\* A navigation whose host refuses the TCP probe never reaches the browser.
Preflight ==
  /\ Running("tool", "preflight")
  /\ \E reachable \in BOOLEAN :
       IF reachable THEN Jump("main") ELSE Return("infra")
  /\ Quiet

\* browser.assert_text: a snapshot, and the text looked up in it.
AssertText ==
  /\ Running("tool", "snapshot")
  /\ \E o \in CallOutcome, contains \in BOOLEAN :
       /\ Return(IF o = "ok" /\ ~contains THEN "other" ELSE o)
       /\ Did(IF o = "ok" /\ ~contains THEN "other" ELSE o)
  /\ UNCHANGED stepVars

----------------------------------------------------------------------------
\* Captcha interception.  Whatever it raises is logged and the plain
\* operation follows.
Detect ==
  /\ Running("tool", "detect")
  /\ \E o \in CallOutcome, captcha \in BOOLEAN :
       IF o = "ok" /\ captcha
       THEN Call("solving", SolveFrame(Top, InterceptRetries)) /\ found' = found + 1
       ELSE Jump("main") /\ UNCHANGED found
  /\ UNCHANGED <<stepVars, acted, poked, timedOut, solves>>

Solved ==
  /\ Resuming("tool", "solving")
  /\ CASE ret \notin Returned -> Jump("main")
       [] ret \in Returned /\ Top.op = "type" -> Return("captcha")
       [] ret \in Returned /\ Top.op = "click" -> Jump("submit")
  /\ Quiet

\* Mutant: the interception does not return after its click.
SubmitWithoutReturn ==
  /\ Running("tool", "submit")
  /\ \E o \in CallOutcome : Jump("main") /\ Did(o)
  /\ UNCHANGED stepVars

SubmitAfterSolve ==
  /\ Running("tool", "submit")
  /\ \E o \in CallOutcome :
       /\ IF o = "ok" THEN Return("injected") ELSE Jump("main")
       /\ Did(o)
  /\ UNCHANGED stepVars

----------------------------------------------------------------------------
\* The operation itself, its nth=0 retry and the healer it falls back to.
Heal(f, exc) == Goto([f EXCEPT !.pc = "poll", !.n = Polls, !.exc = exc])

InvokeMain ==
  /\ Running("tool", "main")
  /\ \E o \in CallOutcome :
       /\ Did(o)
       /\ CASE o = "strict" /\ ~Top.nth -> Goto([Top EXCEPT !.pc = "nth0", !.nth = TRUE])
            [] o \in Healable /\ Top.op \in {"click", "type"} -> Heal(Top, o)
            [] OTHER -> Return(o)
  /\ UNCHANGED stepVars

InvokeNth0 ==
  /\ Running("tool", "nth0")
  /\ \E o \in CallOutcome :
       /\ Did(o)
       /\ IF o \in Failed THEN Heal(Top, o) ELSE Return(o)
  /\ UNCHANGED stepVars

\* One DOM poll.  The script that looks for the element also dispatches a
\* click on it; a poll that fails counts as one that found nothing.
PollDom ==
  /\ Running("tool", "poll")
  /\ \/ /\ \E toggle \in BOOLEAN : Jump(IF toggle THEN "toggle" ELSE "settle")
        /\ poked' = (poked \/ Own)
        /\ UNCHANGED <<acted, timedOut, found, solves>>
     \/ /\ IF Top.n > 1 THEN Goto([Top EXCEPT !.n = @ - 1]) ELSE Return(Top.exc)
        /\ UNCHANGED ghosts
  /\ UNCHANGED stepVars

\* The collapsed parent is opened by two calls whose outcomes are ignored;
\* the operation is then tried again.
RetryAfterToggle ==
  /\ Running("tool", "toggle")
  /\ \E o \in CallOutcome :
       /\ Did(o)
       /\ CASE o = "strict" /\ ~Top.nth -> Goto([Top EXCEPT !.pc = "toggleNth", !.nth = TRUE])
            [] o = "intercept" -> Return("overlay")
            [] OTHER -> Return(o)
  /\ UNCHANGED stepVars

RetryToggleNth0 ==
  /\ Running("tool", "toggleNth")
  /\ \E o \in CallOutcome :
       /\ Did(o)
       /\ Return(IF o = "intercept" THEN "modal" ELSE o)
  /\ UNCHANGED stepVars

\* Mutant: a retry that fails starts the operation over.
RetryFromStart ==
  /\ Running("tool", "settle")
  /\ \E o \in CallOutcome :
       /\ Did(o)
       /\ IF o = "ok" THEN Return("ok") ELSE Jump("main")
  /\ UNCHANGED stepVars

\* No collapsed parent: the operation again, and any exception of it leaves
\* the click the poll dispatched as the result.
RetryAfterSettle ==
  /\ Running("tool", "settle")
  /\ \E o \in CallOutcome, dispatched \in BOOLEAN :
       /\ Did(o)
       /\ CASE o = "ok" -> Return("ok")
            [] o # "ok" /\ dispatched -> Return("synthetic")
            [] o # "ok" /\ ~dispatched -> Return(Top.exc)
  /\ UNCHANGED stepVars

----------------------------------------------------------------------------
\* Mutant: one attempt too many.
AttemptFailedLate(raise) ==
  IF Top.n < Top.max
  THEN IF setup.refresh # "no"
       THEN Call("refreshing",
                 ToolFrame("click", setup.refresh = "captcha", FALSE, Top.solver))
       ELSE Goto([Top EXCEPT !.n = @ + 1])
  ELSE Return(raise)

\* One attempt to read the captcha: a screenshot, the local OCR, else the
\* vision solver.  A failure or an empty text refreshes the image and tries
\* again while attempts are left; the refresh is a click like any other, with
\* an interception and a solve of its own if its target hints at a captcha.
AttemptFailed(raise) ==
  IF Top.n < Top.max - 1
  THEN IF setup.refresh # "no"
       THEN Call("refreshing",
                 ToolFrame("click", setup.refresh = "captcha", FALSE, Top.solver))
       ELSE Goto([Top EXCEPT !.n = @ + 1])
  ELSE Return(raise)

SolveAttempt ==
  /\ Running("solve", "snap")
  /\ \/ \E o \in CallOutcome \ {"ok"} :
          /\ AttemptFailed(IF o \in Failed THEN o ELSE "other")
          /\ UNCHANGED solves
     \/ /\ Call("typing", ToolFrame("type", FALSE, FALSE, Top.solver))
        /\ solves' \in {solves, solves + 1}
     \/ /\ AttemptFailed("other")
        /\ solves' = solves + 1
  /\ UNCHANGED <<stepVars, acted, poked, timedOut, found>>

\* The refresh click: its result and its exceptions are both dropped.
Refreshed ==
  /\ Resuming("solve", "refreshing")
  /\ Goto([Top EXCEPT !.pc = "snap", !.n = @ + 1])
  /\ Quiet

Typed ==
  /\ Resuming("solve", "typing")
  /\ Return(IF ret \in Returned THEN "ok" ELSE ret)
  /\ Quiet

----------------------------------------------------------------------------
\* execute_step
ParseOrTranslate ==
  /\ stage = "parse"
  /\ \/ /\ stage' = "tool"
        /\ stack' = <<ToolFrame(setup.op, setup.hint, setup.nth, setup.solver)>>
        /\ UNCHANGED outcome
     \/ /\ \E r \in IF setup.prose THEN {"SKIP", "ERROR", "FAIL"} ELSE {"ERROR", "FAIL"} :
             outcome' = r
        /\ stage' = "ended"
        /\ UNCHANGED stack
  /\ UNCHANGED <<setup, ret, attempt, checked, value, healing, ghosts>>

RunAssertion ==
  /\ stack' = <<ToolFrame("other", FALSE, FALSE, FALSE)>>
  /\ stage' = "assert"
  /\ UNCHANGED outcome

Finish(r) ==
  /\ outcome' = r
  /\ stage' = "ended"
  /\ UNCHANGED stack

\* Mutant: the step passes when its tool returns, assertions unread.
ToolReturnedPasses ==
  /\ stage = "tool" /\ stack = <<>> /\ ret # NoRet
  /\ Finish(IF ret \in Returned THEN "PASS" ELSE OutcomeOf(ret))
  /\ value' = ret
  /\ ret' = NoRet
  /\ UNCHANGED <<setup, attempt, checked, healing, ghosts>>

ToolReturned ==
  /\ stage = "tool" /\ stack = <<>> /\ ret # NoRet
  /\ CASE ret \notin Returned -> Finish(OutcomeOf(ret))
       [] ret \in Returned /\ setup.asserts = 0 -> Finish("PASS")
       [] ret \in Returned /\ setup.asserts > 0 -> RunAssertion
  /\ value' = ret
  /\ ret' = NoRet
  /\ UNCHANGED <<setup, attempt, checked, healing, ghosts>>

AssertionReturned ==
  /\ stage = "assert" /\ stack = <<>> /\ ret # NoRet
  /\ checked' = IF ret \in Returned THEN checked + 1 ELSE checked
  /\ CASE ret \notin Returned -> Finish(OutcomeOf(ret))
       [] ret \in Returned /\ checked' = setup.asserts -> Finish("PASS")
       [] ret \in Returned /\ checked' < setup.asserts -> RunAssertion
  /\ ret' = NoRet
  /\ UNCHANGED <<setup, attempt, value, healing, ghosts>>

----------------------------------------------------------------------------
\* _execute_and_heal_step.  A proposal exists only for a step that has code
\* of its own, and only if the failure reads as a changed selector and the
\* repair service produces one.  The repaired code replaces the step's in memory.
RetryRepaired ==
  /\ stage = "ended" /\ setup.autoHeal /\ outcome = "FAIL" /\ attempt = 1
  /\ ~setup.prose
  /\ attempt' = 2
  /\ stage' = "parse"
  /\ checked' = 0 /\ value' = NoRet
  /\ acted' = 0 /\ poked' = FALSE /\ timedOut' = FALSE /\ found' = 0 /\ solves' = 0

\* Mutant: the staged repair is flushed with the session that loaded the step.
ProposeRepairFlushed ==
  /\ RetryRepaired
  /\ kept' = "repaired"
  /\ UNCHANGED <<setup, stack, ret, outcome, inserted, report>>

ProposeRepair == RetryRepaired /\ UNCHANGED <<setup, stack, ret, outcome, healing>>

\* A write-back commits or not; its failure is logged, and one that comes after
\* the commit is reported as if nothing had been written.
Persist(kind, committed) ==
  \E told \in BOOLEAN :
    /\ told => committed
    /\ report' = [kind |-> kind, persisted |-> told]

\* _persist_auto_self_heal: only a retry that passed writes the repair.
PersistRepair ==
  /\ stage = "ended" /\ stage' = "retried"
  /\ \/ attempt = 1 /\ UNCHANGED healing
     \/ /\ attempt = 2
        /\ \E committed \in {FALSE, outcome = "PASS"} :
             /\ Persist("repair", committed)
             /\ kept' = IF committed THEN "repaired" ELSE kept
        /\ UNCHANGED inserted
  /\ UNCHANGED <<setup, stack, ret, attempt, checked, value, outcome, ghosts>>

\* _persist_captcha_self_heal, _inject_pre_submit_captcha_step: what the step
\* found of a captcha on its way to a pass.  Its report replaces the repair's.
PersistCaptcha ==
  /\ stage = "retried" /\ stage' = "done"
  /\ IF setup.autoHeal /\ outcome = "PASS" /\ value \in {"captcha", "injected"}
     THEN \E committed \in BOOLEAN :
            /\ Persist(value, committed)
            /\ kept' = IF committed /\ value = "captcha" THEN "solve" ELSE kept
            /\ inserted' = (committed /\ value = "injected")
     ELSE UNCHANGED healing
  /\ UNCHANGED <<setup, stack, ret, attempt, checked, value, outcome, ghosts>>

Done == stage = "done" /\ UNCHANGED vars

----------------------------------------------------------------------------
Setups ==
  [op : Ops, hint : BOOLEAN, nth : BOOLEAN, solver : BOOLEAN,
   refresh : {"no", "plain", "captcha"}, prose : BOOLEAN,
   autoHeal : BOOLEAN, asserts : Asserts]

Init ==
  /\ setup \in {s \in Setups :
       /\ s.hint => s.op \in {"click", "type"}
       /\ s.refresh # "no" => s.solver
       /\ s.nth => s.op \in {"click", "type", "other"}}
  /\ stack = <<>> /\ ret = NoRet /\ stage = "parse" /\ attempt = 1
  /\ checked = 0 /\ value = NoRet /\ outcome = "none"
  /\ kept = "own" /\ inserted = FALSE /\ report = [kind |-> "none", persisted |-> FALSE]
  /\ acted = 0 /\ poked = FALSE /\ timedOut = FALSE /\ found = 0 /\ solves = 0

Coroutine ==
  \/ StartTool \/ PollOption \/ InvokeDirect \/ Preflight \/ AssertText
  \/ Detect \/ Solved \/ SubmitAfterSolve
  \/ InvokeMain \/ InvokeNth0 \/ PollDom \/ RetryAfterToggle
  \/ RetryToggleNth0 \/ RetryAfterSettle
  \/ SolveAttempt \/ Refreshed \/ Typed
  \/ ParseOrTranslate \/ ToolReturned \/ AssertionReturned
  \/ ProposeRepair \/ PersistRepair \/ PersistCaptcha

Next == Coroutine \/ Done
Spec == Init /\ [][Next]_vars
\* Every MCP call returns or times out, so the coroutine is always resumed.
LiveSpec == Spec /\ WF_vars(Coroutine)

----------------------------------------------------------------------------
\* Types of the variables; the stack holds frames only while a tool runs.
StepTypeOK ==
  /\ setup \in Setups
  /\ \A i \in DOMAIN stack : stack[i] \in Frame
  /\ ret \in {NoRet} \cup Returned \cup CallOutcome
  /\ stage \in {"parse", "tool", "assert", "ended", "retried", "done"}
  /\ attempt \in 1..2 /\ checked \in 0..setup.asserts
  /\ value \in {NoRet} \cup Returned \cup CallOutcome
  /\ outcome \in {"none", "PASS", "FAIL", "SKIP", "ERROR", "FATAL"}
  /\ kept \in {"own", "repaired", "solve"} /\ inserted \in BOOLEAN
  /\ report \in [kind : {"none", "repair", "captcha", "injected"}, persisted : BOOLEAN]
  /\ acted \in Nat /\ found \in Nat /\ solves \in Nat /\ poked \in BOOLEAN /\ timedOut \in BOOLEAN
  /\ stage \notin {"tool", "assert"} => stack = <<>>

\* The step's own operation took effect in this attempt, in one of the ways
\* the code counts as success (it was called and succeeded, the captcha was
\* typed by the solver, the healer clicked or an overlay answered, a fake path
\* needs no call), and every assertion passed.
Earned ==
  /\ checked = setup.asserts
  /\ \/ acted > 0 \/ poked
     \/ value = "captcha"
     \/ setup.op \in {"solve", "fakepath"}

\* A step passes only if its own operation took effect, and its assertions
\* passed, in that same attempt.
PassIsEarned ==
  outcome = "PASS" /\ stage \in {"ended", "retried", "done"} => Earned

\* The operation of a step is not repeated once a call of it succeeded in
\* the attempt: neither the interception, the nth=0 retry nor the healer
\* goes on after a success.
ActsOnce == acted <= 1

\* Vision calls of an explicit solve step, whatever its refreshes find.
OwnRetries == IF setup.op # "solve" THEN 0 ELSE IF MaxRetries < 1 THEN 1 ELSE MaxRetries

\* Every captcha costs the workspace at most the configured number of vision
\* calls, however the solves nest: an explicit solve step max_retries, and each
\* captcha that an interception finds three, where a refresh click whose target
\* hints at a captcha is intercepted in the middle of another solve.  How many
\* are found in a step only the recursion limit bounds (FlatSolverBudget).
SolverBudget == solves <= OwnRetries + InterceptRetries * found

\* At every moment, so also wherever the worker dies: the test case keeps code
\* that healing wrote only if the attempt that passed earned it, a repair only
\* from the attempt that ran it, a solve step only where the solver typed or a
\* click followed it; and what is reported as persisted is what the case keeps,
\* though the repair and the captcha are written one after the other and either
\* write may fail.
HealingIsProved ==
  /\ kept # "own" \/ inserted => outcome = "PASS" /\ Earned
  /\ kept = "repaired" => attempt = 2
  /\ kept = "solve" => value = "captcha"
  /\ inserted => value = "injected" /\ acted > 0
  /\ report.persisted => CASE report.kind = "repair" -> kept = "repaired"
                           [] report.kind = "captcha" -> kept = "solve"
                           [] report.kind = "injected" -> inserted

\* Whatever the calls return, the step's execution ends with an outcome.
StepEnds == <>(stage = "done")

\* The argument max_retries read as a bound on the whole step: the solver is
\* called that often, or three times for an interception.
FlatSolverBudget ==
  solves <= IF setup.op = "solve" THEN OwnRetries ELSE InterceptRetries

\* Whatever was persisted is reported.
PersistedIsReported ==
  stage = "done" /\ (kept # "own" \/ inserted) => report.persisted

\* The docstring of execute_step: a tool call that raises McpToolTimeout
\* makes the step an ERROR.  The interception and the healer swallow it.
TimeoutIsError ==
  stage = "done" /\ timedOut => outcome = "FATAL"

\* The comment before the last resort of the healer calls the dispatched
\* click a fallback: it is not made when the operation itself succeeds.
SyntheticIsFallback == ~(poked /\ acted > 0)
=============================================================================
