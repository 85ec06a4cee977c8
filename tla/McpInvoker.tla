----------------------------- MODULE McpInvoker -----------------------------
(***************************************************************************)
(* McpInvoker.invoke: one tool call of a step, from the "mcp.tool.start"   *)
(* event to the audit row.  It composes the two layers a call passes, the  *)
(* workspace's reservation (WorkspaceCap) around the lease of a session    *)
(* (McpPool), as the worker wires them: both with the same cap.            *)
(***************************************************************************)
EXTENDS McpPool

VARIABLES
  count, inside, waiters, woken,   \* of WorkspaceCap
  phase,                           \* where invoke() is, for each task
  outcome,                         \* how the call of a task ended
  audited                          \* tasks whose last call has its audit row

Cap == INSTANCE WorkspaceCap WITH MaxPerWorkspace <- PoolCap

capVars == <<count, inside, waiters, woken>>
invokerVars == <<poolVars, capVars, phase, outcome, audited>>

Phase == {"idle", "started", "reserved", "leasing", "leaving", "recording", "ended"}

\* "answered": the tool returned, failed or timed out, which invoke() catches;
\* "error": pool exhausted, handshake failed, or the task was cancelled, which
\* it does not.
Outcomes == {"none", "answered", "error"}

InvokerTypeOK ==
  /\ PoolTypeOK
  /\ Cap!CapTypeOK
  /\ phase \in [Tasks -> Phase]
  /\ outcome \in [Tasks -> Outcomes]
  /\ audited \subseteq Tasks

InvokerInit ==
  /\ PoolInit
  /\ Cap!CapInit
  /\ phase = [t \in Tasks |-> "idle"]
  /\ outcome = [t \in Tasks |-> "none"]
  /\ audited = {}

Move(t, p) == phase' = [phase EXCEPT ![t] = p]
EndWith(t, o) == outcome' = [outcome EXCEPT ![t] = o]

-----------------------------------------------------------------------------
\* Routed, and announced by "mcp.tool.start".
Start(t) ==
  /\ phase[t] \in {"idle", "ended"}
  /\ Move(t, "started")
  /\ EndWith(t, "none")
  /\ audited' = audited \ {t}
  /\ UNCHANGED <<poolVars, capVars>>

\* _workspace_slot: the reservation, which the task may have to wait for.
AskSlot(t) ==
  /\ phase[t] = "started"
  /\ Cap!Reserve(t)
  /\ \/ t \in inside' /\ Move(t, "reserved")
     \/ t \notin inside' /\ UNCHANGED phase
  /\ UNCHANGED <<poolVars, outcome, audited>>

SlotAwake ==
  /\ Cap!Awake
  /\ \/ Head(woken) \in inside' /\ Move(Head(woken), "reserved")
     \/ Head(woken) \notin inside' /\ UNCHANGED phase
  /\ UNCHANGED <<poolVars, outcome, audited>>

\* No slot within the budget, or cancelled: invoke() raises.
SlotRefused(t) ==
  /\ Cap!GiveUp(t)
  /\ Move(t, "ended")
  /\ EndWith(t, "error")
  /\ UNCHANGED <<poolVars, audited>>

\* McpPool.acquire, inside the reservation.
Lease(t, p) ==
  /\ phase[t] = "reserved"
  /\ Begin(t, p)
  /\ Move(t, "leasing")
  /\ UNCHANGED <<capVars, outcome, audited>>

\* sess.call_tool ends: a result, McpToolFailed and McpToolTimeout are answers.
Call(t, how) ==
  /\ phase[t] = "leasing"
  /\ CallEnds(t, how)
  /\ \/ how # "cancelled" /\ EndWith(t, "answered")
     \/ how # "kept" /\ EndWith(t, "error")
  /\ UNCHANGED <<capVars, phase, audited>>

\* Mutant: the reservation covers the acquisition only, not the call.
LeaseStepsLeavingEarly(t) ==
  /\ phase[t] = "leasing"
  /\ PoolStep(t)
  /\ Move(t, IF pc'[t] \in {"out", "leased"} THEN "leaving" ELSE "leasing")
  /\ UNCHANGED <<capVars, outcome, audited>>

\* The lease's own steps.  The body of the reservation ends when it does.
LeaseSteps(t) ==
  /\ phase[t] = "leasing"
  /\ PoolStep(t)
  /\ \/ pc'[t] # "out" /\ UNCHANGED <<phase, outcome>>
     \/ /\ pc'[t] = "out"
        /\ Move(t, "leaving")
        /\ EndWith(t, IF outcome[t] = "none" THEN "error" ELSE outcome[t])
  /\ UNCHANGED <<capVars, audited>>

\* Pool exhausted, or cancelled.
LeaseAborted(t) ==
  /\ phase[t] = "leasing"
  /\ CancelStep(t)
  /\ Move(t, "leaving")
  /\ EndWith(t, "error")
  /\ UNCHANGED <<capVars, audited>>

\* Mutant: a call that ended in an error keeps its reservation.
LeaveSlotOnlyAnswered(t) ==
  /\ phase[t] = "leaving"
  /\ \/ /\ outcome[t] = "answered"
        /\ Cap!Leave(t)
        /\ Move(t, "recording")
     \/ /\ outcome[t] = "error"
        /\ Move(t, "ended")
        /\ UNCHANGED capVars
  /\ UNCHANGED <<poolVars, outcome, audited>>

LeaveSlot(t) ==
  /\ phase[t] = "leaving"
  /\ Cap!Leave(t)
  /\ Move(t, IF outcome[t] = "answered" THEN "recording" ELSE "ended")
  /\ UNCHANGED <<poolVars, outcome, audited>>

\* _finalize: "mcp.tool.end" and the audit row, unless the database fails or
\* the task is cancelled.
Finalize(t) ==
  /\ phase[t] = "recording"
  /\ Move(t, "ended")
  /\ \/ audited' = audited \union {t} /\ UNCHANGED outcome
     \/ UNCHANGED audited /\ EndWith(t, "error")
  /\ UNCHANGED <<poolVars, capVars>>

RecycleBetweenCalls ==
  Recycling /\ UNCHANGED <<capVars, phase, outcome, audited>>

-----------------------------------------------------------------------------
InvokeStep(t) ==
  \/ AskSlot(t)
  \/ \E p \in Providers : Lease(t, p)
  \/ \E how \in Endings : Call(t, how)
  \/ LeaseSteps(t) \/ LeaveSlot(t) \/ Finalize(t)

InvokerNext ==
  \/ \E t \in Tasks : Start(t) \/ InvokeStep(t) \/ SlotRefused(t) \/ LeaseAborted(t)
  \/ SlotAwake
  \/ RecycleBetweenCalls

InvokerSpec == InvokerInit /\ [][InvokerNext]_invokerVars

\* As for the two layers: ready tasks run, what is awaited outside the locks
\* has a timeout, and both queues have one.
InvokerFairness ==
  /\ \A t \in Tasks : /\ WF_invokerVars(InvokeStep(t))
                      /\ WF_invokerVars(SlotRefused(t))
                      /\ WF_invokerVars(LeaseAborted(t) /\ GiveUp(t))
  /\ WF_invokerVars(SlotAwake)
  /\ WF_invokerVars(RecycleBetweenCalls)

InvokerLiveSpec == InvokerSpec /\ InvokerFairness

-----------------------------------------------------------------------------
\* The calls that use the pool at all are as many as the reservations, so the
\* ceiling holds across providers, and across the pools that were recycled
\* under a running call, which the pool itself no longer counts.
ConcurrencyCapped ==
  /\ {t \in Tasks : pc[t] # "out"} \subseteq inside
  /\ Cardinality({t \in Tasks : held[t] # "none"}) <= PoolCap

\* Every call ends, whatever it meets on the way, and leaves nothing reserved.
InvocationEnds ==
  \A t \in Tasks : phase[t] = "started" ~> phase[t] = "ended" /\ t \notin inside

\* "Per-workspace ceiling on concurrent MCP sessions across all providers": the
\* sessions that are up and not being closed are at most the cap.
SessionCeiling ==
  Cardinality({s \in open : \A t \in Tasks : held[t] = s => pc[t] # "closing"}) <= PoolCap

\* "every call appends one row via write_audit".
EveryCallAudited == \A t \in Tasks : phase[t] = "ended" => t \in audited
=============================================================================
