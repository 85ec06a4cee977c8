---------------------------- MODULE WorkspaceCap ----------------------------
(***************************************************************************)
(* WorkspacePoolCap: the cap on concurrent MCP tool calls of one workspace *)
(* in one worker process.  Coroutines of one event loop share a counter    *)
(* guarded by an asyncio.Condition.  The Condition's lock is never held    *)
(* across an await, so whatever a coroutine does between two awaits is one *)
(* action.  Workspaces have a counter each; what they share, the           *)
(* Condition, only causes spurious wake-ups, which Awake allows for.       *)
(***************************************************************************)
EXTENDS Integers, Sequences, FiniteSets, SequencesExt

CONSTANTS
  Tasks,            \* coroutines that may call a tool of the workspace
  MaxPerWorkspace   \* SUITEST_MCP_MAX_SESSIONS_PER_WORKSPACE

ASSUME WorkspaceCapAssumption == MaxPerWorkspace \in Nat \ {0}

VARIABLES
  count,      \* _counts[workspace_id]
  inside,     \* tasks in the body of `async with reserve(...)`
  waiters,    \* tasks asleep in _cond.wait(), in the order they arrived
  woken       \* tasks notified that have not run yet, in wake-up order

capVars == <<count, inside, waiters, woken>>

CapTypeOK ==
  /\ count \in Nat
  /\ inside \subseteq Tasks
  /\ waiters \in Seq(Tasks)
  /\ woken \in Seq(Tasks)

CapInit ==
  /\ count = 0
  /\ inside = {}
  /\ waiters = <<>>
  /\ woken = <<>>

Queued == ToSet(waiters) \union ToSet(woken)
Outside(t) == t \notin inside /\ t \notin Queued

-----------------------------------------------------------------------------
Admit(t) ==
  /\ count < MaxPerWorkspace
  /\ count' = count + 1
  /\ inside' = inside \union {t}
  /\ UNCHANGED waiters

Enqueue(t) ==
  /\ count >= MaxPerWorkspace
  /\ waiters' = Append(waiters, t)
  /\ UNCHANGED <<count, inside>>

\* Mutant: the counter is not looked at again after the wait.
AwakeUnchecked ==
  /\ woken # <<>>
  /\ woken' = Tail(woken)
  /\ count' = count + 1
  /\ inside' = inside \union {Head(woken)}
  /\ UNCHANGED waiters

\* reserve(): one look at the counter.
Reserve(t) ==
  /\ Outside(t)
  /\ Admit(t) \/ Enqueue(t)
  /\ UNCHANGED woken

\* A woken task looks at the counter again, and goes back to sleep if it must.
Awake ==
  /\ woken # <<>>
  /\ Admit(Head(woken)) \/ Enqueue(Head(woken))
  /\ woken' = Tail(woken)

\* Mutant: leaving the queue gives a slot back, as leaving the body does.
GiveUpReleasing(t) ==
  /\ \E i \in DOMAIN waiters : waiters[i] = t /\ waiters' = RemoveAt(waiters, i)
  /\ count' = count - 1
  /\ UNCHANGED <<inside, woken>>

\* The queue budget is exhausted, or the coroutine is cancelled, asleep or
\* already notified: it leaves with McpPoolExhausted or CancelledError.
GiveUp(t) ==
  /\ \/ \E i \in DOMAIN waiters : /\ waiters[i] = t
                                 /\ waiters' = RemoveAt(waiters, i)
                                 /\ UNCHANGED woken
     \/ \E i \in DOMAIN woken : /\ woken[i] = t
                               /\ woken' = RemoveAt(woken, i)
                               /\ UNCHANGED waiters
  /\ UNCHANGED <<count, inside>>

\* Mutant: only one waiter is notified.
LeaveNotifyingOne(t) ==
  /\ t \in inside
  /\ inside' = inside \ {t}
  /\ count' = count - 1
  /\ IF waiters = <<>>
     THEN UNCHANGED <<waiters, woken>>
     ELSE /\ woken' = Append(woken, Head(waiters))
          /\ waiters' = Tail(waiters)

\* The body ends, normally or not: the slot is given back, everybody is woken.
Leave(t) ==
  /\ t \in inside
  /\ inside' = inside \ {t}
  /\ count' = count - 1
  /\ woken' = woken \o waiters
  /\ waiters' = <<>>

CapNext ==
  \/ \E t \in Tasks : Reserve(t) \/ GiveUp(t) \/ Leave(t)
  \/ Awake

CapSpec == CapInit /\ [][CapNext]_capVars

\* The event loop runs every ready task, and a tool call is bounded by its
\* call_timeout_seconds.
CapFairness ==
  /\ WF_capVars(Awake)
  /\ \A t \in Tasks : WF_capVars(Leave(t))

CapLiveSpec == CapSpec /\ CapFairness

-----------------------------------------------------------------------------
\* The counter says exactly how many calls are in progress, and they are never
\* more than the cap, whatever times out or is cancelled.
CapRespected ==
  /\ count = Cardinality(inside)
  /\ Cardinality(inside) <= MaxPerWorkspace

\* "no lost wakeups": a task sleeps only while the workspace is at its cap, so
\* that a later Leave will wake it.
NoLostWakeup == waiters # <<>> => count = MaxPerWorkspace

\* "Reservations queue (FIFO via asyncio.Condition) once the cap is reached": a
\* newcomer is not admitted while somebody else has been queueing.
FirstInFirstOut ==
  [][\A t \in Tasks : Reserve(t) /\ t \in inside' => Queued = {}]_capVars
=============================================================================
