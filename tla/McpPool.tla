------------------------------- MODULE McpPool -------------------------------
(***************************************************************************)
(* McpPool: the MCP sessions one worker process keeps for the providers of *)
(* a workspace, and the coroutines (tasks) that lease them.                *)
(*                                                                         *)
(* A provider's pool is the pair <<provider, generation>>: recycling a     *)
(* provider drops its pool from the registry, and the next acquire makes a *)
(* new one, while tasks may still hold sessions of the old one.            *)
(*                                                                         *)
(* All tasks run in one event loop, so what happens between two awaits is  *)
(* one action.  A pool's Condition lock is held across an await only while *)
(* a stale session is cleaned up; elsewhere it is free or waited for.      *)
(***************************************************************************)
EXTENDS Integers, Sequences, FiniteSets, SequencesExt, FiniteSetsExt

CONSTANTS
  Tasks,         \* coroutines that call tools
  Providers,     \* MCP providers of the workspace
  Sessions,      \* names for sessions; those not open can be reused
  MaxSessions,   \* provider.max_sessions
  PoolCap,       \* _workspace_cap
  MaxRecycles    \* bound: how often a provider is recycled

ASSUME McpPoolAssumption ==
  /\ IsFiniteSet(Tasks)
  /\ MaxSessions \in Nat \ {0}
  /\ PoolCap \in Nat \ {0}
  /\ MaxRecycles \in Nat
  /\ "none" \notin Tasks \union Sessions

VARIABLES
  generation,    \* the pool of p in _pools is <<p, generation[p]>>
  retiring,      \* pools popped by recycle_provider, not yet shut down
  idle,          \* idle[q]: the deque of q, newest at the right
  live,          \* live[q]
  lock,          \* lock[q]: the task that holds it across an await, or "none"
  sleeping,      \* sleeping[q]: tasks in cond.wait(), oldest first
  pc,            \* where a task is
  at,            \* the pool a task is using
  held,          \* the session a task has in its hands, or "none"
  destroy,       \* `recycle` of a task that is returning its session
  open,          \* sessions whose transport is up
  dirty          \* open sessions with a call that nobody awaits any more

poolVars == <<generation, retiring, idle, live, lock, sleeping,
              pc, at, held, destroy, open, dirty>>

Pools == Providers \X (0 .. MaxRecycles)
Current(p) == <<p, generation[p]>>

\* A task is polling for the workspace cap, blocked on the pool's lock, asleep
\* in cond.wait() or notified (woken), cleaning up a stale session (draining),
\* opening one, calling a tool (leased), giving the session back (returning) or
\* a slot back (unreserving), or cleaning up a session it has given up.
Pc == {"out", "polling", "blocked", "asleep", "woken", "draining", "spawning",
       "unreserving", "leased", "returning", "closing"}

PoolTypeOK ==
  /\ generation \in [Providers -> 0 .. MaxRecycles]
  /\ retiring \subseteq Pools
  /\ idle \in [Pools -> Seq(Sessions)]
  /\ live \in [Pools -> Nat]
  /\ lock \in [Pools -> Tasks \union {"none"}]
  /\ sleeping \in [Pools -> Seq(Tasks)]
  /\ pc \in [Tasks -> Pc]
  /\ at \in [Tasks -> Pools]
  /\ held \in [Tasks -> Sessions \union {"none"}]
  /\ destroy \in [Tasks -> BOOLEAN]
  /\ open \subseteq Sessions
  /\ dirty \subseteq open

PoolInit ==
  /\ generation = [p \in Providers |-> 0]
  /\ retiring = {}
  /\ idle = [q \in Pools |-> <<>>]
  /\ live = [q \in Pools |-> 0]
  /\ lock = [q \in Pools |-> "none"]
  /\ sleeping = [q \in Pools |-> <<>>]
  /\ pc = [t \in Tasks |-> "out"]
  /\ at \in [Tasks -> {<<p, 0>> : p \in Providers}]
  /\ held = [t \in Tasks |-> "none"]
  /\ destroy = [t \in Tasks |-> FALSE]
  /\ open = {}
  /\ dirty = {}

\* _workspace_live: only the pools in the registry count.
WorkspaceLive == MapThenSumSet(LAMBDA p : live[Current(p)], Providers)

Free(q) == lock[q] = "none"

-----------------------------------------------------------------------------
\* _ProviderPool.acquire: one turn of its loop, with the lock

\* The newest idle session has not outlived its TTL.
TakeFresh(t, q) ==
  /\ idle[q] # <<>>
  /\ held' = [held EXCEPT ![t] = Last(idle[q])]
  /\ idle' = [idle EXCEPT ![q] = Front(@)]
  /\ pc' = [pc EXCEPT ![t] = "leased"]
  /\ UNCHANGED <<live, lock, sleeping>>

\* It has: it is cleaned up, with the lock held.
TakeStale(t, q) ==
  /\ idle[q] # <<>>
  /\ held' = [held EXCEPT ![t] = Last(idle[q])]
  /\ idle' = [idle EXCEPT ![q] = Front(@)]
  /\ lock' = [lock EXCEPT ![q] = t]
  /\ pc' = [pc EXCEPT ![t] = "draining"]
  /\ UNCHANGED <<live, sleeping>>

\* Mutant: one session too many.
TakeSlotOffByOne(t, q) ==
  /\ idle[q] = <<>>
  /\ live[q] <= MaxSessions
  /\ live' = [live EXCEPT ![q] = @ + 1]
  /\ pc' = [pc EXCEPT ![t] = "spawning"]
  /\ UNCHANGED <<idle, lock, sleeping, held>>

TakeSlot(t, q) ==
  /\ idle[q] = <<>>
  /\ live[q] < MaxSessions
  /\ live' = [live EXCEPT ![q] = @ + 1]
  /\ pc' = [pc EXCEPT ![t] = "spawning"]
  /\ UNCHANGED <<idle, lock, sleeping, held>>

Sleep(t, q) ==
  /\ idle[q] = <<>>
  /\ live[q] >= MaxSessions
  /\ sleeping' = [sleeping EXCEPT ![q] = Append(@, t)]
  /\ pc' = [pc EXCEPT ![t] = "asleep"]
  /\ UNCHANGED <<idle, live, lock, held>>

Look(t, q) ==
  /\ Free(q)
  /\ TakeFresh(t, q) \/ TakeStale(t, q) \/ TakeSlot(t, q) \/ Sleep(t, q)
  /\ UNCHANGED <<generation, retiring, destroy, open, dirty>>

\* No await between the workspace check and the first turn unless the lock is
\* taken.
Enter(t, q) ==
  \/ Look(t, q)
  \/ /\ ~ Free(q)
     /\ pc' = [pc EXCEPT ![t] = "blocked"]
     /\ UNCHANGED <<generation, retiring, idle, live, lock, sleeping, held,
                    destroy, open, dirty>>

-----------------------------------------------------------------------------
\* McpPool.acquire

Begin(t, p) ==
  /\ pc[t] = "out"
  /\ at' = [at EXCEPT ![t] = Current(p)]
  /\ \/ /\ WorkspaceLive < PoolCap
        /\ Enter(t, Current(p))
     \/ /\ WorkspaceLive >= PoolCap
        /\ pc' = [pc EXCEPT ![t] = "polling"]
        /\ UNCHANGED <<generation, retiring, idle, live, lock, sleeping, held,
                       destroy, open, dirty>>

Poll(t) ==
  /\ pc[t] = "polling"
  /\ WorkspaceLive < PoolCap
  /\ Enter(t, at[t])
  /\ UNCHANGED at

\* A task that got the lock, after waiting for it or after being notified.
Resume(t) ==
  /\ pc[t] \in {"blocked", "woken"}
  /\ Look(t, at[t])
  /\ UNCHANGED at

\* cond.notify(): the oldest sleeper is made ready to run.
Notified(pcs, q) ==
  IF sleeping[q] = <<>> THEN pcs ELSE [pcs EXCEPT ![Head(sleeping[q])] = "woken"]

NotifyOne(q) ==
  sleeping' = IF sleeping[q] = <<>> THEN sleeping
              ELSE [sleeping EXCEPT ![q] = Tail(@)]

NotifyAll(pcs, q) ==
  [t \in Tasks |-> IF t \in ToSet(sleeping[q]) THEN "woken" ELSE pcs[t]]

\* A stale session is gone.  The other idle ones are older, hence stale too;
\* after the last one the slot it had is taken for a new session.
DrainNext(t) ==
  LET q == at[t] IN
  /\ pc[t] = "draining"
  /\ open' = open \ {held[t]}
  /\ dirty' = dirty \ {held[t]}
  /\ NotifyOne(q)
  /\ \/ /\ idle[q] # <<>>
        /\ held' = [held EXCEPT ![t] = Last(idle[q])]
        /\ idle' = [idle EXCEPT ![q] = Front(@)]
        /\ live' = [live EXCEPT ![q] = @ - 1]
        /\ pc' = Notified(pc, q)
        /\ UNCHANGED lock
     \/ /\ idle[q] = <<>>
        /\ held' = [held EXCEPT ![t] = "none"]
        /\ lock' = [lock EXCEPT ![q] = "none"]
        /\ pc' = Notified([pc EXCEPT ![t] = "spawning"], q)
        /\ UNCHANGED <<idle, live>>
  /\ UNCHANGED <<generation, retiring, at, destroy>>

-----------------------------------------------------------------------------
\* open_session, the tool call, and release

Spawned(t) ==
  /\ pc[t] = "spawning"
  /\ \E s \in Sessions \ open :
       /\ open' = open \union {s}
       /\ held' = [held EXCEPT ![t] = s]
  /\ pc' = [pc EXCEPT ![t] = "leased"]
  /\ UNCHANGED <<generation, retiring, idle, live, lock, sleeping, at, destroy, dirty>>

SpawnFails(t) ==
  /\ pc[t] = "spawning"
  /\ pc' = [pc EXCEPT ![t] = "unreserving"]
  /\ UNCHANGED <<generation, retiring, idle, live, lock, sleeping, at, held,
                 destroy, open, dirty>>

Unreserve(t) ==
  LET q == at[t] IN
  /\ pc[t] = "unreserving"
  /\ Free(q)
  /\ live' = [live EXCEPT ![q] = @ - 1]
  /\ pc' = NotifyAll([pc EXCEPT ![t] = "out"], q)
  /\ sleeping' = [sleeping EXCEPT ![q] = <<>>]
  /\ UNCHANGED <<generation, retiring, idle, lock, at, held, destroy, open, dirty>>

\* The body of the lease ends: normally or with McpToolFailed ("kept"), with
\* another Exception ("raised"), or with CancelledError, which is no Exception.
CallEnds(t, how) ==
  /\ pc[t] = "leased"
  /\ pc' = [pc EXCEPT ![t] = "returning"]
  /\ destroy' = [destroy EXCEPT ![t] = (how = "raised")]
  /\ dirty' = IF how = "cancelled" THEN dirty \union {held[t]} ELSE dirty
  /\ UNCHANGED <<generation, retiring, idle, live, lock, sleeping, at, held, open>>

\* Mutant: a destroyed session stays in the deque.
ReturnKeepsDestroyed(t) ==
  LET q == at[t] IN
  /\ pc[t] = "returning"
  /\ Free(q)
  /\ NotifyOne(q)
  /\ idle' = [idle EXCEPT ![q] = Append(@, held[t])]
  /\ live' = [live EXCEPT ![q] = IF destroy[t] THEN @ - 1 ELSE @]
  /\ pc' = Notified([pc EXCEPT ![t] = IF destroy[t] THEN "closing" ELSE "out"], q)
  /\ held' = [held EXCEPT ![t] = IF destroy[t] THEN @ ELSE "none"]
  /\ UNCHANGED <<generation, retiring, lock, at, destroy, open, dirty>>

\* `worn`: the session has served max_requests_per_session calls.
Return(t) ==
  LET q == at[t] IN
  /\ pc[t] = "returning"
  /\ Free(q)
  /\ NotifyOne(q)
  /\ \E worn \in BOOLEAN :
       \/ /\ destroy[t] \/ worn
          /\ live' = [live EXCEPT ![q] = @ - 1]
          /\ pc' = Notified([pc EXCEPT ![t] = "closing"], q)
          /\ UNCHANGED <<idle, held>>
       \/ /\ ~ (destroy[t] \/ worn)
          /\ idle' = [idle EXCEPT ![q] = Append(@, held[t])]
          /\ held' = [held EXCEPT ![t] = "none"]
          /\ pc' = Notified([pc EXCEPT ![t] = "out"], q)
          /\ UNCHANGED live
  /\ UNCHANGED <<generation, retiring, lock, at, destroy, open, dirty>>

\* Mutant: the slot is freed once more when the session is gone.
CloseFreeingAgain(t) ==
  /\ pc[t] = "closing"
  /\ open' = open \ {held[t]}
  /\ dirty' = dirty \ {held[t]}
  /\ held' = [held EXCEPT ![t] = "none"]
  /\ live' = [live EXCEPT ![at[t]] = @ - 1]
  /\ pc' = [pc EXCEPT ![t] = "out"]
  /\ UNCHANGED <<generation, retiring, idle, lock, sleeping, at, destroy>>

\* Cleanup of a destroyed session, outside the lock.
Close(t) ==
  /\ pc[t] = "closing"
  /\ open' = open \ {held[t]}
  /\ dirty' = dirty \ {held[t]}
  /\ held' = [held EXCEPT ![t] = "none"]
  /\ pc' = [pc EXCEPT ![t] = "out"]
  /\ UNCHANGED <<generation, retiring, idle, live, lock, sleeping, at, destroy>>

-----------------------------------------------------------------------------
\* Queue timeouts and cancellation of the task

\* A task that waits leaves when its budget is exhausted or it is cancelled.  If
\* it has been notified already, the notification is used up all the same
\* (asyncio.Condition.wait of Python 3.12).
GiveUp(t) ==
  /\ pc[t] \in {"polling", "blocked", "asleep", "woken"}
  /\ pc' = [pc EXCEPT ![t] = "out"]
  /\ \/ /\ pc[t] = "asleep"
        /\ \E i \in DOMAIN sleeping[at[t]] :
             /\ sleeping[at[t]][i] = t
             /\ sleeping' = [sleeping EXCEPT ![at[t]] = RemoveAt(@, i)]
     \/ pc[t] # "asleep" /\ UNCHANGED sleeping
  /\ UNCHANGED <<generation, retiring, idle, live, lock, at, held, destroy, open, dirty>>

\* Cancelled while it awaits the cleanup of a stale session: the session goes,
\* the slot does not.
CancelDrain(t) ==
  /\ pc[t] = "draining"
  /\ open' = open \ {held[t]}
  /\ dirty' = dirty \ {held[t]}
  /\ held' = [held EXCEPT ![t] = "none"]
  /\ lock' = [lock EXCEPT ![at[t]] = "none"]
  /\ pc' = [pc EXCEPT ![t] = "out"]
  /\ UNCHANGED <<generation, retiring, idle, live, sleeping, at, destroy>>

\* Cancelled while it waits for the lock to give its session or slot back:
\* nobody gives it back.
CancelReturn(t) ==
  /\ pc[t] \in {"returning", "unreserving"}
  /\ ~ Free(at[t])
  /\ held' = [held EXCEPT ![t] = "none"]
  /\ pc' = [pc EXCEPT ![t] = "out"]
  /\ UNCHANGED <<generation, retiring, idle, live, lock, sleeping, at, destroy,
                 open, dirty>>

-----------------------------------------------------------------------------
\* recycle_provider: between two cases of a run with clean sessions, and at its
\* end.
Recycle(p) ==
  /\ generation[p] < MaxRecycles
  /\ generation' = [generation EXCEPT ![p] = @ + 1]
  /\ retiring' = retiring \union {Current(p)}
  /\ UNCHANGED <<idle, live, lock, sleeping, pc, at, held, destroy, open, dirty>>

\* _ProviderPool.shutdown
Retire(q) ==
  /\ q \in retiring
  /\ Free(q)
  /\ retiring' = retiring \ {q}
  /\ live' = [live EXCEPT ![q] = @ - Len(idle[q])]
  /\ idle' = [idle EXCEPT ![q] = <<>>]
  /\ open' = open \ ToSet(idle[q])
  /\ dirty' = dirty \ ToSet(idle[q])
  /\ pc' = NotifyAll(pc, q)
  /\ sleeping' = [sleeping EXCEPT ![q] = <<>>]
  /\ UNCHANGED <<generation, lock, at, held, destroy>>

-----------------------------------------------------------------------------
\* What a task does in the pool once it has begun, and the call it begins for.
PoolStep(t) ==
  \/ Poll(t) \/ Resume(t) \/ DrainNext(t)
  \/ Spawned(t) \/ SpawnFails(t) \/ Unreserve(t)
  \/ Return(t) \/ Close(t)

Endings == {"kept", "raised", "cancelled"}

TaskStep(t) == PoolStep(t) \/ \E how \in Endings : CallEnds(t, how)

CancelStep(t) == GiveUp(t) \/ CancelDrain(t) \/ CancelReturn(t)

Recycling ==
  \/ \E p \in Providers : Recycle(p)
  \/ \E q \in Pools : Retire(q)

PoolNext ==
  \/ \E t \in Tasks : \/ \E p \in Providers : Begin(t, p)
                      \/ TaskStep(t) \/ CancelStep(t)
  \/ Recycling

PoolSpec == PoolInit /\ [][PoolNext]_poolVars

\* Ready tasks run; calls, spawns and cleanups end (each has its own timeout);
\* and a queue timeout fires.  Nobody has to start a call or recycle a provider.
PoolFairness ==
  /\ \A t \in Tasks : WF_poolVars(TaskStep(t)) /\ WF_poolVars(GiveUp(t))
  /\ \A q \in Pools : WF_poolVars(Retire(q))

PoolLiveSpec == PoolSpec /\ PoolFairness

\* The same while callers keep calling, for what must not depend on them
\* stopping.
PoolBusySpec ==
  PoolLiveSpec /\ \A t \in Tasks, p \in Providers : SF_poolVars(Begin(t, p))

-----------------------------------------------------------------------------
\* Safety and liveness

Holders(q) ==
  {t \in Tasks : at[t] = q /\ pc[t] \in {"draining", "spawning", "unreserving",
                                         "leased", "returning"}}

\* A session is in one place: in the hands of one task or once in one deque,
\* and its transport is up, so no two tasks ever speak over one transport.
SessionsExclusive ==
  /\ \A t, u \in Tasks : held[t] = held[u] /\ held[t] # "none" => t = u
  /\ \A q \in Pools, t \in Tasks : held[t] \notin ToSet(idle[q])
  /\ \A q, r \in Pools : \A i \in DOMAIN idle[q], j \in DOMAIN idle[r] :
       idle[q][i] = idle[r][j] => q = r /\ i = j
  /\ \A t \in Tasks : held[t] # "none" => held[t] \in open
  /\ \A q \in Pools : ToSet(idle[q]) \subseteq open

\* Every idle session, and every task that has a session or a slot, is counted
\* in `live`, which stays within max_sessions: through failed spawns, cancelled
\* tasks, and pools that were recycled while in use.
LiveCovers ==
  \A q \in Pools :
    /\ Len(idle[q]) + Cardinality(Holders(q)) <= live[q]
    /\ live[q] <= MaxSessions

-----------------------------------------------------------------------------
\* Claims of the code's comments and docstrings that do not hold

\* "`live` counts spawned-but-not-cleaned sessions": no slot is taken that
\* neither a session nor a task accounts for.
LiveIsBacked ==
  \A q \in Pools : live[q] <= Len(idle[q]) + Cardinality(Holders(q))

\* "we cannot reuse a session whose underlying transport may be in an unknown
\* state": a call does not start on a session with an abandoned call.
AbandonedCallNotReused ==
  [][\A t \in Tasks : pc[t] # "leased" /\ pc'[t] = "leased" => held'[t] \notin dirty]_poolVars

\* "waiters wake when a session is returned or a slot frees up": a task does
\* not sleep beside an idle session unless somebody is about to take it.
WaitersWake ==
  \A q \in Pools :
    sleeping[q] # <<>> /\ idle[q] # <<>> =>
      \E t \in Tasks : at[t] = q /\ pc[t] \in {"woken", "draining"}

\* "Shut down and remove all active/idle sessions for a specific provider id":
\* a recycled pool that was shut down ends up without sessions.
RecycledSessionsEnd ==
  \A q \in Pools :
    (\E p \in Providers : q[1] = p /\ q[2] < generation[p]) ~> idle[q] = <<>>

\* "idle TTL handles cleanup": a workspace at its cap does not stay there, when
\* calls end and new ones keep coming.
IdleTtlFreesCap == (WorkspaceLive >= PoolCap) ~> (WorkspaceLive < PoolCap)
=============================================================================
