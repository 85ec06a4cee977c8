------------------------------ MODULE CaseSteps ------------------------------
(***************************************************************************)
(* The rows of test_steps of one test case, and two kinds of writers: the  *)
(* step editor's requests (replace, append, reorder, and the PATCH of the  *)
(* case itself) and the runs of the case, which store the repairs healing  *)
(* found.  The bulk import of cases, which also deletes and inserts the    *)
(* steps of a case it finds, is not among them.                            *)
(*                                                                         *)
(* Every writer is a transaction of its own under READ COMMITTED.  The     *)
(* writes of its last flush and its commit are one step: whoever would     *)
(* meet its uncommitted rows waits for it to end.  Kept apart are the      *)
(* reads a transaction acts on later, the locks it holds meanwhile (the    *)
(* case row, FOR UPDATE, which an insert of a step also waits for through  *)
(* its foreign key; the rows a DELETE has locked), and the snapshot a      *)
(* DELETE takes when it starts.  (case_id, order) is unique and checked    *)
(* row by row.                                                             *)
(***************************************************************************)
EXTENDS Integers, FiniteSets, FiniteSetsExt, Functions

CONSTANTS
  Editors,      \* requests of the step editor
  Runs,         \* runs of the case
  InitSteps,    \* steps the case starts with
  MaxPayload,   \* bound: steps a replace sends
  MaxHeals,     \* bound: repairs one run attempts
  NoOne

ASSUME CaseAssumption ==
  /\ Editors \cap Runs = {} /\ NoOne \notin Editors \cup Runs
  /\ InitSteps \in Nat /\ MaxPayload \in Nat /\ MaxHeals \in Nat

Writers == Editors \cup Runs

VARIABLES
  steps,      \* committed rows: a function from ids to [ord, code]
  lastId,     \* ids 1..lastId have been given out; keys are never reused
  stamp,      \* updated_at of the case row, in whole seconds
  caseLock,   \* who holds the case row FOR UPDATE
  tx          \* the writers

vars == <<steps, lastId, stamp, caseLock, tx>>

\* What a step's code is: whose it is, whether a selector in it was repaired,
\* and whether it is a solve-captcha step.
Code == [by : Writers \cup {NoOne}, repaired : BOOLEAN, solver : BOOLEAN]
Row == [ord : Nat, code : Code]

Kinds == {"none", "replace", "append", "reorder", "patch", "repair", "convert", "inject"}
PCs == {"load", "choose", "delete", "insert", "read", "write", "retry", "apply",
        "done", "refused", "failed"}

\* A writer: the page or the steps it loaded (seen, seenStamp), the request
\* it makes, the row it is about (at), and what it read to act on (base).
Writer(pc) ==
  [pc |-> pc, kind |-> "none", seen |-> <<>>, seenStamp |-> 0,
   at |-> 0, base |-> <<>>, heals |-> 0, overtaken |-> FALSE]

----------------------------------------------------------------------------
Ords(rows) == {rows[i].ord : i \in DOMAIN rows}
IdAt(rows, o) == CHOOSE i \in DOMAIN rows : rows[i].ord = o
NextOrd(rows) == IF DOMAIN rows = {} THEN 0 ELSE 1 + Max(Ords(rows))
Own(w) == [by |-> w, repaired |-> FALSE, solver |-> FALSE]
SolverOf(w) == [by |-> w, repaired |-> FALSE, solver |-> TRUE]
Repaired(code) == [code EXCEPT !.repaired = TRUE]
Merge(rows, new) ==
  [i \in DOMAIN rows \cup DOMAIN new |-> IF i \in DOMAIN new THEN new[i] ELSE rows[i]]
Without(rows, D) == [i \in DOMAIN rows \ D |-> rows[i]]

\* Rows a replace has deleted but not yet committed are locked by it.
Locked(w) ==
  UNION {DOMAIN tx[v].base : v \in {v \in Writers \ {w} :
           tx[v].kind = "replace" /\ tx[v].pc = "insert"}}
Free(w, S) == S \cap Locked(w) = {}
CaseFree == caseLock = NoOne

Become(w, r) == tx' = [tx EXCEPT ![w] = r]
\* A request is over; what it loaded and read goes with its session.
End(w, pc) == Become(w, [Writer(pc) EXCEPT !.kind = tx[w].kind])
\* A run goes on with its next step whatever came of storing the last repair;
\* an editor's request is answered.
Resume(w, kind) ==
  IF w \in Editors THEN End(w, "done") ELSE
  Become(w, [tx[w] EXCEPT !.pc = "choose", !.kind = kind, !.at = 0, !.base = <<>>,
                          !.overtaken = FALSE])

----------------------------------------------------------------------------
\* The editor loads the page; a run loads its steps once, when it starts.
Load(w) ==
  /\ tx[w].pc = "load"
  /\ Become(w, [tx[w] EXCEPT !.pc = "choose", !.seen = steps, !.seenStamp = stamp])
  /\ UNCHANGED <<steps, lastId, stamp, caseLock>>

\* _check_if_unmodified_since; a request may also come without the header.
Modified(w) == tx[w].seenStamp < stamp
Request(w, kind, pc) ==
  /\ w \in Editors /\ tx[w].pc = "choose"
  /\ \E header \in BOOLEAN :
       IF header /\ Modified(w) THEN End(w, "refused")
       ELSE Become(w, [tx[w] EXCEPT !.kind = kind, !.pc = pc])
  /\ UNCHANGED <<steps, lastId, stamp, caseLock>>

\* PATCH of the case's own columns, the one request that moves updated_at;
\* within the same second the move is not visible.
PatchCase(w) ==
  /\ w \in Editors /\ tx[w].pc = "choose"
  /\ \/ CaseFree /\ stamp' \in {stamp, stamp + 1} /\ End(w, "done")
     \/ Modified(w) /\ UNCHANGED stamp /\ End(w, "refused")
  /\ UNCHANGED <<steps, lastId, caseLock>>

----------------------------------------------------------------------------
\* replace_steps: DELETE every row the statement's snapshot holds, then
\* insert the payload at 0..n-1.
RequestReplace(w) == Request(w, "replace", "delete")

StartDelete(w) ==
  /\ tx[w].kind = "replace" /\ tx[w].pc = "delete"
  /\ Become(w, [tx[w] EXCEPT !.pc = "write", !.base = steps])
  /\ UNCHANGED <<steps, lastId, stamp, caseLock>>

Delete(w) ==
  /\ tx[w].kind = "replace" /\ tx[w].pc = "write"
  /\ Free(w, DOMAIN tx[w].base \cap DOMAIN steps)
  /\ Become(w, [tx[w] EXCEPT !.pc = "insert",
                             !.base = [i \in DOMAIN tx[w].base \cap DOMAIN steps |-> steps[i]]])
  /\ UNCHANGED <<steps, lastId, stamp, caseLock>>

\* The payload keeps what the editor saw at a position, except where it
\* changed or added a step.
Payload(w, n, changed) ==
  [o \in 0..(n - 1) |->
     IF o = changed \/ o \notin Ords(tx[w].seen) THEN Own(w)
     ELSE tx[w].seen[IdAt(tx[w].seen, o)].code]

Insert(w) ==
  /\ tx[w].kind = "replace" /\ tx[w].pc = "insert" /\ CaseFree
  /\ \E n \in 1..MaxPayload : \E changed \in {0, n} :
       LET kept == Without(steps, DOMAIN tx[w].base)
           clash == {i \in DOMAIN kept : kept[i].ord < n}
           payload == Payload(w, n, changed)
       IN IF clash = {}
          THEN /\ steps' = Merge(kept, [i \in (lastId + 1)..(lastId + n) |->
                             [ord |-> i - lastId - 1, code |-> payload[i - lastId - 1]]])
               /\ lastId' = lastId + n
               /\ End(w, "done")
          ELSE /\ Free(w, clash)
               /\ End(w, "failed")
               /\ UNCHANGED <<steps, lastId>>
  /\ UNCHANGED <<stamp, caseLock>>

----------------------------------------------------------------------------
\* append_step: lock the case row, read the greatest order, insert after it.
AppendRow(w) ==
  [i \in {lastId + 1} |-> [ord |-> tx[w].at, code |-> Own(w)]]

\* Mutant: the greatest order is read without the lock on the case.
RequestAppendUnlocked(w) ==
  /\ w \in Editors /\ tx[w].pc = "choose"
  /\ Become(w, [tx[w] EXCEPT !.kind = "append", !.pc = "write", !.at = NextOrd(steps)])
  /\ UNCHANGED <<steps, lastId, stamp, caseLock>>

RequestAppend(w) ==
  /\ w \in Editors /\ tx[w].pc = "choose" /\ CaseFree
  /\ caseLock' = w
  /\ Become(w, [tx[w] EXCEPT !.kind = "append", !.pc = "write", !.at = NextOrd(steps)])
  /\ UNCHANGED <<steps, lastId, stamp>>

\* Mutant: the transaction is left open after its insert.
AppendUnfinished(w) ==
  /\ tx[w].kind = "append" /\ tx[w].pc = "write"
  /\ tx[w].at \notin Ords(steps)
  /\ steps' = Merge(steps, AppendRow(w))
  /\ lastId' = lastId + 1
  /\ End(w, "done")
  /\ UNCHANGED <<stamp, caseLock>>

Append(w) ==
  /\ tx[w].kind = "append" /\ tx[w].pc = "write"
  /\ IF tx[w].at \in Ords(steps)
     THEN End(w, "failed") /\ UNCHANGED <<steps, lastId>>
     ELSE /\ steps' = Merge(steps, AppendRow(w))
          /\ lastId' = lastId + 1
          /\ End(w, "done")
  /\ caseLock' = IF caseLock = w THEN NoOne ELSE caseLock
  /\ UNCHANGED stamp

----------------------------------------------------------------------------
\* reorder_steps: the submitted ids must be the case's ids; the rows are then
\* moved to negative slots and from there to 0..n-1.
RequestReorder(w) == Request(w, "reorder", "read")

ReadReorder(w) ==
  /\ tx[w].kind = "reorder" /\ tx[w].pc = "read"
  /\ IF DOMAIN tx[w].seen = DOMAIN steps
     THEN Become(w, [tx[w] EXCEPT !.pc = "write"])
     ELSE End(w, "refused")
  /\ UNCHANGED <<steps, lastId, stamp, caseLock>>

\* A reorder takes no case lock, so it may pass an injection that has read
\* the orders and not yet written them.
Overtake(w, r) ==
  tx' = [v \in Writers |->
           IF v = w THEN r
           ELSE [tx[v] EXCEPT !.overtaken = @ \/ (tx[v].kind = "inject" /\ tx[v].pc = "write")]]

Reorder(w) ==
  /\ tx[w].kind = "reorder" /\ tx[w].pc = "write"
  /\ LET ids == DOMAIN tx[w].seen
         slots == 0..(Cardinality(ids) - 1)
     IN /\ Free(w, ids)
        /\ IF /\ ids \subseteq DOMAIN steps
              /\ Ords(Without(steps, ids)) \cap slots = {}
           THEN /\ \E to \in Bijection(ids, slots) :
                     steps' = [i \in DOMAIN steps |->
                                 IF i \in ids THEN [steps[i] EXCEPT !.ord = to[i]]
                                               ELSE steps[i]]
                /\ Overtake(w, [Writer("done") EXCEPT !.kind = "reorder"])
           ELSE End(w, "failed") /\ UNCHANGED steps
  /\ UNCHANGED <<lastId, stamp, caseLock>>

----------------------------------------------------------------------------
\* Repairs.  A run works on the steps it loaded; an editor proposes and
\* applies a selector repair through the API.
Heal(w) == tx[w].pc = "choose" /\ tx[w].heals < MaxHeals

Chosen(w, kind, pc, i) ==
  [tx[w] EXCEPT !.kind = kind, !.pc = pc, !.at = i, !.heals = @ + 1,
                !.overtaken = FALSE]

\* propose reads the step's code as it is now.  A run then executes the
\* patched code once and applies what passed; an editor's user approves or
\* drops it.
Propose(w) ==
  /\ Heal(w)
  /\ \E i \in DOMAIN tx[w].seen \cap DOMAIN steps :
       /\ ~steps[i].code.solver
       /\ Become(w, [Chosen(w, "repair", "retry", i) EXCEPT !.base = steps[i].code])
  /\ UNCHANGED <<steps, lastId, stamp, caseLock>>

Retry(w) ==
  /\ tx[w].kind = "repair" /\ tx[w].pc = "retry"
  /\ \/ Become(w, [tx[w] EXCEPT !.pc = "apply"])
     \/ Resume(w, "none")
  /\ UNCHANGED <<steps, lastId, stamp, caseLock>>

\* SelfHealService.apply: the step and its case are read FOR UPDATE, and the
\* code compared with the fingerprint of the proposal.
\* Mutant: the fingerprint is not compared.
StaleRepairMissing(w) == tx[w].at \notin DOMAIN steps

StaleRepair(w) == tx[w].at \notin DOMAIN steps \/ steps[tx[w].at].code # tx[w].base

\* Mutant: a stale repair is retried instead of dropped.
ApplyOrRetry(w) ==
  /\ tx[w].kind = "repair" /\ tx[w].pc = "apply"
  /\ CaseFree /\ Free(w, {tx[w].at})
  /\ IF StaleRepair(w)
     THEN /\ Become(w, [tx[w] EXCEPT !.pc = "retry"])
          /\ UNCHANGED steps
     ELSE /\ steps' = [steps EXCEPT ![tx[w].at].code = Repaired(@)]
          /\ Resume(w, "none")
  /\ UNCHANGED <<lastId, stamp, caseLock>>

Apply(w) ==
  /\ tx[w].kind = "repair" /\ tx[w].pc = "apply"
  /\ CaseFree /\ Free(w, {tx[w].at})
  /\ IF StaleRepair(w) THEN UNCHANGED steps
     ELSE steps' = [steps EXCEPT ![tx[w].at].code = Repaired(@)]
  /\ Resume(w, "none")
  /\ UNCHANGED <<lastId, stamp, caseLock>>

\* _persist_captcha_self_heal: the step becomes a solve step, whatever it is.
Convert(w) ==
  /\ w \in Runs /\ Heal(w)
  /\ \E i \in DOMAIN tx[w].seen :
       /\ Free(w, {i})
       /\ IF i \in DOMAIN steps
          THEN steps' = [steps EXCEPT ![i].code = SolverOf(w)]
          ELSE UNCHANGED steps
       /\ Become(w, [Chosen(w, "none", "choose", i) EXCEPT !.at = 0])
  /\ UNCHANGED <<lastId, stamp, caseLock>>

----------------------------------------------------------------------------
\* _inject_pre_submit_captcha_step: under the case lock, the rows from the
\* submit step's order on move up by one and a solve step takes its order.
ReadInject(w) ==
  /\ w \in Runs /\ Heal(w) /\ CaseFree
  /\ caseLock' = w
  /\ \E i \in DOMAIN tx[w].seen :
       Become(w, [Chosen(w, "inject", "write", tx[w].seen[i].ord) EXCEPT !.base = steps])
  /\ UNCHANGED <<steps, lastId, stamp>>

Shifted(w) == {i \in DOMAIN tx[w].base : tx[w].base[i].ord >= tx[w].at}
\* Mutant: the orders are those the run loaded when it started.
NewOrdLoaded(w, i) ==
  1 + (IF i \in DOMAIN tx[w].seen THEN tx[w].seen[i].ord ELSE tx[w].base[i].ord)

NewOrd(w, i) == tx[w].base[i].ord + 1

\* The rows are updated one by one in the order of their random keys.  A row
\* moved onto an order held by a row that does not move fails for certain;
\* onto one held by a row that moves too, when its key comes first.
MustClash(w) ==
  \/ \E i \in Shifted(w), j \in DOMAIN steps \ Shifted(w) : steps[j].ord = NewOrd(w, i)
  \/ tx[w].at \in Ords(Without(steps, Shifted(w)))
MayClash(w) ==
  \E i, j \in Shifted(w) : i # j /\ NewOrd(w, i) = steps[j].ord

WriteInject(w) ==
  /\ tx[w].kind = "inject" /\ tx[w].pc = "write"
  /\ Free(w, Shifted(w))
  /\ \/ /\ Shifted(w) \subseteq DOMAIN steps
        /\ ~MustClash(w)
        /\ steps' = Merge(steps,
              [i \in Shifted(w) \cup {lastId + 1} |->
                 IF i \in Shifted(w) THEN [steps[i] EXCEPT !.ord = NewOrd(w, i)]
                 ELSE [ord |-> tx[w].at, code |-> SolverOf(w)]])
        /\ lastId' = lastId + 1
        /\ Resume(w, "none")
     \/ /\ IF Shifted(w) \subseteq DOMAIN steps THEN MustClash(w) \/ MayClash(w) ELSE TRUE
        /\ Resume(w, "failed")
        /\ UNCHANGED <<steps, lastId>>
  /\ caseLock' = NoOne
  /\ UNCHANGED stamp

\* The injection waits for rows a replace deleted, whose inserts wait for the
\* case row the injection holds: the database fails one of the two.
BreakDeadlock(w, v) ==
  /\ tx[w].kind = "inject" /\ tx[w].pc = "write"
  /\ tx[v].kind = "replace" /\ tx[v].pc = "insert"
  /\ Shifted(w) \cap DOMAIN tx[v].base # {}
  /\ \/ End(v, "failed") /\ UNCHANGED caseLock
     \/ /\ Resume(w, "failed")
        /\ caseLock' = NoOne
  /\ UNCHANGED <<steps, lastId, stamp>>

Finish(w) ==
  /\ w \in Runs /\ tx[w].pc = "choose"
  /\ End(w, "done")
  /\ UNCHANGED <<steps, lastId, stamp, caseLock>>

Done ==
  /\ \A w \in Writers : tx[w].pc \in {"done", "refused", "failed"}
  /\ UNCHANGED vars

----------------------------------------------------------------------------
Init ==
  /\ steps = [i \in 1..InitSteps |-> [ord |-> i - 1, code |-> Own(NoOne)]]
  /\ lastId = InitSteps
  /\ stamp = 0 /\ caseLock = NoOne
  /\ tx = [w \in Writers |-> Writer("load")]

Step(w) ==
  \/ Load(w) \/ PatchCase(w)
  \/ RequestReplace(w) \/ StartDelete(w) \/ Delete(w) \/ Insert(w)
  \/ RequestAppend(w) \/ Append(w)
  \/ RequestReorder(w) \/ ReadReorder(w) \/ Reorder(w)
  \/ Propose(w) \/ Retry(w) \/ Apply(w) \/ Convert(w)
  \/ ReadInject(w) \/ WriteInject(w) \/ Finish(w)
  \/ \E v \in Editors : BreakDeadlock(w, v)

Next == (\E w \in Writers : Step(w)) \/ Done
Spec == Init /\ [][Next]_vars
\* Each request and each run is driven to its end by its own task.
LiveSpec == Spec /\ \A w \in Writers : WF_vars(Step(w))

----------------------------------------------------------------------------
\* Types of the variables; committed orders are distinct, and the case row is
\* held only by a writer that is between its reads and its writes.
CaseTypeOK ==
  /\ \A i \in DOMAIN steps : i \in 1..lastId /\ steps[i] \in Row
  /\ \A i, j \in DOMAIN steps : i # j => steps[i].ord # steps[j].ord
  /\ stamp \in Nat
  /\ caseLock \in Writers \cup {NoOne}
  /\ \A w \in Writers : tx[w].pc \in PCs /\ tx[w].heals <= MaxHeals
  /\ caseLock # NoOne => tx[caseLock].pc = "write" /\ tx[caseLock].kind \in {"append", "inject"}

\* An append is never refused by the unique order, whoever writes beside it:
\* appends and injections wait for the case row, a replace's inserts for the
\* same row through the foreign key, and a reorder stays below the maximum.
AppendsSucceed ==
  \A w \in Editors : tx[w].kind = "append" => tx[w].pc # "failed"

\* A stored repair replaces the very code it was computed from, and a
\* run has retried: a conversion or another repair made while the retry ran
\* or the user decided is never overwritten, and no other row is touched.
RepairKeepsEdits ==
  [][\A w \in Writers :
       tx[w].pc = "apply" /\ tx'[w].pc # "apply" /\ steps' # steps =>
         /\ DOMAIN steps' = DOMAIN steps
         /\ steps'[tx[w].at].code = Repaired(tx[w].base)
         /\ steps[tx[w].at].code = tx[w].base
         /\ \A i \in DOMAIN steps \ {tx[w].at} : steps'[i] = steps[i]]_vars

\* A stored injection, unless a reorder passed it, adds one solve step and
\* leaves the code and the relative order of every other step alone.  Where the
\* solve step lands is not part of it: its order is the one the run loaded.
InjectionKeepsOrder ==
  [][\A w \in Runs :
       /\ tx[w].kind = "inject" /\ tx[w].pc = "write" /\ ~tx[w].overtaken
       /\ tx'[w].kind = "none"
       => /\ DOMAIN steps' = DOMAIN steps \cup {lastId'}
          /\ steps'[lastId'].code.solver
          /\ \A i \in DOMAIN steps : steps'[i].code = steps[i].code
          /\ \A i, j \in DOMAIN steps :
               steps[i].ord < steps[j].ord => steps'[i].ord < steps'[j].ord]_vars

\* Every request is answered and every run gets through its repairs: the
\* waits on the case row and on deleted rows are all resolved.
WritersEnd == \A w \in Writers : <>(tx[w].pc \in {"done", "refused", "failed"})

\* The docstring of _inject_pre_submit_captcha_step: it inserts the step and
\* re-indexes the following steps.  Nobody else writing, it fails when two
\* following rows have neighbouring orders and ascending keys.
InjectionReindexes == \A w \in Runs : tx[w].kind # "failed"

\* The comment at its lock: the lock guards against concurrent mutations of
\* the steps.  A reorder does not take it.
LockGuardsInjection == \A w \in Runs : ~tx[w].overtaken

\* The docstring of replace_steps: a later If-Unmodified-Since check sees the
\* change.  updated_at moves only with a column of the case row.
StampSeesSteps ==
  [][\A w \in Editors :
       tx[w].kind = "replace" /\ tx'[w].pc = "done" /\ tx[w].pc = "insert"
         => stamp' # stamp]_vars
=============================================================================
