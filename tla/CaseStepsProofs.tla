--------------------------- MODULE CaseStepsProofs ---------------------------
(***************************************************************************)
(* Proofs about CaseSteps, for any editors and runs, any steps to start    *)
(* with, and any sizes of payloads and numbers of repairs.                 *)
(*                                                                         *)
(* Whoever holds the case row keeps the other inserts out, so that what he *)
(* has read still bounds the orders when he writes: an append its maximum  *)
(* (AppendInv), an injection the rows it moves (InjectInv).  A reorder     *)
(* does not ask for the row; it keeps the ids, and distinct orders below   *)
(* the maximum leave it no room above it.                                  *)
(***************************************************************************)
EXTENDS CaseSteps, FiniteSetTheorems, WellFoundedInduction, TLAPS

Fields == {"pc", "kind", "seen", "seenStamp", "at", "base", "heals", "overtaken"}

TypedRows(rows) == \A i \in DOMAIN rows : i \in Nat /\ rows[i] \in Row
DistinctOrds(rows) == \A i, j \in DOMAIN rows : i # j => rows[i].ord # rows[j].ord
Bounded(rows) == \E b \in Nat : \A i \in DOMAIN rows : rows[i].ord <= b

\* The record of a writer is well formed, and no append has failed.
Good(r) ==
  /\ DOMAIN r = Fields
  /\ r.pc \in PCs /\ r.heals \in 0..MaxHeals
  /\ TypedRows(r.seen)
  /\ r.pc \in {"retry", "apply"} => r.kind = "repair"
  /\ r.kind = "append" => r.pc # "failed"

\* It has the case row.
Holds(r) == r.pc = "write" /\ r.kind \in {"append", "inject"}

RowsInv ==
  /\ lastId \in Nat /\ DOMAIN steps \subseteq 1..lastId
  /\ TypedRows(steps) /\ DistinctOrds(steps) /\ Bounded(steps)

WritersInv == stamp \in Nat /\ DOMAIN tx = Writers /\ \A w \in Writers : Good(tx[w])

LockInv ==
  /\ caseLock \in Writers \cup {NoOne}
  /\ \A w \in Writers : caseLock = w <=> Holds(tx[w])

AppendInv ==
  \A w \in Writers : Holds(tx[w]) /\ tx[w].kind = "append" =>
    tx[w].at \in Nat /\ \A i \in DOMAIN steps : steps[i].ord < tx[w].at

\* The rows an injection has read are the rows there are; only a reorder may
\* have moved them meanwhile.
InjectInv ==
  \A w \in Writers : Holds(tx[w]) /\ tx[w].kind = "inject" =>
    /\ tx[w].at \in Nat
    /\ TypedRows(tx[w].base) /\ DistinctOrds(tx[w].base) /\ Bounded(tx[w].base)
    /\ DOMAIN tx[w].base = DOMAIN steps
    /\ ~ tx[w].overtaken => \A i \in DOMAIN steps : tx[w].base[i].ord = steps[i].ord

CInv == RowsInv /\ WritersInv /\ LockInv /\ AppendInv /\ InjectInv

-----------------------------------------------------------------------------
\* Operators

\* The greatest of some bounded numbers.
LEMMA MaxBounds ==
  ASSUME NEW S \in SUBSET Nat, S # {}, NEW b \in Nat, \A x \in S : x <= b
  PROVE  Max(S) \in S /\ \A x \in S : x <= Max(S)
<1> DEFINE T == {n \in Nat : \A x \in S : x <= n}
<1>1. T \subseteq Nat /\ T # {}
  OBVIOUS
<1>2. PICK m \in T : \A n \in T : ~ (<<n, m>> \in OpToRel(<, Nat))
  BY <1>1, NatLessThanWellFounded, WFMin
<1>3. \A n \in T : ~ (n < m)
  BY <1>1, <1>2 DEF OpToRel
<1>4. m \in S
  <2> SUFFICES ASSUME m \notin S PROVE FALSE
    OBVIOUS
  <2>1. PICK s \in S : TRUE
    OBVIOUS
  <2>2. \A x \in S : x < m
    OBVIOUS
  <2>3. m - 1 \in T /\ m - 1 < m
    BY <2>1, <2>2
  <2> QED
    BY <1>3, <2>3
<1>5. \E x \in S : \A y \in S : x >= y
  BY <1>4
<1> QED
  BY <1>5 DEF Max

LEMMA NextOrdAbove ==
  ASSUME RowsInv
  PROVE  NextOrd(steps) \in Nat /\ \A i \in DOMAIN steps : steps[i].ord < NextOrd(steps)
<1>1. CASE DOMAIN steps = {}
  BY <1>1 DEF NextOrd
<1>2. CASE DOMAIN steps # {}
  <2>1. Ords(steps) \in SUBSET Nat /\ Ords(steps) # {}
    BY <1>2 DEF Ords, RowsInv, TypedRows, Row
  <2>2. PICK b \in Nat : \A i \in DOMAIN steps : steps[i].ord <= b
    BY DEF RowsInv, Bounded
  <2>3. \A x \in Ords(steps) : x <= b
    BY <2>2 DEF Ords
  <2>4. Max(Ords(steps)) \in Ords(steps) /\ \A x \in Ords(steps) : x <= Max(Ords(steps))
    BY <2>1, <2>3, MaxBounds
  <2>5. \A i \in DOMAIN steps : steps[i].ord \in Ords(steps)
    BY DEF Ords
  <2> QED
    BY <1>2, <2>1, <2>4, <2>5 DEF NextOrd
<1> QED
  BY <1>1, <1>2

\* Distinct orders below n belong to at most n rows.
LEMMA FewRowsBelow ==
  ASSUME RowsInv, NEW n \in Nat, \A i \in DOMAIN steps : steps[i].ord < n
  PROVE  IsFiniteSet(DOMAIN steps) /\ Cardinality(DOMAIN steps) <= n
<1> DEFINE f == [i \in DOMAIN steps |-> steps[i].ord]
<1>1. f \in [DOMAIN steps -> 0..(n - 1)]
  BY DEF RowsInv, TypedRows, Row
<1>2. f \in Injection(DOMAIN steps, 0..(n - 1))
  BY <1>1 DEF Injection, IsInjective, RowsInv, DistinctOrds
<1>3. IsFiniteSet(0..(n - 1)) /\ Cardinality(0..(n - 1)) = n
  BY FS_Interval
<1> QED
  BY <1>2, <1>3, FS_Injection

LEMMA MergeRows ==
  ASSUME NEW rows, NEW new
  PROVE  /\ DOMAIN Merge(rows, new) = DOMAIN rows \cup DOMAIN new
         /\ \A i \in DOMAIN new : Merge(rows, new)[i] = new[i]
         /\ \A i \in DOMAIN rows \ DOMAIN new : Merge(rows, new)[i] = rows[i]
  BY DEF Merge

LEMMA CodeTypes ==
  ASSUME NEW w \in Writers \cup {NoOne}
  PROVE  /\ Own(w) \in Code /\ SolverOf(w) \in Code
         /\ \A c \in Code : Repaired(c) \in Code
         /\ SolverOf(w).solver
  BY DEF Own, SolverOf, Repaired, Code

\* The records with which a request ends or a run goes on.
LEMMA EndIsGood ==
  ASSUME NEW w \in Writers, NEW pc \in {"done", "refused", "failed"},
         WritersInv, tx[w].kind = "append" => pc # "failed", End(w, pc)
  PROVE  \E r : Become(w, r) /\ Good(r) /\ ~ Holds(r) /\ r.pc = pc /\ r.kind = tx[w].kind
<1> DEFINE r == [Writer(pc) EXCEPT !.kind = tx[w].kind]
<1>1. /\ DOMAIN r = Fields /\ r.pc = pc /\ r.kind = tx[w].kind
      /\ r.heals = 0 /\ r.seen = <<>>
  BY DEF Writer, Fields
<1>2. TypedRows(<<>>) /\ 0 \in 0..MaxHeals
  BY CaseAssumption DEF TypedRows
<1> HIDE DEF r
<1>3. Good(r) /\ ~ Holds(r)
  BY <1>1, <1>2 DEF Good, Holds, PCs
<1> QED
  BY <1>1, <1>3 DEF End, r

LEMMA ResumeIsGood ==
  ASSUME NEW w \in Writers, NEW kind, WritersInv, Resume(w, kind)
  PROVE  \E r : /\ Become(w, r) /\ Good(r) /\ ~ Holds(r)
                /\ w \in Runs => r.kind = kind
<1>1. CASE w \in Editors
  <2>1. w \notin Runs
    BY <1>1, CaseAssumption
  <2> QED
    BY <1>1, <2>1, EndIsGood DEF Resume
<1>2. CASE w \notin Editors
  <2> DEFINE r == [tx[w] EXCEPT !.pc = "choose", !.kind = kind, !.at = 0, !.base = <<>>,
                                !.overtaken = FALSE]
  <2>1. Become(w, r)
    BY <1>2 DEF Resume
  <2>2. Good(tx[w])
    BY DEF WritersInv
  <2>3. Good(r) /\ ~ Holds(r) /\ r.kind = kind
    BY <2>2 DEF Good, Holds, PCs, Fields
  <2> QED
    BY <2>1, <2>3
<1> QED
  BY <1>1, <1>2

-----------------------------------------------------------------------------
\* What a writer's turn does to the invariant

SameOrders ==
  /\ lastId' = lastId /\ DOMAIN steps' = DOMAIN steps
  /\ \A i \in DOMAIN steps : steps'[i] \in Row /\ steps'[i].ord = steps[i].ord

LEMMA Others ==
  ASSUME WritersInv, NEW w \in Writers, NEW r, Become(w, r)
  PROVE  /\ DOMAIN tx' = Writers /\ tx'[w] = r
         /\ \A v \in Writers \ {w} : tx'[v] = tx[v]
  BY DEF WritersInv, Become

\* A writer without the case row, before and after.
LEMMA TurnKeeps ==
  ASSUME CInv, NEW w \in Writers, NEW r, Become(w, r), Good(r),
         ~ Holds(tx[w]), ~ Holds(r),
         caseLock' = caseLock, stamp' \in Nat, SameOrders
  PROVE  CInv'
<1>1. /\ DOMAIN tx' = Writers /\ tx'[w] = r
      /\ \A v \in Writers \ {w} : tx'[v] = tx[v]
  BY Others DEF CInv
<1>2. RowsInv'
  BY DEF CInv, RowsInv, SameOrders, TypedRows, DistinctOrds, Bounded
<1>3. WritersInv'
  BY <1>1 DEF CInv, WritersInv
<1>4. LockInv'
  BY <1>1 DEF CInv, LockInv
<1>5. AppendInv'
  BY <1>1 DEF CInv, AppendInv, SameOrders
<1>6. InjectInv'
  BY <1>1 DEF CInv, InjectInv, SameOrders
<1> QED
  BY <1>2, <1>3, <1>4, <1>5, <1>6 DEF CInv

\* A turn after which nobody has the case row.
LEMMA TurnFrees ==
  ASSUME CInv, NEW w \in Writers, NEW r, Become(w, r), Good(r), ~ Holds(r),
         \A v \in Writers \ {w} : ~ Holds(tx[v]),
         caseLock' = NoOne, stamp' \in Nat, RowsInv'
  PROVE  CInv'
<1>1. /\ DOMAIN tx' = Writers /\ tx'[w] = r
      /\ \A v \in Writers \ {w} : tx'[v] = tx[v]
  BY Others DEF CInv
<1>2. WritersInv'
  BY <1>1 DEF CInv, WritersInv
<1>3. \A v \in Writers : ~ Holds(tx'[v])
  BY <1>1
<1>4. LockInv'
  BY <1>3, CaseAssumption DEF LockInv, Writers
<1>5. AppendInv' /\ InjectInv'
  BY <1>3 DEF AppendInv, InjectInv
<1> QED
  BY <1>2, <1>4, <1>5 DEF CInv

\* A turn that takes the case row.
LEMMA TurnTakes ==
  ASSUME CInv, NEW w \in Writers, NEW r, Become(w, r), Good(r), Holds(r),
         CaseFree, caseLock' = w, UNCHANGED <<steps, lastId, stamp>>,
         r.at \in Nat,
         r.kind = "append" => \A i \in DOMAIN steps : steps[i].ord < r.at,
         r.kind = "inject" => r.base = steps
  PROVE  CInv'
<1>1. /\ DOMAIN tx' = Writers /\ tx'[w] = r
      /\ \A v \in Writers \ {w} : tx'[v] = tx[v]
  BY Others DEF CInv
<1>2. \A v \in Writers : ~ Holds(tx[v])
  BY CaseAssumption DEF CInv, LockInv, CaseFree, Writers
<1>3. RowsInv'
  BY DEF CInv, RowsInv
<1>4. WritersInv'
  BY <1>1 DEF CInv, WritersInv
<1>5. LockInv'
  BY <1>1, <1>2 DEF CInv, LockInv
<1>6. AppendInv'
  BY <1>1, <1>2 DEF AppendInv
<1>7. InjectInv'
  BY <1>1, <1>2 DEF InjectInv, CInv, RowsInv
<1> QED
  BY <1>3, <1>4, <1>5, <1>6, <1>7 DEF CInv
-----------------------------------------------------------------------------
\* Actions that leave the orders alone

LEMMA Unchanged == ASSUME CInv, UNCHANGED <<steps, lastId, stamp>>
                   PROVE  SameOrders /\ stamp' \in Nat
  BY DEF CInv, RowsInv, TypedRows, WritersInv, SameOrders

\* A request, or a run, goes on or ends without having written anything.
QuietTurn(w) ==
  \/ Load(w) \/ PatchCase(w)
  \/ RequestReplace(w) \/ StartDelete(w) \/ Delete(w)
  \/ RequestReorder(w) \/ ReadReorder(w)
  \/ Propose(w) \/ Retry(w) \/ Finish(w)

LEMMA RequestKeeps ==
  ASSUME CInv, NEW w \in Writers, NEW kind \in Kinds \ {"append"}, NEW pc \in {"delete", "read"},
         Request(w, kind, pc)
  PROVE  CInv'
<1>1. Good(tx[w]) /\ tx[w].pc = "choose"
  BY DEF CInv, WritersInv, Request
<1>2. SameOrders /\ stamp' \in Nat /\ ~ Holds(tx[w]) /\ caseLock' = caseLock
  BY <1>1, Unchanged DEF Request, Holds
<1>3. CASE End(w, "refused")
  BY <1>2, <1>3, EndIsGood, TurnKeeps DEF CInv
<1>4. CASE Become(w, [tx[w] EXCEPT !.kind = kind, !.pc = pc])
  <2> DEFINE r == [tx[w] EXCEPT !.kind = kind, !.pc = pc]
  <2>1. Good(r) /\ ~ Holds(r)
    BY <1>1 DEF Good, Holds, Fields, PCs
  <2> QED
    BY <1>2, <1>4, <2>1, TurnKeeps
<1> QED
  BY <1>3, <1>4 DEF Request

LEMMA QuietKeeps ==
  ASSUME CInv, NEW w \in Writers, QuietTurn(w)
  PROVE  CInv'
<1>1. Good(tx[w]) /\ TypedRows(steps) /\ WritersInv
  BY DEF CInv, WritersInv, RowsInv
<1>2. ASSUME NEW r, Become(w, r), Good(r), ~ Holds(tx[w]), ~ Holds(r),
             UNCHANGED <<steps, lastId, caseLock>>, stamp' \in Nat
      PROVE  CInv'
  <2>1. SameOrders
    BY <1>1, <1>2 DEF SameOrders, TypedRows
  <2> QED
    BY <1>2, <2>1, TurnKeeps
<1>3. stamp \in Nat
  BY DEF CInv, WritersInv
<1>4. CASE Load(w)
  <2> DEFINE r == [tx[w] EXCEPT !.pc = "choose", !.seen = steps, !.seenStamp = stamp]
  <2>1. Good(r) /\ ~ Holds(r) /\ ~ Holds(tx[w])
    BY <1>1, <1>4 DEF Load, Good, Holds, Fields, PCs
  <2> QED
    BY <1>2, <1>3, <1>4, <2>1 DEF Load
<1>5. CASE PatchCase(w)
  <2>1. PICK pc \in {"done", "refused"} : End(w, pc)
    BY <1>5 DEF PatchCase
  <2>2. stamp' \in Nat /\ ~ Holds(tx[w]) /\ UNCHANGED <<steps, lastId, caseLock>>
    BY <1>3, <1>5 DEF PatchCase, Holds
  <2> QED
    BY <1>1, <1>2, <2>1, <2>2, EndIsGood
<1>6. CASE RequestReplace(w) \/ RequestReorder(w)
  BY <1>6, RequestKeeps DEF RequestReplace, RequestReorder, Kinds
<1>7. CASE StartDelete(w)
  <2> DEFINE r == [tx[w] EXCEPT !.pc = "write", !.base = steps]
  <2>1. Good(r) /\ ~ Holds(r) /\ ~ Holds(tx[w])
    BY <1>1, <1>7 DEF StartDelete, Good, Holds, Fields, PCs
  <2> QED
    BY <1>2, <1>3, <1>7, <2>1 DEF StartDelete
<1>8. CASE Delete(w)
  <2> DEFINE r == [tx[w] EXCEPT !.pc = "insert",
                                !.base = [i \in DOMAIN tx[w].base \cap DOMAIN steps |-> steps[i]]]
  <2>1. Good(r) /\ ~ Holds(r) /\ ~ Holds(tx[w])
    BY <1>1, <1>8 DEF Delete, Good, Holds, Fields, PCs
  <2> QED
    BY <1>2, <1>3, <1>8, <2>1 DEF Delete
<1>9. CASE ReadReorder(w)
  <2>1. ~ Holds(tx[w]) /\ tx[w].kind = "reorder"
    BY <1>9 DEF ReadReorder, Holds
  <2>2. CASE End(w, "refused")
    BY <1>1, <1>2, <1>3, <1>9, <2>1, <2>2, EndIsGood DEF ReadReorder
  <2>3. CASE Become(w, [tx[w] EXCEPT !.pc = "write"])
    <3> DEFINE r == [tx[w] EXCEPT !.pc = "write"]
    <3>1. Good(r) /\ ~ Holds(r)
      BY <1>1, <2>1 DEF Good, Holds, Fields, PCs
    <3> QED
      BY <1>2, <1>3, <1>9, <2>1, <2>3, <3>1 DEF ReadReorder
  <2> QED
    BY <1>9, <2>2, <2>3 DEF ReadReorder
<1>10. CASE Propose(w)
  <2>1. PICK i \in DOMAIN tx[w].seen \cap DOMAIN steps :
          Become(w, [Chosen(w, "repair", "retry", i) EXCEPT !.base = steps[i].code])
    BY <1>10 DEF Propose
  <2> DEFINE r == [Chosen(w, "repair", "retry", i) EXCEPT !.base = steps[i].code]
  <2>2. tx[w].heals + 1 \in 0..MaxHeals
    BY <1>1, <1>10, CaseAssumption DEF Propose, Heal, Good
  <2>3. Good(r) /\ ~ Holds(r) /\ ~ Holds(tx[w])
    BY <1>1, <1>10, <2>2 DEF Propose, Heal, Chosen, Good, Holds, Fields, PCs
  <2> QED
    BY <1>2, <1>3, <1>10, <2>1, <2>3 DEF Propose
<1>11. CASE Retry(w)
  <2>1. ~ Holds(tx[w]) /\ tx[w].kind = "repair"
    BY <1>11 DEF Retry, Holds
  <2>2. CASE Resume(w, "none")
    BY <1>1, <1>2, <1>3, <1>11, <2>1, <2>2, ResumeIsGood DEF Retry
  <2>3. CASE Become(w, [tx[w] EXCEPT !.pc = "apply"])
    <3> DEFINE r == [tx[w] EXCEPT !.pc = "apply"]
    <3>1. Good(r) /\ ~ Holds(r)
      BY <1>1, <2>1 DEF Good, Holds, Fields, PCs
    <3> QED
      BY <1>2, <1>3, <1>11, <2>1, <2>3, <3>1 DEF Retry
  <2> QED
    BY <1>11, <2>2, <2>3 DEF Retry
<1>12. CASE Finish(w)
  <2>1. ~ Holds(tx[w])
    BY <1>12 DEF Finish, Holds
  <2> QED
    BY <1>1, <1>2, <1>3, <1>12, <2>1, EndIsGood DEF Finish
<1> QED
  BY <1>4, <1>5, <1>6, <1>7, <1>8, <1>9, <1>10, <1>11, <1>12 DEF QuietTurn

\* A repair or a conversion writes the code of one row.
LEMMA CodeKeeps ==
  ASSUME CInv, NEW w \in Writers, Apply(w) \/ Convert(w)
  PROVE  CInv'
<1>1. Good(tx[w]) /\ TypedRows(steps) /\ WritersInv /\ stamp \in Nat
  BY DEF CInv, WritersInv, RowsInv
<1>2. \A i, c : i \in DOMAIN steps /\ c \in Code =>
        LET s == [steps EXCEPT ![i].code = c]
        IN  /\ DOMAIN s = DOMAIN steps
            /\ \A j \in DOMAIN steps : s[j] \in Row /\ s[j].ord = steps[j].ord
  BY <1>1 DEF TypedRows, Row
<1>3. CASE Apply(w)
  <2>1. ~ Holds(tx[w]) /\ UNCHANGED <<lastId, stamp, caseLock>> /\ Resume(w, "none")
    BY <1>3 DEF Apply, Holds
  <2>2. SameOrders
    <3>1. CASE StaleRepair(w)
      BY <1>1, <1>3, <3>1 DEF Apply, SameOrders, TypedRows
    <3>2. CASE ~ StaleRepair(w)
      <4> DEFINE i == tx[w].at
      <4>1. i \in DOMAIN steps /\ steps[i].code \in Code
        BY <1>1, <3>2 DEF StaleRepair, TypedRows, Row
      <4>2. steps' = [steps EXCEPT ![i].code = Repaired(steps[i].code)]
        BY <1>3, <3>2, <4>1 DEF Apply
      <4>3. Repaired(steps[i].code) \in Code
        BY <4>1 DEF Repaired, Code
      <4> QED
        BY <1>2, <2>1, <4>1, <4>2, <4>3 DEF SameOrders
    <3> QED
      BY <3>1, <3>2
  <2>3. PICK r : Become(w, r) /\ Good(r) /\ ~ Holds(r)
    BY <1>1, <2>1, ResumeIsGood
  <2> QED
    BY <1>1, <2>1, <2>2, <2>3, TurnKeeps
<1>4. CASE Convert(w)
  <2>1. PICK i \in DOMAIN tx[w].seen :
          /\ IF i \in DOMAIN steps
             THEN steps' = [steps EXCEPT ![i].code = SolverOf(w)]
             ELSE UNCHANGED steps
          /\ Become(w, [Chosen(w, "none", "choose", i) EXCEPT !.at = 0])
    BY <1>4 DEF Convert
  <2>2. SolverOf(w) \in Code /\ lastId' = lastId
    BY <1>4, CodeTypes DEF Convert
  <2>3. SameOrders
    <3>1. CASE i \in DOMAIN steps
      <4> DEFINE s == [steps EXCEPT ![i].code = SolverOf(w)]
      <4>1. /\ DOMAIN s = DOMAIN steps
            /\ \A j \in DOMAIN steps : s[j] \in Row /\ s[j].ord = steps[j].ord
        BY <1>2, <2>2, <3>1
      <4>2. steps' = s
        BY <2>1, <3>1
      <4> QED
        BY <2>2, <4>1, <4>2 DEF SameOrders
    <3>2. CASE i \notin DOMAIN steps
      BY <1>1, <2>1, <2>2, <3>2 DEF SameOrders, TypedRows
    <3> QED
      BY <3>1, <3>2
  <2> DEFINE r == [Chosen(w, "none", "choose", i) EXCEPT !.at = 0]
  <2>4. tx[w].heals + 1 \in 0..MaxHeals
    BY <1>1, <1>4, CaseAssumption DEF Convert, Heal, Good
  <2>5. Good(r) /\ ~ Holds(r) /\ ~ Holds(tx[w])
    BY <1>1, <1>4, <2>4 DEF Convert, Heal, Chosen, Good, Holds, Fields, PCs
  <2> QED
    BY <1>1, <1>4, <2>1, <2>3, <2>5, TurnKeeps DEF Convert
<1> QED
  BY <1>3, <1>4

-----------------------------------------------------------------------------
\* Actions that take the case row

LEMMA TakesKeeps ==
  ASSUME CInv, NEW w \in Writers, RequestAppend(w) \/ ReadInject(w)
  PROVE  CInv'
<1>1. Good(tx[w]) /\ RowsInv
  BY DEF CInv, WritersInv
<1>2. CASE RequestAppend(w)
  <2> DEFINE r == [tx[w] EXCEPT !.kind = "append", !.pc = "write", !.at = NextOrd(steps)]
  <2>1. /\ Good(r) /\ Holds(r) /\ r.kind = "append" /\ r.at = NextOrd(steps)
    BY <1>1 DEF Good, Holds, Fields, PCs
  <2>2. NextOrd(steps) \in Nat /\ \A i \in DOMAIN steps : steps[i].ord < NextOrd(steps)
    BY <1>1, NextOrdAbove
  <2>3. Become(w, r) /\ CaseFree /\ caseLock' = w /\ UNCHANGED <<steps, lastId, stamp>>
    BY <1>2 DEF RequestAppend
  <2> HIDE DEF r
  <2> QED
    BY <2>1, <2>2, <2>3, TurnTakes
<1>3. CASE ReadInject(w)
  <2>1. PICK i \in DOMAIN tx[w].seen :
          Become(w, [Chosen(w, "inject", "write", tx[w].seen[i].ord) EXCEPT !.base = steps])
    BY <1>3 DEF ReadInject
  <2> DEFINE r == [Chosen(w, "inject", "write", tx[w].seen[i].ord) EXCEPT !.base = steps]
  <2>2. tx[w].heals + 1 \in 0..MaxHeals /\ tx[w].seen[i].ord \in Nat
    BY <1>1, <1>3, CaseAssumption DEF ReadInject, Heal, Good, TypedRows, Row
  <2>3. /\ Good(r) /\ Holds(r) /\ r.kind = "inject" /\ r.base = steps
        /\ r.at = tx[w].seen[i].ord
    BY <1>1, <2>2 DEF Chosen, Good, Holds, Fields, PCs
  <2>4. Become(w, r) /\ CaseFree /\ caseLock' = w /\ UNCHANGED <<steps, lastId, stamp>>
    BY <1>3, <2>1 DEF ReadInject
  <2> HIDE DEF r
  <2> QED
    BY <2>2, <2>3, <2>4, TurnTakes
<1> QED
  BY <1>2, <1>3
-----------------------------------------------------------------------------
\* Actions that insert rows

\* Whoever meets a free case row, or holds it, has nobody beside him.
LEMMA AloneWithCase ==
  ASSUME CInv, NEW w \in Writers, CaseFree \/ Holds(tx[w])
  PROVE  \A v \in Writers \ {w} : ~ Holds(tx[v])
  BY CaseAssumption DEF CInv, LockInv, CaseFree, Writers

LEMMA AppendKeeps ==
  ASSUME CInv, NEW w \in Writers, Append(w)
  PROVE  CInv' /\ tx'[w].pc = "done"
<1>1. Holds(tx[w]) /\ tx[w].kind = "append" /\ caseLock = w /\ stamp' \in Nat
  BY DEF Append, Holds, CInv, LockInv, WritersInv
<1> DEFINE at == tx[w].at
<1>2. at \in Nat /\ \A i \in DOMAIN steps : steps[i].ord < at
  BY <1>1 DEF CInv, AppendInv
<1>3. at \notin Ords(steps)
  BY <1>2 DEF Ords, CInv, RowsInv, TypedRows, Row
<1>4. /\ steps' = Merge(steps, AppendRow(w)) /\ lastId' = lastId + 1
      /\ End(w, "done") /\ caseLock' = NoOne
  BY <1>1, <1>3 DEF Append
<1>5. lastId \in Nat /\ DOMAIN steps \subseteq 1..lastId
  BY DEF CInv, RowsInv
<1>6. /\ DOMAIN AppendRow(w) = {lastId + 1}
      /\ AppendRow(w)[lastId + 1] = [ord |-> at, code |-> Own(w)]
  BY DEF AppendRow
<1> DEFINE n == lastId + 1
<1>7. /\ DOMAIN steps' = DOMAIN steps \cup {n} /\ n \notin DOMAIN steps /\ n \in Nat
      /\ \A i \in DOMAIN steps : steps'[i] = steps[i]
      /\ steps'[n].ord = at /\ steps'[n] \in Row
  <2>0. /\ DOMAIN steps' = DOMAIN steps \cup DOMAIN AppendRow(w)
        /\ \A i \in DOMAIN AppendRow(w) : steps'[i] = AppendRow(w)[i]
        /\ \A i \in DOMAIN steps \ DOMAIN AppendRow(w) : steps'[i] = steps[i]
    <3>1. /\ DOMAIN Merge(steps, AppendRow(w)) = DOMAIN steps \cup DOMAIN AppendRow(w)
          /\ \A i \in DOMAIN AppendRow(w) : Merge(steps, AppendRow(w))[i] = AppendRow(w)[i]
          /\ \A i \in DOMAIN steps \ DOMAIN AppendRow(w) :
               Merge(steps, AppendRow(w))[i] = steps[i]
      BY MergeRows
    <3> QED
      BY <1>4, <3>1
  <2>1. steps'[n] = [ord |-> at, code |-> Own(w)]
    BY <1>6, <2>0
  <2>2. Own(w) \in Code
    BY CodeTypes
  <2>3. n \notin DOMAIN steps /\ n \in Nat
    BY <1>5
  <2> QED
    BY <1>2, <1>6, <2>0, <2>1, <2>2, <2>3 DEF Row
<1>8. RowsInv'
  <2>1. lastId' \in Nat /\ DOMAIN steps' \subseteq 1..lastId'
    BY <1>4, <1>5, <1>7
  <2>2. TypedRows(steps)' /\ DistinctOrds(steps)'
    BY <1>2, <1>7 DEF TypedRows, DistinctOrds, CInv, RowsInv, Row
  <2>3. \A i \in DOMAIN steps' : steps'[i].ord <= at
    BY <1>2, <1>7 DEF CInv, RowsInv, TypedRows, Row
  <2> QED
    BY <1>2, <2>1, <2>2, <2>3 DEF RowsInv, Bounded
<1>9. PICK r : Become(w, r) /\ Good(r) /\ ~ Holds(r) /\ r.pc = "done"
  BY <1>4, EndIsGood DEF CInv
<1>10. tx'[w].pc = "done"
  BY <1>9, Others DEF CInv
<1> QED
  BY <1>1, <1>4, <1>8, <1>9, <1>10, AloneWithCase, TurnFrees

LEMMA PayloadType ==
  ASSUME CInv, NEW w \in Writers, NEW n \in Nat, NEW changed, NEW o \in 0..(n - 1)
  PROVE  Payload(w, n, changed)[o] \in Code
<1> DEFINE seen == tx[w].seen
<1>1. Own(w) \in Code
  BY CodeTypes
<1>2. ASSUME o \in Ords(seen) PROVE seen[IdAt(seen, o)].code \in Code
  <2>1. \E i \in DOMAIN seen : seen[i].ord = o
    BY <1>2 DEF Ords
  <2>2. IdAt(seen, o) \in DOMAIN seen
    BY <2>1 DEF IdAt
  <2> QED
    BY <2>2 DEF CInv, WritersInv, Good, TypedRows, Row
<1> QED
  BY <1>1, <1>2 DEF Payload

LEMMA InsertKeeps ==
  ASSUME CInv, NEW w \in Writers, Insert(w)
  PROVE  CInv'
<1>1. /\ tx[w].kind = "replace" /\ tx[w].pc = "insert" /\ CaseFree /\ ~ Holds(tx[w])
      /\ caseLock' = caseLock /\ caseLock = NoOne /\ stamp' = stamp /\ stamp \in Nat
  BY DEF Insert, CaseFree, Holds, CInv, WritersInv
<1> DEFINE kept == Without(steps, DOMAIN tx[w].base)
<1>2. PICK n \in 1..MaxPayload : \E changed \in {0, n} :
         LET clash == {i \in DOMAIN kept : kept[i].ord < n}
             payload == Payload(w, n, changed)
         IN IF clash = {}
            THEN /\ steps' = Merge(kept, [i \in (lastId + 1)..(lastId + n) |->
                               [ord |-> i - lastId - 1, code |-> payload[i - lastId - 1]]])
                 /\ lastId' = lastId + n
                 /\ End(w, "done")
            ELSE /\ Free(w, clash)
                 /\ End(w, "failed")
                 /\ UNCHANGED <<steps, lastId>>
  BY DEF Insert
<1>3. PICK changed \in {0, n} :
         \/ /\ {i \in DOMAIN kept : kept[i].ord < n} = {}
            /\ steps' = Merge(kept, [i \in (lastId + 1)..(lastId + n) |->
                 [ord |-> i - lastId - 1, code |-> Payload(w, n, changed)[i - lastId - 1]]])
            /\ lastId' = lastId + n
            /\ End(w, "done")
         \/ End(w, "failed") /\ UNCHANGED <<steps, lastId>>
  BY <1>2
<1>4. CASE End(w, "failed") /\ UNCHANGED <<steps, lastId>>
  BY <1>1, <1>4, EndIsGood, TurnKeeps, Unchanged DEF CInv
<1>5. CASE /\ {i \in DOMAIN kept : kept[i].ord < n} = {}
           /\ steps' = Merge(kept, [i \in (lastId + 1)..(lastId + n) |->
                [ord |-> i - lastId - 1, code |-> Payload(w, n, changed)[i - lastId - 1]]])
           /\ lastId' = lastId + n
           /\ End(w, "done")
  <2> DEFINE new == [i \in (lastId + 1)..(lastId + n) |->
                [ord |-> i - lastId - 1, code |-> Payload(w, n, changed)[i - lastId - 1]]]
  <2>1. n \in Nat /\ lastId \in Nat /\ DOMAIN steps \subseteq 1..lastId
    BY CaseAssumption DEF CInv, RowsInv
  <2>2. /\ DOMAIN kept \subseteq DOMAIN steps
        /\ \A i \in DOMAIN kept : kept[i] = steps[i] /\ ~ (kept[i].ord < n)
    BY <1>5 DEF Without
  <2>3. /\ DOMAIN new = (lastId + 1)..(lastId + n)
        /\ \A i \in DOMAIN new : new[i].ord = i - lastId - 1 /\ new[i] \in Row
    <3>1. ASSUME NEW i \in (lastId + 1)..(lastId + n)
          PROVE  /\ i - lastId - 1 \in 0..(n - 1) /\ i - lastId - 1 \in Nat
                 /\ Payload(w, n, changed)[i - lastId - 1] \in Code
      BY <2>1, PayloadType
    <3> QED
      BY <3>1 DEF Row
  <2> HIDE DEF kept, new
  <2>4. /\ DOMAIN steps' = DOMAIN kept \cup DOMAIN new
        /\ \A i \in DOMAIN new : steps'[i] = new[i]
        /\ \A i \in DOMAIN kept : steps'[i] = steps[i] /\ i \notin DOMAIN new
    <3>1. \A i \in DOMAIN kept : i \notin DOMAIN new
      BY <2>1, <2>2, <2>3
    <3>2. steps' = Merge(kept, new)
      BY <1>5 DEF kept, new
    <3>3. /\ DOMAIN Merge(kept, new) = DOMAIN kept \cup DOMAIN new
          /\ \A i \in DOMAIN new : Merge(kept, new)[i] = new[i]
          /\ \A i \in DOMAIN kept \ DOMAIN new : Merge(kept, new)[i] = kept[i]
      BY MergeRows
    <3> QED
      BY <2>2, <3>1, <3>2, <3>3
  <2>5. RowsInv'
    <3>1. lastId' \in Nat /\ DOMAIN steps' \subseteq 1..lastId'
      BY <1>5, <2>1, <2>2, <2>3, <2>4
    <3>2. TypedRows(steps)'
      BY <2>1, <2>2, <2>3, <2>4 DEF TypedRows, CInv, RowsInv
    <3>3. DistinctOrds(steps)'
      <4>1. \A i, j \in DOMAIN kept : i # j => steps[i].ord # steps[j].ord
        BY <2>2 DEF CInv, RowsInv, DistinctOrds
      <4>2. \A i \in DOMAIN kept : steps[i].ord \in Nat /\ ~ (steps[i].ord < n)
        BY <2>2 DEF CInv, RowsInv, TypedRows, Row
      <4>3. \A i \in DOMAIN new : new[i].ord \in Nat /\ new[i].ord < n
        BY <2>1, <2>3
      <4>4. \A i, j \in DOMAIN new : i # j => new[i].ord # new[j].ord
        BY <2>1, <2>3
      <4> QED
        BY <2>4, <4>1, <4>2, <4>3, <4>4 DEF DistinctOrds
    <3>4. PICK b \in Nat : \A i \in DOMAIN steps : steps[i].ord <= b
      BY DEF CInv, RowsInv, Bounded
    <3>5. b + n \in Nat /\ \A i \in DOMAIN steps' : steps'[i].ord <= b + n
      <4>1. \A i \in DOMAIN kept : steps'[i].ord \in Nat /\ steps'[i].ord <= b
        BY <2>2, <2>4, <3>4 DEF CInv, RowsInv, TypedRows, Row
      <4>2. \A i \in DOMAIN new : steps'[i].ord \in Nat /\ steps'[i].ord <= n
        BY <2>1, <2>3, <2>4
      <4> QED
        BY <2>1, <2>4, <4>1, <4>2
    <3> QED
      BY <3>1, <3>2, <3>3, <3>5 DEF RowsInv, Bounded
  <2>6. PICK r : Become(w, r) /\ Good(r) /\ ~ Holds(r)
    BY <1>5, EndIsGood DEF CInv
  <2> QED
    BY <1>1, <2>5, <2>6, AloneWithCase, TurnFrees
<1> QED
  BY <1>3, <1>4, <1>5
\* The rows after an injection.
LEMMA InjectedRows ==
  ASSUME CInv, NEW w \in Writers, Holds(tx[w]), tx[w].kind = "inject",
         steps' = Merge(steps,
           [i \in Shifted(w) \cup {lastId + 1} |->
              IF i \in Shifted(w) THEN [steps[i] EXCEPT !.ord = NewOrd(w, i)]
              ELSE [ord |-> tx[w].at, code |-> SolverOf(w)]])
  PROVE  /\ Shifted(w) \subseteq DOMAIN steps
         /\ DOMAIN steps' = DOMAIN steps \cup {lastId + 1}
         /\ lastId + 1 \notin DOMAIN steps /\ lastId + 1 \in Nat
         /\ \A i \in Shifted(w) :
              /\ steps'[i] \in Row /\ steps'[i].code = steps[i].code
              /\ steps'[i].ord = tx[w].base[i].ord + 1
         /\ \A i \in DOMAIN steps \ Shifted(w) : steps'[i] = steps[i]
         /\ steps'[lastId + 1] = [ord |-> tx[w].at, code |-> SolverOf(w)]
<1> DEFINE n == lastId + 1
           base == tx[w].base
           new == [i \in Shifted(w) \cup {n} |->
                     IF i \in Shifted(w) THEN [steps[i] EXCEPT !.ord = NewOrd(w, i)]
                     ELSE [ord |-> tx[w].at, code |-> SolverOf(w)]]
<1>1. DOMAIN base = DOMAIN steps /\ TypedRows(base) /\ TypedRows(steps)
  BY DEF CInv, InjectInv, RowsInv
<1>2. Shifted(w) \subseteq DOMAIN steps
  BY <1>1 DEF Shifted
<1>3. n \in Nat /\ n \notin DOMAIN steps
  BY DEF CInv, RowsInv
<1>4. \A i \in Shifted(w) : base[i].ord + 1 \in Nat /\ NewOrd(w, i) = base[i].ord + 1
  BY <1>1, <1>2 DEF TypedRows, Row, NewOrd
<1>5. /\ DOMAIN Merge(steps, new) = DOMAIN steps \cup DOMAIN new
      /\ \A i \in DOMAIN new : Merge(steps, new)[i] = new[i]
      /\ \A i \in DOMAIN steps \ DOMAIN new : Merge(steps, new)[i] = steps[i]
  BY MergeRows
<1>6. /\ DOMAIN new = Shifted(w) \cup {n}
      /\ \A i \in Shifted(w) : new[i] = [steps[i] EXCEPT !.ord = NewOrd(w, i)]
      /\ new[n] = [ord |-> tx[w].at, code |-> SolverOf(w)]
  BY <1>2, <1>3
<1> HIDE DEF new
<1>7. \A i \in Shifted(w) : /\ new[i] \in Row /\ new[i].code = steps[i].code
                            /\ new[i].ord = base[i].ord + 1
  BY <1>1, <1>2, <1>4, <1>6 DEF TypedRows, Row
<1>8. steps' = Merge(steps, new)
  BY DEF new
<1> QED
  BY <1>2, <1>3, <1>5, <1>6, <1>7, <1>8

LEMMA WriteInjectKeeps ==
  ASSUME CInv, NEW w \in Writers, WriteInject(w)
  PROVE  CInv'
<1>1. Holds(tx[w]) /\ tx[w].kind = "inject" /\ caseLock' = NoOne /\ stamp' \in Nat
  BY DEF WriteInject, Holds, CInv, WritersInv
<1>2. RowsInv'
  <2>1. CASE UNCHANGED <<steps, lastId>>
    BY <2>1 DEF CInv, RowsInv
  <2>2. CASE /\ ~ MustClash(w)
             /\ steps' = Merge(steps,
                  [i \in Shifted(w) \cup {lastId + 1} |->
                     IF i \in Shifted(w) THEN [steps[i] EXCEPT !.ord = NewOrd(w, i)]
                     ELSE [ord |-> tx[w].at, code |-> SolverOf(w)]])
             /\ lastId' = lastId + 1
    <3> DEFINE n == lastId + 1
               S == Shifted(w)
               at == tx[w].at
               base == tx[w].base
    <3>1. /\ S \subseteq DOMAIN steps
          /\ DOMAIN steps' = DOMAIN steps \cup {n} /\ n \notin DOMAIN steps /\ n \in Nat
          /\ \A i \in S : steps'[i] \in Row /\ steps'[i].ord = base[i].ord + 1
          /\ \A i \in DOMAIN steps \ S : steps'[i] = steps[i]
          /\ steps'[n] = [ord |-> at, code |-> SolverOf(w)]
      BY <1>1, <2>2, InjectedRows
    <3>2. /\ at \in Nat /\ TypedRows(base) /\ DistinctOrds(base)
          /\ DOMAIN base = DOMAIN steps
      BY <1>1 DEF CInv, InjectInv
    <3>3. \A i \in S : i \in DOMAIN base /\ base[i].ord \in Nat /\ base[i].ord >= at
      BY <3>1, <3>2 DEF Shifted, TypedRows, Row
    <3>4. \A i \in S, j \in DOMAIN steps \ S : steps[j].ord # base[i].ord + 1
      BY <2>2 DEF MustClash, NewOrd
    <3>5. \A j \in DOMAIN steps \ S : steps[j].ord # at
      BY <2>2 DEF MustClash, Ords, Without
    <3> HIDE DEF S, at, base
    <3>6. steps'[n] \in Row /\ steps'[n].ord = at
      BY <3>1, <3>2, CodeTypes DEF Row
    <3>7. TypedRows(steps)'
      BY <3>1, <3>6 DEF TypedRows, CInv, RowsInv
    <3>8. DistinctOrds(steps)'
      <4>1. \A i, j \in S : i # j => steps'[i].ord # steps'[j].ord
        BY <3>1, <3>2, <3>3 DEF DistinctOrds
      <4>2. \A i, j \in DOMAIN steps \ S : i # j => steps'[i].ord # steps'[j].ord
        BY <3>1 DEF CInv, RowsInv, DistinctOrds
      <4>3. \A i \in S, j \in DOMAIN steps \ S : steps'[i].ord # steps'[j].ord
        BY <3>1, <3>4
      <4>4. \A i \in DOMAIN steps : steps'[i].ord # at
        <5>1. \A i \in S : steps'[i].ord # at
          BY <3>1, <3>2, <3>3
        <5> QED
          BY <3>1, <3>5, <5>1
      <4> QED
        BY <3>1, <3>6, <4>1, <4>2, <4>3, <4>4 DEF DistinctOrds
    <3>9. lastId' \in Nat /\ DOMAIN steps' \subseteq 1..lastId'
      BY <2>2, <3>1 DEF CInv, RowsInv
    <3>10. \E b \in Nat : \A i \in DOMAIN steps' : steps'[i].ord <= b
      <4>1. PICK m \in Nat : \A i \in DOMAIN steps : steps[i].ord <= m
        BY DEF CInv, RowsInv, Bounded
      <4>2. PICK k \in Nat : \A i \in DOMAIN base : base[i].ord <= k
        BY <1>1 DEF CInv, InjectInv, Bounded, base
      <4>3. \A i \in S : steps'[i].ord <= m + k + at + 1
        BY <3>1, <3>2, <3>3, <4>1, <4>2
      <4>4. \A i \in DOMAIN steps \ S : steps'[i].ord <= m + k + at + 1
        BY <3>1, <3>2, <4>1, <4>2 DEF CInv, RowsInv, TypedRows, Row
      <4>5. steps'[n].ord <= m + k + at + 1 /\ m + k + at + 1 \in Nat
        BY <3>2, <3>6, <4>1, <4>2
      <4> QED
        BY <3>1, <4>3, <4>4, <4>5
    <3> QED
      BY <3>7, <3>8, <3>9, <3>10 DEF RowsInv, Bounded
  <2> QED
    BY <2>1, <2>2 DEF WriteInject
<1>3. \E kind : Resume(w, kind)
  BY DEF WriteInject
<1>4. PICK r : Become(w, r) /\ Good(r) /\ ~ Holds(r)
  BY <1>3, ResumeIsGood DEF CInv
<1> QED
  BY <1>1, <1>2, <1>4, AloneWithCase, TurnFrees

LEMMA BreakKeeps ==
  ASSUME CInv, NEW w \in Writers, NEW v \in Editors, BreakDeadlock(w, v)
  PROVE  CInv'
<1>1. /\ Holds(tx[w]) /\ v \in Writers /\ ~ Holds(tx[v]) /\ tx[v].kind = "replace"
      /\ UNCHANGED <<steps, lastId, stamp>> /\ SameOrders /\ stamp' \in Nat
  BY Unchanged DEF BreakDeadlock, Holds, Writers
<1>2. CASE End(v, "failed") /\ UNCHANGED caseLock
  BY <1>1, <1>2, EndIsGood, TurnKeeps DEF CInv
<1>3. CASE Resume(w, "failed") /\ caseLock' = NoOne
  <2>1. PICK r : Become(w, r) /\ Good(r) /\ ~ Holds(r)
    BY <1>3, ResumeIsGood DEF CInv
  <2>2. RowsInv'
    BY <1>1 DEF CInv, RowsInv
  <2> QED
    BY <1>1, <1>3, <2>1, <2>2, AloneWithCase, TurnFrees
<1> QED
  BY <1>2, <1>3 DEF BreakDeadlock
-----------------------------------------------------------------------------
\* A reorder keeps the ids, and gives them the orders from 0 on.

ReorderOf(w) ==
  LET ids == DOMAIN tx[w].seen
      slots == 0..(Cardinality(ids) - 1)
  IN  /\ ids \subseteq DOMAIN steps
      /\ Ords(Without(steps, ids)) \cap slots = {}
      /\ \E to \in Bijection(ids, slots) :
           steps' = [i \in DOMAIN steps |->
                       IF i \in ids THEN [steps[i] EXCEPT !.ord = to[i]] ELSE steps[i]]
      /\ Overtake(w, [Writer("done") EXCEPT !.kind = "reorder"])

LEMMA ReorderedRows ==
  ASSUME CInv, NEW w \in Writers, ReorderOf(w), lastId' = lastId
  PROVE  /\ RowsInv' /\ DOMAIN steps' = DOMAIN steps
         /\ \A n \in Nat : (\A i \in DOMAIN steps : steps[i].ord < n) =>
              \A i \in DOMAIN steps' : steps'[i].ord < n
<1> DEFINE ids == DOMAIN tx[w].seen
           c == Cardinality(ids)
<1>1. PICK to \in Bijection(ids, 0..(c - 1)) :
        steps' = [i \in DOMAIN steps |->
                    IF i \in ids THEN [steps[i] EXCEPT !.ord = to[i]] ELSE steps[i]]
  BY DEF ReorderOf
<1>2. ids \subseteq DOMAIN steps
  BY DEF ReorderOf
<1>3. \A j \in DOMAIN steps \ ids : steps[j].ord \notin 0..(c - 1)
  BY DEF ReorderOf, Ords, Without
<1>4. IsFiniteSet(DOMAIN steps) /\ IsFiniteSet(ids) /\ c \in Nat
      /\ c <= Cardinality(DOMAIN steps)
  <2>1. DOMAIN steps \subseteq 1..lastId /\ lastId \in Nat
    BY DEF CInv, RowsInv
  <2>2. IsFiniteSet(1..lastId)
    BY <2>1, FS_Interval
  <2> QED
    BY <1>2, <2>1, <2>2, FS_Subset, FS_CardinalityType
<1>5. /\ \A i \in ids : to[i] \in 0..(c - 1)
      /\ \A i, j \in ids : to[i] = to[j] => i = j
  BY <1>1 DEF Bijection, Injection, IsInjective
<1>6. TypedRows(steps) /\ DistinctOrds(steps) /\ Bounded(steps)
  BY DEF CInv, RowsInv
<1> HIDE DEF ids, c
<1>7. /\ DOMAIN steps' = DOMAIN steps
      /\ \A i \in ids : steps'[i] \in Row /\ steps'[i].ord = to[i]
      /\ \A i \in DOMAIN steps \ ids : steps'[i] = steps[i]
  BY <1>1, <1>2, <1>4, <1>5, <1>6 DEF TypedRows, Row
<1>8. TypedRows(steps)'
  BY <1>6, <1>7 DEF TypedRows
<1>9. DistinctOrds(steps)'
  <2>1. \A i, j \in ids : i # j => steps'[i].ord # steps'[j].ord
    BY <1>5, <1>7
  <2>2. \A i, j \in DOMAIN steps \ ids : i # j => steps'[i].ord # steps'[j].ord
    BY <1>6, <1>7 DEF DistinctOrds
  <2>3. \A i \in ids, j \in DOMAIN steps \ ids : steps'[i].ord # steps'[j].ord
    BY <1>3, <1>5, <1>7
  <2> QED
    BY <1>7, <2>1, <2>2, <2>3 DEF DistinctOrds
<1>10. ASSUME NEW n \in Nat, \A i \in DOMAIN steps : steps[i].ord < n
       PROVE  \A i \in DOMAIN steps' : steps'[i].ord < n
  <2>1. Cardinality(DOMAIN steps) <= n
    BY <1>10, FewRowsBelow DEF CInv
  <2>2. c <= n
    BY <1>4, <2>1, FS_CardinalityType
  <2>3. \A i \in ids : steps'[i].ord < n
    BY <1>4, <1>5, <1>7, <2>2
  <2> QED
    BY <1>7, <1>10, <2>3
<1>11. Bounded(steps)'
  <2>1. PICK b \in Nat : \A i \in DOMAIN steps : steps[i].ord <= b
    BY <1>6 DEF Bounded
  <2>2. b + 1 \in Nat /\ \A i \in DOMAIN steps : steps[i].ord < b + 1
    BY <1>6, <2>1 DEF TypedRows, Row
  <2>3. \A i \in DOMAIN steps' : steps'[i].ord < b + 1
    BY <1>10, <2>2
  <2>4. \A i \in DOMAIN steps' : steps'[i].ord <= b + 1
    BY <1>8, <2>3 DEF TypedRows, Row
  <2> QED
    BY <2>2, <2>4 DEF Bounded
<1> QED
  BY <1>7, <1>8, <1>9, <1>10, <1>11 DEF CInv, RowsInv

LEMMA ReorderKeeps ==
  ASSUME CInv, NEW w \in Writers, Reorder(w)
  PROVE  CInv'
<1>1. /\ ~ Holds(tx[w]) /\ tx[w].kind = "reorder" /\ stamp' \in Nat
      /\ UNCHANGED <<lastId, stamp, caseLock>>
  BY DEF Reorder, Holds, CInv, WritersInv
<1>2. CASE End(w, "failed") /\ UNCHANGED steps
  BY <1>1, <1>2, EndIsGood, TurnKeeps, Unchanged DEF CInv
<1>3. CASE ReorderOf(w)
  <2> DEFINE r == [Writer("done") EXCEPT !.kind = "reorder"]
  <2>1. /\ DOMAIN r = Fields /\ r.pc = "done" /\ r.kind = "reorder"
        /\ r.heals = 0 /\ r.seen = <<>>
    BY DEF Writer, Fields
  <2>2. TypedRows(<<>>) /\ 0 \in 0..MaxHeals
    BY CaseAssumption DEF TypedRows
  <2>3. tx' = [v \in Writers |->
                 IF v = w THEN r
                 ELSE [tx[v] EXCEPT !.overtaken = @ \/ (tx[v].kind = "inject" /\ tx[v].pc = "write")]]
    BY <1>3 DEF ReorderOf, Overtake
  <2> HIDE DEF r
  <2>4. Good(r) /\ ~ Holds(r)
    BY <2>1, <2>2 DEF Good, Holds, PCs
  <2>5. \A v \in Writers \ {w} : Good(tx[v])
    BY DEF CInv, WritersInv
  <2>6. /\ DOMAIN tx' = Writers /\ tx'[w] = r
        /\ \A v \in Writers \ {w} :
             /\ tx'[v] = [tx[v] EXCEPT !.overtaken = @ \/ (tx[v].kind = "inject" /\ tx[v].pc = "write")]
    BY <2>3
  <2>7. \A v \in Writers \ {w} :
             /\ DOMAIN tx'[v] = DOMAIN tx[v]
             /\ tx'[v].pc = tx[v].pc /\ tx'[v].kind = tx[v].kind /\ tx'[v].seen = tx[v].seen
             /\ tx'[v].at = tx[v].at /\ tx'[v].base = tx[v].base /\ tx'[v].heals = tx[v].heals
             /\ Holds(tx[v]) /\ tx[v].kind = "inject" => tx'[v].overtaken
    <3> SUFFICES ASSUME NEW v \in Writers \ {w}
                 PROVE  /\ DOMAIN tx'[v] = DOMAIN tx[v]
                        /\ tx'[v].pc = tx[v].pc /\ tx'[v].kind = tx[v].kind
                        /\ tx'[v].seen = tx[v].seen /\ tx'[v].at = tx[v].at
                        /\ tx'[v].base = tx[v].base /\ tx'[v].heals = tx[v].heals
                        /\ Holds(tx[v]) /\ tx[v].kind = "inject" => tx'[v].overtaken
      OBVIOUS
    <3> DEFINE late == tx[v].overtaken \/ (tx[v].kind = "inject" /\ tx[v].pc = "write")
    <3>1. tx'[v] = [tx[v] EXCEPT !.overtaken = late] /\ DOMAIN tx[v] = Fields
      BY <2>5, <2>6 DEF Good
    <3>2. Holds(tx[v]) /\ tx[v].kind = "inject" => late
      BY DEF Holds
    <3> HIDE DEF late
    <3>3. tx'[v].overtaken = late
      BY <3>1 DEF Fields
    <3> QED
      BY <3>1, <3>2, <3>3 DEF Fields
  <2>8. RowsInv' /\ DOMAIN steps' = DOMAIN steps
        /\ \A n \in Nat : (\A i \in DOMAIN steps : steps[i].ord < n) =>
             \A i \in DOMAIN steps' : steps'[i].ord < n
    BY <1>1, <1>3, ReorderedRows
  <2>9. WritersInv'
    BY <1>1, <2>4, <2>5, <2>6, <2>7 DEF WritersInv, Good
  <2>10. LockInv'
    BY <1>1, <2>4, <2>6, <2>7 DEF CInv, LockInv, Holds
  <2>11. AppendInv'
    BY <2>4, <2>6, <2>7, <2>8 DEF CInv, AppendInv, Holds
  <2>12. InjectInv'
    BY <2>4, <2>6, <2>7, <2>8 DEF CInv, InjectInv, Holds
  <2> QED
    BY <2>8, <2>9, <2>10, <2>11, <2>12 DEF CInv
<1> QED
  BY <1>2, <1>3 DEF Reorder, ReorderOf

-----------------------------------------------------------------------------
LEMMA InitKeeps == Init => CInv
<1> SUFFICES ASSUME Init PROVE CInv
  OBVIOUS
<1>1. /\ DOMAIN steps = 1..InitSteps /\ lastId = InitSteps /\ InitSteps \in Nat
      /\ \A i \in DOMAIN steps : steps[i].ord = i - 1 /\ steps[i].code = Own(NoOne)
                                 /\ steps[i] = [ord |-> i - 1, code |-> Own(NoOne)]
  BY CaseAssumption DEF Init
<1>2. \A i \in DOMAIN steps : steps[i] \in Row
  BY <1>1, CodeTypes DEF Row
<1>3. Bounded(steps)
  BY <1>1 DEF Bounded
<1>4. RowsInv
  BY <1>1, <1>2, <1>3 DEF RowsInv, TypedRows, DistinctOrds
<1> DEFINE r == Writer("load")
<1>5. DOMAIN r = Fields /\ r.pc = "load" /\ r.kind = "none" /\ r.heals = 0 /\ r.seen = <<>>
  BY DEF Writer, Fields
<1>6. TypedRows(<<>>) /\ 0 \in 0..MaxHeals
  BY CaseAssumption DEF TypedRows
<1>7. DOMAIN tx = Writers /\ \A w \in Writers : tx[w] = r
  BY DEF Init
<1> HIDE DEF r
<1>8. Good(r) /\ ~ Holds(r)
  BY <1>5, <1>6 DEF Good, Holds, PCs
<1>9. WritersInv
  BY <1>7, <1>8 DEF WritersInv, Init
<1>10. LockInv
  BY <1>7, <1>8, CaseAssumption DEF LockInv, Init, Writers
<1>11. AppendInv /\ InjectInv
  BY <1>7, <1>8 DEF AppendInv, InjectInv
<1> QED
  BY <1>4, <1>9, <1>10, <1>11 DEF CInv

LEMMA StepKeeps ==
  ASSUME CInv, NEW w \in Writers, Step(w)
  PROVE  CInv'
<1>1. CASE QuietTurn(w)
  BY <1>1, QuietKeeps
<1>2. CASE Apply(w) \/ Convert(w)
  BY <1>2, CodeKeeps
<1>3. CASE RequestAppend(w) \/ ReadInject(w)
  BY <1>3, TakesKeeps
<1>4. CASE Append(w)
  BY <1>4, AppendKeeps
<1>5. CASE Insert(w)
  BY <1>5, InsertKeeps
<1>6. CASE WriteInject(w)
  BY <1>6, WriteInjectKeeps
<1>7. CASE Reorder(w)
  BY <1>7, ReorderKeeps
<1>8. CASE \E v \in Editors : BreakDeadlock(w, v)
  BY <1>8, BreakKeeps
<1> QED
  BY <1>1, <1>2, <1>3, <1>4, <1>5, <1>6, <1>7, <1>8 DEF Step, QuietTurn

LEMMA CInvStep == CInv /\ [Next]_vars => CInv'
<1> SUFFICES ASSUME CInv, [Next]_vars PROVE CInv'
  OBVIOUS
<1>1. CASE UNCHANGED vars
  BY <1>1 DEF vars, CInv, RowsInv, WritersInv, LockInv, AppendInv, InjectInv
<1> QED
  BY <1>1, StepKeeps DEF Next, Done

LEMMA CInvHolds == Spec => []CInv
  BY InitKeeps, CInvStep, PTL DEF Spec

\* The steps of a case keep their types and distinct orders, and the case row
\* is held only by a writer between its reads and its writes, for any number
\* of requests and runs.
THEOREM CaseTypeCorrect == Spec => []CaseTypeOK
<1>1. CInv => CaseTypeOK
  <2> SUFFICES ASSUME CInv PROVE CaseTypeOK
    OBVIOUS
  <2>1. \A i \in DOMAIN steps : i \in 1..lastId /\ steps[i] \in Row
    BY DEF CInv, RowsInv, TypedRows
  <2>2. \A i, j \in DOMAIN steps : i # j => steps[i].ord # steps[j].ord
    BY DEF CInv, RowsInv, DistinctOrds
  <2>3. \A w \in Writers : tx[w].pc \in PCs /\ tx[w].heals <= MaxHeals
    BY CaseAssumption DEF CInv, WritersInv, Good
  <2>4. caseLock # NoOne => tx[caseLock].pc = "write" /\ tx[caseLock].kind \in {"append", "inject"}
    BY DEF CInv, LockInv, Holds
  <2> QED
    BY <2>1, <2>2, <2>3, <2>4 DEF CaseTypeOK, CInv, LockInv, WritersInv
<1> QED
  BY <1>1, CInvHolds, PTL

\* No append is refused by the unique order of the steps, whatever replaces,
\* reorders, injects or appends beside it (append_step's lock on the case).
THEOREM AppendsAlwaysSucceed == Spec => []AppendsSucceed
<1>1. CInv => AppendsSucceed
  BY DEF CInv, WritersInv, Good, AppendsSucceed, Writers
<1> QED
  BY <1>1, CInvHolds, PTL

-----------------------------------------------------------------------------
\* Steps of one writer, seen by the others

Mine(v) == \E r : Become(v, r)

LEMMA Moves ==
  ASSUME NEW v \in Writers, Step(v)
  PROVE  \/ Mine(v)
         \/ tx[v].kind = "reorder" /\ Overtake(v, [Writer("done") EXCEPT !.kind = "reorder"])
         \/ \E u \in Editors : Mine(u) /\ tx[u].kind = "replace"
<1> USE DEF Mine
<1>1. \A u, pc : End(u, pc) => Mine(u)
  BY DEF End
<1>2. \A u, k : Resume(u, k) => Mine(u)
  BY <1>1 DEF Resume
<1>3. CASE Load(v) \/ StartDelete(v) \/ Delete(v)
  BY <1>3 DEF Load, StartDelete, Delete
<1>4. CASE PatchCase(v) \/ Finish(v) \/ Append(v)
  BY <1>1, <1>4 DEF PatchCase, Finish, Append
<1>5. CASE RequestReplace(v) \/ RequestReorder(v)
  BY <1>1, <1>5 DEF RequestReplace, RequestReorder, Request
<1>6. CASE RequestAppend(v) \/ ReadInject(v)
  BY <1>6 DEF RequestAppend, ReadInject
<1>7. CASE ReadReorder(v) \/ Retry(v)
  BY <1>1, <1>2, <1>7 DEF ReadReorder, Retry
<1>8. CASE Insert(v)
  <2>1. \E n \in 1..MaxPayload : \E changed \in {0, n} : End(v, "done") \/ End(v, "failed")
    BY <1>8 DEF Insert
  <2> QED
    BY <1>1, <2>1
<1>9. CASE Propose(v) \/ Convert(v)
  BY <1>9 DEF Propose, Convert
<1>10. CASE Apply(v) \/ WriteInject(v)
  BY <1>2, <1>10 DEF Apply, WriteInject
<1>11. CASE Reorder(v)
  BY <1>1, <1>11 DEF Reorder
<1>12. CASE \E u \in Editors : BreakDeadlock(v, u)
  BY <1>1, <1>2, <1>12 DEF BreakDeadlock
<1> QED
  BY <1>3, <1>4, <1>5, <1>6, <1>7, <1>8, <1>9, <1>10, <1>11, <1>12 DEF Step

\* Nobody else decides about a repair or an injection.
LEMMA OnlyMine ==
  ASSUME CInv, NEW v \in Writers, Step(v), NEW w \in Writers, w # v,
         tx[w].kind # "replace"
  PROVE  tx'[w].pc = tx[w].pc /\ tx'[w].kind = tx[w].kind
<1>1. DOMAIN tx = Writers /\ Good(tx[w]) /\ Editors \subseteq Writers
  BY DEF CInv, WritersInv, Writers
<1>2. CASE Mine(v)
  BY <1>1, <1>2 DEF Mine, Become
<1>3. CASE Overtake(v, [Writer("done") EXCEPT !.kind = "reorder"])
  BY <1>1, <1>3 DEF Overtake, Good, Fields
<1>4. CASE \E u \in Editors : Mine(u) /\ tx[u].kind = "replace"
  BY <1>1, <1>4 DEF Mine, Become
<1> QED
  BY <1>2, <1>3, <1>4, Moves

\* A stored repair replaces the very code it was computed from and touches no
\* other row (SelfHealService.apply's fingerprint under its row locks).
THEOREM RepairsKeepEdits == Spec => RepairKeepsEdits
<1> DEFINE P(w) == /\ DOMAIN steps' = DOMAIN steps
                   /\ steps'[tx[w].at].code = Repaired(tx[w].base)
                   /\ steps[tx[w].at].code = tx[w].base
                   /\ \A i \in DOMAIN steps \ {tx[w].at} : steps'[i] = steps[i]
<1>1. ASSUME CInv, Next, NEW w \in Writers,
             tx[w].pc = "apply", tx'[w].pc # "apply", steps' # steps
      PROVE  P(w)
  <2>1. PICK v \in Writers : Step(v)
    BY <1>1 DEF Next, Done, vars
  <2>2. tx[w].kind = "repair"
    BY <1>1 DEF CInv, WritersInv, Good
  <2>3. v = w
    BY <1>1, <2>1, <2>2, OnlyMine
  <2>4. Apply(w)
    BY <1>1, <2>1, <2>2, <2>3
    DEF Step, Load, PatchCase, RequestReplace, RequestReorder, Request, StartDelete, Delete,
        Insert, RequestAppend, Append, ReadReorder, Reorder, Propose, Heal, Retry,
        Convert, ReadInject, WriteInject, Finish, BreakDeadlock
  <2>5. ~ StaleRepair(w)
    BY <1>1, <2>4 DEF Apply
  <2>6. /\ tx[w].at \in DOMAIN steps /\ steps[tx[w].at].code = tx[w].base
        /\ steps[tx[w].at] \in Row
    BY <1>1, <2>5 DEF StaleRepair, CInv, RowsInv, TypedRows
  <2>7. steps' = [steps EXCEPT ![tx[w].at].code = Repaired(steps[tx[w].at].code)]
    BY <2>4, <2>5, <2>6 DEF Apply
  <2> QED
    BY <2>6, <2>7 DEF Row
<1>2. CInv /\ [Next]_vars =>
        [\A w \in Writers :
           tx[w].pc = "apply" /\ tx'[w].pc # "apply" /\ steps' # steps => P(w)]_vars
  BY <1>1
<1> QED
  BY <1>2, CInvHolds, PTL DEF Spec, RepairKeepsEdits

\* A stored injection that no reorder passed adds one solve step and keeps the
\* code and the relative order of all others.
THEOREM InjectionsKeepOrder == Spec => InjectionKeepsOrder
<1> DEFINE Due(w) == /\ tx[w].kind = "inject" /\ tx[w].pc = "write" /\ ~tx[w].overtaken
                     /\ tx'[w].kind = "none"
           P == /\ DOMAIN steps' = DOMAIN steps \cup {lastId'}
                /\ steps'[lastId'].code.solver
                /\ \A i \in DOMAIN steps : steps'[i].code = steps[i].code
                /\ \A i, j \in DOMAIN steps :
                     steps[i].ord < steps[j].ord => steps'[i].ord < steps'[j].ord
<1>1. ASSUME CInv, Next, NEW w \in Runs, Due(w)
      PROVE  P
  <2>0. w \in Writers /\ w \notin Editors
    BY <1>1, CaseAssumption DEF Writers
  <2>1. PICK v \in Writers : Step(v)
    BY <1>1 DEF Next, Done, vars
  <2>2. v = w
    BY <1>1, <2>0, <2>1, OnlyMine
  <2>3. WriteInject(w) \/ \E u \in Editors : BreakDeadlock(w, u)
    BY <1>1, <2>1, <2>2
    DEF Step, Load, PatchCase, RequestReplace, RequestReorder, Request, StartDelete, Delete,
        Insert, RequestAppend, Append, ReadReorder, Reorder, Propose, Heal, Retry, Apply,
        Convert, ReadInject, Finish
  <2>4. \A k : Resume(w, k) => tx'[w].kind = k
    BY <1>1, <2>0, ResumeIsGood, Others DEF CInv
  <2>5. ~ \E u \in Editors : BreakDeadlock(w, u)
    <3> SUFFICES ASSUME NEW u \in Editors, BreakDeadlock(w, u) PROVE FALSE
      OBVIOUS
    <3>1. CASE End(u, "failed")
      BY <1>1, <2>0, <3>1, EndIsGood, Others DEF CInv, Writers, BreakDeadlock
    <3>2. CASE Resume(w, "failed")
      BY <1>1, <2>4, <3>2
    <3> QED
      BY <3>1, <3>2 DEF BreakDeadlock
  <2>6. /\ steps' = Merge(steps,
              [i \in Shifted(w) \cup {lastId + 1} |->
                 IF i \in Shifted(w) THEN [steps[i] EXCEPT !.ord = NewOrd(w, i)]
                 ELSE [ord |-> tx[w].at, code |-> SolverOf(w)]])
        /\ lastId' = lastId + 1
    BY <1>1, <2>3, <2>4, <2>5 DEF WriteInject
  <2>7. Holds(tx[w]) /\ tx[w].kind = "inject"
    BY <1>1 DEF Holds
  <2> DEFINE S == Shifted(w)
  <2>8. /\ S \subseteq DOMAIN steps
        /\ DOMAIN steps' = DOMAIN steps \cup {lastId + 1}
        /\ \A i \in S : steps'[i].code = steps[i].code
                        /\ steps'[i].ord = tx[w].base[i].ord + 1
        /\ \A i \in DOMAIN steps \ S : steps'[i] = steps[i]
        /\ steps'[lastId + 1] = [ord |-> tx[w].at, code |-> SolverOf(w)]
    BY <1>1, <2>0, <2>6, <2>7, InjectedRows
  <2>9. /\ DOMAIN tx[w].base = DOMAIN steps /\ tx[w].at \in Nat
        /\ \A i \in DOMAIN steps : tx[w].base[i].ord = steps[i].ord /\ steps[i].ord \in Nat
    BY <1>1, <2>0, <2>7 DEF CInv, InjectInv, RowsInv, TypedRows, Row
  <2>10. \A i \in DOMAIN steps : i \in S <=> steps[i].ord >= tx[w].at
    BY <2>9 DEF Shifted
  <2> HIDE DEF S
  <2>11. ASSUME NEW i \in DOMAIN steps, NEW j \in DOMAIN steps, steps[i].ord < steps[j].ord
         PROVE  steps'[i].ord < steps'[j].ord
    <3>1. CASE i \in S
      BY <2>8, <2>9, <2>10, <2>11, <3>1
    <3>2. CASE i \notin S
      BY <2>8, <2>9, <2>10, <2>11, <3>2
    <3> QED
      BY <3>1, <3>2
  <2>12. \A i \in DOMAIN steps : steps'[i].code = steps[i].code
    BY <2>8
  <2>13. steps'[lastId'].code.solver
    BY <2>6, <2>8 DEF SolverOf
  <2> QED
    BY <2>6, <2>8, <2>11, <2>12, <2>13
<1>2. CInv /\ [Next]_vars => [\A w \in Runs : Due(w) => P]_vars
  BY <1>1
<1> QED
  BY <1>2, CInvHolds, PTL DEF Spec, InjectionKeepsOrder
=============================================================================
