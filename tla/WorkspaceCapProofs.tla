------------------------- MODULE WorkspaceCapProofs -------------------------
(***************************************************************************)
(* Proofs about WorkspaceCap, for any set of tasks and any cap.            *)
(*                                                                         *)
(* The counter is the number of tasks inside because no task is in two     *)
(* places at once (Apart): were the head of the woken queue inside         *)
(* already, admitting it would count it twice.                             *)
(***************************************************************************)
EXTENDS WorkspaceCap, FiniteSetTheorems, SequenceTheorems, TLAPS

NoRepeats(s) == \A i, j \in DOMAIN s : s[i] = s[j] => i = j
Apart2(s, u) == \A i \in DOMAIN s, j \in DOMAIN u : s[i] # u[j]
Misses(s, S) == \A i \in DOMAIN s : s[i] \notin S

\* A task sleeps, is woken, or is inside, and once at most.
Apart ==
  /\ NoRepeats(waiters) /\ NoRepeats(woken) /\ Apart2(waiters, woken)
  /\ Misses(waiters, inside) /\ Misses(woken, inside)

CapInv ==
  /\ CapTypeOK
  /\ IsFiniteSet(inside)
  /\ Apart
  /\ CapRespected
  /\ NoLostWakeup

-----------------------------------------------------------------------------
\* Removing an element, or the head, leaves some of the elements, in order.
Within(r, s) ==
  \E f \in [DOMAIN r -> DOMAIN s] :
    /\ \A j \in DOMAIN r : r[j] = s[f[j]]
    /\ \A j, k \in DOMAIN r : f[j] = f[k] => j = k

LEMMA WithinApart ==
  ASSUME NEW r, NEW s, Within(r, s)
  PROVE  /\ NoRepeats(s) => NoRepeats(r)
         /\ \A S : Misses(s, S) => Misses(r, S)
         /\ \A u : Apart2(s, u) => Apart2(r, u)
         /\ \A u : Apart2(u, s) => Apart2(u, r)
<1> PICK f \in [DOMAIN r -> DOMAIN s] :
      /\ \A j \in DOMAIN r : r[j] = s[f[j]]
      /\ \A j, k \in DOMAIN r : f[j] = f[k] => j = k
  BY DEF Within
<1> QED
  BY DEF NoRepeats, Misses, Apart2

LEMMA RemoveAtWithin ==
  ASSUME NEW s \in Seq(Tasks), NEW i \in DOMAIN s
  PROVE  RemoveAt(s, i) \in Seq(Tasks) /\ Within(RemoveAt(s, i), s)
<1> DEFINE a == SubSeq(s, 1, i - 1)
           b == SubSeq(s, i + 1, Len(s))
           f == [j \in 1 .. Len(s) - 1 |-> IF j < i THEN j ELSE j + 1]
<1>1. Len(s) \in Nat /\ DOMAIN s = 1 .. Len(s) /\ i \in 1 .. Len(s)
      /\ \A j \in 1 .. Len(s) : s[j] \in Tasks
  OBVIOUS
<1>2. a \in Seq(Tasks) /\ Len(a) = i - 1 /\ \A j \in 1 .. i - 1 : a[j] = s[j]
  BY <1>1, SubSeqProperties
<1>3. /\ b \in Seq(Tasks) /\ Len(b) = Len(s) - i
      /\ \A j \in 1 .. Len(s) - i : b[j] = s[i + j]
  <2>1. \A j \in i + 1 .. Len(s) : s[j] \in Tasks
    BY <1>1
  <2>2. /\ b \in Seq(Tasks)
        /\ Len(b) = IF i + 1 <= Len(s) THEN Len(s) - (i + 1) + 1 ELSE 0
        /\ \A j \in 1 .. Len(s) - (i + 1) + 1 : b[j] = s[(i + 1) + j - 1]
    BY <1>1, <2>1, SubSeqProperties
  <2>3. /\ Len(s) - (i + 1) + 1 = Len(s) - i
        /\ i + 1 <= Len(s) \/ Len(s) - i = 0
        /\ \A j \in 1 .. Len(s) - i : (i + 1) + j - 1 = i + j
    BY <1>1
  <2> HIDE DEF b
  <2> QED
    BY <1>1, <2>2, <2>3
<1> HIDE DEF a, b
<1>4. /\ a \o b \in Seq(Tasks)
      /\ Len(a \o b) = Len(s) - 1
      /\ \A j \in 1 .. Len(s) - 1 : (a \o b)[j] = IF j < i THEN s[j] ELSE s[j + 1]
  <2>1. /\ a \o b \in Seq(Tasks)
        /\ Len(a \o b) = Len(a) + Len(b)
        /\ \A j \in 1 .. Len(a) + Len(b) :
             (a \o b)[j] = IF j <= Len(a) THEN a[j] ELSE b[j - Len(a)]
    BY <1>2, <1>3, ConcatProperties
  <2>2. Len(a) + Len(b) = Len(s) - 1
    BY <1>1, <1>2, <1>3
  <2>3. ASSUME NEW j \in 1 .. Len(s) - 1
        PROVE  (a \o b)[j] = IF j < i THEN s[j] ELSE s[j + 1]
    <3>1. CASE j < i
      BY <1>1, <1>2, <2>1, <2>2, <3>1
    <3>2. CASE ~ (j < i)
      <4>1. /\ j - (i - 1) \in 1 .. Len(s) - i
            /\ i + (j - (i - 1)) = j + 1
        BY <1>1, <3>2
      <4>2. (a \o b)[j] = b[j - (i - 1)]
        BY <1>1, <1>2, <2>1, <2>2, <3>2
      <4> QED
        BY <1>3, <3>2, <4>1, <4>2
    <3> QED
      BY <3>1, <3>2
  <2> QED
    BY <2>1, <2>2, <2>3
<1> DEFINE r == RemoveAt(s, i)
<1>5. /\ r \in Seq(Tasks)
      /\ Len(r) = Len(s) - 1
      /\ \A j \in 1 .. Len(s) - 1 : r[j] = IF j < i THEN s[j] ELSE s[j + 1]
  BY <1>4 DEF RemoveAt, a, b
<1> HIDE DEF r
<1>6. DOMAIN r = 1 .. Len(s) - 1
  BY <1>5
<1>7. /\ f \in [DOMAIN r -> DOMAIN s]
      /\ \A j \in DOMAIN r : r[j] = s[f[j]]
      /\ \A j, k \in DOMAIN r : f[j] = f[k] => j = k
  BY <1>1, <1>5, <1>6
<1>8. Within(r, s)
  <2> HIDE DEF f
  <2> QED
    BY <1>7 DEF Within
<1> QED
  BY <1>5, <1>8 DEF r

LEMMA TailWithin ==
  ASSUME NEW s \in Seq(Tasks), s # <<>>, NoRepeats(s)
  PROVE  /\ Head(s) \in Tasks /\ Head(s) = s[1] /\ 1 \in DOMAIN s
         /\ Tail(s) \in Seq(Tasks) /\ Within(Tail(s), s)
         /\ Misses(Tail(s), {Head(s)})
<1> DEFINE f == [j \in 1 .. Len(s) - 1 |-> j + 1]
<1>1. Len(s) \in Nat \ {0} /\ DOMAIN s = 1 .. Len(s) /\ Head(s) = s[1]
  OBVIOUS
<1>2. /\ Tail(s) \in Seq(Tasks) /\ DOMAIN Tail(s) = 1 .. Len(s) - 1
      /\ \A j \in 1 .. Len(s) - 1 : Tail(s)[j] = s[j + 1]
  BY <1>1, HeadTailProperties
<1>3. /\ f \in [DOMAIN Tail(s) -> DOMAIN s]
      /\ \A j \in DOMAIN Tail(s) : Tail(s)[j] = s[f[j]]
      /\ \A j, k \in DOMAIN Tail(s) : f[j] = f[k] => j = k
  BY <1>1, <1>2
<1>4. Within(Tail(s), s)
  <2> HIDE DEF f
  <2> QED
    BY <1>3 DEF Within
<1>5. Misses(Tail(s), {Head(s)})
  BY <1>1, <1>2 DEF Misses, NoRepeats
<1> QED
  BY <1>1, <1>2, <1>4, <1>5, HeadTailProperties

LEMMA AppendApart ==
  ASSUME NEW s \in Seq(Tasks), NEW t \in Tasks, NoRepeats(s), Misses(s, {t})
  PROVE  /\ Append(s, t) \in Seq(Tasks) /\ NoRepeats(Append(s, t))
         /\ \A S : Misses(s, S) /\ t \notin S => Misses(Append(s, t), S)
         /\ \A u : Apart2(s, u) /\ Misses(u, {t}) => Apart2(Append(s, t), u)
<1>1. /\ Len(s) \in Nat /\ DOMAIN s = 1 .. Len(s)
      /\ Append(s, t) \in Seq(Tasks)
      /\ DOMAIN Append(s, t) = 1 .. Len(s) + 1
      /\ \A i \in 1 .. Len(s) : Append(s, t)[i] = s[i]
      /\ Append(s, t)[Len(s) + 1] = t
  BY AppendProperties
<1>2. \A i \in DOMAIN Append(s, t) : i \in DOMAIN s \/ i = Len(s) + 1
  BY <1>1
<1> QED
  BY <1>1, <1>2 DEF NoRepeats, Misses, Apart2

LEMMA ConcatApart ==
  ASSUME NEW s \in Seq(Tasks), NEW u \in Seq(Tasks),
         NoRepeats(s), NoRepeats(u), Apart2(u, s)
  PROVE  /\ s \o u \in Seq(Tasks) /\ NoRepeats(s \o u)
         /\ \A S : Misses(s, S) /\ Misses(u, S) => Misses(s \o u, S)
<1>1. /\ Len(s) \in Nat /\ DOMAIN s = 1 .. Len(s)
      /\ Len(u) \in Nat /\ DOMAIN u = 1 .. Len(u)
      /\ s \o u \in Seq(Tasks)
      /\ DOMAIN (s \o u) = 1 .. Len(s) + Len(u)
      /\ \A i \in 1 .. Len(s) + Len(u) :
           (s \o u)[i] = IF i <= Len(s) THEN s[i] ELSE u[i - Len(s)]
  BY ConcatProperties
<1>2. \A i \in DOMAIN (s \o u) :
        \/ i \in DOMAIN s /\ (s \o u)[i] = s[i]
        \/ /\ i > Len(s) /\ i - Len(s) \in DOMAIN u
           /\ (s \o u)[i] = u[i - Len(s)]
  BY <1>1
<1>3. NoRepeats(s \o u)
  BY <1>1, <1>2 DEF NoRepeats, Apart2
<1> QED
  BY <1>1, <1>2, <1>3 DEF Misses

-----------------------------------------------------------------------------
\* One look at the counter by a task that is nowhere keeps the invariant.
LEMMA LookKeeps ==
  ASSUME NEW t \in Tasks, NEW w \in Seq(Tasks), woken' = w,
         CapTypeOK, IsFiniteSet(inside), CapRespected, NoLostWakeup,
         NoRepeats(waiters), NoRepeats(w), Apart2(waiters, w),
         Misses(waiters, inside), Misses(w, inside),
         t \notin inside, Misses(waiters, {t}), Misses(w, {t}),
         Admit(t) \/ Enqueue(t)
  PROVE  CapInv'
<1> USE WorkspaceCapAssumption
<1>1. CASE Admit(t)
  <2>1. /\ IsFiniteSet(inside')
        /\ Cardinality(inside') = Cardinality(inside) + 1
    BY <1>1, FS_AddElement DEF Admit
  <2>2. CapRespected'
    BY <1>1, <2>1 DEF Admit, CapRespected, CapTypeOK
  <2>3. Apart'
    BY <1>1 DEF Admit, Apart, Misses
  <2>4. NoLostWakeup'
    BY <1>1 DEF Admit, NoLostWakeup, CapTypeOK
  <2> QED
    BY <1>1, <2>1, <2>2, <2>3, <2>4 DEF Admit, CapInv, CapTypeOK
<1>2. CASE Enqueue(t)
  <2>1. waiters' \in Seq(Tasks) /\ NoRepeats(waiters')
        /\ Misses(waiters', inside) /\ Apart2(waiters', w)
    BY <1>2, AppendApart DEF Enqueue, CapTypeOK
  <2>2. count = MaxPerWorkspace
    BY <1>2 DEF Enqueue, CapRespected, CapTypeOK
  <2> QED
    BY <1>2, <2>1, <2>2
    DEF Enqueue, CapInv, Apart, CapTypeOK, CapRespected, NoLostWakeup
<1> QED
  BY <1>1, <1>2

LEMMA CapInvStep == CapInv /\ [CapNext]_capVars => CapInv'
<1> SUFFICES ASSUME CapInv, [CapNext]_capVars PROVE CapInv'
  OBVIOUS
<1> USE DEF CapInv
<1>1. ASSUME NEW t \in Tasks, Reserve(t) PROVE CapInv'
  <2>1. Misses(waiters, {t}) /\ Misses(woken, {t}) /\ t \notin inside
    BY <1>1 DEF Reserve, Outside, Queued, ToSet, Misses
  <2>2. woken' = woken /\ woken \in Seq(Tasks)
    BY <1>1 DEF Reserve, CapTypeOK
  <2> QED
    BY <1>1, <2>1, <2>2, LookKeeps DEF Reserve, Apart
<1>2. CASE Awake
  <2> DEFINE t == Head(woken)
             w == Tail(woken)
  <2>1. /\ t \in Tasks /\ t = woken[1] /\ 1 \in DOMAIN woken
        /\ w \in Seq(Tasks) /\ Within(w, woken) /\ Misses(w, {t})
    BY <1>2, TailWithin DEF Awake, Apart, CapTypeOK
  <2>2. /\ NoRepeats(w) /\ Apart2(waiters, w) /\ Misses(w, inside)
    BY <2>1, WithinApart DEF Apart
  <2>3. t \notin inside /\ Misses(waiters, {t})
    BY <2>1 DEF Apart, Apart2, Misses
  <2>4. woken' = w /\ (Admit(t) \/ Enqueue(t))
    BY <1>2 DEF Awake
  <2> HIDE DEF t, w
  <2> QED
    BY <2>1, <2>2, <2>3, <2>4, LookKeeps DEF Apart
<1>3. ASSUME NEW t \in Tasks, GiveUp(t) PROVE CapInv'
  <2>1. /\ waiters' \in Seq(Tasks) /\ woken' \in Seq(Tasks)
        /\ \/ Within(waiters', waiters) /\ woken' = woken
           \/ Within(woken', woken) /\ waiters' = waiters
    <3>1. waiters \in Seq(Tasks) /\ woken \in Seq(Tasks)
      BY DEF CapTypeOK
    <3>2. ASSUME NEW i \in DOMAIN waiters,
                 waiters' = RemoveAt(waiters, i), woken' = woken
          PROVE  waiters' \in Seq(Tasks) /\ Within(waiters', waiters)
      BY <3>1, <3>2, RemoveAtWithin
    <3>3. ASSUME NEW i \in DOMAIN woken,
                 woken' = RemoveAt(woken, i), waiters' = waiters
          PROVE  woken' \in Seq(Tasks) /\ Within(woken', woken)
      BY <3>1, <3>3, RemoveAtWithin
    <3>4. CASE \E i \in DOMAIN waiters :
                 waiters' = RemoveAt(waiters, i) /\ woken' = woken
      BY <3>1, <3>2, <3>4
    <3>5. CASE \E i \in DOMAIN woken :
                 woken' = RemoveAt(woken, i) /\ waiters' = waiters
      BY <3>1, <3>3, <3>5
    <3> QED
      BY <1>3, <3>4, <3>5 DEF GiveUp
  <2>2. Apart'
    BY <1>3, <2>1, WithinApart DEF GiveUp, Apart
  <2>3. waiters' # <<>> => waiters # <<>>
    <3>1. CASE waiters = <<>>
      BY <1>3, <3>1 DEF GiveUp
    <3> QED
      BY <3>1
  <2> QED
    BY <1>3, <2>1, <2>2, <2>3
    DEF GiveUp, CapTypeOK, CapRespected, NoLostWakeup
<1>4. ASSUME NEW t \in Tasks, Leave(t) PROVE CapInv'
  <2>1. /\ IsFiniteSet(inside')
        /\ Cardinality(inside') = Cardinality(inside) - 1
    BY <1>4, FS_RemoveElement DEF Leave
  <2>2. CapRespected' /\ count' \in Nat
    BY <1>4, <2>1, FS_CardinalityType, WorkspaceCapAssumption
    DEF Leave, CapRespected, CapTypeOK
  <2>3. woken' \in Seq(Tasks) /\ NoRepeats(woken') /\ Misses(woken', inside)
    BY <1>4, ConcatApart DEF Leave, Apart, CapTypeOK
  <2>4. Apart'
    BY <1>4, <2>3 DEF Leave, Apart, NoRepeats, Apart2, Misses
  <2> QED
    BY <1>4, <2>1, <2>2, <2>3, <2>4 DEF Leave, CapTypeOK, NoLostWakeup
<1>5. CASE UNCHANGED capVars
  BY <1>5 DEF capVars, CapTypeOK, Apart, CapRespected, NoLostWakeup
<1> QED
  BY <1>1, <1>2, <1>3, <1>4, <1>5 DEF CapNext

LEMMA CapInvInit == CapInit => CapInv
  BY FS_EmptySet, WorkspaceCapAssumption
  DEF CapInit, CapInv, CapTypeOK, Apart, NoRepeats, Apart2, Misses,
      CapRespected, NoLostWakeup

\* The cap holds, and the counter is exact, for any number of tasks.
THEOREM CapHolds == CapSpec => []CapRespected
<1>1. CapInv => CapRespected
  BY DEF CapInv
<1> QED
  BY <1>1, CapInvInit, CapInvStep, PTL DEF CapSpec

\* No wake-up is lost, whoever gives up in between.
THEOREM NoWakeupLost == CapSpec => []NoLostWakeup
<1>1. CapInv => NoLostWakeup
  BY DEF CapInv
<1> QED
  BY <1>1, CapInvInit, CapInvStep, PTL DEF CapSpec

\* The counter is never negative, and the two queues hold tasks.
THEOREM CapTyped == CapSpec => []CapTypeOK
<1>1. CapInv => CapTypeOK
  BY DEF CapInv
<1> QED
  BY <1>1, CapInvInit, CapInvStep, PTL DEF CapSpec
=============================================================================
