----------------------------- MODULE McpProofs ------------------------------
(***************************************************************************)
(* Proofs about an MCP call: of McpPool, and of McpInvoker, which takes a  *)
(* session of the pool inside a reservation of WorkspaceCap.               *)
(***************************************************************************)
EXTENDS McpInvoker, FiniteSetTheorems, SequenceTheorems, TLAPS

(***************************************************************************)
(* Proofs about McpPool for every finite set of tasks, any providers,      *)
(* sessions and caps, and any number of recyclings.                        *)
(*                                                                         *)
(* A task has a session in its hands exactly in the positions of Handling, *)
(* and a task in a condition's queue is asleep on that condition and there *)
(* once (QueueInv): were it elsewhere too, a notification would tear it    *)
(* away from the session or the slot it has.                               *)
(***************************************************************************)
Handling == {"draining", "leased", "returning", "closing"}

\* The positions of a task that counts as a holder of a session or a slot.
Counted == {"draining", "spawning", "unreserving", "leased", "returning"}

NoRepeats(s) == \A i, j \in DOMAIN s : s[i] = s[j] => i = j

QueueInv ==
  \A q \in Pools :
    /\ NoRepeats(sleeping[q])
    /\ \A i \in DOMAIN sleeping[q] :
         pc[sleeping[q][i]] = "asleep" /\ at[sleeping[q][i]] = q

HandInv == \A t \in Tasks : held[t] # "none" <=> pc[t] \in Handling

PInv == PoolTypeOK /\ QueueInv /\ HandInv /\ SessionsExclusive /\ LiveCovers

-----------------------------------------------------------------------------
\* Sequences

LEMMA FrontLast ==
  ASSUME NEW S, NEW s \in Seq(S), s # <<>>
  PROVE  /\ Len(s) \in Nat \ {0} /\ DOMAIN s = 1 .. Len(s)
         /\ Front(s) \in Seq(S)
         /\ Len(Front(s)) = Len(s) - 1 /\ DOMAIN Front(s) = 1 .. Len(s) - 1
         /\ \A i \in 1 .. Len(s) - 1 : Front(s)[i] = s[i]
         /\ Last(s) = s[Len(s)] /\ Len(s) \in DOMAIN s /\ Last(s) \in S
<1>1. Len(s) \in Nat \ {0} /\ DOMAIN s = 1 .. Len(s) /\ \A i \in 1 .. Len(s) : s[i] \in S
  BY EmptySeq, LenProperties, ElementOfSeq
<1>2. \A i \in 1 .. Len(s) - 1 : s[i] \in S
  BY <1>1
<1>3. /\ SubSeq(s, 1, Len(s) - 1) \in Seq(S)
      /\ Len(SubSeq(s, 1, Len(s) - 1)) =
           IF 1 <= Len(s) - 1 THEN Len(s) - 1 - 1 + 1 ELSE 0
      /\ \A i \in 1 .. Len(s) - 1 - 1 + 1 :
           SubSeq(s, 1, Len(s) - 1)[i] = s[1 + i - 1]
  BY <1>1, <1>2, SubSeqProperties
<1>4. /\ Front(s) \in Seq(S) /\ Len(Front(s)) = Len(s) - 1
      /\ \A i \in 1 .. Len(s) - 1 : Front(s)[i] = s[i]
  <2> DEFINE f == SubSeq(s, 1, Len(s) - 1)
  <2> HIDE DEF f
  <2>1. f \in Seq(S) /\ Len(f) = Len(s) - 1 /\ \A i \in 1 .. Len(s) - 1 : f[i] = s[i]
    BY <1>1, <1>3 DEF f
  <2> QED
    BY <2>1 DEF Front, f
<1>5. DOMAIN Front(s) = 1 .. Len(s) - 1
  BY <1>4, LenProperties
<1> QED
  BY <1>1, <1>4, <1>5 DEF Last

LEMMA RemoveAtKeeps ==
  ASSUME NEW S, NEW s \in Seq(S), NEW i \in DOMAIN s, NoRepeats(s)
  PROVE  /\ RemoveAt(s, i) \in Seq(S) /\ NoRepeats(RemoveAt(s, i))
         /\ \A j \in DOMAIN RemoveAt(s, i) :
              /\ RemoveAt(s, i)[j] # s[i]
              /\ \E k \in DOMAIN s : RemoveAt(s, i)[j] = s[k]
<1> DEFINE a == SubSeq(s, 1, i - 1)
           b == SubSeq(s, i + 1, Len(s))
<1>1. Len(s) \in Nat /\ DOMAIN s = 1 .. Len(s) /\ i \in 1 .. Len(s)
      /\ \A j \in 1 .. Len(s) : s[j] \in S
  BY LenProperties, ElementOfSeq
<1>2. a \in Seq(S) /\ Len(a) = i - 1 /\ \A j \in 1 .. i - 1 : a[j] = s[j]
  <2>1. \A j \in 1 .. i - 1 : s[j] \in S
    BY <1>1
  <2> QED
    BY <1>1, <2>1, SubSeqProperties
<1>3. /\ b \in Seq(S) /\ Len(b) = Len(s) - i
      /\ \A j \in 1 .. Len(s) - i : b[j] = s[i + j]
  <2>1. \A j \in i + 1 .. Len(s) : s[j] \in S
    BY <1>1
  <2>2. /\ b \in Seq(S)
        /\ Len(b) = IF i + 1 <= Len(s) THEN Len(s) - (i + 1) + 1 ELSE 0
        /\ \A j \in 1 .. Len(s) - (i + 1) + 1 : b[j] = s[(i + 1) + j - 1]
    BY <1>1, <2>1, SubSeqProperties
  <2>3. /\ Len(s) - (i + 1) + 1 = Len(s) - i
        /\ i + 1 <= Len(s) \/ Len(s) - i = 0
        /\ \A j \in 1 .. Len(s) - i : (i + 1) + j - 1 = i + j
    BY <1>1
  <2> HIDE DEF b
  <2> QED
    BY <1>1, <2>2, <2>3
<1> HIDE DEF a, b
<1> DEFINE r == a \o b
<1>4. /\ r \in Seq(S) /\ Len(r) = Len(a) + Len(b)
      /\ \A j \in 1 .. Len(a) + Len(b) :
           r[j] = IF j <= Len(a) THEN a[j] ELSE b[j - Len(a)]
  BY <1>2, <1>3, ConcatProperties
<1> HIDE DEF r
<1>5. DOMAIN r = 1 .. Len(s) - 1
  BY <1>1, <1>2, <1>3, <1>4, LenProperties
<1>6. ASSUME NEW j \in 1 .. Len(s) - 1
      PROVE  r[j] = IF j < i THEN s[j] ELSE s[j + 1]
  <2>1. CASE j < i
    BY <1>1, <1>2, <1>3, <1>4, <2>1
  <2>2. CASE ~ (j < i)
    <3>1. /\ j - (i - 1) \in 1 .. Len(s) - i
          /\ i + (j - (i - 1)) = j + 1
      BY <1>1, <2>2
    <3>2. r[j] = b[j - (i - 1)]
      BY <1>1, <1>2, <1>3, <1>4, <2>2
    <3> QED
      BY <1>3, <2>2, <3>1, <3>2
  <2> QED
    BY <2>1, <2>2
<1>7. \A j \in DOMAIN r : r[j] # s[i] /\ \E k \in DOMAIN s : r[j] = s[k]
  BY <1>1, <1>5, <1>6 DEF NoRepeats
<1>8. NoRepeats(r)
  BY <1>1, <1>5, <1>6 DEF NoRepeats
<1> QED
  BY <1>4, <1>7, <1>8 DEF RemoveAt, r, a, b

-----------------------------------------------------------------------------
\* What a step of task t does to the other tasks: it may wake sleepers.
Others(t) ==
  \A u \in Tasks \ {t} :
    /\ at'[u] = at[u] /\ held'[u] = held[u]
    /\ pc'[u] = pc[u] \/ (pc[u] = "asleep" /\ pc'[u] = "woken")

LEMMA HandStep ==
  ASSUME HandInv, NEW t \in Tasks, Others(t),
         held'[t] # "none" <=> pc'[t] \in Handling
  PROVE  HandInv'
  BY DEF HandInv, Others, Handling

\* t moves by itself.
LEMMA QueueAlone ==
  ASSUME PoolTypeOK, QueueInv, NEW t \in Tasks, pc[t] # "asleep",
         UNCHANGED sleeping,
         \A u \in Tasks \ {t} : pc'[u] = pc[u] /\ at'[u] = at[u]
  PROVE  QueueInv'
<1>1. \A q \in Pools : \A i \in DOMAIN sleeping[q] : sleeping[q][i] \in Tasks \ {t}
  BY LenProperties, ElementOfSeq DEF PoolTypeOK, QueueInv
<1> QED
  BY <1>1 DEF QueueInv

\* t moves, and the oldest sleeper of q is woken.
LEMMA QueueNotify ==
  ASSUME PoolTypeOK, QueueInv, NEW t \in Tasks, pc[t] # "asleep", UNCHANGED at,
         NEW q \in Pools, NotifyOne(q), NEW x \in Pc,
         pc' = Notified([pc EXCEPT ![t] = x], q)
  PROVE  /\ QueueInv' /\ pc' \in [Tasks -> Pc] /\ pc'[t] = x
         /\ sleeping' \in [Pools -> Seq(Tasks)]
         /\ \A u \in Tasks \ {t} :
              pc'[u] = pc[u] \/ (pc[u] = "asleep" /\ pc'[u] = "woken")
<1> DEFINE s == sleeping[q]
<1>1. /\ sleeping \in [Pools -> Seq(Tasks)] /\ pc \in [Tasks -> Pc] /\ s \in Seq(Tasks)
  BY DEF PoolTypeOK
<1>2. \A r \in Pools : \A i \in DOMAIN sleeping[r] :
        sleeping[r][i] \in Tasks \ {t} /\ pc[sleeping[r][i]] = "asleep"
        /\ at[sleeping[r][i]] = r
  BY <1>1, LenProperties, ElementOfSeq DEF QueueInv
<1>3. CASE s = <<>>
  <2>1. pc' = [pc EXCEPT ![t] = x] /\ UNCHANGED sleeping
    BY <1>3 DEF NotifyOne, Notified
  <2> QED
    BY <1>1, <2>1, QueueAlone
<1>4. CASE s # <<>>
  <2>1. /\ Len(s) \in Nat \ {0} /\ DOMAIN s = 1 .. Len(s) /\ Head(s) = s[1]
        /\ Tail(s) \in Seq(Tasks) /\ DOMAIN Tail(s) = 1 .. Len(s) - 1
        /\ \A i \in 1 .. Len(s) - 1 : Tail(s)[i] = s[i + 1]
    BY <1>1, <1>4, HeadTailProperties, EmptySeq, LenProperties
  <2>2. sleeping' = [sleeping EXCEPT ![q] = Tail(s)]
    BY <1>4 DEF NotifyOne
  <2>3. s[1] \in Tasks \ {t} /\ pc[s[1]] = "asleep" /\ at[s[1]] = q
    BY <1>2, <2>1
  <2>4. pc' = [[pc EXCEPT ![t] = x] EXCEPT ![s[1]] = "woken"]
    BY <1>4, <2>1 DEF Notified
  <2>5. /\ pc' \in [Tasks -> Pc] /\ pc'[t] = x /\ pc'[s[1]] = "woken"
        /\ \A u \in Tasks \ {t, s[1]} : pc'[u] = pc[u]
    BY <1>1, <2>3, <2>4 DEF Pc
  <2>6. sleeping'[q] = Tail(s) /\ \A r \in Pools \ {q} : sleeping'[r] = sleeping[r]
    BY <1>1, <2>2
  <2>7. /\ NoRepeats(Tail(s))
        /\ \A i \in DOMAIN Tail(s) :
             pc'[Tail(s)[i]] = "asleep" /\ at[Tail(s)[i]] = q
    <3>1. \A i \in 1 .. Len(s) - 1 : s[i + 1] # s[1] /\ s[i + 1] \in Tasks \ {t, s[1]}
      BY <1>2, <2>1 DEF QueueInv, NoRepeats
    <3>2. NoRepeats(s)
      BY DEF QueueInv
    <3>3. NoRepeats(Tail(s))
      BY <2>1, <3>2 DEF NoRepeats
    <3> HIDE DEF s
    <3>4. ASSUME NEW i \in DOMAIN Tail(s)
          PROVE  pc'[Tail(s)[i]] = "asleep" /\ at[Tail(s)[i]] = q
      <4>1. Tail(s)[i] = s[i + 1] /\ i + 1 \in DOMAIN s
        BY <2>1
      <4>2. pc[s[i + 1]] = "asleep" /\ at[s[i + 1]] = q
        BY <1>2, <4>1 DEF s
      <4> QED
        BY <2>1, <2>5, <3>1, <4>1, <4>2
    <3> QED
      BY <3>3, <3>4
  <2>8. ASSUME NEW r \in Pools, r # q, NEW i \in DOMAIN sleeping[r]
        PROVE  pc'[sleeping[r][i]] = "asleep"
    <3>1. /\ sleeping[r][i] \in Tasks \ {t} /\ at[sleeping[r][i]] = r
          /\ pc[sleeping[r][i]] = "asleep"
      BY <1>2
    <3>2. sleeping[r][i] # s[1]
      BY <2>3, <2>8, <3>1
    <3> QED
      BY <2>5, <3>1, <3>2
  <2>10. ASSUME NEW r \in Pools
         PROVE  /\ NoRepeats(sleeping'[r])
                /\ \A i \in DOMAIN sleeping'[r] :
                     pc'[sleeping'[r][i]] = "asleep" /\ at'[sleeping'[r][i]] = r
    <3>1. CASE r = q
      BY <2>6, <2>7, <3>1
    <3>2. CASE r # q
      <4>1. sleeping'[r] = sleeping[r] /\ NoRepeats(sleeping[r])
        BY <2>6, <3>2 DEF QueueInv
      <4>2. \A i \in DOMAIN sleeping[r] :
              pc'[sleeping[r][i]] = "asleep" /\ at[sleeping[r][i]] = r
        BY <1>2, <2>8, <3>2
      <4> QED
        BY <4>1, <4>2
    <3> QED
      BY <3>1, <3>2
  <2>9. sleeping' \in [Pools -> Seq(Tasks)]
    BY <1>1, <2>1, <2>2
  <2> QED
    BY <2>3, <2>5, <2>9, <2>10 DEF QueueInv
<1> QED
  BY <1>3, <1>4

\* t moves, and all the sleepers of q are woken; pcs is pc but for t.
LEMMA QueueNotifyAll ==
  ASSUME PoolTypeOK, QueueInv, UNCHANGED at,
         NEW pcs \in [Tasks -> Pc],
         \A u \in Tasks : pcs[u] = pc[u] \/ (pc[u] # "asleep"),
         NEW q \in Pools, sleeping' = [sleeping EXCEPT ![q] = <<>>],
         pc' = NotifyAll(pcs, q)
  PROVE  /\ QueueInv' /\ pc' \in [Tasks -> Pc]
         /\ sleeping' \in [Pools -> Seq(Tasks)]
         /\ \A u \in Tasks :
              pc'[u] = pcs[u] \/ (pc[u] = "asleep" /\ pc'[u] = "woken")
<1>1. /\ sleeping \in [Pools -> Seq(Tasks)] /\ pc \in [Tasks -> Pc]
  BY DEF PoolTypeOK
<1>2. \A r \in Pools : \A i \in DOMAIN sleeping[r] :
        sleeping[r][i] \in Tasks /\ pc[sleeping[r][i]] = "asleep"
        /\ at[sleeping[r][i]] = r
  BY <1>1, LenProperties, ElementOfSeq DEF QueueInv
<1>3. \A u \in Tasks : u \in ToSet(sleeping[q]) => pc[u] = "asleep" /\ at[u] = q
  BY <1>2 DEF ToSet
<1>4. /\ pc' \in [Tasks -> Pc]
      /\ \A u \in Tasks : pc'[u] = IF u \in ToSet(sleeping[q]) THEN "woken" ELSE pcs[u]
  BY DEF NotifyAll, Pc
<1>5. \A u \in Tasks : pc'[u] = pcs[u] \/ (pc[u] = "asleep" /\ pc'[u] = "woken")
  BY <1>3, <1>4
<1>6. sleeping' \in [Pools -> Seq(Tasks)] /\ sleeping'[q] = <<>>
      /\ \A r \in Pools \ {q} : sleeping'[r] = sleeping[r]
  BY <1>1, EmptySeq
<1>7. ASSUME NEW r \in Pools
      PROVE  /\ NoRepeats(sleeping'[r])
             /\ \A i \in DOMAIN sleeping'[r] :
                  pc'[sleeping'[r][i]] = "asleep" /\ at'[sleeping'[r][i]] = r
  <2>1. CASE r = q
    BY <1>6, <2>1 DEF NoRepeats
  <2>2. CASE r # q
    BY <1>2, <1>3, <1>4, <1>6, <2>2 DEF QueueInv
  <2> QED
    BY <2>1, <2>2
<1> QED
  BY <1>4, <1>5, <1>6, <1>7 DEF QueueInv

-----------------------------------------------------------------------------
\* Counting

LEMMA HoldersFinite ==
  \A q \in Pools : IsFiniteSet(Holders(q)) /\ Cardinality(Holders(q)) \in Nat
  BY McpPoolAssumption, FS_Subset, FS_CardinalityType DEF Holders

\* Task t counts in pool q before the step, and after it.
Was(t, q) == IF t \in Holders(q) THEN 1 ELSE 0
Is(t, q) == IF at'[t] = q /\ pc'[t] \in Counted THEN 1 ELSE 0

\* Only t enters or leaves the holders.
LEMMA HoldersStep ==
  ASSUME NEW t \in Tasks, Others(t), NEW q \in Pools
  PROVE  /\ Cardinality(Holders(q)) \in Nat /\ Cardinality(Holders(q)') \in Nat
         /\ Cardinality(Holders(q)') + Was(t, q) = Cardinality(Holders(q)) + Is(t, q)
         /\ Was(t, q) \in {0, 1} /\ Is(t, q) \in {0, 1}
<1> DEFINE B == Holders(q) \ {t}
<1>1. IsFiniteSet(Holders(q)) /\ Cardinality(Holders(q)) \in Nat
  BY HoldersFinite
<1>2. /\ IsFiniteSet(B)
      /\ Cardinality(B) =
           IF t \in Holders(q) THEN Cardinality(Holders(q)) - 1 ELSE Cardinality(Holders(q))
  BY <1>1, FS_RemoveElement
<1>3. /\ at'[t] = q /\ pc'[t] \in Counted => Holders(q)' = B \cup {t}
      /\ ~ (at'[t] = q /\ pc'[t] \in Counted) => Holders(q)' = B
  BY DEF Holders, Others, Counted
<1>4. t \notin B
  OBVIOUS
<1> HIDE DEF B
<1>5. Cardinality(B \cup {t}) = Cardinality(B) + 1 /\ Cardinality(B) \in Nat
  BY <1>2, <1>4, FS_AddElement, FS_CardinalityType
<1>6. Cardinality(Holders(q)') =
        IF at'[t] = q /\ pc'[t] \in Counted THEN Cardinality(B) + 1 ELSE Cardinality(B)
  BY <1>3, <1>5
<1> QED
  BY <1>1, <1>2, <1>5, <1>6 DEF Was, Is

-----------------------------------------------------------------------------
\* Sessions

\* The same without sets of elements.
Exclusive(h, d, o) ==
  /\ \A t, u \in Tasks : h[t] = h[u] /\ h[t] # "none" => t = u
  /\ \A q \in Pools, t \in Tasks : \A i \in DOMAIN d[q] : h[t] # d[q][i]
  /\ \A q, r \in Pools : \A i \in DOMAIN d[q], j \in DOMAIN d[r] :
       d[q][i] = d[r][j] => q = r /\ i = j
  /\ \A t \in Tasks : h[t] # "none" => h[t] \in o
  /\ \A q \in Pools : \A i \in DOMAIN d[q] : d[q][i] \in o

LEMMA ExclusiveSame == SessionsExclusive <=> Exclusive(held, idle, open)
  BY DEF SessionsExclusive, Exclusive, ToSet

\* A session goes from the deque into the hands of t; what t had is closed.
LEMMA ExclusiveTake ==
  ASSUME PoolTypeOK, SessionsExclusive, NEW t \in Tasks, NEW q \in Pools,
         idle[q] # <<>>, held' = [held EXCEPT ![t] = Last(idle[q])],
         idle' = [idle EXCEPT ![q] = Front(@)], open' = open \ {held[t]}
  PROVE  /\ SessionsExclusive'
         /\ held' \in [Tasks -> Sessions \union {"none"}] /\ held'[t] # "none"
         /\ idle' \in [Pools -> Seq(Sessions)]
         /\ Len(idle[q]) \in Nat \ {0} /\ Len(idle'[q]) = Len(idle[q]) - 1
         /\ \A r \in Pools \ {q} : idle'[r] = idle[r]
         /\ \A u \in Tasks \ {t} : held'[u] = held[u]
<1> DEFINE s == idle[q]
           e == Last(idle[q])
<1>1. idle \in [Pools -> Seq(Sessions)] /\ s \in Seq(Sessions)
      /\ held \in [Tasks -> Sessions \union {"none"}]
  BY DEF PoolTypeOK
<1>2. /\ Len(s) \in Nat \ {0} /\ DOMAIN s = 1 .. Len(s)
      /\ Front(s) \in Seq(Sessions)
      /\ Len(Front(s)) = Len(s) - 1 /\ DOMAIN Front(s) = 1 .. Len(s) - 1
      /\ \A i \in 1 .. Len(s) - 1 : Front(s)[i] = s[i]
      /\ e = s[Len(s)] /\ Len(s) \in DOMAIN s /\ e \in Sessions
  BY <1>1, FrontLast
<1>3. /\ idle' \in [Pools -> Seq(Sessions)] /\ idle'[q] = Front(s)
      /\ \A r \in Pools \ {q} : idle'[r] = idle[r]
  BY <1>1, <1>2
<1>4. /\ held' \in [Tasks -> Sessions \union {"none"}] /\ held'[t] = e /\ e # "none"
      /\ \A u \in Tasks \ {t} : held'[u] = held[u]
  BY <1>1, <1>2, McpPoolAssumption
<1>5. \A r \in Pools : \A i \in DOMAIN idle'[r] :
        /\ i \in DOMAIN idle[r] /\ idle'[r][i] = idle[r][i]
        /\ r = q => i # Len(s)
  BY <1>2, <1>3
<1>6. Exclusive(held, idle, open)
  BY ExclusiveSame
<1>7. \A u \in Tasks : held[u] # e
  BY <1>2, <1>6 DEF Exclusive
<1>8. \A r \in Pools : \A i \in DOMAIN idle'[r] : idle[r][i] # e
  BY <1>2, <1>5, <1>6 DEF Exclusive
<1>9. e \in open /\ e # held[t]
  BY <1>2, <1>6, <1>7 DEF Exclusive
<1>10. Exclusive(held', idle', open')
  <2> HIDE DEF s, e
  <2>1. \A u, v \in Tasks : held'[u] = held'[v] /\ held'[u] # "none" => u = v
    BY <1>4, <1>6, <1>7 DEF Exclusive
  <2>2. \A r \in Pools, u \in Tasks : \A i \in DOMAIN idle'[r] : held'[u] # idle'[r][i]
    BY <1>4, <1>5, <1>6, <1>8 DEF Exclusive
  <2>3. \A r, p \in Pools : \A i \in DOMAIN idle'[r], j \in DOMAIN idle'[p] :
          idle'[r][i] = idle'[p][j] => r = p /\ i = j
    BY <1>5, <1>6 DEF Exclusive
  <2>4. \A u \in Tasks : held'[u] # "none" => held'[u] \in open'
    BY <1>4, <1>6, <1>9 DEF Exclusive
  <2>5. \A r \in Pools : \A i \in DOMAIN idle'[r] : idle'[r][i] \in open'
    BY <1>5, <1>6 DEF Exclusive
  <2> QED
    BY <2>1, <2>2, <2>3, <2>4, <2>5 DEF Exclusive
<1>11. SessionsExclusive'
  BY <1>10 DEF SessionsExclusive, Exclusive, ToSet
<1> QED
  BY <1>2, <1>3, <1>4, <1>11

\* t gives up what it has; it may be closed.
LEMMA ExclusiveDrop ==
  ASSUME PoolTypeOK, SessionsExclusive, NEW t \in Tasks, UNCHANGED idle,
         held' = [held EXCEPT ![t] = "none"], open' \in {open, open \ {held[t]}}
  PROVE  /\ SessionsExclusive'
         /\ held' \in [Tasks -> Sessions \union {"none"}] /\ held'[t] = "none"
         /\ \A u \in Tasks \ {t} : held'[u] = held[u]
<1>1. /\ held' \in [Tasks -> Sessions \union {"none"}] /\ held'[t] = "none"
      /\ \A u \in Tasks \ {t} : held'[u] = held[u]
  BY DEF PoolTypeOK
<1>2. Exclusive(held, idle, open)
  BY ExclusiveSame
<1>3. \A q \in Pools : \A i \in DOMAIN idle[q] : idle[q][i] # "none"
  BY LenProperties, ElementOfSeq, McpPoolAssumption DEF PoolTypeOK
<1>4. Exclusive(held', idle', open')
  BY <1>1, <1>2, <1>3 DEF Exclusive
<1> QED
  BY <1>1, <1>4 DEF SessionsExclusive, Exclusive, ToSet

\* A new session opens in the hands of t.
LEMMA ExclusiveSpawn ==
  ASSUME PoolTypeOK, SessionsExclusive, NEW t \in Tasks, UNCHANGED idle,
         NEW s \in Sessions \ open, held' = [held EXCEPT ![t] = s],
         open' = open \union {s}
  PROVE  /\ SessionsExclusive'
         /\ held' \in [Tasks -> Sessions \union {"none"}] /\ held'[t] # "none"
         /\ \A u \in Tasks \ {t} : held'[u] = held[u]
<1>1. /\ held' \in [Tasks -> Sessions \union {"none"}] /\ held'[t] = s /\ s # "none"
      /\ \A u \in Tasks \ {t} : held'[u] = held[u]
  BY McpPoolAssumption DEF PoolTypeOK
<1>2. Exclusive(held, idle, open)
  BY ExclusiveSame
<1>3. Exclusive(held', idle', open')
  BY <1>1, <1>2 DEF Exclusive
<1> QED
  BY <1>1, <1>3 DEF SessionsExclusive, Exclusive, ToSet

\* t puts its session at the right end of a deque.
LEMMA ExclusiveReturn ==
  ASSUME PoolTypeOK, SessionsExclusive, NEW t \in Tasks, NEW q \in Pools,
         held[t] # "none", held' = [held EXCEPT ![t] = "none"],
         idle' = [idle EXCEPT ![q] = Append(@, held[t])], UNCHANGED open
  PROVE  /\ SessionsExclusive'
         /\ held' \in [Tasks -> Sessions \union {"none"}] /\ held'[t] = "none"
         /\ \A u \in Tasks \ {t} : held'[u] = held[u]
         /\ idle' \in [Pools -> Seq(Sessions)]
         /\ Len(idle[q]) \in Nat /\ Len(idle'[q]) = Len(idle[q]) + 1
         /\ \A r \in Pools \ {q} : idle'[r] = idle[r]
<1> DEFINE s == idle[q]
           n == Len(idle[q]) + 1
<1>1. idle \in [Pools -> Seq(Sessions)] /\ s \in Seq(Sessions)
      /\ held \in [Tasks -> Sessions \union {"none"}] /\ held[t] \in Sessions
  BY DEF PoolTypeOK
<1>2. /\ Len(s) \in Nat /\ DOMAIN s = 1 .. Len(s)
      /\ Append(s, held[t]) \in Seq(Sessions) /\ Len(Append(s, held[t])) = n
      /\ DOMAIN Append(s, held[t]) = 1 .. n
      /\ \A i \in 1 .. Len(s) : Append(s, held[t])[i] = s[i]
      /\ Append(s, held[t])[n] = held[t]
  BY <1>1, LenProperties
<1>3. /\ idle' \in [Pools -> Seq(Sessions)] /\ idle'[q] = Append(s, held[t])
      /\ \A r \in Pools \ {q} : idle'[r] = idle[r]
  BY <1>1, <1>2
<1>4. /\ held' \in [Tasks -> Sessions \union {"none"}] /\ held'[t] = "none"
      /\ \A u \in Tasks \ {t} : held'[u] = held[u]
  BY <1>1
<1>5. \A r \in Pools : \A i \in DOMAIN idle'[r] :
        \/ i \in DOMAIN idle[r] /\ idle'[r][i] = idle[r][i]
        \/ r = q /\ i = n /\ idle'[r][i] = held[t]
  BY <1>2, <1>3
<1>6. Exclusive(held, idle, open)
  BY ExclusiveSame
<1>7. \A r \in Pools : \A i \in DOMAIN idle[r] : idle[r][i] # "none"
  BY <1>1, LenProperties, ElementOfSeq, McpPoolAssumption
<1>8. Exclusive(held', idle', open')
  <2> HIDE DEF n, s
  <2>1. \A u, v \in Tasks : held'[u] = held'[v] /\ held'[u] # "none" => u = v
    BY <1>4, <1>6 DEF Exclusive
  <2>2. \A r \in Pools, u \in Tasks : \A i \in DOMAIN idle'[r] : held'[u] # idle'[r][i]
    BY <1>4, <1>5, <1>6, <1>7 DEF Exclusive
  <2>3. \A r, p \in Pools : \A i \in DOMAIN idle'[r], j \in DOMAIN idle'[p] :
          idle'[r][i] = idle'[p][j] => r = p /\ i = j
    BY <1>5, <1>6 DEF Exclusive
  <2>4. \A u \in Tasks : held'[u] # "none" => held'[u] \in open'
    BY <1>4, <1>6 DEF Exclusive
  <2>5. \A r \in Pools : \A i \in DOMAIN idle'[r] : idle'[r][i] \in open'
    BY <1>5, <1>6 DEF Exclusive
  <2> QED
    BY <2>1, <2>2, <2>3, <2>4, <2>5 DEF Exclusive
<1> QED
  BY <1>2, <1>3, <1>4, <1>8 DEF SessionsExclusive, Exclusive, ToSet

\* The idle sessions of a pool are closed.
LEMMA ExclusiveRetire ==
  ASSUME PoolTypeOK, SessionsExclusive, NEW q \in Pools, UNCHANGED held,
         idle' = [idle EXCEPT ![q] = <<>>], open' = open \ ToSet(idle[q])
  PROVE  /\ SessionsExclusive'
         /\ idle' \in [Pools -> Seq(Sessions)] /\ Len(idle'[q]) = 0
         /\ \A r \in Pools \ {q} : idle'[r] = idle[r]
<1>1. /\ idle' \in [Pools -> Seq(Sessions)] /\ idle'[q] = <<>>
      /\ \A r \in Pools \ {q} : idle'[r] = idle[r]
  BY EmptySeq DEF PoolTypeOK
<1>2. Exclusive(held, idle, open)
  BY ExclusiveSame
<1>3. Exclusive(held', idle', open')
  BY <1>1, <1>2 DEF Exclusive, ToSet
<1> QED
  BY <1>1, <1>3 DEF SessionsExclusive, Exclusive, ToSet

-----------------------------------------------------------------------------
\* The counter

LEMMA LivePositive ==
  ASSUME PoolTypeOK, LiveCovers, NEW t \in Tasks, NEW q \in Pools, t \in Holders(q)
  PROVE  live[q] \in Nat /\ live[q] > 0 /\ Len(idle[q]) < live[q] /\ Len(idle[q]) \in Nat
<1>1. live[q] \in Nat /\ Len(idle[q]) \in Nat
  BY LenProperties DEF PoolTypeOK
<1>2. Cardinality(Holders(q)) \in Nat /\ Cardinality(Holders(q)) # 0
  BY HoldersFinite, FS_EmptySet
<1> QED
  BY <1>1, <1>2 DEF LiveCovers

LEMMA Balance ==
  \A len, len2, live1, live2, card, card2, was, is \in Nat :
    /\ len + card <= live1
    /\ card2 + was = card + is
    /\ len2 + is + live1 <= len + was + live2
    => len2 + card2 <= live2
  OBVIOUS

\* A step of t that changes what pool q counts and what there is to count.
LEMMA LiveStep ==
  ASSUME PoolTypeOK, LiveCovers, NEW t \in Tasks, Others(t), NEW q \in Pools,
         idle' \in [Pools -> Seq(Sessions)], live' \in [Pools -> Nat],
         \A r \in Pools \ {q} :
           /\ idle'[r] = idle[r] /\ live'[r] = live[r]
           /\ Is(t, r) <= Was(t, r),
         Len(idle'[q]) + Is(t, q) + live[q] <= Len(idle[q]) + Was(t, q) + live'[q],
         live'[q] <= MaxSessions
  PROVE  LiveCovers'
<1> SUFFICES ASSUME NEW r \in Pools
             PROVE  /\ Len(idle'[r]) + Cardinality(Holders(r)') <= live'[r]
                    /\ live'[r] <= MaxSessions
  BY DEF LiveCovers
<1>1. /\ live[r] \in Nat /\ live'[r] \in Nat
      /\ Len(idle[r]) \in Nat /\ Len(idle'[r]) \in Nat
  BY LenProperties DEF PoolTypeOK
<1>2. Len(idle[r]) + Cardinality(Holders(r)) <= live[r] /\ live[r] <= MaxSessions
  BY DEF LiveCovers
<1>3. /\ Cardinality(Holders(r)) \in Nat /\ Cardinality(Holders(r)') \in Nat
      /\ Cardinality(Holders(r)') + Was(t, r) = Cardinality(Holders(r)) + Is(t, r)
      /\ Was(t, r) \in {0, 1} /\ Is(t, r) \in {0, 1}
  BY HoldersStep
<1>4. MaxSessions \in Nat
  BY McpPoolAssumption
<1>5. CASE r = q
  <2>1. Len(idle'[r]) + Is(t, r) + live[r] <= Len(idle[r]) + Was(t, r) + live'[r]
        /\ live'[r] <= MaxSessions
    BY <1>5
  <2>2. Was(t, r) \in Nat /\ Is(t, r) \in Nat
    BY <1>3
  <2> DEFINE len == Len(idle[r])
             len2 == Len(idle'[r])
             card == Cardinality(Holders(r))
             card2 == Cardinality(Holders(r)')
             was == Was(t, r)
             is == Is(t, r)
  <2>3. /\ len \in Nat /\ len2 \in Nat /\ card \in Nat /\ card2 \in Nat
        /\ was \in Nat /\ is \in Nat /\ live[r] \in Nat /\ live'[r] \in Nat
    BY <1>1, <1>3, <2>2
  <2>4. /\ len + card <= live[r] /\ card2 + was = card + is
        /\ len2 + is + live[r] <= len + was + live'[r]
    BY <1>2, <1>3, <2>1
  <2>5. len2 + card2 <= live'[r]
    <3> HIDE DEF len, len2, card, card2, was, is
    <3> QED
      BY <2>3, <2>4, Balance
  <2> QED
    BY <2>1, <2>5
<1>6. CASE r # q
  <2>1. /\ idle'[r] = idle[r] /\ live'[r] = live[r]
        /\ Is(t, r) <= Was(t, r)
    BY <1>6
  <2> QED
    BY <1>1, <1>2, <1>3, <1>4, <2>1
<1> QED
  BY <1>5, <1>6

\* Nobody becomes a holder, and nothing else changes in the pools.
LEMMA LiveKept ==
  ASSUME LiveCovers, PoolTypeOK, NEW t \in Tasks, Others(t), UNCHANGED <<idle, live>>,
         at'[t] \in Pools,
         pc'[t] \in Counted => pc[t] \in Counted /\ at'[t] = at[t]
  PROVE  LiveCovers'
<1>1. \A r \in Pools : Is(t, r) <= Was(t, r) /\ Is(t, r) \in {0, 1} /\ Was(t, r) \in {0, 1}
  BY DEF Holders, Counted, Is, Was
<1>2. /\ live' \in [Pools -> Nat] /\ idle' \in [Pools -> Seq(Sessions)]
      /\ Len(idle[at'[t]]) \in Nat /\ live[at'[t]] \in Nat
      /\ live[at'[t]] <= MaxSessions
  BY LenProperties DEF PoolTypeOK, LiveCovers
<1> QED
  BY <1>1, <1>2, LiveStep

-----------------------------------------------------------------------------
\* The actions

LEMMA LookInv ==
  ASSUME PInv, NEW t \in Tasks, pc[t] \in {"out", "polling", "blocked", "woken"},
         NEW q \in Pools, Look(t, q), at' = [at EXCEPT ![t] = q]
  PROVE  PInv'
<1> USE DEF PInv
<1>1. /\ pc \in [Tasks -> Pc] /\ at' \in [Tasks -> Pools] /\ at'[t] = q
      /\ \A u \in Tasks \ {t} : at'[u] = at[u]
      /\ held[t] = "none" /\ \A r \in Pools : Was(t, r) = 0
      /\ UNCHANGED <<generation, retiring, destroy, open, dirty>>
  BY DEF PoolTypeOK, HandInv, Handling, Holders, Was, Look
<1>2. /\ live[q] \in Nat /\ live[q] <= MaxSessions /\ MaxSessions \in Nat
      /\ Len(idle[q]) \in Nat /\ live \in [Pools -> Nat]
  BY LenProperties, McpPoolAssumption DEF PoolTypeOK, LiveCovers
<1>3. open \ {held[t]} = open
  BY <1>1, McpPoolAssumption DEF PoolTypeOK
<1>4. CASE TakeFresh(t, q) \/ TakeStale(t, q)
  <2>1. PICK x \in {"leased", "draining"} : pc' = [pc EXCEPT ![t] = x]
    BY <1>4 DEF TakeFresh, TakeStale
  <2>2. /\ UNCHANGED <<live, sleeping>>
        /\ idle[q] # <<>> /\ held' = [held EXCEPT ![t] = Last(idle[q])]
        /\ idle' = [idle EXCEPT ![q] = Front(@)]
    BY <1>4 DEF TakeFresh, TakeStale
  <2>0. lock' \in [Pools -> Tasks \union {"none"}]
    BY <1>4 DEF TakeFresh, TakeStale, PoolTypeOK
  <2>3. /\ SessionsExclusive'
        /\ held' \in [Tasks -> Sessions \union {"none"}] /\ held'[t] # "none"
        /\ idle' \in [Pools -> Seq(Sessions)]
        /\ Len(idle[q]) \in Nat \ {0} /\ Len(idle'[q]) = Len(idle[q]) - 1
        /\ \A r \in Pools \ {q} : idle'[r] = idle[r]
        /\ \A u \in Tasks \ {t} : held'[u] = held[u]
    BY <1>1, <1>3, <2>2, ExclusiveTake
  <2>4. pc' \in [Tasks -> Pc] /\ pc'[t] = x /\ \A u \in Tasks \ {t} : pc'[u] = pc[u]
    BY <1>1, <2>1 DEF Pc
  <2>5. Others(t) /\ QueueInv'
    BY <1>1, <2>2, <2>3, <2>4, QueueAlone DEF Others
  <2>6. HandInv'
    BY <2>3, <2>4, <2>5, HandStep DEF Handling
  <2>7. LiveCovers'
    <3>1. \A r \in Pools : Is(t, r) = IF r = q THEN 1 ELSE 0
      BY <1>1, <2>4 DEF Is, Counted
    <3> QED
      BY <1>1, <1>2, <2>2, <2>3, <2>5, <3>1, LiveStep
  <2>8. PoolTypeOK'
    BY <1>1, <2>0, <2>2, <2>3, <2>4 DEF PoolTypeOK
  <2> QED
    BY <2>3, <2>5, <2>6, <2>7, <2>8
<1>5. CASE TakeSlot(t, q)
  <2>1. /\ pc' = [pc EXCEPT ![t] = "spawning"] /\ live[q] < MaxSessions
        /\ live' = [live EXCEPT ![q] = @ + 1]
        /\ UNCHANGED <<idle, lock, sleeping, held>>
    BY <1>5 DEF TakeSlot
  <2>2. /\ pc' \in [Tasks -> Pc] /\ pc'[t] = "spawning"
        /\ \A u \in Tasks \ {t} : pc'[u] = pc[u]
        /\ live' \in [Pools -> Nat] /\ live'[q] = live[q] + 1
        /\ \A r \in Pools \ {q} : live'[r] = live[r]
    BY <1>1, <1>2, <2>1 DEF Pc
  <2>3. Others(t) /\ QueueInv'
    BY <1>1, <2>1, <2>2, QueueAlone DEF Others
  <2>4. HandInv'
    BY <1>1, <2>1, <2>2, <2>3, HandStep DEF Handling
  <2>5. PoolTypeOK' /\ SessionsExclusive'
    BY <1>1, <2>1, <2>2 DEF PoolTypeOK, SessionsExclusive
  <2>6. LiveCovers'
    <3>1. \A r \in Pools : Is(t, r) = IF r = q THEN 1 ELSE 0
      BY <1>1, <2>2 DEF Is, Counted
    <3>2. idle' \in [Pools -> Seq(Sessions)] /\ \A r \in Pools : idle'[r] = idle[r]
      BY <2>1 DEF PoolTypeOK
    <3>3. \A r \in Pools \ {q} :
            idle'[r] = idle[r] /\ live'[r] = live[r] /\ Is(t, r) <= Was(t, r)
      BY <1>1, <2>2, <3>1, <3>2
    <3>4. Len(idle'[q]) + Is(t, q) + live[q] <= Len(idle[q]) + Was(t, q) + live'[q]
      BY <1>1, <1>2, <2>2, <3>1, <3>2
    <3>5. live'[q] <= MaxSessions
      BY <1>2, <2>1, <2>2
    <3> QED
      BY <2>2, <2>3, <3>2, <3>3, <3>4, <3>5, LiveStep
  <2> QED
    BY <2>3, <2>4, <2>5, <2>6
<1>6. CASE Sleep(t, q)
  <2>1. /\ pc' = [pc EXCEPT ![t] = "asleep"]
        /\ sleeping' = [sleeping EXCEPT ![q] = Append(@, t)]
        /\ UNCHANGED <<idle, live, lock, held>>
    BY <1>6 DEF Sleep
  <2>2. /\ pc' \in [Tasks -> Pc] /\ pc'[t] = "asleep"
        /\ \A u \in Tasks \ {t} : pc'[u] = pc[u]
    BY <1>1, <2>1 DEF Pc
  <2>3. \A r \in Pools : \A i \in DOMAIN sleeping[r] : sleeping[r][i] \in Tasks \ {t}
    BY LenProperties, ElementOfSeq DEF PoolTypeOK, QueueInv
  <2>4. /\ sleeping' \in [Pools -> Seq(Tasks)]
        /\ sleeping'[q] = Append(sleeping[q], t)
        /\ \A r \in Pools \ {q} : sleeping'[r] = sleeping[r]
    BY <2>1 DEF PoolTypeOK
  <2>5. \A r \in Pools : \A i \in DOMAIN sleeping'[r] :
          \/ i \in DOMAIN sleeping[r] /\ sleeping'[r][i] = sleeping[r][i]
          \/ r = q /\ i = Len(sleeping[q]) + 1 /\ sleeping'[r][i] = t
    <3>1. /\ Len(sleeping[q]) \in Nat /\ DOMAIN sleeping[q] = 1 .. Len(sleeping[q])
          /\ DOMAIN Append(sleeping[q], t) = 1 .. Len(sleeping[q]) + 1
          /\ \A i \in 1 .. Len(sleeping[q]) :
               Append(sleeping[q], t)[i] = sleeping[q][i]
          /\ Append(sleeping[q], t)[Len(sleeping[q]) + 1] = t
      BY LenProperties DEF PoolTypeOK
    <3> QED
      BY <2>4, <3>1
  <2>6. QueueInv'
    BY <1>1, <2>2, <2>3, <2>5 DEF QueueInv, NoRepeats
  <2>7. Others(t)
    BY <1>1, <2>1, <2>2 DEF Others
  <2>8. HandInv'
    BY <1>1, <2>1, <2>2, <2>7, HandStep DEF Handling
  <2>9. PoolTypeOK' /\ SessionsExclusive'
    BY <1>1, <2>1, <2>2, <2>4 DEF PoolTypeOK, SessionsExclusive
  <2>10. LiveCovers'
    BY <1>1, <2>1, <2>2, <2>7, LiveKept DEF Counted
  <2> QED
    BY <2>6, <2>8, <2>9, <2>10
<1> QED
  BY <1>4, <1>5, <1>6 DEF Look

\* A task changes its position without touching sessions, slots or queues.
LEMMA StepAsideInv ==
  ASSUME PInv, NEW t \in Tasks, pc[t] # "asleep", NEW x \in Pc \ Handling,
         pc' = [pc EXCEPT ![t] = x], pc[t] \notin Handling,
         x \in Counted => pc[t] \in Counted /\ UNCHANGED at,
         at' \in [Tasks -> Pools], \A u \in Tasks \ {t} : at'[u] = at[u],
         UNCHANGED <<generation, retiring, idle, live, lock, sleeping, held,
                     destroy, open, dirty>>
  PROVE  PInv'
<1> USE DEF PInv
<1>1. pc' \in [Tasks -> Pc] /\ pc'[t] = x /\ \A u \in Tasks \ {t} : pc'[u] = pc[u]
  BY DEF PoolTypeOK
<1>2. Others(t) /\ QueueInv'
  BY <1>1, QueueAlone DEF Others
<1>3. HandInv'
  BY <1>1, <1>2, HandStep DEF HandInv
<1>4. PoolTypeOK' /\ SessionsExclusive'
  BY <1>1 DEF PoolTypeOK, SessionsExclusive
<1>5. LiveCovers'
  BY <1>1, <1>2, LiveKept
<1> QED
  BY <1>2, <1>3, <1>4, <1>5

LEMMA EnterInv ==
  ASSUME PInv, NEW t \in Tasks, pc[t] \in {"out", "polling"},
         NEW q \in Pools, Enter(t, q), at' = [at EXCEPT ![t] = q]
  PROVE  PInv'
<1>1. CASE Look(t, q)
  BY <1>1, LookInv
<1>2. CASE ~ Look(t, q)
  <2>1. "blocked" \in Pc \ Handling /\ "blocked" \notin Counted
    BY DEF Pc, Handling, Counted
  <2>2. at' \in [Tasks -> Pools] /\ \A u \in Tasks \ {t} : at'[u] = at[u]
    BY DEF PInv, PoolTypeOK
  <2> QED
    BY <1>2, <2>1, <2>2, StepAsideInv DEF Enter, Handling
<1> QED
  BY <1>1, <1>2

LEMMA BeginInv ==
  ASSUME PInv, NEW t \in Tasks, NEW p \in Providers, Begin(t, p)
  PROVE  PInv'
<1>1. Current(p) \in Pools
  BY DEF PInv, PoolTypeOK, Current, Pools
<1>2. CASE Enter(t, Current(p))
  BY <1>1, <1>2, EnterInv DEF Begin
<1>3. CASE ~ Enter(t, Current(p))
  <2>1. "polling" \in Pc \ Handling /\ "polling" \notin Counted
    BY DEF Pc, Handling, Counted
  <2>2. at' \in [Tasks -> Pools] /\ \A u \in Tasks \ {t} : at'[u] = at[u]
    BY <1>1 DEF Begin, PInv, PoolTypeOK
  <2> QED
    BY <1>3, <2>1, <2>2, StepAsideInv DEF Begin, Handling
<1> QED
  BY <1>2, <1>3

LEMMA PollResumeInv ==
  ASSUME PInv, NEW t \in Tasks, Poll(t) \/ Resume(t)
  PROVE  PInv'
<1>1. at[t] \in Pools /\ at' = [at EXCEPT ![t] = at[t]]
  BY DEF Poll, Resume, PInv, PoolTypeOK
<1>2. CASE Poll(t)
  BY <1>1, <1>2, EnterInv DEF Poll
<1>3. CASE Resume(t)
  BY <1>1, <1>3, LookInv DEF Resume
<1> QED
  BY <1>2, <1>3

\* What is known of a task that is counted in its pool.
LEMMA CountedFacts ==
  ASSUME PInv, NEW t \in Tasks, pc[t] \in Counted
  PROVE  /\ at[t] \in Pools /\ live[at[t]] \in Nat /\ live[at[t]] > 0
         /\ Len(idle[at[t]]) \in Nat /\ live[at[t]] <= MaxSessions /\ MaxSessions \in Nat
         /\ \A r \in Pools : Was(t, r) = IF r = at[t] THEN 1 ELSE 0
<1>1. at[t] \in Pools /\ t \in Holders(at[t])
  BY DEF PInv, PoolTypeOK, Holders, Counted
<1>2. \A r \in Pools : Was(t, r) = IF r = at[t] THEN 1 ELSE 0
  BY DEF Was, Holders, Counted
<1> QED
  BY <1>1, <1>2, LivePositive, McpPoolAssumption DEF PInv, LiveCovers

LEMMA DrainNextInv ==
  ASSUME PInv, NEW t \in Tasks, DrainNext(t)
  PROVE  PInv'
<1> DEFINE q == at[t]
<1> USE DEF PInv
<1>1. /\ pc[t] = "draining" /\ NotifyOne(q) /\ UNCHANGED <<generation, retiring, at, destroy>>
      /\ open' = open \ {held[t]} /\ dirty' = dirty \ {held[t]}
  BY DEF DrainNext
<1>2. /\ q \in Pools /\ live[q] \in Nat /\ live[q] > 0 /\ Len(idle[q]) \in Nat
      /\ live[q] <= MaxSessions /\ MaxSessions \in Nat
      /\ \A r \in Pools : Was(t, r) = IF r = q THEN 1 ELSE 0
  BY <1>1, CountedFacts DEF Counted
<1>3. /\ pc \in [Tasks -> Pc] /\ live \in [Pools -> Nat] /\ idle \in [Pools -> Seq(Sessions)]
      /\ lock \in [Pools -> Tasks \union {"none"}]
  BY DEF PoolTypeOK
<1>4. CASE idle[q] # <<>>
  <2>1. /\ held' = [held EXCEPT ![t] = Last(idle[q])]
        /\ idle' = [idle EXCEPT ![q] = Front(@)]
        /\ live' = [live EXCEPT ![q] = @ - 1]
        /\ pc' = Notified(pc, q) /\ UNCHANGED lock
    BY <1>4 DEF DrainNext
  <2>2. pc' = Notified([pc EXCEPT ![t] = "draining"], q)
    <3>1. [pc EXCEPT ![t] = "draining"] = pc
      BY <1>1, <1>3
    <3> QED
      BY <2>1, <3>1
  <2>3. /\ QueueInv' /\ pc' \in [Tasks -> Pc] /\ pc'[t] = "draining"
        /\ sleeping' \in [Pools -> Seq(Tasks)]
        /\ \A u \in Tasks \ {t} :
             pc'[u] = pc[u] \/ (pc[u] = "asleep" /\ pc'[u] = "woken")
    <3>1. "draining" \in Pc /\ pc[t] # "asleep"
      BY <1>1 DEF Pc
    <3> QED
      BY <1>1, <1>2, <2>2, <3>1, QueueNotify
  <2>4. /\ SessionsExclusive'
        /\ held' \in [Tasks -> Sessions \union {"none"}] /\ held'[t] # "none"
        /\ idle' \in [Pools -> Seq(Sessions)]
        /\ Len(idle[q]) \in Nat \ {0} /\ Len(idle'[q]) = Len(idle[q]) - 1
        /\ \A r \in Pools \ {q} : idle'[r] = idle[r]
        /\ \A u \in Tasks \ {t} : held'[u] = held[u]
    BY <1>1, <1>2, <1>4, <2>1, ExclusiveTake
  <2>5. Others(t)
    BY <1>1, <2>3, <2>4 DEF Others
  <2>6. HandInv'
    BY <2>3, <2>4, <2>5, HandStep DEF Handling
  <2>7. /\ live' \in [Pools -> Nat] /\ live'[q] = live[q] - 1
        /\ \A r \in Pools \ {q} : live'[r] = live[r]
    BY <1>2, <1>3, <2>1
  <2>8. LiveCovers'
    <3>1. \A r \in Pools : Is(t, r) = IF r = q THEN 1 ELSE 0
      BY <1>1, <2>3 DEF Is, Counted
    <3>2. \A r \in Pools \ {q} :
            idle'[r] = idle[r] /\ live'[r] = live[r] /\ Is(t, r) <= Was(t, r)
      BY <1>2, <2>4, <2>7, <3>1
    <3>3. /\ Len(idle'[q]) + Is(t, q) + live[q] <= Len(idle[q]) + Was(t, q) + live'[q]
          /\ live'[q] <= MaxSessions
      BY <1>2, <2>4, <2>7, <3>1
    <3> QED
      BY <1>2, <2>4, <2>5, <2>7, <3>2, <3>3, LiveStep
  <2>9. PoolTypeOK'
    BY <1>1, <2>1, <2>3, <2>4, <2>7 DEF PoolTypeOK
  <2> QED
    BY <2>3, <2>4, <2>6, <2>8, <2>9
<1>5. CASE idle[q] = <<>>
  <2>1. /\ held' = [held EXCEPT ![t] = "none"]
        /\ lock' = [lock EXCEPT ![q] = "none"]
        /\ pc' = Notified([pc EXCEPT ![t] = "spawning"], q)
        /\ UNCHANGED <<idle, live>>
    BY <1>5 DEF DrainNext
  <2>2. /\ QueueInv' /\ pc' \in [Tasks -> Pc] /\ pc'[t] = "spawning"
        /\ sleeping' \in [Pools -> Seq(Tasks)]
        /\ \A u \in Tasks \ {t} :
             pc'[u] = pc[u] \/ (pc[u] = "asleep" /\ pc'[u] = "woken")
    <3>1. "spawning" \in Pc /\ pc[t] # "asleep"
      BY <1>1 DEF Pc
    <3> QED
      BY <1>1, <1>2, <2>1, <3>1, QueueNotify
  <2>3. /\ SessionsExclusive'
        /\ held' \in [Tasks -> Sessions \union {"none"}] /\ held'[t] = "none"
        /\ \A u \in Tasks \ {t} : held'[u] = held[u]
    BY <1>1, <2>1, ExclusiveDrop
  <2>4. Others(t)
    BY <1>1, <2>2, <2>3 DEF Others
  <2>5. HandInv'
    BY <2>2, <2>3, <2>4, HandStep DEF Handling
  <2>6. LiveCovers'
    BY <1>1, <1>2, <2>1, <2>2, <2>4, LiveKept DEF Counted
  <2>7. PoolTypeOK'
    BY <1>1, <1>3, <2>1, <2>2, <2>3 DEF PoolTypeOK
  <2> QED
    BY <2>2, <2>3, <2>5, <2>6, <2>7
<1> QED
  BY <1>4, <1>5

LEMMA SpawnedInv ==
  ASSUME PInv, NEW t \in Tasks, Spawned(t)
  PROVE  PInv'
<1> USE DEF PInv
<1>1. PICK s \in Sessions \ open :
        open' = open \union {s} /\ held' = [held EXCEPT ![t] = s]
  BY DEF Spawned
<1>2. /\ pc[t] = "spawning" /\ pc' = [pc EXCEPT ![t] = "leased"]
      /\ UNCHANGED <<generation, retiring, idle, live, lock, sleeping, at, destroy, dirty>>
  BY DEF Spawned
<1>3. pc' \in [Tasks -> Pc] /\ pc'[t] = "leased" /\ \A u \in Tasks \ {t} : pc'[u] = pc[u]
  BY <1>2 DEF PoolTypeOK, Pc
<1>4. /\ SessionsExclusive'
      /\ held' \in [Tasks -> Sessions \union {"none"}] /\ held'[t] # "none"
      /\ \A u \in Tasks \ {t} : held'[u] = held[u]
  BY <1>1, <1>2, ExclusiveSpawn
<1>5. Others(t) /\ QueueInv'
  BY <1>2, <1>3, <1>4, QueueAlone DEF Others
<1>6. HandInv'
  BY <1>3, <1>4, <1>5, HandStep DEF Handling
<1>7. PoolTypeOK'
  BY <1>1, <1>2, <1>3, <1>4 DEF PoolTypeOK
<1>8. LiveCovers'
  BY <1>2, <1>3, <1>5, LiveKept DEF Counted, PoolTypeOK
<1> QED
  BY <1>4, <1>5, <1>6, <1>7, <1>8

LEMMA SpawnFailsInv ==
  ASSUME PInv, NEW t \in Tasks, SpawnFails(t)
  PROVE  PInv'
<1>1. "unreserving" \in Pc \ Handling /\ pc[t] = "spawning"
  BY DEF SpawnFails, Pc, Handling
<1>2. at' \in [Tasks -> Pools] /\ UNCHANGED at
  BY DEF SpawnFails, PInv, PoolTypeOK
<1> QED
  BY <1>1, <1>2, StepAsideInv DEF SpawnFails, Handling, Counted

LEMMA UnreserveInv ==
  ASSUME PInv, NEW t \in Tasks, Unreserve(t)
  PROVE  PInv'
<1> DEFINE q == at[t]
           pcs == [pc EXCEPT ![t] = "out"]
<1> USE DEF PInv
<1>1. /\ pc[t] = "unreserving" /\ live' = [live EXCEPT ![q] = @ - 1]
      /\ pc' = NotifyAll(pcs, q) /\ sleeping' = [sleeping EXCEPT ![q] = <<>>]
      /\ UNCHANGED <<generation, retiring, idle, lock, at, held, destroy, open, dirty>>
  BY DEF Unreserve
<1>2. /\ q \in Pools /\ live[q] \in Nat /\ live[q] > 0 /\ Len(idle[q]) \in Nat
      /\ live[q] <= MaxSessions /\ MaxSessions \in Nat
      /\ \A r \in Pools : Was(t, r) = IF r = q THEN 1 ELSE 0
  BY <1>1, CountedFacts DEF Counted
<1>3. /\ pcs \in [Tasks -> Pc] /\ pcs[t] = "out"
      /\ \A u \in Tasks \ {t} : pcs[u] = pc[u]
  BY DEF PoolTypeOK, Pc
<1>4. /\ QueueInv' /\ pc' \in [Tasks -> Pc]
      /\ sleeping' \in [Pools -> Seq(Tasks)]
      /\ \A u \in Tasks : pc'[u] = pcs[u] \/ (pc[u] = "asleep" /\ pc'[u] = "woken")
  <2>1. \A u \in Tasks : pcs[u] = pc[u] \/ pc[u] # "asleep"
    BY <1>1, <1>3
  <2> HIDE DEF pcs
  <2> QED
    BY <1>1, <1>2, <1>3, <2>1, QueueNotifyAll
<1>5. Others(t) /\ pc'[t] = "out"
  BY <1>1, <1>3, <1>4 DEF Others
<1>6. HandInv'
  BY <1>1, <1>5, HandStep DEF HandInv, Handling
<1>7. /\ live' \in [Pools -> Nat] /\ live'[q] = live[q] - 1
      /\ \A r \in Pools \ {q} : live'[r] = live[r]
  BY <1>1, <1>2 DEF PoolTypeOK
<1>8. LiveCovers'
  <2>1. \A r \in Pools : Is(t, r) = 0
    BY <1>5 DEF Is, Counted
  <2>2. /\ idle' \in [Pools -> Seq(Sessions)]
        /\ \A r \in Pools \ {q} :
             idle'[r] = idle[r] /\ live'[r] = live[r] /\ Is(t, r) <= Was(t, r)
    BY <1>1, <1>2, <1>7, <2>1 DEF PoolTypeOK
  <2>3. /\ Len(idle'[q]) + Is(t, q) + live[q] <= Len(idle[q]) + Was(t, q) + live'[q]
        /\ live'[q] <= MaxSessions
    BY <1>1, <1>2, <1>7, <2>1
  <2> QED
    BY <1>2, <1>5, <1>7, <2>2, <2>3, LiveStep
<1>9. PoolTypeOK'
  <2>1. UNCHANGED <<generation, retiring, idle, lock, at, held, destroy, open, dirty>>
    BY <1>1
  <2> QED
    BY <1>4, <1>7, <2>1 DEF PoolTypeOK
<1>10. SessionsExclusive'
  <2>1. UNCHANGED <<idle, held, open>>
    BY <1>1
  <2> QED
    BY <2>1 DEF SessionsExclusive
<1> QED
  BY <1>4, <1>6, <1>8, <1>9, <1>10

LEMMA CallEndsInv ==
  ASSUME PInv, NEW t \in Tasks, NEW how \in Endings, CallEnds(t, how)
  PROVE  PInv'
<1> USE DEF PInv
<1>1. /\ pc[t] = "leased" /\ pc' = [pc EXCEPT ![t] = "returning"]
      /\ destroy' = [destroy EXCEPT ![t] = (how = "raised")]
      /\ UNCHANGED <<generation, retiring, idle, live, lock, sleeping, at, held, open>>
  BY DEF CallEnds
<1>2. pc' \in [Tasks -> Pc] /\ pc'[t] = "returning" /\ \A u \in Tasks \ {t} : pc'[u] = pc[u]
  BY <1>1 DEF PoolTypeOK, Pc
<1>3. Others(t) /\ QueueInv'
  BY <1>1, <1>2, QueueAlone DEF Others
<1>4. HandInv'
  BY <1>1, <1>2, <1>3, HandStep DEF HandInv, Handling
<1>5. dirty' \subseteq open'
  <2>1. held[t] \in open
    BY <1>1 DEF HandInv, Handling, SessionsExclusive
  <2> QED
    BY <1>1, <2>1 DEF CallEnds, PoolTypeOK
<1>6. PoolTypeOK'
  BY <1>1, <1>2, <1>5 DEF PoolTypeOK
<1>7. SessionsExclusive'
  BY <1>1 DEF SessionsExclusive
<1>8. LiveCovers'
  BY <1>1, <1>2, <1>3, LiveKept DEF Counted, PoolTypeOK
<1> QED
  BY <1>3, <1>4, <1>6, <1>7, <1>8

LEMMA ReturnInv ==
  ASSUME PInv, NEW t \in Tasks, Return(t)
  PROVE  PInv'
<1> DEFINE q == at[t]
<1> USE DEF PInv
<1>1. /\ pc[t] = "returning" /\ NotifyOne(q)
      /\ UNCHANGED <<generation, retiring, lock, at, destroy, open, dirty>>
  BY DEF Return
<1>2. /\ q \in Pools /\ live[q] \in Nat /\ live[q] > 0 /\ Len(idle[q]) \in Nat
      /\ live[q] <= MaxSessions /\ MaxSessions \in Nat
      /\ \A r \in Pools : Was(t, r) = IF r = q THEN 1 ELSE 0
  BY <1>1, CountedFacts DEF Counted
<1>3. held[t] # "none"
  BY <1>1 DEF HandInv, Handling
<1>4. ASSUME NEW x \in {"closing", "out"}, pc' = Notified([pc EXCEPT ![t] = x], q)
      PROVE  /\ QueueInv' /\ pc' \in [Tasks -> Pc] /\ pc'[t] = x
             /\ sleeping' \in [Pools -> Seq(Tasks)]
             /\ \A u \in Tasks \ {t} :
                  pc'[u] = pc[u] \/ (pc[u] = "asleep" /\ pc'[u] = "woken")
             /\ \A r \in Pools : Is(t, r) = 0
  <2>1. x \in Pc /\ pc[t] # "asleep"
    BY <1>1 DEF Pc
  <2>2. /\ QueueInv' /\ pc' \in [Tasks -> Pc] /\ pc'[t] = x
        /\ sleeping' \in [Pools -> Seq(Tasks)]
        /\ \A u \in Tasks \ {t} :
             pc'[u] = pc[u] \/ (pc[u] = "asleep" /\ pc'[u] = "woken")
    BY <1>1, <1>2, <1>4, <2>1, QueueNotify
  <2>3. \A r \in Pools : Is(t, r) = 0
    BY <2>2 DEF Is, Counted
  <2> QED
    BY <2>2, <2>3
<1>5. CASE /\ live' = [live EXCEPT ![q] = @ - 1]
           /\ pc' = Notified([pc EXCEPT ![t] = "closing"], q)
           /\ UNCHANGED <<idle, held>>
  <2>1. /\ QueueInv' /\ pc' \in [Tasks -> Pc] /\ pc'[t] = "closing"
        /\ sleeping' \in [Pools -> Seq(Tasks)]
        /\ \A r \in Pools : Is(t, r) = 0
    BY <1>4, <1>5
  <2>2. Others(t)
    BY <1>1, <1>4, <1>5 DEF Others
  <2>3. HandInv'
    BY <1>3, <1>5, <2>1, <2>2, HandStep DEF Handling
  <2>4. /\ live' \in [Pools -> Nat] /\ live'[q] = live[q] - 1
        /\ \A r \in Pools \ {q} : live'[r] = live[r]
    BY <1>2, <1>5 DEF PoolTypeOK
  <2>5. LiveCovers'
    <3>1. /\ idle' \in [Pools -> Seq(Sessions)]
          /\ \A r \in Pools \ {q} :
               idle'[r] = idle[r] /\ live'[r] = live[r] /\ Is(t, r) <= Was(t, r)
      BY <1>2, <1>5, <2>1, <2>4 DEF PoolTypeOK
    <3>2. /\ Len(idle'[q]) + Is(t, q) + live[q] <= Len(idle[q]) + Was(t, q) + live'[q]
          /\ live'[q] <= MaxSessions
      BY <1>2, <1>5, <2>1, <2>4
    <3> QED
      BY <1>2, <2>2, <2>4, <3>1, <3>2, LiveStep
  <2>6. PoolTypeOK'
    BY <1>1, <1>5, <2>1, <2>4 DEF PoolTypeOK
  <2>7. SessionsExclusive'
    BY <1>1, <1>5 DEF SessionsExclusive
  <2> QED
    BY <2>1, <2>3, <2>5, <2>6, <2>7
<1>6. CASE /\ idle' = [idle EXCEPT ![q] = Append(@, held[t])]
           /\ held' = [held EXCEPT ![t] = "none"]
           /\ pc' = Notified([pc EXCEPT ![t] = "out"], q)
           /\ UNCHANGED live
  <2>1. /\ QueueInv' /\ pc' \in [Tasks -> Pc] /\ pc'[t] = "out"
        /\ sleeping' \in [Pools -> Seq(Tasks)]
        /\ \A r \in Pools : Is(t, r) = 0
    BY <1>4, <1>6
  <2>2. /\ SessionsExclusive'
        /\ held' \in [Tasks -> Sessions \union {"none"}] /\ held'[t] = "none"
        /\ \A u \in Tasks \ {t} : held'[u] = held[u]
        /\ idle' \in [Pools -> Seq(Sessions)]
        /\ Len(idle[q]) \in Nat /\ Len(idle'[q]) = Len(idle[q]) + 1
        /\ \A r \in Pools \ {q} : idle'[r] = idle[r]
    BY <1>1, <1>2, <1>3, <1>6, ExclusiveReturn
  <2>3. Others(t)
    BY <1>1, <1>4, <1>6, <2>2 DEF Others
  <2>4. HandInv'
    BY <2>1, <2>2, <2>3, HandStep DEF Handling
  <2>5. LiveCovers'
    <3>1. /\ live' \in [Pools -> Nat] /\ live'[q] = live[q]
          /\ \A r \in Pools \ {q} :
               idle'[r] = idle[r] /\ live'[r] = live[r] /\ Is(t, r) <= Was(t, r)
      BY <1>2, <1>6, <2>1, <2>2 DEF PoolTypeOK
    <3>2. /\ Len(idle'[q]) + Is(t, q) + live[q] <= Len(idle[q]) + Was(t, q) + live'[q]
          /\ live'[q] <= MaxSessions
      BY <1>2, <2>1, <2>2, <3>1
    <3> QED
      BY <1>2, <2>2, <2>3, <3>1, <3>2, LiveStep
  <2>6. PoolTypeOK'
    BY <1>1, <1>6, <2>1, <2>2 DEF PoolTypeOK
  <2> QED
    BY <2>1, <2>2, <2>4, <2>5, <2>6
<1> QED
  BY <1>5, <1>6 DEF Return

\* What t has is gone, and t is out; the lock may be freed.
LEMMA DropInv ==
  ASSUME PInv, NEW t \in Tasks, pc[t] # "asleep",
         pc' = [pc EXCEPT ![t] = "out"], held' = [held EXCEPT ![t] = "none"],
         \/ UNCHANGED <<open, dirty>>
         \/ open' = open \ {held[t]} /\ dirty' = dirty \ {held[t]},
         \/ UNCHANGED lock
         \/ lock' = [lock EXCEPT ![at[t]] = "none"],
         UNCHANGED <<generation, retiring, idle, live, sleeping, at, destroy>>
  PROVE  PInv'
<1> USE DEF PInv
<1>1. pc' \in [Tasks -> Pc] /\ pc'[t] = "out" /\ \A u \in Tasks \ {t} : pc'[u] = pc[u]
  BY DEF PoolTypeOK, Pc
<1>2. /\ SessionsExclusive'
      /\ held' \in [Tasks -> Sessions \union {"none"}] /\ held'[t] = "none"
      /\ \A u \in Tasks \ {t} : held'[u] = held[u]
  BY ExclusiveDrop
<1>3. Others(t) /\ QueueInv'
  BY <1>1, <1>2, QueueAlone DEF Others
<1>4. HandInv'
  BY <1>1, <1>2, <1>3, HandStep DEF Handling
<1>5. PoolTypeOK'
  BY <1>1, <1>2 DEF PoolTypeOK
<1>6. LiveCovers'
  BY <1>1, <1>3, LiveKept DEF Counted, PoolTypeOK
<1> QED
  BY <1>2, <1>3, <1>4, <1>5, <1>6

LEMMA GiveUpInv ==
  ASSUME PInv, NEW t \in Tasks, GiveUp(t)
  PROVE  PInv'
<1> DEFINE q == at[t]
<1> USE DEF PInv
<1>1. /\ pc[t] \in {"polling", "blocked", "asleep", "woken"}
      /\ pc' = [pc EXCEPT ![t] = "out"]
      /\ UNCHANGED <<generation, retiring, idle, live, lock, at, held, destroy, open, dirty>>
  BY DEF GiveUp
<1>2. CASE pc[t] # "asleep"
  <2>1. "out" \in Pc \ Handling /\ "out" \notin Counted /\ pc[t] \notin Handling
    BY <1>1 DEF Pc, Handling, Counted
  <2>2. UNCHANGED sleeping /\ at' \in [Tasks -> Pools]
    BY <1>1, <1>2 DEF GiveUp, PoolTypeOK
  <2> QED
    BY <1>1, <1>2, <2>1, <2>2, StepAsideInv
<1>3. CASE pc[t] = "asleep"
  <2>1. PICK i \in DOMAIN sleeping[q] :
          sleeping[q][i] = t /\ sleeping' = [sleeping EXCEPT ![q] = RemoveAt(@, i)]
    BY <1>3 DEF GiveUp
  <2> DEFINE s == sleeping[q]
             r == RemoveAt(sleeping[q], i)
  <2>2. q \in Pools /\ s \in Seq(Tasks) /\ NoRepeats(s)
    BY DEF PoolTypeOK, QueueInv
  <2>3. /\ r \in Seq(Tasks) /\ NoRepeats(r)
        /\ \A j \in DOMAIN r : r[j] # t /\ \E k \in DOMAIN s : r[j] = s[k]
    BY <2>1, <2>2, RemoveAtKeeps
  <2>4. /\ sleeping' \in [Pools -> Seq(Tasks)] /\ sleeping'[q] = r
        /\ \A p \in Pools \ {q} : sleeping'[p] = sleeping[p]
    BY <2>1, <2>2, <2>3 DEF PoolTypeOK
  <2>5. pc' \in [Tasks -> Pc] /\ pc'[t] = "out" /\ \A u \in Tasks \ {t} : pc'[u] = pc[u]
    BY <1>1 DEF PoolTypeOK, Pc
  <2>6. \A p \in Pools : \A j \in DOMAIN sleeping[p] :
          /\ sleeping[p][j] \in Tasks /\ pc[sleeping[p][j]] = "asleep"
          /\ at[sleeping[p][j]] = p
    BY LenProperties, ElementOfSeq DEF PoolTypeOK, QueueInv
  <2>7. ASSUME NEW p \in Pools, NEW j \in DOMAIN sleeping'[p]
        PROVE  pc'[sleeping'[p][j]] = "asleep" /\ at'[sleeping'[p][j]] = p
    <3>1. CASE p = q
      <4>1. PICK k \in DOMAIN s : r[j] = s[k] /\ r[j] # t
        BY <2>3, <2>4, <2>7, <3>1
      <4>2. s[k] \in Tasks /\ pc[s[k]] = "asleep" /\ at[s[k]] = q
        BY <2>2, <2>6
      <4> HIDE DEF s, r
      <4> QED
        BY <1>1, <2>4, <2>5, <3>1, <4>1, <4>2
    <3>2. CASE p # q
      BY <1>1, <2>4, <2>5, <2>6, <3>2
    <3> QED
      BY <3>1, <3>2
  <2>8. \A p \in Pools : NoRepeats(sleeping'[p])
    BY <2>3, <2>4 DEF QueueInv
  <2>9. QueueInv'
    BY <2>7, <2>8 DEF QueueInv
  <2>10. Others(t)
    BY <1>1, <2>5 DEF Others
  <2>11. HandInv'
    BY <1>1, <1>3, <2>5, <2>10, HandStep DEF HandInv, Handling
  <2>12. PoolTypeOK'
    BY <1>1, <2>4, <2>5 DEF PoolTypeOK
  <2>13. SessionsExclusive'
    BY <1>1 DEF SessionsExclusive
  <2>14. LiveCovers'
    BY <1>1, <2>2, <2>5, <2>10, LiveKept DEF Counted
  <2> QED
    BY <2>9, <2>11, <2>12, <2>13, <2>14
<1> QED
  BY <1>2, <1>3

LEMMA RecyclingInv ==
  ASSUME PInv, Recycling
  PROVE  PInv'
<1> USE DEF PInv
<1>1. ASSUME NEW p \in Providers, Recycle(p) PROVE PInv'
  <2>1. /\ generation[p] < MaxRecycles /\ generation' = [generation EXCEPT ![p] = @ + 1]
        /\ retiring' = retiring \union {Current(p)}
        /\ UNCHANGED <<idle, live, lock, sleeping, pc, at, held, destroy, open, dirty>>
    BY <1>1 DEF Recycle
  <2>2. /\ generation' \in [Providers -> 0 .. MaxRecycles]
        /\ Current(p) \in Pools
    BY <2>1, McpPoolAssumption DEF PoolTypeOK, Current, Pools
  <2>3. PoolTypeOK'
    BY <2>1, <2>2 DEF PoolTypeOK
  <2>4. QueueInv' /\ HandInv'
    BY <2>1 DEF QueueInv, HandInv
  <2>5. SessionsExclusive' /\ LiveCovers'
    BY <2>1 DEF SessionsExclusive, LiveCovers, Holders
  <2> QED
    BY <2>3, <2>4, <2>5
<1>2. ASSUME NEW q \in Pools, Retire(q) PROVE PInv'
  <2>1. /\ live' = [live EXCEPT ![q] = @ - Len(idle[q])]
        /\ idle' = [idle EXCEPT ![q] = <<>>]
        /\ open' = open \ ToSet(idle[q]) /\ dirty' = dirty \ ToSet(idle[q])
        /\ pc' = NotifyAll(pc, q) /\ sleeping' = [sleeping EXCEPT ![q] = <<>>]
        /\ retiring' = retiring \ {q}
        /\ UNCHANGED <<generation, lock, at, held, destroy>>
    BY <1>2 DEF Retire
  <2>2. /\ QueueInv' /\ pc' \in [Tasks -> Pc]
        /\ sleeping' \in [Pools -> Seq(Tasks)]
        /\ \A u \in Tasks : pc'[u] = pc[u] \/ (pc[u] = "asleep" /\ pc'[u] = "woken")
    <3>1. pc \in [Tasks -> Pc]
      BY DEF PoolTypeOK
    <3> QED
      BY <2>1, <3>1, QueueNotifyAll
  <2>3. /\ SessionsExclusive'
        /\ idle' \in [Pools -> Seq(Sessions)] /\ Len(idle'[q]) = 0
        /\ \A r \in Pools \ {q} : idle'[r] = idle[r]
    BY <2>1, ExclusiveRetire
  <2>4. HandInv'
    BY <2>1, <2>2 DEF HandInv, Handling
  <2>5. \A r \in Pools : Holders(r)' = Holders(r)
    BY <2>1, <2>2 DEF Holders
  <2>6. /\ Len(idle[q]) \in Nat /\ live[q] \in Nat /\ Cardinality(Holders(q)) \in Nat
        /\ Len(idle[q]) + Cardinality(Holders(q)) <= live[q]
        /\ live[q] <= MaxSessions /\ MaxSessions \in Nat
    BY HoldersFinite, LenProperties, McpPoolAssumption DEF PoolTypeOK, LiveCovers
  <2>7. /\ live' \in [Pools -> Nat] /\ live'[q] = live[q] - Len(idle[q])
        /\ \A r \in Pools \ {q} : live'[r] = live[r]
    BY <2>1, <2>6 DEF PoolTypeOK
  <2>8. LiveCovers'
    <3>1. Len(idle'[q]) + Cardinality(Holders(q)) <= live'[q] /\ live'[q] <= MaxSessions
      BY <2>3, <2>6, <2>7
    <3>2. \A r \in Pools \ {q} :
            Len(idle'[r]) + Cardinality(Holders(r)) <= live'[r] /\ live'[r] <= MaxSessions
      BY <2>3, <2>7 DEF LiveCovers
    <3> QED
      BY <2>5, <3>1, <3>2 DEF LiveCovers
  <2>9. PoolTypeOK'
    <3>1. dirty' \subseteq open' /\ open' \subseteq Sessions
      BY <2>1 DEF PoolTypeOK
    <3> QED
      BY <2>1, <2>2, <2>3, <2>7, <3>1 DEF PoolTypeOK
  <2> QED
    BY <2>2, <2>3, <2>4, <2>8, <2>9
<1> QED
  BY <1>1, <1>2 DEF Recycling

-----------------------------------------------------------------------------
LEMMA PoolInitInv == PoolInit => PInv
<1> SUFFICES ASSUME PoolInit PROVE PInv
  OBVIOUS
<1>1. \A p \in Providers : <<p, 0>> \in Pools
  BY McpPoolAssumption DEF Pools
<1>2. PoolTypeOK
  BY <1>1, EmptySeq, McpPoolAssumption DEF PoolInit, PoolTypeOK, Pc
<1>3. QueueInv /\ HandInv
  BY DEF PoolInit, QueueInv, HandInv, NoRepeats, Handling
<1>4. SessionsExclusive
  BY DEF PoolInit, SessionsExclusive, ToSet
<1>5. LiveCovers
  <2>1. \A q \in Pools : Holders(q) = {} /\ Len(idle[q]) = 0 /\ live[q] = 0
    BY EmptySeq DEF PoolInit, Holders
  <2>2. \A q \in Pools : Len(idle[q]) + Cardinality(Holders(q)) <= live[q]
    <3> SUFFICES ASSUME NEW q \in Pools
                 PROVE  Len(idle[q]) + Cardinality(Holders(q)) <= live[q]
      OBVIOUS
    <3>1. Holders(q) = {} /\ Len(idle[q]) = 0 /\ live[q] = 0
      BY <2>1
    <3>2. Cardinality(Holders(q)) = 0
      BY <3>1, FS_EmptySet
    <3> QED
      BY <3>1, <3>2
  <2>3. \A q \in Pools : live[q] <= MaxSessions
    BY <2>1, McpPoolAssumption
  <2> QED
    BY <2>2, <2>3 DEF LiveCovers
<1> QED
  BY <1>2, <1>3, <1>4, <1>5 DEF PInv

LEMMA CancelStepInv ==
  ASSUME PInv, NEW t \in Tasks, CancelStep(t)
  PROVE  PInv'
<1>1. CASE GiveUp(t)
  BY <1>1, GiveUpInv
<1>2. CASE CancelDrain(t) \/ CancelReturn(t)
  BY <1>2, DropInv DEF CancelDrain, CancelReturn
<1> QED
  BY <1>1, <1>2 DEF CancelStep

LEMMA PoolStepInv ==
  ASSUME PInv, NEW t \in Tasks, PoolStep(t)
  PROVE  PInv'
<1>1. CASE Close(t)
  BY <1>1, DropInv DEF Close
<1> QED
  BY <1>1, PollResumeInv, DrainNextInv, SpawnedInv, SpawnFailsInv, UnreserveInv,
     ReturnInv DEF PoolStep

LEMMA PInvStep == PInv /\ [PoolNext]_poolVars => PInv'
<1> SUFFICES ASSUME PInv, [PoolNext]_poolVars PROVE PInv'
  OBVIOUS
<1>1. CASE UNCHANGED poolVars
  <2>1. /\ UNCHANGED <<generation, retiring, idle, live, lock, sleeping>>
        /\ UNCHANGED <<pc, at, held, destroy, open, dirty>>
    BY <1>1 DEF poolVars
  <2>2. PoolTypeOK'
    BY <2>1 DEF PInv, PoolTypeOK
  <2>3. QueueInv' /\ HandInv'
    BY <2>1 DEF PInv, QueueInv, HandInv
  <2>4. SessionsExclusive'
    BY <2>1 DEF PInv, SessionsExclusive
  <2>5. \A q \in Pools : Holders(q)' = Holders(q)
    BY <2>1 DEF Holders
  <2>6. LiveCovers'
    BY <2>1, <2>5 DEF PInv, LiveCovers
  <2> QED
    BY <2>2, <2>3, <2>4, <2>6 DEF PInv
<1>2. ASSUME NEW t \in Tasks, NEW p \in Providers, Begin(t, p) PROVE PInv'
  BY <1>2, BeginInv
<1>3. ASSUME NEW t \in Tasks, TaskStep(t) PROVE PInv'
  <2>1. CASE PoolStep(t)
    BY <2>1, PoolStepInv
  <2>2. CASE \E how \in Endings : CallEnds(t, how)
    BY <2>2, CallEndsInv
  <2> QED
    BY <1>3, <2>1, <2>2 DEF TaskStep
<1>4. ASSUME NEW t \in Tasks, CancelStep(t) PROVE PInv'
  BY <1>4, CancelStepInv
<1>5. CASE Recycling
  BY <1>5, RecyclingInv
<1> QED
  BY <1>1, <1>2, <1>3, <1>4, <1>5 DEF PoolNext

\* The types of the pool's variables.
THEOREM PoolTypeCorrect == PoolSpec => []PoolTypeOK
<1>1. PInv => PoolTypeOK
  BY DEF PInv
<1> QED
  BY <1>1, PoolInitInv, PInvStep, PTL DEF PoolSpec

\* No two tasks ever speak over one transport: a session is in one hand or
\* once in one deque, however tasks are woken, cancelled and recycled.
THEOREM SessionsStayExclusive == PoolSpec => []SessionsExclusive
<1>1. PInv => SessionsExclusive
  BY DEF PInv
<1> QED
  BY <1>1, PoolInitInv, PInvStep, PTL DEF PoolSpec

\* The counter of a pool covers its idle sessions and all who hold a session
\* or a slot of it, and stays within max_sessions.
THEOREM LiveAlwaysCovers == PoolSpec => []LiveCovers
<1>1. PInv => LiveCovers
  BY DEF PInv
<1> QED
  BY <1>1, PoolInitInv, PInvStep, PTL DEF PoolSpec

-----------------------------------------------------------------------------
(***************************************************************************)
(* Proofs about McpInvoker, from those of its two layers.  What ties the   *)
(* layers together is LinkInv: whoever uses the pool is in the body of its *)
(* reservation, and whoever queues for a reservation does nothing else, so *)
(* that no step of one layer surprises the other.                          *)
(***************************************************************************)
CapP == INSTANCE WorkspaceCapProofs WITH MaxPerWorkspace <- PoolCap

Waits(t) ==
  \/ \E i \in DOMAIN waiters : waiters[i] = t
  \/ \E i \in DOMAIN woken : woken[i] = t

Reserved == {"reserved", "leasing", "leaving"}

LinkInv ==
  /\ \A t \in Tasks : pc[t] # "out" => phase[t] = "leasing"
  /\ \A t \in Tasks : phase[t] \in Reserved => t \in inside
  /\ \A t \in Tasks : Waits(t) => phase[t] = "started"

OwnTypes ==
  /\ phase \in [Tasks -> Phase]
  /\ outcome \in [Tasks -> Outcomes]
  /\ audited \subseteq Tasks

IInv == PInv /\ CapP!CapInv /\ OwnTypes /\ LinkInv

-----------------------------------------------------------------------------
\* The pool's layer: a step of one task takes nobody else into the pool.
OthersStayOut(t) == \A u \in Tasks : u # t /\ pc'[u] # "out" => pc[u] # "out"

LEMMA NotifiedOut ==
  ASSUME PInv, NEW q \in Pools, NEW pcs \in [Tasks -> Pc], NEW u \in Tasks,
         Notified(pcs, q)[u] # "out"
  PROVE  pcs[u] # "out" \/ pc[u] = "asleep"
<1>1. CASE sleeping[q] = <<>>
  BY <1>1 DEF Notified
<1>2. CASE sleeping[q] # <<>>
  <2>1. sleeping[q] \in Seq(Tasks) /\ 1 \in DOMAIN sleeping[q] /\ Head(sleeping[q]) = sleeping[q][1]
    BY <1>2, EmptySeq, LenProperties DEF PInv, PoolTypeOK
  <2>2. pc[Head(sleeping[q])] = "asleep"
    BY <2>1 DEF PInv, QueueInv
  <2> QED
    BY <1>2, <2>2 DEF Notified
<1> QED
  BY <1>1, <1>2

LEMMA NotifyAllOut ==
  ASSUME PInv, NEW q \in Pools, NEW pcs, NEW u \in Tasks,
         NotifyAll(pcs, q)[u] # "out"
  PROVE  pcs[u] # "out" \/ pc[u] = "asleep"
<1>1. u \in ToSet(sleeping[q]) => pc[u] = "asleep"
  BY DEF ToSet, PInv, QueueInv
<1> QED
  BY <1>1 DEF NotifyAll

LEMMA LookOut ==
  ASSUME PInv, NEW t \in Tasks, NEW q, Enter(t, q) \/ Look(t, q)
  PROVE  OthersStayOut(t)
BY DEF Enter, Look, TakeFresh, TakeStale, TakeSlot, Sleep, OthersStayOut, PInv, PoolTypeOK

LEMMA StepOut ==
  ASSUME PInv, NEW t \in Tasks,
         \/ \E p \in Providers : Begin(t, p)
         \/ PoolStep(t) \/ CancelStep(t)
         \/ \E how \in Endings : CallEnds(t, how)
  PROVE  OthersStayOut(t)
<1>1. at[t] \in Pools /\ pc \in [Tasks -> Pc]
  BY DEF PInv, PoolTypeOK
<1>2. CASE \E p \in Providers : Begin(t, p)
  BY <1>1, <1>2, LookOut DEF Begin, OthersStayOut
<1>3. CASE Poll(t) \/ Resume(t)
  BY <1>3, LookOut DEF Poll, Resume
<1>4. CASE DrainNext(t) \/ Return(t)
  <2>1. PICK pcs \in {pc, [pc EXCEPT ![t] = "spawning"], [pc EXCEPT ![t] = "closing"],
                      [pc EXCEPT ![t] = "out"]} : pc' = Notified(pcs, at[t])
    BY <1>4 DEF DrainNext, Return
  <2>2. pcs \in [Tasks -> Pc] /\ \A u \in Tasks : u # t => pcs[u] = pc[u]
    BY <1>1 DEF Pc
  <2> QED
    BY <1>1, <2>1, <2>2, NotifiedOut DEF OthersStayOut
<1>5. CASE Unreserve(t)
  <2>1. pc' = NotifyAll([pc EXCEPT ![t] = "out"], at[t])
    BY <1>5 DEF Unreserve
  <2>2. \A u \in Tasks : u # t => [pc EXCEPT ![t] = "out"][u] = pc[u]
    BY <1>1
  <2> QED
    BY <1>1, <2>1, <2>2, NotifyAllOut DEF OthersStayOut
<1>6. CASE \/ Spawned(t) \/ SpawnFails(t) \/ Close(t) \/ CancelStep(t)
           \/ \E how \in Endings : CallEnds(t, how)
  BY <1>1, <1>6 DEF Spawned, SpawnFails, Close, CancelStep, GiveUp, CancelDrain, CancelReturn,
                   CallEnds, OthersStayOut
<1> QED
  BY <1>2, <1>3, <1>4, <1>5, <1>6 DEF PoolStep

LEMMA RecyclingOut ==
  ASSUME PInv, Recycling
  PROVE  \A u \in Tasks : pc'[u] # "out" => pc[u] # "out"
<1>1. CASE \E p \in Providers : Recycle(p)
  BY <1>1 DEF Recycle
<1>2. CASE \E q \in Pools : Retire(q)
  BY <1>2, NotifyAllOut DEF Retire
<1> QED
  BY <1>1, <1>2 DEF Recycling

-----------------------------------------------------------------------------
\* The workspace's layer

CapStep(t) == Cap!Reserve(t) \/ Cap!GiveUp(t) \/ Cap!Leave(t)

LEMMA CapKept ==
  ASSUME CapP!CapInv, (\E t \in Tasks : CapStep(t)) \/ Cap!Awake \/ UNCHANGED capVars
  PROVE  CapP!CapInv'
<1>1. ASSUME NEW t \in Tasks, CapStep(t) PROVE CapP!CapNext
  <2>1. CASE Cap!Reserve(t)
    <3>1. CapP!Reserve(t)
      BY <2>1
      DEF Cap!Reserve, Cap!Outside, Cap!Queued, Cap!Admit, Cap!Enqueue, Cap!ToSet,
          CapP!Reserve, CapP!Outside, CapP!Queued, CapP!Admit, CapP!Enqueue, CapP!ToSet
    <3> QED
      BY <3>1 DEF CapP!CapNext
  <2>2. CASE Cap!GiveUp(t)
    <3>1. CapP!GiveUp(t)
      BY <2>2 DEF Cap!GiveUp, Cap!RemoveAt, CapP!GiveUp, CapP!RemoveAt
    <3> QED
      BY <3>1 DEF CapP!CapNext
  <2>3. CASE Cap!Leave(t)
    <3>1. CapP!Leave(t)
      BY <2>3 DEF Cap!Leave, CapP!Leave
    <3> QED
      BY <3>1 DEF CapP!CapNext
  <2> QED
    BY <1>1, <2>1, <2>2, <2>3 DEF CapStep
<1>2. ASSUME Cap!Awake PROVE CapP!CapNext
  <2>1. CapP!Awake
    BY <1>2 DEF Cap!Awake, Cap!Admit, Cap!Enqueue, CapP!Awake, CapP!Admit, CapP!Enqueue
  <2> QED
    BY <2>1 DEF CapP!CapNext
<1>3. ASSUME UNCHANGED capVars PROVE UNCHANGED CapP!capVars
  BY <1>3 DEF capVars, CapP!capVars
<1> QED
  BY <1>1, <1>2, <1>3, CapP!CapInvStep, McpPoolAssumption

LEMMA QueueTypes ==
  ASSUME CapP!CapInv
  PROVE  /\ waiters \in Seq(Tasks) /\ woken \in Seq(Tasks)
         /\ NoRepeats(waiters) /\ NoRepeats(woken)
         /\ \A i \in DOMAIN waiters, j \in DOMAIN woken : waiters[i] # woken[j]
         /\ \A i \in DOMAIN waiters : waiters[i] \notin inside
         /\ \A i \in DOMAIN woken : woken[i] \notin inside
BY DEF CapP!CapInv, CapP!CapTypeOK, CapP!Apart, CapP!NoRepeats, CapP!Apart2, CapP!Misses, NoRepeats

LEMMA AppendWaits ==
  ASSUME NEW s \in Seq(Tasks), NEW t \in Tasks, NEW i \in DOMAIN Append(s, t)
  PROVE  Append(s, t)[i] = t \/ \E j \in DOMAIN s : s[j] = Append(s, t)[i]
<1>1. Len(s) \in Nat /\ DOMAIN s = 1 .. Len(s) /\ DOMAIN Append(s, t) = 1 .. Len(s) + 1
  OBVIOUS
<1>2. CASE i = Len(s) + 1
  BY <1>2
<1>3. CASE i \in 1 .. Len(s)
  BY <1>1, <1>3
<1> QED
  BY <1>1, <1>2, <1>3

LEMMA ReserveWaits ==
  ASSUME CapP!CapInv, NEW t \in Tasks, Cap!Reserve(t)
  PROVE  /\ ~Waits(t) /\ inside \subseteq inside'
         /\ \A u \in Tasks : Waits(u)' => Waits(u) \/ u = t
         /\ t \in inside' => \A u \in Tasks : Waits(u)' => Waits(u)
<1>1. t \notin inside /\ ~Waits(t)
  BY DEF Cap!Reserve, Cap!Outside, Cap!Queued, Cap!ToSet, Waits
<1>2. CASE Cap!Admit(t)
  BY <1>1, <1>2 DEF Cap!Reserve, Cap!Admit, Waits
<1>3. CASE Cap!Enqueue(t)
  <2>1. waiters' = Append(waiters, t) /\ inside' = inside /\ woken' = woken /\ waiters \in Seq(Tasks)
    BY <1>3, QueueTypes DEF Cap!Reserve, Cap!Enqueue
  <2>2. \A u \in Tasks : Waits(u)' => Waits(u) \/ u = t
    BY <2>1, AppendWaits DEF Waits
  <2> QED
    BY <1>1, <2>1, <2>2
<1> QED
  BY <1>2, <1>3 DEF Cap!Reserve

LEMMA AwakeWaits ==
  ASSUME CapP!CapInv, Cap!Awake
  PROVE  /\ Head(woken) \in Tasks /\ Waits(Head(woken)) /\ inside \subseteq inside'
         /\ \A u \in Tasks : Waits(u)' => Waits(u)
         /\ \A u \in inside' : u = Head(woken) => ~Waits(u)'
<1> DEFINE h == Head(woken)
<1>1. /\ waiters \in Seq(Tasks) /\ woken \in Seq(Tasks) /\ woken # <<>>
      /\ woken' = Tail(woken)
  BY QueueTypes DEF Cap!Awake
<1>2. /\ Len(woken) \in Nat \ {0} /\ DOMAIN woken = 1 .. Len(woken) /\ h = woken[1]
      /\ h \in Tasks /\ DOMAIN woken' = 1 .. Len(woken) - 1
      /\ \A i \in 1 .. Len(woken) - 1 : woken'[i] = woken[i + 1]
  BY <1>1, EmptySeq
<1>3. h = woken[1] /\ 1 \in DOMAIN woken /\ h \in Tasks
  BY <1>2
<1>4. \A i \in DOMAIN woken' : i + 1 \in DOMAIN woken /\ i + 1 # 1 /\ woken'[i] = woken[i + 1]
  BY <1>2
<1>5. \A i \in DOMAIN woken' : woken'[i] # h
  BY <1>3, <1>4, QueueTypes DEF NoRepeats
<1>6. h \notin inside /\ \A i \in DOMAIN waiters : waiters[i] # h
  BY <1>3, QueueTypes
<1> HIDE DEF h
<1>7. CASE Cap!Admit(h)
  <2>1. waiters' = waiters /\ inside' = inside \cup {h}
    BY <1>7 DEF Cap!Admit
  <2>2. Waits(h) /\ \A u : u = h => ~Waits(u)'
    BY <1>3, <1>5, <1>6, <2>1 DEF Waits
  <2>3. \A u \in Tasks : Waits(u)' => Waits(u)
    BY <1>4, <2>1 DEF Waits
  <2> QED
    BY <1>3, <2>1, <2>2, <2>3 DEF h
<1>8. CASE Cap!Enqueue(h)
  <2>1. waiters' = Append(waiters, h) /\ inside' = inside
    BY <1>8 DEF Cap!Enqueue
  <2>2. \A i \in DOMAIN waiters' : waiters'[i] = h \/ \E j \in DOMAIN waiters : waiters[j] = waiters'[i]
    BY <1>1, <1>3, <2>1, AppendWaits
  <2> QED
    BY <1>3, <1>4, <1>6, <2>1, <2>2 DEF Waits, h
<1> QED
  BY <1>7, <1>8 DEF Cap!Awake, h

LEMMA GiveUpWaits ==
  ASSUME CapP!CapInv, NEW t \in Tasks, Cap!GiveUp(t)
  PROVE  /\ Waits(t) /\ ~Waits(t)' /\ inside' = inside
         /\ \A u \in Tasks : Waits(u)' => Waits(u)
<1>1. inside' = inside
  BY DEF Cap!GiveUp
<1>2. CASE \E i \in DOMAIN waiters :
             waiters[i] = t /\ waiters' = RemoveAt(waiters, i) /\ UNCHANGED woken
  <2>1. PICK i \in DOMAIN waiters :
             waiters[i] = t /\ waiters' = RemoveAt(waiters, i) /\ UNCHANGED woken
    BY <1>2
  <2>2. \A j \in DOMAIN waiters' : waiters'[j] # t /\ \E k \in DOMAIN waiters : waiters'[j] = waiters[k]
    BY <2>1, QueueTypes, RemoveAtKeeps
  <2>3. \A j \in DOMAIN woken : woken[j] # t
    BY <2>1, QueueTypes
  <2> QED
    BY <1>1, <2>1, <2>2, <2>3 DEF Waits
<1>3. CASE \E i \in DOMAIN woken :
             woken[i] = t /\ woken' = RemoveAt(woken, i) /\ UNCHANGED waiters
  <2>1. PICK i \in DOMAIN woken :
             woken[i] = t /\ woken' = RemoveAt(woken, i) /\ UNCHANGED waiters
    BY <1>3
  <2>2. \A j \in DOMAIN woken' : woken'[j] # t /\ \E k \in DOMAIN woken : woken'[j] = woken[k]
    BY <2>1, QueueTypes, RemoveAtKeeps
  <2>3. \A j \in DOMAIN waiters : waiters[j] # t
    BY <2>1, QueueTypes
  <2> QED
    BY <1>1, <2>1, <2>2, <2>3 DEF Waits
<1> QED
  BY <1>2, <1>3 DEF Cap!GiveUp, Cap!RemoveAt, RemoveAt

LEMMA LeaveWaits ==
  ASSUME CapP!CapInv, NEW t \in Tasks, Cap!Leave(t)
  PROVE  /\ inside' = inside \ {t} /\ \A u \in Tasks : Waits(u)' => Waits(u)
<1>1. /\ inside' = inside \ {t} /\ woken' = woken \o waiters /\ waiters' = <<>>
      /\ woken \in Seq(Tasks) /\ waiters \in Seq(Tasks)
  BY QueueTypes DEF Cap!Leave
<1>2. ASSUME NEW i \in DOMAIN woken'
      PROVE  \/ \E j \in DOMAIN woken : woken'[i] = woken[j]
             \/ \E j \in DOMAIN waiters : woken'[i] = waiters[j]
  <2>1. /\ Len(woken) \in Nat /\ Len(waiters) \in Nat
        /\ DOMAIN woken = 1 .. Len(woken) /\ DOMAIN waiters = 1 .. Len(waiters)
        /\ DOMAIN woken' = 1 .. Len(woken) + Len(waiters)
        /\ woken'[i] = IF i <= Len(woken) THEN woken[i] ELSE waiters[i - Len(woken)]
    BY <1>1, <1>2
  <2>2. CASE i <= Len(woken)
    BY <2>1, <2>2
  <2>3. CASE ~(i <= Len(woken))
    <3>1. i - Len(woken) \in DOMAIN waiters
      BY <2>1, <2>3
    <3> QED
      BY <2>1, <2>3, <3>1
  <2> QED
    BY <2>2, <2>3
<1>3. \A i \in DOMAIN waiters' : FALSE
  BY <1>1
<1> QED
  BY <1>1, <1>2, <1>3 DEF Waits

-----------------------------------------------------------------------------
\* The two together

LEMMA LinkStep ==
  ASSUME IInv, NEW t \in Tasks, OwnTypes',
         \A u \in Tasks : u # t => phase'[u] = phase[u],
         \A u \in Tasks : u # t /\ pc'[u] # "out" => pc[u] # "out",
         pc'[t] # "out" => phase'[t] = "leasing",
         \A u \in Tasks : u # t /\ u \in inside => u \in inside',
         phase'[t] \in Reserved => t \in inside',
         \A u \in Tasks : u # t /\ Waits(u)' => Waits(u),
         \A u \in Tasks : u = t /\ Waits(u)' => phase'[t] = "started"
  PROVE  LinkInv'
BY DEF IInv, LinkInv

LEMMA StartLink == ASSUME IInv, NEW t \in Tasks, Start(t) PROVE IInv'
<1>1. /\ phase[t] \in {"idle", "ended"} /\ phase' = [phase EXCEPT ![t] = "started"]
      /\ UNCHANGED <<inside, waiters, woken>> /\ UNCHANGED poolVars /\ UNCHANGED capVars
      /\ pc' = pc
  BY DEF Start, Move, poolVars, capVars
<1>2. PInv' /\ CapP!CapInv'
  BY <1>1, PInvStep, CapKept DEF IInv
<1>3. OwnTypes'
  BY <1>1 DEF Start, EndWith, OwnTypes, IInv, Phase, Outcomes
<1>4. pc[t] = "out"
  BY <1>1 DEF IInv, LinkInv
<1>5. \A u \in Tasks : Waits(u)' <=> Waits(u)
  BY <1>1 DEF Waits
<1>6. phase'[t] = "started" /\ \A u \in Tasks : u # t => phase'[u] = phase[u]
  BY <1>1 DEF IInv, OwnTypes
<1>7. LinkInv'
  BY <1>1, <1>3, <1>4, <1>5, <1>6, LinkStep DEF Reserved
<1> QED
  BY <1>2, <1>3, <1>7 DEF IInv

LEMMA AskSlotLink == ASSUME IInv, NEW t \in Tasks, AskSlot(t) PROVE IInv'
<1>1. /\ phase[t] = "started" /\ Cap!Reserve(t) /\ UNCHANGED poolVars /\ pc' = pc
      /\ \/ t \in inside' /\ phase' = [phase EXCEPT ![t] = "reserved"]
         \/ t \notin inside' /\ phase' = phase
  BY DEF AskSlot, Move, poolVars
<1>2. PInv' /\ CapP!CapInv'
  <2>1. \E u \in Tasks : CapStep(u)
    BY <1>1 DEF CapStep
  <2> QED
    BY <1>1, <2>1, PInvStep, CapKept DEF IInv
<1>3. OwnTypes'
  BY <1>1 DEF AskSlot, OwnTypes, IInv, Phase
<1>4. pc[t] = "out"
  BY <1>1 DEF IInv, LinkInv
<1>5. /\ inside \subseteq inside'
      /\ \A u \in Tasks : Waits(u)' => Waits(u) \/ u = t
      /\ t \in inside' => \A u \in Tasks : Waits(u)' => Waits(u)
      /\ ~Waits(t)
  BY <1>1, ReserveWaits DEF IInv
<1>6. /\ \A u \in Tasks : u # t => phase'[u] = phase[u]
      /\ phase'[t] = IF t \in inside' THEN "reserved" ELSE "started"
  BY <1>1 DEF IInv, OwnTypes
<1>7. LinkInv'
  BY <1>1, <1>3, <1>4, <1>5, <1>6, LinkStep DEF Reserved
<1> QED
  BY <1>2, <1>3, <1>7 DEF IInv

LEMMA SlotAwakeLink == ASSUME IInv, SlotAwake PROVE IInv'
<1> DEFINE h == Head(woken)
<1>1. /\ Cap!Awake /\ UNCHANGED poolVars /\ pc' = pc
      /\ \/ h \in inside' /\ phase' = [phase EXCEPT ![h] = "reserved"]
         \/ h \notin inside' /\ phase' = phase
  BY DEF SlotAwake, Move, poolVars
<1>2. PInv' /\ CapP!CapInv'
  BY <1>1, PInvStep, CapKept DEF IInv
<1>3. /\ h \in Tasks /\ Waits(h) /\ inside \subseteq inside'
      /\ \A u \in Tasks : Waits(u)' => Waits(u)
      /\ \A u \in inside' : u = h => ~Waits(u)'
  BY <1>1, AwakeWaits DEF IInv
<1>4. OwnTypes'
  BY <1>1, <1>3 DEF SlotAwake, OwnTypes, IInv, Phase
<1>5. PICK t \in Tasks : t = h
  BY <1>3
<1> HIDE DEF h
<1>6. phase[t] = "started" /\ pc[t] = "out"
  BY <1>3, <1>5 DEF IInv, LinkInv
<1>7. /\ \A u \in Tasks : u # t => phase'[u] = phase[u]
      /\ phase'[t] = IF t \in inside' THEN "reserved" ELSE "started"
  BY <1>1, <1>5, <1>6 DEF IInv, OwnTypes
<1>8. LinkInv'
  BY <1>1, <1>3, <1>4, <1>5, <1>6, <1>7, LinkStep DEF Reserved
<1> QED
  BY <1>2, <1>4, <1>8 DEF IInv

LEMMA SlotRefusedLink == ASSUME IInv, NEW t \in Tasks, SlotRefused(t) PROVE IInv'
<1>1. /\ Cap!GiveUp(t) /\ UNCHANGED poolVars /\ pc' = pc
      /\ phase' = [phase EXCEPT ![t] = "ended"]
  BY DEF SlotRefused, Move, poolVars
<1>2. PInv' /\ CapP!CapInv'
  <2>1. \E u \in Tasks : CapStep(u)
    BY <1>1 DEF CapStep
  <2> QED
    BY <1>1, <2>1, PInvStep, CapKept DEF IInv
<1>3. OwnTypes'
  BY <1>1 DEF SlotRefused, EndWith, OwnTypes, IInv, Phase, Outcomes
<1>4. /\ Waits(t) /\ ~Waits(t)' /\ inside' = inside
      /\ \A u \in Tasks : Waits(u)' => Waits(u)
  BY <1>1, GiveUpWaits DEF IInv
<1>5. pc[t] = "out"
  BY <1>4 DEF IInv, LinkInv
<1>6. phase'[t] = "ended" /\ \A u \in Tasks : u # t => phase'[u] = phase[u]
  BY <1>1 DEF IInv, OwnTypes
<1>7. LinkInv'
  BY <1>1, <1>3, <1>4, <1>5, <1>6, LinkStep DEF Reserved
<1> QED
  BY <1>2, <1>3, <1>7 DEF IInv

\* A step of the pool, of a task inside its lease.
LEMMA PoolLink ==
  ASSUME IInv, NEW t \in Tasks,
         \/ (\E p \in Providers : Begin(t, p)) \/ PoolStep(t) \/ CancelStep(t)
         \/ \E how \in Endings : CallEnds(t, how),
         UNCHANGED capVars, OwnTypes', phase[t] \in {"reserved", "leasing"},
         \A u \in Tasks : u # t => phase'[u] = phase[u],
         phase'[t] = "leasing" \/ (phase'[t] = "leaving" /\ pc'[t] = "out")
  PROVE  IInv'
<1>1. PoolNext
  BY DEF PoolNext, TaskStep
<1>2. PInv' /\ CapP!CapInv'
  BY <1>1, PInvStep, CapKept DEF IInv
<1>3. OthersStayOut(t)
  BY StepOut DEF IInv
<1>4. /\ inside' = inside /\ t \in inside
      /\ \A u \in Tasks : Waits(u)' <=> Waits(u)
      /\ ~Waits(t)
  BY DEF capVars, Waits, IInv, LinkInv, Reserved
<1>5. LinkInv'
  BY <1>3, <1>4, LinkStep DEF OthersStayOut
<1> QED
  BY <1>2, <1>5 DEF IInv

LEMMA LeaseLink ==
  ASSUME IInv, NEW t \in Tasks,
         \/ \E p \in Providers : Lease(t, p)
         \/ \E how \in Endings : Call(t, how)
         \/ LeaseSteps(t) \/ LeaseAborted(t)
  PROVE  IInv'
<1> USE DEF Move, EndWith
<1>1. phase \in [Tasks -> Phase] /\ outcome \in [Tasks -> Outcomes] /\ audited \subseteq Tasks
      /\ pc \in [Tasks -> Pc]
  BY DEF IInv, OwnTypes, PInv, PoolTypeOK
<1>2. CASE \E p \in Providers : Lease(t, p)
  <2>1. PICK p \in Providers : Lease(t, p)
    BY <1>2
  <2>2. /\ Begin(t, p) /\ UNCHANGED capVars /\ phase[t] = "reserved"
        /\ phase' = [phase EXCEPT ![t] = "leasing"] /\ UNCHANGED <<outcome, audited>>
    BY <2>1 DEF Lease
  <2>3. OwnTypes' /\ phase'[t] = "leasing" /\ \A u \in Tasks : u # t => phase'[u] = phase[u]
    BY <1>1, <2>2 DEF OwnTypes, Phase
  <2> QED
    BY <2>2, <2>3, PoolLink
<1>3. CASE \E how \in Endings : Call(t, how)
  <2>1. PICK how \in Endings : Call(t, how)
    BY <1>3
  <2>2. /\ CallEnds(t, how) /\ UNCHANGED capVars /\ phase[t] = "leasing" /\ phase' = phase
        /\ outcome' \in [Tasks -> Outcomes] /\ audited' = audited
    BY <1>1, <2>1 DEF Call, Outcomes
  <2>3. OwnTypes'
    BY <1>1, <2>2 DEF OwnTypes
  <2> QED
    BY <2>2, <2>3, PoolLink
<1>4. CASE LeaseSteps(t)
  <2>1. /\ PoolStep(t) /\ UNCHANGED capVars /\ phase[t] = "leasing" /\ audited' = audited
        /\ \/ phase' = phase /\ outcome' = outcome
           \/ pc'[t] = "out" /\ phase' = [phase EXCEPT ![t] = "leaving"]
    BY <1>4 DEF LeaseSteps
  <2>2. outcome' \in [Tasks -> Outcomes]
    BY <1>1, <1>4 DEF LeaseSteps, Outcomes
  <2>3. OwnTypes' /\ (phase'[t] = "leasing" \/ (phase'[t] = "leaving" /\ pc'[t] = "out"))
        /\ \A u \in Tasks : u # t => phase'[u] = phase[u]
    BY <1>1, <2>1, <2>2 DEF OwnTypes, Phase
  <2> QED
    BY <2>1, <2>3, PoolLink
<1>5. CASE LeaseAborted(t)
  <2>1. /\ CancelStep(t) /\ UNCHANGED capVars /\ phase[t] = "leasing" /\ audited' = audited
        /\ phase' = [phase EXCEPT ![t] = "leaving"]
        /\ outcome' = [outcome EXCEPT ![t] = "error"]
    BY <1>5 DEF LeaseAborted
  <2>2. pc'[t] = "out"
    BY <1>1, <2>1 DEF CancelStep, GiveUp, CancelDrain, CancelReturn
  <2>3. OwnTypes' /\ phase'[t] = "leaving" /\ \A u \in Tasks : u # t => phase'[u] = phase[u]
    BY <1>1, <2>1 DEF OwnTypes, Phase, Outcomes
  <2> QED
    BY <2>1, <2>2, <2>3, PoolLink
<1> QED
  BY <1>2, <1>3, <1>4, <1>5

LEMMA LeaveSlotLink == ASSUME IInv, NEW t \in Tasks, LeaveSlot(t) PROVE IInv'
<1>1. PICK p \in {"recording", "ended"} :
        /\ phase[t] = "leaving" /\ Cap!Leave(t) /\ UNCHANGED poolVars /\ pc' = pc
        /\ phase' = [phase EXCEPT ![t] = p]
  BY DEF LeaveSlot, Move, poolVars
<1>2. PInv' /\ CapP!CapInv'
  <2>1. \E u \in Tasks : CapStep(u)
    BY <1>1 DEF CapStep
  <2> QED
    BY <1>1, <2>1, PInvStep, CapKept DEF IInv
<1>3. OwnTypes'
  BY <1>1 DEF LeaveSlot, OwnTypes, IInv, Phase
<1>4. inside' = inside \ {t} /\ \A u \in Tasks : Waits(u)' => Waits(u)
  BY <1>1, LeaveWaits DEF IInv
<1>5. pc[t] = "out" /\ ~Waits(t)
  BY <1>1 DEF IInv, LinkInv
<1>6. phase'[t] = p /\ \A u \in Tasks : u # t => phase'[u] = phase[u]
  BY <1>1 DEF IInv, OwnTypes
<1>7. LinkInv'
  BY <1>1, <1>3, <1>4, <1>5, <1>6, LinkStep DEF Reserved
<1> QED
  BY <1>2, <1>3, <1>7 DEF IInv

LEMMA FinalizeLink == ASSUME IInv, NEW t \in Tasks, Finalize(t) PROVE IInv'
<1>1. /\ phase[t] = "recording" /\ phase' = [phase EXCEPT ![t] = "ended"]
      /\ UNCHANGED <<inside, waiters, woken>> /\ UNCHANGED poolVars /\ UNCHANGED capVars
      /\ pc' = pc
  BY DEF Finalize, Move, poolVars, capVars
<1>2. PInv' /\ CapP!CapInv'
  BY <1>1, PInvStep, CapKept DEF IInv
<1>3. OwnTypes'
  BY <1>1 DEF Finalize, EndWith, OwnTypes, IInv, Phase, Outcomes
<1>4. pc[t] = "out" /\ ~Waits(t)
  BY <1>1 DEF IInv, LinkInv
<1>5. \A u \in Tasks : Waits(u)' <=> Waits(u)
  BY <1>1 DEF Waits
<1>6. phase'[t] = "ended" /\ \A u \in Tasks : u # t => phase'[u] = phase[u]
  BY <1>1 DEF IInv, OwnTypes
<1>7. LinkInv'
  BY <1>1, <1>3, <1>4, <1>5, <1>6, LinkStep DEF Reserved
<1> QED
  BY <1>2, <1>3, <1>7 DEF IInv

LEMMA RecycleLink == ASSUME IInv, RecycleBetweenCalls \/ UNCHANGED invokerVars PROVE IInv'
<1>1. /\ Recycling \/ UNCHANGED poolVars
      /\ UNCHANGED capVars /\ UNCHANGED <<phase, outcome, audited>>
      /\ UNCHANGED <<inside, waiters, woken>>
  BY DEF RecycleBetweenCalls, invokerVars, capVars
<1>2. PInv' /\ CapP!CapInv'
  BY <1>1, PInvStep, CapKept DEF IInv, PoolNext
<1>3. \A u \in Tasks : pc'[u] # "out" => pc[u] # "out"
  BY <1>1, RecyclingOut DEF IInv, poolVars
<1>4. \A u \in Tasks : Waits(u)' <=> Waits(u)
  BY <1>1 DEF Waits
<1>5. LinkInv' /\ OwnTypes'
  BY <1>1, <1>3, <1>4 DEF IInv, LinkInv, OwnTypes
<1> QED
  BY <1>2, <1>5 DEF IInv

LEMMA IInvStep == IInv /\ [InvokerNext]_invokerVars => IInv'
<1> SUFFICES ASSUME IInv, [InvokerNext]_invokerVars PROVE IInv'
  OBVIOUS
<1>1. ASSUME NEW t \in Tasks, Start(t) \/ SlotRefused(t) PROVE IInv'
  BY <1>1, StartLink, SlotRefusedLink
<1>2. ASSUME NEW t \in Tasks, InvokeStep(t) \/ LeaseAborted(t) PROVE IInv'
  <2>1. CASE AskSlot(t)
    BY <2>1, AskSlotLink
  <2>2. CASE LeaveSlot(t)
    BY <2>2, LeaveSlotLink
  <2>3. CASE Finalize(t)
    BY <2>3, FinalizeLink
  <2>4. CASE \/ \E p \in Providers : Lease(t, p)
             \/ \E how \in Endings : Call(t, how)
             \/ LeaseSteps(t) \/ LeaseAborted(t)
    BY <2>4, LeaseLink
  <2> QED
    BY <1>2, <2>1, <2>2, <2>3, <2>4 DEF InvokeStep
<1>3. CASE SlotAwake
  BY <1>3, SlotAwakeLink
<1>4. CASE RecycleBetweenCalls \/ UNCHANGED invokerVars
  BY <1>4, RecycleLink
<1> QED
  BY <1>1, <1>2, <1>3, <1>4 DEF InvokerNext

LEMMA IInvInit == InvokerInit => IInv
<1> SUFFICES ASSUME InvokerInit PROVE IInv
  OBVIOUS
<1>1. CapP!CapInit
  BY DEF InvokerInit, Cap!CapInit, CapP!CapInit
<1>2. PInv /\ CapP!CapInv
  BY <1>1, PoolInitInv, CapP!CapInvInit, McpPoolAssumption DEF InvokerInit
<1>3. OwnTypes
  BY DEF InvokerInit, OwnTypes, Phase, Outcomes
<1>4. LinkInv
  BY DEF InvokerInit, PoolInit, Cap!CapInit, LinkInv, Reserved, Waits
<1> QED
  BY <1>2, <1>3, <1>4 DEF IInv

\* The types of both layers and of the calls.
THEOREM InvokerTypeCorrect == InvokerSpec => []InvokerTypeOK
<1>1. IInv => InvokerTypeOK
  BY DEF IInv, OwnTypes, PInv, InvokerTypeOK, CapP!CapInv, CapP!CapTypeOK, Cap!CapTypeOK
<1> QED
  BY <1>1, IInvInit, IInvStep, PTL DEF InvokerSpec

\* Sessions in use are at most the workspace's cap, across all providers and
\* across the pools recycled under a running call, for any number of tasks.
THEOREM ConcurrencyStaysCapped == InvokerSpec => []ConcurrencyCapped
<1>1. IInv => ConcurrencyCapped
  <2> SUFFICES ASSUME IInv PROVE ConcurrencyCapped
    OBVIOUS
  <2> DEFINE users == {t \in Tasks : pc[t] # "out"}
             holders == {t \in Tasks : held[t] # "none"}
  <2>1. users \subseteq inside
    BY DEF IInv, LinkInv, Reserved
  <2>2. holders \subseteq users
    BY DEF IInv, PInv, HandInv, Handling
  <2>3. IsFiniteSet(inside) /\ Cardinality(inside) <= PoolCap
    <3>1. inside \subseteq Tasks /\ CapP!Cardinality(inside) <= PoolCap
      BY DEF IInv, CapP!CapInv, CapP!CapTypeOK, CapP!CapRespected
    <3>2. CapP!Cardinality(inside) = Cardinality(inside)
      BY DEF CapP!Cardinality, CapP!IsFiniteSet, Cardinality, IsFiniteSet
    <3> QED
      BY <3>1, <3>2, FS_Subset, McpPoolAssumption
  <2>4. IsFiniteSet(holders) /\ Cardinality(holders) <= Cardinality(inside)
    BY <2>1, <2>2, <2>3, FS_Subset
  <2>5. Cardinality(inside) \in Nat /\ Cardinality(holders) \in Nat /\ PoolCap \in Nat
    BY <2>3, <2>4, FS_CardinalityType, McpPoolAssumption
  <2> QED
    BY <2>1, <2>3, <2>4, <2>5 DEF ConcurrencyCapped
<1> QED
  BY <1>1, IInvInit, IInvStep, PTL DEF InvokerSpec

-----------------------------------------------------------------------------
(***************************************************************************)
(* What invoke() does is, seen from each of the two layers, what that      *)
(* layer's own specification allows its callers: whatever is proved of the *)
(* reservations alone, or of the sessions alone, holds of the calls.       *)
(***************************************************************************)

LEMMA InvokerStepOfCap == [InvokerNext]_invokerVars => [Cap!CapNext]_capVars
<1> SUFFICES ASSUME [InvokerNext]_invokerVars PROVE [Cap!CapNext]_capVars
  OBVIOUS
<1>1. ASSUME NEW t \in Tasks, AskSlot(t) \/ SlotRefused(t) \/ LeaveSlot(t)
      PROVE  Cap!CapNext
  BY <1>1 DEF AskSlot, SlotRefused, LeaveSlot, Cap!CapNext
<1>2. CASE SlotAwake
  BY <1>2 DEF SlotAwake, Cap!CapNext
<1>3. ASSUME NEW t \in Tasks, Start(t) \/ LeaseSteps(t) \/ LeaseAborted(t) \/ Finalize(t)
      PROVE  UNCHANGED capVars
  BY <1>3 DEF Start, LeaseSteps, LeaseAborted, Finalize
<1>4. ASSUME NEW t \in Tasks, \/ \E p \in Providers : Lease(t, p)
                             \/ \E how \in Endings : Call(t, how)
      PROVE  UNCHANGED capVars
  BY <1>4 DEF Lease, Call
<1>5. CASE RecycleBetweenCalls \/ UNCHANGED invokerVars
  BY <1>5 DEF RecycleBetweenCalls, invokerVars
<1> QED
  BY <1>1, <1>2, <1>3, <1>4, <1>5 DEF InvokerNext, InvokeStep

LEMMA InvokerStepOfPool == [InvokerNext]_invokerVars => [PoolNext]_poolVars
<1> SUFFICES ASSUME [InvokerNext]_invokerVars PROVE [PoolNext]_poolVars
  OBVIOUS
<1>1. ASSUME NEW t \in Tasks, NEW p \in Providers, Lease(t, p) PROVE PoolNext
  BY <1>1 DEF Lease, PoolNext
<1>2. ASSUME NEW t \in Tasks, NEW how \in Endings, Call(t, how) PROVE PoolNext
  BY <1>2 DEF Call, PoolNext, TaskStep
<1>3. ASSUME NEW t \in Tasks, LeaseSteps(t) \/ LeaseAborted(t) PROVE PoolNext
  BY <1>3 DEF LeaseSteps, LeaseAborted, PoolNext, TaskStep
<1>4. CASE RecycleBetweenCalls
  BY <1>4 DEF RecycleBetweenCalls, PoolNext
<1>5. ASSUME NEW t \in Tasks,
             Start(t) \/ AskSlot(t) \/ SlotRefused(t) \/ LeaveSlot(t) \/ Finalize(t)
      PROVE  UNCHANGED poolVars
  BY <1>5 DEF Start, AskSlot, SlotRefused, LeaveSlot, Finalize
<1>6. CASE SlotAwake \/ UNCHANGED invokerVars
  BY <1>6 DEF SlotAwake, invokerVars
<1> QED
  BY <1>1, <1>2, <1>3, <1>4, <1>5, <1>6 DEF InvokerNext, InvokeStep

\* The calls of a worker drive the reservations only as WorkspaceCap describes:
\* no path through invoke() takes, keeps or gives back a slot in another way.
THEOREM CallsImplementCap == InvokerSpec => Cap!CapSpec
<1>1. InvokerInit => Cap!CapInit
  BY DEF InvokerInit
<1> QED
  BY <1>1, InvokerStepOfCap, PTL DEF InvokerSpec, Cap!CapSpec, Cap!capVars, capVars

\* The calls of a worker lease, return and recycle sessions only as McpPool
\* describes, so that a session stays with one call at a time.
THEOREM CallsImplementPool == InvokerSpec => PoolSpec /\ []SessionsExclusive
<1>1. InvokerInit => PoolInit
  BY DEF InvokerInit
<1>2. InvokerSpec => PoolSpec
  BY <1>1, InvokerStepOfPool, PTL DEF InvokerSpec, PoolSpec
<1> QED
  BY <1>2, SessionsStayExclusive
=============================================================================
