--------------------------- MODULE CodegenProofs ---------------------------
(***************************************************************************)
(* Proofs about Codegen, for any titles, plans, application changes, edits *)
(* and generations, with exports that raise and crashes at any time.       *)
(*                                                                         *)
(* A generation is several writes: files, archive, metadata, snapshot.  So *)
(* the invariant says what each pair of them may still claim about one     *)
(* another while the generation is between them (ExportInv, ReuseInv,      *)
(* SaveInv), and what they agree on at rest (CurrentInv, SettledInv).      *)
(***************************************************************************)
EXTENDS Codegen, TLAPS

App == [plan : Plans, steps : [Titles -> Variants], digest : Variants, surface : Variants,
        settings : Variants]
Code == [by : {"nobody", "suitest", "user"}, nr : Nat, steps : Variants \union {0},
         digest : Variants \union {0}, surface : Variants \union {0},
         settings : Variants \union {0}]
Job == [reuse : BOOLEAN, stash : UNION {[S -> Code] : S \in SUBSET FileNames}, next : Nat,
        failed : BOOLEAN]

\* The entry of a title; this generation has not counted a version up before
\* it writes the metadata.
EntryInv(t) ==
  /\ meta[t].version \in Nat \ {0} /\ meta[t].version <= runsDone
  /\ pc \in {"export", "record", "meta"} => meta[t].version < runsDone
  /\ meta[t].status \in Statuses
  /\ meta[t].file \in FileNames /\ meta[t].file[2] = t

TypeInv ==
  /\ pc \in {"idle", "export", "record", "meta", "save"}
  /\ app \in App /\ files \in [FileNames -> Code] /\ job \in Job
  /\ runsDone \in 0..MaxRuns /\ edits \in Nat
  /\ job.next \in 1..(Len(app.plan) + 1)
  /\ pc = "idle" => job = NoJob
  /\ pc # "idle" => runsDone > 0
  /\ \A t \in Titles : meta[t] # NoEntry => EntryInv(t)
  /\ \A h, g \in history : h.file = g.file /\ h.version = g.version => h = g

\* After a failed export the files that were read are back.
FailedInv ==
  job.failed => /\ pc \in {"record", "meta", "save"} /\ ~job.reuse /\ "export" \in faults
                /\ \A f \in DOMAIN job.stash : files[f] = job.stash[f]

\* The files written so far.
Exported(i) == files[<<i, app.plan[i]>>] = Generated(i, app.plan[i])
ExportInv ==
  /\ pc = "export" => ~job.reuse /\ \A i \in DOMAIN app.plan : i < job.next => Exported(i)
  /\ pc \in {"record", "meta", "save"} /\ ~job.reuse /\ ~job.failed => \A i \in DOMAIN app.plan : Exported(i)

\* The metadata has the inputs of the application.
Matching == \A t \in Planned : meta[t] # NoEntry /\ meta[t].inputHash = InputHash(t)

ReuseInv ==
  /\ job.reuse => /\ Matching /\ snapshot = Fingerprint /\ ~Blackbox
                  /\ settled # <<>> => settled = <<AppNow, settled[2]>>
  /\ pc # "idle" /\ ~job.reuse => settled = <<>>

\* The metadata of a generation that is about to end well.
SaveInv ==
  pc = "save" /\ ~job.failed =>
    /\ Matching /\ \A t \in Titles : meta[t] # NoEntry => t \in Planned
    /\ job.reuse => \A t \in Planned : meta[t].status = "reused"
    /\ ~job.reuse => \A t \in Planned : meta[t].status # "reused" /\ meta[t].file = NameOf(t)

\* The snapshot and the metadata of a generation that went well.
SettledCase(t, steps) ==
  LET digest == IF Blackbox THEN 0 ELSE settled[1].digest
      code == files[meta[t].file]
  IN  /\ meta[t] # NoEntry
      /\ meta[t].inputHash = [steps |-> steps, digest |-> digest]
      /\ meta[t].status # "reused" /\ code.by = "suitest" =>
           code = [by |-> "suitest", nr |-> meta[t].file[1], steps |-> steps, digest |-> digest,
                   surface |-> snapshot.surface, settings |-> settled[2]]
SettledInv ==
  settled # <<>> =>
    /\ settled = <<[fingerprint |-> snapshot, digest |-> settled[1].digest], settled[2]>>
    /\ \A c \in snapshot.cases : c[1] \in Titles /\ SettledCase(c[1], c[2])

\* The code of an entry, unless it was edited, was generated from its inputs.
Current(t) ==
  LET code == files[meta[t].file]
  IN  code.by = "suitest" =>
        /\ [steps |-> code.steps, digest |-> code.digest] = meta[t].inputHash
        /\ code.surface = snapshot.surface
CurrentInv ==
  faults = {} /\ (pc = "idle" \/ job.reuse) =>
    \A t \in Titles : meta[t] # NoEntry => Current(t)

IInv ==
  /\ TypeInv /\ FailedInv /\ ExportInv /\ ReuseInv /\ SaveInv /\ SettledInv /\ CurrentInv

-----------------------------------------------------------------------------
\* Where the cases of the plan are.
LEMMA PlanFacts ==
  ASSUME app.plan \in Plans
  PROVE  /\ app.plan \in Seq(Titles) /\ Len(app.plan) \in Nat
         /\ DOMAIN app.plan = 1..Len(app.plan) /\ DOMAIN app.plan \subseteq Positions
         /\ \A i \in DOMAIN app.plan : app.plan[i] \in Titles /\ PositionOf(app.plan[i]) = i
<1>1. app.plan \in Seq(Titles)
  BY CodegenAssumption
<1>2. \A i, j \in DOMAIN app.plan : app.plan[i] = app.plan[j] => i = j
  BY CodegenAssumption
<1>3. DOMAIN app.plan \subseteq Positions
  BY DEF Positions
<1>4. ASSUME NEW i \in DOMAIN app.plan PROVE app.plan[i] \in Titles /\ PositionOf(app.plan[i]) = i
  BY <1>1, <1>2 DEF PositionOf
<1> QED BY <1>1, <1>3, <1>4

LEMMA PlannedFacts ==
  ASSUME app.plan \in Plans, NEW t \in Planned
  PROVE  /\ t \in Titles /\ PositionOf(t) \in DOMAIN app.plan /\ app.plan[PositionOf(t)] = t
         /\ NameOf(t) \in FileNames /\ NameOf(t)[2] = t
         /\ NameOf(t) = <<PositionOf(t), app.plan[PositionOf(t)]>>
<1>1. PICK i \in DOMAIN app.plan : app.plan[i] = t
  BY DEF Planned
<1>2. PositionOf(t) \in DOMAIN app.plan /\ app.plan[PositionOf(t)] = t
  BY <1>1 DEF PositionOf
<1>3. t \in Titles /\ PositionOf(t) \in Positions
  BY <1>2, PlanFacts
<1> QED BY <1>2, <1>3 DEF NameOf, FileNames

LEMMA InputHashOf ==
  ASSUME app \in App, NEW t \in Titles
  PROVE  /\ InputHash(t).steps \in Variants /\ InputHash(t).digest \in Variants \union {0}
         /\ InputHash(t) = [steps |-> InputHash(t).steps, digest |-> InputHash(t).digest]
BY DEF InputHash, App

LEMMA GeneratedIsCode ==
  ASSUME app \in App, NEW t \in Titles, NEW i \in Nat PROVE Generated(i, t) \in Code
<1>1. /\ app.steps[t] \in Variants /\ app.digest \in Variants /\ app.surface \in Variants
      /\ app.settings \in Variants
  BY DEF App
<1> QED BY <1>1 DEF Generated, Code

LEMMA FieldsOfCode ==
  ASSUME NEW c \in Code
  PROVE  c = [by |-> c.by, nr |-> c.nr, steps |-> c.steps, digest |-> c.digest,
              surface |-> c.surface, settings |-> c.settings]
BY DEF Code

LEMMA CodesOf ==
  /\ NoCode \in Code /\ NoCode.by # "suitest"
  /\ \A n \in Nat : Edited(n) \in Code /\ Edited(n).by # "suitest"
<1>1. NoCode \in Code
  BY DEF NoCode, Code
<1>3. ASSUME NEW n \in Nat PROVE Edited(n) \in Code /\ Edited(n).by # "suitest"
  BY DEF Edited, Code
<1> QED BY <1>1, <1>3 DEF NoCode

\* A generation that holds nothing, and what holding something makes of it.
LEMMA NoJobOf ==
  /\ NoJob \in Job /\ NoJob.reuse = FALSE /\ NoJob.failed = FALSE /\ NoJob.next = 1
  /\ DOMAIN NoJob.stash = {}
<1> DEFINE s == [f \in {} |-> NoCode]
<1>1. s \in [{} -> Code] /\ DOMAIN s = {}
  OBVIOUS
<1>2. s \in UNION {[S -> Code] : S \in SUBSET FileNames}
  BY <1>1
<1> HIDE DEF s
<1>3. NoJob = [reuse |-> FALSE, stash |-> s, next |-> 1, failed |-> FALSE]
  BY DEF NoJob, s
<1> QED BY <1>1, <1>2, <1>3 DEF Job

LEMMA StashOf ==
  ASSUME NEW j \in Job
  PROVE  \E S \in SUBSET FileNames : j.stash \in [S -> Code] /\ DOMAIN j.stash = S
<1>1. PICK S \in SUBSET FileNames : j.stash \in [S -> Code]
  BY DEF Job
<1> QED BY <1>1

-----------------------------------------------------------------------------
LEMMA InitKeeps == Init => IInv
<1> SUFFICES ASSUME Init PROVE IInv
  OBVIOUS
<1>1. /\ pc = "idle" /\ job = NoJob /\ settled = <<>> /\ snapshot = NoSnapshot /\ history = {}
      /\ runsDone = 0 /\ edits = 0 /\ files = [f \in FileNames |-> NoCode]
      /\ \A t \in Titles : meta[t] = NoEntry
  BY DEF Init
<1>2. app \in App
  BY CodegenAssumption DEF Init, App
<1>3. app.plan \in Plans
  BY <1>2 DEF App
<1>4. TypeInv
  BY <1>1, <1>2, <1>3, PlanFacts, NoJobOf, CodesOf, CodegenAssumption DEF TypeInv
<1> QED BY <1>1, <1>4, NoJobOf
        DEF IInv, FailedInv, ExportInv, ReuseInv, SaveInv, SettledInv, CurrentInv

\* The application changes while no generation is under way.
LEMMA ChangeAppKeeps == ASSUME IInv, ChangeApp PROVE IInv'
<1>1. /\ pc = "idle" /\ UNCHANGED <<engine, disk, pc, job, edits, runsDone, ghosts>>
  BY DEF ChangeApp
<1>2. UNCHANGED <<engine, files, meta, snapshot, history, pc, job, edits, runsDone, settled, faults>>
  BY <1>1 DEF disk, ghosts
<1>3. app' \in App
  <2>1. app \in App
    BY DEF IInv, TypeInv
  <2>2. CASE \E p \in Plans : app' = [app EXCEPT !.plan = p]
    BY <2>1, <2>2 DEF App
  <2>3. ASSUME NEW t \in Planned, NEW v \in Variants, app' = [app EXCEPT !.steps[t] = v]
        PROVE  app' \in App
    BY <2>1, <2>3 DEF App
  <2>4. CASE \E v \in Variants : app' = [app EXCEPT !.digest = v]
    BY <2>1, <2>4 DEF App
  <2>5. CASE \E v \in Variants : app' = [app EXCEPT !.surface = v]
    BY <2>1, <2>5 DEF App
  <2>6. CASE \E v \in Variants : app' = [app EXCEPT !.settings = v]
    BY <2>1, <2>6 DEF App
  <2> QED BY <2>2, <2>3, <2>4, <2>5, <2>6 DEF ChangeApp
<1>4. Len(app'.plan) \in Nat
  BY <1>3, CodegenAssumption DEF App
<1>5. job = NoJob
  BY <1>1 DEF IInv, TypeInv
<1>6. TypeInv'
  BY <1>2, <1>3, <1>4, <1>5, NoJobOf DEF IInv, TypeInv, EntryInv
<1>7. FailedInv' /\ ExportInv' /\ ReuseInv' /\ SaveInv'
  BY <1>1, <1>2, <1>5, NoJobOf DEF FailedInv, ExportInv, ReuseInv, SaveInv
<1>8. SettledInv' /\ CurrentInv'
  BY <1>1, <1>2 DEF IInv, SettledInv, SettledCase, CurrentInv, Current, Blackbox
<1> QED BY <1>6, <1>7, <1>8 DEF IInv

\* A file is edited or deleted: what it holds now nobody generated.
LEMMA EditFileKeeps == ASSUME IInv, NEW f \in FileNames, EditFile(f) PROVE IInv'
<1>1. /\ pc = "idle" /\ edits' = edits + 1
      /\ UNCHANGED <<engine, app, meta, snapshot, history, pc, job, runsDone, settled, faults>>
  BY DEF EditFile
<1>2. job = NoJob /\ edits \in Nat /\ files \in [FileNames -> Code]
  BY <1>1 DEF IInv, TypeInv
<1>3. PICK code \in {Edited(edits + 1), NoCode} : files' = [files EXCEPT ![f] = code]
  BY DEF EditFile
<1>4. code \in Code /\ code.by # "suitest"
  BY <1>2, CodesOf
<1>5. TypeInv'
  BY <1>1, <1>2, <1>3, <1>4 DEF IInv, TypeInv, EntryInv
<1>6. FailedInv' /\ ExportInv' /\ ReuseInv' /\ SaveInv'
  BY <1>1, <1>2, NoJobOf DEF IInv, FailedInv, ExportInv, ReuseInv, SaveInv
<1>7. SettledInv'
  <2> SUFFICES ASSUME settled # <<>>, NEW c \in snapshot.cases PROVE SettledCase(c[1], c[2])'
    BY <1>1 DEF IInv, SettledInv
  <2>1. c[1] \in Titles /\ SettledCase(c[1], c[2])
    BY DEF IInv, SettledInv
  <2>2. meta[c[1]].file \in FileNames
    BY <2>1 DEF IInv, TypeInv, EntryInv, SettledCase
  <2>3. files'[meta[c[1]].file] = files[meta[c[1]].file] \/ files'[meta[c[1]].file].by # "suitest"
    BY <1>2, <1>3, <1>4, <2>2
  <2> QED BY <1>1, <2>1, <2>3 DEF SettledCase, Blackbox
<1>8. CurrentInv'
  <2> SUFFICES ASSUME faults = {}, NEW t \in Titles, meta[t] # NoEntry PROVE Current(t)'
    BY <1>1 DEF CurrentInv
  <2>1. Current(t) /\ meta[t].file \in FileNames
    BY <1>1 DEF IInv, CurrentInv, TypeInv, EntryInv
  <2> QED BY <1>1, <1>2, <1>3, <1>4, <2>1 DEF Current
<1> QED BY <1>5, <1>6, <1>7, <1>8 DEF IInv

-----------------------------------------------------------------------------
LEMMA SameApp ==
  ASSUME UNCHANGED <<engine, app>>
  PROVE  /\ Planned' = Planned /\ Fingerprint' = Fingerprint /\ AppNow' = AppNow
         /\ (Blackbox' <=> Blackbox)
         /\ \A t \in Titles : InputHash(t)' = InputHash(t) /\ NameOf(t)' = NameOf(t)
         /\ meta' = meta => (Matching' <=> Matching)
         /\ \A i \in DOMAIN app.plan : files'[<<i, app.plan[i]>>] = files[<<i, app.plan[i]>>] =>
              (Exported(i)' <=> Exported(i))
         /\ \A i, t : Generated(i, t)' = Generated(i, t)
<1>1. /\ Planned' = Planned /\ Fingerprint' = Fingerprint /\ AppNow' = AppNow
      /\ (Blackbox' <=> Blackbox)
      /\ \A t \in Titles : InputHash(t)' = InputHash(t) /\ NameOf(t)' = NameOf(t)
      /\ \A i, t : Generated(i, t)' = Generated(i, t)
      /\ meta' = meta => (Matching' <=> Matching)
  BY DEF Planned, Fingerprint, AppNow, Blackbox, InputHash, NameOf, PositionOf, Matching, Generated
<1> QED BY <1>1 DEF Exported

\* Entries that are not written stay right while a generation goes on.
LEMMA SameEntries ==
  ASSUME TypeInv, meta' = meta, runsDone' = runsDone,
         pc' \in {"export", "record", "meta"} => pc \in {"export", "record", "meta"}
  PROVE  \A t \in Titles : meta'[t] # NoEntry => EntryInv(t)'
BY DEF TypeInv, EntryInv

\* A generation starts, and has read what it may overwrite, or reuses it.
LEMMA StartKeeps == ASSUME IInv, Start PROVE IInv'
<1> DEFINE reuse == ~Blackbox /\ snapshot # NoSnapshot /\ ~Changed /\ CanReuse
           stashed == IF Blackbox THEN {} ELSE {f \in KnownFiles : files[f] # NoCode}
           D == IF reuse THEN {} ELSE stashed
           s == [f \in D |-> files[f]]
<1>1. /\ pc = "idle" /\ runsDone < MaxRuns /\ runsDone' = runsDone + 1
      /\ UNCHANGED <<engine, app, files, meta, snapshot, history, edits, faults>>
      /\ job' = [NoJob EXCEPT !.reuse = reuse, !.stash = s]
      /\ pc' = IF reuse THEN "record" ELSE "export"
      /\ settled' = IF reuse THEN settled ELSE <<>>
  BY DEF Start, disk
<1>2. /\ files \in [FileNames -> Code] /\ app.plan \in Plans /\ runsDone \in 0..MaxRuns
      /\ job = NoJob
  BY <1>1 DEF IInv, TypeInv, App
<1>3. D \subseteq FileNames
  BY DEF IInv, TypeInv, EntryInv, KnownFiles
<1>4. job' \in Job /\ job'.reuse = reuse /\ job'.failed = FALSE /\ job'.next = 1
  <2>1. s \in [D -> Code]
    BY <1>2, <1>3
  <2>2. s \in UNION {[S -> Code] : S \in SUBSET FileNames}
    BY <1>3, <2>1
  <2>3. reuse \in BOOLEAN
    BY DEF Blackbox, Changed, CanReuse
  <2> HIDE DEF s, reuse, D
  <2> QED BY <1>1, <2>2, <2>3, NoJobOf DEF Job
<1> HIDE DEF s, stashed, D
<1>5. TypeInv'
  <2>1. ASSUME NEW t \in Titles, meta[t] # NoEntry PROVE EntryInv(t)'
    <3>1. EntryInv(t)
      BY <2>1 DEF IInv, TypeInv
    <3> QED BY <1>1, <1>2, <3>1 DEF EntryInv
  <2>2. pc' \in {"export", "record"} /\ runsDone' \in 0..MaxRuns /\ job'.next \in 1..(Len(app.plan) + 1)
    BY <1>1, <1>2, <1>4, PlanFacts, CodegenAssumption
  <2> QED BY <1>1, <1>4, <2>1, <2>2 DEF IInv, TypeInv
<1>6. FailedInv' /\ SaveInv'
  BY <1>1, <1>4 DEF FailedInv, SaveInv
<1>7. CASE reuse
  <2>1. /\ ~Blackbox /\ snapshot = Fingerprint /\ app.plan # <<>> /\ Matching
    BY <1>7 DEF Changed, CanReuse, Matching
  <2>2. pc' = "record" /\ settled' = settled /\ job'.reuse
    BY <1>1, <1>4, <1>7
  <2>3. ASSUME settled # <<>> PROVE settled = <<AppNow, settled[2]>>
    <3>1. 1 \in DOMAIN app.plan
      <4>1. app.plan \in Seq(Titles)
        BY <1>2, PlanFacts
      <4> QED BY <2>1, <4>1
    <3> DEFINE t == app.plan[1]
    <3>2. t \in Planned
      BY <3>1 DEF Planned
    <3> HIDE DEF t
    <3>3. <<t, app.steps[t]>> \in snapshot.cases
      BY <2>1, <3>2 DEF Fingerprint
    <3>4. /\ settled = <<[fingerprint |-> snapshot, digest |-> settled[1].digest], settled[2]>>
          /\ meta[t].inputHash = [steps |-> app.steps[t], digest |-> settled[1].digest]
      BY <2>1, <2>3, <3>3 DEF IInv, SettledInv, SettledCase
    <3>5. settled[1].digest = app.digest
      <4>1. meta[t].inputHash = [steps |-> app.steps[t], digest |-> app.digest]
        BY <2>1, <3>2 DEF Matching, InputHash
      <4> QED BY <3>4, <4>1
    <3> QED BY <2>1, <3>4, <3>5 DEF AppNow
  <2>4. ExportInv' /\ ReuseInv'
    <3>1. Matching' /\ AppNow' = AppNow /\ Fingerprint' = Fingerprint /\ ~Blackbox'
      BY <1>1, <2>1, SameApp
    <3> QED BY <1>1, <2>1, <2>2, <2>3, <3>1 DEF ExportInv, ReuseInv
  <2>5. SettledInv'
    BY <1>1, <2>2 DEF IInv, SettledInv, SettledCase, Blackbox
  <2>6. CurrentInv'
    BY <1>1, <2>2 DEF IInv, CurrentInv, Current
  <2> QED BY <1>5, <1>6, <2>4, <2>5, <2>6 DEF IInv
<1>8. CASE ~reuse
  <2>1. pc' = "export" /\ settled' = <<>> /\ ~job'.reuse /\ job'.next = 1
    BY <1>1, <1>4, <1>8
  <2>2. ExportInv'
    <3>1. DOMAIN app'.plan \subseteq Nat \ {0}
      BY <1>1, <1>2, PlanFacts
    <3>2. \A i \in DOMAIN app'.plan : ~ (i < job'.next)
      BY <2>1, <3>1
    <3> QED BY <2>1, <3>2 DEF ExportInv
  <2>3. ReuseInv' /\ SettledInv' /\ CurrentInv'
    BY <2>1 DEF ReuseInv, SettledInv, CurrentInv
  <2> QED BY <1>5, <1>6, <2>2, <2>3 DEF IInv
<1> QED BY <1>7, <1>8

\* One file is written.
LEMMA ExportCaseKeeps == ASSUME IInv, ExportCase PROVE IInv'
<1> DEFINE n == job.next
           t == app.plan[n]
<1>1. /\ pc = "export" /\ n <= Len(app.plan)
      /\ UNCHANGED <<engine, app, meta, snapshot, history, pc, edits, runsDone, settled, faults>>
      /\ files' = [files EXCEPT ![NameOf(t)] = Generated(n, t)]
      /\ job' = [job EXCEPT !.next = n + 1]
  BY DEF ExportCase, ghosts
<1>2. /\ files \in [FileNames -> Code] /\ app.plan \in Plans /\ app \in App /\ job \in Job
      /\ n \in 1..(Len(app.plan) + 1) /\ Len(app.plan) \in Nat
      /\ DOMAIN app.plan = 1..Len(app.plan)
  BY PlanFacts DEF IInv, TypeInv, App
<1>3. ~job.reuse /\ ~job.failed /\ settled = <<>>
  BY <1>1 DEF IInv, ExportInv, FailedInv, ReuseInv
<1>4. job' \in Job /\ job'.reuse = job.reuse /\ job'.failed = job.failed /\ job'.next = n + 1
  BY <1>1, <1>2 DEF Job
<1>5. n \in DOMAIN app.plan /\ n \in Nat /\ n + 1 \in 1..(Len(app.plan) + 1)
  BY <1>1, <1>2
<1>6. t \in Titles /\ NameOf(t) = <<n, t>> /\ NameOf(t) \in FileNames
  <2>1. t \in Titles /\ PositionOf(t) = n /\ n \in Positions
    BY <1>2, <1>5, PlanFacts
  <2> QED BY <2>1 DEF NameOf, FileNames
<1>7. Generated(n, t) \in Code
  BY <1>2, <1>5, <1>6, GeneratedIsCode
<1>8. files' \in [FileNames -> Code]
  BY <1>1, <1>2, <1>7
<1>9. TypeInv'
  <2>1. \A u \in Titles : meta'[u] # NoEntry => EntryInv(u)'
    BY <1>1, SameEntries DEF IInv
  <2> QED BY <1>1, <1>4, <1>5, <1>8, <2>1 DEF IInv, TypeInv
<1>10. ExportInv'
  <2> SUFFICES ASSUME NEW i \in DOMAIN app.plan, i < n + 1 PROVE Exported(i)'
    BY <1>1, <1>3, <1>4 DEF ExportInv
  <2>1. i \in Nat /\ app.plan[i] \in Titles /\ i \in Positions
    BY <1>2, PlanFacts
  <2>2. CASE i = n
    BY <1>1, <1>2, <1>6, <2>2, SameApp DEF Exported
  <2>3. CASE i # n
    <3>1. Exported(i)
      BY <1>1, <1>5, <2>1, <2>3 DEF IInv, ExportInv
    <3>2. <<i, app.plan[i]>> \in FileNames /\ <<i, app.plan[i]>> # NameOf(t)
      BY <1>6, <2>1, <2>3 DEF FileNames
    <3> QED BY <1>1, <1>2, <3>1, <3>2, SameApp
  <2> QED BY <2>2, <2>3
<1>11. FailedInv' /\ ReuseInv' /\ SaveInv' /\ SettledInv' /\ CurrentInv'
  BY <1>1, <1>3, <1>4 DEF FailedInv, ReuseInv, SaveInv, SettledInv, CurrentInv
<1> QED BY <1>9, <1>10, <1>11 DEF IInv

LEMMA ExportDoneKeeps == ASSUME IInv, ExportDone PROVE IInv'
<1>1. /\ pc = "export" /\ job.next > Len(app.plan) /\ pc' = "record"
      /\ UNCHANGED <<engine, app, files, meta, snapshot, history, job, edits, runsDone, settled, faults>>
  BY DEF ExportDone, disk, ghosts
<1>2. ~job.reuse /\ ~job.failed /\ settled = <<>> /\ app.plan \in Plans
      /\ job.next \in Nat
  BY <1>1 DEF IInv, ExportInv, FailedInv, ReuseInv, TypeInv, App
<1>3. TypeInv'
  <2>1. \A u \in Titles : meta'[u] # NoEntry => EntryInv(u)'
    BY <1>1, SameEntries DEF IInv
  <2> QED BY <1>1, <2>1 DEF IInv, TypeInv
<1>4. ExportInv'
  <2> SUFFICES ASSUME NEW i \in DOMAIN app.plan PROVE Exported(i)'
    BY <1>1 DEF ExportInv
  <2>1. i \in Nat /\ i <= Len(app.plan) /\ Len(app.plan) \in Nat
    BY <1>2, PlanFacts
  <2>2. i < job.next
    BY <1>1, <1>2, <2>1
  <2> QED BY <1>1, <2>2, SameApp DEF IInv, ExportInv
<1>5. FailedInv' /\ ReuseInv' /\ SaveInv' /\ SettledInv' /\ CurrentInv'
  BY <1>1, <1>2 DEF FailedInv, ReuseInv, SaveInv, SettledInv, CurrentInv
<1> QED BY <1>3, <1>4, <1>5 DEF IInv

\* The export raises; what was read is put back.
LEMMA ExportFailsKeeps == ASSUME IInv, ExportFails PROVE IInv'
<1>1. /\ pc = "export" /\ "export" \in faults'
      /\ UNCHANGED <<engine, app, meta, snapshot, history, edits, runsDone, settled>>
      /\ files' = [f \in FileNames |-> IF f \in DOMAIN job.stash THEN job.stash[f] ELSE files[f]]
  BY DEF ExportFails
<1>2. ~job.reuse /\ settled = <<>> /\ job \in Job /\ files \in [FileNames -> Code]
      /\ app.plan \in Plans
  BY <1>1 DEF IInv, ExportInv, ReuseInv, TypeInv, App
<1>3. PICK S \in SUBSET FileNames : job.stash \in [S -> Code] /\ DOMAIN job.stash = S
  BY <1>2, StashOf
<1>4. files' \in [FileNames -> Code] /\ \A f \in DOMAIN job.stash : files'[f] = job.stash[f]
  BY <1>1, <1>2, <1>3
<1>5. \A u \in Titles : meta'[u] # NoEntry => EntryInv(u)'
  BY <1>1, SameEntries DEF IInv, ExportFails
<1>6. CASE pc' = "idle" /\ job' = NoJob
  <2>1. TypeInv'
    BY <1>1, <1>2, <1>4, <1>5, <1>6, NoJobOf, PlanFacts DEF IInv, TypeInv
  <2> QED BY <1>1, <1>2, <1>6, <2>1, NoJobOf
          DEF IInv, FailedInv, ExportInv, ReuseInv, SaveInv, SettledInv, CurrentInv
<1>7. CASE pc' = "record" /\ job' = [job EXCEPT !.failed = TRUE]
  <2>1. /\ job' \in Job /\ job'.reuse = job.reuse /\ job'.stash = job.stash /\ job'.failed
        /\ job'.next = job.next
    BY <1>2, <1>7 DEF Job
  <2>2. TypeInv'
    BY <1>1, <1>4, <1>5, <1>7, <2>1 DEF IInv, TypeInv
  <2> QED BY <1>1, <1>2, <1>4, <1>7, <2>1, <2>2
          DEF IInv, FailedInv, ExportInv, ReuseInv, SaveInv, SettledInv, CurrentInv
<1> QED BY <1>6, <1>7 DEF ExportFails

-----------------------------------------------------------------------------
\* The entry a title is given, and the file it names.
LEMMA EntryOf ==
  ASSUME TypeInv, FailedInv, ReuseInv, NEW t \in Planned
  PROVE  /\ t \in Titles /\ AutomationFile(t) \in FileNames /\ AutomationFile(t)[2] = t
         /\ ~job.reuse /\ ~job.failed => AutomationFile(t) = NameOf(t) /\ HasFile(t)
         /\ job.reuse => AutomationFile(t) = meta[t].file /\ HasFile(t) /\ meta[t] # NoEntry
         /\ Status(t) \in Statuses /\ (Status(t) = "regenerated" => ~job.failed /\ ~job.reuse)
<1>1. app.plan \in Plans
  BY DEF TypeInv, App
<1>2. t \in Titles /\ NameOf(t) \in FileNames /\ NameOf(t)[2] = t
  BY <1>1, PlannedFacts
<1>3. meta[t] # NoEntry => meta[t].file \in FileNames /\ meta[t].file[2] = t
  BY <1>2 DEF TypeInv, EntryInv
<1>4. job.reuse => meta[t] # NoEntry /\ ~job.failed
  BY DEF ReuseInv, Matching, FailedInv
<1>5. Status(t) \in Statuses /\ (Status(t) = "regenerated" => ~job.failed /\ ~job.reuse)
  BY DEF Status, Statuses
<1> QED BY <1>2, <1>3, <1>4, <1>5 DEF AutomationFile, HasFile

\* The previous code of what was regenerated is kept.
LEMMA ArchiveCodeKeeps == ASSUME IInv, ArchiveCode PROVE IInv'
<1>1. /\ pc = "record" /\ pc' = "meta"
      /\ history' = {h \in history : ~Overwritten(h)} \union Archive
      /\ UNCHANGED <<engine, app, files, meta, snapshot, job, edits, runsDone, settled, faults>>
  BY DEF ArchiveCode, ghosts
<1>2. \A a \in Archive : \E t \in Planned :
        a = [file |-> AutomationFile(t), version |-> meta[t].version,
             code |-> job.stash[AutomationFile(t)]]
  BY DEF Archive
<1>3. ASSUME NEW a \in Archive, NEW b \in Archive, a.file = b.file PROVE a = b
  <2>1. PICK t \in Planned : a = [file |-> AutomationFile(t), version |-> meta[t].version,
                                  code |-> job.stash[AutomationFile(t)]]
    BY <1>2
  <2>2. PICK u \in Planned : b = [file |-> AutomationFile(u), version |-> meta[u].version,
                                  code |-> job.stash[AutomationFile(u)]]
    BY <1>2
  <2>3. AutomationFile(t)[2] = t /\ AutomationFile(u)[2] = u
    BY EntryOf DEF IInv
  <2>4. AutomationFile(t) = AutomationFile(u)
    BY <1>3, <2>1, <2>2
  <2> QED BY <2>1, <2>2, <2>3, <2>4
<1>4. \A h, g \in history' : h.file = g.file /\ h.version = g.version => h = g
  <2> SUFFICES ASSUME NEW h \in history', NEW g \in history', h.file = g.file,
                      h.version = g.version
               PROVE  h = g
    OBVIOUS
  <2>1. CASE h \in Archive /\ g \in Archive
    BY <1>3, <2>1
  <2>2. CASE h \notin Archive /\ g \notin Archive
    BY <1>1, <2>2 DEF IInv, TypeInv
  <2>3. CASE h \in Archive /\ g \notin Archive
    BY <1>1, <2>3 DEF Overwritten
  <2>4. CASE h \notin Archive /\ g \in Archive
    BY <1>1, <2>4 DEF Overwritten
  <2> QED BY <2>1, <2>2, <2>3, <2>4
<1>5. TypeInv'
  <2>1. \A u \in Titles : meta'[u] # NoEntry => EntryInv(u)'
    BY <1>1, SameEntries DEF IInv
  <2> QED BY <1>1, <1>4, <2>1 DEF IInv, TypeInv
<1>6. FailedInv' /\ SaveInv'
  BY <1>1 DEF IInv, FailedInv, SaveInv
<1>7. ExportInv' /\ ReuseInv'
  BY <1>1, SameApp DEF IInv, ExportInv, ReuseInv
<1>8. SettledInv' /\ CurrentInv'
  BY <1>1 DEF IInv, SettledInv, SettledCase, CurrentInv, Current, Blackbox
<1> QED BY <1>5, <1>6, <1>7, <1>8 DEF IInv

\* The metadata is written: a version is counted up at most once a generation.
LEMMA WriteMetaKeeps == ASSUME IInv, WriteMeta PROVE IInv'
<1>1. /\ pc = "meta" /\ pc' = "save"
      /\ meta' = [t \in Titles |-> IF t \in Planned /\ HasFile(t) THEN Entry(t) ELSE NoEntry]
      /\ UNCHANGED <<engine, app, files, snapshot, history, job, edits, runsDone, settled, faults>>
  BY DEF WriteMeta, ghosts
<1>2. /\ app \in App /\ app.plan \in Plans /\ runsDone \in 0..MaxRuns /\ MaxRuns \in Nat
      /\ TypeInv /\ FailedInv /\ ReuseInv
  BY CodegenAssumption DEF IInv, TypeInv, App
<1>3. ASSUME NEW t \in Titles, meta'[t] # NoEntry
      PROVE  t \in Planned /\ HasFile(t) /\ meta'[t] = Entry(t)
  BY <1>1, <1>3
<1>4. ASSUME NEW t \in Planned
      PROVE  /\ Entry(t) # NoEntry /\ Entry(t).file = AutomationFile(t)
             /\ Entry(t).inputHash = InputHash(t) /\ Entry(t).status \in Statuses
             /\ Entry(t).version \in Nat \ {0} /\ Entry(t).version <= runsDone
  <2>1. t \in Titles /\ Status(t) \in Statuses
    BY <1>2, EntryOf
  <2>2. Version(t) \in Nat \ {0} /\ Version(t) <= runsDone
    <3>1. CASE meta[t] = NoEntry
      <4>1. runsDone \in Nat /\ runsDone # 0
        BY <1>1 DEF IInv, TypeInv
      <4> QED BY <3>1, <4>1 DEF Version
    <3>2. CASE meta[t] # NoEntry
      BY <1>1, <1>2, <2>1, <3>2 DEF TypeInv, EntryInv, Version
    <3> QED BY <3>1, <3>2
  <2>3. /\ Entry(t).version = Version(t) /\ Entry(t).status = Status(t)
        /\ Entry(t).file = AutomationFile(t) /\ Entry(t).inputHash = InputHash(t)
    BY DEF Entry
  <2>4. Entry(t) # NoEntry
    BY <2>2, <2>3 DEF NoEntry
  <2> QED BY <2>1, <2>2, <2>3, <2>4
<1>5. ASSUME ~job.failed, NEW t \in Planned
      PROVE  t \in Titles /\ meta'[t] = Entry(t)
  BY <1>1, <1>2, <1>5, EntryOf
<1>6. TypeInv'
  <2>1. ASSUME NEW t \in Titles, meta'[t] # NoEntry PROVE EntryInv(t)'
    <3>1. t \in Planned /\ meta'[t] = Entry(t)
      BY <1>3, <2>1
    <3>2. AutomationFile(t) \in FileNames /\ AutomationFile(t)[2] = t
      BY <1>2, <3>1, EntryOf
    <3> QED BY <1>1, <1>4, <3>1, <3>2 DEF EntryInv
  <2> QED BY <1>1, <2>1 DEF IInv, TypeInv
<1>7. FailedInv' /\ ExportInv'
  BY <1>1, SameApp DEF IInv, FailedInv, ExportInv
<1>8. ~job.failed => Matching'
  BY <1>1, <1>4, <1>5, SameApp DEF Matching
<1>9. ReuseInv' /\ SaveInv'
  <2>1. ReuseInv'
    BY <1>1, <1>2, <1>8, SameApp DEF FailedInv, ReuseInv
  <2>2. ASSUME ~job.failed, NEW t \in Planned
        PROVE  /\ job.reuse => meta'[t].status = "reused"
               /\ ~job.reuse => meta'[t].status # "reused" /\ meta'[t].file = NameOf(t)
    <3>1. /\ meta'[t] = Entry(t) /\ Entry(t).status = Status(t)
          /\ Entry(t).file = AutomationFile(t)
      BY <1>5, <2>2 DEF Entry
    <3>2. /\ job.reuse => Status(t) = "reused"
          /\ ~job.reuse => Status(t) # "reused"
      BY <2>2 DEF Status
    <3>3. ~job.reuse => AutomationFile(t) = NameOf(t)
      BY <1>2, <2>2, EntryOf
    <3> QED BY <3>1, <3>2, <3>3
  <2>3. /\ Planned' = Planned /\ \A t \in Planned : NameOf(t)' = NameOf(t)
        /\ Planned \subseteq Titles
    BY <1>1, <1>2, SameApp, EntryOf
  <2>4. SaveInv'
    BY <1>1, <1>3, <1>8, <2>2, <2>3 DEF SaveInv
  <2> QED BY <2>1, <2>4
<1>10. SettledInv'
  <2> SUFFICES ASSUME settled # <<>>, NEW c \in snapshot.cases PROVE SettledCase(c[1], c[2])'
    BY <1>1 DEF IInv, SettledInv
  <2>1. /\ job.reuse /\ ~job.failed /\ settled = <<AppNow, settled[2]>> /\ snapshot = Fingerprint
        /\ ~Blackbox
    BY <1>1, <1>2 DEF ReuseInv, FailedInv
  <2>2. settled[1].digest = app.digest
    BY <2>1 DEF AppNow
  <2>3. PICK t \in Planned : c = <<t, app.steps[t]>>
    BY <2>1 DEF Fingerprint
  <2>4. meta'[t] = Entry(t) /\ Entry(t) # NoEntry /\ Entry(t).inputHash = InputHash(t)
    BY <1>4, <1>5, <2>1
  <2>5. Entry(t).status = "reused"
    BY <2>1 DEF Entry, Status
  <2> QED BY <1>1, <2>1, <2>2, <2>3, <2>4, <2>5 DEF SettledCase, InputHash, Blackbox
<1>11. CurrentInv'
  <2> SUFFICES ASSUME faults = {}, job.reuse, NEW t \in Titles, meta'[t] # NoEntry
               PROVE  Current(t)'
    BY <1>1 DEF CurrentInv
  <2>1. ~job.failed /\ t \in Planned /\ meta'[t] = Entry(t)
    BY <1>2, <1>3 DEF FailedInv
  <2>2. meta'[t].file = AutomationFile(t) /\ meta'[t].inputHash = InputHash(t)
    BY <1>4, <2>1
  <2>3. AutomationFile(t) = meta[t].file /\ meta[t] # NoEntry /\ meta[t].inputHash = InputHash(t)
    BY <1>2, <2>1, EntryOf DEF ReuseInv, Matching
  <2>4. Current(t)
    BY <2>3 DEF IInv, CurrentInv
  <2> QED BY <1>1, <2>2, <2>3, <2>4 DEF Current
<1> QED BY <1>6, <1>7, <1>9, <1>10, <1>11 DEF IInv

\* The snapshot is saved, and the generation is over.
LEMMA SaveSnapshotKeeps == ASSUME IInv, SaveSnapshot PROVE IInv'
<1>1. /\ pc = "save" /\ pc' = "idle" /\ job' = NoJob /\ snapshot' = Fingerprint
      /\ settled' = IF job.failed THEN <<>> ELSE <<AppNow, app.settings>>
      /\ faults' = IF job.failed \/ job.reuse THEN faults ELSE {}
      /\ UNCHANGED <<engine, app, files, meta, history, edits, runsDone>>
  BY DEF SaveSnapshot, Settle
<1>2. TypeInv'
  <2>1. \A u \in Titles : meta'[u] # NoEntry => EntryInv(u)'
    BY <1>1, SameEntries DEF IInv
  <2>2. Len(app.plan) \in Nat
    BY PlanFacts DEF IInv, TypeInv, App
  <2> QED BY <1>1, <2>1, <2>2, NoJobOf DEF IInv, TypeInv
<1>3. FailedInv' /\ ExportInv' /\ ReuseInv' /\ SaveInv'
  BY <1>1, NoJobOf DEF FailedInv, ExportInv, ReuseInv, SaveInv
<1>4. ASSUME ~job.failed, ~job.reuse, NEW t \in Planned
      PROVE  /\ t \in Titles /\ meta[t].file[1] = PositionOf(t)
             /\ files[meta[t].file] = Generated(PositionOf(t), t)
  <2>1. /\ t \in Titles /\ PositionOf(t) \in DOMAIN app.plan /\ app.plan[PositionOf(t)] = t
        /\ NameOf(t) = <<PositionOf(t), app.plan[PositionOf(t)]>>
    BY PlannedFacts DEF IInv, TypeInv, App
  <2>2. meta[t].file = NameOf(t)
    BY <1>1, <1>4 DEF IInv, SaveInv
  <2>3. Exported(PositionOf(t))
    BY <1>1, <1>4, <2>1 DEF IInv, ExportInv
  <2> QED BY <2>1, <2>2, <2>3 DEF Exported
<1>5. SettledInv'
  <2>1. CASE job.failed
    BY <1>1, <2>1 DEF SettledInv
  <2>2. CASE ~job.failed
    <3>1. /\ settled' = <<[fingerprint |-> snapshot', digest |-> app.digest], app.settings>>
          /\ settled'[1].digest = app.digest /\ settled'[2] = app.settings
      BY <1>1, <2>2 DEF AppNow
    <3>2. ASSUME NEW c \in snapshot'.cases PROVE c[1] \in Titles /\ SettledCase(c[1], c[2])'
      <4>1. PICK t \in Planned : c = <<t, app.steps[t]>>
        BY <1>1, <3>2 DEF Fingerprint
      <4>2. t \in Titles /\ meta[t] # NoEntry /\ meta[t].inputHash = InputHash(t)
        BY <1>1, <2>2, PlannedFacts DEF IInv, TypeInv, App, SaveInv, Matching
      <4>3. meta[t].status # "reused" => ~job.reuse
        BY <1>1, <2>2 DEF IInv, SaveInv
      <4>4. snapshot'.surface = app.surface
        BY <1>1 DEF Fingerprint
      <4>5. meta[t].status # "reused" =>
              files[meta[t].file] =
                [by |-> "suitest", nr |-> meta[t].file[1], steps |-> app.steps[t],
                 digest |-> IF Blackbox THEN 0 ELSE app.digest,
                 surface |-> app.surface, settings |-> app.settings]
        BY <1>4, <2>2, <4>3 DEF Generated
      <4> QED BY <1>1, <3>1, <4>1, <4>2, <4>4, <4>5 DEF SettledCase, InputHash, Blackbox
    <3> QED BY <3>1, <3>2 DEF SettledInv
  <2> QED BY <2>1, <2>2
<1>6. CurrentInv'
  <2> SUFFICES ASSUME faults' = {}, NEW t \in Titles, meta[t] # NoEntry PROVE Current(t)'
    BY <1>1 DEF CurrentInv
  <2>1. ~job.failed
    BY <1>1 DEF IInv, FailedInv
  <2>2. t \in Planned /\ meta[t].inputHash = InputHash(t)
    BY <1>1, <2>1 DEF IInv, SaveInv, Matching
  <2>3. CASE job.reuse
    BY <1>1, <2>3 DEF IInv, CurrentInv, Current, ReuseInv
  <2>4. CASE ~job.reuse
    <3>1. files[meta[t].file] = Generated(PositionOf(t), t)
      BY <1>4, <2>1, <2>2, <2>4
    <3>2. snapshot'.surface = app.surface
      BY <1>1 DEF Fingerprint
    <3> QED BY <1>1, <2>2, <3>1, <3>2 DEF Current, Generated, InputHash
  <2> QED BY <2>3, <2>4
<1> QED BY <1>2, <1>3, <1>5, <1>6 DEF IInv

LEMMA CrashKeeps == ASSUME IInv, Crash PROVE IInv'
<1>1. /\ pc' = "idle" /\ job' = NoJob /\ "crash" \in faults'
      /\ UNCHANGED <<engine, app, files, meta, snapshot, history, edits, runsDone, settled>>
  BY DEF Crash, disk
<1>2. TypeInv'
  <2>1. \A u \in Titles : meta'[u] # NoEntry => EntryInv(u)'
    BY <1>1, SameEntries DEF IInv, Crash
  <2>2. Len(app.plan) \in Nat
    BY PlanFacts DEF IInv, TypeInv, App
  <2> QED BY <1>1, <2>1, <2>2, NoJobOf DEF IInv, TypeInv
<1>3. FailedInv' /\ ExportInv' /\ ReuseInv' /\ SaveInv' /\ CurrentInv'
  BY <1>1, NoJobOf DEF FailedInv, ExportInv, ReuseInv, SaveInv, CurrentInv
<1>4. SettledInv'
  BY <1>1 DEF IInv, SettledInv, SettledCase, Blackbox
<1> QED BY <1>2, <1>3, <1>4 DEF IInv

-----------------------------------------------------------------------------
LEMMA StepKeeps == IInv /\ [Next]_vars => IInv'
<1> SUFFICES ASSUME IInv, [Next]_vars PROVE IInv'
  OBVIOUS
<1>1. CASE ChangeApp
  BY <1>1, ChangeAppKeeps
<1>2. ASSUME NEW f \in FileNames, EditFile(f) PROVE IInv'
  BY <1>2, EditFileKeeps
<1>3. CASE Start
  BY <1>3, StartKeeps
<1>4. CASE ExportCase
  BY <1>4, ExportCaseKeeps
<1>5. CASE ExportDone
  BY <1>5, ExportDoneKeeps
<1>6. CASE ExportFails
  BY <1>6, ExportFailsKeeps
<1>7. CASE ArchiveCode
  BY <1>7, ArchiveCodeKeeps
<1>8. CASE WriteMeta
  BY <1>8, WriteMetaKeeps
<1>9. CASE SaveSnapshot
  BY <1>9, SaveSnapshotKeeps
<1>10. CASE Crash
  BY <1>10, CrashKeeps
<1>11. CASE UNCHANGED vars
  <2>1. UNCHANGED <<engine, app, files, meta, snapshot, history, pc, job, edits, runsDone, settled,
                    faults>>
    BY <1>11 DEF vars
  <2>2. TypeInv'
    <3>1. \A u \in Titles : meta'[u] # NoEntry => EntryInv(u)'
      BY <2>1, SameEntries DEF IInv
    <3> QED BY <2>1, <3>1 DEF IInv, TypeInv
  <2>3. FailedInv' /\ ExportInv' /\ ReuseInv'
    BY <2>1, SameApp DEF IInv, FailedInv, ExportInv, ReuseInv
  <2>5. SaveInv'
    <3>1. Planned \subseteq Titles
      BY PlannedFacts DEF IInv, TypeInv, App
    <3>2. /\ Planned' = Planned /\ (Matching' <=> Matching)
          /\ \A t \in Planned : NameOf(t)' = NameOf(t)
      BY <2>1, <3>1, SameApp
    <3> QED BY <2>1, <3>2 DEF IInv, SaveInv
  <2>4. SettledInv' /\ CurrentInv'
    BY <2>1 DEF IInv, SettledInv, SettledCase, CurrentInv, Current, Blackbox
  <2> QED BY <2>2, <2>3, <2>4, <2>5 DEF IInv
<1> QED BY <1>1, <1>2, <1>3, <1>4, <1>5, <1>6, <1>7, <1>8, <1>9, <1>10, <1>11 DEF Next

LEMMA IInvHolds == Spec => []IInv
<1> QED BY InitKeeps, StepKeeps, PTL DEF Spec

-----------------------------------------------------------------------------
\* Every variable keeps its type: among others no version is counted up twice
\* by a generation, and an archive never holds two codes under a name.
THEOREM CodegenTypes == Spec => []CodegenTypeOK
<1>1. ASSUME IInv PROVE CodegenTypeOK
  <2>1. /\ app \in App /\ files \in [FileNames -> Code] /\ runsDone \in 0..MaxRuns
        /\ MaxRuns \in Nat /\ job \in Job
    BY <1>1, CodegenAssumption DEF IInv, TypeInv
  <2>2. \A t \in Titles : meta[t] # NoEntry =>
          /\ meta[t].version \in 1..MaxRuns /\ meta[t].status \in Statuses
          /\ meta[t].file \in FileNames
    BY <1>1, <2>1 DEF IInv, TypeInv, EntryInv
  <2>3. app.plan \in Plans /\ app.steps \in [Titles -> Variants]
    BY <2>1 DEF App
  <2>4. \A f \in FileNames : files[f].by \in {"nobody", "suitest", "user"}
    BY <2>1 DEF Code
  <2>5. DOMAIN job.stash \subseteq FileNames
    BY <2>1, StashOf
  <2> QED BY <1>1, <2>2, <2>3, <2>4, <2>5 DEF IInv, TypeInv, CodegenTypeOK
<1> QED BY <1>1, IInvHolds, PTL

\* A generation whose export raised leaves every file it had read as it found
\* it, however many the exporters had written over.
THEOREM FailedExportsRestore == Spec => []FailedExportKeepsFiles
<1>1. IInv => FailedExportKeepsFiles
  BY DEF IInv, FailedInv, FailedExportKeepsFiles
<1> QED BY <1>1, IInvHolds, PTL

\* What a settled generation exported is what the exporters make of the
\* application it saw, in its every field; what it reused was generated from the
\* inputs that the hashes and the fingerprint see, if nothing raised or crashed
\* since an export was brought to its end.  Of the settings of reused code it
\* says nothing: the code does not compare them.
THEOREM ReuseIsSound == Spec => []SoundReuse
<1>1. ASSUME IInv PROVE SoundReuse
  <2> SUFFICES ASSUME pc = "idle", settled # <<>>, settled[1] = AppNow, NEW t \in Planned,
                      files[meta[t].file].by = "suitest"
               PROVE  LET code == files[meta[t].file]
                      IN  /\ meta[t].status # "reused" =>
                               /\ code.nr = meta[t].file[1] /\ code.settings = settled[2]
                               /\ MatchesApp(code, t)
                          /\ meta[t].status = "reused" /\ faults = {} => MatchesApp(code, t)
    BY DEF SoundReuse
  <2> DEFINE code == files[meta[t].file]
  <2>1. t \in Titles
    BY <1>1, PlannedFacts DEF IInv, TypeInv, App
  <2>2. settled[1].digest = app.digest /\ settled[1].fingerprint = Fingerprint
    BY DEF AppNow
  <2>3. settled[1].fingerprint = snapshot
    BY <1>1 DEF IInv, SettledInv
  <2>4. <<t, app.steps[t]>> \in snapshot.cases /\ snapshot.surface = app.surface
    BY <2>2, <2>3 DEF Fingerprint
  <2>5. SettledCase(t, app.steps[t])
    BY <1>1, <2>4 DEF IInv, SettledInv
  <2>6. code \in Code
    <3>1. meta[t].file \in FileNames
      BY <1>1, <2>1, <2>5 DEF IInv, TypeInv, EntryInv, SettledCase
    <3> QED BY <1>1, <3>1 DEF IInv, TypeInv
  <2>7. ASSUME meta[t].status # "reused"
        PROVE  code.nr = meta[t].file[1] /\ code.settings = settled[2] /\ MatchesApp(code, t)
    <3>1. code = [by |-> "suitest", nr |-> meta[t].file[1], steps |-> app.steps[t],
                  digest |-> IF Blackbox THEN 0 ELSE app.digest,
                  surface |-> app.surface, settings |-> settled[2]]
      BY <2>2, <2>4, <2>5, <2>7 DEF SettledCase
    <3> QED BY <3>1 DEF MatchesApp, Generated
  <2>8. ASSUME faults = {} PROVE MatchesApp(code, t)
    <3>1. meta[t] # NoEntry
          /\ meta[t].inputHash = [steps |-> app.steps[t], digest |-> IF Blackbox THEN 0 ELSE app.digest]
      BY <2>2, <2>5 DEF SettledCase
    <3>2. Current(t)
      BY <1>1, <2>1, <2>8, <3>1 DEF IInv, CurrentInv
    <3>3. /\ [steps |-> code.steps, digest |-> code.digest] = meta[t].inputHash
          /\ code.surface = app.surface
      BY <2>4, <3>2 DEF Current
    <3>4. code.steps = app.steps[t] /\ code.digest = IF Blackbox THEN 0 ELSE app.digest
      BY <3>1, <3>3
    <3>5. code = [by |-> "suitest", nr |-> code.nr, steps |-> code.steps, digest |-> code.digest,
                  surface |-> code.surface, settings |-> code.settings]
      BY <2>6, FieldsOfCode
    <3> HIDE DEF code
    <3> QED BY <3>3, <3>4, <3>5 DEF MatchesApp, Generated
  <2> QED BY <2>7, <2>8
<1> QED BY <1>1, IInvHolds, PTL

\* When nothing the change detection sees has changed since the last generation
\* that went well, and no file has gone, the next one exports nothing.
THEOREM QuietAppsReuse == Spec => QuietAppKeepsFiles
<1>1. ASSUME IInv, [Next]_vars, ~Blackbox, pc = "idle", pc' = "export", settled # <<>>,
             settled[1] = AppNow, app.plan # <<>>
      PROVE  \E t \in Planned : files[meta[t].file] = NoCode
  <2>1. Start
    BY <1>1 DEF Next, ChangeApp, EditFile, ExportCase, ExportDone, ExportFails, ArchiveCode,
       WriteMeta, SaveSnapshot, Crash, vars
  <2>2. ~ (snapshot # NoSnapshot /\ ~Changed /\ CanReuse)
    BY <1>1, <2>1 DEF Start
  <2>3. settled # <<>> /\ settled[1].digest = app.digest /\ settled[1].fingerprint = Fingerprint
    BY <1>1 DEF AppNow
  <2>4. settled[1].fingerprint = snapshot
    BY <1>1, <2>3 DEF IInv, SettledInv
  <2>5. snapshot = Fingerprint
    BY <2>3, <2>4
  <2>6. snapshot # NoSnapshot
    <3>1. app.plan \in Seq(Titles)
      BY <1>1, PlanFacts DEF IInv, TypeInv, App
    <3>2. 1 \in DOMAIN app.plan
      BY <1>1, <3>1
    <3>3. <<app.plan[1], app.steps[app.plan[1]]>> \in snapshot.cases
      BY <2>5, <3>2 DEF Fingerprint, Planned
    <3> QED BY <3>3 DEF NoSnapshot
  <2>7. ASSUME NEW t \in Planned PROVE meta[t] # NoEntry /\ meta[t].inputHash = InputHash(t)
    <3>1. <<t, app.steps[t]>> \in snapshot.cases
      BY <2>5 DEF Fingerprint
    <3> QED BY <1>1, <2>3, <3>1 DEF IInv, SettledInv, SettledCase, InputHash
  <2> QED BY <1>1, <2>2, <2>5, <2>6, <2>7 DEF Changed, CanReuse
<1>2. IInv /\ [Next]_vars =>
        [~Blackbox /\ pc = "idle" /\ pc' = "export" /\ settled # <<>> /\ settled[1] = AppNow =>
           app.plan = <<>> \/ \E t \in Planned : files[meta[t].file] = NoCode]_vars
  BY <1>1
<1> QED BY <1>2, IInvHolds, PTL DEF Spec, QuietAppKeepsFiles
=============================================================================
