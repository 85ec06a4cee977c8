------------------------------ MODULE Codegen ------------------------------
(***************************************************************************)
(* The generated tests of a project over successive invocations:           *)
(* generate_only and _blackbox_generate (orchestrator.py) with the change  *)
(* detection, reuse, versioning and archiving of retest.py and the writers *)
(* of exporters/ and blackbox/generator.py.  The application changes, the  *)
(* files are edited (by hand, or by the tool that updates test inputs) and *)
(* deleted between two generations; an export may raise and the process    *)
(* may die between any two writes.                                         *)
(***************************************************************************)
EXTENDS Naturals, Sequences, FiniteSets

CONSTANTS
  Titles,      \* titles of test cases
  Plans,       \* the plans the application may call for
  Variants,    \* variants of a case's steps, of the page digest, of the rest
  Engines,     \* "repo" (generate_only), "blackbox" (_blackbox_generate)
  MaxChanges,  \* bound on changes of the application
  MaxEdits,    \* bound on edits and deletions of files
  MaxRuns      \* bound on generations

ASSUME CodegenAssumption ==
  /\ \A p \in Plans : \A i, j \in DOMAIN p : p[i] = p[j] => i = j
  /\ \A p \in Plans : p \in Seq(Titles)
  /\ Variants # {} /\ Engines \subseteq {"repo", "blackbox"}
  /\ MaxChanges \in Nat /\ MaxEdits \in Nat /\ MaxRuns \in Nat

\* A file is named after the position of the case in the plan and its title.
Positions == UNION {DOMAIN p : p \in Plans}
FileNames == Positions \X Titles

VARIABLES
  engine,    \* the engine the project is configured for
  app,       \* [plan, steps, digest, surface, settings]: what the tests come from
  files,     \* file name -> its code
  meta,      \* codegen_meta.json: title -> entry
  snapshot,  \* app_snapshot.json, or NoSnapshot
  history,   \* history/: [file, version, code], one per name
  pc,        \* where the generation is: "idle", "export", "record", "save"
  job,       \* what the generation holds in memory
  changes, edits, runsDone,  \* counters of what is bounded
  valued,    \* edited code nobody has overwritten or deleted by hand
  settled,   \* <<application, settings>> of the last generation that went well, or
             \* <<>> once another has begun to export
  faults     \* what went wrong since an export was last brought to its end: an
             \* "export" raised, a "crash"
vars == <<engine, app, files, meta, snapshot, history, pc, job, changes, edits, runsDone,
          valued, settled, faults>>
disk == <<files, meta, snapshot, history>>
ghosts == <<valued, settled, faults>>

Blackbox == engine = "blackbox"

NoCode == [by |-> "nobody", nr |-> 0, steps |-> 0, digest |-> 0, surface |-> 0, settings |-> 0]
Edited(n) == [by |-> "user", nr |-> n, steps |-> 0, digest |-> 0, surface |-> 0, settings |-> 0]

\* What the exporters make of a case: beside its number and its steps, of the
\* page digest (generate_only), of what the fingerprint covers, and of settings
\* that no hash covers (config.auth, the API's base path and url, the schemas
\* of payloads, what the LLM answers).
Generated(position, t) ==
  [by |-> "suitest", nr |-> position, steps |-> app.steps[t],
   digest |-> IF Blackbox THEN 0 ELSE app.digest,
   surface |-> app.surface, settings |-> app.settings]

NoEntry == [version |-> 0]
NoSnapshot == [cases |-> {}, surface |-> 0]
NoJob == [reuse |-> FALSE, stash |-> [f \in {} |-> NoCode], next |-> 1, failed |-> FALSE]

Planned == {app.plan[i] : i \in DOMAIN app.plan}
PositionOf(t) == CHOOSE i \in DOMAIN app.plan : app.plan[i] = t
NameOf(t) == <<PositionOf(t), t>>

\* case_input_hash: the steps, and for generate_only the digest of the pages
\* with the codegen option.
InputHash(t) ==
  [steps |-> app.steps[t], digest |-> IF Blackbox THEN 0 ELSE app.digest]

\* build_fingerprint: the surface (endpoints, pages, elements) and the cases'
\* steps by title; neither their order nor the digest.
Fingerprint == [cases |-> {<<t, app.steps[t]>> : t \in Planned}, surface |-> app.surface]
\* What the change detection and the hashes see of the application.
AppNow == [fingerprint |-> Fingerprint, digest |-> app.digest]

Init ==
  /\ engine \in Engines
  /\ app \in [plan : Plans, steps : {[t \in Titles |-> CHOOSE v \in Variants : TRUE]},
              digest : {CHOOSE v \in Variants : TRUE}, surface : {CHOOSE v \in Variants : TRUE},
              settings : {CHOOSE v \in Variants : TRUE}]
  /\ files = [f \in FileNames |-> NoCode]
  /\ meta = [t \in Titles |-> NoEntry]
  /\ snapshot = NoSnapshot /\ history = {}
  /\ pc = "idle" /\ job = NoJob
  /\ changes = 0 /\ edits = 0 /\ runsDone = 0
  /\ valued = {} /\ settled = <<>> /\ faults = {}

-----------------------------------------------------------------------------
\* The application changes between two generations: cases come, go or change
\* places, a case's steps change, or something that is not a case does; or the
\* settings do.
ChangeApp ==
  /\ pc = "idle" /\ changes < MaxChanges
  /\ changes' = changes + 1
  /\ \/ \E p \in Plans : app' = [app EXCEPT !.plan = p]
     \/ \E t \in Planned, v \in Variants : app' = [app EXCEPT !.steps[t] = v]
     \/ \E v \in Variants : app' = [app EXCEPT !.digest = v]
     \/ \E v \in Variants : app' = [app EXCEPT !.surface = v]
     \/ \E v \in Variants : app' = [app EXCEPT !.settings = v]
  /\ app' # app
  /\ UNCHANGED <<engine, disk, pc, job, edits, runsDone, ghosts>>

\* Somebody edits a generated file, or deletes it.
EditFile(f) ==
  /\ pc = "idle" /\ edits < MaxEdits /\ files[f] # NoCode
  /\ edits' = edits + 1
  /\ \E code \in {Edited(edits + 1), NoCode} :
       /\ files' = [files EXCEPT ![f] = code]
       /\ valued' = (valued \ {files[f]}) \union ({code} \ {NoCode})
  /\ UNCHANGED <<engine, app, meta, snapshot, history, pc, job, changes, runsDone, settled, faults>>

-----------------------------------------------------------------------------
\* diff_fingerprint: the first generation compares with nothing.
Changed == snapshot # NoSnapshot /\ snapshot # Fingerprint

\* Mutant: an existing file is enough to reuse it.
CanReuseByFile ==
  /\ app.plan # <<>>
  /\ \A t \in Planned : meta[t] # NoEntry /\ files[meta[t].file] # NoCode

\* can_reuse_generated: every planned case has an entry with the same inputs,
\* and the file of that entry exists, whatever it holds.
CanReuse ==
  /\ app.plan # <<>>
  /\ \A t \in Planned : /\ meta[t] # NoEntry
                        /\ meta[t].inputHash = InputHash(t)
                        /\ files[meta[t].file] # NoCode

KnownFiles == {meta[t].file : t \in {u \in Titles : meta[u] # NoEntry}}

\* Before it exports, generate_only reads the files its metadata names;
\* _blackbox_generate always exports and reads none.
Start ==
  /\ pc = "idle" /\ runsDone < MaxRuns
  /\ runsDone' = runsDone + 1
  /\ LET reuse == ~Blackbox /\ snapshot # NoSnapshot /\ ~Changed /\ CanReuse
         stashed == IF Blackbox THEN {} ELSE {f \in KnownFiles : files[f] # NoCode}
     IN  /\ job' = [NoJob EXCEPT !.reuse = reuse,
                                 !.stash = [f \in IF reuse THEN {} ELSE stashed |-> files[f]]]
         /\ pc' = IF reuse THEN "record" ELSE "export"
         /\ settled' = IF reuse THEN settled ELSE <<>>
  /\ UNCHANGED <<engine, app, disk, changes, edits, valued, faults>>

\* The exporters write one file per case, in the order of the plan.
ExportCase ==
  /\ pc = "export" /\ job.next <= Len(app.plan)
  /\ LET t == app.plan[job.next]
     IN  files' = [files EXCEPT ![NameOf(t)] = Generated(job.next, t)]
  /\ job' = [job EXCEPT !.next = @ + 1]
  /\ UNCHANGED <<engine, app, meta, snapshot, history, pc, changes, edits, runsDone, ghosts>>

ExportDone ==
  /\ pc = "export" /\ job.next > Len(app.plan)
  /\ pc' = "record"
  /\ UNCHANGED <<engine, app, disk, job, changes, edits, runsDone, ghosts>>

\* Mutant: a failed export leaves the emptied files.
ExportFailsUnrestored ==
  /\ pc = "export"
  /\ IF Blackbox THEN pc' = "idle" /\ job' = NoJob
                 ELSE pc' = "record" /\ job' = [job EXCEPT !.failed = TRUE]
  /\ faults' = faults \union {"export"}
  /\ UNCHANGED <<engine, app, disk, changes, edits, runsDone, valued, settled>>

\* The export raises: what was read is written back.  (In the blackbox engine
\* the exception ends the invocation.)
ExportFails ==
  /\ pc = "export"
  /\ files' = [f \in FileNames |-> IF f \in DOMAIN job.stash THEN job.stash[f] ELSE files[f]]
  /\ IF Blackbox THEN pc' = "idle" /\ job' = NoJob
                 ELSE pc' = "record" /\ job' = [job EXCEPT !.failed = TRUE]
  /\ faults' = faults \union {"export"}
  /\ UNCHANGED <<engine, app, meta, snapshot, history, changes, edits, runsDone, valued, settled>>

-----------------------------------------------------------------------------
\* reconcile_codegen.  A case has the file it was just given; after a reuse or
\* a failed export, the one its entry names.  (A case that a failed export had
\* reached keeps its new file if it has no entry.)
AutomationFile(t) ==
  IF job.reuse \/ (job.failed /\ meta[t] # NoEntry) THEN meta[t].file ELSE NameOf(t)
HasFile(t) == ~job.failed \/ meta[t] # NoEntry \/ PositionOf(t) < job.next

Status(t) ==
  IF job.failed THEN "needs_review"
  ELSE IF job.reuse THEN "reused"
  ELSE IF meta[t] = NoEntry THEN "new"
  ELSE IF meta[t].code = files[AutomationFile(t)] THEN "unchanged"
  ELSE "regenerated"

Version(t) ==
  IF meta[t] = NoEntry THEN 1
  ELSE IF Status(t) = "regenerated" THEN meta[t].version + 1 ELSE meta[t].version

Entry(t) == [version |-> Version(t), status |-> Status(t), file |-> AutomationFile(t),
             inputHash |-> InputHash(t), code |-> files[AutomationFile(t)]]

\* history/<file>.v<version> of every regenerated case whose code was read.
Archive ==
  {[file |-> AutomationFile(t), version |-> meta[t].version, code |-> job.stash[AutomationFile(t)]] :
     t \in {u \in Planned : HasFile(u) /\ Status(u) = "regenerated"
                            /\ AutomationFile(u) \in DOMAIN job.stash}}
Overwritten(h) == \E a \in Archive : a.file = h.file /\ a.version = h.version

ArchiveCode ==
  /\ pc = "record"
  /\ history' = {h \in history : ~Overwritten(h)} \union Archive
  /\ pc' = "meta"
  /\ UNCHANGED <<engine, app, files, meta, snapshot, job, changes, edits, runsDone, ghosts>>

\* The metadata is written anew: a title that is not planned loses its entry.
WriteMeta ==
  /\ pc = "meta"
  /\ meta' = [t \in Titles |-> IF t \in Planned /\ HasFile(t) THEN Entry(t) ELSE NoEntry]
  /\ pc' = "save"
  /\ UNCHANGED <<engine, app, files, snapshot, history, job, changes, edits, runsDone, ghosts>>

\* What a generation leaves behind in the ghosts.
Settle ==
  /\ settled' = IF job.failed THEN <<>> ELSE <<AppNow, app.settings>>
  /\ faults' = IF job.failed \/ job.reuse THEN faults ELSE {}

\* Mutant: the fingerprint is saved only once.
SaveFirstSnapshot ==
  /\ pc = "save"
  /\ snapshot' = IF snapshot = NoSnapshot THEN Fingerprint ELSE snapshot
  /\ pc' = "idle" /\ job' = NoJob
  /\ Settle
  /\ UNCHANGED <<engine, app, files, meta, history, changes, edits, runsDone, valued>>

SaveSnapshot ==
  /\ pc = "save"
  /\ snapshot' = Fingerprint
  /\ pc' = "idle" /\ job' = NoJob
  /\ Settle
  /\ UNCHANGED <<engine, app, files, meta, history, changes, edits, runsDone, valued>>

\* The process dies: what is on disk stays.
Crash ==
  /\ pc # "idle"
  /\ pc' = "idle" /\ job' = NoJob
  /\ faults' = faults \union {"crash"}
  /\ UNCHANGED <<engine, app, disk, changes, edits, runsDone, valued, settled>>

Next ==
  \/ ChangeApp \/ \E f \in FileNames : EditFile(f)
  \/ Start \/ ExportCase \/ ExportDone \/ ExportFails
  \/ ArchiveCode \/ WriteMeta \/ SaveSnapshot \/ Crash

Spec == Init /\ [][Next]_vars

-----------------------------------------------------------------------------
Statuses == {"new", "regenerated", "unchanged", "reused", "needs_review"}

\* Every variable keeps its type; an archive holds one code under a name.
CodegenTypeOK ==
  /\ pc \in {"idle", "export", "record", "meta", "save"}
  /\ app.plan \in Plans /\ app.steps \in [Titles -> Variants]
  /\ \A f \in FileNames : files[f].by \in {"nobody", "suitest", "user"}
  /\ \A t \in Titles : meta[t] # NoEntry =>
        meta[t].version \in 1..MaxRuns /\ meta[t].status \in Statuses /\ meta[t].file \in FileNames
  /\ \A h, g \in history : h.file = g.file /\ h.version = g.version => h = g
  /\ DOMAIN job.stash \subseteq FileNames /\ job.next \in 1..(Len(app.plan) + 1)

\* A generation whose export raised leaves every file the metadata names as it
\* found it, however far the export had come.
FailedExportKeepsFiles ==
  job.failed => \A f \in KnownFiles : f \in DOMAIN job.stash => files[f] = job.stash[f]

\* When nothing the change detection sees has changed since the last generation
\* that went well, and no file has gone, the next one leaves every file alone.
QuietAppKeepsFiles ==
  [][~Blackbox /\ pc = "idle" /\ pc' = "export" /\ settled # <<>> /\ settled[1] = AppNow =>
       app.plan = <<>> \/ \E t \in Planned : files[meta[t].file] = NoCode]_vars

\* Generated with what the hashes and the fingerprint see of the application now.
MatchesApp(code, t) ==
  code = [Generated(code.nr, t) EXCEPT !.settings = code.settings]

\* After a generation that went well, while the application looks to the change
\* detection as it did then, a file that nobody edited is: if the generation
\* exported it, what the exporters make of the application it saw, whatever
\* raised or crashed before; if it reused it, and nothing raised or crashed since
\* an export was last brought to its end, code generated from the same steps,
\* digest and surface, wherever the case has moved.  The settings of reused code
\* are not promised (ReusedIsCurrent).
SoundReuse ==
  pc = "idle" /\ settled # <<>> /\ settled[1] = AppNow =>
    \A t \in Planned :
      LET code == files[meta[t].file]
      IN  code.by = "suitest" =>
            /\ meta[t].status # "reused" =>
                 /\ code.nr = meta[t].file[1] /\ code.settings = settled[2]
                 /\ MatchesApp(code, t)
            /\ meta[t].status = "reused" /\ faults = {} => MatchesApp(code, t)

-----------------------------------------------------------------------------
\* "True when every planned case's inputs match the last generation": what is
\* reused is what would be generated now.
ReusedIsCurrent ==
  pc = "save" /\ job.reuse => \A t \in Planned :
    LET code == files[meta[t].file]
    IN  code.by = "suitest" => code = Generated(code.nr, t)

\* "Changed files get their previous content copied to history/... so
\* regeneration never silently destroys a reviewed test".
EditsSurvive ==
  pc = "idle" /\ ~Blackbox /\ faults = {} =>
    \A code \in valued : \/ \E f \in FileNames : files[f] = code
                         \/ \E h \in history : h.code = code

\* "Code regeneration failed - prior automation kept; see codegen_meta.json
\* (needs_review)": code that is older than the inputs recorded for it is flagged.
OutdatedIsFlagged ==
  pc = "idle" /\ ~Blackbox /\ "crash" \notin faults => \A t \in {u \in Titles : meta[u] # NoEntry} :
    LET code == files[meta[t].file]
    IN  code.by = "suitest" /\ [steps |-> code.steps, digest |-> code.digest] # meta[t].inputHash
          => meta[t].status = "needs_review"

\* What has been archived is never replaced.
ArchiveKept == [][history \subseteq history']_vars
=============================================================================
