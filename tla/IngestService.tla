--------------------------- MODULE IngestService ---------------------------
(***************************************************************************)
(* The server side of publishing a lifecycle run: ingest_service.py and    *)
(* its three routes (POST /ingest/resolve-project, /test-cases/bulk-import *)
(* and /runs/ingest).  A publisher works in sessions; a session has at     *)
(* most one request under way and creates at most one run, so both are     *)
(* named after the session.                                                *)
(***************************************************************************)
EXTENDS Naturals, FiniteSets

CONSTANTS
  Cases,          \* the cases of one suite, numbered in the order of the plan
  Plan,           \* those the publisher's plan holds
  Sessions,       \* publishing sessions
  Outcomes,       \* what a test may report, as sent on the wire
  ServerProjects, \* the projects the server may have
  MaxDeletes      \* bound on the deletions made by users

ASSUME IngestAssumption ==
  /\ Plan \subseteq Cases /\ Cases \subseteq Nat \ {0} /\ IsFiniteSet(Cases)
  /\ "PASSED" \in Outcomes /\ "none" \notin Outcomes
  /\ MaxDeletes \in Nat

\* Projects are named by how they resemble the publisher's configuration: the
\* configured id, another one with its slug, and two with its name.  A deleted
\* project keeps its row, and with it the slug.
Projects == {"bound", "namesake", "homonym", "twin"}
ASSUME ProjectsAssumption ==
  ServerProjects \subseteq [Projects -> {"absent", "live", "deleted"}]
OpenStatus == "RUNNING"
RunStatuses == {"none", "RUNNING", "PASS", "FAIL", "CANCELLED", "INTERRUPTED"}
Urls == {"none", "file", "blob"}

VARIABLES
  projects,   \* project -> "absent", "live" or "deleted"
  caseRows,   \* slug -> status of its live test_cases row, or "absent"
  runs,       \* session -> its runs row with the recorded results
  request,    \* session -> the request under way and what became of it
  loaded,     \* session -> what the handler of an ingest read
  dropped     \* slugs users have deleted (bounded)
ingestVars == <<projects, caseRows, runs, request, loaded, dropped>>

NoRun ==
  [status |-> "none", passed |-> 0, failed |-> 0,
   results  |-> [c \in Cases |-> "none"],
   evidence |-> [c \in Cases |-> "none"]]
NoRequest == [op |-> "none", stage |-> "idle", project |-> "none",
              case |-> 0, outcome |-> "none", url |-> "none"]
NothingLoaded == [run |-> NoRun, known |-> FALSE]

IngestInit ==
  /\ projects \in ServerProjects
  /\ dropped = {}
  /\ caseRows = [c \in Cases |-> IF c \in Plan THEN "absent" ELSE "ACTIVE"]
  /\ runs = [k \in Sessions |-> NoRun]
  /\ request = [k \in Sessions |-> NoRequest]
  /\ loaded = [k \in Sessions |-> NothingLoaded]

Stage(k, s) == request' = [request EXCEPT ![k].stage = s]

-----------------------------------------------------------------------------
\* resolve_project: the id, then a single project with the slug, then a single
\* one with the name; several matches are listed and nothing is chosen.
Resolved ==
  LET Live(S) == {p \in S : projects[p] = "live"}
      bySlug == Live({"namesake"})
      ids == IF bySlug # {} THEN bySlug ELSE Live({"homonym", "twin"})
  IN  IF Live({"bound"}) # {} THEN [status |-> "valid", ids |-> {"bound"}]
      ELSE [status |-> IF Cardinality(ids) = 1 THEN "repaired" ELSE "missing",
            ids |-> ids]

\* _ensure_project: an explicit id must be live; an empty id finds or creates
\* the project with the slug, which the unique index refuses while a deleted
\* project still has it.
Ensured(p) == IF p = "new" THEN "namesake" ELSE p
ProjectFound(p) ==
  projects[Ensured(p)] \in IF p = "new" THEN {"absent", "live"} ELSE {"live"}

-----------------------------------------------------------------------------
\* bulk_import_cases: the plan's rows are updated or created, a STALE one is
\* ACTIVE again, and generated rows the plan no longer has turn STALE.
ImportCases(k) ==
  /\ request[k].op = "import" /\ request[k].stage = "sent"
  /\ ProjectFound(request[k].project)
  /\ projects' = [projects EXCEPT ![Ensured(request[k].project)] = "live"]
  /\ caseRows' = [c \in Cases |->
        CASE c \in Plan /\ caseRows[c] \in {"absent", "STALE"} -> "ACTIVE"
          [] c \notin Plan /\ caseRows[c] = "ACTIVE" /\ Plan # {} -> "STALE"
          [] OTHER -> caseRows[c]]
  /\ request' = [request EXCEPT ![k].stage = "ok", ![k].project = Ensured(@)]
  /\ UNCHANGED <<runs, loaded, dropped>>

\* ingest_run without a run id: a RUNNING row.
CreateRun(k) ==
  /\ request[k].op = "begin" /\ request[k].stage = "sent"
  /\ ProjectFound(request[k].project)
  /\ runs' = [runs EXCEPT ![k].status = OpenStatus]
  /\ Stage(k, "ok")
  /\ UNCHANGED <<projects, caseRows, loaded, dropped>>

\* ingest_run with a run id reads the run, its recorded cases and the case the
\* result belongs to ...
LoadRun(k) ==
  /\ request[k].op \in {"append", "final"} /\ request[k].stage = "sent"
  /\ ProjectFound(request[k].project)
  /\ loaded' = [loaded EXCEPT ![k] =
        [run |-> runs[k],
         known |-> request[k].op = "append" /\ caseRows[request[k].case] # "absent"]]
  /\ Stage(k, "loaded")
  /\ UNCHANGED <<projects, caseRows, runs, dropped>>

\* One result per case counts; one of an unknown case is passed over.
Fresh(k) == /\ request[k].op = "append" /\ loaded[k].known
            /\ loaded[k].run.results[request[k].case] = "none"

\* Only a result that counts meets the guard on the status.
Refused(k) == Fresh(k) /\ loaded[k].run.status # OpenStatus

Recorded(k, r) ==
  IF Fresh(k)
  THEN [r EXCEPT !.results[request[k].case] = request[k].outcome,
                 !.evidence[request[k].case] = request[k].url]
  ELSE r

\* Mutant: skipped results are left out of the totals.
CountedWithoutSkips(k, r) ==
  IF ~Fresh(k) THEN r
  ELSE CASE request[k].outcome = "PASSED"  -> [r EXCEPT !.passed = loaded[k].run.passed + 1]
         [] request[k].outcome = "SKIPPED" -> r
         [] OTHER -> [r EXCEPT !.failed = loaded[k].run.failed + 1]

\* Everything but a pass counts as failed, skipped tests included.
Counted(k, r) ==
  IF ~Fresh(k) THEN r
  ELSE IF request[k].outcome = "PASSED"
       THEN [r EXCEPT !.passed = loaded[k].run.passed + 1]
       ELSE [r EXCEPT !.failed = loaded[k].run.failed + 1]

FinalVerdict(r) == IF r.failed = 0 THEN "PASS" ELSE "FAIL"
NextStatus(k) ==
  IF request[k].op = "final" THEN FinalVerdict(loaded[k].run) ELSE OpenStatus

\* ... and writes results, counters and status; the ORM leaves a column alone
\* whose value is the one that was read.
WriteRun(k) ==
  /\ request[k].stage = "loaded"
  /\ IF Refused(k)
     THEN Stage(k, "error") /\ UNCHANGED runs
     ELSE /\ LET r == Counted(k, Recorded(k, runs[k]))
             IN  runs' = [runs EXCEPT ![k] =
                   IF NextStatus(k) = loaded[k].run.status THEN r
                   ELSE [r EXCEPT !.status = NextStatus(k)]]
          /\ Stage(k, "ok")
  /\ loaded' = [loaded EXCEPT ![k] = NothingLoaded]
  /\ UNCHANGED <<projects, caseRows, dropped>>

\* A missing project, a constraint, an unavailable database: nothing commits.
Fail(k) ==
  /\ request[k].stage \in {"sent", "loaded"}
  /\ Stage(k, "error")
  /\ loaded' = [loaded EXCEPT ![k] = NothingLoaded]
  /\ UNCHANGED <<projects, caseRows, runs, dropped>>

Serve(k) == ImportCases(k) \/ CreateRun(k) \/ LoadRun(k) \/ WriteRun(k) \/ Fail(k)

-----------------------------------------------------------------------------
\* Others who write the same rows.  A user cancels the run ...
CancelRun(k) ==
  /\ runs[k].status = OpenStatus
  /\ runs' = [runs EXCEPT ![k].status = "CANCELLED"]
  /\ UNCHANGED <<projects, caseRows, request, loaded, dropped>>

\* ... a read of the run, a worker or the supervisor that starts takes it for
\* an orphan ...
Reconcile(k) ==
  /\ runs[k].status = OpenStatus
  /\ runs' = [runs EXCEPT ![k].status = "INTERRUPTED"]
  /\ UNCHANGED <<projects, caseRows, request, loaded, dropped>>

\* ... and users delete cases.  (No request looks at a case outside the plan;
\* a project deleted meanwhile only makes the requests fail that look for it
\* first, which Fail allows at any time.)
DeleteCase(c) ==
  /\ c \in Plan /\ caseRows[c] # "absent" /\ Cardinality(dropped) < MaxDeletes
  /\ caseRows' = [caseRows EXCEPT ![c] = "absent"]
  /\ dropped' = dropped \union {c}
  /\ UNCHANGED <<projects, runs, request, loaded>>
=============================================================================
