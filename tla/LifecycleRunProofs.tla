------------------------ MODULE LifecycleRunProofs -------------------------
(***************************************************************************)
(* Proofs about LifecycleRun, for any plan, any outcomes of its tests, any *)
(* services and any number of deletions.                                   *)
(*                                                                         *)
(* Client and server share no memory: what the client knows of a run is    *)
(* what its last request was answered.  ServerInv says what a request      *)
(* under way and its answer mean for the run; ClientInv where the client   *)
(* may be for which session; SendInv what the session in use has recorded, *)
(* which is why a result is sent to a run only once.                       *)
(***************************************************************************)
EXTENDS LifecycleRun, FiniteSetTheorems, WellFoundedInduction, TLAPS

Run == [status : RunStatuses, passed : Nat, failed : Nat,
        results : [Cases -> Outcomes \union {"none"}], evidence : [Cases -> Urls]]

Request == [op : {"none", "import", "begin", "append", "final"},
            stage : {"idle", "sent", "loaded", "ok", "error"},
            project : Projects \union {"none", "new"}, case : Cases \union {0},
            outcome : Outcomes \union {"none"}, url : Urls]

TypeInv ==
  /\ runs \in [Sessions -> Run]
  /\ request \in [Sessions -> Request]
  /\ loaded \in [Sessions -> [run : Run, known : BOOLEAN]]
  /\ caseRows \in [Cases -> {"absent", "ACTIVE", "STALE"}]
  /\ results \in [Cases -> Outcomes \union {"none"}]
  /\ Executed \subseteq Plan
  /\ media \subseteq Executed /\ sent \subseteq Executed
  /\ pc \in Positions /\ ended \in {"open", "done", "aborted", "raised"}
  /\ session \in Sessions /\ published \in {"none", "no", "yes"}
  /\ streamed \in BOOLEAN /\ broken \in BOOLEAN
  /\ binding.project \in Projects \union {"none", "new"}
  /\ configId \in Projects \union {"none", "new"}
  /\ managed \subseteq up /\ up \subseteq Services

Passing(r) == {c \in Cases : r.results[c] = "PASSED"}
Failing(r) == {c \in Cases : r.results[c] \notin {"none", "PASSED"}}

\* The counters of a run and its verdict.
CountsInv(r) ==
  /\ r.passed = Cardinality(Passing(r)) /\ r.failed = Cardinality(Failing(r))
  /\ r.status = "PASS" => r.failed = 0
  /\ r.status = "FAIL" => r.failed # 0

\* The results of a run are those of the tests.
AgreesInv(r) ==
  \A c \in Cases : /\ r.results[c] # "none" => r.results[c] = results[c]
                   /\ r.results[c] = "none" => r.evidence[c] = "none"

\* What the handler of a request has read is still so, but for the status.
LoadedInv(q, l, r) ==
  q.stage = "loaded" =>
    /\ q.op \in {"append", "final"}
    /\ l.run.results = r.results /\ l.run.passed = r.passed /\ l.run.failed = r.failed
    /\ l.run.status = OpenStatus => r.status \notin {"PASS", "FAIL"}
    /\ q.op = "append" => l.known \/ q.case \in dropped

\* A result is under way to a run that has none for its case, or it has been
\* recorded there.
AppendInv(q, r) ==
  q.op = "append" =>
    /\ q.case \in Executed /\ q.outcome = results[q.case]
    /\ q.stage \in {"sent", "loaded"} => r.results[q.case] = "none"
    /\ q.stage = "ok" =>
         \/ q.case \in dropped
         \/ /\ r.results[q.case] = results[q.case]
            /\ q.url = "blob" => r.evidence[q.case] = "blob"

\* Every case of the plan has been imported.
PlanImported == \A c \in Plan : caseRows[c] = "absent" => c \in dropped
ImportInv(q) ==
  q.op \in {"begin", "append", "final"} \/ (q.op = "import" /\ q.stage = "ok") => PlanImported

SessionInv(k) ==
  /\ CountsInv(runs[k]) /\ AgreesInv(runs[k])
  /\ LoadedInv(request[k], loaded[k], runs[k])
  /\ AppendInv(request[k], runs[k])
  /\ ImportInv(request[k])
ServerInv == \A k \in Sessions : SessionInv(k)

\* A run without results, apart from those of some cases.
Unrecorded(r, S) == \A c \in Cases \ S : r.results[c] = "none"

Before == {"bind", "deps", "target", "provision"}
Open == {"importing", "beginning", "sending", "appending"}

ClientInv ==
  /\ pc \in Before => session = Streaming /\ ~streamed /\ ended = "open"
                      /\ request[Streaming] = NoRequest /\ Unrecorded(runs[Streaming], {})
  /\ session = Streaming => request[Compatibility] = NoRequest /\ Unrecorded(runs[Compatibility], {})
  /\ streamed => session = Streaming /\ pc \notin {"importing", "beginning"}
  /\ pc \in Before \union {"importing", "beginning"} /\ ended = "open" => Executed = {}
  /\ pc \in Open => (session = Streaming <=> ended = "open")
  /\ pc \in Open /\ session = Compatibility => ended \in {"done", "aborted"}
  /\ pc = "test" => session = Streaming /\ ended = "open"
  /\ pc = "stop" => ended # "open" /\ (ended = "done" => session = Streaming)
  /\ pc \in {"finish", "finalizing"} =>
       ended = "done" \/ (ended = "aborted" /\ session = Compatibility)
  /\ published # "none" => pc \in {"stop", "over", "killed"} /\ (pc = "stop" => ended = "aborted")

\* No test has run and no request has been sent.
NothingBegun == Executed = {} /\ \A k \in Sessions : request[k] = NoRequest

\* What the finally block knows, and what it cannot stop.
UpInv ==
  /\ pc \in {"bind", "deps"} => up = {}
  /\ pc \notin {"over", "killed"} =>
       \/ managed = up
       \/ /\ pc = "stop" /\ ended = "raised" /\ managed = {}
          /\ up \subseteq Dependencies /\ NothingBegun
  /\ ended = "done" /\ pc \notin {"stop", "killed"} => up = {}
  /\ StartedServicesStopped

\* The client goes on with a session only while each of its results is sent.
Clean ==
  \/ pc = "sending"
  \/ pc = "finish" /\ session = Compatibility
  \/ streamed /\ ~broken /\ (pc \in {"test", "finish"} \/ (pc = "stop" /\ ended = "done"))

SendInv ==
  /\ pc = "importing" => request[session].op = "import"
  /\ pc = "beginning" => request[session].op = "begin"
  /\ pc \in {"importing", "beginning"} => sent = {} /\ Unrecorded(runs[session], {})
  /\ pc = "appending" => request[session].op = "append"
  /\ pc = "appending" => Unrecorded(runs[session], sent \union {request[session].case})
  /\ Clean => request[session].stage = "ok" /\ Unrecorded(runs[session], sent)
  /\ Clean => request[session].op \in {"begin", "append"}
  /\ \A c \in sent \ dropped : runs[session].results[c] = results[c]

\* When everything has been sent.
CompleteInv ==
  /\ session = Streaming /\ pc \in {"sending", "appending"} => streamed /\ ~broken
  /\ session = Streaming /\ pc = "sending" =>
       ~(Executed \subseteq sent) /\ \A c, d \in Executed \ sent : c = d
  /\ session = Streaming /\ pc = "appending" => Executed \subseteq sent \union {request[session].case}
  /\ Clean /\ pc \in {"test", "stop", "finish"} => Executed \subseteq sent
  /\ pc = "finalizing" => Executed \subseteq sent /\ request[session].op = "final"

IInv ==
  /\ TypeInv /\ ServerInv /\ ClientInv /\ UpInv /\ SendInv /\ CompleteInv
  /\ PublishedIsRecorded /\ VideoKeptUntilStored

-----------------------------------------------------------------------------
\* The first case of a set of them is one of the set.
LEMMA Minimum ==
  ASSUME NEW S, S \subseteq Nat, S # {}
  PROVE  \E c \in S : \A d \in S : c <= d
<1> DEFINE R == OpToRel(<, Nat)
<1>1. IsWellFoundedOn(R, Nat)
  BY NatLessThanWellFounded, Zenon
<1>2. \A x, y \in Nat : y < x => <<y, x>> \in R
  BY DEF OpToRel
<1> HIDE DEF R
<1>3. PICK x \in S : \A y \in S : ~ (<<y, x>> \in R)
  BY <1>1, WFMin
<1>4. ASSUME NEW y \in S PROVE x <= y
  <2>1. ~ (<<y, x>> \in R) /\ x \in Nat /\ y \in Nat
    BY <1>3
  <2>2. ~ (y < x)
    BY <1>2, <2>1
  <2> QED BY <2>1, <2>2
<1> QED BY <1>4

LEMMA ForemostIn == ASSUME NEW S, S \subseteq Cases, S # {} PROVE Foremost(S) \in S
<1>1. S \subseteq Nat
  BY IngestAssumption
<1> QED BY <1>1, Minimum DEF Foremost

-----------------------------------------------------------------------------
\* What a request becomes when the server has dealt with it, or the client
\* replaces it.
LEMMA StageOf ==
  ASSUME TypeInv, NEW k \in Sessions, NEW s \in {"loaded", "ok", "error"}, Stage(k, s)
  PROVE  /\ request' \in [Sessions -> Request]
         /\ request'[k].stage = s /\ request'[k].op = request[k].op
         /\ request'[k].case = request[k].case /\ request'[k].outcome = request[k].outcome
         /\ request'[k].url = request[k].url
         /\ \A j \in Sessions \ {k} : request'[j] = request[j]
<1> DEFINE q == [request[k] EXCEPT !.stage = s]
<1>1. request \in [Sessions -> Request] /\ request[k] \in Request
  BY DEF TypeInv
<1>2. q \in Request
  BY <1>1 DEF Request
<1>3. /\ q.stage = s /\ q.op = request[k].op /\ q.case = request[k].case
      /\ q.outcome = request[k].outcome /\ q.url = request[k].url
  BY <1>1 DEF Request
<1>4. request' = [request EXCEPT ![k] = q]
  BY DEF Stage
<1> HIDE DEF q
<1> QED BY <1>1, <1>2, <1>3, <1>4

LEMMA SendOf ==
  ASSUME TypeInv, NEW k \in Sessions, NEW op \in {"import", "begin", "append", "final"},
         NEW c \in Cases \union {0}, NEW url \in Urls, Send(k, op, c, url)
  PROVE  /\ request' \in [Sessions -> Request]
         /\ request'[k].op = op /\ request'[k].stage = "sent" /\ request'[k].case = c
         /\ request'[k].outcome = (IF c = 0 THEN "none" ELSE results[c])
         /\ request'[k].url = url
         /\ \A j \in Sessions \ {k} : request'[j] = request[j]
<1> DEFINE p == IF op = "import" THEN binding.project ELSE request[k].project
           o == IF c = 0 THEN "none" ELSE results[c]
           q == [op |-> op, stage |-> "sent", project |-> p, case |-> c, outcome |-> o,
                 url |-> url]
<1>1. request \in [Sessions -> Request] /\ request[k] \in Request
  BY DEF TypeInv
<1>2. p \in Projects \union {"none", "new"}
  BY <1>1 DEF Request, TypeInv
<1>3. o \in Outcomes \union {"none"}
  BY DEF TypeInv
<1>4. request' = [request EXCEPT ![k] = q]
  BY DEF Send
<1> HIDE DEF p, o
<1>5. q \in Request
  BY <1>2, <1>3 DEF Request
<1>6. /\ q.op = op /\ q.stage = "sent" /\ q.case = c /\ q.outcome = o /\ q.url = url
  OBVIOUS
<1> HIDE DEF q
<1> QED BY <1>1, <1>4, <1>5, <1>6 DEF o

-----------------------------------------------------------------------------
\* What WriteRun makes of a run.
Written(k) == Counted(k, Recorded(k, runs[k]))

LEMMA WrittenOf ==
  ASSUME TypeInv, NEW k \in Sessions, request[k].op = "append" => request[k].case \in Cases
  PROVE  /\ Written(k) \in Run /\ Written(k).status = runs[k].status
         /\ ~Fresh(k) => Written(k) = runs[k]
         /\ Fresh(k) =>
              /\ Written(k).results =
                   [runs[k].results EXCEPT ![request[k].case] = request[k].outcome]
              /\ Written(k).evidence =
                   [runs[k].evidence EXCEPT ![request[k].case] = request[k].url]
              /\ request[k].outcome = "PASSED" =>
                   /\ Written(k).passed = loaded[k].run.passed + 1
                   /\ Written(k).failed = runs[k].failed
              /\ request[k].outcome # "PASSED" =>
                   /\ Written(k).passed = runs[k].passed
                   /\ Written(k).failed = loaded[k].run.failed + 1
<1> DEFINE res == [runs[k].results EXCEPT ![request[k].case] = request[k].outcome]
           ev == [runs[k].evidence EXCEPT ![request[k].case] = request[k].url]
           r1 == [runs[k] EXCEPT !.results = res, !.evidence = ev]
           rp == [r1 EXCEPT !.passed = loaded[k].run.passed + 1]
           rf == [r1 EXCEPT !.failed = loaded[k].run.failed + 1]
<1>1. /\ runs[k] \in Run /\ loaded[k].run.passed \in Nat /\ loaded[k].run.failed \in Nat
      /\ runs[k].results \in [Cases -> Outcomes \union {"none"}]
      /\ runs[k].evidence \in [Cases -> Urls]
      /\ request[k].outcome \in Outcomes \union {"none"} /\ request[k].url \in Urls
  BY DEF TypeInv, Run, Request
<1>2. CASE ~Fresh(k)
  BY <1>1, <1>2 DEF Written, Counted, Recorded
<1>3. CASE Fresh(k)
  <2>1. /\ res \in [Cases -> Outcomes \union {"none"}] /\ ev \in [Cases -> Urls]
    BY <1>1
  <2>2. Recorded(k, runs[k]) = r1
    BY <1>3 DEF Recorded
  <2>3. Written(k) = IF request[k].outcome = "PASSED" THEN rp ELSE rf
    BY <1>3, <2>2 DEF Written, Counted
  <2> HIDE DEF res, ev
  <2>4. /\ r1 \in Run /\ r1.status = runs[k].status /\ r1.passed = runs[k].passed
        /\ r1.failed = runs[k].failed /\ r1.results = res /\ r1.evidence = ev
    BY <1>1, <2>1 DEF Run
  <2> HIDE DEF r1
  <2>5. /\ rp \in Run /\ rp.status = r1.status /\ rp.passed = loaded[k].run.passed + 1
        /\ rp.failed = r1.failed /\ rp.results = r1.results /\ rp.evidence = r1.evidence
    BY <1>1, <2>4 DEF Run
  <2>6. /\ rf \in Run /\ rf.status = r1.status /\ rf.failed = loaded[k].run.failed + 1
        /\ rf.passed = r1.passed /\ rf.results = r1.results /\ rf.evidence = r1.evidence
    BY <1>1, <2>4 DEF Run
  <2> HIDE DEF rp, rf
  <2> QED BY <1>3, <2>3, <2>4, <2>5, <2>6 DEF res, ev
<1> QED BY <1>2, <1>3

-----------------------------------------------------------------------------
\* What a step of the server, or of a user, may do to what the client relies
\* on: a result is recorded once, for the append that waits for it.
Serving ==
  /\ UNCHANGED clientVars
  /\ dropped \subseteq dropped'
  /\ \A j \in Sessions :
       /\ request'[j].op = request[j].op /\ request'[j].case = request[j].case
       /\ request[j].stage \in {"idle", "ok", "error"} => request'[j] = request[j]
       /\ \A c \in Cases :
            \/ /\ runs'[j].results[c] = runs[j].results[c]
               /\ runs'[j].evidence[c] = runs[j].evidence[c]
            \/ /\ runs[j].results[c] = "none" /\ request[j].stage = "loaded"
               /\ request[j].op = "append" /\ c = request[j].case

LEMMA NothingTyped == NoRun \in Run /\ NothingLoaded \in [run : Run, known : BOOLEAN]
<1>1. NoRun \in Run
  BY DEF NoRun, Run, RunStatuses, Urls
<1> QED BY <1>1 DEF NothingLoaded

LEMMA SameSession ==
  ASSUME NEW j \in Sessions, SessionInv(j), runs'[j] = runs[j], loaded'[j] = loaded[j],
         request'[j] = request[j], results' = results,
         dropped \subseteq dropped', PlanImported => PlanImported'
  PROVE  SessionInv(j)'
BY DEF SessionInv, CountsInv, Passing, Failing, AgreesInv, LoadedInv, AppendInv, ImportInv,
       Executed

LEMMA SameImports ==
  ASSUME UNCHANGED <<caseRows, dropped>> PROVE PlanImported' = PlanImported
BY DEF PlanImported

\* A request that only ended, or was looked at, and a run that is as it was.
LEMMA SameRun ==
  ASSUME NEW k \in Sessions, SessionInv(k), runs'[k] = runs[k], results' = results,
         dropped' = dropped, request'[k].stage \in {"ok", "error"},
         request'[k].op = request[k].op, request'[k].case = request[k].case,
         request'[k].outcome = request[k].outcome, request'[k].url = request[k].url,
         request'[k].stage = "ok" => request[k].op \in {"import", "begin"},
         request[k].op = "import" /\ request'[k].stage = "ok" => PlanImported',
         PlanImported => PlanImported'
  PROVE  SessionInv(k)'
BY DEF SessionInv, CountsInv, Passing, Failing, AgreesInv, LoadedInv, AppendInv, ImportInv,
       Executed

\* A run of which only the status changed, and not to a verdict.
LEMMA SameResults ==
  ASSUME NEW k \in Sessions, CountsInv(runs[k]), AgreesInv(runs[k]), results' = results,
         runs'[k].results = runs[k].results, runs'[k].evidence = runs[k].evidence,
         runs'[k].passed = runs[k].passed, runs'[k].failed = runs[k].failed,
         runs'[k].status \in {"RUNNING", "CANCELLED", "INTERRUPTED", runs[k].status}
  PROVE  CountsInv(runs[k])' /\ AgreesInv(runs[k])'
<1>1. CountsInv(runs[k])'
  BY DEF CountsInv, Passing, Failing
<1>2. AgreesInv(runs[k])'
  BY DEF AgreesInv
<1> QED BY <1>1, <1>2

LEMMA ImportCasesKeeps ==
  ASSUME TypeInv, ServerInv, NEW k \in Sessions, ImportCases(k), UNCHANGED clientVars
  PROVE  TypeInv' /\ ServerInv' /\ Serving
<1> DEFINE q == [request[k] EXCEPT !.stage = "ok", !.project = Ensured(request[k].project)]
<1>1. /\ request[k] \in Request /\ request \in [Sessions -> Request]
      /\ request[k].op = "import" /\ request[k].stage = "sent"
      /\ UNCHANGED <<runs, loaded, dropped>> /\ results' = results
  BY DEF TypeInv, ImportCases, clientVars
<1>2. Ensured(request[k].project) \in Projects \union {"none", "new"}
  BY <1>1 DEF Ensured, Request, Projects
<1>3. q \in Request
  BY <1>1, <1>2 DEF Request
<1>4. q.stage = "ok" /\ q.op = "import" /\ q.case = request[k].case
      /\ q.outcome = request[k].outcome /\ q.url = request[k].url
  BY <1>1 DEF Request
<1>5. request' = [request EXCEPT ![k] = q]
  BY DEF ImportCases
<1> HIDE DEF q
<1>6. /\ request' \in [Sessions -> Request] /\ request'[k] = q
      /\ \A j \in Sessions \ {k} : request'[j] = request[j]
  BY <1>1, <1>3, <1>5
<1>7. caseRows' = [c \in Cases |->
        CASE c \in Plan /\ caseRows[c] \in {"absent", "STALE"} -> "ACTIVE"
          [] c \notin Plan /\ caseRows[c] = "ACTIVE" /\ Plan # {} -> "STALE"
          [] OTHER -> caseRows[c]]
  BY DEF ImportCases
<1>8. /\ caseRows' \in [Cases -> {"absent", "ACTIVE", "STALE"}]
      /\ \A c \in Plan : caseRows'[c] # "absent"
  <2>1. caseRows \in [Cases -> {"absent", "ACTIVE", "STALE"}] /\ Plan \subseteq Cases
    BY IngestAssumption DEF TypeInv
  <2> QED BY <1>7, <2>1
<1>9. TypeInv'
  BY <1>1, <1>6, <1>8 DEF TypeInv, clientVars, Executed
<1>10. PlanImported'
  BY <1>8 DEF PlanImported
<1>11. ServerInv'
  <2>1. SessionInv(k)'
    BY <1>1, <1>4, <1>6, <1>10, SameRun DEF ServerInv
  <2>2. ASSUME NEW j \in Sessions \ {k} PROVE SessionInv(j)'
    BY <1>1, <1>6, <1>10, <2>2, SameSession DEF ServerInv
  <2> QED BY <2>1, <2>2 DEF ServerInv
<1>12. Serving
  BY <1>1, <1>4, <1>6 DEF Serving
<1> QED BY <1>9, <1>11, <1>12

LEMMA CreateRunKeeps ==
  ASSUME TypeInv, ServerInv, NEW k \in Sessions, CreateRun(k), UNCHANGED clientVars
  PROVE  TypeInv' /\ ServerInv' /\ Serving
<1> DEFINE r == [runs[k] EXCEPT !.status = OpenStatus]
<1>1. /\ request[k].op = "begin" /\ request[k].stage = "sent" /\ Stage(k, "ok")
      /\ UNCHANGED <<caseRows, loaded, dropped>> /\ results' = results
      /\ runs' = [runs EXCEPT ![k] = r]
  BY DEF CreateRun, clientVars
<1>2. runs \in [Sessions -> Run] /\ runs[k] \in Run
  BY DEF TypeInv
<1>3. /\ r \in Run /\ r.status = "RUNNING" /\ r.results = runs[k].results
      /\ r.evidence = runs[k].evidence /\ r.passed = runs[k].passed
      /\ r.failed = runs[k].failed
  BY <1>2 DEF Run, OpenStatus, RunStatuses
<1> HIDE DEF r
<1>4. /\ runs' \in [Sessions -> Run] /\ runs'[k] = r
      /\ \A j \in Sessions \ {k} : runs'[j] = runs[j]
  BY <1>1, <1>2, <1>3
<1>5. /\ request' \in [Sessions -> Request]
      /\ request'[k].stage = "ok" /\ request'[k].op = request[k].op
      /\ request'[k].case = request[k].case /\ request'[k].outcome = request[k].outcome
      /\ request'[k].url = request[k].url
      /\ \A j \in Sessions \ {k} : request'[j] = request[j]
  BY <1>1, StageOf
<1>6. TypeInv'
  BY <1>1, <1>4, <1>5 DEF TypeInv, clientVars, Executed
<1>7. SessionInv(k)'
  <2>1. SessionInv(k)
    BY DEF ServerInv
  <2>2. CountsInv(runs[k])' /\ AgreesInv(runs[k])'
    BY <1>1, <1>3, <1>4, <2>1, SameResults DEF SessionInv
  <2>3. LoadedInv(request[k], loaded[k], runs[k])' /\ AppendInv(request[k], runs[k])'
    BY <1>1, <1>5 DEF LoadedInv, AppendInv
  <2>4. ImportInv(request[k])'
    BY <1>1, <1>5, <2>1, SameImports DEF SessionInv, ImportInv
  <2> QED BY <2>2, <2>3, <2>4 DEF SessionInv
<1>8. ASSUME NEW j \in Sessions \ {k} PROVE SessionInv(j)'
  BY <1>1, <1>4, <1>5, <1>8, SameImports, SameSession DEF ServerInv
<1>9. Serving
  BY <1>1, <1>3, <1>4, <1>5 DEF Serving
<1> QED BY <1>6, <1>7, <1>8, <1>9 DEF ServerInv

LEMMA LoadRunKeeps ==
  ASSUME TypeInv, ServerInv, NEW k \in Sessions, LoadRun(k), UNCHANGED clientVars
  PROVE  TypeInv' /\ ServerInv' /\ Serving
<1> DEFINE known == request[k].op = "append" /\ caseRows[request[k].case] # "absent"
           l == [run |-> runs[k], known |-> known]
<1>1. /\ request[k].op \in {"append", "final"} /\ request[k].stage = "sent"
      /\ Stage(k, "loaded") /\ loaded' = [loaded EXCEPT ![k] = l]
      /\ UNCHANGED <<caseRows, runs, dropped>> /\ results' = results
  BY DEF LoadRun, clientVars
<1>2. /\ runs \in [Sessions -> Run] /\ runs[k] \in Run
      /\ loaded \in [Sessions -> [run : Run, known : BOOLEAN]] /\ Executed \subseteq Plan
  BY DEF TypeInv
<1>3. request[k].op = "append" => known \/ request[k].case \in dropped
  BY <1>1, <1>2 DEF ServerInv, SessionInv, AppendInv, ImportInv, PlanImported
<1>4. known \in BOOLEAN
  OBVIOUS
<1> HIDE DEF known
<1>5. l \in [run : Run, known : BOOLEAN] /\ l.run = runs[k] /\ l.known = known
  BY <1>2, <1>4
<1> HIDE DEF l
<1>6. /\ loaded' \in [Sessions -> [run : Run, known : BOOLEAN]] /\ loaded'[k] = l
      /\ \A j \in Sessions \ {k} : loaded'[j] = loaded[j]
  BY <1>1, <1>2, <1>5
<1>7. /\ request' \in [Sessions -> Request]
      /\ request'[k].stage = "loaded" /\ request'[k].op = request[k].op
      /\ request'[k].case = request[k].case /\ request'[k].outcome = request[k].outcome
      /\ request'[k].url = request[k].url
      /\ \A j \in Sessions \ {k} : request'[j] = request[j]
  BY <1>1, StageOf
<1>8. TypeInv'
  BY <1>1, <1>6, <1>7 DEF TypeInv, clientVars, Executed
<1>9. SessionInv(k)'
  <2>1. SessionInv(k)
    BY DEF ServerInv
  <2>2. CountsInv(runs[k])' /\ AgreesInv(runs[k])'
    BY <1>1, <2>1, SameResults DEF SessionInv
  <2>3. LoadedInv(request[k], loaded[k], runs[k])'
    <3>1. runs[k].status = OpenStatus => runs[k].status \notin {"PASS", "FAIL"}
      BY DEF OpenStatus
    <3> QED BY <1>1, <1>3, <1>5, <1>6, <1>7, <3>1 DEF LoadedInv
  <2>4. AppendInv(request[k], runs[k])'
    BY <1>1, <1>7, <2>1 DEF SessionInv, AppendInv, Executed
  <2>5. ImportInv(request[k])'
    BY <1>1, <1>7, <2>1, SameImports DEF SessionInv, ImportInv
  <2> QED BY <2>2, <2>3, <2>4, <2>5 DEF SessionInv
<1>10. ASSUME NEW j \in Sessions \ {k} PROVE SessionInv(j)'
  BY <1>1, <1>6, <1>7, <1>10, SameImports, SameSession DEF ServerInv
<1>11. Serving
  BY <1>1, <1>7 DEF Serving
<1> QED BY <1>8, <1>9, <1>10, <1>11 DEF ServerInv

LEMMA FailKeeps ==
  ASSUME TypeInv, ServerInv, NEW k \in Sessions, Fail(k), UNCHANGED clientVars
  PROVE  TypeInv' /\ ServerInv' /\ Serving
<1>1. /\ request[k].stage \in {"sent", "loaded"} /\ Stage(k, "error")
      /\ loaded' = [loaded EXCEPT ![k] = NothingLoaded]
      /\ UNCHANGED <<caseRows, runs, dropped>> /\ results' = results
  BY DEF Fail, clientVars
<1>2. /\ loaded' \in [Sessions -> [run : Run, known : BOOLEAN]]
      /\ \A j \in Sessions \ {k} : loaded'[j] = loaded[j]
  BY <1>1, NothingTyped DEF TypeInv
<1>3. /\ request' \in [Sessions -> Request]
      /\ request'[k].stage = "error" /\ request'[k].op = request[k].op
      /\ request'[k].case = request[k].case /\ request'[k].outcome = request[k].outcome
      /\ request'[k].url = request[k].url
      /\ \A j \in Sessions \ {k} : request'[j] = request[j]
  BY <1>1, StageOf
<1>4. TypeInv'
  BY <1>1, <1>2, <1>3 DEF TypeInv, clientVars, Executed
<1>5. SessionInv(k)'
  BY <1>1, <1>3, SameImports, SameRun DEF ServerInv
<1>6. ASSUME NEW j \in Sessions \ {k} PROVE SessionInv(j)'
  BY <1>1, <1>2, <1>3, <1>6, SameImports, SameSession DEF ServerInv
<1>7. Serving
  BY <1>1, <1>3 DEF Serving
<1> QED BY <1>4, <1>5, <1>6, <1>7 DEF ServerInv

-----------------------------------------------------------------------------
\* One more result is one more in one of the counters.
LEMMA CountOne ==
  ASSUME NEW r, NEW s, r.results \in [Cases -> Outcomes \union {"none"}],
         NEW c \in Cases, r.results[c] = "none", NEW o \in Outcomes,
         s.results = [r.results EXCEPT ![c] = o]
  PROVE  /\ o = "PASSED" => /\ Cardinality(Passing(s)) = Cardinality(Passing(r)) + 1
                            /\ Cardinality(Failing(s)) = Cardinality(Failing(r))
         /\ o # "PASSED" => /\ Cardinality(Passing(s)) = Cardinality(Passing(r))
                            /\ Cardinality(Failing(s)) = Cardinality(Failing(r)) + 1
<1>1. o # "none" /\ IsFiniteSet(Cases)
  BY IngestAssumption
<1>2. /\ IsFiniteSet(Passing(r)) /\ IsFiniteSet(Failing(r))
      /\ c \notin Passing(r) /\ c \notin Failing(r)
  BY <1>1, FS_Subset DEF Passing, Failing
<1>3. /\ Cardinality(Passing(r) \union {c}) = Cardinality(Passing(r)) + 1
      /\ Cardinality(Failing(r) \union {c}) = Cardinality(Failing(r)) + 1
  BY <1>2, FS_AddElement
<1>4. o = "PASSED" => Passing(s) = Passing(r) \union {c} /\ Failing(s) = Failing(r)
  BY <1>1 DEF Passing, Failing
<1>5. o # "PASSED" => Passing(s) = Passing(r) /\ Failing(s) = Failing(r) \union {c}
  BY <1>1 DEF Passing, Failing
<1> QED BY <1>3, <1>4, <1>5

LEMMA WriteRunKeeps ==
  ASSUME TypeInv, ServerInv, NEW k \in Sessions, WriteRun(k), UNCHANGED clientVars
  PROVE  TypeInv' /\ ServerInv' /\ Serving
<1>1. /\ request[k].stage = "loaded" /\ loaded' = [loaded EXCEPT ![k] = NothingLoaded]
      /\ UNCHANGED <<caseRows, dropped>> /\ results' = results
  BY DEF WriteRun, clientVars
<1>2. /\ loaded' \in [Sessions -> [run : Run, known : BOOLEAN]]
      /\ \A j \in Sessions \ {k} : loaded'[j] = loaded[j]
  BY <1>1, NothingTyped DEF TypeInv
<1>3. SessionInv(k)
  BY DEF ServerInv
<1>4. CASE Refused(k)
  <2>1. Stage(k, "error") /\ runs' = runs
    BY <1>4 DEF WriteRun
  <2>2. /\ request' \in [Sessions -> Request]
        /\ request'[k].stage = "error" /\ request'[k].op = request[k].op
        /\ request'[k].case = request[k].case /\ request'[k].outcome = request[k].outcome
        /\ request'[k].url = request[k].url
        /\ \A j \in Sessions \ {k} : request'[j] = request[j]
    BY <2>1, StageOf
  <2>3. TypeInv'
    BY <1>1, <1>2, <2>1, <2>2 DEF TypeInv, clientVars, Executed
  <2>4. SessionInv(k)'
    BY <1>1, <1>3, <2>1, <2>2, SameImports, SameRun
  <2>5. ASSUME NEW j \in Sessions \ {k} PROVE SessionInv(j)'
    BY <1>1, <1>2, <2>1, <2>2, <2>5, SameImports, SameSession DEF ServerInv
  <2>6. Serving
    BY <1>1, <2>1, <2>2 DEF Serving
  <2> QED BY <2>3, <2>4, <2>5, <2>6 DEF ServerInv
<1>5. CASE ~Refused(k)
  <2> DEFINE w == Written(k)
             n == NextStatus(k)
             r == IF n = loaded[k].run.status THEN w ELSE [w EXCEPT !.status = n]
  <2>1. /\ request[k].op \in {"append", "final"}
        /\ loaded[k].run.results = runs[k].results
        /\ loaded[k].run.passed = runs[k].passed /\ loaded[k].run.failed = runs[k].failed
        /\ loaded[k].run.status = OpenStatus => runs[k].status \notin {"PASS", "FAIL"}
        /\ request[k].op = "append" => loaded[k].known \/ request[k].case \in dropped
    BY <1>1, <1>3 DEF SessionInv, LoadedInv
  <2>2. request[k].op = "append" =>
          /\ request[k].case \in Cases /\ request[k].case \in Executed
          /\ request[k].outcome = results[request[k].case]
          /\ request[k].outcome \in Outcomes /\ runs[k].results[request[k].case] = "none"
    BY <1>1, <1>3 DEF SessionInv, AppendInv, Executed, TypeInv
  <2>3. /\ runs \in [Sessions -> Run] /\ runs[k] \in Run
        /\ runs[k].results \in [Cases -> Outcomes \union {"none"}]
        /\ runs[k].evidence \in [Cases -> Urls] /\ runs[k].failed \in Nat
        /\ runs[k].passed \in Nat
    BY DEF TypeInv, Run
  <2>4. n \in {"RUNNING", "PASS", "FAIL"} /\ n \in RunStatuses
    BY DEF NextStatus, FinalVerdict, OpenStatus, RunStatuses
  <2>5. /\ request[k].op = "append" => n = "RUNNING"
        /\ request[k].op = "final" => n = IF runs[k].failed = 0 THEN "PASS" ELSE "FAIL"
    BY <2>1 DEF NextStatus, FinalVerdict, OpenStatus
  <2>6. /\ w \in Run /\ w.status = runs[k].status
        /\ ~Fresh(k) => w = runs[k]
        /\ Fresh(k) =>
              /\ w.results = [runs[k].results EXCEPT ![request[k].case] = request[k].outcome]
              /\ w.evidence = [runs[k].evidence EXCEPT ![request[k].case] = request[k].url]
              /\ request[k].outcome = "PASSED" =>
                   w.passed = runs[k].passed + 1 /\ w.failed = runs[k].failed
              /\ request[k].outcome # "PASSED" =>
                   w.passed = runs[k].passed /\ w.failed = runs[k].failed + 1
    BY <2>1, <2>2, WrittenOf
  <2>7. runs' = [runs EXCEPT ![k] = r] /\ Stage(k, "ok")
    BY <1>5 DEF WriteRun, Written
  <2> HIDE DEF w, n
  <2>8. /\ r \in Run /\ r.results = w.results /\ r.evidence = w.evidence
        /\ r.passed = w.passed /\ r.failed = w.failed
        /\ r.status = IF n = loaded[k].run.status THEN runs[k].status ELSE n
    BY <2>4, <2>6 DEF Run
  <2> HIDE DEF r
  <2>9. /\ runs' \in [Sessions -> Run] /\ runs'[k] = r
        /\ \A j \in Sessions \ {k} : runs'[j] = runs[j]
    BY <2>3, <2>7, <2>8
  <2>10. /\ request' \in [Sessions -> Request]
         /\ request'[k].stage = "ok" /\ request'[k].op = request[k].op
         /\ request'[k].case = request[k].case /\ request'[k].outcome = request[k].outcome
         /\ request'[k].url = request[k].url
         /\ \A j \in Sessions \ {k} : request'[j] = request[j]
    BY <2>7, StageOf
  <2>11. TypeInv'
    BY <1>1, <1>2, <2>9, <2>10 DEF TypeInv, clientVars, Executed
  <2>12. CountsInv(r)
    <3>1. CountsInv(runs[k])
      BY <1>3 DEF SessionInv
    <3>2. CASE Fresh(k)
      <4>1. request[k].op = "append"
        BY <3>2 DEF Fresh
      <4>2. r.status \notin {"PASS", "FAIL"}
        BY <2>1, <2>5, <2>8, <4>1 DEF OpenStatus
      <4>3. r.results = [runs[k].results EXCEPT ![request[k].case] = request[k].outcome]
        BY <2>6, <2>8, <3>2
      <4>4. r.passed = Cardinality(Passing(r)) /\ r.failed = Cardinality(Failing(r))
        BY <2>2, <2>3, <2>6, <2>8, <3>1, <3>2, <4>1, <4>3, CountOne DEF CountsInv
      <4> QED BY <4>2, <4>4 DEF CountsInv
    <3>3. CASE ~Fresh(k)
      <4>1. /\ r.results = runs[k].results /\ r.passed = runs[k].passed
            /\ r.failed = runs[k].failed
        BY <2>6, <2>8, <3>3
      <4>2. r.status = "PASS" => r.failed = 0
        BY <2>1, <2>5, <2>8, <3>1, <4>1 DEF CountsInv, OpenStatus
      <4>3. r.status = "FAIL" => r.failed # 0
        BY <2>1, <2>5, <2>8, <3>1, <4>1 DEF CountsInv, OpenStatus
      <4> QED BY <3>1, <4>1, <4>2, <4>3 DEF CountsInv, Passing, Failing
    <3> QED BY <3>2, <3>3
  <2>13. AgreesInv(r)
    <3>1. AgreesInv(runs[k])
      BY <1>3 DEF SessionInv
    <3>2. CASE Fresh(k)
      <4>1. /\ request[k].op = "append" /\ request[k].outcome # "none"
        BY <2>2, <3>2, IngestAssumption DEF Fresh
      <4> QED BY <2>2, <2>3, <2>6, <2>8, <3>1, <3>2, <4>1 DEF AgreesInv
    <3>3. CASE ~Fresh(k)
      BY <2>6, <2>8, <3>1, <3>3 DEF AgreesInv
    <3> QED BY <3>2, <3>3
  <2>14. AppendInv(request[k], runs[k])'
    <3> SUFFICES ASSUME request[k].op = "append"
                 PROVE  /\ request[k].case \in Executed
                        /\ request[k].outcome = results[request[k].case]
                        /\ \/ request[k].case \in dropped
                           \/ /\ r.results[request[k].case] = results[request[k].case]
                              /\ request[k].url = "blob" => r.evidence[request[k].case] = "blob"
      BY <1>1, <2>9, <2>10 DEF AppendInv, Executed
    <3>1. CASE Fresh(k)
      BY <2>2, <2>3, <2>6, <2>8, <3>1
    <3>2. CASE ~Fresh(k)
      BY <2>1, <2>2, <3>2 DEF Fresh
    <3> QED BY <2>2, <3>1, <3>2
  <2>15. SessionInv(k)'
    <3>1. CountsInv(runs[k])'
      BY <2>9, <2>12 DEF CountsInv, Passing, Failing
    <3>2. AgreesInv(runs[k])'
      BY <1>1, <2>9, <2>13 DEF AgreesInv
    <3>3. LoadedInv(request[k], loaded[k], runs[k])'
      BY <2>10 DEF LoadedInv
    <3>4. ImportInv(request[k])'
      BY <1>1, <1>3, <2>1, <2>10, SameImports DEF SessionInv, ImportInv
    <3> QED BY <2>14, <3>1, <3>2, <3>3, <3>4 DEF SessionInv
  <2>16. ASSUME NEW j \in Sessions \ {k} PROVE SessionInv(j)'
    BY <1>1, <1>2, <2>9, <2>10, <2>16, SameImports, SameSession DEF ServerInv
  <2>17. Serving
    <3>1. ASSUME NEW c \in Cases
          PROVE  \/ /\ runs'[k].results[c] = runs[k].results[c]
                    /\ runs'[k].evidence[c] = runs[k].evidence[c]
                 \/ /\ runs[k].results[c] = "none" /\ request[k].stage = "loaded"
                    /\ request[k].op = "append" /\ c = request[k].case
      <4>1. CASE Fresh(k)
        BY <1>1, <2>2, <2>3, <2>6, <2>8, <2>9, <4>1 DEF Fresh
      <4>2. CASE ~Fresh(k)
        BY <2>6, <2>8, <2>9, <4>2
      <4> QED BY <4>1, <4>2
    <3> QED BY <1>1, <2>9, <2>10, <3>1 DEF Serving
  <2> QED BY <2>11, <2>15, <2>16, <2>17 DEF ServerInv
<1> QED BY <1>4, <1>5

\* A user or a reconciler takes the run from under the handler.
LEMMA OthersKeep ==
  ASSUME TypeInv, ServerInv, NEW k \in Sessions, CancelRun(k) \/ Reconcile(k),
         UNCHANGED clientVars
  PROVE  TypeInv' /\ ServerInv' /\ Serving
<1>1. PICK st \in {"CANCELLED", "INTERRUPTED"} :
        runs' = [runs EXCEPT ![k] = [runs[k] EXCEPT !.status = st]]
  BY DEF CancelRun, Reconcile
<1> DEFINE r == [runs[k] EXCEPT !.status = st]
<1>2. UNCHANGED <<caseRows, request, loaded, dropped>> /\ results' = results
  BY DEF CancelRun, Reconcile, clientVars
<1>3. runs \in [Sessions -> Run] /\ runs[k] \in Run
  BY DEF TypeInv
<1>4. /\ r \in Run /\ r.status = st /\ r.results = runs[k].results
      /\ r.evidence = runs[k].evidence /\ r.passed = runs[k].passed
      /\ r.failed = runs[k].failed
  BY <1>3 DEF Run, RunStatuses
<1>5. runs' = [runs EXCEPT ![k] = r]
  BY <1>1
<1> HIDE DEF r
<1>6. /\ runs' \in [Sessions -> Run] /\ runs'[k] = r
      /\ \A j \in Sessions \ {k} : runs'[j] = runs[j]
  BY <1>3, <1>4, <1>5
<1>7. TypeInv'
  BY <1>2, <1>6 DEF TypeInv, clientVars, Executed
<1>8. SessionInv(k)'
  <2>1. SessionInv(k)
    BY DEF ServerInv
  <2>2. CountsInv(runs[k])' /\ AgreesInv(runs[k])'
    BY <1>2, <1>4, <1>6, <2>1, SameResults DEF SessionInv
  <2>3. LoadedInv(request[k], loaded[k], runs[k])'
    BY <1>2, <1>4, <1>6, <2>1 DEF SessionInv, LoadedInv
  <2>4. AppendInv(request[k], runs[k])'
    BY <1>2, <1>4, <1>6, <2>1 DEF SessionInv, AppendInv, Executed
  <2>5. ImportInv(request[k])'
    BY <1>2, <2>1, SameImports DEF SessionInv, ImportInv
  <2> QED BY <2>2, <2>3, <2>4, <2>5 DEF SessionInv
<1>9. ASSUME NEW j \in Sessions \ {k} PROVE SessionInv(j)'
  BY <1>2, <1>6, <1>9, SameImports, SameSession DEF ServerInv
<1>10. Serving
  BY <1>2, <1>4, <1>6 DEF Serving
<1> QED BY <1>7, <1>8, <1>9, <1>10 DEF ServerInv

LEMMA DeleteCaseKeeps ==
  ASSUME TypeInv, ServerInv, NEW c \in Cases, DeleteCase(c), UNCHANGED clientVars
  PROVE  TypeInv' /\ ServerInv' /\ Serving
<1>1. /\ caseRows' = [caseRows EXCEPT ![c] = "absent"] /\ dropped' = dropped \union {c}
      /\ UNCHANGED <<runs, request, loaded>> /\ results' = results
  BY DEF DeleteCase, clientVars
<1>2. TypeInv'
  <2>1. caseRows' \in [Cases -> {"absent", "ACTIVE", "STALE"}]
    BY <1>1 DEF TypeInv
  <2> QED BY <1>1, <2>1 DEF TypeInv, clientVars, Executed
<1>3. PlanImported => PlanImported'
  BY <1>1, IngestAssumption DEF PlanImported, TypeInv
<1>4. ASSUME NEW j \in Sessions PROVE SessionInv(j)'
  BY <1>1, <1>3, <1>4, SameSession DEF ServerInv
<1> QED BY <1>1, <1>2, <1>4 DEF ServerInv, Serving

-----------------------------------------------------------------------------
\* What the server does leaves the client's knowledge true.
LEMMA ServingRecorded ==
  ASSUME TypeInv, Serving, NEW j \in Sessions, NEW c \in Cases
  PROVE  /\ runs[j].results[c] # "none" \/ request[j].op # "append"
              \/ request[j].stage # "loaded" \/ c # request[j].case =>
                  /\ runs'[j].results[c] = runs[j].results[c]
                  /\ runs'[j].evidence[c] = runs[j].evidence[c]
         /\ request'[j].op = request[j].op /\ request'[j].case = request[j].case
BY DEF Serving

LEMMA ServingUnrecorded ==
  ASSUME TypeInv, Serving, NEW j \in Sessions, NEW S, Unrecorded(runs[j], S),
         \/ request[j].op # "append" \/ request[j].stage # "loaded" \/ request[j].case \in S
  PROVE  Unrecorded(runs[j], S)'
BY ServingRecorded DEF Unrecorded

LEMMA TwoSessions == Streaming \in Sessions /\ Compatibility \in Sessions
                     /\ \A k \in Sessions : k = Streaming \/ k = Compatibility
BY LifecycleAssumption DEF Streaming, Compatibility

LEMMA ServingKeeps ==
  ASSUME TypeInv, ServerInv, ClientInv, UpInv, SendInv, CompleteInv, PublishedIsRecorded,
         VideoKeptUntilStored, Serving
  PROVE  /\ ClientInv' /\ UpInv' /\ SendInv' /\ CompleteInv' /\ PublishedIsRecorded'
         /\ VideoKeptUntilStored'
<1>1. /\ pc' = pc /\ session' = session /\ streamed' = streamed /\ broken' = broken
      /\ ended' = ended /\ sent' = sent /\ published' = published /\ results' = results
      /\ media' = media /\ up' = up /\ managed' = managed /\ Executed' = Executed
      /\ dropped \subseteq dropped' /\ session \in Sessions /\ sent \subseteq Executed
      /\ (Clean <=> Clean')
  BY DEF Serving, clientVars, Executed, TypeInv, Clean
<1>2. \A j \in Sessions : request'[j].op = request[j].op /\ request'[j].case = request[j].case
  BY DEF Serving
<1>3. \A j \in Sessions : request[j] = NoRequest => request'[j] = NoRequest
  BY DEF Serving, NoRequest
<1>4. ClientInv'
  <2>1. ASSUME NEW j \in Sessions, request[j] = NoRequest, Unrecorded(runs[j], {})
        PROVE  Unrecorded(runs[j], {})'
    BY <2>1, ServingUnrecorded DEF NoRequest
  <2>2. pc \in Before => request[Streaming] = NoRequest /\ Unrecorded(runs[Streaming], {})
    BY DEF ClientInv
  <2>3. pc \in Before => request'[Streaming] = NoRequest /\ Unrecorded(runs[Streaming], {})'
    BY <1>3, <2>1, <2>2, TwoSessions
  <2>4. session = Streaming =>
          request'[Compatibility] = NoRequest /\ Unrecorded(runs[Compatibility], {})'
    BY <1>3, <2>1, TwoSessions DEF ClientInv
  <2> QED BY <1>1, <2>3, <2>4 DEF ClientInv
<1>5. UpInv'
  BY <1>1, <1>3 DEF UpInv, StartedServicesStopped, NothingBegun
<1>6. SendInv'
  <2>1. pc \in {"importing", "beginning"} => Unrecorded(runs[session], {})'
    <3>1. pc \in {"importing", "beginning"} =>
            request[session].op \in {"import", "begin"} /\ Unrecorded(runs[session], {})
      BY DEF SendInv
    <3> QED BY <1>1, <3>1, ServingUnrecorded DEF Unrecorded
  <2>2. pc = "appending" => Unrecorded(runs[session], sent \union {request[session].case})'
    <3> SUFFICES ASSUME pc = "appending"
                 PROVE  Unrecorded(runs[session], sent \union {request[session].case})'
      OBVIOUS
    <3> DEFINE S == sent \union {request[session].case}
    <3>1. Unrecorded(runs[session], S)
      BY DEF SendInv
    <3>2. request[session].case \in S
      OBVIOUS
    <3> HIDE DEF S
    <3>3. Unrecorded(runs'[session], S)
      BY <1>1, <3>1, <3>2, ServingRecorded DEF Unrecorded
    <3> QED BY <1>1, <1>2, <3>3 DEF S, Unrecorded
  <2>3. Clean => request'[session].stage = "ok" /\ Unrecorded(runs[session], sent)'
    <3> SUFFICES ASSUME Clean
                 PROVE  request'[session].stage = "ok" /\ Unrecorded(runs[session], sent)'
      OBVIOUS
    <3>1. request[session].stage = "ok" /\ Unrecorded(runs[session], sent)
      BY DEF SendInv
    <3>2. request'[session] = request[session]
      BY <1>1, <3>1 DEF Serving
    <3> QED BY <1>1, <3>1, <3>2, ServingRecorded DEF Unrecorded
  <2>4. \A c \in sent \ dropped' : runs'[session].results[c] = results[c]
    <3> SUFFICES ASSUME NEW c \in sent \ dropped' PROVE runs'[session].results[c] = results[c]
      OBVIOUS
    <3>1. c \in Cases /\ results[c] # "none" /\ runs[session].results[c] = results[c]
      BY <1>1 DEF SendInv, Executed
    <3> QED BY <1>1, <3>1, ServingRecorded
  <2> QED BY <1>1, <1>2, <2>1, <2>2, <2>3, <2>4 DEF SendInv, Unrecorded
<1>7. CompleteInv'
  BY <1>1, <1>2 DEF CompleteInv
<1>8. PublishedIsRecorded'
  <2> SUFFICES ASSUME published = "yes", NEW c \in Executed \ dropped'
               PROVE  runs'[session].results[c] = results[c]
    BY <1>1 DEF PublishedIsRecorded
  <2>1. c \in Cases /\ results[c] # "none" /\ runs[session].results[c] = results[c]
    BY <1>1 DEF PublishedIsRecorded, Executed
  <2> QED BY <1>1, <2>1, ServingRecorded
<1>9. VideoKeptUntilStored'
  <2> SUFFICES ASSUME published # "yes", NEW c \in Executed \ (media \union dropped'),
                      results[c] # "SKIPPED"
               PROVE  \E k \in Sessions : runs'[k].evidence[c] = "blob"
    BY <1>1 DEF VideoKeptUntilStored
  <2>1. PICK k \in Sessions : runs[k].evidence[c] = "blob"
    BY <1>1 DEF VideoKeptUntilStored
  <2>2. c \in Cases /\ runs[k].results[c] # "none"
    BY <2>1 DEF Executed, ServerInv, SessionInv, AgreesInv
  <2> QED BY <2>1, <2>2, ServingRecorded
<1> QED BY <1>4, <1>5, <1>6, <1>7, <1>8, <1>9

-----------------------------------------------------------------------------
\* Steps of the client: what they leave of the server's rows, and what a new
\* request is.
LEMMA SameServer ==
  ASSUME ServerInv, UNCHANGED serverRest, request' = request, results' = results
  PROVE  ServerInv'
<1>1. PlanImported' = PlanImported
  BY SameImports DEF serverRest
<1> QED BY <1>1, SameSession DEF ServerInv, serverRest

LEMMA SendServer ==
  ASSUME TypeInv, ServerInv, UNCHANGED serverRest, results' = results,
         NEW k \in Sessions, NEW op \in {"import", "begin", "append", "final"},
         NEW c \in Cases \union {0}, NEW url \in Urls, Send(k, op, c, url),
         op = "append" => c \in Executed /\ runs[k].results[c] = "none",
         op # "import" => PlanImported
  PROVE  ServerInv'
<1>1. PlanImported' = PlanImported /\ runs' = runs /\ loaded' = loaded /\ dropped' = dropped
  BY SameImports DEF serverRest
<1>2. /\ request'[k].op = op /\ request'[k].stage = "sent" /\ request'[k].case = c
      /\ request'[k].outcome = (IF c = 0 THEN "none" ELSE results[c])
      /\ \A j \in Sessions \ {k} : request'[j] = request[j]
  BY SendOf
<1>3. ASSUME NEW j \in Sessions \ {k} PROVE SessionInv(j)'
  BY <1>1, <1>2, <1>3, SameSession DEF ServerInv
<1>4. SessionInv(k)'
  <2>1. SessionInv(k)
    BY DEF ServerInv
  <2>2. CountsInv(runs[k])' /\ AgreesInv(runs[k])'
    BY <1>1, <2>1 DEF SessionInv, CountsInv, Passing, Failing, AgreesInv
  <2>3. LoadedInv(request[k], loaded[k], runs[k])'
    BY <1>2 DEF LoadedInv
  <2>4. AppendInv(request[k], runs[k])'
    <3>1. op = "append" => c \in Cases /\ c # 0
      BY IngestAssumption DEF Executed
    <3> QED BY <1>1, <1>2, <3>1 DEF AppendInv, Executed
  <2>5. ImportInv(request[k])'
    BY <1>1, <1>2 DEF ImportInv
  <2> QED BY <2>2, <2>3, <2>4, <2>5 DEF SessionInv
<1> QED BY <1>3, <1>4 DEF ServerInv

LEMMA SameVideos ==
  ASSUME VideoKeptUntilStored, UNCHANGED serverRest, results' = results, media' = media,
         published # "yes"
  PROVE  VideoKeptUntilStored'
BY DEF VideoKeptUntilStored, Executed, serverRest

\* A session that is opened is fresh: the streaming one before anything else,
\* the compatibility one while the streaming one is in use.
LEMMA OpenOf ==
  ASSUME IInv, NEW k \in Sessions, OpenSession(k), UNCHANGED serverRest, results' = results,
         \/ k = Streaming /\ pc \in Before
         \/ k = Compatibility /\ session = Streaming
  PROVE  /\ ServerInv' /\ SendInv' /\ CompleteInv'
         /\ request' \in [Sessions -> Request] /\ session' = k /\ pc' = "importing"
         /\ sent' = {} /\ broken' = FALSE
         /\ \A j \in Sessions \ {k} : request'[j] = request[j]
<1>1. /\ session' = k /\ sent' = {} /\ broken' = FALSE /\ pc' = "importing"
      /\ Send(k, "import", 0, "none") /\ runs' = runs
  BY DEF OpenSession, serverRest
<1>2. "none" \in Urls /\ 0 \in Cases \union {0}
  BY DEF Urls
<1>3. /\ request' \in [Sessions -> Request] /\ request'[k].op = "import"
      /\ \A j \in Sessions \ {k} : request'[j] = request[j]
  BY <1>1, <1>2, SendOf DEF IInv
<1>4. ServerInv'
  BY <1>1, <1>2, SendServer DEF IInv
<1>5. Unrecorded(runs[k], {})
  BY DEF IInv, ClientInv
<1>6. SendInv'
  BY <1>1, <1>3, <1>5 DEF SendInv, Clean, Unrecorded
<1>7. CompleteInv'
  BY <1>1 DEF CompleteInv, Clean
<1> QED BY <1>1, <1>3, <1>4, <1>6, <1>7

\* Before the tests: an invocation goes on, gives up and publishes that, or
\* raises.
LEMMA GoesOnKeeps ==
  ASSUME IInv, pc \in Before, pc' \in Before, UNCHANGED serverRest,
         UNCHANGED <<request, results, media, ended, session, streamed, broken, sent, published>>,
         binding'.project \in Projects \union {"none", "new"},
         configId' \in Projects \union {"none", "new"},
         managed' = up', up' \subseteq Services, pc' \in {"bind", "deps"} => up' = {}
  PROVE  IInv'
<1>1. TypeInv'
  BY DEF IInv, TypeInv, Executed, Before, Positions, serverRest
<1>2. ServerInv' /\ VideoKeptUntilStored' /\ PublishedIsRecorded'
  <2>1. published = "none"
    BY DEF IInv, ClientInv, TypeInv, Before
  <2> QED BY <2>1, SameServer, SameVideos DEF IInv, PublishedIsRecorded
<1>3. ClientInv'
  <2>1. Executed' = {}
    BY DEF IInv, ClientInv, Before, Executed
  <2> QED BY <2>1 DEF IInv, ClientInv, Unrecorded, Before, Open, serverRest
<1>4. UpInv' /\ SendInv' /\ CompleteInv'
  BY DEF IInv, ClientInv, UpInv, StartedServicesStopped, SendInv, CompleteInv, Clean, Before,
         serverRest
<1> QED BY <1>1, <1>2, <1>3, <1>4 DEF IInv

LEMMA AbortKeeps ==
  ASSUME IInv, pc \in Before, Abort, UNCHANGED serverRest,
         UNCHANGED <<binding, configId, results, media, streamed, published>>,
         managed' = up', up' \subseteq Services
  PROVE  IInv'
<1>1. /\ ended' = "aborted" /\ OpenSession(Compatibility) /\ Compatibility \in Sessions
      /\ session = Streaming /\ ~streamed /\ published = "none"
  BY TwoSessions DEF Abort, IInv, ClientInv, Before, TypeInv
<1>2. /\ ServerInv' /\ SendInv' /\ CompleteInv'
      /\ request' \in [Sessions -> Request] /\ session' = Compatibility /\ pc' = "importing"
      /\ sent' = {} /\ broken' = FALSE
  BY <1>1, OpenOf
<1>3. TypeInv'
  BY <1>1, <1>2 DEF IInv, TypeInv, Executed, Positions, Waiting, serverRest
<1>4. VideoKeptUntilStored' /\ PublishedIsRecorded'
  BY <1>1, SameVideos DEF IInv, PublishedIsRecorded
<1>5. ClientInv' /\ UpInv'
  BY <1>1, <1>2 DEF ClientInv, UpInv, StartedServicesStopped, Before, Open, Streaming,
     Compatibility
<1> QED BY <1>2, <1>3, <1>4, <1>5 DEF IInv

LEMMA RaiseKeeps ==
  ASSUME IInv, pc \in Before, Raise, UNCHANGED serverRest,
         UNCHANGED <<request, session, sent, broken, binding, configId, results, media,
                     streamed, published>>,
         \/ managed' = up' /\ up' \subseteq Services
         \/ pc = "deps" /\ managed' = {} /\ up' \subseteq Dependencies
  PROVE  IInv'
<1>1. /\ ended' = "raised" /\ pc' = "stop"
      /\ session = Streaming /\ ~streamed /\ published = "none"
  BY DEF Raise, IInv, ClientInv, Before, TypeInv
<1>2. managed' \subseteq up' /\ up' \subseteq Services
  BY DEF Services
<1>3. TypeInv'
  BY <1>1, <1>2 DEF IInv, TypeInv, Executed, Positions, serverRest
<1>4. ServerInv' /\ VideoKeptUntilStored' /\ PublishedIsRecorded'
  BY <1>1, SameServer, SameVideos DEF IInv, PublishedIsRecorded
<1>5. pc = "deps" => NothingBegun'
  BY <1>1, TwoSessions DEF IInv, ClientInv, Before, Executed, NothingBegun
<1>7. ClientInv' /\ UpInv'
  BY <1>1, <1>5 DEF IInv, ClientInv, UpInv, StartedServicesStopped, Before, Open, Unrecorded,
     serverRest
<1>6. SendInv' /\ CompleteInv'
  BY <1>1 DEF IInv, SendInv, CompleteInv, Clean, serverRest
<1> QED BY <1>3, <1>4, <1>7, <1>6 DEF IInv

LEMMA ResolvedIds == Resolved.ids \subseteq Projects
<1>1. {"bound"} \subseteq Projects /\ {"namesake"} \subseteq Projects
      /\ {"homonym", "twin"} \subseteq Projects
  BY DEF Projects
<1> QED BY <1>1 DEF Resolved

\* resolve_binding that does not end the invocation, and one that does.
LEMMA ResolveBindingKeeps == ASSUME IInv, ResolveBinding PROVE IInv'
<1>1. /\ pc = "bind" /\ UNCHANGED serverRest
      /\ UNCHANGED <<request, up, managed, results, media, ended, session,
                     streamed, broken, sent, published>>
  BY DEF ResolveBinding, ingestVars, serverRest
<1>2. configId \in Projects \union {"none", "new"} /\ up = {} /\ managed = {}
  BY <1>1 DEF IInv, TypeInv, UpInv
<1>3. /\ configId' \in Projects \union {"none", "new"}
      /\ \E st \in {"first_setup", "unverified", "valid", "repaired", "recreate_requested",
                    "missing"}, p \in Projects \union {"none", "new"} : Bound(st, p)
  BY <1>2, ResolvedIds DEF ResolveBinding
<1>4. binding'.project \in Projects \union {"none", "new"} /\ pc' \in {"deps", "over"}
  BY <1>3 DEF Bound
<1>5. CASE pc' = "deps"
  BY <1>1, <1>2, <1>3, <1>4, <1>5, GoesOnKeeps DEF Before
<1>6. CASE pc' = "over"
  <2>1. session = Streaming /\ ~streamed /\ published = "none" /\ ended = "open"
    BY <1>1 DEF IInv, ClientInv, Before, TypeInv
  <2>2. TypeInv'
    BY <1>1, <1>2, <1>3, <1>4, <1>6 DEF IInv, TypeInv, Executed, Positions, serverRest
  <2>3. ServerInv' /\ VideoKeptUntilStored' /\ PublishedIsRecorded'
    BY <1>1, <2>1, SameServer, SameVideos DEF IInv, PublishedIsRecorded
  <2>4. ClientInv' /\ UpInv'
    BY <1>1, <1>2, <1>6, <2>1 DEF IInv, ClientInv, UpInv, StartedServicesStopped, Before, Open,
       Unrecorded, serverRest
  <2>5. SendInv' /\ CompleteInv'
    BY <1>1, <1>6, <2>1 DEF IInv, SendInv, CompleteInv, Clean, serverRest
  <2> QED BY <2>2, <2>3, <2>4, <2>5 DEF IInv
<1> QED BY <1>4, <1>5, <1>6

LEMMA StartDependenciesKeeps ==
  ASSUME IInv, NEW started \in SUBSET Dependencies, StartDependencies(started) PROVE IInv'
<1>1. /\ pc = "deps" /\ UNCHANGED serverRest /\ up' = up \union started
      /\ UNCHANGED <<binding, configId, results, media, streamed, published>>
  BY DEF StartDependencies
<1>2. /\ up = {} /\ managed = {} /\ pc \in Before
      /\ binding.project \in Projects \union {"none", "new"}
      /\ configId \in Projects \union {"none", "new"}
  BY <1>1 DEF IInv, TypeInv, UpInv, Before
<1>3. up' = started /\ up' \subseteq Dependencies /\ up' \subseteq Services
  BY <1>1, <1>2 DEF Services
<1>4. CASE /\ started = Dependencies /\ managed' = managed \union started
           /\ \/ pc' = "target" /\ UNCHANGED <<request, session, sent, broken, ended>>
              \/ Abort
  <2>1. managed' = up'
    BY <1>2, <1>3, <1>4
  <2>3. CASE Abort
    BY <1>1, <1>2, <1>3, <2>1, <2>3, AbortKeeps
  <2>4. CASE pc' = "target" /\ UNCHANGED <<request, session, sent, broken, ended>>
    BY <1>1, <1>2, <1>3, <2>1, <2>4, GoesOnKeeps DEF Before
  <2> QED BY <1>4, <2>3, <2>4
<1>5. CASE Raise /\ UNCHANGED <<managed, request, session, sent, broken>>
  BY <1>1, <1>2, <1>3, <1>5, RaiseKeeps
<1> QED BY <1>4, <1>5 DEF StartDependencies

LEMMA StartTargetKeeps == ASSUME IInv, StartTarget PROVE IInv'
<1>1. /\ pc = "target" /\ UNCHANGED serverRest
      /\ UNCHANGED <<binding, configId, results, media, streamed, published>>
  BY DEF StartTarget
<1>2. /\ managed = up /\ up \subseteq Services /\ pc \in Before
      /\ binding.project \in Projects \union {"none", "new"}
      /\ configId \in Projects \union {"none", "new"}
  BY <1>1 DEF IInv, TypeInv, UpInv, Before
<1>3. CASE Raise /\ UNCHANGED <<up, managed, request, session, sent, broken>>
  BY <1>1, <1>2, <1>3, RaiseKeeps
<1>4. CASE /\ up' = up \union {"target"} /\ managed' = managed \union {"target"}
           /\ \/ pc' = "provision" /\ UNCHANGED <<request, session, sent, broken, ended>>
              \/ Abort
              \/ Raise /\ UNCHANGED <<request, session, sent, broken>>
  <2>1. managed' = up' /\ up' \subseteq Services
    BY <1>2, <1>4 DEF Services
  <2>2. CASE Abort
    BY <1>1, <1>2, <2>1, <2>2, AbortKeeps
  <2>3. CASE pc' = "provision" /\ UNCHANGED <<request, session, sent, broken, ended>>
    BY <1>1, <1>2, <2>1, <2>3, GoesOnKeeps DEF Before
  <2>4. CASE Raise /\ UNCHANGED <<request, session, sent, broken>>
    BY <1>1, <1>2, <2>1, <2>4, RaiseKeeps
  <2> QED BY <1>4, <2>2, <2>3, <2>4
<1> QED BY <1>3, <1>4 DEF StartTarget

LEMMA ProvisionKeeps == ASSUME IInv, Provision PROVE IInv'
<1>1. /\ pc = "provision" /\ UNCHANGED serverRest
      /\ UNCHANGED <<binding, configId, up, managed, results, media, streamed, published>>
  BY DEF Provision
<1>2. /\ managed = up /\ up \subseteq Services /\ pc \in Before
      /\ session = Streaming /\ ~streamed /\ ended = "open" /\ published = "none"
  BY <1>1 DEF IInv, TypeInv, UpInv, Before, ClientInv
<1>3. CASE Raise /\ UNCHANGED <<request, session, sent, broken>>
  BY <1>1, <1>2, <1>3, RaiseKeeps
<1>4. CASE Abort
  BY <1>1, <1>2, <1>4, AbortKeeps
<1>5. CASE OpenSession(Streaming) /\ UNCHANGED ended
  <2>1. /\ ServerInv' /\ SendInv' /\ CompleteInv'
        /\ request' \in [Sessions -> Request] /\ session' = Streaming /\ pc' = "importing"
        /\ sent' = {} /\ broken' = FALSE
        /\ \A j \in Sessions \ {Streaming} : request'[j] = request[j]
    BY <1>1, <1>2, <1>5, TwoSessions, OpenOf
  <2>2. TypeInv'
    BY <1>1, <1>2, <1>5, <2>1, TwoSessions
       DEF IInv, TypeInv, Executed, Positions, Waiting, serverRest
  <2>3. VideoKeptUntilStored' /\ PublishedIsRecorded'
    BY <1>1, <1>2, SameVideos DEF IInv, PublishedIsRecorded
  <2>4. request'[Compatibility] = NoRequest /\ Unrecorded(runs[Compatibility], {})'
    BY <1>1, <1>2, <2>1, TwoSessions DEF IInv, ClientInv, Unrecorded, Streaming, Compatibility,
       serverRest
  <2>5. Executed' = {}
    BY <1>1, <1>2 DEF IInv, ClientInv, Before, Executed
  <2>6. ClientInv'
    BY <1>1, <1>2, <1>5, <2>1, <2>4, <2>5 DEF ClientInv, Before, Open, Streaming, Compatibility
  <2>7. UpInv'
    BY <1>1, <1>2, <1>5, <2>1 DEF UpInv, StartedServicesStopped
  <2> QED BY <2>1, <2>2, <2>3, <2>6, <2>7 DEF IInv
<1> QED BY <1>3, <1>4, <1>5 DEF Provision

-----------------------------------------------------------------------------
\* A session is over: with the last answer of a finalized run, or without it.
LEMMA ConcludeKeeps ==
  ASSUME IInv, pc \in Open \union {"finish", "finalizing"}, ended # "open",
         NEW v \in {"no", "yes"}, Conclude(v), UNCHANGED serverRest,
         UNCHANGED <<request, binding, configId, up, managed, results, ended, session,
                     streamed, sent>>,
         broken' \in BOOLEAN, v = "no" => media' = media,
         v = "yes" => media' = {} /\ Executed \subseteq sent
  PROVE  IInv'
<1>1. /\ ended \in {"done", "aborted"}
      /\ ended = "aborted" => ~streamed
      /\ published = "none" /\ published' = v
      /\ pc' = IF ended = "aborted" THEN "stop" ELSE "over"
  BY TwoSessions DEF Conclude, IInv, ClientInv, TypeInv, Open, Streaming, Compatibility
<1>2. managed = up /\ (ended = "done" => up = {})
  BY DEF IInv, UpInv, Open
<1>3. TypeInv'
  BY <1>1 DEF IInv, TypeInv, Executed, Positions, serverRest
<1>4. ServerInv'
  BY SameServer DEF IInv
<1>5. ClientInv'
  BY <1>1 DEF IInv, ClientInv, Before, Open, Unrecorded, serverRest
<1>6. UpInv'
  BY <1>1, <1>2 DEF IInv, UpInv, StartedServicesStopped
<1>7. SendInv' /\ CompleteInv'
  BY <1>1 DEF IInv, SendInv, CompleteInv, Clean, serverRest
<1>8. PublishedIsRecorded'
  BY <1>1 DEF IInv, SendInv, PublishedIsRecorded, Executed, serverRest
<1>9. VideoKeptUntilStored'
  BY <1>1, SameVideos DEF IInv, VideoKeptUntilStored
<1> QED BY <1>3, <1>4, <1>5, <1>6, <1>7, <1>8, <1>9 DEF IInv

\* What holds of the invocation while a session is open.
LEMMA WhileOpen ==
  ASSUME IInv, pc \in Open
  PROVE  /\ published = "none" /\ managed = up /\ session \in Sessions
         /\ session = Streaming <=> ended = "open"
         /\ session # Streaming => session = Compatibility /\ ended \in {"done", "aborted"}
         /\ ended = "done" => up = {}
BY TwoSessions DEF IInv, ClientInv, UpInv, TypeInv, Open

\* A session that could not be started.
LEMMA StartFailsKeeps ==
  ASSUME IInv, pc \in {"importing", "beginning"}, StartFails, UNCHANGED serverRest,
         UNCHANGED <<request, binding, configId, up, managed, results, media, ended, session,
                     streamed, broken, sent>>
  PROVE  IInv'
<1>1. pc \in Open
  BY DEF Open
<1>2. CASE session # Streaming
  <2>1. Conclude("no") /\ ended # "open" /\ broken' \in BOOLEAN
    BY <1>1, <1>2, WhileOpen DEF StartFails, IInv, TypeInv
  <2> QED BY <1>1, <2>1, ConcludeKeeps
<1>3. CASE session = Streaming
  <2>1. pc' = "test" /\ published' = published /\ ended = "open" /\ ~streamed /\ managed = up
        /\ published = "none"
    BY <1>1, <1>3, WhileOpen DEF StartFails, IInv, ClientInv
  <2>2. TypeInv'
    BY <2>1 DEF IInv, TypeInv, Executed, Positions, serverRest
  <2>3. ServerInv' /\ VideoKeptUntilStored' /\ PublishedIsRecorded'
    BY <2>1, SameServer, SameVideos DEF IInv, PublishedIsRecorded
  <2>4. ClientInv'
    BY <1>3, <2>1 DEF IInv, ClientInv, Before, Open, Unrecorded, serverRest
  <2>5. UpInv'
    BY <2>1 DEF UpInv, StartedServicesStopped
  <2>6. SendInv' /\ CompleteInv'
    BY <2>1 DEF IInv, SendInv, CompleteInv, Clean, serverRest
  <2> QED BY <2>2, <2>3, <2>4, <2>5, <2>6 DEF IInv
<1> QED BY <1>2, <1>3

\* The plan's cases are on the server: the run is asked for.
LEMMA ImportedKeeps == ASSUME IInv, Imported PROVE IInv'
<1>1. /\ pc = "importing" /\ UNCHANGED serverRest
      /\ UNCHANGED <<binding, configId, up, managed, results, media, ended, session, streamed,
                     broken, sent>>
  BY DEF Imported
<1>2. /\ published = "none" /\ managed = up /\ session \in Sessions
      /\ session = Streaming <=> ended = "open"
      /\ session # Streaming => session = Compatibility /\ ended \in {"done", "aborted"}
      /\ ended = "done" => up = {}
  BY <1>1, WhileOpen DEF Open
<1>3. CASE StartFails /\ request' = request
  BY <1>1, <1>3, StartFailsKeeps
<1>4. CASE Answered /\ Send(session, "begin", 0, "none") /\ pc' = "beginning" /\ published' = published
  <2>1. request[session].op = "import" /\ Unrecorded(runs[session], {}) /\ sent = {}
    BY <1>1 DEF IInv, SendInv
  <2>2. PlanImported
    BY <1>2, <1>4, <2>1 DEF IInv, ServerInv, SessionInv, ImportInv, Answered
  <2>3. "none" \in Urls /\ 0 \in Cases \union {0}
    BY DEF Urls
  <2>4. ServerInv'
    BY <1>1, <1>2, <1>4, <2>2, <2>3, SendServer DEF IInv
  <2>5. /\ request' \in [Sessions -> Request] /\ request'[session].op = "begin"
        /\ \A j \in Sessions \ {session} : request'[j] = request[j]
    BY <1>2, <1>4, <2>3, SendOf DEF IInv
  <2>6. TypeInv'
    BY <1>1, <1>2, <1>4, <2>5 DEF IInv, TypeInv, Executed, Positions, Waiting, serverRest
  <2>7. VideoKeptUntilStored' /\ PublishedIsRecorded'
    BY <1>1, <1>2, <1>4, SameVideos DEF IInv, PublishedIsRecorded
  <2>8. ClientInv'
    <3>1. session = Streaming => request'[Compatibility] = NoRequest
      BY <1>1, <2>5, TwoSessions DEF IInv, ClientInv, Streaming, Compatibility
    <3>2. ended = "open" => Executed' = {}
      BY <1>1 DEF IInv, ClientInv, Executed
    <3>3. session = Streaming => Unrecorded(runs[Compatibility], {})'
      BY <1>1 DEF IInv, ClientInv, Unrecorded, serverRest
    <3>4. ~streamed
      BY <1>1 DEF IInv, ClientInv
    <3> QED BY <1>1, <1>2, <1>4, <3>1, <3>2, <3>3, <3>4
           DEF ClientInv, Before, Open, Streaming, Compatibility
  <2>9. UpInv'
    BY <1>1, <1>2, <1>4 DEF UpInv, StartedServicesStopped
  <2>10. SendInv' /\ CompleteInv'
    <3>1. ~Clean'
      BY <1>1, <1>4 DEF Clean
    <3> QED BY <1>1, <1>4, <2>1, <2>5, <3>1 DEF SendInv, CompleteInv, Unrecorded, serverRest
  <2> QED BY <2>4, <2>6, <2>7, <2>8, <2>9, <2>10 DEF IInv
<1> QED BY <1>3, <1>4 DEF Imported

\* The run exists.
LEMMA BegunKeeps == ASSUME IInv, Begun PROVE IInv'
<1>1. /\ pc = "beginning" /\ UNCHANGED serverRest
      /\ UNCHANGED <<request, binding, up, managed, results, media, ended, session, broken, sent>>
  BY DEF Begun
<1>2. /\ published = "none" /\ managed = up /\ session \in Sessions
      /\ session = Streaming <=> ended = "open"
      /\ session # Streaming => session = Compatibility /\ ended \in {"done", "aborted"}
      /\ ended = "done" => up = {}
  BY <1>1, WhileOpen DEF Open
<1>3. CASE StartFails /\ UNCHANGED <<streamed, configId>>
  BY <1>1, <1>3, StartFailsKeeps
<1>4. CASE /\ Answered /\ streamed' = (streamed \/ session = Streaming)
           /\ configId' \in IF binding.project = "new"
                            THEN {configId, request[session].project} ELSE {configId}
           /\ pc' = IF session = Streaming THEN "test" ELSE "sending"
           /\ published' = published
  <2>1. /\ request[session].op = "begin" /\ Unrecorded(runs[session], {}) /\ sent = {}
        /\ request[session].stage = "ok" /\ ~streamed
        /\ streamed' = (session = Streaming)
    BY <1>1, <1>4 DEF IInv, SendInv, ClientInv, Answered
  <2>2. configId' \in Projects \union {"none", "new"}
    BY <1>2, <1>4 DEF IInv, TypeInv, Request
  <2>3. TypeInv'
    BY <1>1, <1>4, <2>1, <2>2 DEF IInv, TypeInv, Executed, Positions, serverRest
  <2>4. ServerInv' /\ VideoKeptUntilStored' /\ PublishedIsRecorded'
    BY <1>1, <1>2, <1>4, SameServer, SameVideos DEF IInv, PublishedIsRecorded
  <2>5. ClientInv'
    <3>1. session = Streaming => /\ request[Compatibility] = NoRequest
                                 /\ Unrecorded(runs[Compatibility], {})'
      BY <1>1 DEF IInv, ClientInv, Unrecorded, serverRest
    <3> QED BY <1>1, <1>2, <1>4, <2>1, <3>1
           DEF ClientInv, Before, Open, Streaming, Compatibility
  <2>6. UpInv'
    BY <1>1, <1>2, <1>4 DEF UpInv, StartedServicesStopped
  <2>7. SendInv'
    BY <1>1, <1>4, <2>1 DEF SendInv, Unrecorded, serverRest
  <2>8. CompleteInv'
    <3>1. session = Streaming => Executed' = {}
      BY <1>1, <1>2 DEF IInv, ClientInv, Executed
    <3> QED BY <1>1, <1>4, <2>1, <3>1 DEF CompleteInv
  <2> QED BY <2>3, <2>4, <2>5, <2>6, <2>7, <2>8 DEF IInv
<1> QED BY <1>3, <1>4 DEF Begun

-----------------------------------------------------------------------------
\* One test has been run: no run has a result for it yet.
LEMMA RunTestKeeps == ASSUME IInv, NEW outcome \in Outcomes, RunTest(outcome) PROVE IInv'
<1> DEFINE c == Foremost(Plan \ Executed)
<1>1. c \in Plan \ Executed /\ c \in Cases /\ outcome # "none"
  <2>1. Executed \subseteq Plan /\ Executed # Plan /\ Plan \subseteq Cases
    BY IngestAssumption DEF RunTest, IInv, TypeInv
  <2>2. Plan \ Executed # {} /\ Plan \ Executed \subseteq Cases
    BY <2>1
  <2>3. c \in Plan \ Executed
    BY <2>2, ForemostIn
  <2> QED BY <2>1, <2>3, IngestAssumption
<1>2. /\ pc = "test" /\ UNCHANGED ingestVars
      /\ UNCHANGED <<binding, configId, up, managed, ended, session, streamed, broken, sent,
                     published>>
      /\ results' = [results EXCEPT ![c] = outcome]
      /\ media' = IF outcome = "SKIPPED" THEN media ELSE media \union {c}
      /\ pc' = IF streamed /\ ~broken THEN "sending" ELSE "test"
  BY DEF RunTest
<1>3. /\ session = Streaming /\ ended = "open" /\ published = "none" /\ managed = up
      /\ results \in [Cases -> Outcomes \union {"none"}]
      /\ media \subseteq Executed /\ sent \subseteq Executed /\ Executed \subseteq Plan
  BY <1>2 DEF IInv, ClientInv, UpInv, TypeInv
<1> HIDE DEF c
<1>4. /\ results' \in [Cases -> Outcomes \union {"none"}] /\ results'[c] = outcome
      /\ \A d \in Cases \ {c} : results'[d] = results[d]
  BY <1>1, <1>2, <1>3
<1>5. Executed' = Executed \union {c} /\ c \notin sent
  BY <1>1, <1>3, <1>4 DEF Executed
<1>6. TypeInv'
  <2>1. /\ Executed' \subseteq Plan /\ media' \subseteq Executed' /\ sent' \subseteq Executed'
        /\ pc' \in Positions
    BY <1>1, <1>2, <1>3, <1>5 DEF Positions
  <2> QED BY <1>2, <1>4, <2>1 DEF IInv, TypeInv, ingestVars
<1>7. ServerInv'
  <2> SUFFICES ASSUME NEW k \in Sessions PROVE SessionInv(k)'
    BY DEF ServerInv
  <2>1. SessionInv(k)
    BY DEF IInv, ServerInv
  <2>2. UNCHANGED <<caseRows, runs, request, loaded, dropped>>
    BY <1>2 DEF ingestVars
  <2>3. CountsInv(runs[k])' /\ LoadedInv(request[k], loaded[k], runs[k])' /\ ImportInv(request[k])'
    BY <2>1, <2>2 DEF SessionInv, CountsInv, Passing, Failing, LoadedInv, ImportInv, PlanImported
  <2>4. runs[k].results[c] = "none"
    BY <1>1, <2>1 DEF SessionInv, AgreesInv, Executed
  <2>5. AgreesInv(runs[k])'
    <3> SUFFICES ASSUME NEW d \in Cases
                 PROVE  /\ runs[k].results[d] # "none" => runs[k].results[d] = results'[d]
                        /\ runs[k].results[d] = "none" => runs[k].evidence[d] = "none"
      BY <2>2 DEF AgreesInv
    <3> QED BY <1>4, <2>1, <2>4 DEF SessionInv, AgreesInv
  <2>6. AppendInv(request[k], runs[k])'
    <3>1. ASSUME request[k].op = "append"
          PROVE  /\ request[k].case \in Executed /\ request[k].case \in Cases
                 /\ request[k].case # c /\ results'[request[k].case] = results[request[k].case]
      BY <1>1, <1>4, <2>1, <3>1 DEF SessionInv, AppendInv, Executed
    <3> QED BY <1>5, <2>1, <2>2, <3>1 DEF SessionInv, AppendInv
  <2> QED BY <2>3, <2>5, <2>6 DEF SessionInv
<1>8. ClientInv'
  BY <1>2, <1>3 DEF IInv, ClientInv, Before, Open, Unrecorded, Streaming, Compatibility, ingestVars
<1>9. UpInv'
  BY <1>2, <1>3 DEF UpInv, StartedServicesStopped
<1>10. SendInv'
  <2>1. \A d \in sent : results'[d] = results[d]
    BY <1>3, <1>4, <1>5 DEF Executed
  <2>2. Clean' => Clean
    BY <1>2, <1>3 DEF Clean, Streaming, Compatibility
  <2>3. /\ runs' = runs /\ request' = request /\ dropped' = dropped /\ sent' = sent
        /\ session' = session
    BY <1>2 DEF ingestVars
  <2>4. /\ Clean' => request'[session'].stage = "ok" /\ Unrecorded(runs[session], sent)'
        /\ Clean' => request'[session'].op \in {"begin", "append"}
        /\ \A d \in sent' \ dropped' : runs'[session'].results[d] = results'[d]
    BY <2>1, <2>2, <2>3 DEF IInv, SendInv, Unrecorded
  <2> QED BY <1>2, <2>4 DEF SendInv
<1>11. CompleteInv'
  <2>1. pc' = "sending" => Executed \subseteq sent
    BY <1>2 DEF IInv, CompleteInv, Clean
  <2>2. pc' = "test" => ~Clean'
    BY <1>2 DEF Clean
  <2> QED BY <1>2, <1>5, <2>1, <2>2 DEF CompleteInv
<1>12. VideoKeptUntilStored' /\ PublishedIsRecorded'
  <2>1. PublishedIsRecorded'
    BY <1>2, <1>3 DEF PublishedIsRecorded
  <2>2. ASSUME NEW d \in Executed' \ (media' \union dropped'), results'[d] # "SKIPPED"
        PROVE  \E k \in Sessions : runs'[k].evidence[d] = "blob"
    <3>1. d # c
      BY <1>2, <1>4, <2>2
    <3>2. d \in Executed \ (media \union dropped) /\ results[d] # "SKIPPED"
      BY <1>2, <1>4, <1>5, <2>2, <3>1 DEF ingestVars, Executed
    <3> QED BY <1>2, <1>3, <3>2 DEF IInv, VideoKeptUntilStored, ingestVars
  <2> QED BY <2>1, <2>2 DEF VideoKeptUntilStored
<1> QED BY <1>6, <1>7, <1>8, <1>9, <1>10, <1>11, <1>12 DEF IInv

\* The list is at its end, or its run raised.
LEMMA TestsDoneKeeps == ASSUME IInv, TestsDone PROVE IInv'
<1>1. /\ pc = "test" /\ UNCHANGED serverRest /\ pc' = "stop" /\ ended' = "done"
      /\ UNCHANGED <<request, binding, configId, up, managed, results, media, session, streamed,
                     broken, sent, published>>
  BY DEF TestsDone, ingestVars, serverRest
<1>2. session = Streaming /\ published = "none" /\ managed = up
  BY <1>1 DEF IInv, ClientInv, UpInv
<1>3. TypeInv'
  BY <1>1 DEF IInv, TypeInv, Executed, Positions, serverRest
<1>4. ServerInv' /\ VideoKeptUntilStored' /\ PublishedIsRecorded'
  BY <1>1, <1>2, SameServer, SameVideos DEF IInv, PublishedIsRecorded
<1>5. ClientInv' /\ UpInv'
  BY <1>1, <1>2 DEF IInv, ClientInv, UpInv, StartedServicesStopped, Before, Open, Unrecorded,
     serverRest
<1>6. Clean' => Clean
  BY <1>1 DEF Clean
<1>7. SendInv' /\ CompleteInv'
  <2>1. SendInv'
    BY <1>1, <1>6 DEF IInv, SendInv, Unrecorded, serverRest
  <2>2. Executed' = Executed
    BY <1>1 DEF Executed
  <2>3. CompleteInv'
    BY <1>1, <1>6, <2>2 DEF IInv, CompleteInv
  <2> QED BY <2>1, <2>3
<1> QED BY <1>3, <1>4, <1>5, <1>7 DEF IInv

-----------------------------------------------------------------------------
\* The next result is sent: the run has none for its case.
LEMMA SendResultKeeps == ASSUME IInv, SendResult PROVE IInv'
<1> DEFINE c == Foremost(Executed \ sent)
<1>1. /\ pc = "sending" /\ UNCHANGED serverRest /\ pc' = "appending" /\ Executed \ sent # {}
      /\ UNCHANGED <<binding, configId, up, managed, results, media, ended, session, streamed,
                     broken, sent, published>>
  BY DEF SendResult
<1>2. c \in Executed \ sent /\ c \in Cases
  <2>1. Executed \ sent \subseteq Cases
    BY DEF Executed
  <2> QED BY <1>1, <2>1, ForemostIn
<1>3. PICK url \in Urls : Send(session, "append", c, url)
  BY DEF SendResult, Urls
<1> HIDE DEF c
<1>4. /\ published = "none" /\ managed = up /\ session \in Sessions
      /\ session = Streaming <=> ended = "open"
      /\ session # Streaming => session = Compatibility /\ ended \in {"done", "aborted"}
      /\ ended = "done" => up = {}
  BY <1>1, WhileOpen DEF Open
<1>5. /\ Unrecorded(runs[session], sent) /\ request[session].op \in {"begin", "append"}
  BY <1>1 DEF IInv, SendInv, Clean
<1>6. runs[session].results[c] = "none" /\ PlanImported
  BY <1>2, <1>4, <1>5 DEF IInv, ServerInv, SessionInv, ImportInv, Unrecorded
<1>7. /\ request' \in [Sessions -> Request] /\ request'[session].op = "append"
      /\ request'[session].case = c
      /\ \A j \in Sessions \ {session} : request'[j] = request[j]
  BY <1>2, <1>3, <1>4, SendOf DEF IInv
<1>8. ServerInv'
  BY <1>1, <1>2, <1>3, <1>4, <1>6, SendServer DEF IInv
<1>9. TypeInv'
  BY <1>1, <1>7 DEF IInv, TypeInv, Executed, Positions, Waiting, serverRest
<1>10. VideoKeptUntilStored' /\ PublishedIsRecorded'
  BY <1>1, <1>4, SameVideos DEF IInv, PublishedIsRecorded
<1>11. ClientInv'
  <2>1. session = Streaming => request'[Compatibility] = NoRequest
    BY <1>7, TwoSessions DEF IInv, ClientInv, Streaming, Compatibility
  <2>2. session = Streaming => Unrecorded(runs[Compatibility], {})'
    BY <1>1 DEF IInv, ClientInv, Unrecorded, serverRest
  <2>3. streamed => session = Streaming
    BY DEF IInv, ClientInv
  <2> QED BY <1>1, <1>4, <2>1, <2>2, <2>3 DEF ClientInv, Before, Open, Streaming, Compatibility
<1>12. UpInv'
  BY <1>1, <1>4 DEF UpInv, StartedServicesStopped
<1>13. SendInv'
  <2>1. Unrecorded(runs'[session], sent \union {c})
    BY <1>1, <1>5 DEF Unrecorded, serverRest
  <2>2. ~Clean'
    BY <1>1 DEF Clean
  <2>3. \A d \in sent \ dropped : runs[session].results[d] = results[d]
    BY DEF IInv, SendInv
  <2> QED BY <1>1, <1>7, <2>1, <2>2, <2>3 DEF SendInv, Unrecorded, serverRest
<1>14. CompleteInv'
  <2>1. session = Streaming => streamed /\ ~broken /\ Executed \subseteq sent \union {c}
    BY <1>1, <1>2 DEF IInv, CompleteInv
  <2>2. Executed' = Executed
    BY <1>1 DEF Executed
  <2> QED BY <1>1, <1>7, <2>1, <2>2 DEF CompleteInv
<1> QED BY <1>8, <1>9, <1>10, <1>11, <1>12, <1>13, <1>14 DEF IInv

\* Every result has been sent: only the compatibility session comes here.
LEMMA AllSentKeeps == ASSUME IInv, AllSent PROVE IInv'
<1>1. /\ pc = "sending" /\ UNCHANGED serverRest /\ pc' = "finish" /\ Executed \subseteq sent
      /\ UNCHANGED <<request, binding, configId, up, managed, results, media, ended, session,
                     streamed, broken, sent, published>>
  BY DEF AllSent, ingestVars, serverRest
<1>2. /\ session = Compatibility /\ ended \in {"done", "aborted"} /\ published = "none"
      /\ managed = up
      /\ ended = "done" => up = {}
  BY <1>1, WhileOpen DEF Open, IInv, CompleteInv
<1>3. TypeInv'
  BY <1>1 DEF IInv, TypeInv, Executed, Positions, serverRest
<1>4. ServerInv' /\ VideoKeptUntilStored' /\ PublishedIsRecorded'
  BY <1>1, <1>2, SameServer, SameVideos DEF IInv, PublishedIsRecorded
<1>5. ClientInv'
  BY <1>1, <1>2 DEF IInv, ClientInv, Before, Open, Unrecorded, Streaming, Compatibility, serverRest
<1>6. UpInv'
  BY <1>1, <1>2, WhileOpen DEF UpInv, StartedServicesStopped, Open
<1>7. Clean
  BY <1>1 DEF Clean
<1>8. SendInv'
  BY <1>1, <1>7 DEF IInv, SendInv, Unrecorded, serverRest
<1>9. CompleteInv'
  <2>1. Executed' \subseteq sent'
    BY <1>1 DEF Executed
  <2> QED BY <1>1, <2>1 DEF CompleteInv
<1> QED BY <1>3, <1>4, <1>5, <1>6, <1>8, <1>9 DEF IInv

\* An append was answered, or failed.
LEMMA AppendedKeeps == ASSUME IInv, Appended PROVE IInv'
<1> DEFINE c == request[session].case
<1>1. /\ pc = "appending" /\ UNCHANGED serverRest
      /\ UNCHANGED <<request, binding, configId, up, managed, results, ended, session, streamed>>
  BY DEF Appended
<1>2. /\ published = "none" /\ managed = up /\ session \in Sessions
      /\ session = Streaming <=> ended = "open"
      /\ session # Streaming => session = Compatibility /\ ended \in {"done", "aborted"}
      /\ ended = "done" => up = {}
  BY <1>1, WhileOpen DEF Open
<1>3. /\ Executed' = Executed /\ request[session].op = "append" /\ c \in Executed
  BY <1>1, <1>2 DEF IInv, SendInv, ServerInv, SessionInv, AppendInv, Executed
<1>4. CASE broken' = TRUE /\ sent' = sent /\ media' = media /\ session # Streaming /\ Conclude("no")
  <2>1. ended # "open" /\ pc \in Open
    BY <1>1, <1>2, <1>4 DEF Open
  <2> QED BY <1>1, <1>4, <2>1, ConcludeKeeps
<1>5. ASSUME pc' = IF session = Streaming THEN "test" ELSE "sending", published' = published,
             broken' \in BOOLEAN, media' \subseteq Executed, sent' \subseteq Executed
      PROVE  TypeInv' /\ ServerInv' /\ PublishedIsRecorded' /\ ClientInv' /\ UpInv'
  <2>1. pc' \in {"test", "sending"}
    BY <1>5
  <2>2. TypeInv'
    BY <1>1, <1>3, <1>5, <2>1 DEF IInv, TypeInv, Positions, serverRest
  <2>3. ServerInv' /\ PublishedIsRecorded'
    BY <1>1, <1>2, <1>5, SameServer DEF IInv, PublishedIsRecorded
  <2>4. ClientInv'
    <3>1. session = Streaming => /\ request[Compatibility] = NoRequest
                                 /\ Unrecorded(runs[Compatibility], {})'
      BY <1>1 DEF IInv, ClientInv, Unrecorded, serverRest
    <3>2. streamed => session = Streaming
      BY DEF IInv, ClientInv
    <3> QED BY <1>1, <1>2, <1>5, <3>1, <3>2
            DEF ClientInv, Before, Open, Streaming, Compatibility
  <2>5. UpInv'
    BY <1>1, <1>2, <1>5, <2>1 DEF UpInv, StartedServicesStopped
  <2> QED BY <2>2, <2>3, <2>4, <2>5
<1>6. CASE /\ broken' = TRUE /\ sent' = sent /\ media' = media /\ session = Streaming
           /\ pc' = "test" /\ published' = published
  <2>1. TypeInv' /\ ServerInv' /\ PublishedIsRecorded' /\ ClientInv' /\ UpInv'
    BY <1>5, <1>6 DEF IInv, TypeInv
  <2>2. VideoKeptUntilStored'
    BY <1>1, <1>2, <1>6, SameVideos DEF IInv
  <2>3. ~Clean'
    BY <1>6 DEF Clean
  <2>4. SendInv' /\ CompleteInv'
    BY <1>1, <1>6, <2>3 DEF IInv, SendInv, CompleteInv, serverRest
  <2> QED BY <2>1, <2>2, <2>4 DEF IInv
<1>7. CASE /\ Answered /\ sent' = sent \union {c} /\ media' = Released(c)
           /\ pc' = IF session = Streaming THEN "test" ELSE "sending"
           /\ UNCHANGED <<broken, published>>
  <2>1. /\ TypeInv' /\ ServerInv' /\ PublishedIsRecorded' /\ ClientInv' /\ UpInv'
    <3>1. media' \subseteq Executed /\ sent' \subseteq Executed /\ broken' \in BOOLEAN
      BY <1>3, <1>7 DEF IInv, TypeInv, Released
    <3> QED BY <1>5, <1>7, <3>1
  <2>2. \/ c \in dropped
        \/ /\ runs[session].results[c] = results[c]
           /\ request[session].url = "blob" => runs[session].evidence[c] = "blob"
    BY <1>2, <1>3, <1>7 DEF IInv, ServerInv, SessionInv, AppendInv, Answered
  <2>3. VideoKeptUntilStored'
    <3> SUFFICES ASSUME NEW d \in Executed \ (media' \union dropped), results[d] # "SKIPPED"
                 PROVE  \E k \in Sessions : runs[k].evidence[d] = "blob"
      BY <1>1, <1>3 DEF VideoKeptUntilStored, serverRest
    <3>1. CASE d \in media
      BY <1>2, <1>7, <2>2, <3>1 DEF Released
    <3>2. CASE d \notin media
      BY <1>2, <3>2 DEF IInv, VideoKeptUntilStored
    <3> QED BY <3>1, <3>2
  <2>4. SendInv'
    <3>1. /\ Unrecorded(runs[session], sent \union {c})
          /\ \A d \in sent \ dropped : runs[session].results[d] = results[d]
          /\ request[session].stage = "ok"
      BY <1>1, <1>7 DEF IInv, SendInv, Answered
    <3>2. Unrecorded(runs[session], sent)'
      BY <1>1, <1>7, <3>1 DEF Unrecorded, serverRest
    <3>3. \A d \in sent' \ dropped' : runs'[session'].results[d] = results'[d]
      BY <1>1, <1>7, <2>2, <3>1 DEF serverRest
    <3>4. pc' \notin {"importing", "beginning", "appending"}
      BY <1>7
    <3> QED BY <1>1, <1>3, <3>1, <3>2, <3>3, <3>4 DEF SendInv
  <2>5. CompleteInv'
    <3>1. session = Streaming => Executed \subseteq sent'
      BY <1>1, <1>7 DEF IInv, CompleteInv
    <3> QED BY <1>1, <1>3, <1>7, <3>1 DEF CompleteInv
  <2> QED BY <2>1, <2>3, <2>4, <2>5 DEF IInv
<1> QED BY <1>4, <1>6, <1>7 DEF Appended

-----------------------------------------------------------------------------
\* The services have been stopped: all that are known.
LEMMA StopServicesKeeps == ASSUME IInv, StopServices PROVE IInv'
<1>1. /\ pc = "stop" /\ UNCHANGED serverRest /\ up' = up \ managed /\ managed' = {}
      /\ pc' = IF ended = "done" THEN "finish" ELSE "over"
      /\ UNCHANGED <<request, binding, configId, results, media, ended, session, streamed, broken,
                     sent, published>>
  BY DEF StopServices, ingestVars, serverRest
<1>2. ended # "open" /\ (ended = "done" => session = Streaming)
  BY <1>1 DEF IInv, ClientInv
<1>3. \/ up' = {}
      \/ ended = "raised" /\ up' \subseteq Dependencies /\ NothingBegun'
  BY <1>1 DEF IInv, UpInv, NothingBegun, Executed
<1>4. TypeInv'
  <2>1. managed' \subseteq up' /\ up' \subseteq Services /\ pc' \in Positions
    BY <1>1 DEF IInv, TypeInv, Positions
  <2> QED BY <1>1, <2>1 DEF IInv, TypeInv, Executed, serverRest
<1>5. ServerInv'
  BY <1>1, SameServer DEF IInv
<1>6. VideoKeptUntilStored' /\ PublishedIsRecorded'
  BY <1>1 DEF IInv, VideoKeptUntilStored, PublishedIsRecorded, Executed, serverRest
<1>7. ClientInv'
  BY <1>1, <1>2 DEF IInv, ClientInv, Before, Open, Unrecorded, Streaming, Compatibility, serverRest
<1>8. UpInv'
  BY <1>1, <1>2, <1>3 DEF UpInv, StartedServicesStopped, NothingBegun
<1>9. Clean' => Clean
  BY <1>1, <1>2 DEF Clean, Streaming, Compatibility
<1>10. SendInv'
  BY <1>1, <1>9 DEF IInv, SendInv, Unrecorded, serverRest
<1>11. CompleteInv'
  <2>1. Clean' => Executed' \subseteq sent'
    BY <1>1, <1>9 DEF IInv, CompleteInv, Executed
  <2> QED BY <1>1, <2>1 DEF CompleteInv
<1> QED BY <1>4, <1>5, <1>6, <1>7, <1>8, <1>10, <1>11 DEF IInv

\* The end of the streaming session, or the second attempt.
LEMMA FinishKeeps == ASSUME IInv, Finish PROVE IInv'
<1>1. /\ pc = "finish" /\ UNCHANGED serverRest
      /\ UNCHANGED <<binding, configId, up, managed, results, media, ended, streamed>>
  BY DEF Finish
<1>2. /\ published = "none" /\ managed = up /\ session \in Sessions
      /\ ended = "done" \/ (ended = "aborted" /\ session = Compatibility)
      /\ ended = "done" => up = {}
      /\ streamed => session = Streaming
      /\ session = Streaming \/ session = Compatibility
  BY <1>1, TwoSessions DEF IInv, ClientInv, UpInv, TypeInv
<1>3. CASE /\ session = Streaming /\ ~streamed
           /\ OpenSession(Compatibility) /\ published' = published
  <2>1. /\ ServerInv' /\ SendInv' /\ CompleteInv'
        /\ request' \in [Sessions -> Request] /\ session' = Compatibility /\ pc' = "importing"
        /\ sent' = {} /\ broken' = FALSE
    BY <1>1, <1>3, TwoSessions, OpenOf
  <2>2. TypeInv'
    BY <1>1, <1>3, <2>1, TwoSessions DEF IInv, TypeInv, Executed, Positions, Waiting, serverRest
  <2>3. VideoKeptUntilStored' /\ PublishedIsRecorded'
    BY <1>1, <1>2, <1>3, SameVideos DEF IInv, PublishedIsRecorded
  <2>4. ended = "done"
    BY <1>2, <1>3 DEF Streaming, Compatibility
  <2>5. ClientInv' /\ UpInv'
    BY <1>1, <1>2, <1>3, <2>1, <2>4
       DEF ClientInv, UpInv, StartedServicesStopped, Before, Open, Streaming, Compatibility
  <2> QED BY <2>1, <2>2, <2>3, <2>5 DEF IInv
<1>4. CASE /\ session = Compatibility \/ streamed
           /\ ~broken
           /\ Send(session, "final", 0, "none") /\ pc' = "finalizing" /\ published' = published
           /\ UNCHANGED <<session, sent, broken>>
  <2>1. Clean
    BY <1>1, <1>4 DEF Clean
  <2>2. Executed \subseteq sent /\ request[session].op \in {"begin", "append"}
    BY <1>1, <2>1 DEF IInv, SendInv, CompleteInv
  <2>3. PlanImported
    BY <1>2, <2>2 DEF IInv, ServerInv, SessionInv, ImportInv
  <2>4. "none" \in Urls /\ 0 \in Cases \union {0}
    BY DEF Urls
  <2>5. ServerInv'
    BY <1>1, <1>2, <1>4, <2>3, <2>4, SendServer DEF IInv
  <2>6. /\ request' \in [Sessions -> Request] /\ request'[session].op = "final"
        /\ \A j \in Sessions \ {session} : request'[j] = request[j]
    BY <1>2, <1>4, <2>4, SendOf DEF IInv
  <2>7. TypeInv'
    BY <1>1, <1>4, <2>6 DEF IInv, TypeInv, Executed, Positions, Waiting, serverRest
  <2>8. VideoKeptUntilStored' /\ PublishedIsRecorded'
    BY <1>1, <1>2, <1>4, SameVideos DEF IInv, PublishedIsRecorded
  <2>9. ClientInv'
    <3>1. session = Streaming => /\ request'[Compatibility] = NoRequest
                                 /\ Unrecorded(runs[Compatibility], {})'
      BY <1>1, <2>6, TwoSessions
         DEF IInv, ClientInv, Unrecorded, Streaming, Compatibility, serverRest
    <3> QED BY <1>1, <1>2, <1>4, <3>1 DEF ClientInv, Before, Open
  <2>10. UpInv'
    BY <1>1, <1>2, <1>4 DEF UpInv, StartedServicesStopped
  <2>11. SendInv'
    <3>1. ~Clean'
      BY <1>4 DEF Clean
    <3> QED BY <1>1, <1>4, <3>1 DEF IInv, SendInv, serverRest
  <2>12. CompleteInv'
    BY <1>1, <1>4, <2>2, <2>6 DEF CompleteInv, Executed
  <2> QED BY <2>5, <2>7, <2>8, <2>9, <2>10, <2>11, <2>12 DEF IInv
<1>5. CASE Conclude("no") /\ UNCHANGED <<request, session, sent, broken>>
  <2>1. ended # "open" /\ broken' \in BOOLEAN
    BY <1>2, <1>5 DEF IInv, TypeInv
  <2> QED BY <1>1, <1>5, <2>1, ConcludeKeeps
<1> QED BY <1>3, <1>4, <1>5 DEF Finish

\* The last answer.
LEMMA FinalizedKeeps == ASSUME IInv, Finalized PROVE IInv'
<1>1. /\ pc = "finalizing" /\ UNCHANGED serverRest
      /\ UNCHANGED <<request, binding, configId, up, managed, results, ended, session, streamed,
                     broken, sent>>
  BY DEF Finalized
<1>2. ended # "open" /\ broken' \in BOOLEAN /\ Executed \subseteq sent
  BY <1>1 DEF IInv, ClientInv, CompleteInv, TypeInv
<1>3. CASE Conclude("yes") /\ media' = {}
  BY <1>1, <1>2, <1>3, ConcludeKeeps
<1>4. CASE Conclude("no") /\ media' = media
  BY <1>1, <1>2, <1>4, ConcludeKeeps
<1> QED BY <1>3, <1>4 DEF Finalized

\* The process is killed.
\* An error leaves the try: what is being published is given up.
LEMMA InterruptKeeps == ASSUME IInv, Interrupt PROVE IInv'
<1>1. /\ pc \in Open \union {"test", "finalizing"} /\ ended \in {"open", "aborted"}
      /\ pc' = "stop" /\ ended' = "raised" /\ UNCHANGED serverRest
      /\ UNCHANGED <<request, binding, configId, up, managed, results, media, session, streamed,
                     broken, sent, published>>
  BY DEF Interrupt, Raise, Open, ingestVars, serverRest
<1>2. managed = up /\ published = "none"
  BY <1>1 DEF IInv, ClientInv, UpInv, TypeInv, Open
<1>3. TypeInv'
  BY <1>1 DEF IInv, TypeInv, Executed, Positions, serverRest
<1>4. ServerInv' /\ VideoKeptUntilStored' /\ PublishedIsRecorded'
  BY <1>1, <1>2, SameServer, SameVideos DEF IInv, PublishedIsRecorded
<1>5. ClientInv'
  BY <1>1, <1>2 DEF IInv, ClientInv, Before, Open, Unrecorded, serverRest
<1>6. UpInv'
  BY <1>1, <1>2 DEF UpInv, StartedServicesStopped
<1>7. ~Clean'
  BY <1>1 DEF Clean
<1>8. SendInv' /\ CompleteInv'
  BY <1>1, <1>7 DEF IInv, SendInv, CompleteInv, serverRest
<1> QED BY <1>3, <1>4, <1>5, <1>6, <1>8 DEF IInv

LEMMA KillKeeps == ASSUME IInv, Kill PROVE IInv'
<1>1. /\ pc' = "killed" /\ UNCHANGED serverRest
      /\ binding' = [status |-> "none", project |-> "none"]
      /\ managed' = {} /\ sent' = {} /\ streamed' = FALSE /\ broken' = FALSE
      /\ UNCHANGED <<request, configId, up, results, media, ended, session, published>>
  BY DEF Kill, ingestVars, serverRest
<1>2. TypeInv'
  BY <1>1 DEF IInv, TypeInv, Executed, Positions, serverRest
<1>3. ServerInv'
  BY <1>1, SameServer DEF IInv
<1>4. VideoKeptUntilStored' /\ PublishedIsRecorded'
  BY <1>1 DEF IInv, VideoKeptUntilStored, PublishedIsRecorded, Executed, serverRest
<1>5. ClientInv' /\ UpInv'
  BY <1>1 DEF IInv, ClientInv, UpInv, StartedServicesStopped, Before, Open, Unrecorded, serverRest
<1>6. SendInv' /\ CompleteInv'
  BY <1>1 DEF SendInv, CompleteInv, Clean
<1> QED BY <1>2, <1>3, <1>4, <1>5, <1>6 DEF IInv

-----------------------------------------------------------------------------
LEMMA IInvInit == Init => IInv
<1> SUFFICES ASSUME Init PROVE IInv
  OBVIOUS
<1>1. /\ runs = [k \in Sessions |-> NoRun] /\ request = [k \in Sessions |-> NoRequest]
      /\ loaded = [k \in Sessions |-> NothingLoaded]
      /\ results = [c \in Cases |-> "none"] /\ Executed = {} /\ media = {} /\ sent = {}
      /\ pc = "bind" /\ ended = "open" /\ session = Streaming /\ published = "none"
      /\ streamed = FALSE /\ broken = FALSE /\ up = {} /\ managed = {}
      /\ Streaming \in Sessions
  BY TwoSessions DEF Init, IngestInit, Executed
<1>2. TypeInv
  <2>1. /\ caseRows \in [Cases -> {"absent", "ACTIVE", "STALE"}]
        /\ results \in [Cases -> Outcomes \union {"none"}]
    BY DEF Init, IngestInit
  <2>2. NoRequest \in Request
    BY DEF NoRequest, Request, Urls
  <2>3. /\ binding.project \in Projects \union {"none", "new"}
        /\ configId \in Projects \union {"none", "new"}
    BY DEF Init, Projects
  <2> QED BY <1>1, <2>1, <2>2, <2>3, NothingTyped DEF TypeInv, Positions
<1>3. ServerInv
  <2> SUFFICES ASSUME NEW k \in Sessions PROVE SessionInv(k)
    BY DEF ServerInv
  <2>1. runs[k] = NoRun /\ request[k] = NoRequest
    BY <1>1
  <2>2. CountsInv(runs[k])
    <3>1. Passing(runs[k]) = {} /\ Failing(runs[k]) = {}
      BY <2>1 DEF NoRun, Passing, Failing
    <3> QED BY <2>1, <3>1, FS_EmptySet DEF CountsInv, NoRun
  <2>3. AgreesInv(runs[k])
    BY <2>1 DEF AgreesInv, NoRun
  <2>4. LoadedInv(request[k], loaded[k], runs[k]) /\ AppendInv(request[k], runs[k])
        /\ ImportInv(request[k])
    BY <2>1 DEF LoadedInv, AppendInv, ImportInv, NoRequest
  <2> QED BY <2>2, <2>3, <2>4 DEF SessionInv
<1>4. ClientInv
  <2>1. \A k \in Sessions : request[k] = NoRequest /\ Unrecorded(runs[k], {})
    BY <1>1 DEF Unrecorded, NoRun
  <2> QED BY <1>1, <2>1, TwoSessions DEF ClientInv, Before, Open, Streaming, Compatibility
<1>5. UpInv
  BY <1>1 DEF UpInv, StartedServicesStopped
<1>6. SendInv /\ CompleteInv
  BY <1>1 DEF SendInv, CompleteInv, Clean
<1>7. PublishedIsRecorded /\ VideoKeptUntilStored
  BY <1>1 DEF PublishedIsRecorded, VideoKeptUntilStored
<1> QED BY <1>2, <1>3, <1>4, <1>5, <1>6, <1>7 DEF IInv

LEMMA IInvStep == IInv /\ [Next]_vars => IInv'
<1> SUFFICES ASSUME IInv, [Next]_vars PROVE IInv'
  OBVIOUS
<1>1. CASE ClientStep
  <2>1. CASE ResolveBinding
    BY <2>1, ResolveBindingKeeps
  <2>2. ASSUME NEW started \in SUBSET Dependencies, StartDependencies(started) PROVE IInv'
    BY <2>2, StartDependenciesKeeps
  <2>3. CASE StartTarget
    BY <2>3, StartTargetKeeps
  <2>4. CASE Provision
    BY <2>4, ProvisionKeeps
  <2>5. CASE Imported
    BY <2>5, ImportedKeeps
  <2>6. CASE Begun
    BY <2>6, BegunKeeps
  <2>7. ASSUME NEW outcome \in Outcomes, RunTest(outcome) PROVE IInv'
    BY <2>7, RunTestKeeps
  <2>8. CASE TestsDone
    BY <2>8, TestsDoneKeeps
  <2>9. CASE SendResult
    BY <2>9, SendResultKeeps
  <2>10. CASE AllSent
    BY <2>10, AllSentKeeps
  <2>11. CASE Appended
    BY <2>11, AppendedKeeps
  <2>12. CASE StopServices
    BY <2>12, StopServicesKeeps
  <2>13. CASE Finish
    BY <2>13, FinishKeeps
  <2>14. CASE Finalized
    BY <2>14, FinalizedKeeps
  <2> QED BY <1>1, <2>1, <2>2, <2>3, <2>4, <2>5, <2>6, <2>7, <2>8, <2>9, <2>10, <2>11, <2>12,
             <2>13, <2>14 DEF ClientStep
<1>2. CASE Kill
  BY <1>2, KillKeeps
<1>7. CASE Interrupt
  BY <1>7, InterruptKeeps
<1>3. ASSUME TypeInv', ServerInv', Serving PROVE IInv'
  BY <1>3, ServingKeeps DEF IInv
<1>4. ASSUME NEW k \in Sessions, Serve(k) \/ CancelRun(k) \/ Reconcile(k), UNCHANGED clientVars
      PROVE  IInv'
  <2>1. TypeInv' /\ ServerInv' /\ Serving
    BY <1>4, ImportCasesKeeps, CreateRunKeeps, LoadRunKeeps, WriteRunKeeps, FailKeeps, OthersKeep
       DEF Serve, IInv
  <2> QED BY <1>3, <2>1
<1>5. ASSUME NEW c \in Cases, DeleteCase(c), UNCHANGED clientVars PROVE IInv'
  <2>1. TypeInv' /\ ServerInv' /\ Serving
    BY <1>5, DeleteCaseKeeps DEF IInv
  <2> QED BY <1>3, <2>1
<1>6. CASE UNCHANGED vars
  <2>1. /\ UNCHANGED serverRest
        /\ UNCHANGED <<request, pc, binding, configId, up, managed, results, media, ended, session,
                       streamed, broken, sent, published>>
    BY <1>6 DEF vars, ingestVars, clientVars, serverRest
  <2>2. TypeInv'
    BY <2>1 DEF IInv, TypeInv, Executed, serverRest
  <2>3. ServerInv' /\ VideoKeptUntilStored' /\ PublishedIsRecorded'
    BY <2>1, SameServer
       DEF IInv, VideoKeptUntilStored, PublishedIsRecorded, Executed, serverRest
  <2>4. ClientInv' /\ UpInv'
    BY <2>1 DEF IInv, ClientInv, UpInv, StartedServicesStopped, NothingBegun, Unrecorded,
       Executed, serverRest
  <2>5. SendInv' /\ CompleteInv'
    BY <2>1 DEF IInv, SendInv, CompleteInv, Clean, Unrecorded, Executed, serverRest
  <2> QED BY <2>2, <2>3, <2>4, <2>5 DEF IInv
<1> QED BY <1>1, <1>2, <1>4, <1>5, <1>6, <1>7 DEF Next

LEMMA IInvHolds == Spec => []IInv
<1> QED BY IInvInit, IInvStep, PTL DEF Spec

-----------------------------------------------------------------------------
\* Every variable keeps its type, for any plan: among others no test has a
\* result that is not in the plan, and the finally block knows of no service
\* that was not started.
THEOREM LifecycleTypes == Spec => []LifecycleTypeOK
<1>1. IInv => LifecycleTypeOK
  BY DEF IInv, TypeInv, LifecycleTypeOK, Run
<1> QED BY <1>1, IInvHolds, PTL

\* What the invocation calls published is on the server, with any number of
\* requests lost, refused or answered late, runs cancelled or taken for
\* orphans, and cases deleted: the client never finalizes a session one of
\* whose appends it has not seen committed.
THEOREM PublishedMeansRecorded == Spec => []PublishedIsRecorded
<1> QED BY IInvHolds, PTL DEF IInv

\* The counters of an ingested run are those of its recorded results, and its
\* PASS or FAIL agrees with them: they are kept up from a row read earlier,
\* which is sound because a session has one request at a time and sends a case
\* only to a run that has no result for it.
THEOREM VerdictsMatch == Spec => []VerdictMatchesResults
<1>1. ASSUME IInv PROVE VerdictMatchesResults
  <2> SUFFICES ASSUME NEW k \in Sessions
               PROVE  /\ runs[k].passed = Cardinality(Passing(runs[k]))
                      /\ runs[k].failed = Cardinality(Failing(runs[k]))
                      /\ runs[k].status = "PASS" => Failing(runs[k]) = {}
                      /\ runs[k].status = "FAIL" => Failing(runs[k]) # {}
    BY DEF VerdictMatchesResults, Passing, Failing
  <2>1. CountsInv(runs[k])
    BY <1>1 DEF IInv, ServerInv, SessionInv
  <2>2. IsFiniteSet(Failing(runs[k]))
    BY IngestAssumption, FS_Subset DEF Failing
  <2>3. Cardinality(Failing(runs[k])) = 0 <=> Failing(runs[k]) = {}
    BY <2>2, FS_EmptySet
  <2> QED BY <2>1, <2>3 DEF CountsInv
<1> QED BY <1>1, IInvHolds, PTL

\* The local video of a test is only given up for a stored one that a
\* committed result points to, or when the publish is complete.
THEOREM VideosKept == Spec => []VideoKeptUntilStored
<1> QED BY IInvHolds, PTL DEF IInv

\* Whatever raises, is interrupted, is aborted or fails to be published, the
\* invocation ends with every service stopped that it started, but for
\* dependencies of an invocation that ended in starting or awaiting them, before
\* any test and any request.
THEOREM ServicesStopped == Spec => []StartedServicesStopped
<1> QED BY IInvHolds, PTL DEF IInv, UpInv
=============================================================================
