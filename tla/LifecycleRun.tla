---------------------------- MODULE LifecycleRun ----------------------------
(***************************************************************************)
(* One invocation of the lifecycle: run_lifecycle (orchestrator.py) with   *)
(* its project binding (retest.py), the services it starts (process.py),   *)
(* the test runner (runner.py) and both publishing sessions (publish.py),  *)
(* against the server of IngestService.  The process may be killed, an     *)
(* answer may be lost or come after the client has stopped waiting.        *)
(***************************************************************************)
EXTENDS IngestService

CONSTANTS Dependencies   \* services the configuration has started first

ASSUME LifecycleAssumption == Sessions = {1, 2}

Streaming == 1       \* the session that publishes while the tests run
Compatibility == 2   \* the one that publishes everything at the end
Services == Dependencies \union {"target"}

VARIABLES
  pc,         \* where the invocation is
  binding,    \* [status, project] of resolve_binding
  configId,   \* publish.projectId in suitest.config.json
  up,         \* services whose process lives
  managed,    \* services the finally block knows of
  results,    \* slug -> outcome of its test, or "none"
  media,      \* slugs whose video is on the local disk
  ended,      \* how the tests ended: "open", "done", "aborted", "raised"
  session,    \* the session in use
  streamed,   \* the streaming session has started
  broken,     \* the session has a failure reason
  sent,       \* slugs whose result the session has published
  published   \* what the invocation reports: "none", "no" or "yes"
clientVars == <<pc, binding, configId, up, managed, results, media, ended,
                session, streamed, broken, sent, published>>
vars == <<ingestVars, clientVars>>

Waiting == {"importing", "beginning", "appending", "finalizing"}
Positions == Waiting \union {"bind", "deps", "target", "provision", "test",
                             "sending", "stop", "finish", "over", "killed"}

Init ==
  /\ IngestInit
  /\ pc = "bind"
  /\ binding = [status |-> "none", project |-> "none"]
  /\ configId \in {"none", "bound"}
  /\ up = {} /\ managed = {}
  /\ results = [c \in Cases |-> "none"] /\ media = {}
  /\ ended = "open"
  /\ session = Streaming /\ streamed = FALSE /\ broken = FALSE /\ sent = {}
  /\ published = "none"

\* The first of a set of cases in the order of the plan.
Foremost(S) == CHOOSE c \in S : \A d \in S : c <= d

Executed == {c \in Cases : results[c] # "none"}
LocalPass == ended = "done" /\ \A c \in Executed : results[c] \notin {"FAILED", "ERROR"}

-----------------------------------------------------------------------------
\* resolve_binding.  A binding that is missing ends the invocation.
Bound(status, project) ==
  /\ binding' = [status |-> status, project |-> project]
  /\ pc' = IF status = "missing" THEN "over" ELSE "deps"

ResolveBinding ==
  /\ pc = "bind"
  /\ \/ configId = "none" /\ Bound("first_setup", "new") /\ UNCHANGED configId
     \/ configId # "none" /\ Bound("unverified", configId) /\ UNCHANGED configId
     \/ /\ configId # "none" /\ Resolved.status = "valid"
        /\ Bound("valid", configId) /\ UNCHANGED configId
     \/ /\ configId # "none" /\ Resolved.status = "repaired"
        /\ \E p \in Resolved.ids : Bound("repaired", p) /\ configId' \in {configId, p}
     \/ /\ configId # "none" /\ Resolved.status = "missing"
        /\ \/ Bound("recreate_requested", "new")
           \/ Resolved.ids # {} /\ Bound("missing", "none")
        /\ UNCHANGED configId
  /\ UNCHANGED <<ingestVars, up, managed, results, media, ended, session,
                 streamed, broken, sent, published>>

-----------------------------------------------------------------------------
\* Sends a request of the current session.
Send(k, op, c, url) ==
  request' = [request EXCEPT ![k] =
    [op |-> op, stage |-> "sent",
     project |-> IF op = "import" THEN binding.project ELSE request[k].project,
     case |-> c, outcome |-> IF c = 0 THEN "none" ELSE results[c], url |-> url]]

\* PublishSession.start: the cases first, then the run.
OpenSession(k) ==
  /\ session' = k /\ sent' = {} /\ broken' = FALSE
  /\ Send(k, "import", 0, "none")
  /\ pc' = "importing"

\* _finish_fail: a run without results is published, inside the try.
Abort ==
  /\ ended' = "aborted"
  /\ OpenSession(Compatibility)

Raise == ended' = "raised" /\ pc' = "stop"

serverRest == <<projects, caseRows, runs, loaded, dropped>>

\* All dependencies are started together, each awaited by the thread that
\* started it; the managers are known to the finally block only when every
\* thread has returned.  A start may raise, and so may a wait, with everything
\* started: only some errors of the readiness probe are caught.
StartDependencies(started) ==
  /\ pc = "deps"
  /\ up' = up \union started
  /\ \/ /\ started = Dependencies
        /\ managed' = managed \union started
        /\ \/ /\ pc' = "target"
              /\ UNCHANGED <<request, session, sent, broken, ended>>
           \/ Dependencies # {} /\ Abort
     \/ /\ Dependencies # {}
        /\ Raise
        /\ UNCHANGED <<managed, request, session, sent, broken>>
  /\ UNCHANGED <<serverRest, binding, configId, results, media, streamed, published>>

\* The target is started, or not found, or never becomes ready; the wait for it
\* may raise.
StartTarget ==
  /\ pc = "target"
  /\ \/ Raise /\ UNCHANGED <<up, managed, request, session, sent, broken>>
     \/ /\ up' = up \union {"target"} /\ managed' = managed \union {"target"}
        /\ \/ pc' = "provision" /\ UNCHANGED <<request, session, sent, broken, ended>>
           \/ Abort
           \/ Raise /\ UNCHANGED <<request, session, sent, broken>>
  /\ UNCHANGED <<serverRest, binding, configId, results, media, streamed, published>>

\* Browser or HTTP client, then the crawl if discovery needs the live target;
\* the streaming session starts.
Provision ==
  /\ pc = "provision"
  /\ \/ Raise /\ UNCHANGED <<request, session, sent, broken>>
     \/ Abort
     \/ OpenSession(Streaming) /\ UNCHANGED ended
  /\ UNCHANGED <<serverRest, binding, configId, up, managed, results, media, streamed, published>>

-----------------------------------------------------------------------------
\* What follows a session's last answer or failure.
Conclude(verdict) ==
  /\ published' = verdict
  /\ pc' = IF ended = "aborted" THEN "stop" ELSE "over"

\* start() failed: the tests run unpublished and a second session tries again.
StartFails ==
  IF session = Streaming
  THEN pc' = "test" /\ UNCHANGED published
  ELSE Conclude("no")

\* A request may be answered.  Whatever its stage, the answer may also be an
\* error, be lost, or not come before the client's timeout.
Answered == request[session].stage = "ok"

Imported ==
  /\ pc = "importing"
  /\ \/ Answered /\ Send(session, "begin", 0, "none") /\ pc' = "beginning"
        /\ UNCHANGED published
     \/ StartFails /\ UNCHANGED request
  /\ UNCHANGED <<serverRest, binding, configId, up, managed, results, media,
                 ended, session, streamed, broken, sent>>

\* The run exists; a project found by its slug is pinned in the config file.
Begun ==
  /\ pc = "beginning"
  /\ \/ /\ Answered
        /\ streamed' = (streamed \/ session = Streaming)
        /\ configId' \in IF binding.project = "new"
                         THEN {configId, request[session].project} ELSE {configId}
        /\ pc' = IF session = Streaming THEN "test" ELSE "sending"
        /\ UNCHANGED published
     \/ StartFails /\ UNCHANGED <<streamed, configId>>
  /\ UNCHANGED <<serverRest, request, binding, up, managed, results, media,
                 ended, session, broken, sent>>

\* run_tests: the next test, its callback, or the end of the list.
RunTest(outcome) ==
  /\ pc = "test" /\ Executed # Plan
  /\ LET c == Foremost(Plan \ Executed)
     IN  /\ results' = [results EXCEPT ![c] = outcome]
         /\ media' = IF outcome = "SKIPPED" THEN media ELSE media \union {c}
  /\ pc' = IF streamed /\ ~broken THEN "sending" ELSE "test"
  /\ UNCHANGED <<ingestVars, binding, configId, up, managed, ended, session,
                 streamed, broken, sent, published>>

TestsDone ==
  /\ pc = "test" /\ Executed = Plan
  /\ ended' = "done" /\ pc' = "stop"
  /\ UNCHANGED <<ingestVars, binding, configId, up, managed, results, media,
                 session, streamed, broken, sent, published>>

\* append: the video is uploaded, or stays where it is and is named by a file
\* url; then the result is sent.
SendResult ==
  /\ pc = "sending" /\ Executed \ sent # {}
  /\ LET c == Foremost(Executed \ sent)
     IN  \E url \in IF c \in media THEN {"file", "blob"} ELSE {"none"} :
           Send(session, "append", c, url)
  /\ pc' = "appending"
  /\ UNCHANGED <<serverRest, binding, configId, up, managed, results, media,
                 ended, session, streamed, broken, sent, published>>

\* Mutant: an invocation with nothing to send never comes to the finalization.
AllSentSome ==
  /\ pc = "sending" /\ Executed \subseteq sent /\ sent # {}
  /\ pc' = "finish"
  /\ UNCHANGED <<ingestVars, binding, configId, up, managed, results, media,
                 ended, session, streamed, broken, sent, published>>

\* The compatibility session has published everything and finalizes.
AllSent ==
  /\ pc = "sending" /\ Executed \subseteq sent
  /\ pc' = "finish"
  /\ UNCHANGED <<ingestVars, binding, configId, up, managed, results, media,
                 ended, session, streamed, broken, sent, published>>

\* Mutant: the local video goes whatever the server answered.
ReleasedUnstored(c) == media \ {c}

\* _cleanup_committed_result: the video goes once it is stored and committed.
Released(c) == IF request[session].url = "blob" THEN media \ {c} ELSE media

Appended ==
  /\ pc = "appending"
  /\ \/ /\ Answered
        /\ sent' = sent \union {request[session].case}
        /\ media' = Released(request[session].case)
        /\ pc' = IF session = Streaming THEN "test" ELSE "sending"
        /\ UNCHANGED <<broken, published>>
     \/ /\ broken' = TRUE
        /\ IF session = Streaming THEN pc' = "test" /\ UNCHANGED published
                                  ELSE Conclude("no")
        /\ UNCHANGED <<sent, media>>
  /\ UNCHANGED <<serverRest, request, binding, configId, up, managed, results,
                 ended, session, streamed>>

-----------------------------------------------------------------------------
\* Mutant: the dependencies are left running.
StopServicesTargetOnly ==
  /\ pc = "stop"
  /\ up' = up \ {"target"} /\ managed' = {}
  /\ pc' = IF ended = "done" THEN "finish" ELSE "over"
  /\ UNCHANGED <<ingestVars, binding, configId, results, media, ended, session,
                 streamed, broken, sent, published>>

\* The finally block; then the report, and the end of the streaming session or
\* the second attempt.
StopServices ==
  /\ pc = "stop"
  /\ up' = up \ managed /\ managed' = {}
  /\ pc' = IF ended = "done" THEN "finish" ELSE "over"
  /\ UNCHANGED <<ingestVars, binding, configId, results, media, ended, session,
                 streamed, broken, sent, published>>

\* Mutant: the session is finished although results were not sent.
FinishAnyway ==
  /\ pc = "finish"
  /\ \/ /\ session = Streaming /\ ~streamed
        /\ OpenSession(Compatibility) /\ UNCHANGED published
     \/ /\ session = Compatibility \/ streamed
        /\ Send(session, "final", 0, "none") /\ pc' = "finalizing"
        /\ UNCHANGED <<session, sent, broken, published>>
  /\ UNCHANGED <<serverRest, binding, configId, up, managed, results, media,
                 ended, streamed>>

\* finish: nothing is finalized once an append has failed, and a coverage file
\* that cannot be uploaded counts as a failure.
Finish ==
  /\ pc = "finish"
  /\ \/ /\ session = Streaming /\ ~streamed
        /\ OpenSession(Compatibility) /\ UNCHANGED published
     \/ /\ session = Compatibility \/ streamed
        /\ ~broken
        /\ \/ Send(session, "final", 0, "none") /\ pc' = "finalizing" /\ UNCHANGED published
           \/ Conclude("no") /\ UNCHANGED request
        /\ UNCHANGED <<session, sent, broken>>
     \/ /\ streamed /\ broken
        /\ Conclude("no")
        /\ UNCHANGED <<request, session, sent, broken>>
  /\ UNCHANGED <<serverRest, binding, configId, up, managed, results, media,
                 ended, streamed>>

\* The last answer; cleanup_transient_media removes every video that is left.
Finalized ==
  /\ pc = "finalizing"
  /\ \/ Answered /\ Conclude("yes") /\ media' = {}
     \/ Conclude("no") /\ UNCHANGED media
  /\ UNCHANGED <<serverRest, request, binding, configId, up, managed, results,
                 ended, session, streamed, broken, sent>>

\* An error that nothing inside the try catches, a Ctrl-C among them, while a
\* session publishes or the tests run: the finally block is next.
Interrupt ==
  /\ pc \in {"importing", "beginning", "test", "sending", "appending", "finalizing"}
  /\ ended \in {"open", "aborted"}
  /\ Raise
  /\ UNCHANGED <<ingestVars, binding, configId, up, managed, results, media,
                 session, streamed, broken, sent, published>>

\* The process dies with its memory; services, videos and requests stay.
Kill ==
  /\ pc \notin {"over", "killed"}
  /\ pc' = "killed"
  /\ binding' = [status |-> "none", project |-> "none"]
  /\ managed' = {} /\ sent' = {} /\ streamed' = FALSE /\ broken' = FALSE
  /\ UNCHANGED <<ingestVars, configId, up, results, media, ended, session, published>>

-----------------------------------------------------------------------------
ClientStep ==
  \/ ResolveBinding
  \/ \E started \in SUBSET Dependencies : StartDependencies(started)
  \/ StartTarget \/ Provision \/ Imported \/ Begun
  \/ \E outcome \in Outcomes : RunTest(outcome)
  \/ TestsDone \/ SendResult \/ AllSent \/ Appended
  \/ StopServices \/ Finish \/ Finalized

Next ==
  \/ ClientStep \/ Interrupt \/ Kill
  \/ \E k \in Sessions : (Serve(k) \/ CancelRun(k) \/ Reconcile(k)) /\ UNCHANGED clientVars
  \/ \E c \in Cases : DeleteCase(c) /\ UNCHANGED clientVars

Spec == Init /\ [][Next]_vars

\* The client's waits end (timeouts), and a run that is still RUNNING is looked
\* at in the end.  Nothing is assumed of the server's answers.
LiveSpec == /\ Spec /\ WF_vars(ClientStep)
            /\ \A k \in Sessions : WF_vars(Reconcile(k) /\ UNCHANGED clientVars)

-----------------------------------------------------------------------------
\* Every variable keeps its type.
LifecycleTypeOK ==
  /\ pc \in Positions /\ ended \in {"open", "done", "aborted", "raised"}
  /\ managed \subseteq up /\ up \subseteq Services
  /\ media \subseteq Executed /\ Executed \subseteq Plan /\ sent \subseteq Executed
  /\ session \in Sessions /\ published \in {"none", "no", "yes"}
  /\ caseRows \in [Cases -> {"absent", "ACTIVE", "STALE"}]
  /\ \A k \in Sessions :
        /\ runs[k].status \in RunStatuses
        /\ \A c \in Cases : /\ runs[k].results[c] \in Outcomes \union {"none"}
                            /\ runs[k].evidence[c] \in Urls

\* What the invocation calls published is on the server: every result it has, of
\* a case that was not deleted meanwhile, is recorded in the run it names (an
\* append that failed, or was refused by a finalized run, is never passed over).
PublishedIsRecorded ==
  published = "yes" =>
    \A c \in Executed \ dropped : runs[session].results[c] = results[c]

\* The counters of an ingested run are those of its recorded results, and its
\* PASS or FAIL agrees with them, whoever else touched the run.
VerdictMatchesResults ==
  \A k \in Sessions :
    LET passing == {c \in Cases : runs[k].results[c] = "PASSED"}
        failing == {c \in Cases : runs[k].results[c] \notin {"none", "PASSED"}}
    IN  /\ runs[k].passed = Cardinality(passing)
        /\ runs[k].failed = Cardinality(failing)
        /\ runs[k].status = "PASS" => failing = {}
        /\ runs[k].status = "FAIL" => failing # {}

\* Before the publish is complete, the local video of a test is only given up
\* for a stored one that a committed result points to.
VideoKeptUntilStored ==
  published # "yes" =>
    \A c \in Executed \ (media \union dropped) :
      results[c] # "SKIPPED" => \E k \in Sessions : runs[k].evidence[c] = "blob"

\* An invocation that ends, whatever was aborted, raised, interrupted or failed
\* to be published, has stopped what it started.  The one exception is a raise
\* out of the start of the dependencies or out of the wait for them: nothing
\* else has begun by then, and the dependencies that were started live on.
StartedServicesStopped ==
  pc = "over" /\ up # {} =>
    /\ ended = "raised" /\ up \subseteq Dependencies
    /\ Executed = {} /\ \A k \in Sessions : request[k] = NoRequest

\* The invocation ends, and no run it created stays RUNNING for ever, although
\* the client may have gone and a late request may write RUNNING again.
RunsOfLifecycleSettle ==
  /\ <>(pc \in {"over", "killed"})
  /\ \A k \in Sessions : <>[](runs[k].status # OpenStatus)

-----------------------------------------------------------------------------
\* "so the caller can mark the run failed": an invocation that gave up before
\* its tests does not leave a PASS on the server.
AbortedRunIsNotPassed ==
  ended = "aborted" /\ published = "yes" => runs[session].status # "PASS"

\* "A finalized run is immutable": a request does not change a run that is not
\* RUNNING.
FinalizedRunImmutable ==
  [][\A k \in Sessions : runs[k].status \notin {"none", OpenStatus} => runs'[k] = runs[k]]_vars

\* "Case-first, per-test publisher backed by one durable Suitest run".
OneRunPerInvocation ==
  Cardinality({k \in Sessions : runs[k].status # "none"}) <= 1

\* "Drop only evidence whose blob URL and result row are both durable".
OnlyDurableEvidenceDropped ==
  \A c \in Executed \ media :
    results[c] # "SKIPPED" => \E k \in Sessions : runs[k].evidence[c] = "blob"

\* The server's verdict on what was published is the local one.
VerdictsAgree ==
  published = "yes" /\ ended = "done" => (LocalPass <=> runs[session].status = "PASS")
=============================================================================
