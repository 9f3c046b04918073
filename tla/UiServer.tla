------------------------------ MODULE UiServer ------------------------------
(***************************************************************************)
(* The web UI: one daemon thread per request, each of them a session of    *)
(* the run store, beside the command line's own sessions on the same file. *)
(*                                                                         *)
(* A browser asks for a page, or posts the form; the loading page it gets  *)
(* posts the same form to /api/diagnose, which collects, diagnoses, stores *)
(* and answers with the run's identifier.  The detail page and the text of *)
(* the escalation report read one run the same way and are one path here.  *)
(* The connection of a handler that raises is closed without an answer.    *)
(***************************************************************************)
EXTENDS Store, Ranking, Sequences

CONSTANTS
  Requests,     \* the sessions that are UI requests; the others are commands
  Forms,        \* the forms that are posted
  MaxHistory,   \* _MAX_HISTORY
  MaxClock      \* bounds the seconds that pass, on a current database

ASSUME UiAssumption ==
  Requests \subseteq Sessions /\ MaxHistory \in Nat \ {0} /\ MaxClock \in Nat

VARIABLES
  server,    \* "up", or "gone" after Ctrl-C
  request,   \* what each request asks for
  answer,    \* its status, and the runs it names
  clock,     \* wall-clock seconds, as the database records them
  stamps,    \* started_at of each session's run
  id,        \* the row's id; 0 while there is none
  since,     \* the runs acknowledged before a session opened the store; not if cold
  cold       \* the database was not current at first

uiVars == <<server, request, answer, clock, stamps, id, since, cold>>

Page(path, run) == [method |-> "GET", path |-> path, run |-> run]

Form(path, foreign, valid) ==
  [method |-> "POST", path |-> path, foreign |-> foreign, valid |-> valid]

ASSUME FormsAssumption ==
  Forms \subseteq {Form(path, foreign, valid) :
                     path \in {"/diagnose", "/api/diagnose", "/nowhere"},
                     foreign \in BOOLEAN, valid \in BOOLEAN}

\* The runs an answer names.
Named(r) == {answer[r].runs[i] : i \in DOMAIN answer[r].runs}

\* What a browser can follow a link to.
Known == UNION {Named(r) : r \in {q \in Requests : answer[q].status = "200"}}

Asks ==
  {Page(path, Nobody) : path \in {"/", "/nowhere"}}
    \cup {Page("/run", run) : run \in Known \cup {Nobody}}
    \cup Forms

UiInit ==
  /\ Init
  /\ cold = (db.meta # "current")
  /\ server = "up"
  /\ request = [r \in Requests |-> Page("not sent", Nobody)]
  /\ answer = [r \in Requests |-> [status |-> "none", runs |-> <<>>]]
  /\ clock = IF cold THEN MaxClock ELSE 0
  /\ stamps = [s \in Sessions |-> 0]
  /\ id = [s \in Sessions |-> 0]
  /\ since = [s \in Sessions |-> {}]

-----------------------------------------------------------------------------
\* What the store does for a session, seen from the rows it keeps

\* insert_run stamps the run before its INSERT may have to wait; the id comes
\* with the INSERT, in the order of the commits.
Stamp(s) ==
  /\ stamps' = IF pc'[s] = "body" /\ pc[s] # "body"
               THEN [stamps EXCEPT ![s] = clock] ELSE stamps
  /\ id' = IF s \in db'.rows \ db.rows
           THEN [id EXCEPT ![s] = Cardinality(db'.rows)] ELSE id
  /\ since' = IF pc[s] = "idle" /\ ~cold THEN [since EXCEPT ![s] = acked] ELSE since
  /\ UNCHANGED <<clock, cold>>

\* Mutant: runs of the same second come in any order, oldest first here.
Newer_by_second(a, b) ==
  \/ stamps[a] > stamps[b]
  \/ stamps[a] = stamps[b] /\ id[a] < id[b]

\* ORDER BY started_at DESC, id DESC
Newer(a, b) ==
  \/ stamps[a] > stamps[b]
  \/ stamps[a] = stamps[b] /\ id[a] > id[b]

\* fetch_recent
Recent ==
  LET all == Ranked(db.rows, {pair \in db.rows \X db.rows : Newer(pair[1], pair[2])})
  IN  IF Len(all) > MaxHistory THEN SubSeq(all, 1, MaxHistory) ELSE all

-----------------------------------------------------------------------------
\* do_GET and do_POST

Pending(r) == answer[r].status = "waiting"

Reply(r, status, runs) ==
  answer' = [answer EXCEPT ![r] = [status |-> status, runs |-> runs]]

Send(r) ==
  /\ server = "up"
  /\ answer[r].status = "none"
  /\ \E ask \in Asks : request' = [request EXCEPT ![r] = ask]
  /\ Reply(r, "waiting", <<>>)
  /\ UNCHANGED <<vars, server, clock, stamps, id, since, cold>>

\* Mutant: the origin is looked at on one of the two paths only.
Forbidden_on_form(ask) ==
  ask.method = "POST" /\ ask.foreign /\ ask.path = "/diagnose"

Forbidden(ask) == ask.method = "POST" /\ ask.foreign

Missing(ask) == ask.path = "/nowhere"

Rejected(ask) == ask.method = "POST" /\ ~ask.valid

\* A POST to /api/diagnose that runs a diagnosis.
Accepted(ask) ==
  /\ ask.path = "/api/diagnose"
  /\ ~Forbidden(ask) /\ ~Rejected(ask)

Reads(ask) == ask.method = "GET" /\ ~Missing(ask)

\* The answers that need neither probes nor store: a foreign origin, then an
\* unknown path, then a target that is missing or invalid; else the loading page.
AnswerAtOnce(r) ==
  LET ask == request[r] IN
  /\ Pending(r) /\ pc[r] = "idle"
  /\ ~Accepted(ask) /\ ~Reads(ask)
  /\ Reply(r, IF Forbidden(ask) THEN "403"
              ELSE IF Missing(ask) THEN "404"
              ELSE IF Rejected(ask) THEN "400" ELSE "200", <<>>)
  /\ UNCHANGED <<vars, server, request, clock, stamps, id, since, cold>>

\* collect_signals raises: a missing tool is told, anything else is not.
CollectFails(r) ==
  /\ Pending(r) /\ pc[r] = "idle" /\ Accepted(request[r])
  /\ \E status \in {"500", "dropped"} : Reply(r, status, <<>>)
  /\ UNCHANGED <<vars, server, request, clock, stamps, id, since, cold>>

\* The handler opens the store, after the collection if it runs one.
OpenStore(r) ==
  /\ Pending(r)
  /\ Accepted(request[r]) \/ Reads(request[r])
  /\ Connect(r)
  /\ Stamp(r)
  /\ UNCHANGED <<server, request, answer>>

\* One statement; a page that reads takes its rows here and is rendered after
\* the connection is closed.
StoreStep(r) ==
  LET ask == request[r] IN
  /\ Pending(r)
  /\ Step(r)
  /\ pc'[r] = "read" => ~Accepted(ask)
  /\ pc'[r] = "commit_run" => Accepted(ask)
  /\ Stamp(r)
  /\ IF pc'[r] = "read"
     THEN Reply(r, "waiting", IF ask.path = "/" THEN Recent
                              ELSE IF ask.run \in db.rows THEN <<ask.run>> ELSE <<>>)
     ELSE UNCHANGED answer
  /\ UNCHANGED <<server, request>>

StoreBreaks(r) ==
  /\ Pending(r)
  /\ Broken(r)
  /\ Stamp(r)
  /\ UNCHANGED <<server, request, answer>>

\* The exception leaves the handler: no answer.
Fail(r) ==
  /\ Pending(r) /\ pc[r] \in Failed
  /\ Reply(r, "dropped", <<>>)
  /\ UNCHANGED <<vars, server, request, clock, stamps, id, since, cold>>

\* Mutant: the answer is sent inside the with-block, before the commit.
Respond_early(r) ==
  /\ Pending(r) /\ pc[r] \in {"commit_run", "read"}
  /\ IF Accepted(request[r]) THEN Reply(r, "200", <<r>>)
     ELSE Reply(r, IF request[r].path = "/run" /\ answer[r].runs = <<>>
                   THEN "404" ELSE "200", answer[r].runs)
  /\ UNCHANGED <<vars, server, request, clock, stamps, id, since, cold>>

\* The answer after the with-block; a browser that has gone does not get it.
Respond(r) ==
  /\ Pending(r) /\ pc[r] \in {"returned", "read"}
  /\ \/ IF Accepted(request[r]) THEN Reply(r, "200", <<r>>)
        ELSE Reply(r, IF request[r].path = "/run" /\ answer[r].runs = <<>>
                      THEN "404" ELSE "200", answer[r].runs)
     \/ Reply(r, "dropped", <<>>)
  /\ UNCHANGED <<vars, server, request, clock, stamps, id, since, cold>>

Handle(r) ==
  \/ AnswerAtOnce(r) \/ CollectFails(r) \/ OpenStore(r)
  \/ StoreStep(r) \/ Fail(r) \/ Respond(r)

-----------------------------------------------------------------------------
\* The process, the other processes, and time

\* Ctrl-C ends serve_forever, and the interpreter does not wait for daemon
\* threads: whatever they were at is cut off.
Stop ==
  /\ server = "up"
  /\ server' = "gone"
  /\ pc' = [s \in Sessions |-> IF s \in Requests /\ pc[s] \in Open THEN "dead" ELSE pc[s]]
  /\ lock' = IF lock \in Requests THEN Nobody ELSE lock
  /\ answer' = [r \in Requests |-> IF Pending(r) THEN [status |-> "dropped", runs |-> <<>>]
                                                 ELSE answer[r]]
  /\ UNCHANGED <<alone, db, acked, request, clock, stamps, id, since, cold>>

\* A command of another process: diagnose, a poll of watch, or a history.
Command(s) ==
  /\ Connect(s) \/ Step(s) \/ Broken(s) \/ Crash(s)
  /\ Stamp(s)
  /\ UNCHANGED <<server, request, answer>>

Tick ==
  /\ clock < MaxClock
  /\ clock' = clock + 1
  /\ UNCHANGED <<vars, server, request, answer, stamps, id, since, cold>>

UiNext ==
  \/ \E r \in Requests : Send(r) \/ Handle(r) \/ StoreBreaks(r)
  \/ \E s \in Sessions \ Requests : Command(s)
  \/ Stop \/ Tick

UiSpec ==
  UiInit /\ [][UiNext]_<<vars, uiVars>>
    /\ \A r \in Requests : WF_<<vars, uiVars>>(Handle(r))

-----------------------------------------------------------------------------
\* Properties

\* A link the UI has shown leads somewhere: a run named by an answer, be it the
\* identifier the script redirects to or a line of the history, is found by
\* every later request, whatever the other sessions do (server.py:89-112,
\* 153-161, templates.py:399-411).
KnownRunIsFound ==
  \A r \in Requests :
     answer[r].status = "404" /\ request[r].path = "/run" /\ ~cold =>
        request[r].run = Nobody

\* The history page is newest first, and what it leaves out is older than what
\* it shows: if run b began after run a was acknowledged, and b was acknowledged
\* before the page was asked for, a page with a has b above it
\* (store/__init__.py:210-213, server.py:84-87).
HistoryNewestFirst ==
  \A r \in Requests : answer[r].status = "200" /\ request[r].path = "/" /\ ~cold =>
     LET page == answer[r].runs IN
     \A i \in 1..Len(page) : \A b \in since[r] :
        page[i] \in since[b] => \E j \in 1..(i - 1) : page[j] = b

\* An answer and the record agree: an identifier is given out only for a run on
\* record, a request answered with an error left none, and a run of the UI's on
\* record was asked for by a valid form that named no foreign origin: one of the UI's
\* own pages, or no browser's (server.py:68-82, 137-161).
AnswerMatchesRecord ==
  \A r \in Requests :
     /\ answer[r].status = "200" /\ ~cold => Named(r) \subseteq db.rows
     /\ answer[r].status \in {"400", "403", "404", "500"} => r \notin db.rows
     /\ r \in db.rows => Accepted(request[r]) /\ ~request[r].foreign

\* No request stays pending for ever, even if another process sits on the write
\* lock or the UI is stopped; only one that is to have the file to itself keeps the
\* requests away from it (store/__init__.py:108, server.py:164-165).
RequestEnds ==
  \A r \in Requests : []<>(~Pending(r) \/ \E s \in alone : pc[s] \in Open)
=============================================================================
