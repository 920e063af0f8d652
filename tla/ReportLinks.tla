----------------------------- MODULE ReportLinks -----------------------------
(***************************************************************************)
(* What becomes of a report's link: the report page (loadReport in         *)
(* src/lib/aeo/report.ts, src/app/report/[publicId]/page.tsx), the views,  *)
(* booking clicks and waitlist sign-ups that are recorded against its run  *)
(* (report-views.ts, booking.ts, monitor.ts), and the admin who starts a   *)
(* re-run or deletes a request (admin.ts) while the retention sweep erases *)
(* names (retention.ts).                                                   *)
(*                                                                         *)
(* A public id and its run are one number, and runs are numbered in the    *)
(* order they were made.  Requests are attached to them one by one         *)
(* (attachToRun, requests.ts): SnapshotRequests says when two requests     *)
(* share a question set, and here either may be so.                        *)
(* Every await of a page is an action of its own; a worker's whole attempt *)
(* is one (RunQueue), and so are an email (ReportEmails) and a transaction *)
(* (SnapshotRequests shows where deleteRequest and createRerun may race).  *)
(***************************************************************************)
EXTENDS Naturals, FiniteSets

CONSTANTS
  Requests,   \* numbered in created_at order
  MaxRuns,    \* bound: how many runs are ever started
  MaxMarks,   \* bound: how many kinds of marks all runs together get
  Visitors

LinkConstants == Requests \subseteq Nat \ {0} /\ MaxRuns \in Nat \ {0} /\ MaxMarks \in Nat

VARIABLES
  run,       \* the status of every run, "none" before and "deleted" after its row
  request,   \* aeo_request
  recheck,   \* aeo_recheck: the run of a request's re-check, or 0
  mark,      \* report_view_count, aeo_booking_click, aeo_monitor_interest, by run
  page,      \* what each visitor's request to the server has read
  mailed,    \* history: the run whose link a request's report email carried, or 0
  used,      \* history: the requests that were ever linked to a run
  latecomers \* history: the requests that joined a run after a re-run took
             \* away a request whose email shows it

vars == <<run, request, recheck, mark, page, mailed, used, latecomers>>

Runs == 1..MaxRuns
RunStatus == {"none", "queued", "done", "failed", "deleted"}
RequestRow == [run: 0..MaxRuns, source: {"form", "outbound"}, erased: BOOLEAN, deleted: BOOLEAN]
MarkKinds == {"view", "book", "click", "waitlist"}

\* loaded: what the run row said; source: that of its oldest request; answers:
\* they were found; cut: the run was deleted since the row was read.
NoPage == [pc |-> "closed", run |-> 0, loaded |-> "none", source |-> "none",
           answers |-> FALSE, cut |-> FALSE]

Exists(r) == run[r] \in {"queued", "done", "failed"}
Linked(r) == {q \in Requests : ~request[q].deleted /\ request[q].run = r}
Oldest(qs) == CHOOSE q \in qs : \A p \in qs : q <= p
Unused == {r \in Runs : run[r] = "none"}
NextRun == Oldest(Unused)
Newest(rs) == CHOOSE r \in rs : \A s \in rs : s <= r

Init ==
  /\ run = [r \in Runs |-> "none"]
  /\ request \in [Requests -> [run: {0}, source: {"form", "outbound"}, erased: {FALSE}, deleted: {FALSE}]]
  /\ recheck = [q \in Requests |-> 0]
  /\ mark = [r \in Runs |-> {}]
  /\ page = [v \in Visitors |-> NoPage]
  /\ mailed = [q \in Requests |-> 0]
  /\ used = [r \in Runs |-> {}]
  /\ latecomers = {}
-----------------------------------------------------------------------------
(* attachToRun: a link is opened for the first time, or a prospect's snapshot *)
(* is started from the dashboard *)

\* What is queued, or done within REUSE_DAYS.
Reusable(since) == {r \in Runs : run[r] = "queued" \/ (run[r] = "done" /\ r >= since)}

Attach(q, r) ==
  /\ request' = [request EXCEPT ![q].run = r]
  /\ used' = [used EXCEPT ![r] = @ \cup {q}]
  /\ latecomers' = IF \E p \in Requests : mailed[p] = r /\ request[p].run # r THEN latecomers \cup {q} ELSE latecomers
  /\ UNCHANGED <<recheck, mark, page, mailed>>

Unattached(q) == request[q].run = 0 /\ ~request[q].deleted /\ ~request[q].erased

\* The newest of them, when it asked the same questions and credits its sites.
JoinRun(q) ==
  /\ Unattached(q)
  /\ \E since \in 1..MaxRuns + 1 : Reusable(since) # {} /\ Attach(q, Newest(Reusable(since)))
  /\ UNCHANGED run

StartRun(q) ==
  /\ Unattached(q) /\ Unused # {}
  /\ run' = [run EXCEPT ![NextRun] = "queued"]
  /\ Attach(q, NextRun)
-----------------------------------------------------------------------------
(* The worker, the sweeps and the admin *)

\* firstRequest, and Job::normalize, which refuses a job whose client has no name.
CanBeAnswered(r) == Linked(r) # {} /\ ~request[Oldest(Linked(r))].erased

FinishRun(r) ==
  /\ run[r] = "queued"
  /\ \E s \in {"done", "failed"} :
       /\ s = "done" => CanBeAnswered(r)
       /\ run' = [run EXCEPT ![r] = s]
  /\ UNCHANGED <<request, recheck, mark, page, mailed, used, latecomers>>

\* sendReportEmails, whose window is over long before retention begins.
SendReport(q) ==
  LET r == request[q].run IN
  /\ ~request[q].deleted /\ ~request[q].erased /\ request[q].source = "form" /\ mailed[q] = 0
  /\ r # 0 /\ run[r] = "done"
  /\ mailed' = [mailed EXCEPT ![q] = r]
  /\ UNCHANGED <<run, request, recheck, mark, page, used, latecomers>>

\* startDueRechecks: a run that no request is linked to.
StartRecheck(q) ==
  /\ ~request[q].deleted /\ request[q].source = "form" /\ recheck[q] = 0 /\ Unused # {}
  /\ request[q].run # 0 /\ run[request[q].run] = "done"
  /\ run' = [run EXCEPT ![NextRun] = "queued"]
  /\ recheck' = [recheck EXCEPT ![q] = NextRun]
  /\ used' = [used EXCEPT ![NextRun] = {q}]
  /\ UNCHANGED <<request, mark, page, mailed, latecomers>>

\* sweepExpiredContactDetails: of those that are old enough and not won.
Erase ==
  /\ \E qs \in SUBSET {q \in Requests : ~request[q].erased} :
       /\ qs # {}
       /\ request' = [q \in Requests |-> [request[q] EXCEPT !.erased = @ \/ q \in qs]]
  /\ UNCHANGED <<run, recheck, mark, page, mailed, used, latecomers>>

CreateRerun(r) ==
  /\ Exists(r) /\ Unused # {}
  /\ run' = [run EXCEPT ![NextRun] = "queued"]
  /\ request' = [q \in Requests |-> IF q \in Linked(r) THEN [request[q] EXCEPT !.run = NextRun] ELSE request[q]]
  /\ used' = [used EXCEPT ![NextRun] = Linked(r)]
  /\ UNCHANGED <<recheck, mark, page, mailed, latecomers>>

\* deleteRequest.  Mutant: the run goes with the first of its requests.
NobodyLeftOf(r, q) == TRUE
NobodyLeft(r, q) == Linked(r) = {q}
DeleteRequest(q) ==
  LET r == request[q].run
      gone == {s \in Runs \cap {r} : NobodyLeft(s, q)}
  IN
  /\ ~request[q].deleted
  /\ request' = [request EXCEPT ![q] = [@ EXCEPT !.deleted = TRUE]]
  /\ recheck' = [p \in Requests |-> IF p = q \/ recheck[p] \in gone THEN 0 ELSE recheck[p]]
  /\ run' = [s \in Runs |-> IF s \in gone THEN "deleted" ELSE run[s]]
  /\ mark' = [s \in Runs |-> IF s \in gone THEN {} ELSE mark[s]]
  /\ page' = [v \in Visitors |-> [page[v] EXCEPT !.cut = @ \/ page[v].run \in gone]]
  /\ UNCHANGED <<mailed, used, latecomers>>
-----------------------------------------------------------------------------
(* loadReport and the report page *)

Close(v) ==
  /\ page[v].pc # "closed" /\ page' = [page EXCEPT ![v] = NoPage]
  /\ UNCHANGED <<run, request, recheck, mark, mailed, used, latecomers>>

\* The run row; an unknown id is not found.
OpenReport(v) ==
  /\ page[v].pc = "closed"
  /\ \E r \in Runs : /\ Exists(r)
                     /\ page' = [page EXCEPT ![v] = [NoPage EXCEPT !.pc = "request", !.run = r, !.loaded = run[r]]]
  /\ UNCHANGED <<run, request, recheck, mark, mailed, used, latecomers>>

\* A report that is not finished is shown as such, without answers.
ReadRequest(v) ==
  LET qs == Linked(page[v].run) IN
  /\ page[v].pc = "request"
  /\ page' = [page EXCEPT ![v] = [@ EXCEPT
       !.pc = IF page[v].loaded = "done" THEN "results" ELSE "shown",
       !.source = IF qs = {} THEN "none" ELSE request[Oldest(qs)].source]]
  /\ UNCHANGED <<run, request, recheck, mark, mailed, used, latecomers>>

ReadResults(v) ==
  /\ page[v].pc = "results"
  /\ page' = [page EXCEPT ![v] = [@ EXCEPT !.pc = "shown", !.answers = run[page[v].run] = "done"]]
  /\ UNCHANGED <<run, request, recheck, mark, mailed, used, latecomers>>
-----------------------------------------------------------------------------
(* What visitors do with it *)

Marked == UNION {{r} \X mark[r] : r \in Runs}
Mark(r, kind) ==
  /\ Cardinality(Marked) < MaxMarks
  /\ mark' = [mark EXCEPT ![r] = @ \cup {kind}]
  /\ UNCHANGED <<run, request, recheck, page, mailed, used, latecomers>>

\* recordReportView, recordBookingClick, recordMonitorClick: from a finished report.
Showing(v) == page[v].pc = "shown" /\ page[v].loaded = "done"
RecordReportView(v) == Showing(v) /\ run[page[v].run] = "done" /\ Mark(page[v].run, "view")
RecordBookingClick(v) == Showing(v) /\ Exists(page[v].run) /\ Mark(page[v].run, "book")
RecordMonitorClick(v) ==
  Showing(v) /\ page[v].source = "form" /\ Exists(page[v].run) /\ Mark(page[v].run, "click")

\* REACHABLE_REQUEST: the oldest of them, erased or not.
Reachable(r) ==
  {q \in Requests : ~request[q].deleted /\ request[q].source = "form" /\ r \in {request[q].run, recheck[q]}}
MonitorPageState(r) ==
  IF ~Exists(r) \/ Reachable(r) = {} THEN "none"
  ELSE IF "waitlist" \in mark[r] THEN "joined"
  ELSE IF request[Oldest(Reachable(r))].erased THEN "erased"
  ELSE "open"

\* joinMonitorWaitlist: the page state, then the insert and the answer.
AskToJoin(v) ==
  LET state == MonitorPageState(page[v].run) IN
  /\ Showing(v) /\ Cardinality(Marked) < MaxMarks
  /\ page' = [page EXCEPT ![v].pc = CASE state = "joined" -> "joined" [] state = "open" -> "insert" [] OTHER -> "refused"]
  /\ UNCHANGED <<run, request, recheck, mark, mailed, used, latecomers>>

InsertWaitlist(v) ==
  LET r == page[v].run IN
  /\ page[v].pc = "insert"
  /\ page' = [page EXCEPT ![v].pc = "joined"]
  /\ mark' = IF Exists(r) THEN [mark EXCEPT ![r] = @ \cup {"waitlist"}] ELSE mark
  /\ UNCHANGED <<run, request, recheck, mailed, used, latecomers>>

Next ==
  \/ \E r \in Runs : FinishRun(r) \/ CreateRerun(r)
  \/ \E q \in Requests : JoinRun(q) \/ StartRun(q)
  \/ \E q \in Requests : SendReport(q) \/ StartRecheck(q) \/ DeleteRequest(q)
  \/ Erase
  \/ \E v \in Visitors :
       \/ OpenReport(v) \/ ReadRequest(v) \/ ReadResults(v) \/ Close(v)
       \/ RecordReportView(v) \/ RecordBookingClick(v) \/ RecordMonitorClick(v)
       \/ AskToJoin(v) \/ InsertWaitlist(v)

Spec == Init /\ [][Next]_vars
-----------------------------------------------------------------------------
(* Properties *)

TypeOK ==
  /\ run \in [Runs -> RunStatus]
  /\ request \in [Requests -> RequestRow]
  /\ recheck \in [Requests -> 0..MaxRuns]
  /\ mark \in [Runs -> SUBSET MarkKinds]
  /\ \A v \in Visitors : page[v].pc \in {"closed", "request", "results", "shown", "insert", "joined", "refused"}
  /\ mailed \in [Requests -> 0..MaxRuns]
  /\ used \in [Runs -> SUBSET Requests]
  /\ latecomers \subseteq Requests

\* A link that was emailed shows a finished report until the person's request is
\* deleted, whatever is re-run, erased or deleted meanwhile, unless a re-run has
\* moved the request to another run and a request that joined the old one after
\* that is deleted, which takes the old run with it (retention.ts:11-12,
\* admin.ts:234-235, 247-252, 282).
TakenByALateOne(r) == \E p \in latecomers : request[p].deleted /\ request[p].run = r
EmailedLinksWork ==
  \A q \in Requests : mailed[q] # 0 /\ ~request[q].deleted =>
    \/ run[mailed[q]] = "done"
    \/ request[q].run # mailed[q] /\ TakenByALateOne(mailed[q])

\* A page that shows a finished report shows its answers, unless its run is
\* deleted while it is loaded (report.ts:262-330).
PagesAreWhole ==
  \A v \in Visitors : page[v].pc = "shown" /\ page[v].loaded = "done" => page[v].answers \/ page[v].cut

\* Whoever is told to be on the waitlist is on it, unless the report is deleted
\* at the same time (monitor.ts:82).
JoinersAreListed ==
  \A v \in Visitors : page[v].pc = "joined" => "waitlist" \in mark[page[v].run] \/ page[v].cut

\* What a report's link says and promises holds.
LinksAreHonest == EmailedLinksWork /\ PagesAreWhole /\ JoinersAreListed

\* retention.ts:14: "Deletion on request is separate and removes everything".
DeletionRemovesEverything ==
  \A r \in Runs : used[r] # {} /\ (\A q \in used[r] : request[q].deleted) => ~Exists(r)
=============================================================================
