---------------------------- MODULE ReportEmails ----------------------------
(***************************************************************************)
(* The report-ready emails: sendPendingReportEmails (src/lib/aeo/          *)
(* notify.ts), called by every worker at the top of its loop, and sendEmail*)
(* (src/lib/email/provider.ts), whose answer it acts on.                   *)
(*                                                                         *)
(* A sweep reads the due requests, claims each with a conditional update,  *)
(* sends, and marks the request.  One statement, or one call of the        *)
(* provider, is one action.  report_email_attempted_at is modelled by the  *)
(* whole minutes since, which is all the backoff asks of it; beyond        *)
(* MaxAttempts minutes they make no difference any more.                   *)
(***************************************************************************)
EXTENDS Naturals, FiniteSets

CONSTANTS
  Requests,     \* verified requests of the public form
  Workers,
  MaxAttempts,  \* REPORT_EMAIL_MAX_ATTEMPTS
  MaxCrashes,   \* bound on crashes over a behaviour
  MaxReruns,    \* bound on re-runs over a behaviour
  Faults        \* which faults the environment may inject

\* "lost": the provider accepts an email and its answer does not arrive.
\* "dberror": the update that marks the request fails.
\* "slow": a call of the provider may take longer than a minute.
AllFaults == {"lost", "dberror", "slow"}

ASSUME AttemptsAssumption == MaxAttempts \in Nat \ {0}
ASSUME BoundsAssumption == MaxCrashes \in Nat /\ MaxReruns \in Nat
ASSUME RequestsAssumption == "none" \notin Requests
ASSUME FaultsAssumption == Faults \subseteq AllFaults

VARIABLES
  mail,     \* the email columns of each request, and its run's status
  sweeper,  \* each worker's position in the sweep and its local variables
  hist,     \* per request: emails delivered, and reasons for sending again
  bound     \* how many crashes and re-runs happened

vars == <<mail, sweeper, hist, bound>>

Settled == MaxAttempts + 1    \* minutes after which every backoff is over

MailRow == [done: BOOLEAN, recent: BOOLEAN, exists: BOOLEAN,
            attempts: 0..MaxAttempts, minutes: 0..Settled, emailed: BOOLEAN]

DueRow == [request: Requests, attempts: 0..MaxAttempts]

SweeperRow == [pc: {"top", "claim", "send", "mark"}, due: SUBSET DueRow,
               request: Requests \cup {"none"}]

AtTop == [pc |-> "top", due |-> {}, request |-> "none"]

Init ==
  /\ mail = [q \in Requests |-> [done |-> FALSE, recent |-> TRUE, exists |-> TRUE,
                                 attempts |-> 0, minutes |-> Settled, emailed |-> FALSE]]
  /\ sweeper = [w \in Workers |-> AtTop]
  /\ hist = [q \in Requests |-> [delivered |-> 0, excused |-> 0]]
  /\ bound = [crashes |-> 0, reruns |-> 0]
-----------------------------------------------------------------------------
(* The sweep *)

At(w, pc) == sweeper[w].pc = pc

\* Mutant: the interval counts the wrong way.
NeverBackedOff(q) == mail[q].attempts > mail[q].minutes
BackedOff(q) == mail[q].attempts < mail[q].minutes

\* The where clause of the first statement.
Due(q) ==
  /\ mail[q].exists /\ mail[q].done /\ mail[q].recent /\ ~mail[q].emailed
  /\ mail[q].attempts < MaxAttempts
  /\ BackedOff(q)

ReadDue(w) ==
  /\ At(w, "top")
  /\ LET due == {[request |-> q, attempts |-> mail[q].attempts] : q \in {x \in Requests : Due(x)}}
     IN  due # {} /\ sweeper' = [sweeper EXCEPT ![w] = [AtTop EXCEPT !.pc = "claim", !.due = due]]
  /\ UNCHANGED <<mail, hist, bound>>

\* Mutant: claims whatever the attempts are by now.
ClaimsBlindly(d) == mail[d.request].exists /\ ~mail[d.request].emailed /\ mail[d.request].attempts < MaxAttempts

\* The where clause of the claim.
Claims(d) ==
  /\ mail[d.request].exists /\ ~mail[d.request].emailed
  /\ mail[d.request].attempts = d.attempts

\* The next due row is claimed or, when the update finds no row, skipped.  The
\* order of the rows is by verified_at, which no property depends on.
Claim(w) ==
  /\ At(w, "claim")
  /\ \E d \in sweeper[w].due :
       IF Claims(d)
         THEN /\ mail' = [mail EXCEPT ![d.request].attempts = @ + 1, ![d.request].minutes = 0]
              /\ sweeper' = [sweeper EXCEPT ![w].pc = "send", ![w].due = @ \ {d},
                                            ![w].request = d.request]
         ELSE /\ sweeper' = [sweeper EXCEPT ![w].due = @ \ {d}]
              /\ UNCHANGED mail
  /\ UNCHANGED <<hist, bound>>

SweepEnds(w) ==
  /\ At(w, "claim") /\ sweeper[w].due = {}
  /\ sweeper' = [sweeper EXCEPT ![w] = AtTop]
  /\ UNCHANGED <<mail, hist, bound>>

\* Mutant: the row of the last iteration stays.
NextRowKeepsRequest(w) == [sweeper EXCEPT ![w].pc = "claim"]
NextRow(w) == [sweeper EXCEPT ![w].pc = "claim", ![w].request = "none"]

\* The provider accepts the email and says so.
SendAccepted(w) ==
  /\ At(w, "send")
  /\ hist' = [hist EXCEPT ![sweeper[w].request].delivered = @ + 1]
  /\ sweeper' = [sweeper EXCEPT ![w].pc = "mark"]
  /\ UNCHANGED <<mail, bound>>

\* sendEmail returns sent: false; the request is left for a later sweep.
SendRefused(w) ==
  /\ At(w, "send")
  /\ sweeper' = NextRow(w)
  /\ UNCHANGED <<mail, hist, bound>>

\* The provider accepts the email but fetch throws: sent is false.
AnswerLost(w) ==
  /\ "lost" \in Faults /\ At(w, "send")
  /\ hist' = [hist EXCEPT ![sweeper[w].request].delivered = @ + 1,
                          ![sweeper[w].request].excused = @ + 1]
  /\ sweeper' = NextRow(w)
  /\ UNCHANGED <<mail, bound>>

Marked(q) == [mail EXCEPT ![q].emailed = TRUE]

Mark(w) ==
  /\ At(w, "mark")
  /\ mail' = Marked(sweeper[w].request)
  /\ sweeper' = NextRow(w)
  /\ UNCHANGED <<hist, bound>>

\* The update throws out of the sweep; sweepReportEmails catches it.
MarkFails(w) ==
  /\ "dberror" \in Faults /\ At(w, "mark")
  /\ hist' = [hist EXCEPT ![sweeper[w].request].excused = @ + 1]
  /\ sweeper' = [sweeper EXCEPT ![w] = AtTop]
  /\ UNCHANGED <<mail, bound>>

\* The process dies and is started again.
Crash(w) ==
  /\ bound.crashes < MaxCrashes /\ sweeper[w] # AtTop
  /\ bound' = [bound EXCEPT !.crashes = @ + 1]
  /\ hist' = IF At(w, "mark") THEN [hist EXCEPT ![sweeper[w].request].excused = @ + 1] ELSE hist
  /\ sweeper' = [sweeper EXCEPT ![w] = AtTop]
  /\ UNCHANGED mail
-----------------------------------------------------------------------------
(* The rest of the system *)

\* A minute passes: nobody is inside a call, unless calls may be slow.
Tick ==
  /\ \A w \in Workers : "slow" \in Faults \/ sweeper[w].pc \notin {"send", "mark"}
  /\ \E q \in Requests : mail[q].minutes < Settled
  /\ mail' = [q \in Requests |-> [mail[q] EXCEPT !.minutes = IF @ < Settled THEN @ + 1 ELSE @]]
  /\ UNCHANGED <<sweeper, hist, bound>>

RunDone(q) ==
  /\ ~mail[q].done
  /\ mail' = [mail EXCEPT ![q].done = TRUE]
  /\ UNCHANGED <<sweeper, hist, bound>>

\* createRerun points the request at a run that is not done.
Rerun(q) ==
  /\ mail[q].done /\ mail[q].exists /\ bound.reruns < MaxReruns
  /\ mail' = [mail EXCEPT ![q].done = FALSE]
  /\ bound' = [bound EXCEPT !.reruns = @ + 1]
  /\ UNCHANGED <<sweeper, hist>>

\* REPORT_EMAIL_WINDOW_DAYS pass since verified_at.
WindowCloses(q) ==
  /\ mail[q].recent
  /\ mail' = [mail EXCEPT ![q].recent = FALSE]
  /\ UNCHANGED <<sweeper, hist, bound>>

\* deleteRequest
Delete(q) ==
  /\ mail[q].exists
  /\ mail' = [mail EXCEPT ![q].exists = FALSE]
  /\ UNCHANGED <<sweeper, hist, bound>>
-----------------------------------------------------------------------------
Respond(w) == SendAccepted(w) \/ SendRefused(w) \/ AnswerLost(w)
Sweep(w) == ReadDue(w) \/ Claim(w) \/ SweepEnds(w) \/ Respond(w) \/ Mark(w) \/ MarkFails(w)

Next ==
  \/ \E w \in Workers : Sweep(w) \/ Crash(w)
  \/ \E q \in Requests : RunDone(q) \/ Rerun(q) \/ WindowCloses(q) \/ Delete(q)
  \/ Tick

Spec == Init /\ [][Next]_vars

\* The loop keeps sweeping, calls end, runs end and time passes.
FairSpec ==
  /\ Spec
  /\ \A w \in Workers : WF_vars(Sweep(w))
  /\ \A q \in Requests : WF_vars(RunDone(q))
  /\ WF_vars(Tick)
-----------------------------------------------------------------------------
(* Properties *)

TypeOK ==
  /\ mail \in [Requests -> MailRow]
  /\ sweeper \in [Workers -> SweeperRow]
  /\ hist \in [Requests -> [delivered: 0..MaxAttempts, excused: 0..MaxAttempts]]
  /\ bound \in [crashes: 0..MaxCrashes, reruns: 0..MaxReruns]
  /\ \A w \in Workers : sweeper[w].request \in Requests <=> sweeper[w].pc \in {"send", "mark"}

\* Two workers never send the same email: a request is in the hands of one of
\* them at a time, from its claim to its mark (notify.ts:24-26).
OneSender ==
  \A v, w \in Workers :
    sweeper[v].request = sweeper[w].request /\ sweeper[v].request # "none" => v = w

\* A report is emailed again only when the worker could not know that the
\* first one went out: the answer was lost, or the mark was (notify.ts:21-26).
\* A marked request was emailed and nobody is about to email it again, re-runs
\* of its snapshot included (admin.ts:257-261).
OnlyExcusedTwice == \A q \in Requests : hist[q].delivered <= 1 + hist[q].excused
MarkedIsFinal ==
  \A q \in Requests : mail[q].emailed =>
    /\ hist[q].delivered > 0
    /\ \A w \in Workers : sweeper[w].request # q
NoUnexcusedDuplicate == OnlyExcusedTwice /\ MarkedIsFinal

\* No request is forgotten: the report of a request is emailed, or every
\* attempt used, unless the window closes or the request goes
\* (worker/index.ts:16-17, notify.ts:9-11).
EveryReportIsEmailed ==
  \A q \in Requests :
    <>(\/ mail[q].emailed \/ mail[q].attempts = MaxAttempts
       \/ ~mail[q].recent \/ ~mail[q].exists)
=============================================================================
