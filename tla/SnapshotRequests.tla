-------------------------- MODULE SnapshotRequests --------------------------
(***************************************************************************)
(* Snapshot requests and the runs they are pointed at: the emailed link    *)
(* (verifyRequest), the dashboard's prospect snapshot                      *)
(* (createProspectRequest), the reuse rule they share (attachToRun), and   *)
(* the admin's deletion (deleteRequest) and re-run (createRerun).          *)
(* src/lib/aeo/requests.ts, src/lib/aeo/admin.ts, src/lib/aeo/domain.ts.   *)
(*                                                                         *)
(* Every operation is a READ COMMITTED transaction: a statement sees what  *)
(* was committed when it started, and its own writes.  An action is one    *)
(* statement together with the code up to the next; request and run hold   *)
(* the committed rows and tx what each transaction has read, written and   *)
(* locked.  All requests are for one domain: the advisory lock, the reuse  *)
(* query and the row locks never relate two domains.                       *)
(***************************************************************************)
EXTENDS Naturals, FiniteSets

CONSTANTS
  Forms,       \* requests of the public form
  Prospects,   \* requests the dashboard creates for outbound
  Visitors,    \* connections that serve opened links
  Admins,      \* connections that serve the dashboard
  Panels,      \* question sets: canned slugs, or null for generated
  Sites,       \* the other sites a business may list
  PanelOf,     \* the question set a request asks for
  SitesOf,     \* the other sites a request lists
  RunIds,      \* ids for the rows of aeo_run
  MaxReruns,   \* bound on re-runs over a behaviour
  MaxTx,       \* bound on transactions that may insert a run
  Faults       \* {"abort"} where a connection may be lost

Requests == Forms \cup Prospects
Sessions == Visitors \cup Admins
None == 0

ASSUME RequestAssumption == Forms \cap Prospects = {} /\ Visitors \cap Admins = {}
ASSUME ChoiceAssumption ==
  /\ Panels # {} /\ PanelOf \in [Requests -> Panels]
  /\ SitesOf \in [Requests -> SUBSET Sites]
  /\ \A f \in Forms : SitesOf[f] = {}
ASSUME RunAssumption == RunIds \subseteq (Nat \ {None})
ASSUME BoundAssumption == MaxReruns \in Nat /\ MaxTx \in Nat
ASSUME FaultsAssumption == Faults \subseteq {"abort"}

VARIABLES
  request,  \* aeo_request
  run,      \* aeo_run
  tx,       \* each connection's open transaction
  clock,    \* transaction start times: created_at is now(), the start
  seen      \* observations no code reads: answers of links, re-runs, links ever made

vars == <<request, run, tx, clock, seen>>
-----------------------------------------------------------------------------
(* Types *)

RequestRow == [state: {"absent", "pending", "verified", "deleted"},
               run: RunIds \cup {None}, expired: BOOLEAN]

RunRow == [status: {"absent", "queued", "running", "done", "failed", "deleted"},
           panel: Panels, sites: SUBSET Sites, created: Nat, recent: BOOLEAN,
           rerun: BOOLEAN]

TxRow == [pc: {"idle", "locked", "chosen", "pointed", "erased", "spared", "condemned", "rerunning"},
          request: Requests \cup {None}, run: RunIds \cup {None},
          next: RunIds \cup {None}, start: Nat]

SeenRow == [answers: [Requests -> SUBSET (RunIds \cup {None})],
            asked: [RunIds -> SUBSET Requests],
            root: [RunIds -> RunIds \cup {None}],
            reruns: Nat]

Idle == [pc |-> "idle", request |-> None, run |-> None, next |-> None, start |-> 0]

NoRun == [status |-> "absent", panel |-> CHOOSE p \in Panels : TRUE, sites |-> {},
          created |-> 0, recent |-> TRUE, rerun |-> FALSE]

Init ==
  /\ request = [q \in Requests |-> [state |-> "absent", run |-> None, expired |-> FALSE]]
  /\ run = [r \in RunIds |-> NoRun]
  /\ tx = [s \in Sessions |-> Idle]
  /\ clock = 0
  /\ seen = [answers |-> [q \in Requests |-> {}], asked |-> [r \in RunIds |-> {}],
             root |-> [r \in RunIds |-> None], reruns |-> 0]
-----------------------------------------------------------------------------
(* What a transaction finds *)

Exists(r) == run[r].status \notin {"absent", "deleted"}
Linked(r) == {q \in Requests : request[q].run = r}

\* A row another transaction has locked FOR UPDATE, updated or deleted.
RowLocked(q) == \E s \in Sessions : tx[s].request = q

\* Ids of rows that are neither stored nor being inserted.
FreeIds == {r \in RunIds : run[r].status = "absent" /\ \A s \in Sessions : tx[s].next # r}

\* Mutant: no lock around the reuse decision.
NoAdvisoryLock == TRUE

\* pg_advisory_xact_lock on the domain, held until the transaction ends.
AdvisoryFree == \A s \in Sessions : tx[s].pc \notin {"chosen", "pointed"}

\* The runs the reuse query finds, and the newest of them.
Reusable(r) ==
  \/ run[r].status \in {"queued", "running"}
  \/ run[r].status = "done" /\ run[r].recent
IsLatest(r) == Reusable(r) /\ \A o \in RunIds : Reusable(o) => run[o].created <= run[r].created

CoversOtherDomains(r, q) == SitesOf[q] \subseteq run[r].sites
SameQuestionSet(r, q) == run[r].panel = PanelOf[q]
Existing(r, q) == IsLatest(r) /\ CoversOtherDomains(r, q) /\ SameQuestionSet(r, q)

NewRun(q, start) ==
  [status |-> "queued", panel |-> PanelOf[q], sites |-> SitesOf[q], created |-> start,
   recent |-> TRUE, rerun |-> FALSE]

\* Mutant: a re-run that forgets the other sites.
CopyWithoutSites(r, start) ==
  [run[r] EXCEPT !.status = "queued", !.created = start, !.recent = TRUE,
                 !.rerun = TRUE, !.sites = {}]
Copy(r, start) ==
  [run[r] EXCEPT !.status = "queued", !.created = start, !.recent = TRUE, !.rerun = TRUE]
-----------------------------------------------------------------------------
(* The public form and the emailed link *)

\* createRequest
Submit(f) ==
  /\ request[f].state = "absent"
  /\ request' = [request EXCEPT ![f].state = "pending"]
  /\ UNCHANGED <<run, tx, clock, seen>>

\* The link's 24 hours pass.
Expire(f) ==
  /\ request[f].state = "pending" /\ ~request[f].expired
  /\ request' = [request EXCEPT ![f].expired = TRUE]
  /\ UNCHANGED <<run, tx, clock, seen>>

\* verifyRequest on a request already verified answers with its run, or that
\* the link is invalid (None), and changes nothing.
OpenAgain(f) ==
  /\ request[f].state = "verified" /\ ~RowLocked(f)
  /\ seen' = [seen EXCEPT !.answers[f] = @ \cup {request[f].run}]
  /\ UNCHANGED <<request, run, tx, clock>>

\* Mutant: verifyRequest without its test of verifiedAt.
OpensAnyTime(f) == request[f].state \in {"pending", "verified"} /\ ~request[f].expired
Opens(f) == request[f].state = "pending" /\ ~request[f].expired

\* verifyRequest's first statement, FOR UPDATE, on a link worth a run.  A link
\* that is unknown or expired is answered so, and nothing changes.
Open(s, f) ==
  /\ tx[s].pc = "idle" /\ Opens(f) /\ ~RowLocked(f) /\ clock < MaxTx
  /\ clock' = clock + 1
  /\ tx' = [tx EXCEPT ![s] = [Idle EXCEPT !.pc = "locked", !.request = f, !.start = clock + 1]]
  /\ UNCHANGED <<request, run, seen>>

\* createProspectRequest inserts its request, invisible until it commits.
Prospect(s, p) ==
  /\ tx[s].pc = "idle" /\ request[p].state = "absent" /\ ~RowLocked(p) /\ clock < MaxTx
  /\ clock' = clock + 1
  /\ tx' = [tx EXCEPT ![s] = [Idle EXCEPT !.pc = "locked", !.request = p, !.start = clock + 1]]
  /\ UNCHANGED <<request, run, seen>>

\* attachToRun: the advisory lock, the reuse query and the insert.
Choose(s) ==
  LET q == tx[s].request IN
  /\ tx[s].pc = "locked" /\ AdvisoryFree
  /\ \/ \E r \in RunIds : Existing(r, q) /\ tx' = [tx EXCEPT ![s].pc = "chosen", ![s].run = r]
     \/ /\ \A r \in RunIds : ~Existing(r, q)
        /\ \E n \in FreeIds :
             tx' = [tx EXCEPT ![s].pc = "chosen", ![s].run = n, ![s].next = n]
  /\ UNCHANGED <<request, run, clock, seen>>

\* attachToRun's update of the request.  Its foreign key check locks the run
\* row FOR KEY SHARE, and fails, rolling everything back, when the row is gone.
Point(s) ==
  /\ tx[s].pc = "chosen"
  /\ tx' = [tx EXCEPT ![s] =
       IF run[@.run].status = "deleted" THEN Idle ELSE [@ EXCEPT !.pc = "pointed"]]
  /\ UNCHANGED <<request, run, clock, seen>>

CommitAttach(s) ==
  LET q == tx[s].request
      r == tx[s].run
  IN
  /\ tx[s].pc = "pointed"
  /\ request' = [request EXCEPT ![q].state = "verified", ![q].run = r]
  /\ run' = IF tx[s].next = r THEN [run EXCEPT ![r] = NewRun(q, tx[s].start)] ELSE run
  /\ seen' = [seen EXCEPT !.answers[q] = @ \cup {r}, !.asked[r] = @ \cup {q},
                          !.root[r] = IF tx[s].next = r THEN r ELSE @]
  /\ tx' = [tx EXCEPT ![s] = Idle]
  /\ UNCHANGED clock
-----------------------------------------------------------------------------
(* The dashboard *)

\* deleteRequest's first statement; without a run it ends there.
Erase(s, q) ==
  /\ tx[s].pc = "idle" /\ request[q].state \in {"pending", "verified"} /\ ~RowLocked(q)
  /\ IF request[q].run = None
       THEN request' = [request EXCEPT ![q].state = "deleted"] /\ UNCHANGED tx
       ELSE /\ tx' = [tx EXCEPT ![s] =
                 [Idle EXCEPT !.pc = "erased", !.request = q, !.run = request[q].run]]
            /\ UNCHANGED request
  /\ UNCHANGED <<run, clock, seen>>

\* Mutant: the row goes without its reference.
EraseRowKeepsRun(q) == [request EXCEPT ![q].state = "deleted"]
EraseRow(q) == [request EXCEPT ![q].state = "deleted", ![q].run = None]

\* Mutant: not exists without the row this transaction deleted.
StillUsedByItself(q, r) == Linked(r) # {}
StillUsed(q, r) == Linked(r) \ {q} # {}

\* deleteRequest's second statement evaluates not exists on its snapshot...
Decide(s) ==
  /\ tx[s].pc = "erased"
  /\ tx' = [tx EXCEPT ![s].pc =
       IF StillUsed(tx[s].request, tx[s].run) THEN "spared" ELSE "condemned"]
  /\ UNCHANGED <<request, run, clock, seen>>

\* ... and commits when another request still uses the run ...
CommitErase(s) ==
  /\ tx[s].pc = "spared"
  /\ request' = EraseRow(tx[s].request)
  /\ tx' = [tx EXCEPT ![s] = Idle]
  /\ UNCHANGED <<run, clock, seen>>

\* ... or waits for whoever holds the run row FOR KEY SHARE, deletes it, and
\* ON DELETE SET NULL clears run_id wherever it is set by then.
DeleteRun(s) ==
  LET q == tx[s].request
      r == tx[s].run
  IN
  /\ tx[s].pc = "condemned"
  /\ \A o \in Sessions : ~(tx[o].pc = "pointed" /\ tx[o].run = r)
  /\ \A o \in Linked(r) \ {q} : ~RowLocked(o)
  /\ request' = [o \in Requests |->
       IF o = q THEN EraseRow(q)[q]
       ELSE IF o \in Linked(r) THEN [request[o] EXCEPT !.run = None] ELSE request[o]]
  /\ run' = [run EXCEPT ![r].status = "deleted"]
  /\ tx' = [tx EXCEPT ![s] = Idle]
  /\ UNCHANGED <<clock, seen>>

\* createRerun reads the run, whatever its status, and inserts its successor.
Rerun(s, r) ==
  /\ tx[s].pc = "idle" /\ Exists(r) /\ seen.reruns < MaxReruns /\ clock < MaxTx
  /\ clock' = clock + 1
  /\ \E n \in FreeIds :
       tx' = [tx EXCEPT ![s] =
         [Idle EXCEPT !.pc = "rerunning", !.run = r, !.next = n, !.start = clock + 1]]
  /\ seen' = [seen EXCEPT !.reruns = @ + 1]
  /\ UNCHANGED <<request, run>>

\* createRerun moves the old run's requests and commits.
CommitRerun(s) ==
  LET r == tx[s].run
      n == tx[s].next
  IN
  /\ tx[s].pc = "rerunning"
  /\ \A q \in Linked(r) : ~RowLocked(q)
  /\ run' = [run EXCEPT ![n] = Copy(r, tx[s].start)]
  /\ request' = [q \in Requests |->
       IF q \in Linked(r) THEN [request[q] EXCEPT !.run = n] ELSE request[q]]
  /\ seen' = [seen EXCEPT !.asked[n] = Linked(r), !.root[n] = seen.root[r]]
  /\ tx' = [tx EXCEPT ![s] = Idle]
  /\ UNCHANGED clock

\* The connection is lost and Postgres rolls the transaction back.
Abort(s) ==
  /\ "abort" \in Faults /\ tx[s].pc # "idle"
  /\ tx' = [tx EXCEPT ![s] = Idle]
  /\ UNCHANGED <<request, run, clock, seen>>
-----------------------------------------------------------------------------
(* What the worker makes of a run (RunQueue), and time *)

SetStatus(r, from, to) ==
  /\ run[r].status = from
  /\ run' = [run EXCEPT ![r].status = to]
  /\ UNCHANGED <<request, tx, clock, seen>>

\* planRun starts from the run's first request...
Start(r) == Linked(r) # {} /\ SetStatus(r, "queued", "running")

\* ... and fails for good without one.
PlanFails(r) == Linked(r) = {} /\ SetStatus(r, "queued", "failed")
Finish(r) == SetStatus(r, "running", "done")
Fail(r) == SetStatus(r, "running", "failed")

\* REUSE_DAYS pass since created_at.
Age(r) ==
  /\ run[r].status = "done" /\ run[r].recent
  /\ run' = [run EXCEPT ![r].recent = FALSE]
  /\ UNCHANGED <<request, tx, clock, seen>>
-----------------------------------------------------------------------------
VisitorStep(s) == \E f \in Forms : Open(s, f)
AttachStep(s) == Choose(s) \/ Point(s) \/ CommitAttach(s)
AdminStep(s) ==
  \/ \E p \in Prospects : Prospect(s, p)
  \/ \E q \in Requests : Erase(s, q)
  \/ \E r \in RunIds : Rerun(s, r)
  \/ Decide(s) \/ CommitErase(s) \/ DeleteRun(s) \/ CommitRerun(s)
RunStep(r) == Start(r) \/ PlanFails(r) \/ Finish(r) \/ Fail(r) \/ Age(r)

Next ==
  \/ \E s \in Visitors : VisitorStep(s)
  \/ \E s \in Admins : AdminStep(s)
  \/ \E s \in Sessions : AttachStep(s) \/ Abort(s)
  \/ \E f \in Forms : Submit(f) \/ Expire(f) \/ OpenAgain(f)
  \/ \E r \in RunIds : RunStep(r)

Spec == Init /\ [][Next]_vars
-----------------------------------------------------------------------------
(* Properties *)

TypeOK ==
  /\ request \in [Requests -> RequestRow]
  /\ run \in [RunIds -> RunRow]
  /\ tx \in [Sessions -> TxRow]
  /\ clock \in 0..MaxTx
  /\ seen \in SeenRow
  /\ \A q \in Requests : request[q].run # None => request[q].state = "verified"

\* A verified request's report answers what it asked: the run it points at
\* used its question set and credits every other site it lists, whoever
\* created the run, whenever it was reused and however often it was re-run
\* (coversOtherDomains and sameQuestionSet, domain.ts:38-55).
ReportFitsTheRequest ==
  \A q \in Requests : request[q].run # None =>
    /\ Exists(request[q].run)
    /\ CoversOtherDomains(request[q].run, q)
    /\ SameQuestionSet(request[q].run, q)

\* The reuse query reads the newest run alone (requests.ts:100-101), so a run that
\* cannot stand in for this one's questions, once stored with as late a start,
\* hides it from every request that asks them.
Hidden(r) ==
  \E n \in RunIds :
    /\ run[n].status # "absent" /\ run[n].created >= run[r].created
    /\ run[n].panel # run[r].panel \/ ~(run[r].sites \subseteq run[n].sites)

\* Simultaneous visits never pay twice: two runs that asked the same questions
\* of the same sites are not both live, re-runs apart (requests.ts:68-72), unless
\* a run for other questions had come between them.
OneLiveRunPerQuestionSet ==
  \A r, o \in RunIds :
    /\ Reusable(r) /\ Reusable(o)
    /\ ~run[r].rerun /\ ~run[o].rerun
    /\ run[r].panel = run[o].panel /\ run[r].sites = run[o].sites
    => r = o \/ Hidden(r) \/ Hidden(o)

\* Opening a link again leads to the run the first visit was given, or to a
\* re-run of it (requests.ts:147-150).
SameRunEveryVisit ==
  \A q \in Requests : \A r, o \in seen.answers[q] \ {None} : seen.root[r] = seen.root[o]

\* A verified link still leads to a run (requests.ts:147-150).
LinkStaysValid == \A q \in Requests : None \notin seen.answers[q]

\* createRerun takes a run's requests away, whatever its status.
Replaced(r) ==
  \E n \in RunIds :
    run[n].rerun /\ seen.root[n] = seen.root[r] /\ run[n].created > run[r].created

\* The worker never claims a run without a request to plan it from: deletions
\* and aborted visits leave none behind (plan.ts:110-120).
QueuedRunsHaveRequests ==
  \A r \in RunIds : run[r].status = "queued" /\ ~run[r].rerun /\ ~Replaced(r) => Linked(r) # {}

\* When the last request that used a run is deleted the run is gone too, and
\* its results with it (admin.ts:234-237, retention.ts:13-14).
DeletionRemovesRuns ==
  \A r \in RunIds : Exists(r) /\ ~Replaced(r) /\ seen.asked[r] # {} =>
    \E q \in seen.asked[r] : request[q].state # "deleted"

\* Neither a run without its requests nor a request's run without it: what
\* deleting, re-running and losing a connection must not leave behind.
RunsFollowRequests == QueuedRunsHaveRequests /\ DeletionRemovesRuns
=============================================================================
