------------------------------ MODULE Rechecks ------------------------------
(***************************************************************************)
(* The 30-day re-checks: startDueRechecks, sendRecheckEmails and           *)
(* unsubscribeByToken (src/lib/aeo/recheck.ts), run by every worker at the *)
(* top of its loop, and what becomes of a re-check's run when a worker     *)
(* claims it (src/lib/aeo/plan.ts).                                        *)
(*                                                                         *)
(* One statement, one transaction's commit or one call of the provider is  *)
(* one action.  created_at is modelled by "today or earlier", all the      *)
(* ceiling asks of it; the email's backoff, the same as the report email's *)
(* (ReportEmails), by whether it is over.  Three fields are history: by,   *)
(* the worker that inserted a run; unheard, the attempts whose email went  *)
(* out and was not recorded for them; overtaken, those still under way     *)
(* when their backoff ended.                                               *)
(***************************************************************************)
EXTENDS Naturals, FiniteSets, FiniteSetsExt

CONSTANTS
  Leads,        \* verified requests of the public form
  Returning,    \* leads whose site somebody requests a snapshot of again
  Workers,
  Slots,        \* ids for the runs of re-checks and for the rows of aeo_recheck
  MaxPerDay,    \* recheckMaxPerDay
  MaxAttempts,  \* RECHECK_EMAIL_MAX_ATTEMPTS
  MaxNights,    \* bound on midnights
  Events        \* what else may happen

\* "lost": the provider accepts an email and its answer does not arrive.
\* "crash": a worker dies and is started again.
\* "panel": the panel fails a run for good.
\* "delete": the admin deletes a lead.
AllEvents == {"lost", "crash", "panel", "delete"}

ASSUME NumbersAssumption == MaxPerDay \in Nat /\ MaxAttempts \in Nat \ {0} /\ MaxNights \in Nat
ASSUME SetsAssumption ==
  /\ Returning \subseteq Leads /\ Events \subseteq AllEvents
  /\ IsFiniteSet(Leads) /\ IsFiniteSet(Slots) /\ "none" \notin Leads \cup Slots

VARIABLES
  lead,     \* aeo_request: what the queries ask of it
  run,      \* the rows of aeo_run that re-checks inserted
  recheck,  \* aeo_recheck: the row of slot i points at the run of slot i
  sweeper,  \* each worker's position in sweepRechecks and its local variables
  visitor,  \* the lead the unsubscribe page has found and not yet updated
  inbox,    \* the emails each lead received
  nights    \* midnights so far

vars == <<lead, run, recheck, sweeper, visitor, inbox, nights>>
-----------------------------------------------------------------------------
(* Types *)

LeadRow == [exists: BOOLEAN, old: BOOLEAN, consent: BOOLEAN,
            unsubscribed: BOOLEAN, erased: BOOLEAN]

RunRow == [status: {"absent", "queued", "done", "failed"},
           lead: Leads \cup {"none"}, linked: BOOLEAN, today: BOOLEAN,
           by: Workers \cup {"none"}]

\* A claim's random token is the row and the attempt it was made for; attempt 0
\* stands for null.
RecheckRow == [stored: BOOLEAN, attempts: 0..MaxAttempts, waited: BOOLEAN,
               token: 0..MaxAttempts, emailed: BOOLEAN,
               unheard: SUBSET (1..MaxAttempts), overtaken: SUBSET (1..MaxAttempts)]

Email == [slot: Slots, token: 1..MaxAttempts]

SweeperRow == [pc: {"top", "select", "start", "insert", "mails", "claim", "token", "send", "mark"},
               room: 0..MaxPerDay, due: SUBSET Leads, lead: Leads \cup {"none"},
               slot: Slots \cup {"none"}, add: BOOLEAN,
               rows: SUBSET [slot: Slots, attempts: 0..MaxAttempts], token: 0..MaxAttempts]

AtTop == [pc |-> "top", room |-> 0, due |-> {}, lead |-> "none", slot |-> "none",
          add |-> FALSE, rows |-> {}, token |-> 0]

Init ==
  /\ lead = [l \in Leads |-> [exists |-> TRUE, old |-> FALSE, consent |-> TRUE,
                              unsubscribed |-> FALSE, erased |-> FALSE]]
  /\ run = [i \in Slots |-> [status |-> "absent", lead |-> "none", linked |-> FALSE, today |-> FALSE,
                            by |-> "none"]]
  /\ recheck = [i \in Slots |-> [stored |-> FALSE, attempts |-> 0, waited |-> TRUE, token |-> 0,
                                 emailed |-> FALSE, unheard |-> {}, overtaken |-> {}]]
  /\ sweeper = [w \in Workers |-> AtTop]
  /\ visitor = "none"
  /\ inbox = [l \in Leads |-> {}]
  /\ nights = 0
-----------------------------------------------------------------------------
(* startDueRechecks *)

At(w, pc) == sweeper[w].pc = pc
Goto(w, pc) == sweeper' = [sweeper EXCEPT ![w].pc = pc]

RechecksToday == {i \in Slots : recheck[i].stored /\ run[i].today}

\* Mutant: one re-check more than there is room for.
RoomOffByOne == IF Cardinality(RechecksToday) > MaxPerDay THEN 0 ELSE MaxPerDay
Room == IF Cardinality(RechecksToday) >= MaxPerDay
          THEN 0 ELSE MaxPerDay - Cardinality(RechecksToday)

CountToday(w) ==
  /\ At(w, "top")
  /\ sweeper' = [sweeper EXCEPT ![w] =
       [AtTop EXCEPT !.room = Room, !.pc = IF Room = 0 THEN "mails" ELSE "select"]]
  /\ UNCHANGED <<lead, run, recheck, visitor, inbox, nights>>

\* Mutant: looks at today's re-checks only.
RecheckedToday(l) == \E i \in RechecksToday : run[i].lead = l
Rechecked(l) == \E i \in Slots : recheck[i].stored /\ run[i].lead = l

Due(l) ==
  /\ lead[l].exists /\ lead[l].consent /\ ~lead[l].unsubscribed /\ lead[l].old
  /\ ~Rechecked(l)

\* The oldest due leads, as many as there is room for.  Which leads are oldest
\* is left open.
SelectDue(w) ==
  LET due == {l \in Leads : Due(l)}
      size == IF Cardinality(due) < sweeper[w].room THEN Cardinality(due) ELSE sweeper[w].room
  IN
  /\ At(w, "select")
  /\ \E chosen \in kSubset(size, due) :
       sweeper' = [sweeper EXCEPT ![w].pc = "start", ![w].due = chosen]
  /\ UNCHANGED <<lead, run, recheck, visitor, inbox, nights>>

FreeSlots == {i \in Slots : run[i].status = "absent" /\ \A w \in Workers : sweeper[w].slot # i}

\* One lead's transaction up to its commit: the run, and the re-check unless
\* one is committed already.  Inserting it for a lead deleted since violates
\* the foreign key: the sweep ends there.
InsertOne(w) ==
  /\ At(w, "start")
  /\ \E l \in sweeper[w].due, i \in FreeSlots :
       sweeper' = [sweeper EXCEPT ![w] =
         IF lead[l].exists
           THEN [@ EXCEPT !.pc = "insert", !.due = sweeper[w].due \ {l}, !.lead = l, !.slot = i,
                          !.add = ~Rechecked(l)]
           ELSE AtTop]
  /\ UNCHANGED <<lead, run, recheck, visitor, inbox, nights>>

CommitOne(w) ==
  LET i == sweeper[w].slot IN
  /\ At(w, "insert")
  /\ run' = [run EXCEPT ![i] = [status |-> "queued", lead |-> sweeper[w].lead,
                                linked |-> FALSE, today |-> TRUE, by |-> w]]
  /\ recheck' = [recheck EXCEPT ![i].stored = sweeper[w].add]
  /\ sweeper' = [sweeper EXCEPT ![w] = [@ EXCEPT !.pc = "start", !.lead = "none", !.slot = "none",
                                                 !.add = FALSE]]
  /\ UNCHANGED <<lead, visitor, inbox, nights>>

AllStarted(w) ==
  /\ At(w, "start") /\ sweeper[w].due = {}
  /\ sweeper' = [sweeper EXCEPT ![w] = [AtTop EXCEPT !.pc = "mails"]]
  /\ UNCHANGED <<lead, run, recheck, visitor, inbox, nights>>
-----------------------------------------------------------------------------
(* sendRecheckEmails *)

\* Mutant: sends until it works.
DueWithoutLimit(i) ==
  /\ recheck[i].stored /\ ~recheck[i].emailed /\ run[i].status = "done"
  /\ ~lead[run[i].lead].unsubscribed /\ ~lead[run[i].lead].erased
  /\ recheck[i].waited
DueEmail(i) ==
  /\ recheck[i].stored /\ ~recheck[i].emailed /\ run[i].status = "done"
  /\ ~lead[run[i].lead].unsubscribed /\ ~lead[run[i].lead].erased
  /\ recheck[i].attempts < MaxAttempts /\ recheck[i].waited

SelectFinished(w) ==
  /\ At(w, "mails")
  /\ sweeper' = [sweeper EXCEPT ![w].pc = "claim",
       ![w].rows = {[slot |-> i, attempts |-> recheck[i].attempts] : i \in {j \in Slots : DueEmail(j)}}]
  /\ UNCHANGED <<lead, run, recheck, visitor, inbox, nights>>

\* Mutant: claims whatever the attempts are by now.
ClaimsBlindly(x) ==
  /\ recheck[x.slot].stored /\ ~recheck[x.slot].emailed
  /\ recheck[x.slot].attempts < MaxAttempts
Claims(x) ==
  /\ recheck[x.slot].stored /\ ~recheck[x.slot].emailed
  /\ recheck[x.slot].attempts = x.attempts

ClaimRow(w) ==
  /\ At(w, "claim")
  /\ \E x \in sweeper[w].rows :
       IF Claims(x)
         THEN /\ recheck' = [recheck EXCEPT ![x.slot].attempts = @ + 1, ![x.slot].waited = FALSE]
              /\ sweeper' = [sweeper EXCEPT ![w].pc = "token", ![w].rows = @ \ {x},
                   ![w].slot = x.slot, ![w].lead = run[x.slot].lead,
                   ![w].token = recheck[x.slot].attempts + 1]
         ELSE sweeper' = [sweeper EXCEPT ![w].rows = @ \ {x}] /\ UNCHANGED recheck
  /\ UNCHANGED <<lead, run, visitor, inbox, nights>>

MailsEnd(w) ==
  /\ At(w, "claim") /\ sweeper[w].rows = {}
  /\ sweeper' = [sweeper EXCEPT ![w] = AtTop]
  /\ UNCHANGED <<lead, run, recheck, visitor, inbox, nights>>

\* Mutant: the hash is never written.
WithoutToken(i, t) == recheck[i].token
WithToken(i, t) == t

SetToken(w) ==
  LET i == sweeper[w].slot IN
  /\ At(w, "token")
  /\ recheck' = IF recheck[i].stored
                  THEN [recheck EXCEPT ![i].token = WithToken(i, sweeper[w].token)] ELSE recheck
  /\ Goto(w, "send")
  /\ UNCHANGED <<lead, run, visitor, inbox, nights>>

NextRow(w) == sweeper' = [sweeper EXCEPT ![w] =
  [@ EXCEPT !.pc = "claim", !.slot = "none", !.lead = "none", !.token = 0]]

Deliver(w) ==
  inbox' = [inbox EXCEPT ![sweeper[w].lead] = @ \cup {[slot |-> sweeper[w].slot, token |-> sweeper[w].token]}]

SendAccepted(w) ==
  /\ At(w, "send") /\ Deliver(w) /\ Goto(w, "mark")
  /\ UNCHANGED <<lead, run, recheck, visitor, nights>>

SendRefused(w) ==
  /\ At(w, "send") /\ NextRow(w)
  /\ UNCHANGED <<lead, run, recheck, visitor, inbox, nights>>

\* The email is out and its row will not be marked for it.
Unheard(w) == recheck' = [recheck EXCEPT ![sweeper[w].slot].unheard = @ \cup {sweeper[w].token}]

AnswerLost(w) ==
  /\ "lost" \in Events /\ At(w, "send") /\ Deliver(w) /\ Unheard(w) /\ NextRow(w)
  /\ UNCHANGED <<lead, run, visitor, nights>>

Marked(i) == IF recheck[i].stored THEN [recheck EXCEPT ![i].emailed = TRUE] ELSE recheck

Mark(w) ==
  /\ At(w, "mark") /\ recheck' = Marked(sweeper[w].slot) /\ NextRow(w)
  /\ UNCHANGED <<lead, run, visitor, inbox, nights>>

\* The process dies: an open transaction is rolled back, a sent email is not
\* marked.
Crash(w) ==
  /\ "crash" \in Events /\ ~At(w, "top")
  /\ sweeper' = [sweeper EXCEPT ![w] = AtTop]
  /\ IF At(w, "mark") THEN Unheard(w) ELSE UNCHANGED recheck
  /\ UNCHANGED <<lead, run, visitor, inbox, nights>>
-----------------------------------------------------------------------------
(* unsubscribeByToken *)

\* The reader of email e opens its link; the page looks its token up.
OpenUnsubscribe(l, e) ==
  /\ visitor = "none" /\ e \in inbox[l]
  /\ recheck[e.slot].stored /\ recheck[e.slot].token = e.token
  /\ lead[l].exists /\ ~lead[l].unsubscribed
  /\ visitor' = l
  /\ UNCHANGED <<lead, run, recheck, sweeper, inbox, nights>>

Unsubscribe ==
  /\ visitor # "none"
  /\ lead' = IF lead[visitor].exists
               THEN [lead EXCEPT ![visitor].unsubscribed = TRUE, ![visitor].consent = FALSE]
               ELSE lead
  /\ visitor' = "none"
  /\ UNCHANGED <<run, recheck, sweeper, inbox, nights>>
-----------------------------------------------------------------------------
(* The rest of the system *)

Others == <<sweeper, visitor, inbox, nights>>

\* recheckDays pass since the first report was finished.
GrowOld(l) ==
  /\ ~lead[l].old /\ lead[l].exists
  /\ lead' = [lead EXCEPT ![l].old = TRUE]
  /\ UNCHANGED <<run, recheck, Others>>

\* sweepExpiredContactDetails
Erase(l) ==
  /\ lead[l].exists /\ lead[l].old /\ ~lead[l].erased
  /\ lead' = [lead EXCEPT ![l].erased = TRUE, ![l].consent = FALSE]
  /\ UNCHANGED <<run, recheck, Others>>

\* deleteRequest: the lead's re-checks go with it, their runs stay.  It waits
\* for a transaction whose foreign key check has locked the lead.
Delete(l) ==
  /\ "delete" \in Events /\ lead[l].exists
  /\ \A w \in Workers : ~(At(w, "insert") /\ sweeper[w].add /\ sweeper[w].lead = l)
  /\ lead' = [lead EXCEPT ![l].exists = FALSE]
  /\ recheck' = [i \in Slots |-> IF run[i].lead = l THEN [recheck[i] EXCEPT !.stored = FALSE]
                                 ELSE recheck[i]]
  /\ UNCHANGED <<run, Others>>

SetStatus(i, status) ==
  /\ run[i].status = "queued"
  /\ run' = [run EXCEPT ![i].status = status]
  /\ UNCHANGED <<lead, recheck, Others>>

\* attachToRun points a new request for the same site at the queued run.
Link(i) ==
  /\ run[i].status = "queued" /\ ~run[i].linked /\ run[i].lead \in Returning
  /\ run' = [run EXCEPT ![i].linked = TRUE]
  /\ UNCHANGED <<lead, recheck, Others>>

\* planRun: a run that no request points at fails for good.
PlanFails(i) == ~run[i].linked /\ SetStatus(i, "failed")
Measure(i) == run[i].linked /\ SetStatus(i, "done")
PanelFails(i) == "panel" \in Events /\ run[i].linked /\ SetStatus(i, "failed")

\* The backoff of a claimed email passes, whether or not its worker is done
\* with it: a send has no timeout.
Holding(n) == n.pc \in {"token", "send", "mark"}
HeldAttempts(i) == {sweeper[w].token : w \in {u \in Workers : Holding(sweeper[u]) /\ sweeper[u].slot = i}}
BackoffEnds(i) ==
  /\ ~recheck[i].waited
  /\ recheck' = [recheck EXCEPT ![i].waited = TRUE, ![i].overtaken = @ \cup HeldAttempts(i)]
  /\ UNCHANGED <<lead, run, Others>>

Midnight ==
  /\ nights < MaxNights
  /\ nights' = nights + 1
  /\ run' = [i \in Slots |-> [run[i] EXCEPT !.today = FALSE]]
  /\ UNCHANGED <<lead, recheck, sweeper, visitor, inbox>>
-----------------------------------------------------------------------------
StartDue(w) == CountToday(w) \/ SelectDue(w) \/ InsertOne(w) \/ CommitOne(w) \/ AllStarted(w)
SendEmails(w) ==
  \/ SelectFinished(w) \/ ClaimRow(w) \/ MailsEnd(w) \/ SetToken(w)
  \/ SendAccepted(w) \/ SendRefused(w) \/ AnswerLost(w) \/ Mark(w)
Sweep(w) == StartDue(w) \/ SendEmails(w)
RunRecheck(i) == PlanFails(i) \/ Measure(i) \/ PanelFails(i)

Next ==
  \/ \E w \in Workers : Sweep(w) \/ Crash(w)
  \/ \E l \in Leads : GrowOld(l) \/ Erase(l) \/ Delete(l)
  \/ \E l \in Leads : \E e \in inbox[l] : OpenUnsubscribe(l, e)
  \/ \E i \in Slots : Link(i) \/ RunRecheck(i) \/ BackoffEnds(i)
  \/ Unsubscribe \/ Midnight

Spec == Init /\ [][Next]_vars

\* Workers keep sweeping and claiming runs, and days pass.
FairSpec ==
  /\ Spec
  /\ \A w \in Workers : WF_vars(Sweep(w))
  /\ \A i \in Slots : WF_vars(RunRecheck(i)) /\ WF_vars(BackoffEnds(i))
  /\ \A l \in Leads : WF_vars(GrowOld(l))
  /\ WF_vars(Midnight) /\ WF_vars(Unsubscribe)
-----------------------------------------------------------------------------
(* Properties *)

TypeOK ==
  /\ lead \in [Leads -> LeadRow]
  /\ run \in [Slots -> RunRow]
  /\ recheck \in [Slots -> RecheckRow]
  /\ sweeper \in [Workers -> SweeperRow]
  /\ visitor \in Leads \cup {"none"}
  /\ inbox \in [Leads -> SUBSET Email]
  /\ nights \in 0..MaxNights
  /\ \A i \in Slots : recheck[i].stored => run[i].status # "absent"

\* A lead is re-checked once, whatever happens to the first re-check
\* (recheck.ts:12, schema.ts:634).  The code keeps it for one worker only.
OneRecheckPerLead ==
  \A i, j \in Slots : recheck[i].stored /\ recheck[j].stored /\ run[i].lead = run[j].lead => i = j

\* However the sweeps of the workers overlap, no worker adds two re-checks for
\* one lead: as many as there are workers is the most (recheck.ts:12, 63-70).
RecheckedOnceByEach ==
  \A i, j \in Slots :
    /\ recheck[i].stored /\ recheck[j].stored /\ i # j
    /\ run[i].lead = run[j].lead
    => run[i].by # run[j].by

\* However the sweeps overlap, the re-checks one worker adds in a day stay
\* within the ceiling (recheck.ts:12-13, 32-36).
TodayBy(w) == {i \in RechecksToday : run[i].by = w}
CeilingHoldsForEach == \A w \in Workers : Cardinality(TodayBy(w)) <= MaxPerDay

\* A re-check is emailed again only when the worker did not hear, or not before
\* the backoff ended, that the email before went out (recheck.ts:75-79).
NoUnexcusedDuplicate ==
  \A i \in Slots : \A e, f \in UNION {inbox[l] : l \in Leads} :
    e.slot = i /\ f.slot = i /\ e.token < f.token =>
      e.token \in recheck[i].unheard \cup recheck[i].overtaken

\* While every send is shorter than its backoff, a re-check that counts as
\* emailed has reached its lead with a link that works, whatever became of the
\* attempts before, and so has every email whose answer came back
\* (recheck.ts:119-121, schema.ts:647).
UnsubscribeLinksWork ==
  \A i \in Slots :
    recheck[i].stored /\ recheck[i].overtaken = {} =>
      LET received == {e \in inbox[run[i].lead] : e.slot = i} IN
      /\ recheck[i].emailed => \E e \in received : e.token = recheck[i].token
      /\ \A e \in received : e.token = recheck[i].token \/ e.token \in recheck[i].unheard

\* Every lead who stays in touch is re-checked and emailed (recheck.ts:7-9).
EveryLeadHearsBack ==
  \A l \in Leads :
    <>(\/ inbox[l] # {} \/ ~lead[l].consent \/ ~lead[l].exists
       \/ \E i \in Slots : run[i].lead = l /\ recheck[i].attempts = MaxAttempts)
=============================================================================
