------------------------------ MODULE Outreach ------------------------------
(***************************************************************************)
(* Follow-up emails from the dashboard (src/lib/aeo/outreach.ts) beside    *)
(* the retention sweep (src/lib/aeo/retention.ts), the unsubscribe page    *)
(* (src/lib/aeo/recheck.ts) and the admins (src/lib/aeo/admin.ts).         *)
(*                                                                         *)
(* One statement or one call of the provider is one action.  Mail n is the *)
(* n-th that an admin begins to send, and stands for its token, which is   *)
(* drawn for it.  A test send changes nothing that is modelled, and a      *)
(* missing merge field or sender ends a send before anything has changed.  *)
(***************************************************************************)
EXTENDS Naturals

CONSTANTS
  Leads,       \* requests of the public form, verified
  Person,      \* [Leads -> people]: whose address each of them gives
  Rechecked,   \* leads that hold the unsubscribe link of a re-check email too
  Tabs,        \* dashboard requests that may be under way at once
  MaxSends,    \* bound on sends
  Faults       \* what else may happen

\* "lost": the provider accepts an email and its answer does not arrive.
\* "crash": a server dies, or the database fails, before the next statement.
AllFaults == {"lost", "crash"}

None == "none"

\* What the constants must satisfy: an instance assumes it.
OutreachConstants ==
  /\ MaxSends \in Nat /\ Rechecked \subseteq Leads /\ Faults \subseteq AllFaults
  /\ Person = [l \in Leads |-> Person[l]] /\ None \notin Leads

VARIABLES
  lead,     \* aeo_request and the status of its run: what the queries ask of them
  mail,     \* aeo_mail_send
  tab,      \* each dashboard request's position in sendFollowUp
  issued,   \* sends begun
  inbox,    \* the follow-ups each lead received
  sweep,    \* the worker's position in sweepExpiredContactDetails
  visitor,  \* the lead the unsubscribe page has found and not yet updated
  goodbye,  \* history: the sends begun when the lead left, MaxSends before that
  decided,  \* history: the status an admin last chose
  excused   \* history: mails that went out without the code learning of it

vars == <<lead, mail, tab, issued, inbox, sweep, visitor, goodbye, decided, excused>>
history == <<goodbye, decided, excused>>
-----------------------------------------------------------------------------
Mails == 1..MaxSends
Statuses == {"new", "contacted", "won", "ignored"}

LeadRow == [exists: BOOLEAN, done: BOOLEAN, old: BOOLEAN, consent: BOOLEAN,
            unsubscribed: BOOLEAN, erased: BOOLEAN, status: Statuses]

\* The token's hash is stored with a mail that was sent, and survives blanking.
MailRow == [status: {None, "sent", "failed"}, lead: Leads \cup {None}, token: BOOLEAN, blank: BOOLEAN]

TabRow == [pc: {"idle", "send", "log", "status"}, lead: Leads \cup {None},
           mail: 0..MaxSends, sent: BOOLEAN]

Idle == [pc |-> "idle", lead |-> None, mail |-> 0, sent |-> FALSE]

Init ==
  /\ lead \in [Leads -> {[exists |-> TRUE, done |-> TRUE, old |-> FALSE, consent |-> c,
                          unsubscribed |-> FALSE, erased |-> FALSE, status |-> "new"] : c \in BOOLEAN}]
  /\ mail = [n \in Mails |-> [status |-> None, lead |-> None, token |-> FALSE, blank |-> FALSE]]
  /\ tab = [t \in Tabs |-> Idle]
  /\ issued = 0
  /\ inbox = [l \in Leads |-> {}]
  /\ sweep = "erase"
  /\ visitor = None
  /\ goodbye = [l \in Leads |-> MaxSends]
  /\ decided = [l \in Leads |-> None]
  /\ excused = {}
-----------------------------------------------------------------------------
(* sendFollowUp *)

\* Mutant: the list was filtered already.
EligibleOnTheList(l) == lead[l].exists /\ lead[l].done
Eligible(l) ==
  /\ lead[l].exists /\ lead[l].done
  /\ lead[l].consent /\ ~lead[l].unsubscribed /\ ~lead[l].erased

ReadLead(t, l) ==
  /\ tab[t].pc = "idle" /\ issued < MaxSends /\ Eligible(l)
  /\ issued' = issued + 1
  /\ tab' = [tab EXCEPT ![t] = [Idle EXCEPT !.pc = "send", !.lead = l, !.mail = issued + 1]]
  /\ UNCHANGED <<lead, mail, inbox, sweep, visitor, history>>

Answer(t, sent) ==
  /\ tab[t].pc = "send"
  /\ tab' = [tab EXCEPT ![t].pc = "log", ![t].sent = sent]

Deliver(t) == inbox' = [inbox EXCEPT ![tab[t].lead] = @ \cup {tab[t].mail}]

SendAccepted(t) ==
  /\ Answer(t, TRUE) /\ Deliver(t)
  /\ UNCHANGED <<lead, mail, issued, sweep, visitor, history>>

SendRefused(t) ==
  /\ Answer(t, FALSE)
  /\ UNCHANGED <<lead, mail, issued, inbox, sweep, visitor, history>>

AnswerLost(t) ==
  /\ "lost" \in Faults
  /\ Answer(t, FALSE) /\ Deliver(t)
  /\ excused' = excused \cup {tab[t].mail}
  /\ UNCHANGED <<lead, mail, issued, sweep, visitor, goodbye, decided>>

\* Mutant: the hash is stored for a mail that failed.
LoggedBackwards(l, sent) == [status |-> IF sent THEN "sent" ELSE "failed", lead |-> l,
                             token |-> ~sent, blank |-> FALSE]
Logged(l, sent) == [status |-> IF sent THEN "sent" ELSE "failed", lead |-> l,
                    token |-> sent, blank |-> FALSE]

\* A lead deleted since violates the foreign key: the request ends in an error.
Log(t) ==
  LET l == tab[t].lead IN
  /\ tab[t].pc = "log"
  /\ mail' = IF lead[l].exists THEN [mail EXCEPT ![tab[t].mail] = Logged(l, tab[t].sent)] ELSE mail
  /\ tab' = [tab EXCEPT ![t] = IF lead[l].exists /\ @.sent THEN [@ EXCEPT !.pc = "status"] ELSE Idle]
  /\ UNCHANGED <<lead, issued, inbox, sweep, visitor, history>>

\* Mutant: whatever the admin made of the lead.
MovedAlways(s) == "contacted"
Moved(s) == IF s = "new" THEN "contacted" ELSE s

MoveStatus(t) ==
  /\ tab[t].pc = "status"
  /\ lead' = [lead EXCEPT ![tab[t].lead].status = Moved(@)]
  /\ tab' = [tab EXCEPT ![t] = Idle]
  /\ UNCHANGED <<mail, issued, inbox, sweep, visitor, history>>

Crash(t) ==
  /\ "crash" \in Faults /\ tab[t].pc # "idle"
  /\ excused' = IF tab[t].pc = "log" THEN excused \cup {tab[t].mail} ELSE excused
  /\ tab' = [tab EXCEPT ![t] = Idle]
  /\ UNCHANGED <<lead, mail, issued, inbox, sweep, visitor, goodbye, decided>>

SendFollowUp(t) ==
  \/ \E l \in Leads : ReadLead(t, l)
  \/ SendAccepted(t) \/ SendRefused(t) \/ AnswerLost(t) \/ Log(t) \/ MoveStatus(t)
-----------------------------------------------------------------------------
(* unsubscribeByToken *)

Leaves(S) == goodbye' = [l \in Leads |-> IF l \in S /\ goodbye[l] = MaxSends THEN issued ELSE goodbye[l]]

\* The link of a logged follow-up, or of a re-check email.
OpenUnsubscribe(l) ==
  /\ visitor = None /\ lead[l].exists /\ ~lead[l].unsubscribed
  /\ l \in Rechecked \/ \E n \in inbox[l] : mail[n].token /\ mail[n].lead = l
  /\ visitor' = l
  /\ UNCHANGED <<lead, mail, tab, issued, inbox, sweep, history>>

Unsubscribe ==
  /\ visitor # None
  /\ lead' = IF lead[visitor].exists
               THEN [lead EXCEPT ![visitor].unsubscribed = TRUE, ![visitor].consent = FALSE]
               ELSE lead
  /\ Leaves({visitor})
  /\ visitor' = None
  /\ UNCHANGED <<mail, tab, issued, inbox, sweep, decided, excused>>
-----------------------------------------------------------------------------
(* sweepExpiredContactDetails, on every tick of a worker *)

Expired(l) ==
  lead[l].exists /\ lead[l].old /\ ~lead[l].erased /\ lead[l].status # "won"

Erase ==
  /\ sweep = "erase"
  /\ lead' = [l \in Leads |-> IF Expired(l) THEN [lead[l] EXCEPT !.erased = TRUE, !.consent = FALSE]
                              ELSE lead[l]]
  /\ Leaves({l \in Leads : Expired(l)})
  /\ sweep' = "blank"
  /\ UNCHANGED <<mail, tab, issued, inbox, visitor, decided, excused>>

Copy(n) == mail[n].status # None /\ ~mail[n].blank

\* Mutant: misses the copies of sends that failed.
SentCopy(n) == Copy(n) /\ mail[n].status = "sent" /\ lead[mail[n].lead].erased
ErasedCopy(n) == Copy(n) /\ lead[mail[n].lead].erased

BlankCopies ==
  /\ sweep = "blank"
  /\ mail' = [n \in Mails |-> [mail[n] EXCEPT !.blank = @ \/ ErasedCopy(n)]]
  /\ sweep' = "erase"
  /\ UNCHANGED <<lead, tab, issued, inbox, visitor, history>>

\* The worker dies between the two statements and starts over.
SweepDies ==
  /\ "crash" \in Faults /\ sweep = "blank"
  /\ sweep' = "erase"
  /\ UNCHANGED <<lead, mail, tab, issued, inbox, visitor, history>>
-----------------------------------------------------------------------------
(* Admins and time *)

Others == <<tab, issued, inbox, sweep, visitor, excused>>

SetLeadStatus(l, s) ==
  /\ lead[l].exists /\ lead[l].status # s
  /\ lead' = [lead EXCEPT ![l].status = s]
  /\ decided' = [decided EXCEPT ![l] = s]
  /\ UNCHANGED <<mail, goodbye, Others>>

\* deleteRequest: the copies go with the lead.
DeleteRequest(l) ==
  /\ lead[l].exists
  /\ lead' = [lead EXCEPT ![l].exists = FALSE]
  /\ mail' = [n \in Mails |-> IF mail[n].lead = l THEN [mail[n] EXCEPT !.status = None, !.token = FALSE]
                              ELSE mail[n]]
  /\ Leaves({l})
  /\ UNCHANGED <<decided, Others>>

\* createRerun moves the lead to a new run, which is done some time later.
Rerun(l) ==
  /\ lead[l].exists
  /\ lead' = [lead EXCEPT ![l].done = ~@]
  /\ UNCHANGED <<mail, goodbye, decided, Others>>

\* retentionDays pass.
GrowOld(l) ==
  /\ lead[l].exists /\ ~lead[l].old
  /\ lead' = [lead EXCEPT ![l].old = TRUE]
  /\ UNCHANGED <<mail, goodbye, decided, Others>>

Next ==
  \/ \E t \in Tabs : SendFollowUp(t) \/ Crash(t)
  \/ \E l \in Leads : \/ OpenUnsubscribe(l) \/ DeleteRequest(l) \/ Rerun(l) \/ GrowOld(l)
                      \/ \E s \in {"won", "ignored"} : SetLeadStatus(l, s)
  \/ Unsubscribe \/ Erase \/ BlankCopies \/ SweepDies

Spec == Init /\ [][Next]_vars

\* A worker's ticks go on, and are not cut off between the statements for ever.
Fairness == WF_vars(Erase) /\ SF_vars(BlankCopies)
FairSpec == Spec /\ Fairness
-----------------------------------------------------------------------------
(* Properties *)

TypeOK ==
  /\ lead \in [Leads -> LeadRow]
  /\ mail \in [Mails -> MailRow]
  /\ tab \in [Tabs -> TabRow]
  /\ issued \in 0..MaxSends
  /\ inbox \in [Leads -> SUBSET Mails]
  /\ sweep \in {"erase", "blank"}
  /\ visitor \in Leads \cup {None}
  /\ goodbye \in [Leads -> 0..MaxSends]
  /\ decided \in [Leads -> Statuses \cup {None}]
  /\ excused \subseteq Mails

\* Every email a lead holds can be stopped with its own link once the send is
\* logged, through erasures, as long as nothing went wrong between the provider
\* and the log (outreach.ts:208-219, recheck.ts:151).
EmailsCanBeStopped ==
  \A l \in Leads : \A n \in inbox[l] \ excused :
    \/ ~lead[l].exists
    \/ mail[n].token /\ mail[n].lead = l
    \/ \E t \in Tabs : tab[t].pc = "log" /\ tab[t].mail = n

\* Nobody is emailed after they unsubscribed, were erased or deleted, apart from
\* sends whose check was over by then (outreach.ts:14-16).
GoodbyeIsKept == \A l \in Leads : \A n \in inbox[l] : n <= goodbye[l]

\* A client's details are not erased as a stale enquiry, whatever sends are
\* under way when an admin marks the lead "won" (retention.ts:12).
ClientsKeepTheirDetails ==
  [][\A l \in Leads : ~lead[l].erased /\ lead[l].erased' => decided[l] # "won"]_vars

\* The copy of an email to an erased lead is blanked, also one logged after the
\* erasure or between the sweep's statements (retention.ts:31-36).
ErasedCopiesGo ==
  \A n \in Mails :
    (Copy(n) /\ lead[mail[n].lead].erased)
      ~> (mail[n].status = None \/ mail[n].blank)

\* "We won't email you about your AI visibility again"
\* (src/app/check/unsubscribe/page.tsx): whichever of their requests a person
\* unsubscribes from.
GoodbyeIsForThePerson ==
  \A l, k \in Leads :
    Person[l] = Person[k] /\ lead[l].unsubscribed => \A n \in inbox[k] : n <= goodbye[l]
=============================================================================
