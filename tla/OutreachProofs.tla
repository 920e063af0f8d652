--------------------------- MODULE OutreachProofs ---------------------------
(***************************************************************************)
(* What holds of Outreach for any leads, tabs, faults and bound on sends.  *)
(*                                                                         *)
(* A send carries its number from the check to the log, and a lead leaves  *)
(* with the number of sends begun by then: whatever is on its way then has *)
(* a smaller one, and nothing begins afterwards.  No two sends under way   *)
(* have the same number, so the log of one never touches another's token.  *)
(***************************************************************************)
EXTENDS Outreach, TLAPS

\* A send under way has a number of its own, which nobody has received before
\* the provider is called, and only its lead afterwards.
Underway(t) == tab[t].pc \in {"send", "log"}
TabsAreNumbered == \A t \in Tabs : tab[t].pc # "idle" => tab[t].mail \in 1..issued /\ tab[t].lead \in Leads
InboxesAreNumbered == \A l \in Leads : \A n \in inbox[l] : n <= issued
OneTabPerMail ==
  \A t, u \in Tabs : Underway(t) /\ Underway(u) /\ tab[t].mail = tab[u].mail => t = u
UnsentIsNowhere == \A t \in Tabs : tab[t].pc = "send" => \A l \in Leads : tab[t].mail \notin inbox[l]
SentIsWhereItBelongs ==
  \A t \in Tabs : tab[t].pc = "log" =>
    \A l \in Leads : tab[t].mail \in inbox[l] => l = tab[t].lead /\ (tab[t].sent \/ tab[t].mail \in excused)
SendingInv ==
  /\ TabsAreNumbered /\ InboxesAreNumbered /\ OneTabPerMail
  /\ UnsentIsNowhere /\ SentIsWhereItBelongs

\* Who may still be emailed has not left, and whoever left did so after the
\* sends to them that are under way had begun.
Reachable(l) == lead[l].exists /\ ~lead[l].unsubscribed /\ ~lead[l].erased
StayersHaveNotLeft == \A l \in Leads : Reachable(l) => goodbye[l] = MaxSends
SendsAreInTime == \A t \in Tabs : tab[t].pc = "send" => tab[t].mail <= goodbye[tab[t].lead]
GoodbyeInv == StayersHaveNotLeft /\ SendsAreInTime /\ GoodbyeIsKept

\* What an admin decided is what the lead is.
DecisionInv ==
  \A l \in Leads : /\ decided[l] \in {None, "won", "ignored"}
                   /\ decided[l] # None => lead[l].status = decided[l]

IInv == TypeOK /\ SendingInv /\ GoodbyeInv /\ EmailsCanBeStopped /\ DecisionInv
-----------------------------------------------------------------------------
LEMMA IdleRow == ASSUME OutreachConstants PROVE Idle \in TabRow /\ Idle.pc = "idle"
<1>1. 0 \in 0..MaxSends
  BY DEF OutreachConstants
<1> QED BY <1>1 DEF Idle, TabRow

LEMMA InitHolds ==
  ASSUME OutreachConstants, Init
  PROVE  IInv
<1>1. TypeOK
  <2>1. \A c \in BOOLEAN :
          [exists |-> TRUE, done |-> TRUE, old |-> FALSE, consent |-> c, unsubscribed |-> FALSE,
           erased |-> FALSE, status |-> "new"] \in LeadRow
    BY DEF LeadRow, Statuses
  <2>2. lead \in [Leads -> LeadRow]
    BY <2>1 DEF Init
  <2>3. mail \in [Mails -> MailRow]
    BY DEF Init, MailRow
  <2>4. tab \in [Tabs -> TabRow]
    BY IdleRow DEF Init
  <2>5. issued \in 0..MaxSends /\ goodbye \in [Leads -> 0..MaxSends]
    BY DEF Init, OutreachConstants
  <2>6. /\ inbox \in [Leads -> SUBSET Mails] /\ decided \in [Leads -> Statuses \cup {None}]
        /\ excused \subseteq Mails /\ sweep \in {"erase", "blank"} /\ visitor \in Leads \cup {None}
    BY DEF Init
  <2> QED BY <2>2, <2>3, <2>4, <2>5, <2>6 DEF TypeOK
<1>2. SendingInv
  BY IdleRow DEF Init, SendingInv, TabsAreNumbered, InboxesAreNumbered, OneTabPerMail, UnsentIsNowhere,
                 SentIsWhereItBelongs, Underway
<1>3. GoodbyeInv
  BY IdleRow DEF Init, GoodbyeInv, StayersHaveNotLeft, SendsAreInTime, GoodbyeIsKept
<1>4. EmailsCanBeStopped /\ DecisionInv
  BY DEF Init, EmailsCanBeStopped, DecisionInv
<1> QED BY <1>1, <1>2, <1>3, <1>4 DEF IInv
-----------------------------------------------------------------------------
(* The steps of a send *)

\* A tab moves and no lead changes.
LEMMA LeadsStay ==
  ASSUME IInv, UNCHANGED <<lead, goodbye, decided>>
  PROVE  StayersHaveNotLeft' /\ DecisionInv'
BY DEF IInv, GoodbyeInv, StayersHaveNotLeft, Reachable, DecisionInv

LEMMA ReadLeadKeeps ==
  ASSUME OutreachConstants, IInv, NEW t \in Tabs, NEW l \in Leads, ReadLead(t, l)
  PROVE  IInv'
<1>1. /\ tab[t].pc = "idle" /\ issued < MaxSends /\ issued' = issued + 1
      /\ UNCHANGED <<lead, mail, inbox, sweep, visitor, goodbye, decided, excused>>
  BY DEF ReadLead, history
<1>2. issued \in Nat /\ issued + 1 \in 0..MaxSends /\ issued + 1 \in 1..issued'
  BY <1>1 DEF IInv, TypeOK, OutreachConstants
<1>3. PICK n \in TabRow : /\ tab' = [tab EXCEPT ![t] = n]
                          /\ n.pc = "send" /\ n.lead = l /\ n.mail = issued + 1
  <2> DEFINE m == issued + 1
             n == [Idle EXCEPT !.pc = "send", !.lead = l, !.mail = m]
  <2>1. m \in 0..MaxSends
    BY <1>2
  <2>2. tab' = [tab EXCEPT ![t] = n]
    BY DEF ReadLead
  <2>3. m = issued + 1
    OBVIOUS
  <2> HIDE DEF m
  <2>4. n \in TabRow /\ n.pc = "send" /\ n.lead = l /\ n.mail = m
    BY <2>1, IdleRow DEF TabRow
  <2> QED BY <2>2, <2>3, <2>4
<1>4. TypeOK'
  BY <1>1, <1>2, <1>3 DEF IInv, TypeOK
<1>5. tab'[t] = n /\ \A u \in Tabs \ {t} : tab'[u] = tab[u]
  BY <1>3 DEF IInv, TypeOK
<1>6. SendingInv'
  <2>1. TabsAreNumbered'
    BY <1>1, <1>2, <1>3, <1>5 DEF IInv, SendingInv, TabsAreNumbered
  <2>2. InboxesAreNumbered'
    BY <1>1, <1>2 DEF IInv, TypeOK, Mails, SendingInv, InboxesAreNumbered
  <2>3. OneTabPerMail'
    BY <1>2, <1>3, <1>5 DEF IInv, SendingInv, TabsAreNumbered, OneTabPerMail, Underway
  <2>4. UnsentIsNowhere'
    BY <1>1, <1>2, <1>3, <1>5 DEF IInv, SendingInv, InboxesAreNumbered, UnsentIsNowhere
  <2>5. SentIsWhereItBelongs'
    BY <1>1, <1>3, <1>5 DEF IInv, SendingInv, SentIsWhereItBelongs
  <2> QED BY <2>1, <2>2, <2>3, <2>4, <2>5 DEF SendingInv
<1>7. GoodbyeInv'
  <2>1. goodbye[l] = MaxSends
    BY DEF ReadLead, Eligible, IInv, GoodbyeInv, StayersHaveNotLeft, Reachable
  <2>2. SendsAreInTime'
    BY <1>1, <1>2, <1>3, <1>5, <2>1 DEF IInv, GoodbyeInv, SendsAreInTime
  <2> QED BY <1>1, <2>2, LeadsStay DEF IInv, GoodbyeInv, GoodbyeIsKept
<1>8. EmailsCanBeStopped'
  BY <1>1, <1>5 DEF IInv, EmailsCanBeStopped
<1> QED BY <1>1, <1>4, <1>6, <1>7, <1>8, LeadsStay DEF IInv

\* The provider's answer, or the lack of one: the email is delivered or not, and
\* excused when the code does not learn of it.
LEMMA AnswerKeeps ==
  ASSUME OutreachConstants, IInv, NEW t \in Tabs, NEW sent \in BOOLEAN, Answer(t, sent),
         UNCHANGED <<lead, mail, issued, sweep, visitor, goodbye, decided>>,
         \/ ~sent /\ inbox' = inbox /\ excused' = excused
         \/ sent /\ Deliver(t) /\ excused' = excused
         \/ ~sent /\ Deliver(t) /\ excused' = excused \cup {tab[t].mail}
  PROVE  IInv'
<1>1. tab[t].pc = "send" /\ tab[t] \in TabRow
  BY DEF Answer, IInv, TypeOK
<1>2. PICK l \in Leads, m \in 1..issued : l = tab[t].lead /\ m = tab[t].mail
  BY <1>1 DEF IInv, SendingInv, TabsAreNumbered
<1>3. m \in Mails /\ \A k \in Leads : m \notin inbox[k]
  BY <1>1, <1>2 DEF IInv, TypeOK, Mails, SendingInv, UnsentIsNowhere, OutreachConstants
<1>4. PICK n \in TabRow : /\ tab' = [tab EXCEPT ![t] = n]
                          /\ n.pc = "log" /\ n.lead = l /\ n.mail = m /\ n.sent = sent
  <2> DEFINE n == [tab[t] EXCEPT !.pc = "log", !.sent = sent]
  <2>1. tab' = [tab EXCEPT ![t] = n]
    BY DEF Answer, IInv, TypeOK
  <2>2. n \in TabRow /\ n.pc = "log" /\ n.lead = l /\ n.mail = m /\ n.sent = sent
    BY <1>1, <1>2 DEF TabRow
  <2> QED BY <2>1, <2>2
<1>5. tab'[t] = n /\ \A u \in Tabs \ {t} : tab'[u] = tab[u]
  BY <1>4 DEF IInv, TypeOK
<1>6. \/ inbox' = inbox
      \/ inbox' = [inbox EXCEPT ![l] = @ \cup {m}]
  BY <1>2 DEF Deliver
<1>7. /\ inbox' \in [Leads -> SUBSET Mails]
      /\ \A k \in Leads : inbox'[k] \subseteq inbox[k] \cup {m}
      /\ \A k \in Leads \ {l} : inbox'[k] = inbox[k]
  BY <1>3, <1>6 DEF IInv, TypeOK
<1>8. /\ excused \subseteq excused' /\ excused' \subseteq excused \cup {m}
      /\ m \in inbox'[l] => sent \/ m \in excused'
  BY <1>2, <1>3 DEF Deliver
<1>9. TypeOK'
  BY <1>3, <1>4, <1>7, <1>8 DEF IInv, TypeOK
<1>10. SendingInv'
  <2>1. TabsAreNumbered'
    BY <1>4, <1>5 DEF IInv, SendingInv, TabsAreNumbered
  <2>2. InboxesAreNumbered'
    BY <1>7 DEF IInv, TypeOK, SendingInv, InboxesAreNumbered
  <2>3. OneTabPerMail'
    BY <1>1, <1>2, <1>4, <1>5 DEF IInv, SendingInv, OneTabPerMail, Underway
  <2>4. \A u \in Tabs \ {t} : Underway(u) => tab[u].mail # m
    BY <1>1, <1>2 DEF IInv, SendingInv, OneTabPerMail, Underway
  <2>5. UnsentIsNowhere'
    BY <1>4, <1>5, <1>7, <2>4 DEF IInv, SendingInv, UnsentIsNowhere, Underway
  <2>6. SentIsWhereItBelongs'
    BY <1>3, <1>4, <1>5, <1>7, <1>8, <2>4 DEF IInv, SendingInv, SentIsWhereItBelongs, Underway
  <2> QED BY <2>1, <2>2, <2>3, <2>5, <2>6 DEF SendingInv
<1>11. GoodbyeInv'
  <2>1. m <= goodbye[l]
    BY <1>1, <1>2 DEF IInv, GoodbyeInv, SendsAreInTime
  <2>2. GoodbyeIsKept'
    BY <1>7, <2>1 DEF IInv, GoodbyeInv, GoodbyeIsKept
  <2>3. SendsAreInTime'
    BY <1>4, <1>5 DEF IInv, GoodbyeInv, SendsAreInTime
  <2> QED BY <2>2, <2>3, LeadsStay DEF GoodbyeInv
<1>12. EmailsCanBeStopped'
  <2>1. SUFFICES ASSUME NEW k \in Leads, NEW i \in inbox'[k] \ excused'
                 PROVE  \/ ~lead[k].exists
                        \/ mail[i].token /\ mail[i].lead = k
                        \/ \E u \in Tabs : tab'[u].pc = "log" /\ tab'[u].mail = i
    BY DEF EmailsCanBeStopped
  <2>2. CASE i = m
    BY <1>4, <1>5, <2>2
  <2>3. CASE i # m
    BY <1>1, <1>5, <1>7, <1>8, <2>3 DEF IInv, EmailsCanBeStopped
  <2> QED BY <2>2, <2>3
<1> QED BY <1>9, <1>10, <1>11, <1>12, LeadsStay DEF IInv

\* The tab t leaves "log", or any other place, and no lead changes.
LEMMA TabEnds ==
  ASSUME OutreachConstants, IInv, NEW t \in Tabs, NEW n \in TabRow, n.pc \in {"idle", "status"},
         n.pc = "idle" \/ (n.lead = tab[t].lead /\ n.mail = tab[t].mail),
         n.pc = "idle" \/ tab[t].pc # "idle",
         tab' = [tab EXCEPT ![t] = n],
         UNCHANGED <<issued, inbox, goodbye>>,
         excused \subseteq excused', excused' \subseteq Mails
  PROVE  SendingInv' /\ SendsAreInTime' /\ GoodbyeIsKept' /\ tab' \in [Tabs -> TabRow]
<1>1. tab'[t] = n /\ \A u \in Tabs \ {t} : tab'[u] = tab[u]
  BY DEF IInv, TypeOK
<1>2. TabsAreNumbered' /\ InboxesAreNumbered' /\ OneTabPerMail'
  BY <1>1 DEF IInv, SendingInv, TabsAreNumbered, InboxesAreNumbered, OneTabPerMail, Underway
<1>3. UnsentIsNowhere' /\ SentIsWhereItBelongs'
  BY <1>1 DEF IInv, SendingInv, UnsentIsNowhere, SentIsWhereItBelongs
<1>4. SendsAreInTime' /\ GoodbyeIsKept'
  BY <1>1 DEF IInv, GoodbyeInv, SendsAreInTime, GoodbyeIsKept
<1>5. tab' \in [Tabs -> TabRow]
  BY DEF IInv, TypeOK
<1> QED BY <1>2, <1>3, <1>4, <1>5 DEF SendingInv

LEMMA LogKeeps ==
  ASSUME OutreachConstants, IInv, NEW t \in Tabs, Log(t)
  PROVE  IInv'
<1>1. /\ tab[t].pc = "log" /\ tab[t] \in TabRow
      /\ UNCHANGED <<lead, issued, inbox, sweep, visitor, goodbye, decided, excused>>
  BY DEF Log, history, IInv, TypeOK
<1>2. PICK l \in Leads, m \in Mails : l = tab[t].lead /\ m = tab[t].mail
  BY <1>1 DEF IInv, TypeOK, Mails, SendingInv, TabsAreNumbered, OutreachConstants
<1>3. PICK n \in TabRow : /\ tab' = [tab EXCEPT ![t] = n]
                          /\ n.pc \in {"idle", "status"}
                          /\ n.pc = "idle" \/ (n.lead = l /\ n.mail = m)
  <2>1. CASE lead[l].exists /\ tab[t].sent
    <3> DEFINE n == [tab[t] EXCEPT !.pc = "status"]
    <3>1. n \in TabRow /\ n.pc = "status" /\ n.lead = l /\ n.mail = m
      BY <1>1, <1>2 DEF TabRow
    <3>2. tab' = [tab EXCEPT ![t] = n]
      BY <1>2, <2>1 DEF Log, IInv, TypeOK
    <3> QED BY <3>1, <3>2
  <2>2. CASE ~(lead[l].exists /\ tab[t].sent)
    <3>1. tab' = [tab EXCEPT ![t] = Idle]
      BY <1>2, <2>2 DEF Log, IInv, TypeOK
    <3> QED BY <3>1, IdleRow
  <2> QED BY <2>1, <2>2
<1>4. SendingInv' /\ SendsAreInTime' /\ GoodbyeIsKept' /\ tab' \in [Tabs -> TabRow]
  BY <1>1, <1>2, <1>3, TabEnds DEF IInv, TypeOK
<1>5. PICK r \in MailRow : /\ r = Logged(l, tab[t].sent)
                           /\ r.lead = l /\ r.token = tab[t].sent
  <2> DEFINE s == IF tab[t].sent THEN "sent" ELSE "failed"
             r == [status |-> s, lead |-> l, token |-> tab[t].sent, blank |-> FALSE]
  <2>1. s \in {None, "sent", "failed"} /\ tab[t].sent \in BOOLEAN
    BY <1>1 DEF TabRow
  <2>2. r = Logged(l, tab[t].sent)
    BY DEF Logged
  <2> HIDE DEF s
  <2>3. r \in MailRow /\ r.lead = l /\ r.token = tab[t].sent
    BY <2>1 DEF MailRow
  <2> QED BY <2>2, <2>3
<1>6. mail' = IF lead[l].exists THEN [mail EXCEPT ![m] = r] ELSE mail
  BY <1>2, <1>5 DEF Log
<1>7. TypeOK'
  BY <1>1, <1>4, <1>6 DEF IInv, TypeOK
<1>8. EmailsCanBeStopped'
  <2>1. SUFFICES ASSUME NEW k \in Leads, NEW i \in inbox[k] \ excused, lead[k].exists
                 PROVE  \/ mail'[i].token /\ mail'[i].lead = k
                        \/ \E u \in Tabs : tab'[u].pc = "log" /\ tab'[u].mail = i
    BY <1>1 DEF EmailsCanBeStopped
  <2>2. CASE i = m
    <3>1. k = l /\ tab[t].sent
      BY <1>1, <1>2, <2>2 DEF IInv, SendingInv, SentIsWhereItBelongs
    <3> QED BY <1>5, <1>6, <2>1, <2>2, <3>1 DEF IInv, TypeOK
  <2>3. CASE i # m
    <3>1. mail'[i] = mail[i]
      BY <1>6, <2>3 DEF IInv, TypeOK
    <3>2. \A u \in Tabs : tab[u].mail = i => u # t
      BY <1>2, <2>3
    <3>3. \A u \in Tabs \ {t} : tab'[u] = tab[u]
      BY <1>3 DEF IInv, TypeOK
    <3> QED BY <2>1, <3>1, <3>2, <3>3 DEF IInv, EmailsCanBeStopped
  <2> QED BY <2>2, <2>3
<1> QED BY <1>1, <1>4, <1>7, <1>8, LeadsStay DEF IInv, GoodbyeInv

LEMMA CrashKeeps ==
  ASSUME OutreachConstants, IInv, NEW t \in Tabs, Crash(t)
  PROVE  IInv'
<1>1. /\ tab[t].pc # "idle" /\ tab' = [tab EXCEPT ![t] = Idle]
      /\ excused' = IF tab[t].pc = "log" THEN excused \cup {tab[t].mail} ELSE excused
      /\ UNCHANGED <<lead, mail, issued, inbox, sweep, visitor, goodbye, decided>>
  BY DEF Crash
<1>2. tab[t].mail \in Mails
  BY <1>1 DEF IInv, TypeOK, Mails, SendingInv, TabsAreNumbered, OutreachConstants
<1>3. SendingInv' /\ SendsAreInTime' /\ GoodbyeIsKept' /\ tab' \in [Tabs -> TabRow]
  BY <1>1, <1>2, IdleRow, TabEnds DEF IInv, TypeOK
<1>4. TypeOK'
  BY <1>1, <1>2, <1>3 DEF IInv, TypeOK
<1>5. EmailsCanBeStopped'
  <2>1. \A u \in Tabs \ {t} : tab'[u] = tab[u]
    BY <1>1 DEF IInv, TypeOK
  <2> QED BY <1>1, <2>1 DEF IInv, EmailsCanBeStopped
<1> QED BY <1>1, <1>3, <1>4, <1>5, LeadsStay DEF IInv, GoodbyeInv

\* An admin's decision is not "new": no send moves it on.
LEMMA MoveStatusKeeps ==
  ASSUME OutreachConstants, IInv, NEW t \in Tabs, MoveStatus(t)
  PROVE  IInv'
<1>1. /\ tab[t].pc = "status" /\ tab' = [tab EXCEPT ![t] = Idle]
      /\ UNCHANGED <<mail, issued, inbox, sweep, visitor, goodbye, decided, excused>>
  BY DEF MoveStatus, history
<1>2. PICK l \in Leads : l = tab[t].lead
  BY <1>1 DEF IInv, SendingInv, TabsAreNumbered
<1>3. PICK r \in LeadRow : /\ lead' = [lead EXCEPT ![l] = r]
                           /\ r.exists = lead[l].exists /\ r.unsubscribed = lead[l].unsubscribed
                           /\ r.erased = lead[l].erased
                           /\ r.status = IF lead[l].status = "new" THEN "contacted" ELSE lead[l].status
  <2> DEFINE s == Moved(lead[l].status)
             r == [lead[l] EXCEPT !.status = s]
  <2>1. s = (IF lead[l].status = "new" THEN "contacted" ELSE lead[l].status) /\ s \in Statuses
    BY DEF Moved, IInv, TypeOK, LeadRow, Statuses
  <2>2. lead' = [lead EXCEPT ![l] = r]
    BY <1>2 DEF MoveStatus, IInv, TypeOK
  <2> HIDE DEF s
  <2>3. /\ r \in LeadRow /\ r.exists = lead[l].exists /\ r.unsubscribed = lead[l].unsubscribed
        /\ r.erased = lead[l].erased /\ r.status = s
    BY <2>1 DEF IInv, TypeOK, LeadRow
  <2> QED BY <2>1, <2>2, <2>3
<1>4. SendingInv' /\ SendsAreInTime' /\ GoodbyeIsKept' /\ tab' \in [Tabs -> TabRow]
  BY <1>1, IdleRow, TabEnds DEF IInv, TypeOK
<1>5. TypeOK'
  BY <1>1, <1>3, <1>4 DEF IInv, TypeOK
<1>6. lead'[l] = r /\ \A k \in Leads \ {l} : lead'[k] = lead[k]
  BY <1>3 DEF IInv, TypeOK
<1>7. EmailsCanBeStopped'
  <2>1. \A u \in Tabs \ {t} : tab'[u] = tab[u]
    BY <1>1 DEF IInv, TypeOK
  <2> QED BY <1>1, <1>3, <1>6, <2>1 DEF IInv, EmailsCanBeStopped
<1>8. StayersHaveNotLeft' /\ DecisionInv'
  BY <1>1, <1>3, <1>6 DEF IInv, GoodbyeInv, StayersHaveNotLeft, Reachable, DecisionInv
<1> QED BY <1>4, <1>5, <1>7, <1>8 DEF IInv, GoodbyeInv
-----------------------------------------------------------------------------
(* The steps of everybody else *)

LEMMA SendsStay ==
  ASSUME IInv, UNCHANGED <<tab, issued, inbox, excused>>
  PROVE  SendingInv'
BY DEF IInv, SendingInv, TabsAreNumbered, InboxesAreNumbered, OneTabPerMail, UnsentIsNowhere,
       SentIsWhereItBelongs, Underway

\* Those who leave do so after every send begun by then.
LEMMA LeavesKeeps ==
  ASSUME IInv, NEW S, Leaves(S), UNCHANGED <<tab, issued, inbox>>,
         \A l \in Leads : Reachable(l)' => Reachable(l) /\ l \notin S
  PROVE  GoodbyeInv' /\ goodbye' \in [Leads -> 0..MaxSends]
<1>1. /\ goodbye' \in [Leads -> 0..MaxSends]
      /\ \A l \in Leads : /\ goodbye'[l] = goodbye[l] \/ goodbye'[l] = issued
                          /\ l \notin S => goodbye'[l] = goodbye[l]
  BY DEF Leaves, IInv, TypeOK
<1>2. StayersHaveNotLeft'
  BY <1>1 DEF IInv, GoodbyeInv, StayersHaveNotLeft
<1>3. SendsAreInTime'
  BY <1>1 DEF IInv, TypeOK, SendingInv, TabsAreNumbered, GoodbyeInv, SendsAreInTime
<1>4. GoodbyeIsKept'
  BY <1>1 DEF IInv, SendingInv, InboxesAreNumbered, GoodbyeInv, GoodbyeIsKept
<1> QED BY <1>1, <1>2, <1>3, <1>4 DEF GoodbyeInv

LEMMA NobodyLeaves ==
  ASSUME IInv, UNCHANGED <<tab, issued, inbox, goodbye>>, \A l \in Leads : Reachable(l)' => Reachable(l)
  PROVE  GoodbyeInv'
BY DEF IInv, GoodbyeInv, StayersHaveNotLeft, SendsAreInTime, GoodbyeIsKept

LEMMA LinksStay ==
  ASSUME IInv, UNCHANGED <<tab, inbox, excused>>,
         \A l \in Leads : lead'[l].exists =>
           /\ lead[l].exists
           /\ \A n \in Mails : mail[n].lead = l => mail'[n].lead = l /\ mail'[n].token = mail[n].token
  PROVE  EmailsCanBeStopped'
BY DEF IInv, TypeOK, EmailsCanBeStopped

LEMMA OpenKeeps ==
  ASSUME IInv, NEW l \in Leads, OpenUnsubscribe(l)
  PROVE  IInv'
<1>1. visitor' = l /\ UNCHANGED <<lead, mail, tab, issued, inbox, sweep, goodbye, decided, excused>>
  BY DEF OpenUnsubscribe, history
<1>2. TypeOK' /\ DecisionInv'
  BY <1>1 DEF IInv, TypeOK, DecisionInv
<1>3. SendingInv' /\ GoodbyeInv' /\ EmailsCanBeStopped'
  BY <1>1, SendsStay, NobodyLeaves, LinksStay DEF Reachable
<1> QED BY <1>2, <1>3 DEF IInv

LEMMA UnsubscribeKeeps ==
  ASSUME IInv, Unsubscribe
  PROVE  IInv'
<1>1. PICK v \in Leads : v = visitor
  BY DEF Unsubscribe, IInv, TypeOK
<1>2. /\ UNCHANGED <<mail, tab, issued, inbox, sweep, decided, excused>>
      /\ visitor' = None /\ Leaves({v})
  BY <1>1 DEF Unsubscribe
<1>3. /\ lead' \in [Leads -> LeadRow]
      /\ lead'[v].exists => lead'[v].unsubscribed
      /\ \A l \in Leads : /\ lead'[l].exists = lead[l].exists /\ lead'[l].status = lead[l].status
                          /\ lead'[l].erased = lead[l].erased
                          /\ l # v => lead'[l] = lead[l]
  <2> DEFINE r == [lead[v] EXCEPT !.unsubscribed = TRUE, !.consent = FALSE]
  <2>1. /\ r \in LeadRow /\ r.exists = lead[v].exists /\ r.status = lead[v].status
        /\ r.erased = lead[v].erased /\ r.unsubscribed
    BY DEF IInv, TypeOK, LeadRow
  <2>2. lead' = IF lead[v].exists THEN [lead EXCEPT ![v] = r] ELSE lead
    BY <1>1 DEF Unsubscribe, IInv, TypeOK
  <2> HIDE DEF r
  <2> QED BY <2>1, <2>2 DEF IInv, TypeOK
<1>4. GoodbyeInv' /\ goodbye' \in [Leads -> 0..MaxSends]
  BY <1>2, <1>3, LeavesKeeps DEF Reachable
<1>5. TypeOK'
  BY <1>2, <1>3, <1>4 DEF IInv, TypeOK
<1>6. SendingInv' /\ EmailsCanBeStopped'
  BY <1>2, <1>3, SendsStay, LinksStay
<1>7. DecisionInv'
  BY <1>2, <1>3 DEF IInv, DecisionInv
<1> QED BY <1>4, <1>5, <1>6, <1>7 DEF IInv

LEMMA EraseKeeps ==
  ASSUME IInv, Erase
  PROVE  IInv'
<1> DEFINE S == {l \in Leads : Expired(l)}
<1>1. /\ UNCHANGED <<mail, tab, issued, inbox, visitor, decided, excused>>
      /\ sweep' = "blank" /\ Leaves(S)
  BY DEF Erase
<1>2. /\ lead' \in [Leads -> LeadRow]
      /\ \A l \in Leads : /\ lead'[l].exists = lead[l].exists /\ lead'[l].status = lead[l].status
                          /\ l \in S => lead'[l].erased
                          /\ l \notin S => lead'[l] = lead[l]
  <2> DEFINE r(l) == [lead[l] EXCEPT !.erased = TRUE, !.consent = FALSE]
  <2>1. \A l \in Leads : r(l) \in LeadRow /\ r(l).exists = lead[l].exists /\ r(l).status = lead[l].status /\ r(l).erased
    BY DEF IInv, TypeOK, LeadRow
  <2>2. lead' = [l \in Leads |-> IF l \in S THEN r(l) ELSE lead[l]]
    BY DEF Erase
  <2> HIDE DEF S, r
  <2> QED BY <2>1, <2>2 DEF IInv, TypeOK
<1>4. GoodbyeInv' /\ goodbye' \in [Leads -> 0..MaxSends]
  <2> HIDE DEF S
  <2> QED BY <1>1, <1>2, LeavesKeeps DEF Reachable
<1>5. TypeOK'
  BY <1>1, <1>2, <1>4 DEF IInv, TypeOK
<1>6. SendingInv' /\ EmailsCanBeStopped'
  BY <1>1, <1>2, SendsStay, LinksStay
<1>7. DecisionInv'
  BY <1>1, <1>2 DEF IInv, DecisionInv
<1> QED BY <1>4, <1>5, <1>6, <1>7 DEF IInv

LEMMA BlankKeeps ==
  ASSUME IInv, BlankCopies
  PROVE  IInv'
<1>1. /\ UNCHANGED <<lead, tab, issued, inbox, visitor, goodbye, decided, excused>>
      /\ sweep' = "erase"
  BY DEF BlankCopies, history
<1>2. /\ mail' \in [Mails -> MailRow]
      /\ \A n \in Mails : mail'[n].lead = mail[n].lead /\ mail'[n].token = mail[n].token
  <2> DEFINE b(n) == mail[n].blank \/ ErasedCopy(n)
             r(n) == [mail[n] EXCEPT !.blank = b(n)]
  <2>1. mail' = [n \in Mails |-> r(n)]
    BY DEF BlankCopies
  <2>2. \A n \in Mails : b(n) \in BOOLEAN
    BY DEF IInv, TypeOK, MailRow, ErasedCopy, Copy
  <2> HIDE DEF b
  <2>3. \A n \in Mails : r(n) \in MailRow /\ r(n).lead = mail[n].lead /\ r(n).token = mail[n].token
    BY <2>2 DEF IInv, TypeOK, MailRow
  <2> HIDE DEF r
  <2> QED BY <2>1, <2>3
<1>3. TypeOK' /\ DecisionInv'
  BY <1>1, <1>2 DEF IInv, TypeOK, DecisionInv
<1>4. SendingInv' /\ GoodbyeInv' /\ EmailsCanBeStopped'
  BY <1>1, <1>2, SendsStay, NobodyLeaves, LinksStay DEF Reachable
<1> QED BY <1>3, <1>4 DEF IInv

LEMMA DiesKeeps ==
  ASSUME IInv, SweepDies
  PROVE  IInv'
<1>1. sweep' = "erase" /\ UNCHANGED <<lead, mail, tab, issued, inbox, visitor, goodbye, decided, excused>>
  BY DEF SweepDies, history
<1>2. TypeOK' /\ DecisionInv'
  BY <1>1 DEF IInv, TypeOK, DecisionInv
<1>3. SendingInv' /\ GoodbyeInv' /\ EmailsCanBeStopped'
  BY <1>1, SendsStay, NobodyLeaves, LinksStay DEF Reachable
<1> QED BY <1>2, <1>3 DEF IInv

\* One lead becomes r, whose run, age or status alone are new.
LEMMA LeadChanges ==
  ASSUME IInv, NEW l \in Leads, NEW r \in LeadRow, lead' = [lead EXCEPT ![l] = r],
         r.exists = lead[l].exists, r.unsubscribed = lead[l].unsubscribed, r.erased = lead[l].erased,
         UNCHANGED <<mail, goodbye, Others>>
  PROVE  /\ SendingInv' /\ GoodbyeInv' /\ EmailsCanBeStopped' /\ lead' \in [Leads -> LeadRow]
         /\ lead'[l] = r /\ \A k \in Leads \ {l} : lead'[k] = lead[k]
<1>1. UNCHANGED <<mail, goodbye, tab, issued, inbox, sweep, visitor, excused>>
  BY DEF Others
<1>2. lead' \in [Leads -> LeadRow] /\ lead'[l] = r /\ \A k \in Leads \ {l} : lead'[k] = lead[k]
  BY DEF IInv, TypeOK
<1>3. \A k \in Leads : /\ lead'[k].exists = lead[k].exists
                       /\ lead'[k].unsubscribed = lead[k].unsubscribed
                       /\ lead'[k].erased = lead[k].erased
  BY <1>2
<1>4. SendingInv' /\ EmailsCanBeStopped'
  BY <1>1, <1>3, SendsStay, LinksStay
<1>5. GoodbyeInv'
  BY <1>1, <1>3, NobodyLeaves DEF Reachable
<1> QED BY <1>2, <1>4, <1>5

LEMMA SetLeadStatusKeeps ==
  ASSUME IInv, NEW l \in Leads, NEW s \in {"won", "ignored"}, SetLeadStatus(l, s)
  PROVE  IInv'
<1>1. /\ UNCHANGED <<mail, goodbye, Others>> /\ decided' = [decided EXCEPT ![l] = s]
      /\ lead' = [lead EXCEPT ![l].status = s]
  BY DEF SetLeadStatus
<1>2. PICK r \in LeadRow : /\ lead' = [lead EXCEPT ![l] = r]
                           /\ r.exists = lead[l].exists /\ r.unsubscribed = lead[l].unsubscribed
                           /\ r.erased = lead[l].erased /\ r.status = s
  <2> DEFINE r == [lead[l] EXCEPT !.status = s]
  <2>1. /\ r \in LeadRow /\ r.exists = lead[l].exists /\ r.unsubscribed = lead[l].unsubscribed
        /\ r.erased = lead[l].erased /\ r.status = s
    BY DEF IInv, TypeOK, LeadRow, Statuses
  <2>2. lead' = [lead EXCEPT ![l] = r]
    BY <1>1 DEF IInv, TypeOK
  <2> QED BY <2>1, <2>2
<1>4. /\ SendingInv' /\ GoodbyeInv' /\ EmailsCanBeStopped' /\ lead' \in [Leads -> LeadRow]
      /\ lead'[l] = r /\ \A k \in Leads \ {l} : lead'[k] = lead[k]
  BY <1>1, <1>2, LeadChanges
<1>5. TypeOK'
  BY <1>1, <1>4 DEF IInv, TypeOK, Others, Statuses
<1>6. DecisionInv'
  BY <1>1, <1>2, <1>4 DEF IInv, TypeOK, DecisionInv
<1> QED BY <1>4, <1>5, <1>6 DEF IInv

LEMMA TimeKeeps ==
  ASSUME IInv, NEW l \in Leads, Rerun(l) \/ GrowOld(l)
  PROVE  IInv'
<1>1. UNCHANGED <<mail, goodbye, decided, Others>>
  BY DEF Rerun, GrowOld
<1>2. PICK r \in LeadRow : /\ lead' = [lead EXCEPT ![l] = r]
                           /\ r.exists = lead[l].exists /\ r.unsubscribed = lead[l].unsubscribed
                           /\ r.erased = lead[l].erased /\ r.status = lead[l].status
  <2>1. CASE Rerun(l)
    <3> DEFINE r == [lead[l] EXCEPT !.done = ~lead[l].done]
    <3>1. /\ r \in LeadRow /\ r.exists = lead[l].exists /\ r.unsubscribed = lead[l].unsubscribed
          /\ r.erased = lead[l].erased /\ r.status = lead[l].status
      BY DEF IInv, TypeOK, LeadRow
    <3>2. lead' = [lead EXCEPT ![l] = r]
      BY <2>1 DEF Rerun, IInv, TypeOK
    <3> QED BY <3>1, <3>2
  <2>2. CASE GrowOld(l)
    <3> DEFINE r == [lead[l] EXCEPT !.old = TRUE]
    <3>1. /\ r \in LeadRow /\ r.exists = lead[l].exists /\ r.unsubscribed = lead[l].unsubscribed
          /\ r.erased = lead[l].erased /\ r.status = lead[l].status
      BY DEF IInv, TypeOK, LeadRow
    <3>2. lead' = [lead EXCEPT ![l] = r]
      BY <2>2 DEF GrowOld, IInv, TypeOK
    <3> QED BY <3>1, <3>2
  <2> QED BY <2>1, <2>2
<1>3. /\ SendingInv' /\ GoodbyeInv' /\ EmailsCanBeStopped' /\ lead' \in [Leads -> LeadRow]
      /\ lead'[l] = r /\ \A k \in Leads \ {l} : lead'[k] = lead[k]
  BY <1>1, <1>2, LeadChanges
<1>4. TypeOK'
  BY <1>1, <1>3 DEF IInv, TypeOK, Others
<1>5. DecisionInv'
  BY <1>1, <1>2, <1>3 DEF IInv, DecisionInv
<1> QED BY <1>3, <1>4, <1>5 DEF IInv

LEMMA DeleteKeeps ==
  ASSUME IInv, NEW l \in Leads, DeleteRequest(l)
  PROVE  IInv'
<1>1. UNCHANGED <<tab, issued, inbox, sweep, visitor, decided, excused>> /\ Leaves({l})
  BY DEF DeleteRequest, Others
<1>2. PICK r \in LeadRow : lead' = [lead EXCEPT ![l] = r] /\ ~r.exists /\ r.status = lead[l].status
  <2> DEFINE r == [lead[l] EXCEPT !.exists = FALSE]
  <2>1. r \in LeadRow /\ ~r.exists /\ r.status = lead[l].status
    BY DEF IInv, TypeOK, LeadRow
  <2>2. lead' = [lead EXCEPT ![l] = r]
    BY DEF DeleteRequest, IInv, TypeOK
  <2> QED BY <2>1, <2>2
<1>4. /\ lead' \in [Leads -> LeadRow]
      /\ lead'[l] = r /\ \A k \in Leads \ {l} : lead'[k] = lead[k]
  BY <1>2 DEF IInv, TypeOK
<1>5. /\ mail' \in [Mails -> MailRow]
      /\ \A n \in Mails : mail[n].lead # l => mail'[n] = mail[n]
  <2> DEFINE m(n) == [mail[n] EXCEPT !.status = None, !.token = FALSE]
  <2>1. mail' = [n \in Mails |-> IF mail[n].lead = l THEN m(n) ELSE mail[n]]
    BY DEF DeleteRequest
  <2>2. \A n \in Mails : m(n) \in MailRow
    BY DEF IInv, TypeOK, MailRow
  <2> HIDE DEF m
  <2> QED BY <2>1, <2>2 DEF IInv, TypeOK
<1>6. GoodbyeInv' /\ goodbye' \in [Leads -> 0..MaxSends]
  BY <1>1, <1>2, <1>4, LeavesKeeps DEF Reachable
<1>7. TypeOK'
  BY <1>1, <1>4, <1>5, <1>6 DEF IInv, TypeOK
<1>8. SendingInv'
  BY <1>1, SendsStay
<1>9. EmailsCanBeStopped'
  BY <1>1, <1>2, <1>4, <1>5, LinksStay
<1>10. DecisionInv'
  BY <1>1, <1>2, <1>4 DEF IInv, DecisionInv
<1> QED BY <1>6, <1>7, <1>8, <1>9, <1>10 DEF IInv
-----------------------------------------------------------------------------
LEMMA NextKeeps ==
  ASSUME OutreachConstants, IInv, [Next]_vars
  PROVE  IInv'
<1>1. CASE UNCHANGED vars
  <2>1. UNCHANGED <<lead, mail, tab, issued, inbox, sweep, visitor, goodbye, decided, excused>>
    BY <1>1 DEF vars
  <2>2. TypeOK' /\ DecisionInv'
    BY <2>1 DEF IInv, TypeOK, DecisionInv
  <2>3. SendingInv' /\ GoodbyeInv' /\ EmailsCanBeStopped'
    BY <2>1, SendsStay, NobodyLeaves, LinksStay DEF Reachable
  <2> QED BY <2>2, <2>3 DEF IInv
<1>2. ASSUME NEW t \in Tabs, SendAccepted(t) \/ SendRefused(t) \/ AnswerLost(t) PROVE IInv'
  <2>1. CASE SendAccepted(t)
    BY <2>1, AnswerKeeps DEF SendAccepted, history
  <2>2. CASE SendRefused(t)
    BY <2>2, AnswerKeeps DEF SendRefused, history
  <2>3. CASE AnswerLost(t)
    BY <2>3, AnswerKeeps DEF AnswerLost
  <2> QED BY <1>2, <2>1, <2>2, <2>3
<1>3. ASSUME NEW t \in Tabs, SendFollowUp(t) \/ Crash(t) PROVE IInv'
  BY <1>2, <1>3, ReadLeadKeeps, LogKeeps, MoveStatusKeeps, CrashKeeps DEF SendFollowUp
<1>4. CASE Next
  BY <1>3, <1>4, OpenKeeps, UnsubscribeKeeps, EraseKeeps, BlankKeeps, DiesKeeps, SetLeadStatusKeeps,
     DeleteKeeps, TimeKeeps DEF Next
<1> QED BY <1>1, <1>4

THEOREM Invariance == ASSUME OutreachConstants PROVE Spec => []IInv
<1>1. Init => IInv
  BY InitHolds
<1>2. IInv /\ [Next]_vars => IInv'
  BY NextKeeps
<1> QED BY <1>1, <1>2, PTL DEF Spec

\* The variables keep their types.
THEOREM TypeCorrect == ASSUME OutreachConstants PROVE Spec => []TypeOK
<1>1. IInv => TypeOK
  BY DEF IInv
<1> QED BY <1>1, Invariance, PTL

\* Every logged email has a link of its own that stops the next ones
\* (outreach.ts:208-219).
THEOREM LinksWork == ASSUME OutreachConstants PROVE Spec => []EmailsCanBeStopped
<1>1. IInv => EmailsCanBeStopped
  BY DEF IInv
<1> QED BY <1>1, Invariance, PTL

\* No send that begins after its lead unsubscribed, was erased or deleted reaches
\* them (outreach.ts:188-190).
THEOREM GoodbyesAreKept == ASSUME OutreachConstants PROVE Spec => []GoodbyeIsKept
<1>1. IInv => GoodbyeIsKept
  BY DEF IInv, GoodbyeInv
<1> QED BY <1>1, Invariance, PTL

\* No erasure takes a client's details, whatever sends are under way
\* (retention.ts:18-27).
THEOREM ClientsAreKept == ASSUME OutreachConstants PROVE Spec => ClientsKeepTheirDetails
<1>1. ASSUME IInv, [Next]_vars, NEW l \in Leads, ~lead[l].erased, lead'[l].erased
      PROVE  decided[l] # "won"
  <2>1. CASE Erase
    BY <1>1, <2>1 DEF Erase, Expired, IInv, DecisionInv, None
  <2>2. CASE ~Erase
    <3>1. \/ lead' = lead
          \/ \E t \in Tabs : MoveStatus(t)
          \/ Unsubscribe
          \/ \E k \in Leads : DeleteRequest(k) \/ Rerun(k) \/ GrowOld(k) \/ \E s \in {"won", "ignored"} : SetLeadStatus(k, s)
      BY <1>1, <2>2 DEF Next, vars, SendFollowUp, ReadLead, SendAccepted, SendRefused, AnswerLost, Log, Crash,
                        OpenUnsubscribe, BlankCopies, SweepDies
    <3>2. CASE \E t \in Tabs : MoveStatus(t)
      BY <1>1, <3>2 DEF IInv, TypeOK, LeadRow, MoveStatus
    <3>3. CASE Unsubscribe
      BY <1>1, <3>3 DEF IInv, TypeOK, LeadRow, Unsubscribe
    <3>4. CASE \E k \in Leads : DeleteRequest(k)
      BY <1>1, <3>4 DEF IInv, TypeOK, LeadRow, DeleteRequest
    <3>5. CASE \E k \in Leads : Rerun(k)
      BY <1>1, <3>5 DEF IInv, TypeOK, LeadRow, Rerun
    <3>6. CASE \E k \in Leads : GrowOld(k)
      BY <1>1, <3>6 DEF IInv, TypeOK, LeadRow, GrowOld
    <3>7. CASE \E k \in Leads : \E s \in {"won", "ignored"} : SetLeadStatus(k, s)
      BY <1>1, <3>7 DEF IInv, TypeOK, LeadRow, SetLeadStatus
    <3> QED BY <1>1, <3>1, <3>2, <3>3, <3>4, <3>5, <3>6, <3>7
  <2> QED BY <2>1, <2>2
<1>2. IInv /\ [Next]_vars =>
        [\A l \in Leads : ~lead[l].erased /\ lead[l].erased' => decided[l] # "won"]_vars
  BY <1>1
<1> QED BY <1>2, Invariance, PTL DEF Spec, ClientsKeepTheirDetails
=============================================================================
