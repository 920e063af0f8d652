------------------------------ MODULE MCEmails ------------------------------
(* TLC instances of the emails to leads, of the links they carry and of the  *)
(* limits on what visitors send.  A behaviour is one of ReportEmails, of     *)
(* Outreach, of ReportLinks or of RateLimit: part says which, and the        *)
(* variables of the others stay as they began.                               *)
EXTENDS ReportEmails

CONSTANTS
  q1, w1, w2, w3, l1, l2, t1, t2,
  Leads, Tabs, MaxSends, OutreachFaults,          \* Outreach
  LinkRequests, MaxRuns, MaxMarks, Visitors,      \* ReportLinks
  Calls, Closed, Keys, KeysOf, Limit, MaxWindow   \* RateLimit

VARIABLES part, lead, copies, tab, issued, box, sweep, visitor, goodbye, decided, unlogged,
          report, asked, rechecked, mark, page, linked, used, latecomers,
          now, bucket, check, call, late, lost

\* The requests of one person.
OnePerson == [l \in Leads |-> "person"]

Outreach == INSTANCE Outreach WITH
  mail <- copies, inbox <- box, excused <- unlogged, Faults <- OutreachFaults,
  Person <- OnePerson, Rechecked <- {l1}

\* The runs have two requests, which may share a run, and a second run: the
\* other one's, a re-run or a re-check.
Links == INSTANCE ReportLinks WITH
  run <- report, request <- asked, recheck <- rechecked, mailed <- linked, Requests <- LinkRequests

\* The runs have two forms and a click from one address, which allows for one of
\* them.
Limits == INSTANCE RateLimit
ByAddress == [c \in Calls |-> IF c = 1 THEN {"ip", "email"} ELSE {"ip"}]
OneEach == [k \in Keys |-> 1]

ASSUME EmailsConstants ==
  Outreach!OutreachConstants /\ Links!LinkConstants /\ Limits!RateLimitConstants

outreachVars == <<lead, copies, tab, issued, box, sweep, visitor, goodbye, decided, unlogged>>
linkVars == <<report, asked, rechecked, mark, page, linked, used, latecomers>>
limitVars == <<now, bucket, check, call, late, lost>>
emailsVars == <<part, vars, outreachVars, linkVars, limitVars>>

EmailsInit ==
  /\ part \in {"reports", "followups", "links", "limits"}
  /\ Init /\ Outreach!Init /\ Links!Init /\ Limits!Init
  /\ part # "followups" => \A l \in Leads : lead[l].consent    \* they do not matter there
  /\ part # "links" => \A q \in LinkRequests : asked[q].source = "form"

Reports == part = "reports" /\ Next /\ UNCHANGED <<part, outreachVars, linkVars, limitVars>>
FollowUps == part = "followups" /\ Outreach!Next /\ UNCHANGED <<part, vars, linkVars, limitVars>>
FollowingLinks == part = "links" /\ Links!Next /\ UNCHANGED <<part, vars, outreachVars, limitVars>>
Limiting == part = "limits" /\ Limits!Next /\ UNCHANGED <<part, vars, outreachVars, linkVars>>
EmailsNext == Reports \/ FollowUps \/ FollowingLinks \/ Limiting

EmailsSpec == EmailsInit /\ [][EmailsNext]_emailsVars

\* Each part's own fairness (FairSpec of ReportEmails and of Outreach).
EmailsFairSpec ==
  /\ EmailsSpec
  /\ \A w \in Workers : WF_vars(part = "reports" /\ Sweep(w))
  /\ \A q \in Requests : WF_vars(part = "reports" /\ RunDone(q))
  /\ WF_vars(part = "reports" /\ Tick)
  /\ WF_outreachVars(part = "followups" /\ Outreach!Erase)
  /\ SF_outreachVars(part = "followups" /\ Outreach!BlankCopies)

EmailsCanBeStopped == Outreach!EmailsCanBeStopped
GoodbyeIsKept == Outreach!GoodbyeIsKept
ClientsKeepTheirDetails == Outreach!ClientsKeepTheirDetails
LinksAreHonest == Links!LinksAreHonest
LimitsHold == Limits!LimitsHold
ErasedCopiesGo == Outreach!ErasedCopiesGo
GoodbyeIsForThePerson == Outreach!GoodbyeIsForThePerson
ReportsAreEmailed == part = "reports" => EveryReportIsEmailed
=============================================================================
