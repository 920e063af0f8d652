------------------------------ MODULE MCOffice ------------------------------
(* TLC instances of Rechecks, of the components beside the queue and of the  *)
(* panel program's store (MCAudits).  A behaviour is one of a single         *)
(* component: part says which, and the variables of the others stay as they  *)
(* began.                                                                    *)
EXTENDS Rechecks, MCAudits

CONSTANTS
  l1, l2, ann, bob, pat, c1, c2, None,
  Sources, Keys, Derived, Running, Mappings, Mode, Responses, MaxPeriod, Typed, \* BusinessWatch
  Tasks, MaxStarts, Rules, Target, Watches,
  Lasting,   \* the sources that are there from the start
  Editors, Wordings, Askable, Draftable, Key, Enough, Hosts, Common, Within, Names, Outputs, \* PanelDrafts
  MinDraft, MaxDrafts, MaxVersion

VARIABLES
  panel, recorded, code, script, page, backlog, had, raced, blind,   \* PanelAdmin
  user, request, form, task, cut, crossed,                           \* AccessRequests
  source, defined, metric, entries, job, stored, typed, torn, starts, \* Metrics
  watch, alert, suggested, doubled, silent, piled,                   \* BusinessWatch
  draft, live, review, edit, unasked                                 \* PanelDrafts

panelVars == <<panel, recorded, code, script, page, backlog, had, raced, blind>>
accessVars == <<user, request, form, task, cut, crossed>>
watchVars == <<source, defined, metric, entries, job, stored, typed, torn, starts,
               watch, alert, suggested, doubled, silent, piled>>

draftVars == <<draft, live, review, edit, unasked>>

PanelAdmin == INSTANCE PanelAdmin WITH
  Admins <- {ann, bob}, Contents <- {c1, c2}, MaxVersion <- 3, MaxDeploys <- 1

Access == INSTANCE AccessRequests WITH
  People <- {ann, pat}, First <- {ann}, Requests <- {q1, q2}, Forms <- {"form"}

Watch == INSTANCE BusinessWatch WITH crossed <- doubled

Drafts == INSTANCE PanelDrafts

ASSUME OfficeConstants ==
  /\ PanelAdmin!PanelAdminConstants /\ Access!AccessConstants /\ Watch!WatchConstants
  /\ Lasting \subseteq Sources /\ Drafts!DraftConstants

\* Two sources of one metric, which the owner also types in and has a rule on;
\* an answer may have a gap, and a row without a date.
ShopAndTill == {"shop", "till"}
Shop == {"shop"}
OrdersAndCash == {"orders", "cash"}
Cash == {"cash"}
BothProvideOrders == [s \in ShopAndTill |-> {"orders"}]
RowsOrSums == [s \in ShopAndTill |-> IF s = "shop" THEN "row" ELSE "sum"]
Answer(pairs) == {[period |-> p[1], value |-> p[2]] : p \in pairs}
ThreeAnswers == {{}, Answer({<<1, 4>>, <<2, 2>>}), Answer({<<1, 3>>, <<3, 1>>, <<None, 1>>})}
Orders(fields) == fields @@ [key |-> "orders"]
OneOrder == {Orders([period |-> 2, value |-> 1])}
DropAndTarget == {Orders([condition |-> "pct_drop", threshold |-> 20]),
                  Orders([condition |-> "below_target", threshold |-> None])}
TwoOfEach == [k \in OrdersAndCash |-> 2]

\* Two texts are one question, one has a URL, one a slot nobody can fill; one
\* domain is within a common one.  A snapshot needs the question about the cost.  A draft may
\* repeat a question, list a domain in both lists, or be too short.
FiveTexts == {"local", "LOCAL", "cost", "url", "slot"}
FourTexts == FiveTexts \ {"slot"}
ThreeTexts == FourTexts \ {"url"}
IgnoringCase == [t \in FiveTexts |-> IF t = "LOCAL" THEN "local" ELSE t]
WithACost == {questions \in SUBSET FiveTexts : "cost" \in questions}
ThreeHosts == {"yelp", "m.yelp", "angi"}
OneCommon == {"yelp"}
WithinYelp == [h \in ThreeHosts |-> IF h = "m.yelp" THEN {h, "yelp"} ELSE {h}]
TwoNames == {"n1", "n2"}
Says(questions, directory, reference) ==
  [questions |-> questions, directory |-> directory, reference |-> reference]
ThreeOutputs == {Says(<<"local", "LOCAL", "cost">>, {"yelp", "angi", "n/a"}, {"angi"}),
                 Says(<<"url", "cost", "local">>, {}, {"yelp", "angi"}),
                 Says(<<"cost", "cost", "slot">>, {}, {})}

\* Workers and tasks share their model values with the terminals, slots and
\* requests with the questions of MCAudits, which keeps the symmetry group small.
Symmetry == Permutations({t1, t2}) \cup Permutations({q1, q2})

officeVars == <<vars, panelVars, accessVars, watchVars, draftVars>>

OfficeInit ==
  /\ part \in {"rechecks", "panels", "drafts", "access", "store", "watch"}
  /\ AuditsInit /\ Init /\ PanelAdmin!Init /\ Access!Init /\ Watch!WatchInit /\ Drafts!DraftsInit
  /\ part # "panels" => code.content = None
  /\ part # "access" => user[pat] = None
  \* One source and three calls, or two and two.
  /\ \A s \in Lasting : source[s] = "active"
  /\ starts = Cardinality({s \in Sources \ Lasting : source[s] = "active"})
  /\ part # "watch" => \A s \in Sources : source[s] = "active"

OfficeNext ==
  \/ part = "rechecks" /\ Next /\ UNCHANGED <<AuditsVars, panelVars, accessVars, watchVars, draftVars>>
  \/ part = "panels" /\ PanelAdmin!Next /\ UNCHANGED <<AuditsVars, vars, accessVars, watchVars, draftVars>>
  \/ part = "drafts" /\ Drafts!DraftsNext /\ UNCHANGED <<AuditsVars, vars, panelVars, accessVars, watchVars>>
  \/ part = "access" /\ Access!Next /\ UNCHANGED <<AuditsVars, vars, panelVars, watchVars, draftVars>>
  \/ part = "watch" /\ Watch!Next /\ UNCHANGED <<AuditsVars, vars, panelVars, accessVars, draftVars>>
  \/ part = "store" /\ AuditsNext /\ UNCHANGED officeVars

OfficeSpec == OfficeInit /\ [][OfficeNext]_<<AuditsVars, officeVars>>

\* Once an email is claimed there is one re-check and nobody starts another:
\* the emails of two re-checks do not meet, and the sweeps that start them
\* overlap freely before.  One lead is erased or
\* deleted.  The store has two audits.  The calls that write the metrics overlap
\* when there are two sources, and come one after another in the longer
\* behaviours with one source, where they overlap with two watches.  Reviews
\* still open when the panel is live are not followed, nor edits of a panel that
\* had two drafts, which are those of a panel that had the second one alone.
OneMailed ==
  (\E i \in Slots : recheck[i].attempts > 0) =>
    /\ \A w \in Workers : sweeper[w].pc \notin {"select", "start", "insert"}
    /\ Cardinality({i \in Slots : run[i].status # "absent"}) = 1
OneGone == Cardinality({l \in Leads : ~lead[l].exists \/ lead[l].erased}) <= 1
TwoAudits == Len(audit) <= 2
OneWriter == (\A s \in Sources \ Lasting : source[s] = "active") \/ Cardinality({t \in Tasks : job[t].pc # "idle"}) <= 1
OneReviewed ==
  /\ live.version > 0 => \A a \in Editors : review[a].pc \in {"idle", "publish"}
  /\ live.version > 1 => draft.n = 1
Bounded == OneMailed /\ OneGone /\ TwoAudits /\ OneWriter /\ OneReviewed

EditsAreSound == PanelAdmin!EditsAreSound
WatchIsSound == part = "watch" => Watch!WatchIsSound
DraftsAreSound == Drafts!DraftsAreSound
DecisionIsFinal == Access!DecisionIsFinal
AdminsAreTrusted == Access!AdminsAreTrusted
=============================================================================
