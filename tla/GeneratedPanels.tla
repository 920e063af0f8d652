-------------------------- MODULE GeneratedPanels --------------------------
(***************************************************************************)
(* The panel of a business no canned panel fits: its homepage is read      *)
(* (fetchHomepage, src/lib/aeo/site.ts), Claude writes questions, they are *)
(* cleaned and stored (src/lib/aeo/generate.ts), and each attempt at the   *)
(* run plans a snapshot of them (generateForRun and buildGeneratedPlan of  *)
(* src/lib/aeo/plan.ts).  A call that ends, or one turn of a loop, is one  *)
(* action.                                                                 *)
(*                                                                         *)
(* A question is its category, what it says but for the place, and which   *)
(* place it says.  Who holds the run while it is planned is in RunQueue,   *)
(* which questions a snapshot takes in QuestionSampling; reference domains *)
(* and the text of the homepage are left out.                              *)
(***************************************************************************)
EXTENDS Naturals, Sequences, FiniteSets

CONSTANTS
  Bodies,          \* what a question says, whatever the letters' case
  Unfit,           \* of them, those of illegal length, with a URL, or that name the business
  Seeking,         \* those that look for somebody to do it (SEEKS_PROVIDER)
  Slotted,         \* those with something like a {slot}
  Writings,        \* what Claude may write: sequences of questions
  MinGenerated,    \* MIN_GENERATED_QUESTIONS
  MaxGenerated,    \* MAX_GENERATED_QUESTIONS
  MaxHops,         \* maxRedirects of fetchPage
  MaxGenerations,  \* bound on the attempts
  Snapshots        \* how many questions an attempt may be asked for

GENERATED_CATEGORIES ==
  {"service-geo", "cost", "comparison", "vendor-selection", "problem", "application",
   "technical", "permits", "buyer-role"}
LOCAL_CATEGORIES == {"service-geo", "vendor-selection", "problem", "application", "buyer-role"}

\* "region" is the state, its code or a county; "full" is what is added.
PanelQuestion == [c: GENERATED_CATEGORIES, body: Bodies, place: {"none", "region", "city", "full"}]

\* What the constants must satisfy: an instance assumes it.
GenerationConstants ==
  /\ Writings \subseteq Seq(PanelQuestion)
  /\ MinGenerated \in Nat /\ MaxGenerated \in Nat /\ MinGenerated <= MaxGenerated
  /\ MaxHops \in Nat /\ MaxGenerations \in Nat \ {0} /\ Snapshots \subseteq Nat \ {0}

VARIABLES
  making,       \* "fetch", "write", "clean", "plan", "asked", "permanent", "failed"
  namesake,     \* whether the name of its city has what the business is called
  scheme, hop,  \* of the request for the homepage that comes next
  sent,         \* history: the requests sent by this attempt
  refused,      \* history: those sent when one was refused for safety, or 0
  writing, turn, \* what Claude wrote, and the question that comes next
  filtered,     \* the questions kept so far
  generated,    \* aeo_run.generated_panel, <<>> for null
  plan,         \* the questions asked, as positions in generated
  generations   \* the attempts begun

generatedVars == <<making, namesake, scheme, hop, sent, refused, writing, turn, filtered, generated, plan, generations>>

GeneratedInit ==
  /\ making = "fetch" /\ scheme = "https" /\ hop = 0 /\ sent = 0 /\ refused = 0
  /\ namesake \in BOOLEAN
  /\ writing = <<>> /\ turn = 1 /\ filtered = <<>> /\ generated = <<>> /\ plan = {}
  /\ generations = 1
-----------------------------------------------------------------------------
(* fetchHomepage *)

\* A redirect is followed by hand, and its address checked like the first.
Redirect ==
  /\ making = "fetch" /\ hop < MaxHops
  /\ hop' = hop + 1 /\ sent' = sent + 1
  /\ UNCHANGED <<making, namesake, scheme, refused, writing, turn, filtered, generated, plan, generations>>

\* No answer in time, no HTML, one redirect too many: over http once more, with
\* redirects and a deadline of its own; a second failure leaves the site unread.
FetchFails ==
  /\ making = "fetch"
  /\ sent' = sent + 1 /\ hop' = 0
  /\ IF scheme = "https" THEN scheme' = "http" /\ UNCHANGED making
                         ELSE making' = "write" /\ UNCHANGED scheme
  /\ UNCHANGED <<namesake, refused, writing, turn, filtered, generated, plan, generations>>

\* checkUrl or guardedLookup refuses an address: nothing is tried again.
FetchRefused ==
  /\ making = "fetch"
  /\ sent' = sent + 1 /\ refused' = sent' /\ making' = "write"
  /\ UNCHANGED <<namesake, scheme, hop, writing, turn, filtered, generated, plan, generations>>

PageRead ==
  /\ making = "fetch"
  /\ sent' = sent + 1 /\ making' = "write"
  /\ UNCHANGED <<namesake, scheme, hop, refused, writing, turn, filtered, generated, plan, generations>>
-----------------------------------------------------------------------------
(* generatePanel *)

Claude(written) ==
  /\ making = "write"
  /\ making' = "clean" /\ writing' = written /\ turn' = 1 /\ filtered' = <<>>
  /\ UNCHANGED <<namesake, scheme, hop, sent, refused, generated, plan, generations>>

\* Refused, cut short or not of the schema, or the call failed.
GenerationFails ==
  /\ making = "write"
  /\ making' = "failed"
  /\ UNCHANGED <<namesake, scheme, hop, sent, refused, writing, turn, filtered, generated, plan, generations>>

Dropped(question) ==
  question.body \in Unfit \/ (namesake /\ question.place \in {"city", "full"})

IsLocal(question) ==
  question.c \in LOCAL_CATEGORIES /\ (question.c = "problem" => question.body \in Seeking)

\* withLocation: "in City, ST" at the end, or for "near me".
Located(question) ==
  IF IsLocal(question) /\ question.place = "none" THEN [question EXCEPT !.place = "full"] ELSE question

SameText(a, b) == a.body = b.body /\ a.place = b.place
Seen(question) == \E i \in DOMAIN filtered : SameText(filtered[i], question)

CleanQuestion ==
  /\ making = "clean" /\ turn <= Len(writing)
  /\ LET question == Located(writing[turn]) IN
       filtered' = IF Dropped(writing[turn]) \/ Seen(question) THEN filtered ELSE Append(filtered, question)
  /\ turn' = turn + 1
  /\ UNCHANGED <<making, namesake, scheme, hop, sent, refused, writing, generated, plan, generations>>

StorePanel ==
  /\ making = "clean" /\ turn > Len(writing)
  /\ IF Len(filtered) < MinGenerated
       THEN making' = "failed" /\ UNCHANGED generated
       ELSE /\ making' = "plan"
            /\ generated' = SubSeq(filtered, 1, IF Len(filtered) <= MaxGenerated THEN Len(filtered) ELSE MaxGenerated)
  /\ UNCHANGED <<namesake, scheme, hop, sent, refused, writing, turn, filtered, plan, generations>>
-----------------------------------------------------------------------------
(* buildGeneratedPlan *)

\* fillSlots with no values.
Fillable ==
  {i \in DOMAIN generated :
     /\ generated[i].body \notin Slotted
     /\ \A j \in 1..(i - 1) : SameText(generated[j], generated[i]) => generated[j].body \in Slotted}

\* sampleQuestions takes as many as it is asked for, or all there are.
PlanSnapshot ==
  /\ making = "plan"
  /\ \E count \in Snapshots :
       plan' \in {set \in SUBSET Fillable :
                    IF count >= Cardinality(Fillable) THEN set = Fillable ELSE Cardinality(set) = count}
  /\ making' = IF plan' = {} THEN "permanent" ELSE "asked"
  /\ UNCHANGED <<namesake, scheme, hop, sent, refused, writing, turn, filtered, generated, generations>>

\* The attempt fails and another begins: a stored panel is not generated again.
NextAttempt ==
  /\ making \in {"failed", "asked"} /\ generations < MaxGenerations
  /\ generations' = generations + 1
  /\ making' = IF generated = <<>> THEN "fetch" ELSE "plan"
  /\ scheme' = "https" /\ hop' = 0 /\ sent' = 0 /\ refused' = 0
  /\ UNCHANGED <<namesake, writing, turn, filtered, generated, plan>>

GeneratedNext ==
  \/ Redirect \/ FetchFails \/ FetchRefused \/ PageRead
  \/ GenerationFails \/ (\E written \in Writings : Claude(written))
  \/ CleanQuestion \/ StorePanel
  \/ PlanSnapshot \/ NextAttempt

GeneratedSpec == GeneratedInit /\ [][GeneratedNext]_generatedVars
-----------------------------------------------------------------------------
(* Properties *)

TypeOK ==
  /\ making \in {"fetch", "write", "clean", "plan", "asked", "permanent", "failed"}
  /\ namesake \in BOOLEAN
  /\ scheme \in {"https", "http"} /\ hop \in 0..MaxHops /\ sent \in Nat /\ refused \in Nat
  /\ writing \in Seq(PanelQuestion) /\ turn \in Nat \ {0}
  /\ filtered \in Seq(PanelQuestion) /\ generated \in Seq(PanelQuestion)
  /\ plan \subseteq DOMAIN generated
  /\ generations \in 1..MaxGenerations

\* Reading a homepage ends: two schemes, each with its redirects, and no
\* request after one that was refused (site.ts:213-239).
ReadingEnds ==
  /\ sent <= 2 * (MaxHops + 1)
  /\ refused # 0 => sent = refused

\* What is stored can be asked: no text twice once the place was added, enough
\* of them, and who looks for a provider says where (generate.ts:138-216).
\* Nothing names the business, unless the city that was added does.
PanelIsFit ==
  generated # <<>> =>
    /\ Len(generated) \in MinGenerated..MaxGenerated
    /\ \A i, j \in DOMAIN generated : SameText(generated[i], generated[j]) => i = j
    /\ \A i \in DOMAIN generated :
         /\ generated[i].body \notin Unfit
         /\ IsLocal(generated[i]) => generated[i].place # "none"
         /\ namesake => \/ generated[i].place \in {"none", "region"}
                        \/ generated[i].place = "full" /\ IsLocal(generated[i])

\* A plan asks what has no slot, and gives up only when nothing is without one
\* (plan.ts:88-96).
PlanIsFit ==
  /\ \A i, j \in plan : SameText(generated[i], generated[j]) => i = j
  /\ \A i \in plan : generated[i].body \notin Slotted
  /\ making = "permanent" => \A i \in DOMAIN generated : generated[i].body \in Slotted

\* A generated panel is read, cleaned and planned to an end, and what is asked
\* can be answered.
GeneratedIsSound == ReadingEnds /\ PanelIsFit /\ PlanIsFit
=============================================================================
