-------------------------- MODULE QuestionSampling --------------------------
(***************************************************************************)
(* From a panel to the job of a snapshot: fillSlots and sampleQuestions    *)
(* (src/lib/aeo/questions.ts), buildCannedPlan (src/lib/aeo/plan.ts),      *)
(* buildJob (src/lib/aeo/job.ts) and what the panel program asks of a job  *)
(* (panel/src/Job.php).  One turn of a loop is one action.                 *)
(*                                                                         *)
(* A question is its position in the panel.  Which of a category's         *)
(* questions are taken depends on a hash of the domain; here it is any of  *)
(* them, always the same.  How many are taken does not depend on it.       *)
(***************************************************************************)
EXTENDS Integers, Sequences, FiniteSets

CONSTANTS
  Panels,        \* their slugs
  CategoryOf,    \* [Panels -> sequence of categories]: of each question
  Twins,         \* [Panels -> positions the {service} template can turn into]
  Alphabetical,  \* the categories, sorted
  Counts,        \* how many questions a run may be asked for; a full run, all
  MaxQuestions   \* MAX_QUESTIONS of Job.php

\* What the constants must satisfy: an instance assumes it.
SamplingConstants ==
  /\ \A p \in Panels : /\ Len(CategoryOf[p]) \in 1..MaxQuestions
                       /\ \A i \in 1..Len(CategoryOf[p]) :
                            \E n \in DOMAIN Alphabetical : Alphabetical[n] = CategoryOf[p][i]
                       /\ Twins[p] \subseteq 2..Len(CategoryOf[p])
  /\ Alphabetical \in Seq(STRING) /\ \A m, n \in DOMAIN Alphabetical : Alphabetical[m] = Alphabetical[n] => m = n
  /\ Counts \subseteq Nat \ {0} /\ MaxQuestions \in Nat

VARIABLES
  pc,
  panel,
  service,     \* the position whose question the service typed makes of the first
  at,          \* the question, or the turn of the round, that comes next
  filled,      \* the questions kept by fillSlots
  count,
  chosen,
  progressed,  \* whether this round has taken a question
  named        \* whether the run's first request still has a business name

vars == <<pc, panel, service, at, filled, count, chosen, progressed, named>>
-----------------------------------------------------------------------------
Size(p) == Len(CategoryOf[p])
Category(i) == CategoryOf[panel][i]

\* A text is named by the panel's own question that reads so.
Text(i) == IF i = 1 THEN service ELSE i

Init ==
  /\ pc = "fill" /\ at = 1 /\ filled = {}
  /\ panel \in Panels /\ service \in {1} \cup Twins[panel]
  /\ count = 0 /\ chosen = {} /\ progressed = FALSE /\ named = TRUE
-----------------------------------------------------------------------------
(* fillSlots *)

\* Mutant: a text that was seen before is kept.
NeverSeen(i) == FALSE
Seen(i) == \E j \in filled : Text(j) = Text(i)

Fill ==
  /\ pc = "fill" /\ at <= Size(panel)
  /\ filled' = IF Seen(at) THEN filled ELSE filled \cup {at}
  /\ at' = at + 1
  /\ UNCHANGED <<pc, panel, service, count, chosen, progressed, named>>
-----------------------------------------------------------------------------
(* sampleQuestions *)

\* CATEGORY_MINIMUMS, one entry for each question they ask for.
Minimums ==
  <<"service-geo", "service-geo", "service-geo", "service-geo", "cost", "cost", "permits", "permits">>

Sample ==
  /\ pc = "fill" /\ at > Size(panel)
  /\ \E n \in Counts :
       /\ count' = n
       /\ IF n >= Cardinality(filled)
            THEN pc' = "planned" /\ chosen' = filled
            ELSE pc' = "minimums" /\ chosen' = {}
  /\ at' = 1
  /\ UNCHANGED <<panel, service, filled, progressed, named>>

Wanting == Cardinality(chosen) < count
Left(c) == {i \in filled \ chosen : Category(i) = c}

\* takeNext
Take(c) == chosen' = IF Left(c) = {} THEN chosen
                     ELSE chosen \cup {CHOOSE i \in Left(c) : TRUE}

TakeMinimum ==
  /\ pc = "minimums" /\ at <= Len(Minimums)
  /\ IF Wanting THEN Take(Minimums[at]) ELSE UNCHANGED chosen
  /\ at' = at + 1
  /\ UNCHANGED <<pc, panel, service, filled, count, progressed, named>>

StartRound ==
  /\ \/ pc = "minimums" /\ at > Len(Minimums)
     \/ pc = "round" /\ at > Len(Alphabetical) /\ progressed
  /\ at' = 1 /\ progressed' = FALSE
  /\ pc' = IF Wanting THEN "round" ELSE "planned"
  /\ UNCHANGED <<panel, service, filled, count, chosen, named>>

\* Mutant: the round goes on after the last question wanted.
WantsAlways == TRUE
Wants == Wanting

TakeTurn ==
  /\ pc = "round" /\ at <= Len(Alphabetical)
  /\ LET c == Alphabetical[at] IN
       IF Wants /\ Left(c) # {}
         THEN Take(c) /\ progressed' = TRUE
         ELSE UNCHANGED <<chosen, progressed>>
  /\ at' = at + 1
  /\ UNCHANGED <<pc, panel, service, filled, count, named>>

RoundFails ==
  /\ pc = "round" /\ at > Len(Alphabetical) /\ ~progressed
  /\ pc' = "planned"
  /\ UNCHANGED <<panel, service, at, filled, count, chosen, progressed, named>>
-----------------------------------------------------------------------------
(* The job *)

\* The retention sweep may have erased the business name of the run's first
\* request before the run was started again.
Erase ==
  /\ pc = "planned" /\ named
  /\ named' = FALSE
  /\ UNCHANGED <<pc, panel, service, at, filled, count, chosen, progressed>>

Accepts == named /\ Cardinality(chosen) <= MaxQuestions

SendJob ==
  /\ pc = "planned"
  /\ pc' = IF chosen = {} THEN "permanent" ELSE IF Accepts THEN "accepted" ELSE "rejected"
  /\ UNCHANGED <<panel, service, at, filled, count, chosen, progressed, named>>

Next ==
  Fill \/ Sample \/ TakeMinimum \/ StartRound \/ TakeTurn \/ RoundFails \/ Erase \/ SendJob

Spec == Init /\ [][Next]_vars
-----------------------------------------------------------------------------
(* Properties *)

TypeOK ==
  /\ pc \in {"fill", "minimums", "round", "planned", "permanent", "accepted", "rejected"}
  /\ panel \in Panels /\ service \in {1} \cup Twins[panel]
  /\ at \in Nat \ {0}
  /\ filled \subseteq 1..Size(panel) /\ chosen \subseteq filled
  /\ count \in Counts \cup {0}
  /\ progressed \in BOOLEAN /\ named \in BOOLEAN

Planned == pc \notin {"fill", "minimums", "round"}
Texts == {Text(i) : i \in 1..Size(panel)}
Of(set, c) == {i \in set : Category(i) = c}
Number(set, c) == Cardinality(Of(set, c))

\* A plan has as many questions as it was asked for, or every text the panel
\* can ask, and none twice: a plan with a text twice could never be finished
\* (questions.ts:12-19).
PlanIsWhole ==
  /\ \A i, j \in chosen : Text(i) = Text(j) => i = j
  /\ IF count >= Cardinality(Texts) THEN {Text(i) : i \in chosen} = Texts
                                    ELSE Cardinality(chosen) = count

\* Each minimum is met where the questions suffice, and beyond the minimums no
\* category has two questions more than one with questions left
\* (questions.ts:45-54, 73-75).
PlanIsBalanced ==
  LET minimum(c) == Cardinality({n \in DOMAIN Minimums : Minimums[n] = c})
      extra(c) == Number(chosen, c) - minimum(c)
      left(c) == Number(filled, c) > Number(chosen, c)
      all == {Category(i) : i \in filled}
  IN  count >= Len(Minimums) =>
        \A c \in all : left(c) => extra(c) >= 0 /\ \A d \in all : extra(d) <= extra(c) + 1

\* The panel program refuses a job only because retention erased the name of
\* the business (Job.php:55-58).
RefusedOnlyUnnamed == pc = "rejected" => ~named

\* What fillSlots and sampleQuestions make of any canned panel and service is a
\* snapshot that can be asked, finished and compared.
SnapshotsAreSound == Planned => PlanIsWhole /\ PlanIsBalanced /\ RefusedOnlyUnnamed
=============================================================================
