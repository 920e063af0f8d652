------------------------------- MODULE Audits -------------------------------
(***************************************************************************)
(* The stand-alone audits of the panel program: the commands run, retry    *)
(* and reclassify (panel/panel.php) over their SQLite store                *)
(* (panel/src/Db.php), what an engine's reply counts as (panel/src/        *)
(* Engines, panel/src/Analyzer.php), and the three places that sum a       *)
(* question up: Report.php, Job.php and the web report                     *)
(* (src/lib/aeo/report.ts).                                                *)
(*                                                                         *)
(* Every statement is an action of its own, so that commands in two        *)
(* terminals interleave and a killed one stops anywhere.  One client; the  *)
(* hosts an answer may cite are the client's own site and one other, which *)
(* the client's profile lists as a directory, as a reference, or not.      *)
(* That asking a question ends in exactly one row is shown in PanelJob.    *)
(***************************************************************************)
EXTENDS Integers, Sequences, FiniteSets

CONSTANTS
  Terminals,
  Questions,     \* query_panel of the client's profile
  EngineLists,   \* what --engine may name
  Answers,       \* what an engine may reply, as AnswerType
  Bounds         \* bounds: how many commands are given, edits of the profile made

\* An error is kept instead of the answer; it searched the web; it has prose; the
\* brand is named in it; its sources are the client's site, the other site.
AnswerType == [{"failed", "searched", "text", "named", "own", "site"} -> BOOLEAN]
Listings == {"directory", "reference", "rival"}

Adapters == {"claude", "gemini", "openai", "perplexity"}

AuditConstants ==
  /\ Answers \subseteq AnswerType /\ \A a \in Answers : a.named => a.text
  /\ EngineLists \subseteq Seq(Adapters) \ {<<>>}
  /\ Bounds \subseteq Nat \X Nat

VARIABLES
  listing,     \* how the profile lists the other site
  run,         \* the table runs, by id
  rows,        \* the table results
  nextId,      \* its AUTOINCREMENT
  term,
  commands,    \* yet to be given
  edits,       \* yet to be made
  disturbed,   \* history: runs a kill hit, or that two commands worked on
  current      \* history: reclassified since the profile was last edited

vars == <<listing, run, rows, nextId, term, commands, edits, disturbed, current>>

Idle == [pc |-> "idle", engines |-> <<>>, run |-> 0, ids |-> {}, todo |-> {},
         answered |-> 0, failed |-> 0, listing |-> "rival", clean |-> FALSE]

Init ==
  /\ listing = "rival" /\ run = <<>> /\ rows = {} /\ nextId = 1
  /\ term = [t \in Terminals |-> Idle]
  /\ \E b \in Bounds : commands = b[1] /\ edits = b[2]
  /\ disturbed = {} /\ current = TRUE
-----------------------------------------------------------------------------
(* What a reply counts as *)

\* The adapters' parse: text, searches and sources come in any mix, even sources
\* without a word of text; Gemini takes an empty answer for an error, and every
\* answer of Perplexity has searched.
ClaudeParse == Answers
OpenAIParse == Answers
GeminiParse == {a \in Answers : a.failed \/ a.text}
PerplexityParse == {a \in Answers : a.failed \/ a.searched}
Possible(engine) ==
  CASE engine = "claude" -> ClaudeParse [] engine = "openai" -> OpenAIParse
    [] engine = "gemini" -> GeminiParse [] engine = "perplexity" -> PerplexityParse

\* Analyzer::analyze; a failed row has none of it.
Analyze(a, l) ==
  [own_cited |-> a.own,
   name_mentioned |-> a.named,
   directory_only |-> ~a.own /\ a.named /\ a.site /\ l = "directory",
   rival |-> a.site /\ l = "rival"]
-----------------------------------------------------------------------------
Of(r) == {row \in rows : row.run = r}
Errored(r) == {row \in Of(r) : row.answer.failed}
Answered(r) == Of(r) \ Errored(r)
WorksOn(t, r) == term[t].pc \in {"delete", "ask", "again"} /\ term[t].run = r

Command(t) == term[t].pc = "idle" /\ commands > 0 /\ commands' = commands - 1

RunCommand(t) ==
  /\ Command(t)
  /\ \E es \in EngineLists :
       term' = [term EXCEPT ![t] = [Idle EXCEPT !.pc = "start", !.engines = es, !.listing = listing]]
  /\ UNCHANGED <<listing, run, rows, nextId, edits, disturbed, current>>

StartRun(t) ==
  /\ term[t].pc = "start"
  /\ run' = Append(run, [engine |-> Head(term[t].engines), finished |-> FALSE,
                         query_count |-> 0, error_count |-> 0])
  /\ term' = [term EXCEPT ![t] = [@ EXCEPT !.pc = "ask", !.engines = Tail(term[t].engines), !.run = Len(run'),
                                           !.todo = {<<0, q>> : q \in Questions},
                                           !.answered = 0, !.failed = 0]]
  /\ UNCHANGED <<listing, rows, nextId, commands, edits, disturbed, current>>

\* Mutant: INTEGER PRIMARY KEY alone gives the largest id plus one.
LargestPlusOne == IF rows = {} THEN 1 ELSE 1 + CHOOSE n \in {r.id : r \in rows} : \A r \in rows : r.id <= n
FreshId == nextId

\* runPanel's callback: saveResult.  Questions are asked several at a time, and
\* are answered in any order.
SaveResult(t) ==
  /\ term[t].pc \in {"ask", "again"}
  /\ \E w \in term[t].todo, a \in Possible(run[term[t].run].engine) :
       /\ rows' = rows \cup {[id |-> FreshId, run |-> term[t].run, query |-> w[2], answer |-> a,
                              verdict |-> Analyze(a, term[t].listing)]}
       /\ nextId' = FreshId + 1
       /\ term' = [term EXCEPT ![t].todo = @ \ {w},
                               ![t].answered = IF a.failed THEN @ ELSE @ + 1,
                               ![t].failed = IF a.failed THEN @ + 1 ELSE @]
  /\ UNCHANGED <<listing, run, commands, edits, disturbed, current>>

FinishRun(t) ==
  /\ term[t].pc = "ask" /\ term[t].todo = {}
  /\ run' = [run EXCEPT ![term[t].run] = [@ EXCEPT !.finished = TRUE, !.query_count = term[t].answered,
                                                   !.error_count = term[t].failed]]
  /\ term' = [term EXCEPT ![t] = IF @.engines = <<>> THEN Idle
                                 ELSE [@ EXCEPT !.pc = "start", !.run = 0]]
  /\ UNCHANGED <<listing, rows, nextId, commands, edits, disturbed, current>>

\* retry: the errored rows are read; they are the panel and the rows to drop.
RetryCommand(t) ==
  /\ Command(t)
  /\ \E r \in DOMAIN run :
       /\ Errored(r) # {}
       /\ term' = [term EXCEPT ![t] = [Idle EXCEPT !.pc = "delete", !.run = r, !.listing = listing,
                                         !.ids = {row.id : row \in Errored(r)},
                                         !.todo = {<<row.id, row.query>> : row \in Errored(r)}]]
       /\ disturbed' = disturbed \cup {s \in {r} : \E u \in Terminals : WorksOn(u, s)}
  /\ UNCHANGED <<listing, run, rows, nextId, edits, current>>

\* Mutant: the failed rows stay beside the new ones.
Everything(t) == rows
Remaining(t) == {row \in rows : row.id \notin term[t].ids}

DeleteResults(t) ==
  /\ term[t].pc = "delete"
  /\ rows' = Remaining(t)
  /\ term' = [term EXCEPT ![t].pc = "again"]
  /\ UNCHANGED <<listing, run, nextId, commands, edits, disturbed, current>>

RecountRun(t) ==
  /\ term[t].pc = "again" /\ term[t].todo = {}
  /\ LET r == term[t].run IN
       run' = [run EXCEPT ![r] = [@ EXCEPT !.finished = TRUE, !.query_count = Cardinality(Answered(r)),
                                           !.error_count = Cardinality(Errored(r))]]
  /\ term' = [term EXCEPT ![t] = Idle]
  /\ UNCHANGED <<listing, rows, nextId, commands, edits, disturbed, current>>

\* reclassify: the rows without an error are read, then updated one by one.
ReclassifyCommand(t) ==
  /\ Command(t)
  /\ LET answered == {row \in rows : ~row.answer.failed} IN
       /\ answered # {}
       /\ term' = [term EXCEPT ![t] = [Idle EXCEPT !.pc = "reclassify", !.listing = listing,
                     !.ids = {row.id : row \in answered},
                     !.clean = \A u \in Terminals : term[u].pc = "idle" \/ term[u].listing = listing]]
  /\ UNCHANGED <<listing, run, rows, nextId, edits, disturbed, current>>

UpdateVerdict(t) ==
  /\ term[t].pc = "reclassify"
  /\ LET id == CHOOSE n \in term[t].ids : \A m \in term[t].ids : n <= m
         last == term[t].ids = {id}
     IN  /\ rows' = {IF row.id = id THEN [row EXCEPT !.verdict = Analyze(row.answer, term[t].listing)]
                                    ELSE row : row \in rows}
         /\ term' = [term EXCEPT ![t] = IF last THEN Idle ELSE [@ EXCEPT !.ids = term[t].ids \ {id}]]
         /\ current' = (current \/ (last /\ term[t].clean))
  /\ UNCHANGED <<listing, run, nextId, commands, edits, disturbed>>

Kill(t) ==
  /\ term[t].pc # "idle"
  /\ term' = [term EXCEPT ![t] = Idle]
  /\ disturbed' = disturbed \cup {r \in DOMAIN run : WorksOn(t, r)}
  /\ UNCHANGED <<listing, run, rows, nextId, commands, edits, current>>

\* Somebody edits clients/<slug>.json.
EditProfile ==
  /\ edits > 0 /\ edits' = edits - 1
  /\ listing' \in Listings \ {listing}
  /\ term' = [t \in Terminals |-> [term[t] EXCEPT !.clean = FALSE]]
  /\ current' = FALSE
  /\ UNCHANGED <<run, rows, nextId, commands, disturbed>>

Next ==
  \/ \E t \in Terminals :
       \/ RunCommand(t) \/ StartRun(t) \/ SaveResult(t) \/ FinishRun(t)
       \/ RetryCommand(t) \/ DeleteResults(t) \/ RecountRun(t)
       \/ ReclassifyCommand(t) \/ UpdateVerdict(t) \/ Kill(t)
  \/ EditProfile

Spec == Init /\ [][Next]_vars
-----------------------------------------------------------------------------
(* Three summaries of the same rows *)

\* latestRunPerEngine: the last finished run of every engine.
LatestRuns ==
  {r \in DOMAIN run : /\ run[r].finished
                      /\ \A s \in r + 1..Len(run) : run[s].finished => run[s].engine # run[r].engine}

\* Report::aggregate.
PhpVerdict(row) ==
  IF row.verdict.own_cited THEN "cited"
  ELSE IF row.verdict.name_mentioned THEN "named"
  ELSE IF row.verdict.directory_only THEN "directory"
  ELSE IF row.answer.searched THEN "absent"
  ELSE "ungrounded"
PhpQuestion(set) ==
  LET verdicts == {PhpVerdict(row) : row \in {s \in set : ~s.answer.failed}}
  IN  IF verdicts = {} THEN "unanswered"
      ELSE IF "cited" \in verdicts THEN "cited"
      ELSE IF verdicts \cap {"named", "directory"} # {} THEN "named"
      ELSE IF verdicts = {"ungrounded"} THEN "unmeasured"
      ELSE "invisible"

\* Job::result: the questions counted as cited and as named.
JobQuestion(set) ==
  LET some(field) == \E row \in set : ~row.answer.failed /\ row.verdict[field]
  IN  IF some("own_cited") THEN "cited" ELSE IF some("name_mentioned") THEN "named" ELSE "neither"

\* verdictOf and buildReport: a question takes its best verdict.
\* Mutant: an answer from memory counts for nothing, even if it names the brand.
MemoryFirst(row) ==
  IF row.answer.failed \/ ~row.answer.text THEN "error"
  ELSE IF ~row.answer.searched THEN "no_search"
  ELSE IF row.verdict.own_cited THEN "cited"
  ELSE IF row.verdict.name_mentioned THEN "named"
  ELSE "absent"
WebVerdict(row) ==
  IF row.answer.failed \/ ~row.answer.text THEN "error"
  ELSE IF row.verdict.own_cited THEN "cited"
  ELSE IF row.verdict.directory_only THEN "directory"
  ELSE IF row.verdict.name_mentioned THEN "named"
  ELSE IF ~row.answer.searched THEN "no_search"
  ELSE "absent"
VerdictRank == <<"cited", "directory", "named", "absent", "no_search", "error">>
WebQuestion(set) ==
  LET verdicts == {WebVerdict(row) : row \in set}
  IN  VerdictRank[CHOOSE i \in DOMAIN VerdictRank :
                    /\ VerdictRank[i] \in verdicts
                    /\ \A j \in 1..i - 1 : VerdictRank[j] \notin verdicts]
-----------------------------------------------------------------------------
(* Properties *)

TypeOK ==
  /\ listing \in Listings
  /\ \A r \in DOMAIN run : run[r].finished \in BOOLEAN /\ run[r].query_count \in Nat /\ run[r].error_count \in Nat
  /\ \A row \in rows : row.id \in 1..nextId - 1 /\ row.run \in DOMAIN run /\ row.answer \in Answers
  /\ \A t \in Terminals : term[t].pc \in {"idle", "start", "ask", "delete", "again", "reclassify"}
  /\ disturbed \subseteq DOMAIN run /\ current \in BOOLEAN

Busy(r) == \E t \in Terminals : WorksOn(t, r)

\* Every question of a run is stored once or is about to be: retrying one neither
\* loses it nor leaves two rows of it (panel.php:266-267).
QuestionsOnce ==
  \A r \in DOMAIN run \ disturbed : run[r].finished \/ Busy(r) =>
    \A q \in Questions :
      LET stored == {row \in Of(r) : row.query = q /\ \A t \in Terminals : WorksOn(t, r) => row.id \notin term[t].ids}
          asked == {t \in Terminals : WorksOn(t, r) /\ \E w \in term[t].todo : w[2] = q}
      IN  Cardinality(stored) + Cardinality(asked) = 1

\* The totals of a finished run are those of its rows (Db.php:157-166).
TotalsAddUp ==
  \A r \in DOMAIN run \ disturbed : run[r].finished /\ ~Busy(r) =>
    run[r].query_count = Cardinality(Answered(r)) /\ run[r].error_count = Cardinality(Errored(r))

\* A reclassify that no edit and no older command overlaps leaves every verdict
\* as the profile has it (panel.php:347-353).
VerdictsAreCurrent ==
  current => \A row \in rows : ~row.answer.failed => row.verdict = Analyze(row.answer, listing)

\* The store adds up unless a command was killed, or two of them worked on one
\* run.
StoreIsSound == QuestionsOnce /\ TotalsAddUp /\ VerdictsAreCurrent

\* An answer that was paid for is never lost, whatever is killed and whatever
\* runs beside it (panel.php:177-182, Db.php:140-152).
KeepsPaidAnswers ==
  \A row \in rows : ~row.answer.failed =>
    \E kept \in rows' : kept.id = row.id /\ kept.query = row.query /\ kept.answer = row.answer
PaidAnswersAreKept == [][KeepsPaidAnswers]_vars

\* The printed audit, the totals of a job and the web report find the same of a
\* question, if no answer came without text (report.ts:46-54, Report.php:58-69).
ReportsAgree ==
  \A q \in Questions :
    LET set == {row \in rows : row.run \in LatestRuns /\ row.query = q}
        web == WebQuestion(set)
    IN  set # {} /\ (\A row \in set : row.answer.failed \/ row.answer.text) =>
          /\ PhpQuestion(set) = CASE web = "cited" -> "cited"
                                  [] web \in {"directory", "named"} -> "named"
                                  [] web = "absent" -> "invisible"
                                  [] web = "no_search" -> "unmeasured"
                                  [] web = "error" -> "unanswered"
          /\ JobQuestion(set) = IF PhpQuestion(set) \in {"cited", "named"} THEN PhpQuestion(set) ELSE "neither"
=============================================================================
