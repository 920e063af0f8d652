------------------------------ MODULE MCAudits -------------------------------
(* TLC instances of what a report is made of: a panel that is generated, the *)
(* questions a snapshot asks, and the audits of the panel program.  A        *)
(* behaviour is of a single component: part says which.  MCWorker runs the   *)
(* first two and the report of one terminal beside its own, MCOffice the     *)
(* store of two terminals.                                                   *)
EXTENDS Integers, Sequences, FiniteSets, TLC

CONSTANTS
  t1, t2, q1, q2,
  Panels, CategoryOf, Twins, Alphabetical, Counts, MaxQuestions,  \* QuestionSampling
  Terminals, Queries, EngineLists, Answers, Bounds,               \* Audits
  Bodies, Unfit, Seeking, Slotted, Writings, MinGenerated, MaxGenerated, \* GeneratedPanels
  MaxHops, MaxGenerations, Snapshots

VARIABLES
  part,
  pc, topic, service, at, filled, count, chosen, progressed, named,       \* QuestionSampling
  listing, audit, rows, nextId, term, commands, edits, disturbed, current, \* Audits
  making, namesake, scheme, hop, sent, refused, writing, turn, filtered,   \* GeneratedPanels
  generated, plan, generations

samplingVars == <<pc, topic, service, at, filled, count, chosen, progressed, named>>
auditVars == <<listing, audit, rows, nextId, term, commands, edits, disturbed, current>>
generatedVars == <<making, namesake, scheme, hop, sent, refused, writing, turn, filtered,
                   generated, plan, generations>>

Sampling == INSTANCE QuestionSampling WITH panel <- topic

Store == INSTANCE Audits WITH run <- audit, Questions <- Queries

Making == INSTANCE GeneratedPanels

ASSUME SnapshotConstants == Sampling!SamplingConstants
ASSUME StoreConstants == Store!AuditConstants
ASSUME GeneratedConstants == Making!GenerationConstants

\* The canned panels; a snapshot of five questions, of its minimums, of twenty,
\* two more, a full run.
Canned == INSTANCE Panels
CannedNumbers == Canned!PanelNumbers
CannedCategories == Canned!QuestionCategories
CannedTwins == Canned!ServiceTwins
CannedOrder == Canned!SortedCategories
FewToAll == {1, 5, 8, 20, 60, 500}

Reply(failed, searched, text, brand, own, site) ==
  [failed |-> failed, searched |-> searched, text |-> text, named |-> brand, own |-> own, site |-> site]
Failure == Reply(TRUE, FALSE, FALSE, FALSE, FALSE, FALSE)
Directory == Reply(FALSE, TRUE, TRUE, TRUE, FALSE, TRUE)

\* The store: an engine that fails or cites a directory, asked by three
\* commands, or by two and an edit of the profile.
OneEngine == {<<"perplexity">>}
TwoReplies == {Failure, Directory}
CommandsOrEdit == {<<3, 0>>, <<2, 1>>}

\* The report: one question, asked of two engines that may reply anything: cited
\* in prose or without a word, listed in a directory and named, named or not from
\* memory, found nowhere.
OneQuestion == {"question"}
TwoEngines == {<<"claude", "gemini">>}
AnyReply == {Failure, Directory, Reply(FALSE, TRUE, TRUE, FALSE, TRUE, FALSE),
             Reply(FALSE, TRUE, FALSE, FALSE, TRUE, FALSE), Reply(FALSE, FALSE, TRUE, TRUE, FALSE, FALSE),
             Reply(FALSE, FALSE, TRUE, FALSE, FALSE, FALSE), Reply(FALSE, TRUE, TRUE, FALSE, FALSE, TRUE)}
CommandsAndEdit == {<<2, 1>>}

\* A generated panel: who does it, with and without the place, in two
\* categories; a problem that asks for nobody; a name, slots and a city.
Question(c, body, place) == [c |-> c, body |-> body, place |-> place]
ThreeOfSeven ==
  [1..3 -> {Question("service-geo", "who", "none"), Question("service-geo", "who", "full"),
            Question("cost", "who", "none"), Question("problem", "fix", "city"),
            Question("service-geo", "name", "none"), Question("problem", "slot", "none"),
            Question("cost", "slot", "none")}]
WhoFixNameSlot == {"who", "fix", "name", "slot"}
OneOrAll == {1, 60}

AuditsVars == <<part, samplingVars, auditVars, generatedVars>>

\* A part of its own for each component; the others keep one initial state.
AuditsInit ==
  /\ Sampling!Init /\ Store!Init /\ Making!GeneratedInit
  /\ part # "sampling" => topic = (CHOOSE p \in Panels : TRUE) /\ service = 1
  /\ part # "store" => edits = 1
  /\ part # "generated" => namesake = FALSE

AuditsNext ==
  /\ UNCHANGED part
  /\ \/ part = "sampling" /\ Sampling!Next /\ UNCHANGED <<auditVars, generatedVars>>
     \/ part = "store" /\ Store!Next /\ UNCHANGED <<samplingVars, generatedVars>>
     \/ part = "generated" /\ Making!GeneratedNext /\ UNCHANGED <<samplingVars, auditVars>>

AuditsSpec == AuditsInit /\ [][AuditsNext]_AuditsVars

SnapshotsAreSound == Sampling!SnapshotsAreSound /\ Making!GeneratedIsSound
StoreIsSound == Store!StoreIsSound
PaidAnswersAreKept == Store!PaidAnswersAreKept
ReportsAgree == Store!ReportsAgree
=============================================================================
