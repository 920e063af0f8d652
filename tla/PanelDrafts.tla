---------------------------- MODULE PanelDrafts ----------------------------
(***************************************************************************)
(* What is in a panel that starts in the backlog: the draft Claude writes  *)
(* (src/lib/aeo/panel-draft.ts), its review and publication, and the edits *)
(* that finished runs suggest later (src/lib/aeo/panel-content.ts, the     *)
(* actions of src/app/dashboard/panels and their forms).                   *)
(*                                                                         *)
(* PanelAdmin has the same panel with its versions, its content one value, *)
(* beside the deploy script, which leaves a published panel alone.  Here   *)
(* the content is its questions and domains.  A question is what it reads; *)
(* what the checks ask of its words is in the constants.  The statistics   *)
(* of a question are shown and restrict nothing: any may be removed.       *)
(***************************************************************************)
EXTENDS Naturals, Sequences, FiniteSets

CONSTANTS
  Editors,
  Wordings,     \* what questions read
  Askable,      \* those of legal length whose slots a panel can fill
  Draftable,    \* of them, those a draft may keep: no URL, not too short, fewer slots
  Key,          \* a text without its case and spacing
  Enough,       \* the sets of questions that fill a snapshot and its minimums
  Hosts,        \* bare domains
  Common,       \* the domains every panel lists
  Within,       \* the domains a domain is, or is a subdomain of
  Names,
  Outputs,      \* what Claude may write
  MinDraft,     \* 20
  MaxDrafts,    \* bound on drafts
  MaxVersion    \* bound on versions

DraftConstants ==
  /\ Outputs \subseteq [questions: Seq(Wordings), directory: SUBSET STRING, reference: SUBSET STRING]
  /\ Draftable \subseteq Askable /\ Askable \subseteq Wordings
  /\ Names # {} /\ \A h \in Hosts : h \in Within[h]
  /\ MinDraft \in Nat /\ MaxDrafts \in Nat /\ MaxVersion \in Nat \ {0}

VARIABLES
  draft,     \* aeo_panel_backlog.draft, number 0 when there is none
  live,      \* the row of aeo_panel, version 0 when there is none
  review,    \* each admin's page of the backlog entry
  edit,      \* each admin's page of the panel
  unasked    \* history: a panel was saved that is not what its admin saw and chose

draftVars == <<draft, live, review, edit, unasked>>
-----------------------------------------------------------------------------
Content == [name: Names, questions: SUBSET Wordings, directory: SUBSET Hosts, reference: SUBSET Hosts]
Draft == [n: 0..MaxDrafts, questions: Seq(Wordings), directory: SUBSET Hosts, reference: SUBSET Hosts]
NoDraft == [n |-> 0, questions |-> <<>>, directory |-> {}, reference |-> {}]
Blank == [name |-> CHOOSE name \in Names : TRUE, questions |-> {}, directory |-> {}, reference |-> {}]

PanelRow == [version: 0..MaxVersion, content: Content, dismissed: SUBSET Hosts]

\* "drafting" waits for Claude, "review" shows a draft, "publish" is about to
\* insert content; other is history: the admin saw and kept something else.
ReviewRow == [pc: {"idle", "drafting", "review", "publish"}, shown: Draft,
              content: Content, other: BOOLEAN]
NoReview == [pc |-> "idle", shown |-> NoDraft, content |-> Blank, other |-> FALSE]

\* "open" shows version, shown and the domains offered; "dismiss" and "save"
\* are the statements of an edit that is checked.  other is history again.
EditRow == [pc: {"idle", "open", "dismiss", "save"}, version: 0..MaxVersion, shown: Content,
            offered: SUBSET Hosts, dismissed: SUBSET Hosts, content: Content, other: BOOLEAN]
NoEdit == [pc |-> "idle", version |-> 0, shown |-> Blank, offered |-> {}, dismissed |-> {},
           content |-> Blank, other |-> FALSE]

DraftsInit ==
  /\ draft = NoDraft
  /\ live = [version |-> 0, content |-> Blank, dismissed |-> {}]
  /\ review = [a \in Editors |-> NoReview]
  /\ edit = [a \in Editors |-> NoEdit]
  /\ unasked = FALSE
-----------------------------------------------------------------------------
(* panel-content.ts, panel-draft.ts *)

\* validatePanelContent: every text can be asked, none is asked twice, a
\* snapshot of a sample business finds its questions.
TextsAreFine(questions) ==
  /\ questions \subseteq Askable
  /\ \A t, u \in questions : Key[t] = Key[u] => t = u
NoProblems(content) == TextsAreFine(content.questions) /\ content.questions \in Enough

\* cleanDraft keeps the first of the usable questions that are the same.
KeptPositions(questions) ==
  {i \in DOMAIN questions :
     /\ questions[i] \in Draftable
     /\ \A j \in 1..(i - 1) : questions[j] \in Draftable => Key[questions[j]] # Key[questions[i]]}

\* The positions of S in their order.
InOrder(S) == {f \in [1..Cardinality(S) -> S] : \A m, n \in DOMAIN f : m < n => f[m] < f[n]}

\* cleanDomains: what is not a domain is dropped.
Bare(strings) == strings \cap Hosts
DirectoryOf(output) == Bare(output.directory) \ Common
ReferenceOf(output) == (Bare(output.reference) \ Common) \ DirectoryOf(output)

CleanDrafts(output) ==
  LET kept == KeptPositions(output.questions) IN
  {[n |-> draft.n + 1, questions |-> [i \in DOMAIN f |-> output.questions[f[i]]],
    directory |-> DirectoryOf(output), reference |-> ReferenceOf(output)] : f \in InOrder(kept)}

\* The parts of d that the form of PublishForm keeps.
KeptOf(d, name, keepQ, keepDir, keepRef) ==
  [name |-> name, questions |-> {d.questions[i] : i \in keepQ \cap DOMAIN d.questions},
   directory |-> d.directory \cap keepDir, reference |-> d.reference \cap keepRef]

\* summarizePanelRuns: of the domains that the finished runs cite for two
\* businesses or more, those the panel has not classified yet.
Listed(h, domains) == Within[h] \cap domains # {}
Suggested(cited, content, dismissed) ==
  {h \in cited : /\ ~Listed(h, content.directory \cup content.reference \cup Common)
                 /\ ~Listed(h, dismissed)}

ApplyPanelChanges(content, directory, reference, removed) ==
  [content EXCEPT !.questions = @ \ removed, !.directory = @ \cup directory,
                  !.reference = @ \cup (reference \ directory)]
-----------------------------------------------------------------------------
(* The backlog's page *)

\* draftBacklogPanel looks whether the panel is live, then Claude writes.
AskForDraft(a) ==
  /\ review[a].pc = "idle" /\ live.version = 0
  /\ review' = [review EXCEPT ![a].pc = "drafting"]
  /\ UNCHANGED <<draft, live, edit, unasked>>

\* The answer is refused, cut off, no JSON or of another format.
DraftFails(a) ==
  /\ review[a].pc = "drafting"
  /\ review' = [review EXCEPT ![a] = NoReview]
  /\ UNCHANGED <<draft, live, edit, unasked>>

\* Too few usable questions are a failure too; a good draft replaces the last.
SaveBacklogDraft(a) ==
  /\ review[a].pc = "drafting" /\ draft.n < MaxDrafts
  /\ \E output \in Outputs : \E d \in CleanDrafts(output) :
       draft' = IF Len(d.questions) >= MinDraft THEN d ELSE draft
  /\ review' = [review EXCEPT ![a] = NoReview]
  /\ UNCHANGED <<live, edit, unasked>>

OpenReview(a) ==
  /\ review[a].pc = "idle" /\ live.version = 0 /\ draft.n > 0
  /\ review' = [review EXCEPT ![a] = [NoReview EXCEPT !.pc = "review", !.shown = draft]]
  /\ UNCHANGED <<draft, live, edit, unasked>>

\* The domains kept are named on the form, the questions numbered: those of a
\* newer draft are not what the admin saw.
AsReviewed(content, kept, newer) ==
  /\ content.directory \subseteq kept.directory
  /\ content.reference \subseteq kept.reference
  /\ newer \/ content = kept

\* publishBacklogDraft applies what was kept on the page to the draft there is
\* now; with problems the page stays.
PublishBacklogDraft(a) ==
  /\ review[a].pc = "review" /\ live.version = 0
  /\ \E name \in Names, keepQ \in SUBSET DOMAIN review[a].shown.questions,
        keepDir \in SUBSET review[a].shown.directory, keepRef \in SUBSET review[a].shown.reference :
       LET content == KeptOf(draft, name, keepQ, keepDir, keepRef) IN
       /\ NoProblems(content)
       /\ review' = [review EXCEPT ![a] = [NoReview EXCEPT !.pc = "publish", !.content = content,
                       !.other = ~AsReviewed(content, KeptOf(review[a].shown, name, keepQ, keepDir, keepRef),
                                             draft.n # review[a].shown.n)]]
  /\ UNCHANGED <<draft, live, edit, unasked>>

CloseReview(a) ==
  /\ review[a].pc = "review"
  /\ review' = [review EXCEPT ![a] = NoReview]
  /\ UNCHANGED <<draft, live, edit, unasked>>

\* publishBacklogPanel: the insert fails when the slug is taken.
PublishBacklogPanel(a) ==
  /\ review[a].pc = "publish"
  /\ IF live.version = 0
       THEN /\ live' = [live EXCEPT !.version = 1, !.content = review[a].content]
            /\ unasked' = (unasked \/ review[a].other)
       ELSE UNCHANGED <<live, unasked>>
  /\ review' = [review EXCEPT ![a] = NoReview]
  /\ UNCHANGED <<draft, edit>>
-----------------------------------------------------------------------------
(* The panel's page *)

\* The runs there are have changed in any way since the last page.
OpenPanel(a) ==
  /\ edit[a].pc = "idle" /\ live.version > 0
  /\ \E cited \in SUBSET Hosts :
       edit' = [edit EXCEPT ![a] = [NoEdit EXCEPT !.pc = "open", !.version = live.version,
                  !.shown = live.content, !.offered = Suggested(cited, live.content, live.dismissed)]]
  /\ UNCHANGED <<draft, live, review, unasked>>

ClosePanel(a) ==
  /\ edit[a].pc = "open"
  /\ edit' = [edit EXCEPT ![a] = NoEdit]
  /\ UNCHANGED <<draft, live, review, unasked>>

Checked(a, pc, dismissed, content, wanted) ==
  edit' = [edit EXCEPT ![a] = [NoEdit EXCEPT !.pc = pc, !.version = edit[a].version,
             !.dismissed = dismissed, !.content = content, !.other = content # wanted]]

\* applyPanelSuggestions reads the panel again and applies to it what was
\* chosen on the page, where a domain is classified in one way; with problems
\* the page stays.
ApplyPanelSuggestions(a) ==
  /\ edit[a].pc = "open"
  /\ \E directory, reference, dismissed \in SUBSET edit[a].offered, removed \in SUBSET edit[a].shown.questions :
       LET content == ApplyPanelChanges(live.content, directory, reference, removed)
           chosen == directory \cup reference \cup removed # {}
       IN
       /\ directory \cap reference = {} /\ dismissed \cap (directory \cup reference) = {}
       /\ chosen \/ dismissed # {}
       /\ chosen => NoProblems(content)
       /\ Checked(a, "dismiss", dismissed, content,
                  ApplyPanelChanges(edit[a].shown, directory, reference, removed))
  /\ UNCHANGED <<draft, live, review, unasked>>

\* dismissDomains is a statement of its own, whatever becomes of the edit.
DismissDomains(a) ==
  /\ edit[a].pc = "dismiss"
  /\ live' = [live EXCEPT !.dismissed = @ \cup edit[a].dismissed]
  /\ edit' = [edit EXCEPT ![a].pc = "save"]
  /\ UNCHANGED <<draft, review, unasked>>

\* renamePanel does not check the questions it has read.
RenamePanel(a) ==
  /\ edit[a].pc = "open"
  /\ \E name \in Names \ {live.content.name} :
       Checked(a, "save", {}, [live.content EXCEPT !.name = name], [edit[a].shown EXCEPT !.name = name])
  /\ UNCHANGED <<draft, live, review, unasked>>

\* Mutant: whoever saves last wins.
NeverOutdated(a) == FALSE
Outdated(a) == live.version # edit[a].version

\* savePanelEdit; with nothing but dismissals the content is the same.
SavePanelEdit(a) ==
  /\ edit[a].pc = "save"
  /\ IF Outdated(a) \/ edit[a].content = live.content
       THEN UNCHANGED <<live, unasked>>
       ELSE /\ live.version < MaxVersion
            /\ live' = [live EXCEPT !.version = @ + 1, !.content = edit[a].content]
            /\ unasked' = (unasked \/ edit[a].other)
  /\ edit' = [edit EXCEPT ![a] = NoEdit]
  /\ UNCHANGED <<draft, review>>

DraftsNext ==
  \E a \in Editors :
    \/ AskForDraft(a) \/ DraftFails(a) \/ SaveBacklogDraft(a)
    \/ OpenReview(a) \/ PublishBacklogDraft(a) \/ CloseReview(a) \/ PublishBacklogPanel(a)
    \/ OpenPanel(a) \/ ClosePanel(a) \/ ApplyPanelSuggestions(a) \/ DismissDomains(a)
    \/ RenamePanel(a) \/ SavePanelEdit(a)

DraftsSpec == DraftsInit /\ [][DraftsNext]_draftVars
-----------------------------------------------------------------------------
(* Properties *)

TypeOK ==
  /\ draft \in Draft
  /\ live \in PanelRow
  /\ review \in [Editors -> ReviewRow]
  /\ edit \in [Editors -> EditRow]
  /\ unasked \in BOOLEAN

\* The cleaning leaves nothing that the check before publishing would refuse
\* but too few questions, and no domain that is classified twice
\* (panel-draft.ts:114, panel-content.ts:38-40).
DraftIsClean ==
  /\ TextsAreFine({draft.questions[i] : i \in DOMAIN draft.questions})
  /\ draft.directory \cap draft.reference = {}
  /\ (draft.directory \cup draft.reference) \cap Common = {}

\* A live panel passes the check, though a new name is saved without it and
\* edits are checked on a panel read before they are saved; no domain is both
\* a directory and a reference site, though two pages may offer the same one.
PanelIsUsable ==
  live.version > 0 =>
    /\ NoProblems(live.content)
    /\ live.content.directory \cap live.content.reference = {}
    /\ (live.content.directory \cup live.content.reference) \cap Common = {}

\* Whatever else happens meanwhile, what is saved is what its admin saw with
\* the changes chosen, and what is published was reviewed, but for questions
\* of a draft that was replaced (panel-admin.ts:149-151, PanelForms.tsx:226).
DraftsAreSound == DraftIsClean /\ PanelIsUsable /\ ~unasked
=============================================================================
