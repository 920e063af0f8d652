----------------------------- MODULE PanelAdmin -----------------------------
(***************************************************************************)
(* One question panel, edited by admins in the dashboard                   *)
(* (src/lib/aeo/panel-admin.ts, src/app/dashboard/panels/actions.ts) and   *)
(* brought up to date by the deploy script (src/scripts/aeo-panels.ts), and *)
(* its entry in the backlog.                                               *)
(*                                                                         *)
(* A panel's content is one value: its name, questions and domain lists    *)
(* change together, as one version.  savePanelEdit and publishBacklogPanel *)
(* are transactions that lock the row; the script's statements are each    *)
(* committed on their own, so each is an action, and it may die between    *)
(* any two.                                                                *)
(***************************************************************************)
EXTENDS Naturals

CONSTANTS
  Admins,       \* dashboard pages that are open at once
  Contents,
  MaxVersion,   \* bound on versions
  MaxDeploys,   \* bound on deploys that change the definition in the code
  None          \* no content

\* What the constants must satisfy: an instance assumes it.
PanelAdminConstants == MaxVersion \in Nat \ {0} /\ MaxDeploys \in Nat /\ None \notin Contents

VARIABLES
  panel,     \* the row of aeo_panel, version 0 when there is none
  recorded,  \* aeo_panel_version: the content recorded for each version
  code,      \* the definition in the code, and how often it has changed
  script,    \* the script's position and the row it read
  page,      \* each admin's page, and the content its submission is built from
  backlog,   \* the entry of the backlog
  had,       \* history: the content the panel had at each version
  raced,     \* history: the dashboard changed the panel between the script's read and update
  blind      \* history: an edit replaced content its admin had not seen

vars == <<panel, recorded, code, script, page, backlog, had, raced, blind>>
-----------------------------------------------------------------------------
Versions == 1..MaxVersion
Content == Contents \cup {None}

PanelRow == [version: 0..MaxVersion, content: Content, active: BOOLEAN, edited: BOOLEAN]
NoPanel == [version |-> 0, content |-> None, active |-> FALSE, edited |-> FALSE]

ScriptRow == [pc: {"idle", "create", "before", "update", "after"}, row: PanelRow]

\* "open": the page shows version and content; "submit": the action has read
\* the panel again and builds the edit on base; "draft": it waits for Claude;
\* "review": it shows a draft.
PageRow == [pc: {"idle", "open", "submit", "draft", "review"},
            version: 0..MaxVersion, content: Content, base: Content]
Closed == [pc |-> "idle", version |-> 0, content |-> None, base |-> None]

BacklogRow == [status: {"planned", "drafted", "skipped"}, draft: Content]

Init ==
  /\ panel = NoPanel
  /\ recorded = [v \in Versions |-> None]
  /\ code \in [content: Content, deploys: {0}]
  /\ script = [pc |-> "idle", row |-> NoPanel]
  /\ page = [a \in Admins |-> Closed]
  /\ backlog = [status |-> "planned", draft |-> None]
  /\ had = [v \in Versions |-> None]
  /\ raced = FALSE
  /\ blind = FALSE
-----------------------------------------------------------------------------
(* panel-admin.ts *)

\* recordCurrentVersion: a version that is recorded stays as it is.
Recording(row, r) == IF r[row.version] = None THEN [r EXCEPT ![row.version] = row.content] ELSE r

\* The row becomes p.
Write(p) == panel' = p /\ had' = [had EXCEPT ![p.version] = p.content]

\* The dashboard changed the panel while the script holds what it read.
Dashboard == raced' = (raced \/ script.pc \in {"before", "update"})

OpenPage(a) ==
  /\ page[a].pc = "idle" /\ panel.version > 0
  /\ page' = [page EXCEPT ![a] = [Closed EXCEPT !.pc = "open", !.version = panel.version,
                                                !.content = panel.content]]
  /\ UNCHANGED <<panel, recorded, code, script, backlog, had, raced, blind>>

\* applyPanelSuggestions and renamePanel read the panel before they edit it.
Submit(a) ==
  /\ page[a].pc = "open"
  /\ page' = [page EXCEPT ![a].pc = "submit", ![a].base = panel.content]
  /\ UNCHANGED <<panel, recorded, code, script, backlog, had, raced, blind>>

\* Mutant: whoever saves last wins.
NeverStale(a) == FALSE
Stale(a) == panel.version # page[a].version

\* Mutant: the version that is replaced is not recorded.
RecordedAfterOnly(p) == Recording(p, recorded)
RecordedAround(p) == Recording(p, Recording(panel, recorded))

\* savePanelEdit: refused when stale, nothing to do when the content is the same.
SavePanelEdit(a) ==
  /\ page[a].pc = "submit" /\ panel.version < MaxVersion
  /\ page' = [page EXCEPT ![a] = Closed]
  /\ \E c \in Contents \ {page[a].base} :
       LET p == [panel EXCEPT !.version = @ + 1, !.content = c, !.edited = TRUE] IN
       IF Stale(a) \/ c = panel.content
         THEN UNCHANGED <<panel, recorded, had, raced, blind>>
         ELSE /\ Write(p)
              /\ recorded' = RecordedAround(p)
              /\ Dashboard
              /\ blind' = (blind \/ (~raced /\ page[a].content # panel.content))
  /\ UNCHANGED <<code, script, backlog>>

SetPanelActive ==
  /\ panel.version > 0
  /\ panel' = [panel EXCEPT !.active = ~@, !.edited = TRUE]
  /\ Dashboard
  /\ UNCHANGED <<recorded, code, script, page, backlog, had, blind>>
-----------------------------------------------------------------------------
(* The backlog *)

\* draftBacklogPanel: the entry is read, then Claude writes the draft.
AskForDraft(a) ==
  /\ page[a].pc = "idle" /\ panel.version = 0
  /\ page' = [page EXCEPT ![a] = [Closed EXCEPT !.pc = "draft"]]
  /\ UNCHANGED <<panel, recorded, code, script, backlog, had, raced, blind>>

SaveBacklogDraft(a) ==
  /\ page[a].pc = "draft"
  /\ \E c \in Content :    \* None: the draft failed
       backlog' = IF c = None THEN backlog ELSE [status |-> "drafted", draft |-> c]
  /\ page' = [page EXCEPT ![a] = Closed]
  /\ UNCHANGED <<panel, recorded, code, script, had, raced, blind>>

SetBacklogStatus ==
  /\ \E s \in {"planned", "skipped"} :
       backlog' = [backlog EXCEPT !.status =
                     IF s = "planned" /\ backlog.draft # None THEN "drafted" ELSE s]
  /\ UNCHANGED <<panel, recorded, code, script, page, had, raced, blind>>

OpenReview(a) ==
  /\ page[a].pc = "idle" /\ backlog.draft # None /\ panel.version = 0
  /\ page' = [page EXCEPT ![a] = [Closed EXCEPT !.pc = "review", !.content = backlog.draft]]
  /\ UNCHANGED <<panel, recorded, code, script, backlog, had, raced, blind>>

\* publishBacklogDraft takes the kept questions by their position in the draft
\* stored by now, then publishBacklogPanel inserts the panel; the slug is unique.
PublishBacklogDraft(a) ==
  /\ page[a].pc = "review"
  /\ page' = [page EXCEPT ![a] = Closed]
  /\ IF panel.version = 0
       THEN LET p == [version |-> 1, content |-> backlog.draft, active |-> TRUE, edited |-> TRUE] IN
            /\ Write(p)
            /\ recorded' = Recording(p, recorded)
            /\ backlog' = [backlog EXCEPT !.status = "drafted"]
       ELSE UNCHANGED <<panel, recorded, backlog, had>>
  /\ UNCHANGED <<code, script, raced, blind>>
-----------------------------------------------------------------------------
(* scripts/aeo-panels.ts *)

Script(pc, row) == script' = [pc |-> pc, row |-> row]

\* The script reads the row and goes on to the next panel unless there is
\* something to do: the row belongs to the database once it was edited.
ReadPanel ==
  LET changed == panel.content # code.content IN
  /\ script.pc = "idle" /\ code.content # None /\ ~panel.edited
  /\ changed \/ ~panel.active
  /\ Script(IF panel.version = 0 THEN "create" ELSE IF changed THEN "before" ELSE "update", panel)
  /\ UNCHANGED <<panel, recorded, code, page, backlog, had, raced, blind>>

\* The insert fails, and the script with it, if the slug is taken by now.
CreatePanel ==
  LET p == [version |-> 1, content |-> code.content, active |-> TRUE, edited |-> FALSE] IN
  /\ script.pc = "create"
  /\ IF panel.version = 0 THEN Write(p) /\ Script("after", p)
                          ELSE UNCHANGED <<panel, had>> /\ Script("idle", NoPanel)
  /\ UNCHANGED <<recorded, code, page, backlog, raced, blind>>

\* Mutant: the old version is not recorded first.
RecordedLate == recorded
RecordedFirst == Recording(script.row, recorded)

RecordBefore ==
  /\ script.pc = "before" /\ script.row.version < MaxVersion
  /\ recorded' = RecordedFirst
  /\ Script("update", script.row)
  /\ UNCHANGED <<panel, code, page, backlog, had, raced, blind>>

\* The update is computed from the row that was read.
UpdatePanel ==
  LET changed == script.row.content # code.content
      p == [panel EXCEPT !.content = code.content, !.active = TRUE,
              !.version = IF changed THEN script.row.version + 1 ELSE script.row.version]
  IN
  /\ script.pc = "update"
  /\ Write(p)
  /\ IF changed THEN Script("after", p) ELSE Script("idle", NoPanel)
  /\ UNCHANGED <<recorded, code, page, backlog, raced, blind>>

RecordAfter ==
  /\ script.pc = "after"
  /\ recorded' = Recording(script.row, recorded)
  /\ Script("idle", NoPanel)
  /\ UNCHANGED <<panel, code, page, backlog, had, raced, blind>>

ScriptDies ==
  /\ script.pc # "idle"
  /\ Script("idle", NoPanel)
  /\ UNCHANGED <<panel, recorded, code, page, backlog, had, raced, blind>>

\* A deploy brings another definition; the script of the last one has ended.
Deploy(c) ==
  /\ script.pc = "idle" /\ code.deploys < MaxDeploys /\ code.content # c
  /\ code' = [content |-> c, deploys |-> code.deploys + 1]
  /\ UNCHANGED <<panel, recorded, script, page, backlog, had, raced, blind>>

RunScript == ReadPanel \/ CreatePanel \/ RecordBefore \/ UpdatePanel \/ RecordAfter

Next ==
  \/ \E a \in Admins : \/ OpenPage(a) \/ Submit(a) \/ SavePanelEdit(a)
                       \/ AskForDraft(a) \/ SaveBacklogDraft(a)
                       \/ OpenReview(a) \/ PublishBacklogDraft(a)
  \/ SetPanelActive \/ SetBacklogStatus
  \/ RunScript \/ ScriptDies
  \/ \E c \in Contents : Deploy(c)

Spec == Init /\ [][Next]_vars
-----------------------------------------------------------------------------
(* Properties *)

TypeOK ==
  /\ panel \in PanelRow
  /\ recorded \in [Versions -> Content]
  /\ code \in [content: Content, deploys: 0..MaxDeploys]
  /\ script \in ScriptRow
  /\ page \in [Admins -> PageRow]
  /\ backlog \in BacklogRow
  /\ had \in [Versions -> Content]
  /\ raced \in BOOLEAN
  /\ blind \in BOOLEAN

\* Unless the dashboard and the script raced, every version a panel has had
\* can be looked up as it was, although each writer only records around its
\* own change and the script may die before it does (schema.ts:454), and an
\* edit replaces the content its page showed, and is built on it
\* (panel-admin.ts:149-151).
EditsAreSound ==
  /\ raced \/ \A v \in Versions :
       /\ v < panel.version => recorded[v] = had[v] /\ had[v] # None
       /\ recorded[v] # None => recorded[v] = had[v]
  /\ ~blind
=============================================================================
