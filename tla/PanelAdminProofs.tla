-------------------------- MODULE PanelAdminProofs --------------------------
(***************************************************************************)
(* What holds of PanelAdmin for any admins, contents, versions and         *)
(* deploys.                                                                *)
(*                                                                         *)
(* Unless the dashboard and the script raced, the row the script read is   *)
(* the panel until it updates it, and every writer adds one version above  *)
(* those there are.  So what the panel had at a version never changes, and *)
(* a page that still shows the newest version shows what its edit          *)
(* replaces.                                                               *)
(***************************************************************************)
EXTENDS PanelAdmin, TLAPS

\* What the positions of the pages and the script say of the rows, raced or not.
PagesInv ==
  \A a \in Admins :
    /\ page[a].pc \in {"open", "submit"} => panel.version > 0
    /\ page[a].pc = "review" => backlog.draft # None

Holding == script.pc \in {"before", "update", "after"}
ChangesOnUpdate == script.pc = "update" /\ script.row.content # code.content
ScriptInv ==
  /\ script.pc # "idle" => code.content # None
  /\ Holding => script.row.version > 0
  /\ ChangesOnUpdate => script.row.version < MaxVersion

\* While nobody raced: of the versions,
NewestIsThere ==
  panel.version > 0 => panel.content # None /\ had[panel.version] = panel.content
NoneIsAhead == \A v \in Versions : v > panel.version => recorded[v] = None /\ had[v] = None
OlderAreRecorded ==
  \A v \in Versions : v < panel.version => recorded[v] = had[v] /\ had[v] # None
RecordsAreTrue == \A v \in Versions : recorded[v] # None => recorded[v] = had[v]

\* of the script's row,
RowIsPanel == script.pc \in {"before", "update"} => script.row = panel
RowIsRecorded == ChangesOnUpdate => recorded[script.row.version] # None
RowWasHad ==
  script.pc = "after" =>
    /\ script.row.version <= panel.version
    /\ script.row.content # None /\ had[script.row.version] = script.row.content

\* and of the pages.
PagesShowVersions ==
  \A a \in Admins : page[a].pc \in {"open", "submit"} =>
    page[a].version \in 1..panel.version /\ had[page[a].version] = page[a].content

Clean == /\ NewestIsThere /\ NoneIsAhead /\ OlderAreRecorded /\ RecordsAreTrue
         /\ RowIsPanel /\ RowIsRecorded /\ RowWasHad /\ PagesShowVersions

IInv == TypeOK /\ PagesInv /\ ScriptInv /\ ~blind /\ (raced \/ Clean)
-----------------------------------------------------------------------------
LEMMA Rows ==
  ASSUME PanelAdminConstants
  PROVE  /\ NoPanel \in PanelRow /\ NoPanel.version = 0
         /\ Closed \in PageRow /\ Closed.pc = "idle"
         /\ \A v \in Versions : v \in Nat /\ v > 0 /\ v \in 0..MaxVersion
BY DEF PanelAdminConstants, NoPanel, Closed, PanelRow, PageRow, Content, Versions

\* recordCurrentVersion keeps what is recorded, and then records.
LEMMA RecordingIsSafe ==
  ASSUME NEW r \in [Versions -> Content], NEW row \in PanelRow, row.version \in Versions
  PROVE  /\ Recording(row, r) \in [Versions -> Content]
         /\ \A v \in Versions : v # row.version => Recording(row, r)[v] = r[v]
         /\ Recording(row, r)[row.version] = IF r[row.version] = None THEN row.content ELSE r[row.version]
<1>1. row.content \in Content
  BY DEF PanelRow
<1> QED BY <1>1 DEF Recording

LEMMA InitHolds == ASSUME PanelAdminConstants, Init PROVE IInv
<1>1. TypeOK
  <2>1. code \in [content: Content, deploys: 0..MaxDeploys]
    BY DEF Init, PanelAdminConstants
  <2>2. script \in ScriptRow
    BY Rows DEF Init, ScriptRow
  <2>3. backlog \in BacklogRow
    BY DEF Init, BacklogRow, Content
  <2> QED BY Rows, <2>1, <2>2, <2>3 DEF Init, TypeOK, Content
<1>2. PagesInv /\ ScriptInv
  BY DEF Init, Closed, PagesInv, ScriptInv, Holding, ChangesOnUpdate
<1>3. Clean
  BY Rows DEF Init, Closed, Clean, NewestIsThere, NoneIsAhead, OlderAreRecorded, RecordsAreTrue, RowIsPanel,
              RowIsRecorded, ChangesOnUpdate, RowWasHad, PagesShowVersions
<1>4. ~blind
  BY DEF Init
<1> QED BY <1>1, <1>2, <1>3, <1>4 DEF IInv
-----------------------------------------------------------------------------
(* A version is added *)

VersionsInv == NewestIsThere /\ NoneIsAhead /\ OlderAreRecorded /\ RecordsAreTrue

LEMMA VersionAdded ==
  ASSUME PanelAdminConstants, TypeOK, VersionsInv,
         NEW p \in PanelRow, p.version = panel.version + 1, p.content # None, Write(p),
         recorded' \in [Versions -> Content],
         \A v \in Versions : v \notin {panel.version, p.version} => recorded'[v] = recorded[v],
         panel.version > 0 => recorded'[panel.version] = panel.content,
         recorded'[p.version] \in {None, p.content}
  PROVE  /\ VersionsInv'
         /\ panel' = p /\ had' \in [Versions -> Content] /\ had'[p.version] = p.content
         /\ \A v \in Versions : v <= panel.version => had'[v] = had[v]
<1>1. /\ panel.version \in 0..MaxVersion /\ p.version \in Versions /\ p.content \in Content
      /\ MaxVersion \in Nat
  BY DEF TypeOK, PanelRow, PanelAdminConstants, Versions
<1>2. /\ panel' = p /\ had' = [had EXCEPT ![p.version] = p.content]
      /\ had \in [Versions -> Content] /\ recorded \in [Versions -> Content]
  BY DEF Write, TypeOK
<1>3. /\ had' \in [Versions -> Content] /\ had'[p.version] = p.content
      /\ \A v \in Versions : v # p.version => had'[v] = had[v]
  BY <1>1, <1>2
<1>4. \A v \in Versions : v \in Nat
  BY <1>1 DEF Versions
<1>5. NewestIsThere'
  BY <1>1, <1>2, <1>3 DEF NewestIsThere
<1>6. NoneIsAhead'
  BY <1>1, <1>2, <1>3, <1>4 DEF NoneIsAhead, VersionsInv
<1>7. \A v \in Versions : v < p.version => recorded'[v] = had'[v] /\ had'[v] # None
  <2> SUFFICES ASSUME NEW v \in Versions, v < p.version
               PROVE  recorded'[v] = had'[v] /\ had'[v] # None
    OBVIOUS
  <2>1. CASE v = panel.version
    BY <1>1, <1>3, <1>4, <2>1 DEF VersionsInv, NewestIsThere, Versions
  <2>2. CASE v # panel.version
    BY <1>1, <1>3, <1>4, <2>2 DEF VersionsInv, OlderAreRecorded
  <2> QED BY <2>1, <2>2
<1>8. OlderAreRecorded'
  BY <1>2, <1>7 DEF OlderAreRecorded
<1>9. RecordsAreTrue'
  <2> SUFFICES ASSUME NEW v \in Versions, recorded'[v] # None PROVE recorded'[v] = had'[v]
    BY DEF RecordsAreTrue
  <2>1. CASE v < p.version
    BY <1>7, <2>1
  <2>2. CASE v = p.version
    BY <1>3, <2>2
  <2>3. CASE v > p.version
    BY <1>1, <1>3, <1>4, <2>3 DEF VersionsInv, RecordsAreTrue
  <2> QED BY <1>1, <1>4, <2>1, <2>2, <2>3
<1>10. \A v \in Versions : v <= panel.version => had'[v] = had[v]
  BY <1>1, <1>3, <1>4
<1> QED BY <1>2, <1>3, <1>5, <1>6, <1>8, <1>9, <1>10 DEF VersionsInv
-----------------------------------------------------------------------------
(* Pages *)

OnlyPages(a) == /\ UNCHANGED <<panel, recorded, code, script, had, raced, blind>>
                /\ \A b \in Admins \ {a} : page'[b] = page[b]

\* A step that moves one page and no version.
LEMMA PageMoves ==
  ASSUME PanelAdminConstants, IInv, NEW a \in Admins, OnlyPages(a),
         page' \in [Admins -> PageRow], backlog' \in BacklogRow,
         backlog.draft # None => backlog'.draft # None,
         page'[a].pc = "review" => backlog'.draft # None,
         page'[a].pc \in {"open", "submit"} =>
           /\ panel.version > 0
           /\ raced \/ (page'[a].version \in 1..panel.version /\ had[page'[a].version] = page'[a].content)
  PROVE  IInv'
<1>1. TypeOK'
  BY DEF IInv, TypeOK, OnlyPages
<1>2. PagesInv'
  BY DEF IInv, PagesInv, OnlyPages
<1>3. ScriptInv'
  BY DEF IInv, ScriptInv, Holding, ChangesOnUpdate, OnlyPages
<1>4. ~blind'
  BY DEF IInv, OnlyPages
<1>5. ASSUME ~raced PROVE Clean'
  <2>1. Clean
    BY <1>5 DEF IInv
  <2>2. PagesShowVersions'
    BY <1>5, <2>1 DEF Clean, PagesShowVersions, OnlyPages
  <2>3. RowIsPanel' /\ RowIsRecorded' /\ RowWasHad'
    BY <2>1 DEF Clean, RowIsPanel, RowIsRecorded, RowWasHad, ChangesOnUpdate, OnlyPages
  <2>4. NewestIsThere' /\ NoneIsAhead' /\ OlderAreRecorded' /\ RecordsAreTrue'
    BY <2>1 DEF Clean, NewestIsThere, NoneIsAhead, OlderAreRecorded, RecordsAreTrue, OnlyPages
  <2> QED BY <2>2, <2>3, <2>4 DEF Clean
<1>6. raced' \/ Clean'
  BY <1>5 DEF OnlyPages
<1> QED BY <1>1, <1>2, <1>3, <1>4, <1>6 DEF IInv

LEMMA OpenPageKeeps == ASSUME PanelAdminConstants, IInv, NEW a \in Admins, OpenPage(a) PROVE IInv'
<1> DEFINE shown == [Closed EXCEPT !.pc = "open", !.version = panel.version, !.content = panel.content]
<1>1. /\ panel.version \in 0..MaxVersion /\ panel.content \in Content /\ page \in [Admins -> PageRow]
      /\ backlog \in BacklogRow
  BY DEF IInv, TypeOK, PanelRow
<1>2. /\ shown \in PageRow /\ shown.pc = "open" /\ shown.version = panel.version
      /\ shown.content = panel.content
  BY <1>1 DEF Closed, PageRow, Content
<1>3. page' = [page EXCEPT ![a] = shown] /\ panel.version > 0
  BY DEF OpenPage
<1>4. /\ page'[a] = shown /\ page' \in [Admins -> PageRow]
      /\ \A b \in Admins \ {a} : page'[b] = page[b]
  BY <1>1, <1>2, <1>3
<1>5. OnlyPages(a) /\ backlog' = backlog
  BY <1>4 DEF OpenPage, OnlyPages
<1>6. raced \/ (shown.version \in 1..panel.version /\ had[shown.version] = shown.content)
  BY <1>1, <1>2, <1>3 DEF IInv, Clean, NewestIsThere, PanelAdminConstants
<1> HIDE DEF shown
<1> QED BY <1>1, <1>2, <1>3, <1>4, <1>5, <1>6, PageMoves

LEMMA SubmitKeeps == ASSUME PanelAdminConstants, IInv, NEW a \in Admins, Submit(a) PROVE IInv'
<1>1. /\ panel.content \in Content /\ page \in [Admins -> PageRow] /\ page[a] \in PageRow
      /\ backlog \in BacklogRow
  BY DEF IInv, TypeOK, PanelRow
<1>2. /\ page' = [page EXCEPT ![a] = [page[a] EXCEPT !.pc = "submit", !.base = panel.content]]
      /\ page[a].pc = "open"
  BY <1>1 DEF Submit
<1>3. /\ page'[a].pc = "submit" /\ page'[a].version = page[a].version
      /\ page'[a].content = page[a].content /\ page'[a] \in PageRow
      /\ page' \in [Admins -> PageRow] /\ \A b \in Admins \ {a} : page'[b] = page[b]
  BY <1>1, <1>2 DEF PageRow
<1>4. OnlyPages(a) /\ backlog' = backlog
  BY <1>3 DEF Submit, OnlyPages
<1>5. /\ panel.version > 0
      /\ raced \/ (page[a].version \in 1..panel.version /\ had[page[a].version] = page[a].content)
  BY <1>2 DEF IInv, PagesInv, Clean, PagesShowVersions
<1> QED BY <1>1, <1>3, <1>4, <1>5, PageMoves

LEMMA DraftsKeep ==
  ASSUME PanelAdminConstants, IInv, NEW a \in Admins, AskForDraft(a) \/ SaveBacklogDraft(a) \/ OpenReview(a)
  PROVE  IInv'
<1>1. page \in [Admins -> PageRow] /\ backlog \in BacklogRow /\ backlog.draft \in Content
  BY DEF IInv, TypeOK, BacklogRow
<1>2. \E p \in PageRow : /\ page' = [page EXCEPT ![a] = p]
                         /\ p.pc \notin {"open", "submit"} /\ (p.pc = "review" => backlog.draft # None)
  <2>1. CASE AskForDraft(a)
    <3>1. [Closed EXCEPT !.pc = "draft"] \in PageRow /\ [Closed EXCEPT !.pc = "draft"].pc = "draft"
      BY Rows DEF Closed, PageRow
    <3> QED BY <2>1, <3>1 DEF AskForDraft
  <2>2. CASE SaveBacklogDraft(a)
    BY <2>2, Rows DEF SaveBacklogDraft
  <2>3. CASE OpenReview(a)
    <3> DEFINE shown == [Closed EXCEPT !.pc = "review", !.content = backlog.draft]
    <3>1. shown \in PageRow /\ shown.pc = "review"
      BY <1>1, Rows DEF Closed, PageRow
    <3>2. page' = [page EXCEPT ![a] = shown] /\ backlog.draft # None
      BY <2>3 DEF OpenReview
    <3> QED BY <3>1, <3>2
  <2> QED BY <2>1, <2>2, <2>3
<1>3. backlog' \in BacklogRow /\ (backlog.draft # None => backlog'.draft # None)
  <2>1. CASE SaveBacklogDraft(a)
    BY <1>1, <2>1 DEF SaveBacklogDraft, BacklogRow
  <2>2. CASE AskForDraft(a) \/ OpenReview(a)
    BY <1>1, <2>2 DEF AskForDraft, OpenReview
  <2> QED BY <2>1, <2>2
<1>4. PICK p \in PageRow : /\ page' = [page EXCEPT ![a] = p]
                          /\ p.pc \notin {"open", "submit"} /\ (p.pc = "review" => backlog.draft # None)
  BY <1>2
<1>5. page'[a] = p /\ page' \in [Admins -> PageRow] /\ \A b \in Admins \ {a} : page'[b] = page[b]
  BY <1>1, <1>4
<1>6. OnlyPages(a)
  BY <1>5 DEF AskForDraft, SaveBacklogDraft, OpenReview, OnlyPages
<1> QED BY <1>3, <1>4, <1>5, <1>6, PageMoves

LEMMA SetBacklogStatusKeeps == ASSUME PanelAdminConstants, IInv, SetBacklogStatus PROVE IInv'
<1>1. backlog' \in BacklogRow /\ backlog'.draft = backlog.draft
  BY DEF SetBacklogStatus, IInv, TypeOK, BacklogRow
<1>2. TypeOK'
  BY <1>1 DEF SetBacklogStatus, IInv, TypeOK
<1>3. PagesInv' /\ ScriptInv' /\ ~blind'
  BY <1>1 DEF SetBacklogStatus, IInv, PagesInv, ScriptInv, Holding, ChangesOnUpdate
<1>4. raced' \/ Clean'
  BY DEF SetBacklogStatus, IInv, Clean, NewestIsThere, NoneIsAhead, OlderAreRecorded, RecordsAreTrue,
         RowIsPanel, RowIsRecorded, RowWasHad, ChangesOnUpdate, PagesShowVersions
<1> QED BY <1>2, <1>3, <1>4 DEF IInv
-----------------------------------------------------------------------------
(* The dashboard's writes *)

\* What a page shows and what the script is about to record was there, and stays.
LEMMA HistoryStays ==
  ASSUME PanelAdminConstants, TypeOK, ScriptInv, PagesShowVersions, RowWasHad,
         panel' \in PanelRow, panel.version <= panel'.version,
         \A v \in Versions : v <= panel.version => had'[v] = had[v],
         \A b \in Admins : page'[b].pc \in {"open", "submit"} => page'[b] = page[b]
  PROVE  PagesShowVersions' /\ (UNCHANGED script => RowWasHad')
<1>1. /\ panel.version \in 0..MaxVersion /\ panel'.version \in 0..MaxVersion /\ MaxVersion \in Nat
      /\ script.row.version \in 0..MaxVersion
  BY DEF TypeOK, PanelRow, ScriptRow, PanelAdminConstants
<1>2. PagesShowVersions'
  <2> SUFFICES ASSUME NEW b \in Admins, page'[b].pc \in {"open", "submit"}
               PROVE  page'[b].version \in 1..panel'.version /\ had'[page'[b].version] = page'[b].content
    BY DEF PagesShowVersions
  <2>1. page'[b] = page[b] /\ page[b].version \in 1..panel.version /\ had[page[b].version] = page[b].content
    BY DEF PagesShowVersions
  <2>2. page[b].version \in Versions /\ page[b].version <= panel.version
    BY <1>1, <2>1 DEF Versions
  <2> QED BY <1>1, <2>1, <2>2
<1>3. ASSUME UNCHANGED script, script.pc = "after" PROVE RowWasHad'
  <2>1. script.row.version \in Versions
    BY <1>1, <1>3 DEF ScriptInv, Holding, Versions
  <2> QED BY <1>1, <1>3, <2>1 DEF RowWasHad
<1> QED BY <1>2, <1>3 DEF RowWasHad

\* An edit that is not stale replaces what its page showed.
LEMMA EditsAreSeen ==
  ASSUME PanelAdminConstants, IInv, NEW a \in Admins, page[a].pc = "submit", ~Stale(a), ~raced
  PROVE  page[a].content = panel.content
<1>1. panel.version > 0 /\ page[a].version = panel.version
  BY DEF IInv, PagesInv, Stale
<1> QED BY <1>1 DEF IInv, Clean, NewestIsThere, PagesShowVersions

LEMMA SavePanelEditKeeps ==
  ASSUME PanelAdminConstants, IInv, NEW a \in Admins, SavePanelEdit(a)
  PROVE  IInv'
<1>1. /\ page \in [Admins -> PageRow] /\ backlog \in BacklogRow /\ panel \in PanelRow
      /\ page[a].pc = "submit" /\ panel.version > 0 /\ panel.version < MaxVersion
      /\ panel.version \in Nat /\ MaxVersion \in Nat
      /\ recorded \in [Versions -> Content] /\ had \in [Versions -> Content]
  BY DEF SavePanelEdit, IInv, TypeOK, PagesInv, PanelRow, PanelAdminConstants
<1>2. /\ page' = [page EXCEPT ![a] = Closed] /\ page'[a].pc = "idle" /\ page' \in [Admins -> PageRow]
      /\ \A b \in Admins \ {a} : page'[b] = page[b]
      /\ UNCHANGED <<code, script, backlog>>
  BY <1>1, Rows DEF SavePanelEdit
<1>3. CASE UNCHANGED <<panel, recorded, had, raced, blind>>
  BY <1>1, <1>2, <1>3, PageMoves DEF OnlyPages, IInv
<1>4. ASSUME NEW c \in Contents,
             NEW p, p = [panel EXCEPT !.version = @ + 1, !.content = c, !.edited = TRUE],
             ~Stale(a), Write(p), recorded' = RecordedAround(p), Dashboard,
             blind' = (blind \/ (~raced /\ page[a].content # panel.content))
      PROVE  IInv'
  <2>1. /\ p \in PanelRow /\ p.version = panel.version + 1 /\ p.content = c /\ p.content # None
        /\ panel.version \in Versions /\ p.version \in Versions
    <3>1. /\ p \in PanelRow /\ p.version = panel.version + 1 /\ p.content = c
      <4>1. panel.version + 1 \in 0..MaxVersion /\ c \in Content
        BY <1>1, <1>4 DEF Content
      <4>2. p = [panel EXCEPT !.version = panel.version + 1, !.content = c, !.edited = TRUE]
        BY <1>4
      <4> QED BY <1>1, <4>1, <4>2 DEF PanelRow
    <3>2. c # None
      BY <1>4 DEF PanelAdminConstants
    <3> QED BY <1>1, <3>1, <3>2 DEF Versions
  <2>2. /\ panel' = p /\ had' = [had EXCEPT ![p.version] = p.content]
    BY <1>4 DEF Write
  <2> DEFINE first == Recording(panel, recorded)
  <2>3. /\ first \in [Versions -> Content]
        /\ \A v \in Versions : v # panel.version => first[v] = recorded[v]
        /\ first[panel.version] = IF recorded[panel.version] = None THEN panel.content ELSE recorded[panel.version]
    BY <1>1, <2>1, RecordingIsSafe
  <2>4. /\ recorded' \in [Versions -> Content]
        /\ \A v \in Versions : v # p.version => recorded'[v] = first[v]
        /\ recorded'[p.version] = IF first[p.version] = None THEN p.content ELSE first[p.version]
    BY <1>4, <2>1, <2>3, RecordingIsSafe DEF RecordedAround
  <2> HIDE DEF first
  <2>5. TypeOK'
    <3>1. had' \in [Versions -> Content] /\ p.content \in Content
      BY <1>1, <2>1, <2>2 DEF PanelRow
    <3>2. raced' \in BOOLEAN /\ blind' \in BOOLEAN
      BY <1>4 DEF Dashboard, IInv, TypeOK
    <3> QED BY <1>2, <2>1, <2>2, <2>4, <3>1, <3>2 DEF IInv, TypeOK
  <2>6. PagesInv' /\ ScriptInv'
    BY <1>1, <1>2, <2>1, <2>2 DEF IInv, PagesInv, ScriptInv, Holding, ChangesOnUpdate
  <2>7. ~blind'
    BY <1>1, <1>4, EditsAreSeen DEF IInv
  <2>8. ASSUME ~raced' PROVE Clean'
    <3>1. ~raced /\ script.pc \notin {"before", "update"}
      BY <1>4, <2>8 DEF Dashboard
    <3>2. Clean /\ TypeOK /\ ScriptInv
      BY <3>1 DEF IInv
    <3>3. recorded[panel.version] \in {None, panel.content} /\ recorded[p.version] = None
      BY <1>1, <2>1, <3>2 DEF Clean, RecordsAreTrue, NewestIsThere, NoneIsAhead
    <3>4. recorded'[panel.version] = panel.content /\ recorded'[p.version] = p.content
      BY <1>1, <2>1, <2>3, <2>4, <3>3
    <3>5. VersionsInv' /\ \A v \in Versions : v <= panel.version => had'[v] = had[v]
      <4>1. VersionsInv /\ \A v \in Versions : v \notin {panel.version, p.version} => recorded'[v] = recorded[v]
        BY <2>3, <2>4, <3>2 DEF VersionsInv, Clean
      <4> QED BY <1>4, <2>1, <2>4, <3>2, <3>4, <4>1, VersionAdded
    <3>6. PagesShowVersions' /\ RowWasHad'
      BY <1>1, <1>2, <2>1, <2>2, <3>2, <3>5, HistoryStays DEF Clean
    <3>7. RowIsPanel' /\ RowIsRecorded'
      BY <1>2, <3>1 DEF RowIsPanel, RowIsRecorded, ChangesOnUpdate
    <3> QED BY <3>5, <3>6, <3>7 DEF Clean, VersionsInv
  <2> QED BY <2>5, <2>6, <2>7, <2>8 DEF IInv
<1> QED BY <1>3, <1>4 DEF SavePanelEdit

LEMMA SetPanelActiveKeeps == ASSUME PanelAdminConstants, IInv, SetPanelActive PROVE IInv'
<1>1. /\ panel \in PanelRow /\ panel' \in PanelRow /\ panel'.version = panel.version
      /\ panel'.content = panel.content
  BY DEF SetPanelActive, IInv, TypeOK, PanelRow
<1>2. TypeOK'
  <2>1. raced' \in BOOLEAN
    BY DEF SetPanelActive, Dashboard
  <2> QED BY <1>1, <2>1 DEF SetPanelActive, IInv, TypeOK
<1>3. PagesInv' /\ ScriptInv' /\ ~blind'
  BY <1>1 DEF SetPanelActive, IInv, PagesInv, ScriptInv, Holding, ChangesOnUpdate
<1>4. ASSUME ~raced' PROVE Clean'
  <2>1. ~raced /\ script.pc \notin {"before", "update"}
    BY <1>4 DEF SetPanelActive, Dashboard
  <2>2. Clean
    BY <2>1 DEF IInv
  <2>3. NewestIsThere' /\ NoneIsAhead' /\ OlderAreRecorded' /\ RecordsAreTrue'
    BY <1>1, <2>2 DEF SetPanelActive, Clean, NewestIsThere, NoneIsAhead, OlderAreRecorded, RecordsAreTrue
  <2>4. RowIsPanel' /\ RowIsRecorded'
    BY <2>1 DEF SetPanelActive, RowIsPanel, RowIsRecorded, ChangesOnUpdate
  <2>5. RowWasHad' /\ PagesShowVersions'
    BY <1>1, <2>2 DEF SetPanelActive, Clean, RowWasHad, PagesShowVersions
  <2> QED BY <2>3, <2>4, <2>5 DEF Clean
<1> QED BY <1>2, <1>3, <1>4 DEF IInv

LEMMA PublishKeeps ==
  ASSUME PanelAdminConstants, IInv, NEW a \in Admins, PublishBacklogDraft(a)
  PROVE  IInv'
<1>1. /\ page \in [Admins -> PageRow] /\ backlog \in BacklogRow /\ panel \in PanelRow
      /\ backlog.draft # None /\ backlog.draft \in Content
      /\ recorded \in [Versions -> Content] /\ had \in [Versions -> Content]
      /\ 1 \in Versions
  BY DEF PublishBacklogDraft, IInv, TypeOK, PagesInv, BacklogRow, Versions, PanelAdminConstants
<1>2. /\ page' = [page EXCEPT ![a] = Closed] /\ page'[a].pc = "idle" /\ page' \in [Admins -> PageRow]
      /\ \A b \in Admins \ {a} : page'[b] = page[b]
      /\ UNCHANGED <<code, script, raced, blind>>
  BY <1>1, Rows DEF PublishBacklogDraft
<1>3. CASE panel.version # 0
  <2>1. UNCHANGED <<panel, recorded, backlog, had>>
    BY <1>3 DEF PublishBacklogDraft
  <2> QED BY <1>1, <1>2, <2>1, PageMoves DEF OnlyPages
<1>4. CASE panel.version = 0
  <2> DEFINE p == [version |-> 1, content |-> backlog.draft, active |-> TRUE, edited |-> TRUE]
  <2>1. /\ p \in PanelRow /\ p.version = panel.version + 1 /\ p.version = 1 /\ p.content = backlog.draft
    BY <1>1, <1>4 DEF PanelRow, Versions
  <2>2. /\ Write(p) /\ recorded' = Recording(p, recorded) /\ backlog' = [backlog EXCEPT !.status = "drafted"]
    BY <1>4 DEF PublishBacklogDraft
  <2> HIDE DEF p
  <2>3. /\ panel' = p /\ had' = [had EXCEPT ![p.version] = p.content]
    BY <2>2 DEF Write
  <2>4. /\ recorded' \in [Versions -> Content]
        /\ \A v \in Versions : v # p.version => recorded'[v] = recorded[v]
        /\ recorded'[p.version] = IF recorded[p.version] = None THEN p.content ELSE recorded[p.version]
    BY <1>1, <2>1, <2>2, RecordingIsSafe
  <2>5. backlog' \in BacklogRow /\ backlog'.draft = backlog.draft
    BY <1>1, <2>2 DEF BacklogRow
  <2>6. TypeOK'
    <3>1. had' \in [Versions -> Content]
      BY <1>1, <2>1, <2>3
    <3> QED BY <1>2, <2>1, <2>3, <2>4, <2>5, <3>1 DEF IInv, TypeOK
  <2>7. PagesInv' /\ ScriptInv' /\ ~blind'
    BY <1>2, <1>4, <2>1, <2>3, <2>5 DEF IInv, PagesInv, ScriptInv, Holding, ChangesOnUpdate
  <2>8. ASSUME ~raced PROVE Clean'
    <3>1. Clean /\ TypeOK /\ ScriptInv
      BY <2>8 DEF IInv
    <3>2. script.pc \notin {"before", "update"}
      BY <1>4, <3>1 DEF Clean, RowIsPanel, ScriptInv, Holding
    <3>3. recorded[p.version] = None
      BY <1>1, <1>4, <2>1, <3>1 DEF Clean, NoneIsAhead
    <3>4. VersionsInv' /\ \A v \in Versions : v <= panel.version => had'[v] = had[v]
      BY <1>1, <1>4, <2>1, <2>2, <2>4, <3>1, <3>3, VersionAdded DEF VersionsInv, Clean
    <3>5. PagesShowVersions' /\ RowWasHad'
      BY <1>2, <1>4, <2>1, <2>3, <3>1, <3>4, HistoryStays DEF Clean
    <3>6. RowIsPanel' /\ RowIsRecorded'
      BY <1>2, <3>2 DEF RowIsPanel, RowIsRecorded, ChangesOnUpdate
    <3> QED BY <3>4, <3>5, <3>6 DEF Clean, VersionsInv
  <2> QED BY <1>2, <2>6, <2>7, <2>8 DEF IInv
<1> QED BY <1>3, <1>4
-----------------------------------------------------------------------------
(* The script *)

\* A step of the script that moves no panel and records at most what it had.
LEMMA ScriptMoves ==
  ASSUME PanelAdminConstants, IInv, UNCHANGED <<panel, code, page, backlog, had, raced, blind>>,
         script' \in ScriptRow, ScriptInv', recorded' \in [Versions -> Content],
         ~raced => /\ RowIsPanel' /\ RowIsRecorded' /\ RowWasHad'
                   /\ \A v \in Versions : recorded'[v] = recorded[v] \/ (v <= panel.version /\ recorded'[v] = had[v])
  PROVE  IInv'
<1>1. TypeOK' /\ PagesInv' /\ ~blind'
  BY DEF IInv, TypeOK, PagesInv
<1>2. ASSUME ~raced PROVE Clean'
  <2>1. Clean
    BY <1>2 DEF IInv
  <2>2. NewestIsThere' /\ PagesShowVersions'
    BY <2>1 DEF Clean, NewestIsThere, PagesShowVersions
  <2>3. NoneIsAhead'
    <3>1. \A v \in Versions : v > panel.version => ~(v <= panel.version)
      BY DEF Versions, IInv, TypeOK, PanelRow, PanelAdminConstants
    <3> QED BY <1>2, <2>1, <3>1 DEF Clean, NoneIsAhead
  <2>4. OlderAreRecorded' /\ RecordsAreTrue'
    BY <1>2, <2>1 DEF Clean, OlderAreRecorded, RecordsAreTrue
  <2> QED BY <1>2, <2>1, <2>2, <2>3, <2>4 DEF Clean
<1> QED BY <1>1, <1>2 DEF IInv

LEMMA ReadPanelKeeps == ASSUME PanelAdminConstants, IInv, ReadPanel PROVE IInv'
<1> DEFINE next == IF panel.version = 0 THEN "create"
                   ELSE IF panel.content # code.content THEN "before" ELSE "update"
<1>1. /\ panel \in PanelRow /\ panel.version \in Nat /\ recorded \in [Versions -> Content]
  BY DEF IInv, TypeOK, PanelRow
<1>2. script' = [pc |-> next, row |-> panel] /\ code.content # None
  BY DEF ReadPanel, Script
<1>3. /\ next \in {"create", "before", "update"} /\ (next # "create" => panel.version > 0)
      /\ next = "update" => panel.content = code.content
  <2>1. CASE panel.version = 0
    BY <2>1
  <2>2. CASE panel.version # 0 /\ panel.content # code.content
    BY <1>1, <2>2
  <2>3. CASE panel.version # 0 /\ panel.content = code.content
    BY <1>1, <2>3
  <2> QED BY <2>1, <2>2, <2>3
<1> HIDE DEF next
<1>4. script' \in ScriptRow /\ script'.pc = next /\ script'.row = panel
  BY <1>1, <1>2, <1>3 DEF ScriptRow
<1>5. UNCHANGED <<panel, recorded, code, page, backlog, had, raced, blind>>
  BY DEF ReadPanel
<1>6. ScriptInv'
  BY <1>2, <1>3, <1>4, <1>5 DEF ScriptInv, Holding, ChangesOnUpdate
<1>7. RowIsPanel' /\ RowIsRecorded' /\ RowWasHad'
  BY <1>3, <1>4, <1>5 DEF RowIsPanel, RowIsRecorded, RowWasHad, ChangesOnUpdate
<1> QED BY <1>1, <1>4, <1>5, <1>6, <1>7, ScriptMoves

LEMMA ScriptDiesKeeps == ASSUME PanelAdminConstants, IInv, ScriptDies PROVE IInv'
<1>1. recorded \in [Versions -> Content]
  BY DEF IInv, TypeOK
<1>2. script' \in ScriptRow /\ script'.pc = "idle"
  BY Rows DEF ScriptDies, Script, ScriptRow
<1>3. UNCHANGED <<panel, recorded, code, page, backlog, had, raced, blind>>
  BY DEF ScriptDies
<1>4. ScriptInv' /\ RowIsPanel' /\ RowIsRecorded' /\ RowWasHad'
  BY <1>2 DEF ScriptInv, Holding, RowIsPanel, RowIsRecorded, RowWasHad, ChangesOnUpdate
<1> QED BY <1>1, <1>2, <1>3, <1>4, ScriptMoves

\* What the script records is what the panel had: the row is the panel, or was
\* when the script wrote it.
LEMMA ScriptRecordsKeep ==
  ASSUME PanelAdminConstants, IInv, RecordBefore \/ RecordAfter
  PROVE  IInv'
<1>1. /\ script.row \in PanelRow /\ script.row.version \in Versions /\ panel.version \in Nat
      /\ recorded \in [Versions -> Content] /\ script.pc \in {"before", "after"}
  BY DEF RecordBefore, RecordAfter, IInv, TypeOK, ScriptRow, ScriptInv, Holding, PanelRow, Versions
<1>2. recorded' = Recording(script.row, recorded)
  BY DEF RecordBefore, RecordAfter, RecordedFirst
<1>3. /\ recorded' \in [Versions -> Content]
      /\ \A v \in Versions : v # script.row.version => recorded'[v] = recorded[v]
      /\ recorded'[script.row.version] =
           IF recorded[script.row.version] = None THEN script.row.content ELSE recorded[script.row.version]
  BY <1>1, <1>2, RecordingIsSafe
<1>4. UNCHANGED <<panel, code, page, backlog, had, raced, blind>>
  BY DEF RecordBefore, RecordAfter
<1>5. /\ script' \in ScriptRow /\ ScriptInv'
      /\ \/ script.pc = "before" /\ script'.pc = "update" /\ script'.row = script.row
         \/ script'.pc = "idle"
  <2>1. CASE RecordBefore
    <3>1. /\ script' = [pc |-> "update", row |-> script.row] /\ script.row.version < MaxVersion
          /\ script.pc = "before"
      BY <2>1 DEF RecordBefore, Script
    <3>2. script' \in ScriptRow /\ script'.pc = "update" /\ script'.row = script.row
      BY <1>1, <3>1 DEF ScriptRow
    <3> QED BY <1>4, <3>1, <3>2 DEF IInv, ScriptInv, Holding, ChangesOnUpdate
  <2>2. CASE RecordAfter
    <3>1. script' \in ScriptRow /\ script'.pc = "idle"
      BY <2>2, Rows DEF RecordAfter, Script, ScriptRow
    <3> QED BY <3>1 DEF ScriptInv, Holding, ChangesOnUpdate
  <2> QED BY <2>1, <2>2
<1>6. ASSUME ~raced
      PROVE  /\ RowIsPanel' /\ RowIsRecorded' /\ RowWasHad'
             /\ \A v \in Versions :
                  recorded'[v] = recorded[v] \/ (v <= panel.version /\ recorded'[v] = had[v])
  <2>1. Clean
    BY <1>6 DEF IInv
  <2>2. /\ script.row.version <= panel.version /\ script.row.content # None
        /\ had[script.row.version] = script.row.content
    <3>1. CASE script.pc = "before"
      <4>1. script.row = panel /\ panel.version > 0
        BY <2>1, <3>1 DEF Clean, RowIsPanel, IInv, ScriptInv, Holding
      <4> QED BY <1>1, <2>1, <4>1 DEF Clean, NewestIsThere
    <3>2. CASE script.pc = "after"
      BY <2>1, <3>2 DEF Clean, RowWasHad
    <3> QED BY <1>1, <3>1, <3>2
  <2>3. recorded'[script.row.version] # None
    BY <1>3, <2>2
  <2>4. RowIsPanel' /\ RowIsRecorded' /\ RowWasHad'
    BY <1>4, <1>5, <2>1, <2>3 DEF Clean, RowIsPanel, RowIsRecorded, RowWasHad, ChangesOnUpdate
  <2>5. \A v \in Versions : recorded'[v] = recorded[v] \/ (v <= panel.version /\ recorded'[v] = had[v])
    BY <1>3, <2>2
  <2> QED BY <2>4, <2>5
<1> QED BY <1>3, <1>4, <1>5, <1>6, ScriptMoves

LEMMA CreatePanelKeeps == ASSUME PanelAdminConstants, IInv, CreatePanel PROVE IInv'
<1>1. /\ script.pc = "create" /\ code.content # None /\ code.content \in Content
      /\ recorded \in [Versions -> Content] /\ had \in [Versions -> Content] /\ 1 \in Versions
      /\ panel \in PanelRow
      /\ UNCHANGED <<recorded, code, page, backlog, raced, blind>>
  BY DEF CreatePanel, IInv, TypeOK, ScriptInv, Versions, PanelAdminConstants
<1>2. CASE panel.version # 0
  <2>1. UNCHANGED <<panel, had>> /\ script' = [pc |-> "idle", row |-> NoPanel]
    BY <1>2 DEF CreatePanel, Script
  <2>2. script' \in ScriptRow /\ script'.pc = "idle"
    BY <2>1, Rows DEF ScriptRow
  <2>3. ScriptInv' /\ RowIsPanel' /\ RowIsRecorded' /\ RowWasHad'
    BY <2>2 DEF ScriptInv, Holding, RowIsPanel, RowIsRecorded, RowWasHad, ChangesOnUpdate
  <2> QED BY <1>1, <2>1, <2>2, <2>3, ScriptMoves
<1>3. CASE panel.version = 0
  <2> DEFINE p == [version |-> 1, content |-> code.content, active |-> TRUE, edited |-> FALSE]
  <2>1. /\ p \in PanelRow /\ p.version = panel.version + 1 /\ p.version = 1 /\ p.content = code.content
    BY <1>1, <1>3 DEF PanelRow, Versions
  <2>2. Write(p) /\ script' = [pc |-> "after", row |-> p]
    BY <1>3 DEF CreatePanel, Script
  <2> HIDE DEF p
  <2>3. /\ panel' = p /\ had' = [had EXCEPT ![p.version] = p.content] /\ had' \in [Versions -> Content]
    BY <1>1, <2>1, <2>2 DEF Write
  <2>4. script' \in ScriptRow /\ script'.pc = "after" /\ script'.row = p
    BY <2>1, <2>2 DEF ScriptRow
  <2>5. TypeOK' /\ PagesInv' /\ ScriptInv' /\ ~blind'
    BY <1>1, <1>3, <2>1, <2>3, <2>4 DEF IInv, TypeOK, PagesInv, ScriptInv, Holding, ChangesOnUpdate
  <2>6. ASSUME ~raced PROVE Clean'
    <3>1. Clean /\ TypeOK /\ ScriptInv
      BY <2>6 DEF IInv
    <3>2. recorded[p.version] = None
      BY <1>1, <1>3, <2>1, <3>1 DEF Clean, NoneIsAhead
    <3>3. /\ VersionsInv' /\ \A v \in Versions : v <= panel.version => had'[v] = had[v]
          /\ had'[p.version] = p.content
      BY <1>1, <1>3, <2>1, <2>2, <3>1, <3>2, VersionAdded DEF VersionsInv, Clean
    <3>4. PagesShowVersions'
      BY <1>1, <1>3, <2>1, <2>3, <3>1, <3>3, HistoryStays DEF Clean
    <3>5. RowWasHad' /\ RowIsPanel' /\ RowIsRecorded'
      BY <1>1, <2>1, <2>3, <2>4, <3>3 DEF RowWasHad, RowIsPanel, RowIsRecorded, ChangesOnUpdate
    <3> QED BY <3>3, <3>4, <3>5 DEF Clean, VersionsInv
  <2> QED BY <1>1, <2>5, <2>6 DEF IInv
<1> QED BY <1>2, <1>3

LEMMA UpdatePanelKeeps == ASSUME PanelAdminConstants, IInv, UpdatePanel PROVE IInv'
<1> DEFINE changed == script.row.content # code.content
           version == IF changed THEN script.row.version + 1 ELSE script.row.version
<1>1. /\ script.pc = "update" /\ code.content # None /\ code.content \in Content
      /\ script.row \in PanelRow /\ script.row.version \in Versions
      /\ recorded \in [Versions -> Content] /\ had \in [Versions -> Content]
      /\ panel \in PanelRow /\ panel.version \in Nat
      /\ UNCHANGED <<recorded, code, page, backlog, raced, blind>>
  BY DEF UpdatePanel, IInv, TypeOK, ScriptRow, ScriptInv, Holding, PanelRow, Versions
<1>2. version \in Versions
  BY <1>1 DEF IInv, ScriptInv, ChangesOnUpdate, Versions, PanelAdminConstants
<1>3. PICK p : /\ p = [panel EXCEPT !.content = code.content, !.active = TRUE, !.version = version]
               /\ Write(p)
               /\ script' = IF changed THEN [pc |-> "after", row |-> p] ELSE [pc |-> "idle", row |-> NoPanel]
  BY DEF UpdatePanel, Script
<1> HIDE DEF changed, version
<1>4. /\ p \in PanelRow /\ p.version = version /\ p.content = code.content /\ p.version > 0
      /\ p.version \in Versions
  <2>1. version \in 0..MaxVersion /\ version > 0
    BY <1>2, Rows
  <2> QED BY <1>1, <1>2, <1>3, <2>1 DEF PanelRow
<1>5. /\ panel' = p /\ had' = [had EXCEPT ![p.version] = p.content] /\ had' \in [Versions -> Content]
      /\ had'[p.version] = p.content
  BY <1>1, <1>3, <1>4 DEF Write
<1>6. /\ script' \in ScriptRow
      /\ changed => script'.pc = "after" /\ script'.row = p
      /\ ~changed => script'.pc = "idle"
  BY <1>3, <1>4, Rows DEF ScriptRow
<1>7. TypeOK' /\ PagesInv' /\ ScriptInv' /\ ~blind'
  BY <1>1, <1>4, <1>5, <1>6 DEF IInv, TypeOK, PagesInv, ScriptInv, Holding, ChangesOnUpdate
<1>8. ASSUME ~raced PROVE Clean'
  <2>1. Clean /\ TypeOK /\ ScriptInv
    BY <1>8 DEF IInv
  <2>2. script.row = panel /\ panel.version \in Versions /\ had[panel.version] = panel.content
    BY <1>1, <2>1 DEF Clean, RowIsPanel, NewestIsThere, Versions
  <2>3. RowIsPanel' /\ RowIsRecorded'
    BY <1>6 DEF RowIsPanel, RowIsRecorded, ChangesOnUpdate
  <2>4. CASE changed
    <3>1. p.version = panel.version + 1
      BY <1>4, <2>2, <2>4 DEF version
    <3>2. recorded[panel.version] = panel.content
      <4>1. recorded[panel.version] # None
        BY <1>1, <2>1, <2>2, <2>4 DEF Clean, RowIsRecorded, ChangesOnUpdate, changed
      <4> QED BY <2>1, <2>2, <4>1 DEF Clean, RecordsAreTrue
    <3>3. recorded[p.version] = None
      BY <1>1, <1>4, <2>1, <3>1 DEF Clean, NoneIsAhead
    <3>4. VersionsInv' /\ \A v \in Versions : v <= panel.version => had'[v] = had[v]
      BY <1>1, <1>3, <1>4, <2>1, <3>1, <3>2, <3>3, VersionAdded DEF VersionsInv, Clean
    <3>5. PagesShowVersions'
      BY <1>1, <1>4, <1>5, <2>1, <3>1, <3>4, HistoryStays DEF Clean
    <3>6. RowWasHad'
      <4>1. p.version <= panel'.version
        BY <1>1, <1>5, <3>1
      <4> QED BY <1>1, <1>4, <1>5, <1>6, <2>4, <4>1 DEF RowWasHad
    <3> QED BY <2>3, <3>4, <3>5, <3>6 DEF Clean, VersionsInv
  <2>5. CASE ~changed
    <3>1. p.version = panel.version /\ p.content = panel.content
      BY <1>4, <2>2, <2>5 DEF version, changed
    <3>2. had' = had
      BY <1>1, <1>5, <2>2, <3>1
    <3>3. NewestIsThere' /\ NoneIsAhead' /\ OlderAreRecorded' /\ RecordsAreTrue' /\ PagesShowVersions'
      BY <1>1, <1>5, <2>1, <3>1, <3>2
         DEF Clean, NewestIsThere, NoneIsAhead, OlderAreRecorded, RecordsAreTrue, PagesShowVersions
    <3>4. RowWasHad'
      BY <1>6, <2>5 DEF RowWasHad
    <3> QED BY <2>3, <3>3, <3>4 DEF Clean
  <2> QED BY <2>4, <2>5
<1> QED BY <1>1, <1>7, <1>8 DEF IInv

\* A definition changes while no script runs.
LEMMA DeployKeeps ==
  ASSUME PanelAdminConstants, IInv, NEW c \in Contents, Deploy(c)
  PROVE  IInv'
<1>1. /\ code' \in [content: Content, deploys: 0..MaxDeploys] /\ script.pc = "idle"
      /\ UNCHANGED <<panel, recorded, script, page, backlog, had, raced, blind>>
  <2>1. code.deploys + 1 \in 0..MaxDeploys /\ c \in Content
    BY DEF Deploy, IInv, TypeOK, Content, PanelAdminConstants
  <2> QED BY <2>1 DEF Deploy
<1>2. TypeOK' /\ PagesInv' /\ ScriptInv' /\ ~blind'
  BY <1>1 DEF IInv, TypeOK, PagesInv, ScriptInv, Holding, ChangesOnUpdate
<1>3. raced' \/ Clean'
  BY <1>1 DEF IInv, Clean, NewestIsThere, NoneIsAhead, OlderAreRecorded, RecordsAreTrue, RowIsPanel,
              RowIsRecorded, RowWasHad, ChangesOnUpdate, PagesShowVersions
<1> QED BY <1>2, <1>3 DEF IInv
-----------------------------------------------------------------------------
LEMMA NextKeeps == ASSUME PanelAdminConstants, IInv, [Next]_vars PROVE IInv'
<1>1. CASE UNCHANGED vars
  BY <1>1 DEF vars, IInv, TypeOK, PagesInv, ScriptInv, Holding, ChangesOnUpdate, Clean, NewestIsThere,
              NoneIsAhead, OlderAreRecorded, RecordsAreTrue, RowIsPanel, RowIsRecorded, RowWasHad,
              PagesShowVersions
<1>2. CASE Next
  BY <1>2, OpenPageKeeps, SubmitKeeps, SavePanelEditKeeps, DraftsKeep, PublishKeeps, SetPanelActiveKeeps,
     SetBacklogStatusKeeps, ReadPanelKeeps, CreatePanelKeeps, ScriptRecordsKeep, UpdatePanelKeeps,
     ScriptDiesKeeps, DeployKeeps DEF Next, RunScript
<1> QED BY <1>1, <1>2

THEOREM Invariance == ASSUME PanelAdminConstants PROVE Spec => []IInv
<1>1. Init => IInv
  BY InitHolds
<1>2. IInv /\ [Next]_vars => IInv'
  BY NextKeeps
<1> QED BY <1>1, <1>2, PTL DEF Spec

\* The variables keep their types: no writer leaves the range of versions.
THEOREM TypeCorrect == ASSUME PanelAdminConstants PROVE Spec => []TypeOK
<1>1. IInv => TypeOK
  BY DEF IInv
<1> QED BY <1>1, Invariance, PTL

\* Unless the dashboard and the script raced, every version a panel had is
\* recorded as it was, and no edit replaces what its admin has not seen
\* (panel-admin.ts:154-178, aeo-panels.ts:64-88).
THEOREM EditsStaySound == ASSUME PanelAdminConstants PROVE Spec => []EditsAreSound
<1>1. IInv => EditsAreSound
  BY DEF IInv, Clean, OlderAreRecorded, RecordsAreTrue, EditsAreSound
<1> QED BY <1>1, Invariance, PTL
=============================================================================
