------------------------ MODULE PersesDashboardsProofs ------------------------
(***************************************************************************)
(* Proofs about PersesDashboards.  The page of a dashboard stays typed     *)
(* through every effect and answer; what a refetch may do to it, and what  *)
(* the URL may become, follow.                                             *)
(***************************************************************************)
EXTENDS PersesDashboards, TLAPS

(* The page of a dashboard: its queued panel and the guard agree.          *)
PageStates ==
  { a \in [ board : Boards, shows : Showable, original : Showable \cup {None},
            edit : BOOLEAN, saveError : BOOLEAN,
            panelEditor : BOOLEAN, queued : External \cup {None}, processing : BOOLEAN,
            metadata : Lists, seenByToolbar : {None} \cup (Url \X Lists), seenEdit : BOOLEAN ] :
      a.processing <=> a.queued # None }

SavingStates ==
  {NotSaving} \cup
  [phase : {"put", "refetch"}, board : Boards, title : {0, 1, None}, panels : SUBSET Panels,
   left : BOOLEAN]

PageTypeOK == app = NoPage \/ app \in PageStates

ConsoleStates == [namespace : Namespaces \cup {All}, loaded : BOOLEAN]

(* The inductive invariant: a page that hears of its save is mounted.      *)
PInv ==
  /\ server \in Lists
  /\ list \in Lists
  /\ url \in Url
  /\ console \in ConsoleStates
  /\ PageTypeOK
  /\ handed \in External \cup {None}
  /\ saving \in SavingStates
  /\ saving # NotSaving /\ ~saving.left => Mounted

----------------------------------------------------------------------------
(* Pages                                                                   *)

LEMMA PageIsMounted ==
  ASSUME NEW a \in PageStates
  PROVE  a # NoPage
BY DEF PageStates, NoPage

LEMMA SavingHasPhase ==
  ASSUME NEW s \in SavingStates
  PROVE  s.phase \in {"none", "put", "refetch"} /\ (s.phase = "none" <=> s = NotSaving)
BY DEF SavingStates, NotSaving

LEMMA ShownType ==
  ASSUME NEW b \in Boards, NEW dashboard \in Board
  PROVE  Shown(b, dashboard) \in Showable
BY DEF Shown, Showable, Board

LEMMA MountedPageType ==
  ASSUME NEW b \in Boards, NEW dashboard \in Board, NEW metadata \in Lists
  PROVE  MountedPage(b, dashboard, metadata) \in PageStates
<1>1. Shown(b, dashboard) \in Showable
  BY ShownType
<1> QED
  BY <1>1 DEF MountedPage, PageStates

(* A page that is unmounted does not hear of its save.                     *)
LEMMA LeftType ==
  ASSUME saving \in SavingStates
  PROVE  Left \in SavingStates /\ (Left # NotSaving => Left.left)
BY DEF Left, SavingStates, NotSaving

LEMMA MetadataType ==
  ASSUME NEW old \in Lists, NEW new \in Lists
  PROVE  Metadata(old, new) \in Lists
BY DEF Metadata

LEMMA ListPanels ==
  ASSUME NEW l \in Lists, NEW b \in Boards
  PROVE  l[b] \in Board
BY DEF Lists, Board

(* A panel more, or less, on the page.                                     *)
LEMMA ShowsType ==
  ASSUME NEW a \in PageStates, NEW panels \in SUBSET Panels
  PROVE  [a EXCEPT !.shows.panels = panels] \in PageStates
<1>1. [a.shows EXCEPT !.panels = panels] \in Showable
  BY DEF PageStates, Showable
<1>2. [a EXCEPT !.shows.panels = panels] = [a EXCEPT !.shows = [a.shows EXCEPT !.panels = panels]]
  BY DEF PageStates
<1> QED
  BY <1>1, <1>2 DEF PageStates

LEMMA EntersEditType ==
  ASSUME NEW a \in PageStates
  PROVE  EntersEdit(a) \in PageStates
BY DEF EntersEdit, PageStates

(* The effects of one render, for a page that is mounted.                  *)
LEMMA AfterQueueType ==
  ASSUME PInv, NEW a \in PageStates
  PROVE  AfterQueue(a) \in PageStates
<1> SUFFICES ASSUME QueueDue PROVE AfterQueue(a) \in PageStates
  BY DEF AfterQueue
<1>1. PICK e \in PageStates :
        AfterQueue(a) = [e EXCEPT !.processing = TRUE, !.panelEditor = TRUE, !.queued = handed]
  BY EntersEditType DEF AfterQueue
<1>2. handed \in External /\ handed # None
  BY DEF QueueDue, PInv
<1> QED
  BY <1>1, <1>2 DEF PageStates

LEMMA AfterApplyType ==
  ASSUME PInv, NEW a \in PageStates
  PROVE  AfterApply(a) \in PageStates
<1> SUFFICES ASSUME ApplyDue PROVE AfterApply(a) \in PageStates
  BY DEF AfterApply
<1>1. app \in PageStates /\ app.queued # None
  BY DEF ApplyDue, PInv, PageTypeOK, Mounted
<1>2. app.queued \in Panels
  BY <1>1, ConstantsAssumption DEF PageStates
<1> DEFINE more == a.shows.panels \cup {app.queued}
           added == [a EXCEPT !.shows.panels = more]
<1>3. added \in PageStates
  BY <1>2, ShowsType DEF PageStates, Showable
<1>4. AfterApply(a) = [added EXCEPT !.panelEditor = FALSE, !.queued = None, !.processing = FALSE]
  BY DEF AfterApply
<1> HIDE DEF added
<1> QED
  BY <1>3, <1>4 DEF PageStates

LEMMA AfterToolbarType ==
  ASSUME PInv, NEW a \in PageStates
  PROVE  AfterToolbar(a) \in PageStates
<1> SUFFICES ASSUME ToolbarDue PROVE AfterToolbar(a) \in PageStates
  BY DEF AfterToolbar
<1>1. app \in PageStates /\ url \in Url
  BY DEF ToolbarDue, PInv, PageTypeOK, Mounted
<1>2. ToolbarDeps \in Url \X Lists
  BY <1>1 DEF ToolbarDeps, PageStates
<1> DEFINE shown == Shown(url.board, app.metadata[url.board])
<1>3. shown \in Showable
  BY <1>1, ListPanels, ShownType DEF Url, PageStates
<1>4. AfterToolbar(a) = [a EXCEPT !.seenByToolbar = ToolbarDeps, !.shows = shown]
  BY DEF AfterToolbar
<1> HIDE DEF shown
<1> QED
  BY <1>2, <1>3, <1>4 DEF PageStates

LEMMA AfterSaveErrorType ==
  ASSUME NEW a \in PageStates
  PROVE  AfterSaveError(a) \in PageStates
BY DEF AfterSaveError, PageStates

LEMMA AfterEditType ==
  ASSUME PInv, NEW a \in PageStates
  PROVE  AfterEdit(a) \in PageStates
<1>1. CASE ~EditDue
  BY <1>1 DEF AfterEdit
<1>2. CASE EditDue
  <2> DEFINE edit == a.edit \/ url.edit
  <2>1. url.edit \in BOOLEAN /\ edit \in BOOLEAN
    BY DEF PInv, Url, PageStates
  <2>2. AfterEdit(a) = [a EXCEPT !.edit = edit, !.seenEdit = url.edit]
    BY <1>2 DEF AfterEdit
  <2> HIDE DEF edit
  <2>3. \A x, y \in BOOLEAN : [a EXCEPT !.edit = x, !.seenEdit = y] \in PageStates
    BY DEF PageStates
  <2> QED
    BY <2>1, <2>2, <2>3
<1> QED
  BY <1>1, <1>2

----------------------------------------------------------------------------
(* Each step                                                               *)

LEMMA CommitStep ==
  ASSUME PInv, Commit
  PROVE  PInv'
<1>1. PageTypeOK' /\ (Mounted => Mounted')
  <2>1. CASE app \in PageStates
    <3>1. app' \in PageStates
      BY <2>1, AfterQueueType, AfterApplyType, AfterToolbarType, AfterSaveErrorType,
         AfterEditType DEF Commit
    <3> QED
      BY <3>1, PageIsMounted DEF PageTypeOK, Mounted
  <2>2. CASE app = NoPage
    <3>1. ~QueueDue /\ ~ApplyDue /\ ~ToolbarDue /\ ~SaveErrorDue /\ ~EditDue
      BY <2>2 DEF QueueDue, ApplyDue, ToolbarDue, SaveErrorDue, EditDue, Mounted
    <3>2. app' = app
      BY <3>1 DEF Commit, AfterQueue, AfterApply, AfterToolbar, AfterSaveError, AfterEdit
    <3> QED
      BY <2>2, <3>2 DEF PageTypeOK, Mounted
  <2> QED
    BY <2>1, <2>2 DEF PInv, PageTypeOK
<1>2. url' \in Url /\ console' \in ConsoleStates
  <2>1. AfterSync
    BY DEF Commit
  <2>2. url' \in Url
    BY <2>1, ConstantsAssumption DEF AfterSync, PInv, Url, ConsoleStates
  <2>3. console' \in ConsoleStates
    BY <2>1 DEF AfterSync, SyncDue, PInv, ConsoleStates
  <2> QED
    BY <2>2, <2>3
<1>3. handed' \in External \cup {None}
  BY DEF Commit, PInv
<1> QED
  BY <1>1, <1>2, <1>3 DEF Commit, PInv

LEMMA NamespacesLoadedStep ==
  ASSUME PInv, NamespacesLoaded
  PROVE  PInv'
<1>1. console' \in ConsoleStates
  BY DEF NamespacesLoaded, PInv, ConsoleStates
<1> QED
  BY <1>1 DEF NamespacesLoaded, PInv, PageTypeOK, Mounted

(* A page whose metadata are those of the answer, or none.                 *)
LEMMA RefetchedType ==
  ASSUME PInv, NEW a, Mounted => a \in PageStates, Refetched(a)
  PROVE  list' \in Lists /\ PageTypeOK'
<1>1. CASE Mounted /\ Exists(url.board, server)
  <2>1. Metadata(a.metadata, server) \in Lists
    BY <1>1, MetadataType DEF PInv, PageStates
  <2>2. app' = [a EXCEPT !.metadata = Metadata(a.metadata, server)]
    BY <1>1 DEF Refetched
  <2> QED
    BY <1>1, <2>1, <2>2 DEF Refetched, PageStates, PageTypeOK, PInv
<1>2. CASE ~(Mounted /\ Exists(url.board, server))
  BY <1>2 DEF Refetched, PageTypeOK, PInv
<1> QED
  BY <1>1, <1>2

LEMMA ListFetchedStep ==
  ASSUME PInv, ListFetched
  PROVE  PInv'
<1>1. list' \in Lists /\ PageTypeOK'
  BY RefetchedType DEF ListFetched, PInv, PageTypeOK, Mounted
<1>2. saving' \in SavingStates /\ (saving' # NotSaving /\ ~saving'.left => Mounted')
  BY LeftType DEF ListFetched, PInv, Mounted
<1> QED
  BY <1>1, <1>2 DEF ListFetched, PInv

LEMMA BoardFetchedStep ==
  ASSUME PInv, BoardFetched
  PROVE  PInv'
<1>1. app' \in PageStates
  BY MountedPageType, ListPanels DEF BoardFetched, PInv, Url
<1>2. PageTypeOK' /\ Mounted'
  BY <1>1, PageIsMounted DEF PageTypeOK, Mounted
<1>3. saving' \in SavingStates
  BY LeftType DEF BoardFetched, PInv
<1> QED
  BY <1>2, <1>3 DEF BoardFetched, PInv

LEMMA SaveStoredStep ==
  ASSUME PInv, SaveStored
  PROVE  PInv'
<1>1. saving \in SavingStates \ {NotSaving}
  BY SavingHasPhase DEF SaveStored, PInv, NotSaving
<1>2. saving.board \in Boards /\ [title |-> saving.title, panels |-> saving.panels] \in Board
  BY <1>1 DEF SavingStates, Board
<1>3. server' \in Lists
  BY <1>2 DEF SaveStored, PInv, Lists
<1>4. saving' \in SavingStates /\ saving' # NotSaving /\ saving'.left = saving.left
  BY <1>1 DEF SaveStored, SavingStates, NotSaving
<1> QED
  BY <1>1, <1>3, <1>4 DEF SaveStored, PInv, PageTypeOK, Mounted

(* A save that is heard of has a page.                                     *)
LEMMA SavingPage ==
  ASSUME PInv, saving.phase # "none", ~saving.left
  PROVE  app \in PageStates /\ Mounted
BY SavingHasPhase DEF PInv, PageTypeOK, Mounted, NotSaving

LEMMA SaveDoneStep ==
  ASSUME PInv, SaveDone
  PROVE  PInv'
<1> DEFINE a == IF saving.left THEN app ELSE [app EXCEPT !.saveError = FALSE, !.edit = FALSE]
<1>1. Mounted => a \in PageStates
  BY DEF PInv, PageTypeOK, Mounted, PageStates
<1>2. Refetched(a)
  BY DEF SaveDone
<1> HIDE DEF a
<1>3. list' \in Lists /\ PageTypeOK'
  BY <1>1, <1>2, RefetchedType
<1>4. saving' \in SavingStates
  BY DEF SaveDone, SavingStates
<1> QED
  BY <1>3, <1>4 DEF SaveDone, PInv

LEMMA SaveFailsStep ==
  ASSUME PInv, SaveFails
  PROVE  PInv'
<1>1. PageTypeOK'
  <2>1. CASE saving.left
    BY <2>1 DEF SaveFails, PInv, PageTypeOK
  <2>2. CASE ~saving.left
    <3>1. app \in PageStates
      BY <2>2, SavingPage DEF SaveFails
    <3> QED
      BY <2>2, <3>1 DEF SaveFails, PageStates, PageTypeOK
  <2> QED
    BY <2>1, <2>2
<1>2. saving' \in SavingStates
  BY DEF SaveFails, SavingStates
<1> QED
  BY <1>1, <1>2 DEF SaveFails, PInv

(* An event of the user leaves what is stored alone and keeps the page.    *)
LEMMA EventStep ==
  ASSUME PInv, Event, app' \in PageStates, url' \in Url,
         handed' \in External \cup {None}, saving' \in SavingStates
  PROVE  PInv'
<1>1. PageTypeOK' /\ Mounted'
  BY PageIsMounted DEF PageTypeOK, Mounted
<1> QED
  BY <1>1 DEF Event, PInv

LEMMA EventPage ==
  ASSUME PInv, Event
  PROVE  app \in PageStates
BY DEF Event, PInv, PageTypeOK, Mounted

LEMMA ClickEditStep ==
  ASSUME PInv, ClickEdit
  PROVE  PInv'
BY EventPage, EntersEditType, EventStep DEF ClickEdit, PInv

LEMMA TogglePanelStep ==
  ASSUME PInv, NEW p \in Panels, TogglePanel(p)
  PROVE  PInv'
<1> DEFINE panels == IF p \in app.shows.panels THEN app.shows.panels \ {p}
                     ELSE app.shows.panels \cup {p}
<1>1. app \in PageStates
  BY EventPage DEF TogglePanel
<1>2. panels \in SUBSET Panels
  BY <1>1 DEF PageStates, Showable
<1>3. app' = [app EXCEPT !.shows.panels = panels]
  BY DEF TogglePanel
<1> HIDE DEF panels
<1>4. app' \in PageStates
  BY <1>1, <1>2, <1>3, ShowsType
<1> QED
  BY <1>4, EventStep DEF TogglePanel, PInv

LEMMA CancelStep ==
  ASSUME PInv, Cancel
  PROVE  PInv'
<1> DEFINE shown == IF app.original = None THEN app.shows ELSE app.original
<1>1. app \in PageStates
  BY EventPage DEF Cancel
<1>2. shown \in Showable
  BY <1>1 DEF PageStates
<1>3. app' = [app EXCEPT !.edit = FALSE, !.shows = shown]
  BY DEF Cancel
<1> HIDE DEF shown
<1>4. app' \in PageStates
  BY <1>1, <1>2, <1>3 DEF PageStates
<1> QED
  BY <1>4, EventStep DEF Cancel, PInv

LEMMA SaveStep ==
  ASSUME PInv, Save
  PROVE  PInv'
<1>1. app \in PageStates
  BY EventPage DEF Save
<1>2. app.shows \in Showable
  BY <1>1 DEF PageStates
<1>3. saving' \in SavingStates
  BY <1>2 DEF Save, SavingStates, Showable
<1> QED
  BY <1>1, <1>3, EventStep DEF Save, PInv

LEMMA ChangeRangeStep ==
  ASSUME PInv, ChangeRange
  PROVE  PInv'
<1>1. url' \in Url
  BY DEF ChangeRange, PInv, Url
<1> QED
  BY <1>1, EventPage, EventStep DEF ChangeRange, PInv

LEMMA ChangeBoardStep ==
  ASSUME PInv, NEW b \in Boards, ChangeBoard(b)
  PROVE  PInv'
<1> DEFINE shown == Shown(b, app.metadata[b])
<1>1. app \in PageStates
  BY EventPage DEF ChangeBoard
<1>2. shown \in Showable
  BY <1>1, ListPanels, ShownType DEF PageStates
<1>3. app' = [app EXCEPT !.shows = shown]
  BY DEF ChangeBoard
<1> HIDE DEF shown
<1>4. app' \in PageStates
  BY <1>1, <1>2, <1>3 DEF PageStates
<1>5. url' \in Url
  BY DEF ChangeBoard, PInv, Url
<1> QED
  BY <1>4, <1>5, EventStep DEF ChangeBoard, PInv

LEMMA AddToDashboardStep ==
  ASSUME PInv, NEW p \in External, AddToDashboard(p)
  PROVE  PInv'
BY EventPage, EventStep DEF AddToDashboard, PInv

(* What others do to a dashboard.                                          *)
LEMMA OthersStep ==
  ASSUME PInv, Others, NEW b \in Boards, NEW board \in Board, server' = [server EXCEPT ![b] = board]
  PROVE  PInv'
<1>1. server' \in Lists
  BY DEF PInv, Lists
<1> QED
  BY <1>1 DEF Others, PInv, PageTypeOK, Mounted

LEMMA OthersSaveStep ==
  ASSUME PInv, NEW b \in Boards, OthersSave(b)
  PROVE  PInv'
<1>1. server \in Lists /\ server[b] \in Board
  BY ListPanels DEF PInv
<1>2. CASE \E p \in Panels : server' = [server EXCEPT ![b].panels = @ \cup {p}]
  <2>1. PICK p \in Panels : server' = [server EXCEPT ![b].panels = @ \cup {p}]
    BY <1>2
  <2>2. [server[b] EXCEPT !.panels = @ \cup {p}] \in Board
    BY <1>1 DEF Board
  <2>3. server' = [server EXCEPT ![b] = [server[b] EXCEPT !.panels = @ \cup {p}]]
    BY <1>1, <2>1 DEF Lists
  <2> QED
    BY <2>2, <2>3, OthersStep DEF OthersSave
<1>3. CASE server' = [server EXCEPT ![b].title = 1 - @]
  <2>1. [server[b] EXCEPT !.title = 1 - @] \in Board
    BY <1>1 DEF Board, OthersSave, Exists
  <2>2. server' = [server EXCEPT ![b] = [server[b] EXCEPT !.title = 1 - @]]
    BY <1>1, <1>3 DEF Lists
  <2> QED
    BY <2>1, <2>2, OthersStep DEF OthersSave
<1> QED
  BY <1>2, <1>3 DEF OthersSave

LEMMA NewBoards == NewBoard \in Board /\ NoBoard \in Board
BY DEF NewBoard, NoBoard, Board

LEMMA OthersCreateStep ==
  ASSUME PInv, NEW b \in Boards, OthersCreate(b)
  PROVE  PInv'
BY NewBoards, OthersStep DEF OthersCreate

LEMMA OthersDeleteStep ==
  ASSUME PInv, NEW b \in Boards, OthersDelete(b)
  PROVE  PInv'
BY NewBoards, OthersStep DEF OthersDelete

----------------------------------------------------------------------------
(* Theorems                                                                *)

LEMMA InitStep ==
  ASSUME Init
  PROVE  PInv
<1>1. server \in Lists
  BY NewBoards DEF Init, Lists
<1>2. url \in Url
  <2>1. url \in [project : Projects \cup {None}, board : Boards, range : {0}, edit : BOOLEAN]
    BY DEF Init
  <2> QED
    BY <2>1 DEF Url
<1>3. console \in ConsoleStates
  <2>1. console \in [namespace : Namespaces \cup {All}, loaded : {FALSE}]
    BY DEF Init
  <2> QED
    BY <2>1 DEF ConsoleStates
<1> QED
  BY <1>1, <1>2, <1>3 DEF Init, PInv, PageTypeOK, SavingStates

(* The invariant is inductive: one lemma per render, answer and event.     *)
THEOREM DashboardInvariant == Spec => []PInv
<1>1. Init => PInv
  BY InitStep
<1>2. PInv /\ [Next]_vars => PInv'
  <2> SUFFICES ASSUME PInv, [Next]_vars PROVE PInv'
    OBVIOUS
  <2>1. CASE UNCHANGED vars
    BY <2>1 DEF vars, PInv, PageTypeOK, Mounted
  <2>2. CASE User
    BY <2>2, ClickEditStep, CancelStep, SaveStep, ChangeRangeStep, TogglePanelStep,
       ChangeBoardStep, AddToDashboardStep DEF User
  <2>3. CASE SaveAnswered
    BY <2>3, SaveStoredStep, SaveDoneStep DEF SaveAnswered
  <2> QED
    BY <2>1, <2>2, <2>3, CommitStep, NamespacesLoadedStep, ListFetchedStep,
       BoardFetchedStep, SaveFailsStep, OthersSaveStep, OthersCreateStep,
       OthersDeleteStep DEF Next
<1> QED
  BY <1>1, <1>2, PTL DEF Spec

(* The dashboards, the URL and the page stay well typed, and the guard of  *)
(* ExternalPanelAddition is set exactly while a panel is queued.           *)
COROLLARY DashboardTypeCorrect == Spec => []TypeOK
<1>1. PInv => TypeOK
  <2> SUFFICES ASSUME PInv PROVE TypeOK
    OBVIOUS
  <2>1. saving.phase \in {"none", "put", "refetch"}
    BY SavingHasPhase DEF PInv
  <2>2. app # NoPage =>
          /\ app.board \in Boards /\ app.metadata \in Lists
          /\ app.shows \in Showable
          /\ app.queued \in External \cup {None}
          /\ app.processing <=> app.queued # None
    BY DEF PInv, PageTypeOK, PageStates
  <2> QED
    BY <2>1, <2>2 DEF PInv, TypeOK, ConsoleStates
<1> QED
  BY <1>1, DashboardInvariant, PTL

(* A link keeps its project: nothing ever changes one that the URL has,    *)
(* whatever the namespace of the console is (useActiveProject).            *)
THEOREM LinksKeepTheirProject ==
  ASSUME NEW p \in Projects
  PROVE  Spec => [](url.project = p => [](url.project = p))
<1>1. PInv /\ url.project = p /\ [Next]_vars => (url.project = p)'
  <2> SUFFICES ASSUME PInv, url.project = p, [Next]_vars PROVE url'.project = p
    OBVIOUS
  <2>1. p # None /\ url \in Url
    BY ConstantsAssumption DEF PInv
  <2>2. CASE Commit
    BY <2>1, <2>2 DEF Commit, AfterSync
  <2>3. CASE ChangeRange \/ \E b \in Boards : ChangeBoard(b)
    BY <2>1, <2>3 DEF ChangeRange, ChangeBoard, Url
  <2>4. CASE UNCHANGED url
    BY <2>4
  <2>5. Commit \/ ChangeRange \/ (\E b \in Boards : ChangeBoard(b)) \/ UNCHANGED url
    BY DEF Next, NamespacesLoaded, ListFetched, BoardFetched, SaveAnswered, SaveStored, SaveDone,
           SaveFails, User, ClickEdit, Cancel, Save, TogglePanel, AddToDashboard, OthersSave,
           OthersCreate, OthersDelete, Others, vars
  <2> QED
    BY <2>2, <2>3, <2>4, <2>5
<1> QED
  BY <1>1, DashboardInvariant, PTL DEF Spec
----------------------------------------------------------------------------
(* Panels handed over                                                      *)

(* A page that is mounted has a project in its URL; while a panel waits in *)
(* the queue, its editor is open and the toolbar has seen what it shows.   *)
QueueInv ==
  /\ PInv
  /\ Mounted => url.project # None
  /\ Mounted /\ app.queued # None => app.panelEditor /\ ~ToolbarDue

(* A panel handed over to a page is to be queued, or one before it is to   *)
(* be applied: the guard of ExternalPanelAddition keeps none out for good. *)
HandedPanelIsDue == Mounted /\ handed # None => QueueDue \/ ApplyDue

(* A panel leaves the queue for the screen: no toolbar effect of the same  *)
(* render and no dashboard mounted meanwhile takes it away.                *)
QueuedPanelIsShown ==
  [][ Mounted /\ app.queued # None /\ app'.queued # app.queued
      => app.queued \in app'.shows.panels /\ app'.queued = None ]_vars

(* What the effects of one render do to the queue.                         *)
LEMMA CommitQueue ==
  ASSUME QueueInv, Commit, app \in PageStates
  PROVE  /\ QueueDue => app'.queued = handed /\ app'.panelEditor
         /\ ApplyDue => app'.queued = None /\ app.queued \in app'.shows.panels
         /\ ~QueueDue /\ ~ApplyDue => app'.queued = app.queued /\ app'.panelEditor = app.panelEditor
         /\ ToolbarDue => app'.seenByToolbar = ToolbarDeps
         /\ ~ToolbarDue => app'.seenByToolbar = app.seenByToolbar
         /\ app'.metadata = app.metadata
<1> DEFINE q == AfterQueue(app)
           a == AfterApply(q)
           t == AfterToolbar(a)
           e == AfterSaveError(t)
<1>1. PInv
  BY DEF QueueInv
<1>2. q \in PageStates /\ a \in PageStates /\ t \in PageStates /\ e \in PageStates
  BY <1>1, AfterQueueType, AfterApplyType, AfterToolbarType, AfterSaveErrorType
<1>3. /\ QueueDue => q.queued = handed /\ q.panelEditor
      /\ ~QueueDue => q = app
      /\ q.seenByToolbar = app.seenByToolbar /\ q.metadata = app.metadata
  BY DEF AfterQueue, EntersEdit, PageStates
<1>4. /\ ApplyDue => a.queued = None /\ app.queued \in a.shows.panels
      /\ ~ApplyDue => a = q
      /\ a.seenByToolbar = q.seenByToolbar /\ a.metadata = q.metadata
  <2> HIDE DEF q
  <2> QED
    BY <1>2 DEF AfterApply, PageStates, Showable
<1>5. /\ t.queued = a.queued /\ t.panelEditor = a.panelEditor /\ t.metadata = a.metadata
      /\ ToolbarDue => t.seenByToolbar = ToolbarDeps
      /\ ~ToolbarDue => t = a
  <2> HIDE DEF a
  <2> QED
    BY <1>2 DEF AfterToolbar, PageStates
<1>6. /\ e.queued = t.queued /\ e.panelEditor = t.panelEditor /\ e.metadata = t.metadata
      /\ e.seenByToolbar = t.seenByToolbar /\ e.shows = t.shows
  <2> HIDE DEF t
  <2> QED
    BY <1>2 DEF AfterSaveError, PageStates
<1>7. /\ app'.queued = e.queued /\ app'.panelEditor = e.panelEditor /\ app'.metadata = e.metadata
      /\ app'.seenByToolbar = e.seenByToolbar /\ app'.shows = e.shows
  <2>1. app' = AfterEdit(e)
    BY DEF Commit
  <2> HIDE DEF e
  <2> QED
    BY <1>2, <2>1 DEF AfterEdit, PageStates
<1>8. ~(QueueDue /\ ApplyDue) /\ (ApplyDue => ~ToolbarDue)
  BY DEF QueueDue, ApplyDue, QueueInv
<1> HIDE DEF q, a, t, e
<1> QED
  BY <1>3, <1>4, <1>5, <1>6, <1>7, <1>8

(* Every render keeps the queue and the toolbar in step.                   *)
LEMMA CommitKeepsQueue ==
  ASSUME QueueInv, Commit
  PROVE  QueueInv'
<1>1. PInv'
  BY CommitStep DEF QueueInv
<1>2. CASE app \in PageStates
  <2>1. Mounted /\ url.project # None
    BY <1>2, PageIsMounted DEF QueueInv, Mounted
  <2>2. url' = url
    BY <2>1 DEF Commit, AfterSync
  <2>3. app'.seenByToolbar = ToolbarDeps /\ app'.metadata = app.metadata
    BY <1>2, <2>1, CommitQueue DEF ToolbarDue
  <2>4. ~ToolbarDue'
    BY <2>2, <2>3 DEF ToolbarDue, ToolbarDeps
  <2>5. app'.queued # None => app'.panelEditor
    BY <1>2, <2>1, CommitQueue DEF QueueInv, ApplyDue
  <2> QED
    BY <1>1, <2>1, <2>2, <2>4, <2>5 DEF QueueInv
<1>3. CASE app = NoPage
  <2>1. app' = app
    BY <1>3 DEF Commit, AfterQueue, AfterApply, AfterToolbar, AfterSaveError, AfterEdit,
       QueueDue, ApplyDue, ToolbarDue, SaveErrorDue, EditDue, Mounted
  <2> QED
    BY <1>1, <1>3, <2>1 DEF QueueInv, Mounted
<1> QED
  BY <1>2, <1>3 DEF QueueInv, PInv, PageTypeOK

(* What happens at rest finds the queue empty, and leaves it so.           *)
LEMMA QueueAtRest ==
  ASSUME QueueInv, Stable, app \in PageStates
  PROVE  app.queued = None /\ handed = None
<1>1. Mounted
  BY PageIsMounted DEF Mounted
<1> QED
  BY <1>1 DEF Stable, QueueDue, ApplyDue, QueueInv, PageStates

(* Every other step leaves the queue alone, or finds and leaves it empty.  *)
LEMMA OtherQueue ==
  ASSUME QueueInv, Next, ~Commit
  PROVE  /\ app' # NoPage => app'.queued = None \/ UNCHANGED <<app, url>>
         /\ app' # NoPage => url'.project # None
         /\ Mounted /\ app.queued # None => app' # NoPage /\ app'.queued = app.queued
<1>1. /\ app = NoPage \/ app \in PageStates
      /\ url \in Url
      /\ saving # NotSaving /\ ~saving.left => Mounted
      /\ Mounted => url.project # None
  BY DEF QueueInv, PInv, PageTypeOK
<1>2. CASE BoardFetched
  <2>1. app'.queued = None
    BY <1>2 DEF BoardFetched, MountedPage
  <2>2. url' = url /\ url.project # None
    BY <1>1, <1>2, ConstantsAssumption DEF BoardFetched, Found, Url
  <2>3. Mounted => app.queued = None
    BY <1>1, <1>2, QueueAtRest DEF BoardFetched, Mounted
  <2> QED
    BY <2>1, <2>2, <2>3
<1>3. CASE UNCHANGED <<app, url>>
  BY <1>1, <1>3 DEF Mounted
<1>4. ASSUME Stable, app \in PageStates, url'.project = url.project, app'.queued = app.queued
      PROVE  app'.queued = None /\ url'.project # None
  BY <1>1, <1>4, QueueAtRest, PageIsMounted DEF Mounted
<1>5. CASE User
  <2>1. Mounted /\ app \in PageStates
    BY <1>1, <1>5 DEF User, ClickEdit, TogglePanel, Cancel, Save, ChangeRange, ChangeBoard,
       AddToDashboard, Event, Mounted
  <2>2. CASE Save \/ \E p \in External : AddToDashboard(p)
    BY <1>3, <2>2 DEF Save, AddToDashboard
  <2>3. CASE ClickEdit \/ Cancel \/ \E p \in Panels : TogglePanel(p)
    <3>1. app'.queued = app.queued /\ url' = url /\ Stable
      BY <2>1, <2>3 DEF ClickEdit, Cancel, TogglePanel, EntersEdit, PageStates
    <3> QED
      BY <1>4, <2>1, <3>1
  <2>4. CASE ChangeRange
    <3>1. app' = app /\ Stable /\ url'.project = url.project
      BY <1>1, <2>4 DEF ChangeRange, Url
    <3> QED
      BY <1>1, <1>4, <2>1, <3>1
  <2>5. CASE \E b \in Boards : ChangeBoard(b)
    <3>1. PICK b \in Boards : ChangeBoard(b)
      BY <2>5
    <3>2. app'.queued = app.queued /\ Stable /\ url'.project = url.project
      BY <1>1, <2>1, <3>1 DEF ChangeBoard, PageStates, Url
    <3> QED
      BY <1>1, <1>4, <2>1, <3>2
  <2> QED
    BY <1>5, <2>2, <2>3, <2>4, <2>5 DEF User
<1>6. CASE ListFetched \/ SaveDone \/ SaveFails
  <2>1. Stable /\ url' = url
    BY <1>6 DEF ListFetched, SaveDone, SaveFails, Refetched
  <2>2. CASE app = NoPage
    BY <1>1, <1>6, <2>2, SavingHasPhase DEF ListFetched, SaveDone, SaveFails, Refetched, Mounted,
       NotSaving, PInv, QueueInv
  <2>3. CASE app \in PageStates
    <3>1. app' = NoPage \/ app'.queued = app.queued
      BY <1>6, <2>3 DEF ListFetched, SaveDone, SaveFails, Refetched, PageStates
    <3>2. app.queued = None
      BY <2>1, <2>3, QueueAtRest
    <3> QED
      BY <1>1, <2>1, <2>3, <3>1, <3>2, PageIsMounted DEF Mounted
  <2> QED
    BY <1>1, <2>2, <2>3
<1>7. CASE \/ NamespacesLoaded \/ SaveStored
           \/ \E b \in Boards : OthersSave(b) \/ OthersCreate(b) \/ OthersDelete(b)
  BY <1>3, <1>7 DEF NamespacesLoaded, SaveStored, OthersSave, OthersCreate, OthersDelete, Others
<1> QED
  BY <1>2, <1>5, <1>6, <1>7 DEF Next, SaveAnswered

THEOREM QueueInvariant == Spec => []QueueInv
<1>1. Init => QueueInv
  BY InitStep DEF Init, QueueInv, Mounted
<1>2. QueueInv /\ PInv' /\ [Next]_vars => QueueInv'
  <2> SUFFICES ASSUME QueueInv, PInv', [Next]_vars PROVE QueueInv'
    OBVIOUS
  <2>1. CASE UNCHANGED vars
    BY <2>1 DEF vars, QueueInv, Mounted, ToolbarDue, ToolbarDeps
  <2>2. CASE Commit
    BY <2>2, CommitKeepsQueue
  <2>3. CASE Next /\ ~Commit
    <3>1. Mounted' => url'.project # None
      BY <2>3, OtherQueue DEF Mounted
    <3>2. Mounted' /\ app'.queued # None => UNCHANGED <<app, url>>
      BY <2>3, OtherQueue DEF Mounted
    <3>3. Mounted' /\ app'.queued # None => app'.panelEditor /\ ~ToolbarDue'
      BY <3>2 DEF QueueInv, Mounted, ToolbarDue, ToolbarDeps
    <3> QED
      BY <3>1, <3>3 DEF QueueInv
  <2> QED
    BY <2>1, <2>2, <2>3
<1> QED
  BY <1>1, <1>2, DashboardInvariant, PTL DEF Spec

(* What HandoverEnds needs of the guard, for every number of panels: it is *)
(* set only while a panel waits that the next render applies.              *)
THEOREM HandedPanelsAreDue == Spec => []HandedPanelIsDue
<1>1. QueueInv => HandedPanelIsDue
  BY DEF QueueInv, PInv, PageTypeOK, PageStates, HandedPanelIsDue, QueueDue, ApplyDue, Mounted
<1> QED
  BY <1>1, QueueInvariant, PTL

(* The panel that was queued is on the screen after the render that clears *)
(* the queue.                                                              *)
THEOREM QueuedPanelsAreShown == Spec => QueuedPanelIsShown
<1>1. QueueInv /\ [Next]_vars =>
        [ Mounted /\ app.queued # None /\ app'.queued # app.queued
          => app.queued \in app'.shows.panels /\ app'.queued = None ]_vars
  <2> SUFFICES ASSUME QueueInv, Next, Mounted, app.queued # None, app'.queued # app.queued
               PROVE  app.queued \in app'.shows.panels /\ app'.queued = None
    OBVIOUS
  <2>1. Commit
    BY OtherQueue
  <2>2. app \in PageStates /\ ApplyDue
    BY DEF QueueInv, PInv, PageTypeOK, Mounted, ApplyDue
  <2> QED
    BY <2>1, <2>2, CommitQueue
<1> QED
  BY <1>1, QueueInvariant, PTL DEF Spec, QueuedPanelIsShown
----------------------------------------------------------------------------
(* The answers of the list                                                 *)

(* The metadata of a page have the dashboards and the titles of the list,  *)
(* the dashboard of the URL among them.                                    *)
ListInv ==
  Mounted => /\ Exists(url.board, list)
             /\ \A b \in Boards : app.metadata[b].title = list[b].title

LEMMA MetadataTitles ==
  ASSUME NEW old \in Lists, NEW new \in Lists
  PROVE  \A b \in Boards : Metadata(old, new)[b].title = new[b].title
BY DEF Metadata

LEMMA RefetchedList ==
  ASSUME QueueInv, NEW a, Mounted => a \in PageStates, Refetched(a), url' = url
  PROVE  ListInv'
<1> SUFFICES ASSUME Mounted' PROVE ListInv'
  BY DEF ListInv
<1>1. Mounted /\ Exists(url.board, server) /\ list' = server
  BY DEF Refetched, Mounted
<1>2. app'.metadata = Metadata(a.metadata, server)
  BY <1>1 DEF Refetched, PageStates
<1>3. a.metadata \in Lists /\ server \in Lists
  BY <1>1 DEF QueueInv, PInv, PageStates
<1>4. \A b \in Boards : app'.metadata[b].title = server[b].title
  BY <1>2, <1>3, MetadataTitles
<1> QED
  BY <1>1, <1>4 DEF ListInv, Exists

THEOREM ListInvariant == Spec => []ListInv
<1>1. Init => ListInv
  BY DEF Init, ListInv, Mounted
<1>2. QueueInv /\ ListInv /\ [Next]_vars => ListInv'
  <2> SUFFICES ASSUME QueueInv, ListInv, [Next]_vars PROVE ListInv'
    OBVIOUS
  <2>1. app = NoPage \/ app \in PageStates
    BY DEF QueueInv, PInv, PageTypeOK
  <2>2. ASSUME Mounted' => Mounted /\ app'.metadata = app.metadata /\ Exists(url'.board, list),
               UNCHANGED list
        PROVE  ListInv'
    BY <2>2 DEF ListInv, Exists
  <2>3. CASE Commit
    <3>1. list' = list /\ url'.board = url.board
      BY <2>3 DEF Commit, AfterSync, QueueInv, PInv, Url
    <3>2. CASE app = NoPage
      <4>1. app' = app
        BY <2>3, <3>2 DEF Commit, AfterQueue, AfterApply, AfterToolbar, AfterSaveError, AfterEdit,
           QueueDue, ApplyDue, ToolbarDue, SaveErrorDue, EditDue, Mounted
      <4> QED
        BY <3>2, <4>1 DEF ListInv, Mounted
    <3>3. CASE app \in PageStates
      <4>1. Mounted /\ app'.metadata = app.metadata
        BY <2>3, <3>3, CommitQueue, PageIsMounted DEF Mounted
      <4> QED
        BY <2>2, <3>1, <4>1 DEF ListInv
    <3> QED
      BY <2>1, <3>2, <3>3
  <2>4. CASE BoardFetched
    <3>1. app'.metadata = list /\ list' = list /\ url' = url /\ Exists(url.board, list)
      BY <2>4 DEF BoardFetched, MountedPage, Found
    <3> QED
      BY <3>1 DEF ListInv
  <2>5. CASE ListFetched
    BY <2>1, <2>5, RefetchedList DEF ListFetched, Mounted
  <2>6. CASE SaveDone
    <3> DEFINE a == IF saving.left THEN app ELSE [app EXCEPT !.saveError = FALSE, !.edit = FALSE]
    <3>1. Mounted => a \in PageStates
      BY <2>1 DEF Mounted, PageStates
    <3>2. Refetched(a) /\ url' = url
      BY <2>6 DEF SaveDone
    <3> HIDE DEF a
    <3> QED
      BY <3>1, <3>2, RefetchedList
  <2>7. CASE SaveFails
    <3>1. CASE saving.left
      BY <2>2, <2>7, <3>1 DEF SaveFails, ListInv, Mounted
    <3>2. CASE ~saving.left
      <4>1. app \in PageStates /\ Mounted
        BY <2>7, <3>2, SavingPage DEF SaveFails, QueueInv
      <4>2. app'.metadata = app.metadata /\ UNCHANGED <<list, url>>
        BY <2>7, <3>2, <4>1 DEF SaveFails, PageStates
      <4> QED
        BY <2>2, <4>1, <4>2 DEF ListInv
    <3> QED
      BY <3>1, <3>2
  <2>8. CASE User
    <3>1. Mounted /\ app \in PageStates /\ list' = list
      BY <2>1, <2>8 DEF User, ClickEdit, TogglePanel, Cancel, Save, ChangeRange, ChangeBoard,
         AddToDashboard, Event, Mounted
    <3>2. app'.metadata = app.metadata
      BY <2>8, <3>1 DEF User, ClickEdit, TogglePanel, Cancel, Save, ChangeRange, ChangeBoard,
         AddToDashboard, EntersEdit, PageStates
    <3>3. url'.board = url.board \/ \E b \in Boards : Exists(b, list) /\ url'.board = b
      BY <2>8 DEF User, ClickEdit, TogglePanel, Cancel, Save, ChangeRange, ChangeBoard, Found,
         AddToDashboard, QueueInv, PInv, Url
    <3> QED
      BY <2>2, <3>1, <3>2, <3>3 DEF ListInv
  <2>9. CASE UNCHANGED <<list, url, app>>
    BY <2>2, <2>9 DEF ListInv, Mounted
  <2> QED
    BY <2>3, <2>4, <2>5, <2>6, <2>7, <2>8, <2>9 DEF Next, SaveAnswered, NamespacesLoaded, SaveStored,
       OthersSave, OthersCreate, OthersDelete, Others, vars
<1> QED
  BY <1>1, <1>2, QueueInvariant, PTL DEF Spec

(* A page that differs from one at rest only in having left edit mode and  *)
(* forgotten an error is at rest.                                          *)
LEMMA RestKept ==
  ASSUME Stable, app \in PageStates, app' \in PageStates,
         UNCHANGED <<url, console, handed>>,
         app' = app \/ app' = [app EXCEPT !.saveError = FALSE, !.edit = FALSE]
  PROVE  Stable' /\ app'.shows = app.shows
<1>1. /\ app'.queued = app.queued /\ app'.processing = app.processing
      /\ app'.panelEditor = app.panelEditor /\ app'.seenByToolbar = app.seenByToolbar
      /\ app'.metadata = app.metadata /\ app'.seenEdit = app.seenEdit
      /\ app'.shows = app.shows
  BY DEF PageStates
<1>2. Mounted /\ Mounted'
  BY PageIsMounted DEF Mounted
<1>3. ~SaveErrorDue'
  BY <1>2 DEF Stable, SaveErrorDue, PageStates
<1>4. ~QueueDue' /\ ~ApplyDue'
  BY <1>1, <1>2 DEF Stable, QueueDue, ApplyDue
<1>5. ~ToolbarDue' /\ ~EditDue' /\ ~SyncDue'
  BY <1>1, <1>2 DEF Stable, ToolbarDue, ToolbarDeps, EditDue, SyncDue
<1> QED
  BY <1>1, <1>3, <1>4, <1>5 DEF Stable

(* The answer of a refetch, or of a save, takes nothing off the screen     *)
(* unless a dashboard came, went or was renamed                            *)
(* (combinedDashboardsMetadata).                                           *)
THEOREM RefetchIsHarmless == Spec => RefetchKeepsEdits
<1> DEFINE Keeps == /\ Mounted /\ Stable /\ list' # list
                    /\ \A b \in Boards : list'[b].title = app.metadata[b].title
                    => Stable' /\ app'.shows = app.shows
<1>1. QueueInv /\ ListInv /\ [Next]_vars => [Keeps]_vars
  <2> SUFFICES ASSUME QueueInv, ListInv, Next, Mounted, Stable, list' # list,
                      \A b \in Boards : list'[b].title = app.metadata[b].title
               PROVE  Stable' /\ app'.shows = app.shows
    OBVIOUS
  <2>1. app \in PageStates /\ url.board \in Boards
    BY DEF QueueInv, PInv, PageTypeOK, Mounted, Url
  <2>2. ASSUME NEW a \in {app, [app EXCEPT !.saveError = FALSE, !.edit = FALSE]}, Refetched(a),
               UNCHANGED <<url, console, handed>>
        PROVE  Stable' /\ app'.shows = app.shows
    <3>1. a \in PageStates /\ a.metadata = app.metadata /\ list' = server
      BY <2>1, <2>2 DEF PageStates, Refetched
    <3>2. Exists(url.board, server)
      BY <2>1, <3>1 DEF ListInv, Exists
    <3>3. Metadata(a.metadata, server) = a.metadata
      BY <3>1 DEF Metadata
    <3>4. app' = a
      BY <2>2, <3>1, <3>2, <3>3 DEF Refetched, PageStates
    <3> QED
      BY <2>1, <2>2, <3>1, <3>4, RestKept
  <2>3. CASE ListFetched
    BY <2>2, <2>3 DEF ListFetched
  <2>4. CASE SaveDone
    BY <2>2, <2>4 DEF SaveDone
  <2>5. ListFetched \/ SaveDone
    BY DEF Next, Commit, NamespacesLoaded, BoardFetched, SaveAnswered, SaveStored, SaveFails,
           User, ClickEdit, Cancel, Save, ChangeRange, TogglePanel, ChangeBoard,
           AddToDashboard, Event, OthersSave, OthersCreate, OthersDelete, Others
  <2> QED
    BY <2>3, <2>4, <2>5
<1> QED
  BY <1>1, QueueInvariant, ListInvariant, PTL DEF Spec, RefetchKeepsEdits
=============================================================================
