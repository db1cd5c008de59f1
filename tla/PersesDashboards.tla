--------------------------- MODULE PersesDashboards ---------------------------
(***************************************************************************)
(* The page of a Perses dashboard: the project in the URL and in the       *)
(* console (useActiveProject.tsx), the list of dashboards and what the     *)
(* toolbar remembers of it (useDashboardsData.ts, DashboardToolbar.tsx),   *)
(* the dashboard being edited and saved (DashboardApp.tsx), and a panel    *)
(* that another part of the console hands over (AddToDashboardButton.tsx,  *)
(* ExternalPanelAddition.tsx).  Commit is a render with its effects.       *)
(* React renders one event before the next, except that a panel may be     *)
(* handed over at any moment.                                              *)
(***************************************************************************)
EXTENDS Naturals, FiniteSets

CONSTANTS
  Boards,         \* dashboards
  Panels,         \* what a user may put on a dashboard
  External,       \* those of them that can be handed over
  None,
  Projects,       \* of Perses, and All
  All,            \* ALL_NAMESPACES_KEY
  ProjectOf,      \* the project of each dashboard
  Namespaces,     \* those projects that are namespaces of the cluster
  MaxEvents,      \* bound: what the user does, and the panels handed over
  MaxOthers,      \* bound: what other users do
  MaxFailures     \* bound: saves that fail

ASSUME ConstantsAssumption ==
  /\ External \subseteq Panels /\ None \notin Panels \cup Projects \cup (0 .. 1)
  /\ All \in Projects /\ ProjectOf \in [Boards -> Projects \ {All}]
  /\ Namespaces \subseteq Projects \ {All}
  /\ MaxEvents \in Nat /\ MaxOthers \in Nat /\ MaxFailures \in Nat

VARIABLES
  server,         \* the title and the panels of every dashboard
  list,           \* the list query: what it last answered
  url,            \* the query parameters
  console,        \* the active namespace, and whether the namespaces are loaded
  app,            \* the mounted page of a dashboard
  handed,         \* addPersesPanelExternally in the Redux store
  saving,         \* the PUT in flight, or whose refetch is in flight
  counts

vars == <<server, list, url, console, app, handed, saving, counts>>

(* A dashboard that does not exist has the title None.                     *)
Board == [title : {0, 1, None}, panels : SUBSET Panels]
NoBoard == [title |-> None, panels |-> {}]
NewBoard == [title |-> 0, panels |-> {}]
Exists(b, boards) == boards[b].title # None
Lists == [Boards -> Board]
Url == [project : Projects \cup {None}, board : Boards, range : 0 .. 1, edit : BOOLEAN]
(* What is on the screen: of which dashboard, with its title and panels.   *)
Showable == [board : Boards, title : {0, 1, None}, panels : SUBSET Panels]
NotSaving == [phase |-> "none"]
NoPage == [board |-> None]

TypeOK ==
  /\ server \in Lists
  /\ list \in Lists
  /\ url \in Url
  /\ console \in [namespace : Namespaces \cup {All}, loaded : BOOLEAN]
  /\ app # NoPage =>
       /\ app.board \in Boards /\ app.metadata \in Lists
       /\ app.shows \in Showable
       /\ app.queued \in External \cup {None}
       /\ app.processing <=> app.queued # None
  /\ handed \in External \cup {None}
  /\ saving.phase \in {"none", "put", "refetch"}

----------------------------------------------------------------------------
(* What is rendered                                                        *)

(* Mutant: every answer of the list makes new metadata.                    *)
MetadataAlwaysNew(old, new) == new

(* combinedDashboardsMetadata: made anew only if a dashboard came, went or *)
(* was renamed: "Check if dashboards data has actually changed to avoid    *)
(* recreation".                                                            *)
Metadata(old, new) ==
  IF \A b \in Boards : new[b].title = old[b].title THEN old ELSE new

(* activeProjectDashboardsMetadata has the dashboard.  (With All it has    *)
(* every dashboard, but there is no such project to fetch it from.)        *)
Found(b) == url.project = ProjectOf[b] /\ Exists(b, list)

(* setDashboard                                                            *)
Shown(b, dashboard) == [board |-> b, title |-> dashboard.title, panels |-> dashboard.panels]

(* The page of a dashboard right after it is mounted: the toolbar and its  *)
(* effects start afresh.                                                   *)
MountedPage(b, dashboard, metadata) ==
  [ board |-> b, shows |-> Shown(b, dashboard), original |-> None,
    edit |-> FALSE, saveError |-> FALSE,
    panelEditor |-> FALSE, queued |-> None, processing |-> FALSE,
    metadata |-> metadata, seenByToolbar |-> None, seenEdit |-> FALSE ]

Mounted == app # NoPage

Init ==
  /\ server \in [Boards -> {NewBoard, NoBoard}]
  /\ list = server
  /\ url \in [project : Projects \cup {None}, board : Boards, range : {0}, edit : BOOLEAN]
  /\ console \in [namespace : Namespaces \cup {All}, loaded : {FALSE}]
  /\ app = NoPage
  /\ handed = None
  /\ saving = NotSaving
  /\ counts = [events |-> 0, others |-> 0, failures |-> 0]

----------------------------------------------------------------------------
(* Effects: each from the values of the render, applied in this order.     *)

ToolbarDeps == <<url, app.metadata>>

QueueDue == Mounted /\ handed # None /\ app.queued = None /\ ~app.processing
ApplyDue == Mounted /\ app.queued # None /\ app.panelEditor
ToolbarDue == Mounted /\ app.seenByToolbar # ToolbarDeps
SaveErrorDue == Mounted /\ app.saveError /\ ~app.edit
EditDue == Mounted /\ app.seenEdit # url.edit

EntersEdit(a) == [a EXCEPT !.edit = TRUE, !.original = a.shows]

(* queuePanelAddition opens an editor to put the panel into.               *)
AfterQueue(a) ==
  IF ~QueueDue THEN a
  ELSE [ (IF a.edit THEN a ELSE EntersEdit(a)) EXCEPT
           !.processing = TRUE, !.panelEditor = TRUE, !.queued = handed ]

(* Mutant: the guard against re-entrant calls is not released.             *)
AfterApplyKeepingGuard(a) ==
  IF ~ApplyDue THEN a
  ELSE [ a EXCEPT !.shows.panels = @ \cup {app.queued}, !.panelEditor = FALSE, !.queued = None ]

AfterApply(a) ==
  IF ~ApplyDue THEN a
  ELSE [ a EXCEPT !.shows.panels = @ \cup {app.queued}, !.panelEditor = FALSE, !.queued = None,
                  !.processing = FALSE ]

(* onChangeBoard(dashboardName), which is a new function whenever the URL  *)
(* or the metadata are: the page shows what the metadata have.             *)
AfterToolbar(a) ==
  IF ~ToolbarDue THEN a
  ELSE [ a EXCEPT !.seenByToolbar = ToolbarDeps,
                  !.shows = Shown(url.board, app.metadata[url.board]) ]

(* Mutant: the error is not forgotten.                                     *)
AfterSaveErrorKept(a) ==
  IF SaveErrorDue THEN [a EXCEPT !.edit = TRUE] ELSE a

AfterSaveError(a) ==
  IF SaveErrorDue THEN [a EXCEPT !.edit = TRUE, !.saveError = FALSE] ELSE a

AfterEdit(a) ==
  IF EditDue THEN [a EXCEPT !.edit = @ \/ url.edit, !.seenEdit = url.edit] ELSE a

(* useActiveProject: the URL leads, unless it has no project.              *)
SyncDue ==
  /\ console.loaded /\ url.project # console.namespace
  /\ url.project \in Namespaces \cup {All, None}

(* Mutant: the namespace leads.                                            *)
AfterSyncFromConsole ==
  /\ url' = IF SyncDue THEN [url EXCEPT !.project = console.namespace] ELSE url
  /\ UNCHANGED console

AfterSync ==
  /\ url' = IF SyncDue /\ url.project = None
              THEN [url EXCEPT !.project = console.namespace] ELSE url
  /\ console' = IF SyncDue /\ url.project # None
                  THEN [console EXCEPT !.namespace = url.project] ELSE console

Stable == ~(QueueDue \/ ApplyDue \/ ToolbarDue \/ SaveErrorDue \/ EditDue \/ SyncDue)

Commit ==
  /\ ~Stable
  /\ app' = AfterEdit(AfterSaveError(AfterToolbar(AfterApply(AfterQueue(app)))))
  /\ handed' = IF ApplyDue THEN None ELSE handed
  /\ AfterSync
  /\ UNCHANGED <<server, list, saving, counts>>

----------------------------------------------------------------------------
(* Answers                                                                 *)

NamespacesLoaded ==
  /\ Stable /\ ~console.loaded
  /\ console' = [console EXCEPT !.loaded = TRUE]
  /\ UNCHANGED <<server, list, url, app, handed, saving, counts>>

(* A page that is unmounted does not hear of its save any more.            *)
Left == IF saving = NotSaving THEN saving ELSE [saving EXCEPT !.left = TRUE]

(* The list is fetched again: for a page that is mounted, or after a save. *)
(* A dashboard that is gone is not found: its page is unmounted.           *)
Refetched(a) ==
  /\ list' = server
  /\ app' = IF Mounted /\ Exists(url.board, server)
              THEN [a EXCEPT !.metadata = Metadata(@, server)] ELSE NoPage

ListFetched ==
  /\ Stable /\ list # server
  /\ Refetched(app)
  /\ saving' = IF app' = NoPage THEN Left ELSE saving
  /\ UNCHANGED <<server, url, console, handed, counts>>

(* The dashboard of the URL, for which the page is mounted anew; until     *)
(* then the page of the last one is kept.                                  *)
BoardFetched ==
  /\ Stable /\ Found(url.board) /\ Exists(url.board, server) /\ app.board # url.board
  /\ app' = MountedPage(url.board, server[url.board], list)
  /\ saving' = Left
  /\ UNCHANGED <<server, list, url, console, handed, counts>>

(* The PUT writes the dashboard as it was on the screen.                   *)
SaveStored ==
  /\ Stable /\ saving.phase = "put" /\ Exists(saving.board, server)
  /\ server' = [server EXCEPT ![saving.board] = [title |-> saving.title, panels |-> saving.panels]]
  /\ saving' = [saving EXCEPT !.phase = "refetch"]
  /\ UNCHANGED <<list, url, console, app, handed, counts>>

(* onSave: the refetch is awaited, and then the library leaves edit mode,  *)
(* of the page that asked for it.                                          *)
SaveDone ==
  /\ Stable /\ saving.phase = "refetch"
  /\ Refetched(IF saving.left THEN app ELSE [app EXCEPT !.saveError = FALSE, !.edit = FALSE])
  /\ saving' = NotSaving
  /\ UNCHANGED <<server, url, console, handed, counts>>

(* A dashboard that was deleted cannot be saved.                           *)
SaveFails ==
  /\ Stable /\ saving.phase = "put"
  /\ IF Exists(saving.board, server)
     THEN counts.failures < MaxFailures /\ counts' = [counts EXCEPT !.failures = @ + 1]
     ELSE UNCHANGED counts
  /\ app' = IF saving.left THEN app ELSE [app EXCEPT !.saveError = TRUE, !.edit = FALSE]
  /\ saving' = NotSaving
  /\ UNCHANGED <<server, list, url, console, handed>>

----------------------------------------------------------------------------
(* The user, and others                                                    *)

Event ==
  /\ Mounted /\ counts.events < MaxEvents
  /\ counts' = [counts EXCEPT !.events = @ + 1]
  /\ UNCHANGED <<server, list, console>>

ClickEdit ==
  /\ Stable /\ Event /\ ~app.edit
  /\ app' = EntersEdit(app)
  /\ UNCHANGED <<url, handed, saving>>

(* Through the editors of the library.                                     *)
TogglePanel(p) ==
  /\ Stable /\ Event /\ app.edit
  /\ app' = [app EXCEPT !.shows.panels = IF p \in @ THEN @ \ {p} ELSE @ \cup {p}]
  /\ UNCHANGED <<url, handed, saving>>

(* onCancelButtonClick, which asks first if there are changes, and         *)
(* handleDiscardChanges.  Edit mode entered by ?edit=true has no original. *)
Cancel ==
  /\ Stable /\ Event /\ app.edit
  /\ app' = [app EXCEPT !.edit = FALSE, !.shows = IF app.original = None THEN @ ELSE app.original]
  /\ UNCHANGED <<url, handed, saving>>

Save ==
  /\ Stable /\ Event /\ app.edit /\ saving = NotSaving
  /\ saving' = [phase |-> "put", board |-> app.shows.board, title |-> app.shows.title,
                panels |-> app.shows.panels, left |-> FALSE]
  /\ UNCHANGED <<url, app, handed>>

(* The time range, the refresh interval or a variable: all in the URL.     *)
ChangeRange ==
  /\ Stable /\ Event
  /\ url' = [url EXCEPT !.range = 1 - @]
  /\ UNCHANGED <<app, handed, saving>>

(* onChangeBoard and changeBoard: to pick the dashboard that is open does  *)
(* not navigate, but takes it from the metadata again.                     *)
ChangeBoard(b) ==
  /\ Stable /\ Event /\ Found(b)
  /\ url' = IF b = url.board THEN url ELSE [url EXCEPT !.board = b, !.edit = FALSE]
  /\ app' = [app EXCEPT !.shows = Shown(b, app.metadata[b])]
  /\ UNCHANGED <<handed, saving>>

(* addToPersesDashboard: the button is there while a dashboard is open.    *)
AddToDashboard(p) ==
  /\ Event
  /\ handed' = p
  /\ UNCHANGED <<url, app, saving>>

Others ==
  /\ Stable /\ counts.others < MaxOthers
  /\ counts' = [counts EXCEPT !.others = @ + 1]
  /\ UNCHANGED <<list, url, console, app, handed, saving>>

OthersSave(b) ==
  /\ Others /\ Exists(b, server)
  /\ \/ \E p \in Panels : server' = [server EXCEPT ![b].panels = @ \cup {p}]
     \/ server' = [server EXCEPT ![b].title = 1 - @]

OthersCreate(b) == Others /\ ~Exists(b, server) /\ server' = [server EXCEPT ![b] = NewBoard]

OthersDelete(b) == Others /\ Exists(b, server) /\ server' = [server EXCEPT ![b] = NoBoard]

User ==
  \/ ClickEdit \/ Cancel \/ Save \/ ChangeRange
  \/ \E p \in Panels : TogglePanel(p)
  \/ \E b \in Boards : ChangeBoard(b)
  \/ \E p \in External : AddToDashboard(p)

SaveAnswered == SaveStored \/ SaveDone

Next ==
  \/ Commit \/ NamespacesLoaded \/ ListFetched \/ BoardFetched
  \/ SaveAnswered \/ SaveFails \/ User
  \/ \E b \in Boards : OthersSave(b) \/ OthersCreate(b) \/ OthersDelete(b)

Spec == Init /\ [][Next]_vars

(* React renders and the servers answer.                                   *)
FairSpec ==
  /\ Spec
  /\ WF_vars(Commit) /\ WF_vars(NamespacesLoaded) /\ WF_vars(BoardFetched)
  /\ WF_vars(SaveAnswered)

----------------------------------------------------------------------------
(* Properties                                                              *)

(* However renders and further panels interleave, the field for a panel    *)
(* that is handed over is emptied and the guard of ExternalPanelAddition   *)
(* released, so that a later panel can be taken, and a panel that was      *)
(* queued is shown: "The `queuedPanel` will be added in the next refresh   *)
(* cycle".  A panel handed over while another one is queued is cleared     *)
(* with it, and never shown.                                               *)
HandoverEnds ==
  /\ [](handed # None => <>(handed = None /\ (Mounted => ~app.processing)))
  /\ \A p \in External :
       [](Mounted /\ app.queued = p => <>(Mounted /\ p \in app.shows.panels))

(* The project in the URL becomes the namespace of the console, if it is   *)
(* one, or the other way round if there is none; they do not chase each    *)
(* other, and a link keeps its project (useActiveProject).                 *)
ProjectsAgree ==
  /\ <>[](/\ url.project # None
          /\ url.project \in Namespaces \cup {All} => console.namespace = url.project)
  /\ \A p \in Projects : [](url.project = p => [](url.project = p))

(* The answer of a refetch, or of a save, never takes unsaved edits off    *)
(* the screen, unless a dashboard came, went or was renamed: when the page *)
(* has rendered it, it shows what it showed (combinedDashboardsMetadata).  *)
RefetchKeepsEdits ==
  [][ /\ Mounted /\ Stable /\ list' # list
      /\ \A b \in Boards : list'[b].title = app.metadata[b].title
      => Stable' /\ app'.shows = app.shows ]_vars

(* A save that fails leaves its page in edit mode in the end, and only     *)
(* once: the user can cancel (saveErrorOccurred).                          *)
FailedSaveIsEdited == [](Mounted /\ app.saveError => <>(Mounted /\ app.edit /\ ~app.saveError))

(* The test at 03.coo_lightspeed_show_timeseries.cy.ts:180 says "Verify    *)
(* the panel persists after save": nobody removes what is stored and shown.*)
SavedPanelsPersist ==
  [][ Mounted /\ ~app.edit /\ ~app'.edit /\ app'.shows.board = app.shows.board
      => app.shows.panels \cap server[app.shows.board].panels \subseteq app'.shows.panels ]_vars
=============================================================================
