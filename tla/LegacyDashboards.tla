--------------------------- MODULE LegacyDashboards ---------------------------
(***************************************************************************)
(* The legacy dashboards page: the dashboard and the project in the URL    *)
(* (useLegacyDashboards.ts, useLegacyDashboardsProject.ts), the variables  *)
(* of each dashboard in the Redux store (reducers.ts), and the dropdown of *)
(* each variable, which asks for its options whenever its query, its       *)
(* options or the time range change (LegacyVariableDropdowns.tsx).  The    *)
(* query of a variable may use the value of another one.  Commit is a      *)
(* render with its effects; an effect runs when what it depends on is not  *)
(* what it was at the last render.  React renders one event before the     *)
(* next.  The namespace of the console is the project of the page.         *)
(***************************************************************************)
EXTENDS Integers, FiniteSets, Sequences

CONSTANTS
  Boards,         \* the dashboards of the cluster, sorted by title
  Shared,         \* those labelled for every user: the ones a project shows
  Names,          \* names of variables
  Variables,      \* the variables of each dashboard
  Template,       \* what the dashboards say of a variable
  Values,         \* values of variables, numbered in their order
  All,            \* ALL_OPTION_KEY
  Projects,
  AllProjects,    \* ALL_NAMESPACES_KEY
  Offered,        \* the options the servers have for a variable, by the value its query uses
  Urls,           \* what the page is opened with
  MaxEvents,      \* bound: what the user does
  MaxFailures     \* bound: requests that fail

NoValue == 0
Undefined == -1      \* the query of a variable that cannot be asked yet
NoBoard == "none"
Board == {Boards[i] : i \in DOMAIN Boards}
Value == Values \cup {All, NoValue} \cup (Projects \ {AllProjects})
Asked == Value \cup Projects
Url == [ board : Board \cup {NoBoard, "gone"}, params : [Names -> Value],
         project : Projects \cup {NoValue}, refresh : 0 .. 1, range : 0 .. 1 ]

ASSUME ValuesAssumption ==
  /\ Values \subseteq Nat \ {0} /\ All \in Nat \ ({0} \cup Values) /\ IsFiniteSet(Values)
  /\ Projects \subseteq Nat \ {0} /\ AllProjects \in Projects
ASSUME BoardsAssumption ==
  /\ Boards \in Seq(Board) /\ Shared \subseteq Board /\ {NoBoard, "gone"} \cap Board = {}
  /\ Variables \in [Board -> SUBSET Names]
ASSUME TemplateAssumption ==
  Template \in [Names -> [ type : {"query", "interval"}, uses : Names \cup {"nothing"},
                           includeAll : BOOLEAN, options : SUBSET Values,
                           selected : Values \cup {NoValue} ]]
ASSUME OfferedAssumption == Offered \in [Names -> [Asked -> SUBSET Values]]
ASSUME UrlsAssumption == Urls \subseteq Url
ASSUME BoundsAssumption == MaxEvents \in Nat /\ MaxFailures \in Nat

VARIABLES
  url,            \* the dashboard, the query parameters and the project in the URL
  items,          \* unfilteredLegacyDashboards: whether they are loaded
  legacy,         \* dashboards.legacy: the variables of each dashboard
  page,           \* what the effects have seen last, and previousProject
  requests,       \* of options, in flight; identical ones count as one
  opened,         \* the URL the page was opened with
  events, failures

vars == <<url, items, legacy, page, requests, opened, events, failures>>

Variable == [hasQuery : BOOLEAN, options : SUBSET Values, value : Value, isLoading : BOOLEAN]
Request == [board : Board, name : Names, query : Asked]

(* A dashboard has all its variables, or none but what the answers to      *)
(* aborted requests have left, which have no query and never load.         *)
TypeOK ==
  /\ url \in Url
  /\ items \in {"loading", "loaded", "failed"}
  /\ \A b \in Board : DOMAIN legacy[b] \subseteq Variables[b]
  /\ \A b \in Board : \A n \in DOMAIN legacy[b] :
       /\ legacy[b][n] \in Variable
       /\ legacy[b][n].isLoading => legacy[b][n].hasQuery
       /\ legacy[b][n].hasQuery => DOMAIN legacy[b] = Variables[b]
  /\ requests \subseteq Request
  /\ events \in 0 .. MaxEvents
  /\ failures \in 0 .. MaxFailures

----------------------------------------------------------------------------
Smallest(S) ==
  IF S = {} THEN NoValue ELSE CHOOSE v \in S : \A w \in S : v <= w

(* The dashboards of a project, by their places in Boards.                 *)
legacyDashboards(loaded, project) ==
  {i \in DOMAIN Boards : /\ loaded = "loaded"
                         /\ project \in {NoValue, AllProjects} \/ Boards[i] \in Shared}

InList(b, boards) == \E i \in boards : Boards[i] = b

(* Mutant: the key of all namespaces is a namespace like any other.        *)
FixedAlways(n, project) == n = "namespace"

(* In a project the namespace variable is that project.                    *)
Fixed(n, project) == n = "namespace" /\ project # AllProjects

getAllVariables(params, boards, project, board) ==
  [ n \in IF InList(board, boards) THEN Variables[board] ELSE {} |->
      LET t == Template[n]
          default == IF t.selected = NoValue /\ t.includeAll THEN All ELSE t.selected
          value == IF params[n] # NoValue THEN params[n] ELSE default
      IN  [ hasQuery |-> t.type = "query",
            options |-> t.options,
            isLoading |-> n # "namespace" /\ t.type = "query",
            value |-> IF Fixed(n, project) THEN project
                      ELSE IF value # NoValue THEN value ELSE Smallest(t.options) ] ]

(* The query of a variable, as the value it uses of another variable.      *)
evaluateVariableTemplate(n, variables, project) ==
  LET used == Template[n].uses
  IN  IF ~variables[n].hasQuery THEN Undefined
      ELSE IF used \notin DOMAIN variables THEN NoValue
      ELSE IF variables[used].isLoading THEN Undefined
      ELSE IF Fixed(used, project) THEN project
      ELSE variables[used].value

(* Mutant: a variable that has all options is given the first of the new.  *)
VariableOptionsLoadedWithoutAll(variable, newOptions) ==
  [ hasQuery |-> variable.hasQuery,
    options |-> newOptions,
    isLoading |-> FALSE,
    value |-> IF variable.options = newOptions \/ variable.value \in newOptions
                THEN variable.value ELSE Smallest(newOptions) ]

(* DashboardsVariableOptionsLoaded: the value is kept if it is offered.    *)
VariableOptionsLoaded(variable, newOptions) ==
  [ hasQuery |-> variable.hasQuery,
    options |-> newOptions,
    isLoading |-> FALSE,
    value |-> IF variable.options = newOptions \/ variable.value \in newOptions \cup {All}
                THEN variable.value ELSE Smallest(newOptions) ]

(* The same for some variables of a dashboard: one that is not there is    *)
(* made, without a query.                                                  *)
Made == [hasQuery |-> FALSE, options |-> {}, isLoading |-> FALSE, value |-> NoValue]
WithOptionsLoaded(variables, names, newOptions) ==
  [ n \in DOMAIN variables \cup names |->
      IF n \notin names THEN variables[n]
      ELSE VariableOptionsLoaded(IF n \in DOMAIN variables THEN variables[n] ELSE Made, newOptions) ]

----------------------------------------------------------------------------
(* What is rendered, and what an effect compares.                          *)

VariablesOf(b) == IF b \in Board THEN legacy[b] ELSE <<>>
Rendered == [url |-> url, items |-> items, variables |-> VariablesOf(url.board)]
Stable == page.seen = Rendered

Nothing == [ url |-> [ board |-> NoBoard, params |-> [n \in Names |-> NoValue],
                       project |-> NoValue, refresh |-> 0, range |-> 0 ],
             items |-> "none", variables |-> <<>> ]

Init ==
  /\ opened \in Urls
  /\ url = opened
  /\ items = "loading"
  /\ legacy = [b \in Board |-> <<>>]
  /\ page = [seen |-> Nothing, previousProject |-> opened.project]
  /\ requests = {}
  /\ events = 0
  /\ failures = 0

(* The dropdowns of a dashboard are mounted while it has variables, and    *)
(* another dashboard mounts others.                                        *)
Mounted(r) == DOMAIN r.variables
Remounted(r) == r.url.board # page.seen.url.board

QueryOf(n, r) == evaluateVariableTemplate(n, r.variables, r.url.project)

(* Mutants: options that arrive late are not noticed; the effect depends   *)
(* on the variable it marks as loading.                                    *)
OptionDepsWithoutOptions(n, r) == <<QueryOf(n, r), r.url.project, r.url.range>>
OptionDepsOfVariable(n, r) == <<QueryOf(n, r), r.variables[n], r.url.project, r.url.range>>

OptionDeps(n, r) == <<QueryOf(n, r), r.variables[n].options, r.url.project, r.url.range>>
ValueDeps(n, r) == <<r.variables[n].value, r.url.params[n], r.variables[n].options>>
Changed(n, r, Deps(_, _)) ==
  \/ Remounted(r) \/ n \notin Mounted(page.seen)
  \/ Deps(n, r) # Deps(n, page.seen)

(* The effect that asks for options, and the one that brings the value and *)
(* the query parameter together.                                           *)
Asking(r) == {n \in Mounted(r) : Changed(n, r, OptionDeps) /\ QueryOf(n, r) # Undefined}
Differing(r) == {n \in Mounted(r) : /\ Changed(n, r, ValueDeps)
                                    /\ r.variables[n].options # {}
                                    /\ r.variables[n].value # r.url.params[n]}
FromUrl(r) == {n \in Differing(r) : r.url.params[n] \in r.variables[n].options}
ToUrl(r) == {n \in Differing(r) \ FromUrl(r) : r.variables[n].value # NoValue}

AfterDropdowns(b, r) ==
  IF b # r.url.board THEN legacy[b]
  ELSE [ n \in DOMAIN legacy[b] |->
           [ legacy[b][n] EXCEPT
               !.isLoading = @ \/ n \in Asking(r),
               !.value = IF n \in FromUrl(r) THEN r.url.params[n] ELSE @ ] ]

UrlAfterDropdowns(r) ==
  [ r.url EXCEPT
      !.params = [n \in Names |-> IF n \in ToUrl(r) THEN r.variables[n].value ELSE @[n]] ]

(* Unmounting aborts a request, whose callback loads no options when the   *)
(* effects have run.                                                       *)
Aborted(r) ==
  {q \in requests : q.board # r.url.board \/ q.name \notin Mounted(r)}

AfterAborts(variables, b, r) ==
  WithOptionsLoaded(variables, {q.name : q \in {q \in Aborted(r) : q.board = b}}, {})

(* changeLegacyDashboard: the other query parameters are dropped.          *)
UrlOf(board, project) ==
  [Nothing.url EXCEPT !.board = board, !.project = project]

(* The dashboard to show instead of one that is not in the list.           *)
Replacement(r) ==
  LET boards == legacyDashboards(r.items, r.url.project)
  IN  IF boards = {} \/ InList(r.url.board, boards) THEN r.url.board ELSE Boards[Smallest(boards)]

Replacing(r) ==
  Replacement(r) # r.url.board \/ r.url.project # page.previousProject

(* The list, the project, the dashboard or any query parameter changed.    *)
Patching(r) ==
  /\ legacyDashboards(r.items, r.url.project) # {}
  /\ <<r.items, r.url>> # <<page.seen.items, page.seen.url>>

(* A render with the effects it triggers: those of the dropdowns, then the *)
(* project, the replaced dashboard and the variables; and the callbacks of *)
(* the requests it aborts.                                                 *)
Commit(defaultProject) ==
  LET r == Rendered
      boards == legacyDashboards(r.items, r.url.project)
      target == Replacement(r)
      fresh(params, b) == getAllVariables(params, boards, r.url.project, b)
      patched == IF r.url.board = NoBoard THEN target ELSE r.url.board
  IN  /\ ~Stable
      /\ url' = IF Replacing(r) THEN UrlOf(target, r.url.project)
                ELSE [UrlAfterDropdowns(r) EXCEPT !.project = IF @ = NoValue THEN defaultProject ELSE @]
      /\ legacy' =
           [ b \in Board |->
               AfterAborts(IF Patching(r) /\ b = patched THEN fresh(r.url.params, b)
                           ELSE IF Replacing(r) /\ b = target THEN fresh(Nothing.url.params, b)
                           ELSE AfterDropdowns(b, r), b, r) ]
      /\ requests' =
           (requests \ Aborted(r)) \cup
             {[board |-> r.url.board, name |-> n, query |-> QueryOf(n, r)] : n \in Asking(r)}
      /\ page' = [ seen |-> r,
                   previousProject |-> IF Replacing(r) THEN r.url.project ELSE page.previousProject ]
      /\ UNCHANGED <<items, opened, events, failures>>

----------------------------------------------------------------------------
(* Answers                                                                 *)

BoardsLoaded ==
  /\ Stable /\ items = "loading"
  /\ items' = "loaded"
  /\ UNCHANGED <<url, legacy, page, requests, opened, events, failures>>

BoardsFail ==
  /\ Stable /\ items = "loading" /\ failures < MaxFailures
  /\ items' = "failed"
  /\ failures' = failures + 1
  /\ UNCHANGED <<url, legacy, page, requests, opened, events>>

Load(q, newOptions) ==
  /\ Stable /\ q \in requests
  /\ requests' = requests \ {q}
  /\ legacy' = [legacy EXCEPT ![q.board] = WithOptionsLoaded(@, {q.name}, newOptions)]
  /\ UNCHANGED <<url, items, page, opened, events>>

OptionsLoaded(q) ==
  Load(q, Offered[q.name][q.query]) /\ UNCHANGED failures

(* Every error is caught before allSettled, so none is seen after it.      *)
OptionsFail(q) ==
  /\ failures < MaxFailures
  /\ failures' = failures + 1
  /\ Load(q, {})

----------------------------------------------------------------------------
(* The user                                                                *)

User ==
  /\ Stable /\ events < MaxEvents
  /\ events' = events + 1
  /\ UNCHANGED <<items, page, requests, opened, failures>>

(* onChange of a dropdown, which is hidden in a project and without        *)
(* options.                                                                *)
PickValue(n, v) ==
  LET variables == VariablesOf(url.board)
  IN  /\ n \in DOMAIN variables /\ ~Fixed(n, url.project)
      /\ variables[n].options # {}
      /\ v \in variables[n].options \cup (IF Template[n].includeAll THEN {All} ELSE {})
      /\ v # variables[n].value
      /\ User
      /\ url' = [url EXCEPT !.params[n] = v]
      /\ legacy' = [legacy EXCEPT ![url.board][n].value = v]

PickRange ==
  User /\ url' = [url EXCEPT !.range = 1 - @] /\ UNCHANGED legacy

PickInterval ==
  User /\ url' = [url EXCEPT !.refresh = 1 - @] /\ UNCHANGED legacy

Change(board, project) ==
  /\ User
  /\ url' = UrlOf(board, project)
  /\ legacy' =
       [ b \in Board |->
           IF b = board
             THEN getAllVariables(Nothing.url.params,
                                  legacyDashboards(items, url.project), project, b)
             ELSE legacy[b] ]

PickBoard(b) ==
  /\ InList(b, legacyDashboards(items, url.project)) /\ b # url.board
  /\ Change(b, url.project)

(* The namespace bar; all projects lead to the first dashboard.            *)
PickProject(p) ==
  /\ p # url.project
  /\ Change(IF p = AllProjects THEN NoBoard ELSE url.board, p)

UserEvent ==
  \/ \E n \in Names, v \in Value : PickValue(n, v)
  \/ PickRange \/ PickInterval
  \/ \E b \in Board : PickBoard(b)
  \/ \E p \in Projects : PickProject(p)

Answer == BoardsLoaded \/ \E q \in requests : OptionsLoaded(q)
Fail == BoardsFail \/ \E q \in requests : OptionsFail(q)

Next == Commit(AllProjects) \/ Answer \/ Fail \/ UserEvent

Spec == Init /\ [][Next]_vars

(* React renders and the servers answer.                                   *)
FairSpec == Spec /\ WF_vars(Commit(AllProjects)) /\ WF_vars(Answer)

----------------------------------------------------------------------------
(* Properties                                                              *)

Quiet == items = "loaded" /\ Stable /\ requests = {}

Consistent(n, r) ==
  LET v == r.variables[n]
  IN  /\ ~v.isLoading
      /\ v.options = Offered[n][QueryOf(n, r)]
      /\ v.value \in v.options \cup {All}
      /\ r.url.params[n] = v.value

(* When every request is answered, each dropdown with a query shows the    *)
(* options the servers have for the values that are selected now, whatever *)
(* was asked and in whatever order it was answered, one of them is         *)
(* selected, and the URL says which (the effects of                        *)
(* LegacyVariableDropdowns.tsx).                                           *)
OptionsMatchQueries ==
  Quiet /\ failures = 0 =>
    \A n \in Mounted(Rendered) : Rendered.variables[n].hasQuery => Consistent(n, Rendered)

(* The values a variable may have at rest.                                 *)
ValuesAtRest(n) == {All} \cup UNION {Offered[n][q] : q \in Asked}

(* What its dropdown may ask then: for the value of the variable it uses,  *)
(* which is any value if that has no query, or for the project.            *)
AskedAtRest(n, b) ==
  LET used == Template[n].uses
  IN  IF used \notin Variables[b] THEN {NoValue}
      ELSE IF Template[used].type # "query" THEN Asked
      ELSE IF used = "namespace" THEN ValuesAtRest(used) \cup (Projects \ {AllProjects})
      ELSE ValuesAtRest(used)

(* The servers have options for whatever a dropdown at rest may ask, and   *)
(* not the very ones the dashboard begins with.                            *)
HasOptions ==
  \A b \in Board : \A n \in {n \in Variables[b] : Template[n].type = "query"} :
    \A q \in AskedAtRest(n, b) : Offered[n][q] \notin {{}, Template[n].options}

(* Variables do not use one another in a circle.                           *)
Grounded ==
  \E rank \in [Names -> 0 .. Cardinality(Names)] :
    \A n \in Names : Template[n].uses \in Names => rank[Template[n].uses] < rank[n]

(* The page comes to rest: a dashboard of the project is shown and nothing *)
(* is asked any more.                                                      *)
ComesToRest ==
  <>[](\/ items = "failed"
       \/ Quiet /\ InList(url.board, legacyDashboards(items, url.project)))

IsLink(u) ==
  /\ u.board \in Board /\ u.project # NoValue
  /\ InList(u.board, legacyDashboards("loaded", u.project))
  /\ \A n \in Variables[u.board] :
       LET used == Template[n].uses
           asked == IF used \in Variables[u.board] THEN u.params[used] ELSE NoValue
           all == IF Template[n].includeAll THEN {All} ELSE {}
           options == IF Template[n].type = "query" THEN Offered[n][asked] ELSE Template[n].options
       IN  u.params[n] \in options \cup all /\ (Fixed(n, u.project) => u.params[n] = u.project)

(* Whoever opens a link sees the values it names, if the servers have      *)
(* them: "Default to using the query param to allow for sharable links".   *)
LinksAreKept ==
  IsLink(opened) /\ [](events = 0 /\ failures = 0) =>
    <>[](/\ url = opened
         /\ opened.board \in Board /\ Mounted(Rendered) = Variables[opened.board]
         /\ \A n \in Mounted(Rendered) : Rendered.variables[n].value = opened.params[n])
=============================================================================
