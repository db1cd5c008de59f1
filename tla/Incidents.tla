------------------------------ MODULE Incidents ------------------------------
(***************************************************************************)
(* The incidents page (IncidentsPage.tsx): the filters the user sets, the  *)
(* incidents and alerts the page fetches for them, and the flags that      *)
(* decide what it shows.  An action is one event or one promise callback   *)
(* together with the React effects that its changes trigger.  Nothing      *)
(* cancels a request: its callback runs whenever the answer arrives, with  *)
(* the filters, incidents and rules of the render that sent it.            *)
(***************************************************************************)
EXTENDS Naturals, FiniteSets

CONSTANTS
  Groups,         \* incidents, by group_id
  Days,           \* values of the days filter
  Within,         \* the incidents that have samples within those days
  Firing,         \* the incidents that still fire: others are resolved
  NoGroup,        \* an empty groupId filter, an empty list of alerts
  Requests,       \* bound: requests in flight at once
  MaxFailures     \* bound: requests that fail

ASSUME WithinAssumption == Within \in [Days -> SUBSET Groups]
ASSUME FiringAssumption == Firing \subseteq Groups
ASSUME NoGroupAssumption == NoGroup \notin Groups
ASSUME BoundsAssumption == MaxFailures \in Nat

VARIABLES
  page,           \* the filters, the Redux data and the flags of the page
  rules,          \* the poller of useAlerts has stored something: rules is
                  \* a list, no longer undefined
  request,        \* what every request in flight will be used for
  failures,
  hurried         \* history: the user has acted on a page that had not settled

vars == <<page, rules, request, failures, hurried>>

(* The state filter is either empty or Firing: it stands for the state and *)
(* severity filters.                                                       *)
Filters == [days : Days, firingOnly : BOOLEAN, groupId : Groups \cup {NoGroup}]

(* Fetched alerts: whose they are and the days they were fetched for.      *)
NoAlerts == [group |-> NoGroup]
AlertLists == {NoAlerts} \cup [group : Groups, days : Days]

Idle == [kind |-> "idle"]
RequestStates ==
  {Idle} \cup
  [kind : {"incidents"}, filters : Filters] \cup
  [kind : {"alerts"}, alerts : AlertLists, filteredEmpty : BOOLEAN, rules : BOOLEAN]

Charts == {"unmounted", "visible", "hidden"}

TypeOK ==
  /\ page \in [ filters                    : Filters,
                incidents                  : SUBSET Groups,
                filtered                   : SUBSET Groups,
                alertsData                 : AlertLists,
                alertsTableData            : AlertLists,
                alertsAreLoading           : BOOLEAN,
                incidentsAreLoading        : BOOLEAN,
                loadError                  : BOOLEAN,
                hideCharts                 : BOOLEAN,
                alertsChart                : Charts,
                incidentForAlertProcessing : Groups \cup {NoGroup},
                processingDue              : BOOLEAN ]
  /\ page.filtered \subseteq page.incidents
  /\ rules \in BOOLEAN
  /\ request \in [Requests -> RequestStates]
  /\ failures \in 0 .. MaxFailures
  /\ hurried \in BOOLEAN

----------------------------------------------------------------------------
(* Rendering                                                               *)

filterIncident(filters, incidents) ==
  {g \in incidents :
     /\ filters.firingOnly => g \in Firing
     /\ filters.groupId # NoGroup => filters.groupId = g}

selectedIncidentIsVisible(p) == p.filters.groupId \in p.filtered

(* The page shows a spinner, an error, or its toolbar, charts and table.   *)
ShowsPage(p) == ~p.loadError /\ ~(p.alertsAreLoading /\ p.incidentsAreLoading)

(* The effect of AlertsChart: it runs on mounting and when the selected    *)
(* incident comes into view or leaves it.                                  *)
AlertsChartEffect(p) ==
  LET status == IF selectedIncidentIsVisible(p) THEN "visible" ELSE "hidden"
  IN  IF ~ShowsPage(p) \/ p.hideCharts THEN [p EXCEPT !.alertsChart = "unmounted"]
      ELSE IF p.alertsChart = status THEN p
      ELSE [p EXCEPT !.alertsChart = status,
                     !.alertsAreLoading = ~selectedIncidentIsVisible(p)]

(* Mutant: the flag is only raised.                                        *)
LoadingEffectRaising(p) ==
  [p EXCEPT !.alertsAreLoading = @ \/ (p.filtered = {} /\ p.filters.firingOnly)]

(* The page's effect on [incidentsActiveFilters, filteredData].            *)
LoadingEffect(p) ==
  [p EXCEPT !.alertsAreLoading =
     IF p.filtered = {} THEN @ \/ p.filters.firingOnly
     ELSE @ /\ p.filters.groupId = NoGroup]

(* Once the flags have settled: raising the flag may take the chart away.  *)
Rendered(p) ==
  LET visible == selectedIncidentIsVisible(p)
      status == IF visible THEN "visible" ELSE "hidden"
      mounted == ShowsPage(p) /\ ~p.hideCharts
      loading == IF mounted /\ p.alertsChart # status THEN ~visible ELSE p.alertsAreLoading
  IN  [p EXCEPT !.alertsAreLoading = loading,
                !.alertsChart = IF mounted /\ ~(loading /\ p.incidentsAreLoading)
                                THEN status ELSE "unmounted"]

(* The same for a change of the filters or of the filtered incidents.      *)
RenderedData(p) == Rendered(LoadingEffect(AlertsChartEffect(p)))

(* The flags once the effect on [days, selectedGroupId] has sent a request.*)
FetchIncidents(p) ==
  Rendered([p EXCEPT !.incidentsAreLoading = TRUE, !.loadError = FALSE])

----------------------------------------------------------------------------
(* The first renders: the filters come from the URL, of which a groupId    *)
(* may name any incident, or from incidentsInitialState.                   *)
Init ==
  /\ \E filters \in Filters :
       /\ page = [ filters |-> filters,
                   incidents |-> {}, filtered |-> {},
                   alertsData |-> NoAlerts, alertsTableData |-> NoAlerts,
                   alertsAreLoading |-> TRUE, incidentsAreLoading |-> TRUE,
                   loadError |-> FALSE, hideCharts |-> FALSE, alertsChart |-> "unmounted",
                   incidentForAlertProcessing |-> NoGroup, processingDue |-> FALSE ]
       /\ \E r \in Requests :
            request = [[q \in Requests |-> Idle] EXCEPT
                         ![r] = [kind |-> "incidents", filters |-> filters]]
  /\ rules \in BOOLEAN
  /\ failures = 0
  /\ hurried = FALSE

Settled == ~page.processingDue /\ \A r \in Requests : request[r] = Idle

(* The toolbar and the charts can be used.                                 *)
Usable ==
  /\ ShowsPage(page)
  /\ hurried' = (hurried \/ ~Settled)

----------------------------------------------------------------------------
(* The user                                                                *)

(* Selecting, replacing or deselecting an incident, in the chart or in the *)
(* Incident ID filter, which lists every fetched incident: the data is     *)
(* filtered at once and fetched again.                                     *)
SelectIncident ==
  /\ Usable
  /\ \E g \in page.incidents \cup ({page.filters.groupId} \ {NoGroup}), r \in Requests :
       LET filters == [page.filters EXCEPT
                         !.groupId = IF g = page.filters.groupId THEN NoGroup ELSE g]
       IN  /\ request[r] = Idle
           /\ request' = [request EXCEPT ![r] = [kind |-> "incidents", filters |-> filters]]
           /\ page' = FetchIncidents(RenderedData(
                        [page EXCEPT !.filters = filters,
                                     !.filtered = filterIncident(filters, page.incidents)]))
  /\ UNCHANGED <<rules, failures>>

(* changeDaysFilter: the same days chosen again fetch again too.           *)
changeDaysFilter ==
  /\ Usable
  /\ \E d \in Days, r \in Requests :
       LET filters == [page.filters EXCEPT !.days = d]
       IN  /\ request[r] = Idle
           /\ request' = [request EXCEPT ![r] = [kind |-> "incidents", filters |-> filters]]
           /\ page' = FetchIncidents(RenderedData([page EXCEPT !.filters = filters]))
  /\ UNCHANGED <<rules, failures>>

(* The state filter only filters what is there.                            *)
ToggleFiring ==
  /\ Usable
  /\ LET filters == [page.filters EXCEPT !.firingOnly = ~@]
     IN  page' = RenderedData([page EXCEPT !.filters = filters,
                                           !.filtered = filterIncident(filters, page.incidents)])
  /\ UNCHANGED <<rules, request, failures>>

(* clearAllFilters                                                         *)
ClearAllFilters ==
  /\ Usable
  /\ LET filters == [page.filters EXCEPT !.firingOnly = FALSE, !.groupId = NoGroup]
         cleared == RenderedData([page EXCEPT !.filters = filters,
                                              !.filtered = page.incidents,
                                              !.alertsAreLoading = TRUE])
     IN  IF page.filters.groupId = NoGroup THEN page' = cleared /\ UNCHANGED request
         ELSE \E r \in Requests :
                /\ request[r] = Idle
                /\ request' = [request EXCEPT ![r] = [kind |-> "incidents", filters |-> filters]]
                /\ page' = FetchIncidents(cleared)
  /\ UNCHANGED <<rules, failures>>

ToggleCharts ==
  /\ Usable
  /\ page' = Rendered([page EXCEPT !.hideCharts = ~@])
  /\ UNCHANGED <<rules, request, failures>>

----------------------------------------------------------------------------
(* Promise callbacks                                                       *)

RulesLoaded ==
  /\ ~rules
  /\ rules' = TRUE
  /\ UNCHANGED <<page, request, failures, hurried>>

(* Mutant: the incidents are filtered but not stored.                      *)
IncidentsAnsweredKeepingList(r) ==
  /\ request[r].kind = "incidents"
  /\ LET filters == request[r].filters
         stored == [page EXCEPT
                      !.filtered = filterIncident(filters, Within[filters.days]),
                      !.incidentForAlertProcessing = filters.groupId,
                      !.processingDue = TRUE,
                      !.alertsAreLoading = filters.groupId # NoGroup]
     IN  page' = Rendered([RenderedData(stored) EXCEPT !.incidentsAreLoading = FALSE])
  /\ request' = [request EXCEPT ![r] = Idle]
  /\ UNCHANGED <<rules, failures, hurried>>

(* The query asks for the selected incident alone when there is one, and   *)
(* its answer is what the alerts are fetched for.  The store's changes are *)
(* rendered before the page's own.                                         *)
IncidentsAnswered(r) ==
  /\ request[r].kind = "incidents"
  /\ LET filters == request[r].filters
         selected == filters.groupId # NoGroup
         incidents == {g \in Within[filters.days] : selected => g = filters.groupId}
         stored == [page EXCEPT
                      !.incidents = incidents,
                      !.filtered = filterIncident(filters, incidents),
                      !.incidentForAlertProcessing =
                         IF incidents = {} THEN NoGroup ELSE filters.groupId,
                      !.processingDue = TRUE,
                      !.alertsAreLoading = selected]
     IN  page' = Rendered([RenderedData(stored) EXCEPT !.incidentsAreLoading = FALSE])
  /\ request' = [request EXCEPT ![r] = Idle]
  /\ UNCHANGED <<rules, failures, hurried>>

(* Mutant: the table is only filled while it is empty.                     *)
StoreAlertsOnce(p, alerts, filteredEmpty, withRules) ==
  Rendered([p EXCEPT !.alertsData = alerts,
                     !.alertsTableData = IF withRules /\ @ = NoAlerts THEN alerts ELSE @,
                     !.alertsAreLoading = filteredEmpty])

(* The alerts of an answer stored, with the filteredData and the rules of  *)
(* the render that asked for them.                                         *)
StoreAlerts(p, alerts, filteredEmpty, withRules) ==
  Rendered([p EXCEPT !.alertsData = alerts,
                     !.alertsTableData = IF withRules THEN alerts ELSE @,
                     !.alertsAreLoading = filteredEmpty])

(* The effect on [incidentForAlertProcessing].  It belongs to a later      *)
(* render than the callback that set it; two changes may be rendered as    *)
(* one.  With no incident there is nothing to ask and the empty list is    *)
(* stored at once.                                                         *)
ProcessAlerts ==
  /\ page.processingDue
  /\ LET g == page.incidentForAlertProcessing
         done == [page EXCEPT !.processingDue = FALSE]
         days == page.filters.days
         alerts == IF g \in Within[days] THEN [group |-> g, days |-> days] ELSE NoAlerts
     IN  IF g = NoGroup
         THEN page' = StoreAlerts(done, NoAlerts, page.filtered = {}, rules) /\ UNCHANGED request
         ELSE /\ page' = done
              /\ \E r \in Requests :
                   /\ request[r] = Idle
                   /\ request' = [request EXCEPT ![r] =
                        [kind |-> "alerts", alerts |-> alerts,
                         filteredEmpty |-> page.filtered = {}, rules |-> rules]]
  /\ UNCHANGED <<rules, failures, hurried>>

AlertsAnswered(r) ==
  /\ request[r].kind = "alerts"
  /\ page' = StoreAlerts(page, request[r].alerts, request[r].filteredEmpty, request[r].rules)
  /\ request' = [request EXCEPT ![r] = Idle]
  /\ UNCHANGED <<rules, failures, hurried>>

(* Mutant: the error is stored but the spinner is not taken down.          *)
RequestFailsSpinning(r) ==
  /\ request[r] # Idle
  /\ failures < MaxFailures
  /\ failures' = failures + 1
  /\ request' = [request EXCEPT ![r] = Idle]
  /\ page' = Rendered([page EXCEPT !.alertsAreLoading = FALSE, !.loadError = TRUE])
  /\ UNCHANGED <<rules, hurried>>

(* The two catch callbacks.                                                *)
RequestFails(r) ==
  /\ request[r] # Idle
  /\ failures < MaxFailures
  /\ failures' = failures + 1
  /\ request' = [request EXCEPT ![r] = Idle]
  /\ page' = Rendered(
       [page EXCEPT !.alertsAreLoading = FALSE,
                    !.incidentsAreLoading = @ /\ request[r].kind # "incidents",
                    !.loadError = TRUE])
  /\ UNCHANGED <<rules, hurried>>

----------------------------------------------------------------------------
User == SelectIncident \/ changeDaysFilter \/ ToggleFiring \/ ClearAllFilters \/ ToggleCharts
Callback(r) == IncidentsAnswered(r) \/ AlertsAnswered(r) \/ RequestFails(r)

Next == User \/ RulesLoaded \/ ProcessAlerts \/ \E r \in Requests : Callback(r)

(* Every request is answered one way or the other: only its callback makes *)
(* it idle, so this is weak fairness of Callback(r), without an ENABLED    *)
(* that would have to render the page.                                     *)
Fairness == \A r \in Requests : []<>(request[r] = Idle)

Spec == Init /\ [][Next]_vars
FairSpec == Spec /\ Fairness

----------------------------------------------------------------------------
(* Properties                                                              *)

(* IncidentsTable lists its alerts.                                        *)
TableShown ==
  /\ ShowsPage(page)
  /\ page.alertsTableData # NoAlerts
  /\ ~page.alertsAreLoading
  /\ page.filters.groupId # NoGroup

(* The tests' plan says of switching from incident D to E: "Only E's       *)
(* alerts displayed after fetch completes".                                *)
OnlySelectedIncidentsAlerts ==
  Settled /\ TableShown => page.alertsTableData.group = page.filters.groupId

(* That holds for a user who has waited before every click, whatever has   *)
(* failed: the table never keeps the alerts of an incident that is no      *)
(* longer selected.                                                        *)
AlertsOfSelectedIncident == ~hurried => OnlySelectedIncidentsAlerts

(* For such a user the charts and the table never keep incidents that the  *)
(* filters leave out: "verify only D, E, H shown", the tests' plan says.   *)
FilteredMatchesFilters ==
  ~hurried /\ Settled /\ ShowsPage(page)
    => page.filtered = filterIncident(page.filters, page.incidents)

(* Nor does the incident that stays selected and matches the filters ever  *)
(* wait for alerts that have come: "alerts still shown".                   *)
VisibleIncidentShowsAlerts ==
  /\ ~hurried
  /\ Settled
  /\ ShowsPage(page)
  /\ selectedIncidentIsVisible(page)
  => ~page.alertsAreLoading

(* A page that waits for incidents stops waiting, with data or an error,   *)
(* however many requests overlap.                                          *)
LoadingEnds == page.incidentsAreLoading ~> ~page.incidentsAreLoading

(* While the page waits for incidents a request for them is in flight, so  *)
(* the spinner, which hides every control, is never the last thing shown.  *)
SpinnerHasRequest ==
  page.incidentsAreLoading => \E r \in Requests : request[r].kind = "incidents"
=============================================================================
