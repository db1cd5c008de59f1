--------------------------- MODULE IncidentsProofs ---------------------------
(***************************************************************************)
(* Proofs about Incidents.  Rendering only touches the loading flag of the *)
(* alerts and the chart, so a step is typed once its unrendered page is,   *)
(* and the spinner of the incidents moves only with their requests.        *)
(***************************************************************************)
EXTENDS Incidents, TLAPS

(* The type of the page, and what rendering leaves of it.                  *)
Pages ==
  { p \in [ filters                    : Filters,
            incidents                  : SUBSET Groups,
            filtered                   : SUBSET Groups,
            alertsData                 : AlertLists,
            alertsTableData            : AlertLists,
            alertsAreLoading           : BOOLEAN,
            incidentsAreLoading        : BOOLEAN,
            loadError                  : BOOLEAN,
            hideCharts                 : BOOLEAN,
            alertsChart                : Charts,
            incidentForAlertProcessing : Groups \cup {NoGroup},
            processingDue              : BOOLEAN ] :
      p.filtered \subseteq p.incidents }

SameSpinner(p, q) == p \in Pages /\ p.incidentsAreLoading = q.incidentsAreLoading

(* The inductive invariant.                                                *)
PInv == TypeOK /\ SpinnerHasRequest

----------------------------------------------------------------------------
(* Rendering                                                               *)

LEMMA PageType ==
  TypeOK <=> /\ page \in Pages
             /\ rules \in BOOLEAN
             /\ request \in [Requests -> RequestStates]
             /\ failures \in 0 .. MaxFailures
             /\ hurried \in BOOLEAN
BY DEF TypeOK, Pages

LEMMA RenderedType ==
  ASSUME NEW p \in Pages
  PROVE  SameSpinner(Rendered(p), p)
<1> DEFINE status == IF selectedIncidentIsVisible(p) THEN "visible" ELSE "hidden"
           mounted == ShowsPage(p) /\ ~p.hideCharts
           loading == IF mounted /\ p.alertsChart # status
                      THEN ~selectedIncidentIsVisible(p) ELSE p.alertsAreLoading
           chart == IF mounted /\ ~(loading /\ p.incidentsAreLoading)
                    THEN status ELSE "unmounted"
<1>1. Rendered(p) = [p EXCEPT !.alertsAreLoading = loading, !.alertsChart = chart]
  BY DEF Rendered
<1>2. loading \in BOOLEAN
  BY DEF Pages, selectedIncidentIsVisible
<1>3. chart \in Charts
  BY DEF Charts
<1> HIDE DEF loading, chart
<1> QED
  BY <1>1, <1>2, <1>3 DEF SameSpinner, Pages

LEMMA ChartEffectType ==
  ASSUME NEW p \in Pages
  PROVE  SameSpinner(AlertsChartEffect(p), p)
<1> DEFINE status == IF selectedIncidentIsVisible(p) THEN "visible" ELSE "hidden"
           loading == ~selectedIncidentIsVisible(p)
<1>1. \/ AlertsChartEffect(p) = p
      \/ AlertsChartEffect(p) = [p EXCEPT !.alertsChart = "unmounted"]
      \/ AlertsChartEffect(p) = [p EXCEPT !.alertsChart = status, !.alertsAreLoading = loading]
  BY DEF AlertsChartEffect
<1>2. loading \in BOOLEAN /\ status \in Charts /\ "unmounted" \in Charts
  BY DEF selectedIncidentIsVisible, Charts
<1> HIDE DEF status, loading
<1> QED
  BY <1>1, <1>2 DEF SameSpinner, Pages

LEMMA LoadingEffectType ==
  ASSUME NEW p \in Pages
  PROVE  SameSpinner(LoadingEffect(p), p)
<1> DEFINE loading == IF p.filtered = {} THEN p.alertsAreLoading \/ p.filters.firingOnly
                      ELSE p.alertsAreLoading /\ p.filters.groupId = NoGroup
<1>1. LoadingEffect(p) = [p EXCEPT !.alertsAreLoading = loading]
  BY DEF LoadingEffect, Pages
<1>2. loading \in BOOLEAN
  BY DEF Pages, Filters
<1> HIDE DEF loading
<1> QED
  BY <1>1, <1>2 DEF SameSpinner, Pages

LEMMA RenderedDataType ==
  ASSUME NEW p \in Pages
  PROVE  SameSpinner(RenderedData(p), p)
BY RenderedType, ChartEffectType, LoadingEffectType DEF RenderedData, SameSpinner

(* The spinner starts with the request.                                    *)
LEMMA FetchType ==
  ASSUME NEW p \in Pages
  PROVE  FetchIncidents(p) \in Pages
<1>1. [p EXCEPT !.incidentsAreLoading = TRUE, !.loadError = FALSE] \in Pages
  BY DEF Pages
<1> QED
  BY <1>1, RenderedType DEF FetchIncidents, SameSpinner

LEMMA StoreAlertsType ==
  ASSUME NEW p \in Pages, NEW alerts \in AlertLists,
         NEW filteredEmpty \in BOOLEAN, NEW withRules \in BOOLEAN
  PROVE  SameSpinner(StoreAlerts(p, alerts, filteredEmpty, withRules), p)
<1> DEFINE stored == [p EXCEPT !.alertsData = alerts,
                               !.alertsTableData = IF withRules THEN alerts
                                                   ELSE p.alertsTableData,
                               !.alertsAreLoading = filteredEmpty]
<1>1. stored \in Pages /\ stored.incidentsAreLoading = p.incidentsAreLoading
  BY DEF Pages
<1>2. StoreAlerts(p, alerts, filteredEmpty, withRules) = Rendered(stored)
  BY DEF StoreAlerts
<1> HIDE DEF stored
<1> QED
  BY <1>1, <1>2, RenderedType DEF SameSpinner

(* Filtering a list of incidents by the filters of a page.                 *)
LEMMA FilteredType ==
  ASSUME NEW filters, NEW incidents \in SUBSET Groups
  PROVE  filterIncident(filters, incidents) \in SUBSET incidents
BY DEF filterIncident

----------------------------------------------------------------------------
(* Requests                                                                *)

LEMMA RequestTypes ==
  /\ Idle \in RequestStates /\ Idle.kind = "idle"
  /\ \A filters \in Filters : [kind |-> "incidents", filters |-> filters] \in RequestStates
  /\ \A alerts \in AlertLists, empty \in BOOLEAN, withRules \in BOOLEAN :
       [kind |-> "alerts", alerts |-> alerts, filteredEmpty |-> empty, rules |-> withRules]
         \in RequestStates
BY DEF RequestStates, Idle

(* A request for incidents is sent from an idle slot: it carries the       *)
(* spinner, whatever the page says.                                        *)
LEMMA IncidentsRequested ==
  ASSUME PInv, NEW filters \in Filters, NEW r \in Requests,
         request' = [request EXCEPT ![r] = [kind |-> "incidents", filters |-> filters]],
         page' \in Pages, UNCHANGED <<rules, failures>>, hurried' \in BOOLEAN
  PROVE  PInv'
<1> DEFINE new == [kind |-> "incidents", filters |-> filters]
<1>1. new \in RequestStates /\ new.kind = "incidents"
  BY RequestTypes
<1> HIDE DEF new
<1>2. request' \in [Requests -> RequestStates] /\ request'[r] = new
  BY <1>1, PageType DEF PInv, new
<1>3. SpinnerHasRequest'
  BY <1>1, <1>2 DEF SpinnerHasRequest
<1> QED
  BY <1>2, <1>3, PageType DEF PInv, TypeOK, Pages

(* A step that moves neither the spinner nor a request for incidents.      *)
LEMMA SpinnerKept ==
  ASSUME PInv, SameSpinner(page', page),
         request' \in [Requests -> RequestStates],
         \A r \in Requests : request[r].kind = "incidents" => request'[r].kind = "incidents",
         rules' \in BOOLEAN, failures' \in 0 .. MaxFailures, hurried' \in BOOLEAN
  PROVE  PInv'
<1>1. TypeOK'
  BY DEF SameSpinner, TypeOK, Pages
<1>2. SpinnerHasRequest'
  BY DEF SameSpinner, PInv, SpinnerHasRequest
<1> QED
  BY <1>1, <1>2 DEF PInv

----------------------------------------------------------------------------
(* The user                                                                *)

(* Every click says whether it was a hurried one.                          *)
LEMMA HurriedType ==
  ASSUME Usable
  PROVE  hurried' \in BOOLEAN
BY DEF Usable

(* New filters, with the incidents they let through.                       *)
LEMMA FilteredPage ==
  ASSUME TypeOK, NEW filters \in Filters
  PROVE  [page EXCEPT !.filters = filters,
                      !.filtered = filterIncident(filters, page.incidents)] \in Pages
<1>1. filterIncident(filters, page.incidents) \in SUBSET page.incidents
  BY FilteredType DEF TypeOK
<1> QED
  BY <1>1 DEF TypeOK, Pages

LEMMA SelectIncidentStep ==
  ASSUME PInv, SelectIncident
  PROVE  PInv'
<1>1. PICK g \in page.incidents \cup ({page.filters.groupId} \ {NoGroup}), r \in Requests :
        LET filters == [page.filters EXCEPT
                          !.groupId = IF g = page.filters.groupId THEN NoGroup ELSE g]
        IN  /\ request' = [request EXCEPT ![r] = [kind |-> "incidents", filters |-> filters]]
            /\ page' = FetchIncidents(RenderedData(
                         [page EXCEPT !.filters = filters,
                                      !.filtered = filterIncident(filters, page.incidents)]))
  BY DEF SelectIncident
<1> DEFINE filters == [page.filters EXCEPT
                         !.groupId = IF g = page.filters.groupId THEN NoGroup ELSE g]
<1>2. filters \in Filters
  BY <1>1 DEF PInv, TypeOK, Filters
<1>3. /\ request' = [request EXCEPT ![r] = [kind |-> "incidents", filters |-> filters]]
      /\ page' = FetchIncidents(RenderedData(
                   [page EXCEPT !.filters = filters,
                                !.filtered = filterIncident(filters, page.incidents)]))
  BY <1>1
<1> HIDE DEF filters
<1>4. page' \in Pages
  BY <1>2, <1>3, FilteredPage, RenderedDataType, FetchType DEF PInv, SameSpinner
<1> QED
  BY <1>2, <1>3, <1>4, HurriedType, IncidentsRequested DEF SelectIncident

LEMMA changeDaysFilterStep ==
  ASSUME PInv, changeDaysFilter
  PROVE  PInv'
<1>1. PICK d \in Days, r \in Requests :
        LET filters == [page.filters EXCEPT !.days = d]
        IN  /\ request' = [request EXCEPT ![r] = [kind |-> "incidents", filters |-> filters]]
            /\ page' = FetchIncidents(RenderedData([page EXCEPT !.filters = filters]))
  BY DEF changeDaysFilter
<1> DEFINE filters == [page.filters EXCEPT !.days = d]
<1>2. filters \in Filters /\ [page EXCEPT !.filters = filters] \in Pages
  BY <1>1 DEF PInv, TypeOK, Filters, Pages
<1>3. /\ request' = [request EXCEPT ![r] = [kind |-> "incidents", filters |-> filters]]
      /\ page' = FetchIncidents(RenderedData([page EXCEPT !.filters = filters]))
  BY <1>1
<1> HIDE DEF filters
<1>4. page' \in Pages
  BY <1>2, <1>3, RenderedDataType, FetchType DEF SameSpinner
<1> QED
  BY <1>2, <1>3, <1>4, HurriedType, IncidentsRequested DEF changeDaysFilter

LEMMA ToggleFiringStep ==
  ASSUME PInv, ToggleFiring
  PROVE  PInv'
<1> DEFINE filters == [page.filters EXCEPT !.firingOnly = ~page.filters.firingOnly]
           changed == [page EXCEPT !.filters = filters,
                                   !.filtered = filterIncident(filters, page.incidents)]
<1>1. filters \in Filters
  BY DEF PInv, TypeOK, Filters
<1>2. changed.incidentsAreLoading = page.incidentsAreLoading
  BY DEF PInv, TypeOK
<1>3. page' = RenderedData(changed)
  BY DEF ToggleFiring
<1>4. changed \in Pages
  <2> HIDE DEF filters
  <2> QED
    BY <1>1, FilteredPage DEF PInv
<1> HIDE DEF changed
<1>5. SameSpinner(page', page)
  BY <1>2, <1>3, <1>4, RenderedDataType DEF SameSpinner
<1> QED
  BY <1>5, HurriedType, SpinnerKept DEF ToggleFiring, PInv, TypeOK

LEMMA ClearAllFiltersStep ==
  ASSUME PInv, ClearAllFilters
  PROVE  PInv'
<1> DEFINE filters == [page.filters EXCEPT !.firingOnly = FALSE, !.groupId = NoGroup]
           all == [page EXCEPT !.filters = filters, !.filtered = page.incidents,
                               !.alertsAreLoading = TRUE]
<1>1. filters \in Filters
  BY DEF PInv, TypeOK, Filters
<1>2. all \in Pages /\ all.incidentsAreLoading = page.incidentsAreLoading
  <2> HIDE DEF filters
  <2> QED
    BY <1>1 DEF PInv, TypeOK, Pages
<1>3. IF page.filters.groupId = NoGroup THEN page' = RenderedData(all) /\ UNCHANGED request
      ELSE \E r \in Requests :
             /\ request' = [request EXCEPT ![r] = [kind |-> "incidents", filters |-> filters]]
             /\ page' = FetchIncidents(RenderedData(all))
  BY DEF ClearAllFilters
<1> HIDE DEF filters, all
<1>4. SameSpinner(RenderedData(all), page)
  BY <1>2, RenderedDataType DEF SameSpinner
<1>5. CASE page.filters.groupId = NoGroup
  BY <1>3, <1>4, <1>5, HurriedType, SpinnerKept DEF ClearAllFilters, PInv, TypeOK
<1>6. CASE page.filters.groupId # NoGroup
  BY <1>1, <1>3, <1>4, <1>6, HurriedType, FetchType, IncidentsRequested DEF ClearAllFilters, SameSpinner
<1> QED
  BY <1>5, <1>6

LEMMA ToggleChartsStep ==
  ASSUME PInv, ToggleCharts
  PROVE  PInv'
<1> DEFINE toggled == [page EXCEPT !.hideCharts = ~page.hideCharts]
<1>1. toggled \in Pages /\ toggled.incidentsAreLoading = page.incidentsAreLoading
  BY DEF PInv, TypeOK, Pages
<1>2. page' = Rendered(toggled)
  BY DEF ToggleCharts
<1> HIDE DEF toggled
<1>3. SameSpinner(page', page)
  BY <1>1, <1>2, RenderedType DEF SameSpinner
<1> QED
  BY <1>3, HurriedType, SpinnerKept DEF ToggleCharts, PInv, TypeOK

----------------------------------------------------------------------------
(* Promise callbacks                                                       *)

LEMMA RulesLoadedStep ==
  ASSUME PInv, RulesLoaded
  PROVE  PInv'
BY DEF RulesLoaded, PInv, TypeOK, SpinnerHasRequest

(* What a request in flight carries.                                       *)
LEMMA RequestContents ==
  ASSUME TypeOK, NEW r \in Requests
  PROVE  /\ request[r].kind = "incidents" => request[r].filters \in Filters
         /\ request[r].kind = "alerts" =>
              /\ request[r].alerts \in AlertLists
              /\ request[r].filteredEmpty \in BOOLEAN
              /\ request[r].rules \in BOOLEAN
BY DEF TypeOK, RequestStates, Idle

LEMMA RequestEnds ==
  ASSUME TypeOK, NEW r \in Requests, request' = [request EXCEPT ![r] = Idle]
  PROVE  /\ request' \in [Requests -> RequestStates]
         /\ \A q \in Requests \ {r} : request'[q] = request[q]
BY RequestTypes DEF TypeOK

(* The answer takes the spinner down.                                      *)
LEMMA IncidentsAnsweredStep ==
  ASSUME PInv, NEW r \in Requests, IncidentsAnswered(r)
  PROVE  PInv'
<1> DEFINE filters == request[r].filters
           selected == filters.groupId # NoGroup
           incidents == {g \in Within[filters.days] : selected => g = filters.groupId}
           stored == [page EXCEPT
                        !.incidents = incidents,
                        !.filtered = filterIncident(filters, incidents),
                        !.incidentForAlertProcessing =
                           IF incidents = {} THEN NoGroup ELSE filters.groupId,
                        !.processingDue = TRUE,
                        !.alertsAreLoading = selected]
           shown == [RenderedData(stored) EXCEPT !.incidentsAreLoading = FALSE]
<1>1. filters \in Filters
  BY RequestContents DEF IncidentsAnswered, PInv
<1>2. incidents \in SUBSET Groups
  BY <1>1, WithinAssumption DEF Filters
<1>3. filterIncident(filters, incidents) \in SUBSET incidents
  <2> HIDE DEF incidents, filters
  <2> QED
    BY <1>2, FilteredType
<1>4. stored \in Pages
  <2>1. selected \in BOOLEAN /\ filters.groupId \in Groups \cup {NoGroup}
    BY <1>1 DEF Filters
  <2> HIDE DEF incidents, selected, filters
  <2> QED
    BY <1>2, <1>3, <2>1 DEF PInv, TypeOK, Pages
<1>5. page' = Rendered(shown)
  BY DEF IncidentsAnswered
<1>6. shown \in Pages /\ shown.incidentsAreLoading = FALSE
  <2> HIDE DEF stored
  <2> QED
    BY <1>4, RenderedDataType DEF SameSpinner, Pages
<1> HIDE DEF shown, stored, incidents, selected, filters
<1>7. page' \in Pages /\ page'.incidentsAreLoading = FALSE
  BY <1>5, <1>6, RenderedType DEF SameSpinner
<1>8. TypeOK'
  BY <1>7, RequestEnds DEF IncidentsAnswered, PInv, TypeOK, Pages
<1> QED
  BY <1>7, <1>8 DEF PInv, SpinnerHasRequest

LEMMA ProcessAlertsStep ==
  ASSUME PInv, ProcessAlerts
  PROVE  PInv'
<1> DEFINE g == page.incidentForAlertProcessing
           done == [page EXCEPT !.processingDue = FALSE]
           days == page.filters.days
           alerts == IF g \in Within[days] THEN [group |-> g, days |-> days] ELSE NoAlerts
<1>1. done \in Pages /\ done.incidentsAreLoading = page.incidentsAreLoading
  BY DEF PInv, TypeOK, Pages
<1>2. CASE g = NoGroup
  <2>1. page' = StoreAlerts(done, NoAlerts, page.filtered = {}, rules) /\ UNCHANGED request
    BY <1>2 DEF ProcessAlerts
  <2>2. NoAlerts \in AlertLists /\ (page.filtered = {}) \in BOOLEAN /\ rules \in BOOLEAN
    BY DEF AlertLists, PInv, TypeOK
  <2> HIDE DEF done
  <2>3. SameSpinner(page', page)
    BY <1>1, <2>1, <2>2, StoreAlertsType DEF SameSpinner
  <2> QED
    BY <2>1, <2>3, SpinnerKept DEF ProcessAlerts, PInv, TypeOK
<1>3. CASE g # NoGroup
  <2>1. PICK r \in Requests :
          /\ request[r] = Idle
          /\ request' = [request EXCEPT ![r] =
               [kind |-> "alerts", alerts |-> alerts,
                filteredEmpty |-> page.filtered = {}, rules |-> rules]]
    BY <1>3 DEF ProcessAlerts
  <2>2. page' = done
    BY <1>3 DEF ProcessAlerts
  <2>3. alerts \in AlertLists
    BY WithinAssumption DEF AlertLists, PInv, TypeOK, Filters
  <2> DEFINE new == [kind |-> "alerts", alerts |-> alerts,
                     filteredEmpty |-> page.filtered = {}, rules |-> rules]
  <2>4. new \in RequestStates
    <3> HIDE DEF alerts
    <3> QED
      BY <2>3, RequestTypes DEF PInv, TypeOK
  <2> HIDE DEF new, done
  <2>5. request' = [request EXCEPT ![r] = new]
    BY <2>1 DEF new
  <2>6. request' \in [Requests -> RequestStates]
    BY <2>4, <2>5 DEF PInv, TypeOK
  <2>7. \A q \in Requests : request[q].kind = "incidents" => request'[q].kind = "incidents"
    BY <2>1, <2>5, RequestTypes DEF PInv, TypeOK
  <2>8. SameSpinner(page', page)
    BY <1>1, <2>2 DEF SameSpinner
  <2> QED
    BY <2>6, <2>7, <2>8, SpinnerKept DEF ProcessAlerts, PInv, TypeOK
<1> QED
  BY <1>2, <1>3

LEMMA AlertsAnsweredStep ==
  ASSUME PInv, NEW r \in Requests, AlertsAnswered(r)
  PROVE  PInv'
<1>1. page' = StoreAlerts(page, request[r].alerts, request[r].filteredEmpty, request[r].rules)
  BY DEF AlertsAnswered
<1>2. page \in Pages
  BY PageType DEF PInv
<1>3. SameSpinner(page', page)
  BY <1>1, <1>2, RequestContents, StoreAlertsType DEF AlertsAnswered, PInv
<1>4. /\ request' \in [Requests -> RequestStates]
      /\ \A q \in Requests \ {r} : request'[q] = request[q]
  BY RequestEnds DEF AlertsAnswered, PInv
<1> QED
  BY <1>3, <1>4, SpinnerKept DEF AlertsAnswered, PInv, TypeOK

(* A failed request for incidents takes the spinner down, a failed request *)
(* for alerts leaves it to the request for incidents it waits for.         *)
LEMMA RequestFailsStep ==
  ASSUME PInv, NEW r \in Requests, RequestFails(r)
  PROVE  PInv'
<1> DEFINE loading == page.incidentsAreLoading /\ request[r].kind # "incidents"
           failed == [page EXCEPT !.alertsAreLoading = FALSE,
                                  !.incidentsAreLoading = loading,
                                  !.loadError = TRUE]
<1>1. page' = Rendered(failed)
  BY DEF RequestFails
<1>2. loading \in BOOLEAN
  BY DEF PInv, TypeOK
<1>3. failed \in Pages /\ failed.incidentsAreLoading = loading
  <2> HIDE DEF loading
  <2> QED
    BY <1>2 DEF PInv, TypeOK, Pages
<1> HIDE DEF failed
<1>4. page' \in Pages /\ page'.incidentsAreLoading = loading
  BY <1>1, <1>3, RenderedType DEF SameSpinner
<1>5. /\ request' \in [Requests -> RequestStates]
      /\ \A q \in Requests \ {r} : request'[q] = request[q]
  BY RequestEnds DEF RequestFails, PInv
<1>6. failures' \in 0 .. MaxFailures
  BY BoundsAssumption DEF RequestFails, PInv, TypeOK
<1>7. TypeOK'
  BY <1>4, <1>5, <1>6 DEF RequestFails, PInv, TypeOK, Pages
<1>8. SpinnerHasRequest'
  BY <1>4, <1>5 DEF PInv, SpinnerHasRequest
<1> QED
  BY <1>7, <1>8 DEF PInv

----------------------------------------------------------------------------
(* Theorems                                                                *)

LEMMA InitStep ==
  ASSUME Init
  PROVE  PInv
<1>1. PICK filters \in Filters, r \in Requests :
        /\ page = [ filters |-> filters,
                    incidents |-> {}, filtered |-> {},
                    alertsData |-> NoAlerts, alertsTableData |-> NoAlerts,
                    alertsAreLoading |-> TRUE, incidentsAreLoading |-> TRUE,
                    loadError |-> FALSE, hideCharts |-> FALSE, alertsChart |-> "unmounted",
                    incidentForAlertProcessing |-> NoGroup, processingDue |-> FALSE ]
        /\ request = [[q \in Requests |-> Idle] EXCEPT
                        ![r] = [kind |-> "incidents", filters |-> filters]]
  BY DEF Init
<1> DEFINE new == [kind |-> "incidents", filters |-> filters]
<1>2. new \in RequestStates /\ new.kind = "incidents"
  BY RequestTypes
<1>3. page \in Pages
  BY <1>1 DEF Pages, AlertLists, Charts
<1> HIDE DEF new
<1>4. request \in [Requests -> RequestStates] /\ request[r] = new
  BY <1>1, <1>2, RequestTypes DEF new
<1>5. rules \in BOOLEAN /\ hurried \in BOOLEAN
  BY Zenon DEF Init
<1>6. failures \in 0 .. MaxFailures
  BY BoundsAssumption DEF Init
<1> QED
  BY <1>2, <1>3, <1>4, <1>5, <1>6, PageType DEF PInv, SpinnerHasRequest

(* The invariant is inductive: one lemma per event and callback.           *)
THEOREM PageInvariant == Spec => []PInv
<1>1. Init => PInv
  BY InitStep
<1>2. PInv /\ [Next]_vars => PInv'
  <2> SUFFICES ASSUME PInv, [Next]_vars PROVE PInv'
    OBVIOUS
  <2>1. CASE UNCHANGED vars
    BY <2>1 DEF vars, PInv, TypeOK, SpinnerHasRequest
  <2>2. CASE User
    BY <2>2, SelectIncidentStep, changeDaysFilterStep, ToggleFiringStep,
       ClearAllFiltersStep, ToggleChartsStep DEF User
  <2>3. CASE \E r \in Requests : Callback(r)
    BY <2>3, IncidentsAnsweredStep, AlertsAnsweredStep, RequestFailsStep DEF Callback
  <2> QED
    BY <2>1, <2>2, <2>3, RulesLoadedStep, ProcessAlertsStep DEF Next
<1> QED
  BY <1>1, <1>2, PTL DEF Spec

(* The page, its requests and its failures stay well typed, and the        *)
(* filtered incidents are always some of the fetched ones.                 *)
COROLLARY PageTypeCorrect == Spec => []TypeOK
BY PageInvariant, PTL DEF PInv

(* However many requests overlap and fail, a page that waits for incidents *)
(* has a request for them in flight (IncidentsPage.tsx).                   *)
COROLLARY SpinnerAlwaysHasRequest == Spec => []SpinnerHasRequest
BY PageInvariant, PTL DEF PInv

----------------------------------------------------------------------------
(* A user who waits                                                        *)

(* What the table holds belongs to the selected incident.                  *)
Belongs(alerts, p) == alerts = NoAlerts \/ alerts.group = p.filters.groupId

(* Alerts asked for with what the page still shows; a table that is filled *)
(* was filled with rules, which do not go away.                            *)
StillMeant(q) ==
  /\ Belongs(q.alerts, page)
  /\ q.filteredEmpty = (page.filtered = {})
  /\ page.alertsTableData # NoAlerts => q.rules
  /\ q.rules => rules

(* No two requests overlap, nor does one overlap the effect that sends the *)
(* next.                                                                   *)
OneAtATime ==
  \A r \in Requests :
    request[r] # Idle => /\ ~page.processingDue
                         /\ \A q \in Requests \ {r} : request[q] = Idle

(* What rests on the page once it has come to rest.                        *)
Rests ==
  Settled /\ ~page.loadError =>
    /\ Belongs(page.alertsTableData, page)
    /\ selectedIncidentIsVisible(page) => ~page.alertsAreLoading

(* What holds between the clicks of a user who waits.                      *)
Calm ==
  /\ page.filtered = filterIncident(page.filters, page.incidents)
  /\ page.alertsTableData # NoAlerts => rules
  /\ OneAtATime
  /\ \A r \in Requests : /\ request[r].kind = "incidents" => request[r].filters = page.filters
                         /\ request[r].kind = "alerts" => StillMeant(request[r])
  /\ page.processingDue => page.incidentForAlertProcessing \in {NoGroup, page.filters.groupId}
  /\ Rests

(* The inductive invariant for such a user.                                *)
CInv == PInv /\ (~hurried => Calm)

(* Rendering leaves everything else alone.                                 *)
SameData(p, q) ==
  /\ p.filters = q.filters /\ p.incidents = q.incidents /\ p.filtered = q.filtered
  /\ p.alertsTableData = q.alertsTableData /\ p.loadError = q.loadError
  /\ p.incidentForAlertProcessing = q.incidentForAlertProcessing
  /\ p.processingDue = q.processingDue

(* An incident that is in view does not start to load again.               *)
LEMMA RenderedKeepsData ==
  ASSUME NEW p \in Pages
  PROVE  /\ SameData(Rendered(p), p)
         /\ selectedIncidentIsVisible(p) /\ ~p.alertsAreLoading => ~Rendered(p).alertsAreLoading
<1> DEFINE visible == selectedIncidentIsVisible(p)
           status == IF visible THEN "visible" ELSE "hidden"
           mounted == ShowsPage(p) /\ ~p.hideCharts
           loading == IF mounted /\ p.alertsChart # status THEN ~visible ELSE p.alertsAreLoading
           chart == IF mounted /\ ~(loading /\ p.incidentsAreLoading)
                    THEN status ELSE "unmounted"
<1>1. Rendered(p) = [p EXCEPT !.alertsAreLoading = loading, !.alertsChart = chart]
  BY DEF Rendered
<1>2. visible /\ ~p.alertsAreLoading => ~loading
  OBVIOUS
<1> HIDE DEF visible, loading, chart
<1>3. SameData(Rendered(p), p) /\ Rendered(p).alertsAreLoading = loading
  BY <1>1 DEF Pages, SameData
<1> QED
  BY <1>2, <1>3 DEF visible

LEMMA ChartEffectData ==
  ASSUME NEW p \in Pages
  PROVE  SameData(AlertsChartEffect(p), p)
<1> DEFINE status == IF selectedIncidentIsVisible(p) THEN "visible" ELSE "hidden"
           loading == ~selectedIncidentIsVisible(p)
<1>1. \/ AlertsChartEffect(p) = p
      \/ AlertsChartEffect(p) = [p EXCEPT !.alertsChart = "unmounted"]
      \/ AlertsChartEffect(p) = [p EXCEPT !.alertsChart = status, !.alertsAreLoading = loading]
  BY DEF AlertsChartEffect
<1> HIDE DEF status, loading
<1> QED
  BY <1>1 DEF SameData, Pages

LEMMA LoadingEffectData ==
  ASSUME NEW p \in Pages
  PROVE  /\ SameData(LoadingEffect(p), p)
         /\ selectedIncidentIsVisible(p) => ~LoadingEffect(p).alertsAreLoading
<1> DEFINE loading == IF p.filtered = {} THEN p.alertsAreLoading \/ p.filters.firingOnly
                      ELSE p.alertsAreLoading /\ p.filters.groupId = NoGroup
<1>1. LoadingEffect(p) = [p EXCEPT !.alertsAreLoading = loading]
  BY DEF LoadingEffect, Pages
<1>2. selectedIncidentIsVisible(p) => ~loading
  BY NoGroupAssumption DEF selectedIncidentIsVisible, Pages
<1> HIDE DEF loading
<1>3. SameData(LoadingEffect(p), p) /\ LoadingEffect(p).alertsAreLoading = loading
  BY <1>1 DEF SameData, Pages
<1> QED
  BY <1>2, <1>3

LEMMA FilteredRendered ==
  ASSUME NEW p \in Pages
  PROVE  /\ SameData(RenderedData(p), p)
         /\ selectedIncidentIsVisible(p) => ~RenderedData(p).alertsAreLoading
<1> DEFINE c == AlertsChartEffect(p)
           l == LoadingEffect(c)
<1>1. c \in Pages /\ SameData(c, p)
  BY ChartEffectType, ChartEffectData DEF SameSpinner
<1> HIDE DEF c
<1>2. l \in Pages /\ SameData(l, c) /\ (selectedIncidentIsVisible(c) => ~l.alertsAreLoading)
  BY <1>1, LoadingEffectType, LoadingEffectData DEF SameSpinner
<1> HIDE DEF l
<1>3. SameData(Rendered(l), l)
      /\ (selectedIncidentIsVisible(l) /\ ~l.alertsAreLoading => ~Rendered(l).alertsAreLoading)
  BY <1>2, RenderedKeepsData
<1>4. RenderedData(p) = Rendered(l)
  BY DEF RenderedData, l, c
<1> QED
  BY <1>1, <1>2, <1>3, <1>4 DEF SameData, selectedIncidentIsVisible

(* What a request for incidents changes of the page.                       *)
LEMMA FetchData ==
  ASSUME NEW p \in Pages
  PROVE  LET q == FetchIncidents(p)
         IN  /\ q.filters = p.filters /\ q.incidents = p.incidents /\ q.filtered = p.filtered
             /\ q.alertsTableData = p.alertsTableData /\ q.processingDue = p.processingDue
<1> DEFINE fetching == [p EXCEPT !.incidentsAreLoading = TRUE, !.loadError = FALSE]
<1>1. fetching \in Pages /\ SameData([fetching EXCEPT !.loadError = p.loadError], p)
  BY DEF Pages, SameData
<1>2. /\ fetching.filters = p.filters /\ fetching.incidents = p.incidents
      /\ fetching.filtered = p.filtered /\ fetching.alertsTableData = p.alertsTableData
      /\ fetching.processingDue = p.processingDue
  BY DEF Pages
<1>3. FetchIncidents(p) = Rendered(fetching)
  BY DEF FetchIncidents
<1> HIDE DEF fetching
<1> QED
  BY <1>1, <1>2, <1>3, RenderedKeepsData DEF SameData

(* The alerts stored: a page with incidents to show does not go on loading.*)
LEMMA StoredData ==
  ASSUME NEW p \in Pages, NEW alerts \in AlertLists,
         NEW filteredEmpty \in BOOLEAN, NEW withRules \in BOOLEAN
  PROVE  LET q == StoreAlerts(p, alerts, filteredEmpty, withRules)
         IN  /\ q.filters = p.filters /\ q.incidents = p.incidents /\ q.filtered = p.filtered
             /\ q.loadError = p.loadError /\ q.processingDue = p.processingDue
             /\ q.incidentForAlertProcessing = p.incidentForAlertProcessing
             /\ q.alertsTableData = IF withRules THEN alerts ELSE p.alertsTableData
             /\ selectedIncidentIsVisible(p) /\ ~filteredEmpty => ~q.alertsAreLoading
<1> DEFINE stored == [p EXCEPT !.alertsData = alerts,
                               !.alertsTableData = IF withRules THEN alerts
                                                   ELSE p.alertsTableData,
                               !.alertsAreLoading = filteredEmpty]
<1>1. stored \in Pages
  BY DEF Pages
<1>2. /\ stored.filters = p.filters /\ stored.incidents = p.incidents
      /\ stored.filtered = p.filtered /\ stored.loadError = p.loadError
      /\ stored.processingDue = p.processingDue
      /\ stored.incidentForAlertProcessing = p.incidentForAlertProcessing
      /\ stored.alertsTableData = IF withRules THEN alerts ELSE p.alertsTableData
      /\ stored.alertsAreLoading = filteredEmpty
  BY DEF Pages
<1>3. StoreAlerts(p, alerts, filteredEmpty, withRules) = Rendered(stored)
  BY DEF StoreAlerts
<1> HIDE DEF stored
<1> QED
  BY <1>1, <1>2, <1>3, RenderedKeepsData DEF SameData, selectedIncidentIsVisible

(* Filtering what is filtered already.                                     *)
LEMMA FilterOfFilters ==
  ASSUME NEW f \in Filters, NEW g \in Filters, NEW incidents,
         f.firingOnly = g.firingOnly, f.groupId = g.groupId
  PROVE  filterIncident(f, incidents) = filterIncident(g, incidents)
BY DEF filterIncident

----------------------------------------------------------------------------
(* Each step, for a user who waits                                         *)

LEMMA IdleKind == Idle.kind = "idle"
BY DEF Idle

(* A click of such a user that fetches finds nothing in flight.            *)
LEMMA FetchStaysCalm ==
  ASSUME CInv, PInv', Usable, UNCHANGED rules,
         NEW changed \in Pages, NEW r \in Requests,
         request' = [request EXCEPT ![r] = [kind |-> "incidents", filters |-> changed.filters]],
         page' = FetchIncidents(RenderedData(changed)),
         ~hurried => changed.filtered = filterIncident(changed.filters, changed.incidents),
         changed.alertsTableData = page.alertsTableData,
         changed.processingDue = page.processingDue
  PROVE  CInv'
<1> SUFFICES ASSUME ~hurried' PROVE Calm'
  BY DEF CInv
<1>1. ~hurried /\ Settled /\ Calm
  BY DEF Usable, CInv
<1>2. /\ page'.filters = changed.filters /\ page'.incidents = changed.incidents
      /\ page'.filtered = changed.filtered
      /\ page'.alertsTableData = changed.alertsTableData
      /\ page'.processingDue = changed.processingDue
  <2>1. RenderedData(changed) \in Pages /\ SameData(RenderedData(changed), changed)
    BY RenderedDataType, FilteredRendered DEF SameSpinner
  <2> QED
    BY <2>1, FetchData DEF SameData
<1> DEFINE new == [kind |-> "incidents", filters |-> changed.filters]
<1>3. new.kind = "incidents" /\ new.filters = changed.filters /\ new # Idle
  BY IdleKind
<1> HIDE DEF new
<1>4. request'[r] = new /\ \A q \in Requests \ {r} : request'[q] = Idle
  BY <1>1 DEF Settled, new, CInv, PInv, TypeOK
<1>5. ~page'.processingDue /\ ~Settled'
  BY <1>1, <1>2, <1>3, <1>4 DEF Settled
<1>6. OneAtATime'
  BY <1>4, <1>5 DEF OneAtATime
<1>7. \A q \in Requests : request'[q].kind # "alerts"
                          /\ (request'[q].kind = "incidents" => request'[q].filters = page'.filters)
  BY <1>2, <1>3, <1>4, IdleKind
<1>8. page'.alertsTableData # NoAlerts => rules'
  BY <1>1, <1>2 DEF Calm
<1>9. page'.filtered = filterIncident(page'.filters, page'.incidents)
  BY <1>1, <1>2
<1> QED
  BY <1>5, <1>6, <1>7, <1>8, <1>9 DEF Calm, Rests

(* One that does not leaves the page at rest.                              *)
LEMMA ClickStaysCalm ==
  ASSUME CInv, PInv', Usable, UNCHANGED <<rules, request>>,
         ~hurried => page'.filtered = filterIncident(page'.filters, page'.incidents),
         page'.alertsTableData = page.alertsTableData,
         page'.processingDue = page.processingDue,
         page'.filters.groupId = page.filters.groupId,
         ~hurried /\ Settled /\ selectedIncidentIsVisible(page') => ~page'.alertsAreLoading
  PROVE  CInv'
<1> SUFFICES ASSUME ~hurried' PROVE Calm'
  BY DEF CInv
<1>1. ~hurried /\ Settled /\ Calm /\ ~page.loadError
  BY DEF Usable, CInv, ShowsPage
<1>2. ~page'.processingDue /\ \A r \in Requests : request'[r] = Idle
  BY <1>1 DEF Settled
<1>3. Belongs(page.alertsTableData, page)'
  BY <1>1 DEF Calm, Rests, Belongs
<1>4. selectedIncidentIsVisible(page)' => ~page'.alertsAreLoading
  BY <1>1
<1>5. OneAtATime' /\ Rests'
  BY <1>2, <1>3, <1>4 DEF OneAtATime, Rests
<1>6. \A q \in Requests : request'[q].kind = "idle"
  BY <1>2, IdleKind
<1>7. page'.alertsTableData # NoAlerts => rules'
  BY <1>1 DEF Calm
<1> QED
  BY <1>1, <1>2, <1>5, <1>6, <1>7 DEF Calm

LEMMA SelectIncidentCalm ==
  ASSUME CInv, SelectIncident
  PROVE  CInv'
<1>1. PICK g \in page.incidents \cup ({page.filters.groupId} \ {NoGroup}), r \in Requests :
        LET filters == [page.filters EXCEPT
                          !.groupId = IF g = page.filters.groupId THEN NoGroup ELSE g]
        IN  /\ request' = [request EXCEPT ![r] = [kind |-> "incidents", filters |-> filters]]
            /\ page' = FetchIncidents(RenderedData(
                         [page EXCEPT !.filters = filters,
                                      !.filtered = filterIncident(filters, page.incidents)]))
  BY DEF SelectIncident
<1> DEFINE filters == [page.filters EXCEPT
                         !.groupId = IF g = page.filters.groupId THEN NoGroup ELSE g]
           changed == [page EXCEPT !.filters = filters,
                                   !.filtered = filterIncident(filters, page.incidents)]
<1>2. filters \in Filters
  BY <1>1 DEF CInv, PInv, TypeOK, Filters
<1>3. request' = [request EXCEPT ![r] = [kind |-> "incidents", filters |-> filters]]
      /\ page' = FetchIncidents(RenderedData(changed))
  BY <1>1
<1> HIDE DEF filters
<1>4. changed \in Pages
  BY <1>2, FilteredPage DEF CInv, PInv
<1>5. /\ changed.filters = filters
      /\ changed.filtered = filterIncident(filters, changed.incidents)
      /\ changed.alertsTableData = page.alertsTableData
      /\ changed.processingDue = page.processingDue
  BY DEF CInv, PInv, TypeOK
<1>6. PInv'
  BY SelectIncidentStep DEF CInv
<1>7. Usable /\ UNCHANGED rules
  BY DEF SelectIncident
<1> HIDE DEF changed
<1> QED
  BY <1>3, <1>4, <1>5, <1>6, <1>7, FetchStaysCalm

LEMMA changeDaysFilterCalm ==
  ASSUME CInv, changeDaysFilter
  PROVE  CInv'
<1>1. PICK d \in Days, r \in Requests :
        LET filters == [page.filters EXCEPT !.days = d]
        IN  /\ request' = [request EXCEPT ![r] = [kind |-> "incidents", filters |-> filters]]
            /\ page' = FetchIncidents(RenderedData([page EXCEPT !.filters = filters]))
  BY DEF changeDaysFilter
<1> DEFINE filters == [page.filters EXCEPT !.days = d]
           changed == [page EXCEPT !.filters = filters]
<1>2. filters \in Filters /\ changed \in Pages
  BY <1>1 DEF CInv, PInv, TypeOK, Filters, Pages
<1>3. /\ page.filters \in Filters
      /\ filters.firingOnly = page.filters.firingOnly /\ filters.groupId = page.filters.groupId
  BY DEF CInv, PInv, TypeOK, Filters
<1>4. request' = [request EXCEPT ![r] = [kind |-> "incidents", filters |-> filters]]
      /\ page' = FetchIncidents(RenderedData(changed))
  BY <1>1
<1> HIDE DEF filters
<1>5. /\ changed.filters = filters /\ changed.filtered = page.filtered
      /\ changed.incidents = page.incidents
      /\ changed.alertsTableData = page.alertsTableData
      /\ changed.processingDue = page.processingDue
  BY DEF CInv, PInv, TypeOK
<1>6. ~hurried => changed.filtered = filterIncident(filters, changed.incidents)
  BY <1>2, <1>3, <1>5, FilterOfFilters DEF CInv, Calm
<1>7. PInv'
  BY changeDaysFilterStep DEF CInv
<1>8. Usable /\ UNCHANGED rules
  BY DEF changeDaysFilter
<1> HIDE DEF changed
<1> QED
  BY <1>2, <1>4, <1>5, <1>6, <1>7, <1>8, FetchStaysCalm

LEMMA ToggleFiringCalm ==
  ASSUME CInv, ToggleFiring
  PROVE  CInv'
<1> DEFINE filters == [page.filters EXCEPT !.firingOnly = ~page.filters.firingOnly]
           changed == [page EXCEPT !.filters = filters,
                                   !.filtered = filterIncident(filters, page.incidents)]
<1>1. filters \in Filters /\ filters.groupId = page.filters.groupId
  BY DEF CInv, PInv, TypeOK, Filters
<1>2. page' = RenderedData(changed)
  BY DEF ToggleFiring
<1> HIDE DEF filters
<1>3. changed \in Pages
  BY <1>1, FilteredPage DEF CInv, PInv
<1>4. /\ changed.filters = filters
      /\ changed.filtered = filterIncident(filters, changed.incidents)
      /\ changed.alertsTableData = page.alertsTableData
      /\ changed.processingDue = page.processingDue
  BY DEF CInv, PInv, TypeOK
<1> HIDE DEF changed
<1>5. /\ SameData(page', changed)
      /\ selectedIncidentIsVisible(page') => ~page'.alertsAreLoading
  BY <1>2, <1>3, FilteredRendered DEF SameData, selectedIncidentIsVisible
<1>6. PInv'
  BY ToggleFiringStep DEF CInv
<1>7. Usable /\ UNCHANGED <<rules, request>>
  BY DEF ToggleFiring
<1> QED
  BY <1>1, <1>4, <1>5, <1>6, <1>7, ClickStaysCalm DEF SameData

(* No filter set: every incident passes.                                   *)
LEMMA NoFilter ==
  ASSUME NEW f \in Filters, NEW incidents, ~f.firingOnly, f.groupId = NoGroup
  PROVE  filterIncident(f, incidents) = incidents
BY DEF filterIncident

LEMMA ClearAllFiltersCalm ==
  ASSUME CInv, ClearAllFilters
  PROVE  CInv'
<1> DEFINE filters == [page.filters EXCEPT !.firingOnly = FALSE, !.groupId = NoGroup]
           all == [page EXCEPT !.filters = filters, !.filtered = page.incidents,
                               !.alertsAreLoading = TRUE]
<1>1. filters \in Filters /\ ~filters.firingOnly /\ filters.groupId = NoGroup
  BY DEF CInv, PInv, TypeOK, Filters
<1>2. /\ all \in Pages /\ all.filters = filters /\ all.filtered = page.incidents
      /\ all.incidents = page.incidents
      /\ all.alertsTableData = page.alertsTableData
      /\ all.processingDue = page.processingDue
  <2> HIDE DEF filters
  <2> QED
    BY <1>1 DEF CInv, PInv, TypeOK, Pages
<1>3. IF page.filters.groupId = NoGroup THEN page' = RenderedData(all) /\ UNCHANGED request
      ELSE \E r \in Requests :
             /\ request' = [request EXCEPT ![r] = [kind |-> "incidents", filters |-> filters]]
             /\ page' = FetchIncidents(RenderedData(all))
  BY DEF ClearAllFilters
<1> HIDE DEF filters, all
<1>4. all.filtered = filterIncident(all.filters, all.incidents)
  BY <1>1, <1>2, NoFilter
<1>5. PInv'
  BY ClearAllFiltersStep DEF CInv
<1>6. Usable /\ UNCHANGED rules
  BY DEF ClearAllFilters
<1>7. CASE page.filters.groupId = NoGroup
  <2>1. SameData(page', all)
    BY <1>2, <1>3, <1>7, FilteredRendered
  <2>2. ~selectedIncidentIsVisible(page')
    BY <1>1, <1>2, <2>1, NoGroupAssumption DEF SameData, selectedIncidentIsVisible, CInv, PInv, TypeOK
  <2> QED
    BY <1>1, <1>2, <1>3, <1>4, <1>5, <1>6, <1>7, <2>1, <2>2, ClickStaysCalm DEF SameData
<1>8. CASE page.filters.groupId # NoGroup
  <2>1. PICK r \in Requests :
          /\ request' = [request EXCEPT ![r] = [kind |-> "incidents", filters |-> all.filters]]
          /\ page' = FetchIncidents(RenderedData(all))
    BY <1>2, <1>3, <1>8
  <2> QED
    BY <1>2, <1>4, <1>5, <1>6, <2>1, FetchStaysCalm
<1> QED
  BY <1>7, <1>8

LEMMA ToggleChartsCalm ==
  ASSUME CInv, ToggleCharts
  PROVE  CInv'
<1> DEFINE toggled == [page EXCEPT !.hideCharts = ~page.hideCharts]
<1>1. /\ toggled \in Pages /\ SameData(toggled, page)
      /\ toggled.alertsAreLoading = page.alertsAreLoading
  BY DEF CInv, PInv, TypeOK, Pages, SameData
<1>2. page' = Rendered(toggled)
  BY DEF ToggleCharts
<1> HIDE DEF toggled
<1>3. /\ SameData(page', page)
      /\ selectedIncidentIsVisible(page) /\ ~page.alertsAreLoading => ~page'.alertsAreLoading
  BY <1>1, <1>2, RenderedKeepsData DEF SameData, selectedIncidentIsVisible
<1>4. PInv'
  BY ToggleChartsStep DEF CInv
<1>5. Usable /\ UNCHANGED <<rules, request>>
  BY DEF ToggleCharts
<1>6. ~page.loadError
  BY <1>5 DEF Usable, ShowsPage
<1>7. ~hurried /\ Settled /\ selectedIncidentIsVisible(page') => ~page'.alertsAreLoading
  BY <1>3, <1>6 DEF CInv, Calm, Rests, SameData, selectedIncidentIsVisible
<1>8. ~hurried => page'.filtered = filterIncident(page'.filters, page'.incidents)
  BY <1>3 DEF CInv, Calm, SameData
<1> QED
  BY <1>3, <1>4, <1>5, <1>7, <1>8, ClickStaysCalm DEF SameData

LEMMA RulesLoadedCalm ==
  ASSUME CInv, RulesLoaded
  PROVE  CInv'
<1>1. PInv'
  BY RulesLoadedStep DEF CInv
<1> SUFFICES ASSUME ~hurried' PROVE Calm'
  BY <1>1 DEF CInv
<1>2. Calm /\ UNCHANGED <<page, request>> /\ rules'
  BY DEF RulesLoaded, CInv
<1>3. \A q \in Requests : request[q].kind = "alerts" => StillMeant(request[q])'
  BY <1>2 DEF Calm, StillMeant, Belongs
<1>4. OneAtATime' /\ Rests'
  BY <1>2 DEF Calm, OneAtATime, Rests, Belongs, Settled
<1> QED
  BY <1>2, <1>3, <1>4 DEF Calm

(* A request that ends was the only one.                                   *)
LEMMA LastRequest ==
  ASSUME TypeOK, OneAtATime, NEW r \in Requests, request[r] # Idle,
         request' = [request EXCEPT ![r] = Idle]
  PROVE  /\ ~page.processingDue
         /\ \A q \in Requests : request'[q] = Idle /\ request'[q].kind = "idle"
BY IdleKind DEF TypeOK, OneAtATime

(* The answer replaces the incidents and their filtered list together.     *)
LEMMA IncidentsAnsweredCalm ==
  ASSUME CInv, NEW r \in Requests, IncidentsAnswered(r)
  PROVE  CInv'
<1>1. PInv'
  BY IncidentsAnsweredStep DEF CInv
<1> SUFFICES ASSUME ~hurried' PROVE Calm'
  BY <1>1 DEF CInv
<1> DEFINE filters == request[r].filters
           selected == filters.groupId # NoGroup
           incidents == {g \in Within[filters.days] : selected => g = filters.groupId}
           due == IF incidents = {} THEN NoGroup ELSE filters.groupId
           stored == [page EXCEPT
                        !.incidents = incidents,
                        !.filtered = filterIncident(filters, incidents),
                        !.incidentForAlertProcessing = due,
                        !.processingDue = TRUE,
                        !.alertsAreLoading = selected]
           shown == [RenderedData(stored) EXCEPT !.incidentsAreLoading = FALSE]
<1>2. Calm /\ request[r].kind = "incidents" /\ request[r] # Idle /\ UNCHANGED rules
  BY IdleKind DEF IncidentsAnswered, CInv
<1>3. filters = page.filters /\ filters \in Filters
  BY <1>2, RequestContents DEF Calm, CInv, PInv
<1>4. incidents \in SUBSET Groups /\ due \in {NoGroup, filters.groupId}
  BY <1>3, WithinAssumption DEF Filters
<1>5. filterIncident(filters, incidents) \in SUBSET incidents
  <2> HIDE DEF incidents, filters
  <2> QED
    BY <1>4, FilteredType
<1>6. stored \in Pages
  <2>1. selected \in BOOLEAN /\ filters.groupId \in Groups \cup {NoGroup}
    BY <1>3 DEF Filters
  <2> HIDE DEF incidents, selected, filters, due
  <2> QED
    BY <1>4, <1>5, <2>1 DEF CInv, PInv, TypeOK, Pages
<1>7. page' = Rendered(shown)
  BY DEF IncidentsAnswered
<1> HIDE DEF filters, incidents, selected, due
<1>8. /\ stored.filters = page.filters /\ stored.incidents = incidents
      /\ stored.filtered = filterIncident(filters, incidents)
      /\ stored.incidentForAlertProcessing = due /\ stored.processingDue
      /\ stored.alertsTableData = page.alertsTableData
  BY DEF CInv, PInv, TypeOK
<1> HIDE DEF stored
<1>9. shown \in Pages /\ SameData(shown, stored)
  <2>1. RenderedData(stored) \in Pages /\ SameData(RenderedData(stored), stored)
    BY <1>6, RenderedDataType, FilteredRendered DEF SameSpinner
  <2> QED
    BY <2>1 DEF SameData, Pages
<1> HIDE DEF shown
<1>10. SameData(page', stored)
  BY <1>7, <1>9, RenderedKeepsData DEF SameData
<1>11. request' = [request EXCEPT ![r] = Idle]
  BY DEF IncidentsAnswered
<1>12. \A q \in Requests : request'[q] = Idle /\ request'[q].kind = "idle"
  BY <1>2, <1>11, LastRequest DEF Calm, CInv, PInv
<1>13. page'.filtered = filterIncident(page'.filters, page'.incidents)
  BY <1>3, <1>8, <1>10 DEF SameData
<1>14. page'.processingDue /\ page'.incidentForAlertProcessing \in {NoGroup, page'.filters.groupId}
  BY <1>3, <1>4, <1>8, <1>10 DEF SameData
<1>15. page'.alertsTableData # NoAlerts => rules'
  BY <1>2, <1>8, <1>10 DEF Calm, SameData
<1>16. OneAtATime' /\ Rests'
  BY <1>12, <1>14 DEF OneAtATime, Rests, Settled
<1> QED
  BY <1>12, <1>13, <1>14, <1>15, <1>16 DEF Calm

(* Alerts asked for: of the incident that is selected.                     *)
LEMMA ProcessAlertsCalm ==
  ASSUME CInv, ProcessAlerts
  PROVE  CInv'
<1>1. PInv'
  BY ProcessAlertsStep DEF CInv
<1> SUFFICES ASSUME ~hurried' PROVE Calm'
  BY <1>1 DEF CInv
<1> DEFINE g == page.incidentForAlertProcessing
           done == [page EXCEPT !.processingDue = FALSE]
           days == page.filters.days
           alerts == IF g \in Within[days] THEN [group |-> g, days |-> days] ELSE NoAlerts
<1>2. Calm /\ page.processingDue /\ UNCHANGED rules
  BY DEF ProcessAlerts, CInv
<1>3. /\ \A q \in Requests : request[q] = Idle
      /\ g \in {NoGroup, page.filters.groupId}
  BY <1>2 DEF Calm, OneAtATime
<1>4. /\ done \in Pages /\ done.filters = page.filters /\ done.incidents = page.incidents
      /\ done.filtered = page.filtered /\ ~done.processingDue
      /\ done.alertsTableData = page.alertsTableData
  BY DEF CInv, PInv, TypeOK, Pages
<1>5. CASE g = NoGroup
  <2>1. page' = StoreAlerts(done, NoAlerts, page.filtered = {}, rules) /\ UNCHANGED request
    BY <1>5 DEF ProcessAlerts
  <2>2. NoAlerts \in AlertLists /\ (page.filtered = {}) \in BOOLEAN /\ rules \in BOOLEAN
    BY DEF AlertLists, CInv, PInv, TypeOK
  <2> HIDE DEF done
  <2> DEFINE none == page.filtered = {}
  <2>3. none \in BOOLEAN /\ page' = StoreAlerts(done, NoAlerts, none, rules)
    BY <2>1
  <2> HIDE DEF none
  <2>4. /\ page'.filters = done.filters /\ page'.incidents = done.incidents
        /\ page'.filtered = done.filtered /\ page'.processingDue = done.processingDue
        /\ page'.alertsTableData = IF rules THEN NoAlerts ELSE done.alertsTableData
        /\ selectedIncidentIsVisible(done) /\ ~none => ~page'.alertsAreLoading
    BY <1>4, <2>2, <2>3, StoredData
  <2>5. /\ page'.filters = page.filters /\ page'.incidents = page.incidents
        /\ page'.filtered = page.filtered /\ ~page'.processingDue
        /\ page'.alertsTableData = IF rules THEN NoAlerts ELSE page.alertsTableData
    BY <1>4, <2>4
  <2>6. selectedIncidentIsVisible(done) /\ ~(page.filtered = {}) => ~page'.alertsAreLoading
    BY <2>4 DEF none
  <2>7. selectedIncidentIsVisible(page)' => ~page'.alertsAreLoading
    BY <1>4, <2>5, <2>6 DEF selectedIncidentIsVisible
  <2>8. page'.alertsTableData = NoAlerts
    BY <1>2, <2>5 DEF Calm
  <2>9. \A q \in Requests : request'[q] = Idle /\ request'[q].kind = "idle"
    BY <1>3, <2>1, IdleKind
  <2>10. OneAtATime' /\ Rests'
    BY <2>7, <2>8, <2>9 DEF OneAtATime, Rests, Belongs
  <2>11. page'.filtered = filterIncident(page'.filters, page'.incidents)
    BY <1>2, <2>5 DEF Calm
  <2> QED
    BY <2>5, <2>8, <2>9, <2>10, <2>11 DEF Calm
<1>6. CASE g # NoGroup
  <2>1. PICK new : new = [kind |-> "alerts", alerts |-> alerts,
                          filteredEmpty |-> page.filtered = {}, rules |-> rules]
    OBVIOUS
  <2>2. page' = done /\ \E r \in Requests : request' = [request EXCEPT ![r] = new]
    BY <1>6, <2>1 DEF ProcessAlerts
  <2>3. alerts = NoAlerts \/ alerts.group = page.filters.groupId
    BY <1>3, <1>6
  <2> HIDE DEF alerts, done
  <2>4. /\ new.kind = "alerts" /\ new # Idle /\ new.alerts = alerts
        /\ new.filteredEmpty = (page.filtered = {}) /\ new.rules = rules
    BY <2>1, IdleKind
  <2>5. PICK r \in Requests :
          request'[r] = new /\ \A q \in Requests \ {r} : request'[q] = Idle
    BY <1>3, <2>2 DEF CInv, PInv, TypeOK
  <2>6. StillMeant(request[r])'
    BY <1>2, <1>4, <2>2, <2>3, <2>4, <2>5 DEF StillMeant, Belongs, Calm
  <2>7. OneAtATime' /\ ~Settled'
    BY <1>4, <2>2, <2>4, <2>5 DEF OneAtATime, Settled
  <2>8. page'.filtered = filterIncident(page'.filters, page'.incidents)
    BY <1>2, <1>4, <2>2 DEF Calm
  <2>9. \A q \in Requests : /\ request'[q].kind # "incidents"
                            /\ request'[q].kind = "alerts" => StillMeant(request[q])'
    BY <2>4, <2>5, <2>6, IdleKind
  <2> QED
    BY <1>2, <1>4, <2>2, <2>7, <2>8, <2>9 DEF Calm, Rests
<1> QED
  BY <1>5, <1>6

(* Alerts stored: the page still shows the incident they were asked for.   *)
LEMMA AlertsAnsweredCalm ==
  ASSUME CInv, NEW r \in Requests, AlertsAnswered(r)
  PROVE  CInv'
<1>1. PInv'
  BY AlertsAnsweredStep DEF CInv
<1> SUFFICES ASSUME ~hurried' PROVE Calm'
  BY <1>1 DEF CInv
<1> DEFINE q == request[r]
<1>2. Calm /\ q.kind = "alerts" /\ q # Idle /\ UNCHANGED rules
  BY IdleKind DEF AlertsAnswered, CInv
<1>3. StillMeant(q)
  BY <1>2 DEF Calm
<1>4. q.alerts \in AlertLists /\ q.filteredEmpty \in BOOLEAN /\ q.rules \in BOOLEAN
  BY <1>2, RequestContents DEF CInv, PInv
<1>5. page' = StoreAlerts(page, q.alerts, q.filteredEmpty, q.rules) /\ page \in Pages
  BY PageType DEF AlertsAnswered, CInv, PInv
<1>6. request' = [request EXCEPT ![r] = Idle]
  BY DEF AlertsAnswered
<1>7. /\ ~page.processingDue
      /\ \A s \in Requests : request'[s] = Idle /\ request'[s].kind = "idle"
  BY <1>2, <1>6, LastRequest DEF Calm, CInv, PInv
<1> HIDE DEF q
<1>8. /\ page'.filters = page.filters /\ page'.incidents = page.incidents
      /\ page'.filtered = page.filtered /\ page'.processingDue = page.processingDue
      /\ page'.alertsTableData = IF q.rules THEN q.alerts ELSE page.alertsTableData
      /\ selectedIncidentIsVisible(page) /\ ~q.filteredEmpty => ~page'.alertsAreLoading
  BY <1>4, <1>5, StoredData
<1>9. selectedIncidentIsVisible(page)' => ~page'.alertsAreLoading
  BY <1>3, <1>8 DEF selectedIncidentIsVisible, StillMeant
<1>10. Belongs(page.alertsTableData, page)'
  BY <1>3, <1>8 DEF StillMeant, Belongs
<1>11. page'.alertsTableData # NoAlerts => rules'
  BY <1>2, <1>3, <1>8 DEF StillMeant, Calm
<1>12. OneAtATime' /\ Rests'
  BY <1>7, <1>9, <1>10 DEF OneAtATime, Rests
<1>13. page'.filtered = filterIncident(page'.filters, page'.incidents)
  BY <1>2, <1>8 DEF Calm
<1> QED
  BY <1>7, <1>8, <1>11, <1>12, <1>13 DEF Calm

(* A failure changes no data; the page that shows it is not at rest.       *)
LEMMA RequestFailsCalm ==
  ASSUME CInv, NEW r \in Requests, RequestFails(r)
  PROVE  CInv'
<1>1. PInv'
  BY RequestFailsStep DEF CInv
<1> SUFFICES ASSUME ~hurried' PROVE Calm'
  BY <1>1 DEF CInv
<1> DEFINE loading == page.incidentsAreLoading /\ request[r].kind # "incidents"
           failed == [page EXCEPT !.alertsAreLoading = FALSE,
                                  !.incidentsAreLoading = loading,
                                  !.loadError = TRUE]
<1>2. Calm /\ request[r] # Idle /\ UNCHANGED rules
  BY DEF RequestFails, CInv
<1>3. page' = Rendered(failed)
  BY DEF RequestFails
<1>4. loading \in BOOLEAN
  BY DEF CInv, PInv, TypeOK
<1>5. /\ failed \in Pages /\ failed.loadError
      /\ failed.filters = page.filters /\ failed.incidents = page.incidents
      /\ failed.filtered = page.filtered /\ failed.processingDue = page.processingDue
      /\ failed.alertsTableData = page.alertsTableData
  <2> HIDE DEF loading
  <2> QED
    BY <1>4 DEF CInv, PInv, TypeOK, Pages
<1> HIDE DEF failed
<1>6. /\ page'.loadError
      /\ page'.filters = page.filters /\ page'.incidents = page.incidents
      /\ page'.filtered = page.filtered /\ page'.processingDue = page.processingDue
      /\ page'.alertsTableData = page.alertsTableData
  BY <1>3, <1>5, RenderedKeepsData DEF SameData
<1>7. request' = [request EXCEPT ![r] = Idle]
  BY DEF RequestFails
<1>8. /\ ~page.processingDue
      /\ \A q \in Requests : request'[q] = Idle /\ request'[q].kind = "idle"
  BY <1>2, <1>7, LastRequest DEF Calm, CInv, PInv
<1>9. OneAtATime' /\ Rests'
  BY <1>6, <1>8 DEF OneAtATime, Rests
<1> QED
  BY <1>2, <1>6, <1>8, <1>9 DEF Calm

(* The first request asks for what the page shows.                         *)
LEMMA InitCalm ==
  ASSUME Init
  PROVE  CInv
<1>1. PInv
  BY InitStep
<1>2. PICK filters \in Filters, r \in Requests :
        /\ page = [ filters |-> filters,
                    incidents |-> {}, filtered |-> {},
                    alertsData |-> NoAlerts, alertsTableData |-> NoAlerts,
                    alertsAreLoading |-> TRUE, incidentsAreLoading |-> TRUE,
                    loadError |-> FALSE, hideCharts |-> FALSE, alertsChart |-> "unmounted",
                    incidentForAlertProcessing |-> NoGroup, processingDue |-> FALSE ]
        /\ request = [[q \in Requests |-> Idle] EXCEPT
                        ![r] = [kind |-> "incidents", filters |-> filters]]
  BY DEF Init
<1> DEFINE new == [kind |-> "incidents", filters |-> filters]
<1>3. new.kind = "incidents" /\ new.filters = filters /\ new # Idle
  BY IdleKind
<1> HIDE DEF new
<1>4. request[r] = new /\ \A q \in Requests \ {r} : request[q] = Idle
  BY <1>2 DEF new
<1>5. /\ page.filters = filters /\ page.incidents = {} /\ page.filtered = {}
      /\ page.alertsTableData = NoAlerts /\ ~page.processingDue
  BY <1>2
<1>6. page.filtered = filterIncident(page.filters, page.incidents)
  BY <1>5 DEF filterIncident
<1>7. OneAtATime /\ ~Settled
  BY <1>3, <1>4, <1>5 DEF OneAtATime, Settled
<1>8. \A q \in Requests : request[q].kind # "alerts"
                          /\ (request[q].kind = "incidents" => request[q].filters = page.filters)
  BY <1>3, <1>4, <1>5, IdleKind
<1> QED
  BY <1>1, <1>5, <1>6, <1>7, <1>8 DEF CInv, Calm, Rests

(* For a user who waits before every click, the invariant of requests that *)
(* still mean what the page shows is inductive.                            *)
THEOREM CalmInvariant == Spec => []CInv
<1>1. Init => CInv
  BY InitCalm
<1>2. CInv /\ [Next]_vars => CInv'
  <2> SUFFICES ASSUME CInv, [Next]_vars PROVE CInv'
    OBVIOUS
  <2>1. CASE UNCHANGED vars
    <3>1. PInv' /\ (Calm <=> Calm') /\ hurried' = hurried
      BY <2>1 DEF vars, CInv, PInv, TypeOK, SpinnerHasRequest, Calm, StillMeant, Belongs,
                  OneAtATime, Rests, Settled, selectedIncidentIsVisible
    <3> QED
      BY <3>1 DEF CInv
  <2>2. CASE User
    BY <2>2, SelectIncidentCalm, changeDaysFilterCalm, ToggleFiringCalm,
       ClearAllFiltersCalm, ToggleChartsCalm DEF User
  <2>3. CASE \E r \in Requests : Callback(r)
    BY <2>3, IncidentsAnsweredCalm, AlertsAnsweredCalm, RequestFailsCalm DEF Callback
  <2> QED
    BY <2>1, <2>2, <2>3, RulesLoadedCalm, ProcessAlertsCalm DEF Next
<1> QED
  BY <1>1, <1>2, PTL DEF Spec

(* The table never keeps the alerts of an incident that is no longer       *)
(* selected, whatever has failed (IncidentsTable, tests' plan).            *)
THEOREM TableFollowsSelection == Spec => []AlertsOfSelectedIncident
<1>1. CInv => AlertsOfSelectedIncident
  BY DEF CInv, Calm, Rests, Belongs, AlertsOfSelectedIncident, OnlySelectedIncidentsAlerts,
         TableShown, ShowsPage
<1> QED
  BY <1>1, CalmInvariant, PTL

(* The charts and the table never keep incidents the filters leave out.    *)
THEOREM FilteredFollowsFilters == Spec => []FilteredMatchesFilters
<1>1. CInv => FilteredMatchesFilters
  BY DEF CInv, Calm, FilteredMatchesFilters
<1> QED
  BY <1>1, CalmInvariant, PTL

(* The incident that stays selected and matches the filters never waits    *)
(* for alerts that have come.                                              *)
THEOREM VisibleIncidentStopsLoading == Spec => []VisibleIncidentShowsAlerts
<1>1. CInv => VisibleIncidentShowsAlerts
  BY DEF CInv, Calm, Rests, VisibleIncidentShowsAlerts, ShowsPage
<1> QED
  BY <1>1, CalmInvariant, PTL
=============================================================================
