-------------------------- MODULE IncidentAlgorithms --------------------------
(***************************************************************************)
(* What the incidents page computes from its answers (utils.ts,            *)
(* process-incidents.ts, process-alerts.ts and api.ts under                *)
(* features/incidents/utils): one incident per group out of the series of  *)
(* several daily answers, the alerts of the selected incident, the bars of *)
(* both charts, the rows of the table, the queries and the URL.            *)
(*                                                                         *)
(* The state is what Prometheus recorded: time passes in query steps, at   *)
(* each of which alerts fire and the cluster health analyzer maps them to  *)
(* incidents or misses them.  The page is a function of that state.  Times *)
(* are in seconds, and samples lie on multiples of the query step: the     *)
(* page asks for that step from a rounded time on.                         *)
(***************************************************************************)
EXTENDS Integers, FiniteSets, FiniteSetsExt, Sequences, SequencesExt

CONSTANTS
  Interval,       \* PROMETHEUS_QUERY_INTERVAL_SECONDS
  OneDay,         \* seconds of one range of getIncidentsTimeRanges
  Days,           \* the days filter
  Alerts,         \* sequence of [src, label, group, component, severity,
                  \* length]: the alerts, in the order of their series; src
                  \* is the name, namespace and severity of an alert, label
                  \* the component the alert itself names, component the
                  \* analyzer's, length that of the query for it
  Watchdog,       \* the alert that always fires
  MaxQueryLength, \* MAX_URL_LENGTH
  Filters,        \* values of the page's filters
  MaxSteps,       \* bound: query steps that pass
  MaxSampled      \* bound: steps in which alerts fire

ASSUME IntervalAssumption == Interval \in Nat /\ Interval % 2 = 0 /\ Interval > 2
ASSUME RangeAssumption == Days \in Nat \ {0} /\ OneDay \in Nat \ {0} /\ OneDay % Interval = 0
ASSUME AlertsAssumption ==
  /\ Alerts \in Seq({Alerts[a] : a \in DOMAIN Alerts})
  /\ \A a \in DOMAIN Alerts : Alerts[a].severity \in 0 .. 2 /\ Alerts[a].length \in Nat
(* The alerts of one source, which are mapped as one, name one component.  *)
ASSUME LabelsAssumption ==
  \A a, b \in DOMAIN Alerts : Alerts[a].src = Alerts[b].src => Alerts[a].label = Alerts[b].label
(* No name of a severity or a state, number of days or group id has a      *)
(* comma, and the days are always there.                                   *)
ASSUME FiltersAssumption ==
  \A f \in Filters :
    /\ DOMAIN f = {"days", "severity", "state", "groupId"}
    /\ \A k \in DOMAIN f :
         /\ f[k] \in Seq({f[k][n] : n \in DOMAIN f[k]})
         /\ \A n \in DOMAIN f[k] : f[k][n] = << f[k][n][1] >>
    /\ f.days # <<>>
(* The Watchdog is an incident of its own: convertToIncidents leaves an    *)
(* incident out by the name of one of its alerts.                          *)
ASSUME WatchdogAssumption ==
  \A a, b \in DOMAIN Alerts :
    Alerts[a].group = Alerts[b].group /\ Alerts[a].src = Watchdog => Alerts[b].src = Watchdog
ASSUME BoundsAssumption == MaxQueryLength \in Nat /\ MaxSteps \in Nat /\ MaxSampled \in Nat

VARIABLES
  now,            \* getCurrentTime
  firing,         \* ALERTS: <<alert, time>> samples, by alertstate
  mapped          \* cluster_health_components_map: <<alert, time>> samples,
                  \* by the label silenced

vars == <<now, firing, mapped>>

AlertStates == {"firing", "pending"}

----------------------------------------------------------------------------
(* Time                                                                    *)

(* Times are seconds, where the code has milliseconds.                     *)
isResolved(lastTimestamp, currentTime) == currentTime - lastTimestamp >= 2 * Interval

(* The ends of the ranges, each one day long.                              *)
getIncidentsTimeRanges(timespan, currentTime) ==
  LET start == currentTime - timespan
      count == IF timespan <= OneDay THEN 1 ELSE (timespan + OneDay - 1) \div OneDay
  IN  [k \in 1 .. count |-> start + k * OneDay]

(* The midnights before currentTime, the first Days - 1 days ago.          *)
generateDateArray(days, currentTime) ==
  LET midnight == (currentTime \div OneDay) * OneDay
  IN  [k \in 1 .. days |-> midnight - (days - k) * OneDay]

----------------------------------------------------------------------------
(* Values: sets of <<timestamp, severity>>.                                *)

Timestamps(values) == {v[1] : v \in values}
Latest(values) == Max(Timestamps(values))
Before(v, values) == {w \in values : w[1] < v[1]}
After(v, values) == {w \in values : w[1] > v[1]}

(* deduplicateByTimestampWithHighestSeverity, filterAndSortValues and      *)
(* getIncidentMaximumSeveritiesOverTime: the highest severity of each time *)
HighestSeverityAtEachTimestamp(values) ==
  {v \in values : \A w \in values : w[1] = v[1] => w[2] <= v[2]}

(* Mutant: nothing is inserted after the last value.                       *)
PaddingBefore(values, currentTime) ==
  values
  \cup {<<v[1] - Interval, v[2]>> :
          v \in {v \in values : \A w \in Before(v, values) : v[1] - w[1] > Interval + 1}}

(* One value before the first of each continuous sequence, one after its   *)
(* last, unless that would be in the future.                               *)
insertPaddingPointsForChart(values, currentTime) ==
  LET threshold == Interval + 1
      Leads(v) == \A w \in Before(v, values) : v[1] - w[1] > threshold
      Trails(v) == /\ \A w \in After(v, values) : w[1] - v[1] > threshold
                   /\ After(v, values) = {} => currentTime >= v[1] + Interval
  IN  values \cup {<<v[1] - Interval, v[2]>> : v \in {v \in values : Leads(v)}}
             \cup {<<v[1] + Interval, v[2]>> : v \in {v \in values : Trails(v)}}

----------------------------------------------------------------------------
(* Answers                                                                 *)

(* What a sequence has at some places, in its order.                       *)
Keep(places, sequence) ==
  LET kept[n \in 0 .. Len(sequence)] ==
        IF n = 0 THEN <<>>
        ELSE IF n \in places THEN Append(kept[n - 1], sequence[n])
        ELSE kept[n - 1]
  IN  kept[Len(sequence)]

(* The series of a metric with a sample in the range that ends at end.     *)
SeriesIn(end, series) ==
  LET inRange == [n \in DOMAIN series |->
        [series[n] EXCEPT !.values = {v \in @ : end - OneDay <= v[1] /\ v[1] <= end}]]
  IN  Keep({n \in DOMAIN series : inRange[n].values # {}}, inRange)

(* results.flat(): one answer for each range.                              *)
Results(series) ==
  LET ends == getIncidentsTimeRanges(Days * OneDay, now)
  IN  FlattenSeq([k \in DOMAIN ends |-> SeriesIn(ends[k], series)])

(* Two series of each alert: silenced is one of the labels of the map.     *)
IncidentSeries ==
  FlattenSeq([a \in DOMAIN Alerts |->
    [k \in 1 .. 2 |->
      [ group_id |-> Alerts[a].group, component |-> Alerts[a].component,
        src |-> Alerts[a].src, silenced |-> k = 2,
        values |-> {<<s[2], Alerts[a].severity>> :
                      s \in {s \in mapped[k = 2] : s[1] = a}} ]]])

AlertSeries ==
  FlattenSeq([a \in DOMAIN Alerts |->
    [k \in 1 .. 2 |->
      LET state == IF k = 1 THEN "firing" ELSE "pending"
      IN  [ src |-> Alerts[a].src, label |-> Alerts[a].label, alertstate |-> state,
            severity |-> Alerts[a].severity,
            values |-> {<<s[2], 1>> : s \in {s \in firing[state] : s[1] = a}} ]]])

----------------------------------------------------------------------------
(* process-incidents.ts                                                    *)

NewIncident(result) ==
  [ group_id |-> result.group_id, src |-> result.src,
    componentList |-> {result.component}, silenced |-> result.silenced,
    values |-> HighestSeverityAtEachTimestamp(result.values) ]

(* Mutant: the values of an incident are those of its latest result.       *)
MergeReplacing(incident, result) ==
  [incident EXCEPT !.values = HighestSeverityAtEachTimestamp(result.values),
                   !.componentList = @ \cup {result.component}]

MergeIncident(incident, result) ==
  LET values == HighestSeverityAtEachTimestamp(incident.values \cup result.values)
  IN  [incident EXCEPT
         !.values = values,
         !.componentList = @ \cup {result.component},
         !.silenced = IF Latest(result.values) >= Latest(values)
                      THEN result.silenced ELSE @]

(* One more result, merged into the incident of its group or a new one,    *)
(* which keeps its other labels.                                           *)
AddResult(incidents, result) ==
  IF \E i \in incidents : i.group_id = result.group_id
  THEN {IF i.group_id = result.group_id THEN MergeIncident(i, result) ELSE i : i \in incidents}
  ELSE incidents \cup {NewIncident(result)}

getIncidents(results) ==
  LET incidents[n \in 0 .. Len(results)] ==
        IF n = 0 THEN {} ELSE AddResult(incidents[n - 1], results[n])
  IN  incidents[Len(results)]

convertToIncidents(results, currentTime) ==
  {[ group_id |-> i.group_id, componentList |-> i.componentList,
     resolved |-> isResolved(Latest(i.values), currentTime),
     firing |-> ~isResolved(Latest(i.values), currentTime),
     values |-> insertPaddingPointsForChart(i.values, currentTime) ]
     : i \in {i \in getIncidents(results) : i.src # Watchdog}}

----------------------------------------------------------------------------
(* process-alerts.ts                                                       *)

(* One more result of an alert.                                            *)
MergeByKey(incident, result) ==
  [incident EXCEPT
     !.values = @ \cup result.values,
     !.silenced = IF Latest(result.values) > Latest(incident.values)
                  THEN result.silenced ELSE @]

AddByKey(incidents, result) ==
  IF \E i \in incidents : i.src = result.src
  THEN {IF i.src = result.src THEN MergeByKey(i, result) ELSE i : i \in incidents}
  ELSE incidents \cup {result}

(* The results of the selected group, merged by alert: labels such as      *)
(* silenced, which are not part of the key, split it into several.         *)
mergeIncidentsByKey(results) ==
  LET incidents[n \in 0 .. Len(results)] ==
        IF n = 0 THEN {} ELSE AddByKey(incidents[n - 1], results[n])
  IN  incidents[Len(results)]

(* The firing series of an alert, joined over the ranges.                  *)
deduplicateAlerts(results) ==
  LET isFiring == {results[i] : i \in {i \in DOMAIN results : results[i].alertstate = "firing"}}
      key(r) == <<r.src, r.label>>
  IN  {[ src |-> k[1], severity |-> (CHOOSE r \in isFiring : key(r) = k).severity,
         values |-> UNION {r.values : r \in {r \in isFiring : key(r) = k}} ]
         : k \in {key(r) : r \in isFiring}}

(* Mutant: an alert keeps its values after the incident.                   *)
WithinIncidentOrLater(values, incidents) ==
  {v \in values : v[1] >= Min(Timestamps(UNION {i.values : i \in incidents})) - Interval \div 2}

(* The values within the time of the selected incidents, half a step more. *)
WithinIncidents(values, incidents) ==
  LET times == Timestamps(UNION {i.values : i \in incidents})
  IN  {v \in values : /\ v[1] >= Min(times) - Interval \div 2
                      /\ v[1] <= Max(times) + Interval \div 2}

convertToAlerts(results, selected, currentTime) ==
  LET incidents == mergeIncidentsByKey(selected)
      alerts == {[a EXCEPT !.values = WithinIncidents(@, incidents)]
                   : a \in {a \in deduplicateAlerts(results) : a.src # Watchdog}}
      shown == {a \in alerts : a.values # {} /\ \E i \in incidents : i.src = a.src}
      Incident(a) == CHOOSE i \in incidents : i.src = a.src
  IN  {[ src |-> a.src, severity |-> a.severity,
         component |-> Incident(a).component,
         silenced |-> Incident(a).silenced,
         resolved |-> isResolved(Latest(a.values), currentTime),
         values |-> insertPaddingPointsForChart(a.values, currentTime) ] : a \in shown}

(* One row for each component.                                             *)
groupAlertsForTable(alerts) ==
  LET Own(c) == {a \in alerts : a.component = c}
      Count(c, severity) == Cardinality({a \in Own(c) : a.severity = severity})
  IN  {[ component |-> c,
         counts |-> [s \in 0 .. 2 |-> Count(c, s)],
         alertstate |-> IF \A a \in Own(c) : a.silenced THEN "silenced"
                        ELSE IF \E a \in Own(c) : ~a.resolved THEN "firing"
                        ELSE "resolved" ] : c \in {a.component : a \in alerts}}

----------------------------------------------------------------------------
(* The charts                                                              *)

HasGap(v, w) == w[1] - v[1] > Interval

(* Consecutive values.                                                     *)
Steps(values) ==
  {p \in values \X values :
     p[1][1] < p[2][1] /\ ~\E u \in values : p[1][1] < u[1] /\ u[1] < p[2][1]}

NoData(from, to) == [from |-> from, to |-> to, data |-> FALSE, severity |-> 0, firing |-> FALSE]

(* Mutant: the bar of a severity ends where the next one starts.           *)
BarsThatOverlap(incident, dateArray) ==
  LET values == HighestSeverityAtEachTimestamp(incident.values)
      runs == {v \in values : \A p \in Steps(values) : p[2] = v => p[1][2] # v[2]}
      EndOf(v) == IF After(v, runs) = {} THEN Latest(values)
                  ELSE Min(Timestamps(After(v, runs)))
  IN  {[from |-> v[1], to |-> EndOf(v), data |-> TRUE, severity |-> v[2],
        firing |-> FALSE] : v \in runs}

(* createIncidentsChartBars, generateIntervalsWithGaps: a bar for each run *)
(* of one severity, one without data for each gap and up to both bounds of *)
(* the dates.  A gap does not end the bar of the run it lies in, and only  *)
(* the very last bar, if it has data or not, is marked as firing.          *)
createIncidentsChartBars(incident, dateArray) ==
  LET values == HighestSeverityAtEachTimestamp(incident.values)
      start == dateArray[1]
      end == dateArray[Len(dateArray)]
      runs == {v \in values : \A p \in Steps(values) : p[2] = v => p[1][2] # v[2]}
      EndOf(v) == IF After(v, runs) = {} THEN Latest(values)
                  ELSE Min(Timestamps(After(v, runs))) - 1
      gaps == {p \in Steps(values) : HasGap(p[1], p[2])}
      first == Min(Timestamps(values))
  IN  {[ from |-> v[1], to |-> EndOf(v), data |-> TRUE, severity |-> v[2],
         firing |-> incident.firing /\ After(v, runs) = {} /\ Latest(values) >= end ]
         : v \in runs}
      \cup {NoData(p[1][1] + 1, p[2][1] - 1) : p \in gaps}
      \cup (IF first > start THEN {NoData(start, first - 1)} ELSE {})
      \cup (IF Latest(values) < end
            THEN {[NoData(Latest(values) + 1, end) EXCEPT !.firing = incident.firing]}
            ELSE {})

(* Mutant: a gap does not end a bar.                                       *)
AlertBarsAcrossGaps(alert) ==
  {[from |-> Min(Timestamps(alert.values)), to |-> Latest(alert.values),
    data |-> TRUE, firing |-> ~alert.resolved]}

(* createAlertsChartBars, consolidateAndMergeAlertIntervals                *)
createAlertsChartBars(alert) ==
  LET values == alert.values
      gaps == {p \in Steps(values) : HasGap(p[1], p[2])}
      starts == {v \in values : Before(v, values) = {} \/ \E p \in gaps : p[2][1] = v[1]}
      EndOf(v) == LET later == {p \in gaps : p[1][1] >= v[1]}
                  IN  IF later = {} THEN Latest(values) ELSE Min({p[1][1] : p \in later})
  IN  {[ from |-> v[1], to |-> EndOf(v), data |-> TRUE,
         firing |-> ~alert.resolved /\ EndOf(v) = Latest(values) ] : v \in starts}
      \cup {[ from |-> p[1][1] + 1, to |-> p[2][1] - 1, data |-> FALSE, firing |-> FALSE ]
              : p \in gaps}

(* From the first to the last value of the alerts, and 5% of that before   *)
(* and after, at least an hour and at most a day.                          *)
generateAlertsDateArray(alerts, currentTime) ==
  LET times == Timestamps(UNION {a.values : a \in alerts})
      span == Max(times) - Min(times)
      padding == Max({3600, Min({OneDay, span \div 20})})
  IN  IF alerts = {} THEN generateDateArray(1, currentTime)
      ELSE <<Min(times) - padding, Max(times) + padding>>

----------------------------------------------------------------------------
(* The queries for the alerts of an incident (api.ts)                      *)

(* The alerts that queries ask for.                                        *)
Asked(queries) == UNION {{queries[q].srcs[k] : k \in DOMAIN queries[q].srcs} : q \in DOMAIN queries}

(* Mutant: the separators are not counted.                                 *)
AddWithoutSeparator(queries, a) ==
  LET last == queries[Len(queries)]
      length == last.length + a.length
  IN  IF a.src \in Asked(queries) THEN queries
      ELSE IF length <= MaxQueryLength
      THEN [queries EXCEPT ![Len(queries)] = [srcs |-> Append(last.srcs, a.src), length |-> length]]
      ELSE Append(queries, [srcs |-> <<a.src>>, length |-> a.length])

(* One more alert, in the query being built or in a new one.               *)
AddToQuery(queries, a) ==
  LET last == queries[Len(queries)]
      length == last.length + a.length + 4
  IN  IF a.src \in Asked(queries) THEN queries
      ELSE IF length <= MaxQueryLength
      THEN [queries EXCEPT ![Len(queries)] = [srcs |-> Append(last.srcs, a.src), length |-> length]]
      ELSE Append(queries, [srcs |-> <<a.src>>, length |-> a.length])

(* The first query stays empty when its alert does not fit; an empty query *)
(* is not sent.                                                            *)
createAlertsQuery(list) ==
  LET queries[n \in 0 .. Len(list)] ==
        IF n = 0 THEN <<[srcs |-> <<>>, length |-> 0]>>
        ELSE AddToQuery(queries[n - 1], list[n])
  IN  queries[Len(list)]

----------------------------------------------------------------------------
(* Filters and the URL: a filter is a sequence of selected texts, and a     *)
(* text is the sequence of what stands between its commas.                 *)

join(texts) ==
  LET joined[n \in 0 .. Len(texts)] == IF n = 0 THEN <<>> ELSE joined[n - 1] \o texts[n]
  IN  IF texts = <<>> THEN <<"">> ELSE joined[Len(texts)]

split(text) == [n \in DOMAIN text |-> <<text[n]>>]

getSeverityName(severity) ==
  << IF severity = 2 THEN "Critical" ELSE IF severity = 1 THEN "Warning" ELSE "Informative" >>

getIncidentMaximumSeveritiesOverTime(incident) ==
  {getSeverityName(v[2]) : v \in HighestSeverityAtEachTimestamp(incident.values)}

filterIncident(filters, incidents) ==
  {i \in incidents :
     /\ filters.severity = <<>>
        \/ Range(filters.severity) \cap getIncidentMaximumSeveritiesOverTime(i) # {}
     /\ filters.state = <<>>
        \/ <<IF i.firing THEN "Firing" ELSE "Resolved">> \in Range(filters.state)
     /\ filters.groupId = <<>> \/ <<i.group_id>> \in Range(filters.groupId)}

(* The empty text selects no incident, as undefined does.                  *)
selectedGroupId(filters) ==
  IF filters.groupId = <<>> THEN <<"">> ELSE filters.groupId[1]

(* Mutant: filters without a value are written, too.                       *)
UrlWithEmptyFilters(filters, incidentGroupId) ==
  LET processed == [k \in DOMAIN filters |-> join(filters[k])]
  IN  IF incidentGroupId = <<"">> THEN processed
      ELSE [k \in DOMAIN processed \cup {"groupId"} |->
              IF k = "groupId" THEN incidentGroupId ELSE processed[k]]

(* The parameters of the URL: filters without a value are left out, and of *)
(* several incidents only the one that is shown is kept.                   *)
makeIncidentUrlParams(filters, incidentGroupId) ==
  LET processed == [k \in {k \in DOMAIN filters : filters[k] # <<>>} |-> join(filters[k])]
  IN  IF incidentGroupId = <<"">> THEN processed
      ELSE [k \in DOMAIN processed \cup {"groupId"} |->
              IF k = "groupId" THEN incidentGroupId ELSE processed[k]]

parseUrlParams(url) == [k \in DOMAIN url |-> split(url[k])]

(* The filters the page starts with.                                       *)
FiltersOfUrl(url) ==
  LET params == parseUrlParams(url)
      Of(k, default) == IF k \in DOMAIN params THEN params[k] ELSE default
  IN  [ days |-> Of("days", << <<"7 days">> >>), severity |-> Of("severity", <<>>),
        state |-> Of("state", <<>>), groupId |-> Of("groupId", <<>>) ]

(* The incidents the page asks for and shows: of a selected one only that. *)
ShownFor(filters, incidents) ==
  LET group == selectedGroupId(filters)
  IN  filterIncident(filters, IF group = <<"">> THEN incidents
                              ELSE {i \in incidents : <<i.group_id>> = group})

UrlOf(filters) == makeIncidentUrlParams(filters, selectedGroupId(filters))

----------------------------------------------------------------------------
Init ==
  /\ now = 0
  /\ firing = [s \in AlertStates |-> {}]
  /\ mapped = [s \in BOOLEAN |-> {}]

IsWatchdog(a) == Alerts[a].src = Watchdog
Real == {a \in DOMAIN Alerts : ~IsWatchdog(a)}

SampledAt(t) == \E s \in firing["firing"] \cup firing["pending"] : s[2] = t /\ s[1] \in Real
Sampled == {k \in 1 .. MaxSteps : SampledAt(k * Interval)}

(* A query step: some alerts are pending, or fire while the analyzer is    *)
(* not running, or fire and are mapped, as silenced or not.                *)
Step ==
  /\ now < MaxSteps * Interval
  /\ now' = now + Interval
  /\ \E alerts \in SUBSET Real, how \in {"pending", "missed", "mapped", "silenced"} :
       LET watchdogs == DOMAIN Alerts \ Real
           At(set) == {<<a, now'>> : a \in set}
           fires == watchdogs \cup (IF how = "pending" THEN {} ELSE alerts)
           maps == IF how \in {"mapped", "silenced"} THEN alerts \cup watchdogs ELSE {}
       IN  /\ IF alerts = {} THEN how = "missed" ELSE Cardinality(Sampled) < MaxSampled
           /\ firing' = [firing EXCEPT !["firing"] = @ \cup At(fires),
                                       !["pending"] = @ \cup At(alerts \ fires)]
           /\ mapped' = [mapped EXCEPT ![how = "silenced"] = @ \cup At(maps)]

Next == Step

Spec == Init /\ [][Next]_vars

----------------------------------------------------------------------------
(* Properties                                                              *)

SelectedResults(g) ==
  LET results == Results(IncidentSeries)
  IN  Keep({i \in DOMAIN results : results[i].group_id = g}, results)

AlertOf(src) == CHOOSE a \in {Alerts[k] : k \in DOMAIN Alerts} : a.src = src

Queries(g) ==
  LET results == SelectedResults(g)
  IN  createAlertsQuery([i \in DOMAIN results |-> AlertOf(results[i].src)])

(* The series that the queries for the incident match.                     *)
AlertResults(g) ==
  LET asked == Asked(Queries(g))
      series == AlertSeries
  IN  Results(Keep({i \in DOMAIN series : series[i].src \in asked}, series))

IncidentsShown == convertToIncidents(Results(IncidentSeries), now)
AlertsShown(g) == convertToAlerts(AlertResults(g), SelectedResults(g), now)

Groups == {Alerts[a].group : a \in Real}
Grid == {k * Interval : k \in -1 .. MaxSteps + 1}
Within(t) == now - Days * OneDay <= t /\ t <= now
MappedIn(g) == {s \in mapped[TRUE] \cup mapped[FALSE] : Alerts[s[1]].group = g /\ Within(s[2])}
Highest(g, t) == Max({Alerts[s[1]].severity : s \in {s \in MappedIn(g) : s[2] = t}})

In(t, bar) == bar.from <= t /\ t <= bar.to
Overlap(b, c) == b.from <= c.to /\ c.from <= b.to

(* However the samples are split over series and days, an incident has the *)
(* highest severity of each time and the components of all its series      *)
(* (getIncidents, getIncidentsTimeRanges).                                 *)
IncidentsShowTheirHistory ==
  \A g \in Groups :
    {[values |-> i.values, componentList |-> i.componentList] :
       i \in {i \in getIncidents(Results(IncidentSeries)) : i.group_id = g}}
    = IF MappedIn(g) = {} THEN {}
      ELSE {[ values |-> {<<s[2], Highest(g, s[2])>> : s \in MappedIn(g)},
              componentList |-> {Alerts[s[1]].component : s \in MappedIn(g)} ]}

(* An incident fires exactly if one of the alerts listed for it does, and  *)
(* the rows of its table count every alert once (convertToIncidents,       *)
(* convertToAlerts, groupAlertsForTable).                                  *)
IncidentFiresWithItsAlerts ==
  \A i \in IncidentsShown :
    LET alerts == AlertsShown(i.group_id)
        rows == groupAlertsForTable(alerts)
    IN  /\ i.firing <=> \E a \in alerts : ~a.resolved
        /\ ~i.firing => \A r \in rows : r.alertstate # "firing"
        /\ MapThenSumSet(LAMBDA r : r.counts[0] + r.counts[1] + r.counts[2], rows)
             = Cardinality(alerts)

(* The bars of an alert cover, of the query steps, those within one step   *)
(* of a time it fired at during the incident, and no other; they are       *)
(* disjoint and lie within the dates of the chart; and the one marked as   *)
(* firing is the last (createAlertsChartBars, generateAlertsDateArray).    *)
AlertBarsMatchSamples ==
  \A g \in Groups : MappedIn(g) # {} =>
    LET alerts == AlertsShown(g)
        dates == generateAlertsDateArray(alerts, now)
        during == {t \in Grid : /\ \E s \in MappedIn(g) : s[2] <= t
                                /\ \E s \in MappedIn(g) : s[2] >= t}
    IN  \A a \in alerts :
          LET bars == createAlertsChartBars(a)
              data == {b \in bars : b.data}
              fired == {t \in during : \E s \in firing["firing"] : s[2] = t /\ Alerts[s[1]].src = a.src}
          IN  /\ \A t \in Grid : (\E b \in data : In(t, b))
                                   <=> t <= now /\ \E u \in fired : t \in u - Interval .. u + Interval
              /\ \A b, c \in bars : b # c => ~Overlap(b, c)
              /\ \A b \in data : dates[1] <= b.from /\ b.to <= dates[2]
              /\ \A b \in bars : b.firing <=> ~a.resolved /\ \A c \in bars : c.from <= b.from

VisibleBars(i) ==
  {b \in createIncidentsChartBars(i, generateDateArray(Days, now)) : b.data}

OnlySeverity(severity) ==
  [severity |-> <<getSeverityName(severity)>>, state |-> <<>>, groupId |-> <<>>]

(* The bars of an incident do not overlap, and at every time it was        *)
(* recorded the bar has the severity it had; the severity filter finds the *)
(* incident exactly by the severities of its bars (filterIncident).        *)
BarsShowSeverity ==
  \A i \in IncidentsShown :
    LET bars == VisibleBars(i)
    IN  /\ \A s \in MappedIn(i.group_id) :
             \E b \in bars : In(s[2], b) /\ b.severity = Highest(i.group_id, s[2])
        /\ \A b, c \in bars : b # c => ~Overlap(b, c)
        /\ \A severity \in 0 .. 2 :
             (\E b \in bars : b.severity = severity)
               <=> i \in filterIncident(OnlySeverity(severity), {i})

(* A link with several incidents shows the first and is cut to it.  The    *)
(* page opened by the URL it wrote asks for the same days, shows the same  *)
(* incidents and writes the same URL again (updateBrowserUrl,              *)
(* parseUrlParams).                                                        *)
ReloadShowsSameIncidents ==
  LET incidents == IncidentsShown
  IN  \A f \in Filters :
        LET reloaded == FiltersOfUrl(UrlOf(f))
        IN  /\ reloaded.days = f.days
            /\ ShownFor(reloaded, incidents) = ShownFor(f, incidents)
            /\ UrlOf(reloaded) = UrlOf(f)

(* The length of the alerts of one query, without what joins them.         *)
LengthOf(srcs) ==
  LET sum[n \in 0 .. Len(srcs)] == IF n = 0 THEN 0 ELSE sum[n - 1] + AlertOf(srcs[n]).length
  IN  sum[Len(srcs)]

(* Every alert of an incident is asked for, once, in queries that are no   *)
(* longer than the limit unless for one alert alone (createAlertsQuery).   *)
EveryAlertIsQueried ==
  \A g \in Groups :
    LET queries == Queries(g)
    IN  /\ Asked(queries) = {Alerts[s[1]].src : s \in MappedIn(g)}
        /\ \A q, r \in DOMAIN queries :
             \A k \in DOMAIN queries[q].srcs, j \in DOMAIN queries[r].srcs :
               queries[q].srcs[k] = queries[r].srcs[j] => q = r /\ k = j
        /\ \A q \in DOMAIN queries :
             Len(queries[q].srcs) > 1 =>
               LengthOf(queries[q].srcs) + 4 * (Len(queries[q].srcs) - 1) <= MaxQueryLength

(* The tests' plan says of a firing incident: "End = "---"".               *)
FiringIncidentHasOpenEnd ==
  \A i \in IncidentsShown : i.firing => \E b \in VisibleBars(i) : b.firing
=============================================================================
