# Monitoring plugin: specifications and proofs

TLA+ specifications of the OpenShift monitoring plugin: a console plugin in
TypeScript (React, Redux, thunks) that shows alerts, silences, metrics,
incidents and dashboards, and a small Go server that delivers it and proxies to
the monitoring stack. Paths below are relative to the repository, and to
`web/src` where they begin with `features` or `shared`.

What is hard in this program is asynchrony. JavaScript runs one turn at a time,
so a single handler is never interrupted; but pollers, refetches, access checks
and user events start requests that nobody cancels, and every callback writes
shared state (the Redux store, a cache, the URL, React state) with what the
closure of an older render knew. The specifications are about exactly that: an
action is one turn, and everything that may happen between two turns is explored.

## Inventory

Each part with its state, its operations, what is hard about it, and what makes
it correct.

### Alerting store and poller
`shared/store/{thunks,reducers,store,fetch-alerts}.ts`,
`shared/hooks/useAlerts.ts`, `shared/console/utils/poll-hook.ts`.
- State: `alerting[prometheus][namespace]` with alerts, rules, silences, a
  loading flag and two errors; one interval per mounted user of `useAlerts`.
- Operations: a tick dispatches the thunk `fetchAlertingData`, which asks for
  rules and silences at once, waits for both, stores the rules or an error,
  stores the silences or an error, and applies the silences to the alerts.
- Hard: thunks overlap (interval, namespace change, refetch after a silence is
  saved, several pollers) and finish in any order; a denied request makes the
  thunk await the response body between two dispatches; reading that body may
  throw and end the thunk half way; either request may fail alone.
- Correct when: an entry never mixes alerts marked by one list of silences with
  another list; an answer lands only in the namespace it was asked for; a
  silenced rule hides no firing alert; a page left open catches up.

### Silence algorithm
`applySilences` and what it calls in `features/alerts/components/AlertUtils.tsx`.
A function over one entry; hard because it updates state that already carries
the marks of an earlier run, and because every alert is held twice (in the list,
and in its rule).

### Silence form and expiry, access check, namespace
`SilenceForm.tsx`, `SilencesPage.tsx`, `AlertingPage.tsx`, `MonitoringContext.tsx`,
`useMonitoringNamespace.ts`, as far as they drive the store. Saving and expiring
silences sends one or several requests and then refetches with the `trigger` of
the render that submitted; the access check holds the poller back and decides
which entry is shown; the namespace bar clears the entry of the namespace it
selects.

### Datasource cache
`features/perses-dashboards/utils/perses/datasource-cache-api.ts`,
`.../utils/datasource-api.ts`.
- State: three TTL tables, for datasources, global datasources and misses.
- Operations: get one by selector, list by kind, in a project or globally.
- Hard: several panels miss at once and write in the order of the answers; hits
  and misses go stale; a default datasource is stored under two keys; all keys
  are texts joined by hyphens and all misses share one table, so that two
  questions may share a key.
- Correct when: a panel gets what it asked for (or, where two questions read the
  same, what the other one asked for, and nothing else), is told something only if
  the server said so and it was true then, and is not misled for good by old answers.

### Incidents page
`features/incidents/pages/IncidentsPage.tsx`, `components/AlertsChart.tsx`,
`components/IncidentsTable.tsx`, `utils/utils.ts` (filters).
- State: filters, fetched and filtered incidents, alerts of the chart and of the
  table, and the loading and error flags that decide what is shown at all.
- Operations: select an incident, change the days, toggle a filter, clear the
  filters, show or hide the charts; the callbacks of the incidents and alerts
  requests; the effects that flip the flags.
- Hard: requests overlap and are never cancelled; callbacks use the filters, the
  filtered data and the rules of the render that sent them; several effects and
  callbacks raise and lower the same flags.
- Correct when: what is shown belongs to the filters shown, and no spinner stays
  for ever.

### Incident algorithms
`features/incidents/utils/{process-incidents,process-alerts,utils,api}.ts`. Pure
functions: daily ranges, merging of series, padding, bars, rows, queries cut at a
length, the URL. Hard at boundaries (gaps of one or two query intervals, first
and last points, the current time), and because incidents and alerts are computed
by different code with thresholds of their own. Correct when what the page shows
is what Prometheus recorded, and its parts agree with each other.

### Query browser
`features/metrics/pages/MetricsPage.tsx`,
`shared/components/query-browser/QueryBrowser.tsx`, the query cases of
`reducers.ts`.
- State: the list of queries in Redux, the graph with its span and its number of
  samples, one table per position of the list, the URL.
- Operations: type, run, add, delete, duplicate, disable, expand, zoom, change
  the span, hide the graph; the answers of the graph and of the tables.
- Hard: the list changes while series in flight are stored by index; a table
  belongs to a position; the number of samples is adapted in a loop of requests.
- Correct when: the list stays whole, results belong to the query beside them,
  the graph stays within its limits and stops loading, the URL restores the page.

### Legacy dashboards
`features/legacy-dashboards/hooks/*.ts`,
`features/legacy-dashboards/components/LegacyVariableDropdowns.tsx`, the dashboard
cases of `reducers.ts`.
- State: the dashboard, the project and the variables in the URL; the variables
  of each dashboard in Redux.
- Operations: open a link, choose a dashboard, a project, a value, a refresh
  interval or a time range; the answers of the dashboards and of the options.
- Hard: values are kept twice and each copy is brought up to the other by an
  effect, while other effects replace both; options depend on other variables and
  their answers arrive in any order.
- Correct when: the page comes to rest, a link shows what it names, each dropdown
  has the options its query has now.

### Perses dashboards
`features/perses-dashboards/` without the cache: `useActiveProject.tsx`,
`useDashboardsData.ts`, `DashboardApp.tsx`, `DashboardToolbar.tsx`,
`ExternalPanelAddition.tsx`, `AddToDashboardButton.tsx`.
- State: the project in the URL and in the console, the list of dashboards and
  what the toolbar remembers of it, the dashboard being shown and edited, one
  Redux field for a panel handed over.
- Operations: edit, add a panel, save, cancel, change the URL, hand over a panel;
  refetches; other users save, rename, create and delete dashboards.
- Hard: two copies of the project kept in step by effects; the toolbar sets the
  dashboard again whenever the URL or its metadata are new; a save fails after
  edit mode was left.
- Correct when: a panel that is queued is shown and the hand-over is free for the
  next one, projects agree, unsaved edits
  survive refetches, a failed save can go on, a saved panel stays.

### Plugin server and monitoring proxy
`cmd/plugin-backend.go`, `pkg/server/*.go`, `pkg/monitoring/proxy.go`.
- State: the flags, the patched manifest, up to three listeners each in a
  goroutine, the certificate loaded and the one served.
- Operations: start, listen, reload the certificate; a start or a listener that fails.
- Hard: combinations of flags; patches that cannot be read or applied; two files
  of a certificate replaced one after the other; a proxy's panic ends them all.
- Correct when: every page in the manifest has its reducer, only complete
  certificates are served and the newest in the end, proxies follow the plugin.

### Targets page
It lists what the console's Kubernetes watches return, and keeps nothing.

## Modules

| Module | What it is | Code |
| --- | --- | --- |
| `ApplySilences` | an entry of the store, its reducer cases and `applySilences`, as pure operators | `AlertUtils.tsx`, `reducers.ts`, `store.ts` |
| `Alerting` | pollers, thunks, page, silences being changed, and the servers | `thunks.ts`, `fetch-alerts.ts`, `useAlerts.ts`, `poll-hook.ts`, `AlertingPage.tsx`, `SilenceForm.tsx`, `SilencesPage.tsx` |
| `DatasourceService` | abstract: what a cache of datasources promises | (implemented by `DatasourceCache`) |
| `DatasourceCache` | cache, panels and datasource API | `datasource-cache-api.ts`, `datasource-api.ts` |
| `Incidents` | incidents page | `IncidentsPage.tsx`, `AlertsChart.tsx`, `utils.ts` |
| `IncidentAlgorithms` | what the incidents page computes from its answers | `process-incidents.ts`, `process-alerts.ts`, `utils.ts`, `api.ts` |
| `MetricsPage` | list of queries, graph, tables, URL | `MetricsPage.tsx`, `QueryBrowser.tsx`, `reducers.ts` |
| `LegacyDashboards` | dashboards, projects and variables | `useLegacyDashboards*.ts`, `LegacyVariableDropdowns.tsx`, `reducers.ts` |
| `PersesDashboards` | page of one dashboard, hand-over, active project | `useActiveProject.tsx`, `useDashboardsData.ts`, `DashboardApp.tsx`, `DashboardToolbar.tsx`, `ExternalPanelAddition.tsx` |
| `PluginServer` | flags, manifest, listeners, certificate | `plugin-backend.go`, `server.go`, `plugin_handler.go`, `proxy.go` |
| `AlertingProofs` | proofs about `Alerting` and `ApplySilences` | |
| `DatasourceCacheProofs` | proofs about `DatasourceCache`, and that it implements `DatasourceService` | |
| `IncidentsProofs`, `IncidentAlgorithmsProofs` | proofs about the incidents page and about what it computes | |
| `MetricsPageProofs`, `LegacyDashboardsProofs`, `PersesDashboardsProofs`, `PluginServerProofs` | proofs about the module of that name | |
| `MC…` | small instances for TLC | |

`Alerting` is built on `ApplySilences`; `DatasourceCache` implements
`DatasourceService`. The others share no state that matters to their properties:
the pages are open one at a time.

Operators that begin with "Mutant:" in their comment are alternatives a plausible
mistake would produce; each is known to break one property and is used by no
specification.

### ApplySilences and Alerting

An alert, a rule and a silence are model values; `RuleOf`, `Matches` (which
silence matches which alert's labels) and `Visible` (what a namespace may see)
are constants. An entry records the state of each alert in the list, the state
of its copy inside its rule, the state of each rule, the silences, and the
marks: `silencedBy` of alerts and rules and `firingAlerts` of silences. Two
copies of an alert are two fields because the reducer reaches them through
different Immer drafts; the reference that was shared when the rules were parsed
is not shared between `alerts[i].rule` and `rules[j]` any more.

`thunk[t]` is what a thunk waits for: `fetching` until both requests are
settled, `rulesText` and `silencesText` while a denied response's body is read.
`Settled`, `RulesText` and `SilencesText` are its turns; everything up to the
next await is one action, including the final `applySilences`. `TextFails` is the
await that throws. `RulesAnswered` covers `fetchAlerts`: with one source a
rejection rejects, with several the failing ones are left out of a fulfilled
answer, so their rules simply vanish; if reading what the sources answered throws,
the `catch` asks the first source alone. `page` is the mounted page, the entry it
shows and the access check; `Mount`, `AccessChecked`, `ChangeNamespace`,
`onNamespaceChange` and `Tick` start thunks, as the dependencies of `usePoll` do.
`mutation` is a silence being saved or a selection being expired, of which each
request may fail; its callback refetches with the namespace it was submitted in.
The servers change on their own, at most `MaxChanges` times.

### DatasourceCache and DatasourceService

A name or project is the sequence of its pieces between hyphens, so that
`generateKey` (concatenation) makes two questions share a key exactly when their
texts are equal: `Alike(q)` are the questions that read like `q`, `Apart` those that
no other one reads like. `RightDatasource` says what the code gives: every hit
answers the question or one that reads the same. So the datasource `x` of project
`dev` may be given as the default of project `x-dev`, and both are in the instance.
`Existing` are the datasources there are at first. An entry carries the ticks it has left. `Get` and `List` are
the calls that reach the server; a hit, or a remembered miss, is answered in the
same turn and changes nothing, so it is no action: the properties look at what
the cache would answer instead, in every state. A list is asked for by kind, as
`listDatasources` does.

`DatasourceService` has three variables: the truth, what the server has said and
is on its way, and a memory. Anything put on the way must be true at that moment,
only what is on the way may be remembered, and what is remembered lives `Ttl`
ticks. `DatasourceCache` maps its server to the truth, the answers of its calls in
flight to what was told (`Told`, one fact for each question an answer settles),
and what any lookup would be answered with, hit or miss, together with the ticks
its entry has left, to the memory. So the refinement speaks of every lookup of
every panel, and not of tables. The service is one for the questions of `Apart`;
panels that ask the others run beside it, share the tables with it and may not
disturb it.

### Incidents

`page` holds the filters, the Redux data and the flags; `request` holds, for each
request in flight, what its closure captured. An action is one user event or one
callback with the effects its changes trigger, in the order React runs them
(children first: the chart's effect, then the page's), iterated by `Rendered`.
The one effect kept apart is `ProcessAlerts`, which starts the alerts request in
a later render than the callback that asked for it. `hurried` is history: the
user has acted before everything in flight had settled. Nothing reads it but the
properties that only hold for a user who waits.

Simplifications: one visit of the page, without the Redux data of the last one;
the time range follows the days filter at once; one toggle stands for the state
and severity filters.

### IncidentAlgorithms

The state is what Prometheus recorded: `firing` has the samples of `ALERTS` by
alert state, `mapped` those of the cluster health analyzer's map by the label
`silenced`. A step is one query interval, in which any alert may fire, pend, be
mapped, or not. Everything else is an operator, one per function of the code, and
the properties compare its result with the record, in every reachable record.
Series of points become sets of `<<timestamp, severity>>`, since every function
sorts and removes duplicates; milliseconds become seconds. Left out: x positions,
chart domains, chips and option lists. An alert has one severity, and all alerts
of a step share `silenced`, `mapped` and pending. The loops over the answers
(`getIncidents`, `mergeIncidentsByKey`, `createAlertsQuery`, the answer for one range)
are recursive functions on the number of results taken so far, with one operator for
one turn of the loop (`AddResult`, `AddByKey`, `AddToQuery`). The Watchdog is an
incident of its own (`WatchdogAssumption`): the code takes out its incidents and its
alerts by that name.

The URL: a filter is a sequence of texts, and a text the sequence of its pieces
between commas, so that `join` and `split` are what they are for texts with commas.
`makeIncidentUrlParams` leaves out empty filters and writes the incident that is
selected over the list of them; `FiltersOfUrl` is what the page takes from the URL it
was opened with, defaults included; `ShownFor` are the incidents it asks for and
filters. The filters that come back need not be those that went: of several incidents
in a link one is left. `ReloadShowsSameIncidents` says that the days, the incidents
shown and the URL written next are the same all the same. It is checked for 60
combinations of filters in every record. No single value has a comma of its own
(`FiltersAssumption`): severities, states and days are fixed words, and a group id
is made by the analyzer.

The key by which `deduplicateAlerts` joins the series of an alert is its name,
namespace and severity (`src`) and the component the alert itself names (`label`),
which need not be the analyzer's.

### MetricsPage

`rows` is `queryBrowser.queries` (text typed, query that runs, enabled, expanded,
and the query whose series the row has); `graph` the state of `QueryBrowser`;
`tables` the state of one `QueryTable` per position with its requests; `url` the
query parameters by index. `AnswerTooBig`, `AnswerRefetches`, `AnswerShown` and
`Fails` are the callbacks of `tick`: `NewSamples` is the arithmetic of the sampling loop with the real
constants and roundings, including the shares of days (`getTimeRanges`) and whole
seconds of a range query's step. Leaving a component aborts its requests, as
`useSafeFetch` does; nothing else does. Series are patched by the indices of the
list that was asked for, so a row that is gone comes back as the code would make
it (`Assigned`, `Hole`). `page` says whether the user waits, which two properties
need. `QueriesKey`, the text the effects compare, is the set of queries with their
places (`InOrder`): empty ones are left out and the others joined in order.

Left out: hiding single series, the copy of table data for the CSV export, the
access check, custom data sources, stacked and disconnected display; identical
requests in flight count as one.

### LegacyDashboards

`Commit` is a render with all its effects; an effect runs when what it depends on
is not what it was at the last render, which `page` remembers. `legacy` holds the
variables of each dashboard, `requests` the options asked for, and `OptionsLoaded` and
`OptionsFail` their callbacks. A value is a number in the order of the texts, a
project among them: a link may give a variable the name of one. The dashboards of
a project are their positions in the list of all (`legacyDashboards`), the first
being the smallest. The
query of a variable is the value it uses of another one. `opened` is the link the
page was opened with. The console's namespace is the page's project. A variable of
type `interval` has no query and never loads. The store makes a variable that an
answer names again if it has lost it, without a query (`Made`): the callback of an
aborted request does so after the dropdown has gone, and the dashboard keeps such a
remnant until it is patched. Aborted callbacks run in the same step as the render
that aborts them, after its effects (`AfterAborts`); nothing but the render could
come between.

Left out: the panels and their polling, custom data sources, the developer
perspective, splitting of time ranges, the replacing effect of
the dropdown of dashboards.

### PersesDashboards

`Commit` is a render with its effects (`After…`, in React's order): the panel
handed over is queued and applied, the toolbar sets the dashboard, a failed save
enters edit mode again, the URL's edit parameter is followed, and the two effects
of `useActiveProject`. `list` is what the list query last answered, `app.metadata`
what the toolbar keeps of it: `combinedDashboardsMetadata` is only made anew when
names, titles or projects change, or dashboards come or go. A dashboard that does
not exist has the title `None`; others create, delete and rename dashboards and
add panels. `ChangeBoard` may pick the dashboard that is open, which sets it from
the metadata without navigating. `saving` is the PUT and its refetch; the PUT writes
the dashboard as it was on the screen, so a save from before a rename reverts it.

Left out: the list page, the dialogs that create, import, rename, duplicate and
delete, permissions, the editors of variables and datasources, toasts.

### PluginServer

`process` is the server process with its manifest, the listeners that are
`starting` and `listening`, and the certificate `loaded` by `certKeyPair` and
`served` by the controller. `disk` has the versions of certificate and key, which
`RotateCert` and `RotateKey` replace one after the other, as a mounted secret is.
`StartFails` is a start that ends before any listener: ACM mode without a cluster
configuration. `ListenFails` is the panic of any listener, for a port that is taken or
a CA that cannot be read, which ends the process; the kubelet starts it again. A patch of the manifest is in `broken` if it cannot be read or
applied. Left out: the timeout configuration, static files, cache headers, CORS,
logging, forwarding itself.

## Runs

| Run | Instance | What it shows |
| --- | --- | --- |
| `alerting_namespaces` | 2 namespaces, 1 rule with 2 alerts, 2 overlapping silences, 2 sources, 2 thunks, 2 failures | late answers stay in the namespace they were asked for; no rule hides a firing alert |
| `alerting_live` | 1 alert, 1 silence, 2 thunks, 1 change, 1 failure, fairness | marks match after a failure too; a silenced alert without a silence is only shown beside an error; a page left open ends up showing the servers' state for good |
| `datasource_cache` | 1 kind, the datasource `x` in `dev` and as default of `x-dev` (one key), global scope, 2 calls, 1 change, 1 failure, fairness | a panel gets what it asked for or what reads the same; for questions none reads like, the cache implements `DatasourceService`; it catches up |
| `incidents` | 2 incidents, 2 time spans, 2 requests, 1 failure, fairness, users who wait and who do not | while the page waits it is being fetched, and it stops waiting; for a user who waits, incidents match the filters, the table lists the selected incident's alerts, and a visible selected incident is not kept loading |
| `incidents_stale` | the same without failures | finding: the table keeps the alerts of another incident |
| `incident_algorithms` | 2 alerts of 1 incident and the Watchdog, 6 query steps, 2 days of 2 steps, 60 combinations of filters | what the page computes agrees with the record and with itself |
| `metrics_page` | 2 queries, up to 3 rows, spans of 30 min and 7 days, real limits, 2 events (3 if the user waits), 1 failure, fairness | the list stays whole, tables and series belong to their query, the graph stays within 10000 points and stops loading, a reload runs the same queries |
| `metrics_sampling` | 1 query of 268 series, two weeks | finding: the graph loads for ever |
| `legacy_dashboards` | 2 dashboards, 3 variables of which one depends on another and one is an interval, 6 links, 2 events, 1 failure, fairness | the page comes to rest, with the options of today's queries and with what the link named |
| `perses_dashboards` | 2 dashboards, 2 panels, 3 projects of which one is a namespace, 3 events, 1 of others, 1 failed save, fairness | the hand-over field empties and its guard is released, and a queued panel is shown; projects agree; refetches keep edits; a failed save is edited on |
| `perses_persist` | the same, 4 events, nobody else, no failure | finding: a saved panel leaves the screen |
| `plugin_server` | every combination of certificate, features of both groups, URLs and TLS versions, 3 sets of broken patches, 2 rotations, 1 failed start or port taken, fairness | pages have their reducer, certificates served are complete and in the end the newest, proxies follow |

Why the bounds are enough. Two requests in flight are what overtaking needs, and
every hazard listed is between two of them; a third only repeats the pattern, and
for the safety properties of the store, the cache and the metrics page the proofs
cover any number. One failure can hit any request in any state; the second in
`alerting_namespaces` is the body of a denied answer that cannot be read. Two overlapping
silences, of which one matches one alert of a rule and the other both, reach every
branch of `applySilences`. Servers change once or twice, so that answers of
different age exist; in `alerting_namespaces` they need not change, because there
it is the page that moves. The cache lives one tick in the run, and one datasource
changes: longer lives add states in which the same entry is older, and the proofs
cover every life and any number of changes. In `datasource_cache` two questions
share a key and both have an answer to take the other's place. In
`incidents` one incident is outside the shorter time span and resolved, one is
always there, so that filters and spans disagree. Six query steps hold an
incident with a gap of one, of two and of three intervals, and cross a boundary of
the daily ranges; two alerts in one group with two severities and components are
what merging needs; the length of the queries allows one of them but not both. In
`metrics_page` one query brings the data near the limits, so that running it
twice is too much, and a week is cut into days. Three rows are what it takes to delete one
above another. In `legacy_dashboards` both namespaces have one pod in common, so
that a value can survive a change. In `plugin_server` two rotations let one
overtake the reload of the other.

Deadlock is checked in the runs of `Alerting` and `DatasourceCache`. Elsewhere the
system may stop: an error page of `Incidents` offers only a reload, refused flags
end every start of the server, the last query step ends a history, and the user
of the other pages may stop after a bounded number of events. Symmetry of the
thunk slots is used in `alerting_namespaces` only, which has no liveness property.

The type invariants of `Alerting`, `DatasourceCache` and `Incidents` are proved
and not run again; that of `MetricsPage` is called `RowsTypeOK`.

### Fairness

- `Alerting`: the interval ticks while the page is mounted (`setInterval` in
  `usePoll`), the access check ends, servers answer, and due turns run. The
  property asks for a page that stays mounted on a namespace and whose namespace
  bar is left alone from some point on; nothing is assumed of users otherwise.
- `DatasourceCache`: time passes, the server answers, callbacks run. Panels need
  not ask again: what is claimed is what a lookup would give.
- `Incidents`: every request is answered or fails. It is stated as
  `[]<>(request[r] = Idle)`, which is weak fairness of its callback since only
  the callback makes a request idle; this spares TLC the evaluation of ENABLED
  for an action that renders the page. Users owe nothing.
- `MetricsPage`: requests of the graph are answered or fail. `AnsweringSpec` spells
  it out in the same way, for the larger run. Polls are not relied on.
- `LegacyDashboards`, `PersesDashboards`: React renders what is due and servers
  answer, a save being answered well or not.
- `PluginServer`: the kubelet restarts the process, the scheduler runs every
  goroutine, and a new key follows its certificate. That a listener fails is never
  assumed.

## Theorems

All hold for every value of the constants, under the named assumptions of the
modules: the shapes of `RuleOf`, `Matches`, `Visible`, `SourceOf`, `Within`,
`Firing`, `SeriesCount`, `Flags`, `Template`, `Offered` and `ProjectOf`, natural
bounds, a positive `Ttl`, non-empty names and projects, limits of the graph that
leave room for the leeway, a query interval above two seconds that is even and
divides the range of one query, severities from 0 to 2, natural lengths of the
alerts in a query, one component named by the alerts of one source
(`LabelsAssumption`), filter values without a comma (`FiltersAssumption`), a Watchdog
that shares its incident with no other alert, and sentinels that are no dashboard,
panel or project.

- **Alerting.** `TypeCorrect`; `Invariant`; from it `MarksAlwaysMatch`,
  `OrphansAreFlagged`, `NamespacesStayApart`, `AnswersStayApart` and
  `RulesHideNothing`. The invariant `IInv` is the conjunction of the type
  invariant and these five, and they need each other: an answer must be confined
  to its namespace while in flight for the store to be; an entry's marks must be
  either absent (`Raw`) or complete (`Applied`) for another run of
  `applySilences` over it to leave them complete; and an old mark may only
  survive a run beside an error. The argument is local to an entry: `EntryOK`
  holds of the entry a turn reads, and one lemma per reducer case shows it of
  the entry the turn writes. Which thunk wrote the entry before never matters,
  which is why any number of them may overlap. `TypeOK` and `AnswersStayInNamespace`
  are only proved.
- **DatasourceCache.** `CacheInvariant`: every hit was stored for some question it
  answers, and so is every answer on its way. `CacheTypeCorrect` follows.
  `SharedKeysReadAlike` says which questions share a key, by the lengths of the parts
  of a key; with it, whoever finds an entry asked what it was stored for or something
  that reads the same, which is `RightAnswers`. `CacheImplementsService`: the initial
  states map to initial states, and every step is a step of the service. `Create` and
  `Delete` are `Change`; `Get`, `List` and the answers or failures of the server are
  `Say`, since an answer is true when it is given; a callback is `Remember`, since all
  it stores is an answer that was on its way; `Tick` is `Age`. What makes this more
  than bookkeeping is that one answer is stored under several keys and one key may be
  looked up by several questions: an entry that a question of `Apart` finds was stored
  for that very question, whatever other panels store. Both hold for any names.
  Which questions are left out is `PlainNamesSuffice`: none, if names and projects
  have no hyphens and none is called like another. Otherwise there may be some: a
  miss of the global datasource `dev` answers the question for the default datasource
  of project `dev`, and so do `x` of `dev` and the default of `x-dev`.
- **Incidents.** `PageTypeCorrect` and `SpinnerAlwaysHasRequest`, inductive
  together: rendering moves neither the incidents' spinner nor the requests, so
  only the callbacks and the three events that fetch have to be looked at. For a
  user who waits (`~hurried`), `TableFollowsSelection`, `FilteredFollowsFilters`
  and `VisibleIncidentStopsLoading`. None of the three is inductive: a callback
  writes what its closure captured, so they hold only as long as that is still
  what the page shows. `Calm` says so: no two requests overlap, nor a request and
  the effect that sends the next (`OneAtATime`); a request for incidents has the
  filters of the page, one for alerts the alerts of its selected incident
  (`StillMeant`); and the three properties hold when nothing is in flight. A
  turn of the user starts from a settled page or sets `hurried`, and each
  callback hands on what `Calm` says of it.
- **IncidentAlgorithms.** The charts, for any set of samples with times between two
  bounds and not only for those of a reachable record, since all these functions
  see of the record is such a set. A bar begins at the first sample of a run (of
  one severity for an incident, without a gap for an alert). That every sample
  lies in the bar of a run needs the latest run before it, and the sample just
  before that: both exist by well-foundedness of the naturals (`FirstOf`,
  `LatestOf`). From it follow `IncidentBarsShowSeverity`, `FilterFindsBars` and
  `AlertBarsCoverSamples`; `IncidentBarsAreDisjoint` and `AlertBarsAreDisjoint`
  because a bar ends before the next run begins. `FiringIncidentIsOpen` joins two
  functions with thresholds of their own: an incident that is not resolved has a
  sample less than two intervals old, the padding adds one that reaches the
  present, and that is no earlier than the last midnight, where the chart ends.
  `ReloadIsFaithful` holds for all filters of texts without a comma, empty ones, days
  and any number of groups included: splitting what was joined gives the texts back
  (`SplitOfJoin`, over `JoinOf`), so severities and states come back as they were
  (`FiltersOfOwnUrl`); of the groups only the first does, and as the page had asked
  for that one alone, the others had let nothing more through.

  From the record to the charts: `MergeOrderIsFree` says that merging keeps the
  highest severity of each time of all that is merged, so values and components do
  not depend on the order of the answers (`silenced` does), and
  `IncidentsSummariseResults` that `getIncidents` therefore makes one incident per
  group of any sequence of results. This is an induction over the sequence, done by
  hand: a set of naturals that has 0 and with each number the next has all
  (`Counting`, by the least number it lacks), and a function defined step by step
  exists (`StepwiseExists`). The ranges of the days cover the days without a gap
  (`RangesCover`, over `\div`), so all answers together have exactly the samples that
  were mapped within the days (`OwnIsMapped`): hence `IncidentsHaveTheirHistory`. The
  samples that padding inserts lie at times without a sample (`PaddingIsApart`), so
  each keeps its severity on the chart, and `BarsMatchHistory` follows. The invariant
  of the record itself, `HInv`, is needed only for its shape: times are query steps up
  to now, which `FiringIncidentsAreOpen` uses.

  `QueriesAskOnce` is an induction of the same kind over any list of alerts: with one
  more alert (`AddToQueryOf`) the queries ask for one more name, at a place of its own
  in the last query or in a new one (`OneMorePlace`), and the length they count is at
  least that of their alerts with the separators, and within the limit as soon as
  there are two. With the samples of all answers it gives `AlertsAreQueried`.

  From the queries to the table: `ResultsAreCollected` says of `mergeIncidentsByKey`, by
  the same induction over `AddByKey`, that each alert asked for gets one incident with
  all samples of its results. With the ranges of the days and the duplicates gone, the
  alerts shown for an incident are those that fired during it, with the times they did
  (`ShownAlerts`): `convertToAlerts` keeps samples half a step before and after the
  incident, but all samples lie on the grid of the query steps, so it keeps none outside
  (`WithinOf`). The padding adds a step before and after each stretch and nothing
  else, and a stretch goes on as long as the next step has a point, so the bars cover
  exactly the steps within one of a point, up to now (`AlertBarsCoverSteps`, by the last
  point before a step). `AlertBarsMatchHistory` follows, with the dates of the
  chart (`DatesCover`) and the last bar (`LastBarFires`).
  `IncidentsFireWithAlerts` compares two ages taken by different code from different
  series: that of the incident, from the last sample of its map, and that of each alert,
  from the last sample of `ALERTS` kept for it. They agree because only an alert that fires is mapped
  (`MappedFires`, an invariant of its own), so the last sample of the map is one of an
  alert shown, and no alert shown has a later one. If the Watchdog could share an
  incident with another alert, `convertToIncidents`, which looks at the first name only,
  might show an incident that `convertToAlerts` empties; hence `WatchdogAssumption`. The
  rows count each alert once by induction over the number of rows, since `MapThenSumSet`
  takes them one at a time in an order it leaves open (`RowsCountAlerts`).
- **MetricsPage.** `TypeCorrect`, `PointsWithinLimit`, `TablesFollowRows` and
  `UrlRestoresQueries`, from one invariant `PInv`. That the list has no hole
  though answers assign its rows by index rests on an answer covering all indices
  from the first on (`SeriesPatchedOK`): a list that is shorter by now grows back,
  without a gap. The points shown stay within the hard limit because data are only
  shown when the samples need not change, so they are within the leeway of the
  soft limit, or at the smallest number of samples and not too many; it takes the
  requests in flight to carry legal numbers of samples. For a user who waits a
  table only ever waits for the query of its own row. The URL mirrors the rows
  after every turn, which a reload needs to be typed and the last theorem reads off.
  `ButtonsFollowGraph`, for a user who waits, adds to `PInv` that the graph asks for
  nothing but the queries the page has now (`Asks`), and that once it waits for
  nothing and shows no error, every row has the series of its query (`Shows`). Its key is that `QueriesKey` tells
  any two lists apart that differ in more than empty queries; the place of a query
  among the non-empty ones is a cardinality that grows with its index
  (`PlacesDiffer`), so equal keys mean the same queries in the same order.
- **LegacyDashboards.** `PageTypes` and with it `DashboardsTypeCorrect`: every value
  that an effect, a link or an answer puts into a variable is one the dropdown can
  show. `AnswersOfShownDashboard`: a request in flight was sent by a dropdown of the
  dashboard rendered last, because a render that leaves a dashboard aborts its
  requests in the same turn. `DropdownsFollowQueries`: whatever overtakes what, a
  dropdown at rest has the options of the query it has now, or its request for
  them is in flight, unless a request failed. It is not inductive at rest only;
  `OInv` says it of every dropdown whose query and options are those of the last
  render, in any state, since a difference is what makes the effect ask again.
  Another dropdown's answer may change its query, and is then such a difference.
  `DropdownsMatch` is `OptionsMatchQueries` for all dashboards that meet two
  assumptions: `Grounded`, variables do not use one another in a circle, or none of
  them is ever asked for; and `HasOptions`, for whatever a dropdown may ask at rest the
  servers have options, and not the very ones the dashboard begins with. TLC evaluates
  both on the instance. The second is needed: a variable whose template already has
  the options offered is marked as loading by a new refresh interval and not asked for
  again, since its options have not changed. To `OInv` the invariant `DInv` adds that a
  dropdown is loading only with a request in flight or with the options it began with
  (`LoadingHasReason`), that its value is among its options unless they are such
  (`ValueIsOffered`), that value and URL agree once the effect that joins them has
  seen both (`UrlHasValue`), and that a page at rest has a project. Every dropdown
  is then done by induction on the ranks of `Grounded`: once the variable it uses is
  done, its query is one of `AskedAtRest`, and it has loaded (`UsedDoneFirst`).
- **PersesDashboards.** `DashboardInvariant` and `DashboardTypeCorrect`: every chain
  of effects keeps the page mounted and typed, and the guard of
  `ExternalPanelAddition` set exactly while a panel is queued; a save has a page.
  `RefetchIsHarmless`: a refetch in which no dashboard came, went or was renamed
  returns the metadata the toolbar has, so none of its dependencies is new and no effect is due; after a
  save, leaving edit mode is all that differs. `LinksKeepTheirProject`: once the URL
  has a project, no effect and no event replaces it. `HandedPanelsAreDue` and
  `QueuedPanelsAreShown` are the safety half of `HandoverEnds`: the guard never keeps
  a panel out, and a queued panel reaches the screen. Their invariant `QueueInv` says
  that the URL of a mounted page has a project, so that no effect changes the URL
  between queueing and applying, and the toolbar has nothing to redo in the render
  that applies. `ListInvariant`: the metadata have the titles of the list, and the
  dashboard of the URL is among them, or the page is closed. That every panel handed
  over is shown would be false: applying
  clears the Redux field whatever it holds by then, and a second panel handed over
  in between goes with the first.
- **PluginServer.** `ServerInvariant`: a process that runs has the manifest of its
  flags and listeners for all they call for, starting or listening, and
  `served <= loaded <= key <= cert` for its certificates. `ServerTypeCorrect`,
  `ManifestIsComplete` and `CertificatesAdvance` follow; the last, an action
  property, needs the order, because what is served next is what is loaded now.

Model-checked only:
- liveness (`Settles`, `CatchesUp`, both `LoadingEnds`, `ComesToRest`, `LinksAreKept`,
  `HandoverEnds`, `ProjectsAgree`, `FailedSaveIsEdited`, `ProxiesFollow`,
  `NewCertificateIsServed`), which is out of the prover's reach;
- the violated properties of the three findings, of course.

## Findings

1. `incidents_stale`: two incidents selected in quick succession; the last answer
   to arrive wins, so the table keeps the alerts of the first
   (`IncidentsPage.tsx:248`).
2. `metrics_sampling`: with 268 series over two weeks the number of samples goes
   15, 11, 17, 13, 20, 15 for ever, and the graph is never shown
   (`QueryBrowser.tsx:778`). Data points are not proportional to samples, because
   the share of each day and the step in seconds are rounded up.
3. `perses_persist`: a panel that was added and saved leaves the screen when the
   open dashboard is picked again (`DashboardToolbar.tsx:140`) or the time range is
   changed (`:147`): the toolbar sets the dashboard from metadata that are older
   than the save.

Met while modelling, without a run of their own:

- Alerting: an alert stays silenced after its silence is gone when the rules
  request fails and the silences request succeeds (`AlertUtils.tsx:404-437`);
  `OrphansOnlyAfterError` bounds the damage. Marking `rule.alerts` through the
  alert marks a draft that the list of rules does not share (`AlertUtils.tsx:441`).
  A failing external source of rules removes its alerts without an error
  (`fetch-alerts.ts:34`). A user shown all namespaces who picks "all" again waits
  for the next tick on an empty list (`AlertingPage.tsx:109`).
- Datasources: questions may share a key (`datasource-cache-api.ts:100`). A panel of
  `dev` that asks for `x` can be given the default of `x-dev`, and one that asks for
  the default of project `dev` told that there is none, because the global `dev` was
  missed. `RightDatasource` says exactly this much and no more; a property without
  `Alike` fails in this run.
- Incidents: a filter toggled while incidents are being fetched is undone by their
  answer (`IncidentsPage.tsx:321`); the table is not filled when the rules arrive
  after the alerts were asked for (`:260`); a user who does not wait can leave a
  visible selected incident loading (`:267`).
- Incident algorithms: an incident's bar goes on across a gap (`utils.ts:239`),
  where alert bars end; gaps of up to two missing samples are filled by padding;
  an incident's bar begins at its first sample and an alert's five minutes
  earlier; the limit of a query counts characters before they are encoded; of two
  results that end together, `getIncidents` takes `silenced` from the last and
  `mergeIncidentsByKey` from the first.
- Metrics: a table stays loading for ever if its query is run while collapsed and
  then expanded without polling; deleting a disabled or empty row above another
  leaves graph and rows out of step by one until the next answer; without polling
  a late older answer stays; the colour offset of a series button sums a property
  that does not exist (`MetricsPage.tsx:354`).
- Legacy dashboards: a variable whose options fail never shows the error, because
  the failure is caught before `allSettled`
  (`LegacyVariableDropdowns.tsx:177-195`); one without options stays loading after
  the refresh interval is changed; a late answer for an earlier namespace can
  change the user's choice; a first visit without a project drops the link's
  variables; Back to "All" is undone.
- Perses dashboards: a save reverts a title that somebody else changed meanwhile
  (`dashboard-api.ts:12`); unsaved edits are lost when the time range or a variable
  changes in the URL, or the open dashboard is picked again; a second panel handed over before the first is
  applied is lost with it; edit mode entered
  by the URL has nothing to discard to (`DashboardApp.tsx:96`); edits made while a
  save is in flight stay on screen in view mode, unsaved; cancelling during a save
  that fails enters edit mode again; with all projects in the URL there is no
  project to fetch the dashboard from; a panel handed over takes the place of a
  panel editor that is open.
- Server: one URL passes the check that both are given (`server.go:122`, `:127`);
  a configuration file without a timeout means a timeout of zero; ACM mode without
  TLS serves the ACM manifest and starts no proxy; environment variables for the
  port, the paths and the lowest TLS version are never used, as their flags have
  defaults; before the controller's first run, TLS connections get no certificate.

## Not modelled, and why

Layout, tables, charts, sorting, localisation and permissions of buttons are
views; so is the targets page. Label matching is a relation (`Matches`): silences
are compared by whom they match. Wording of errors does not matter to any
property, their presence does. The modal that expires a single silence does not
refetch by itself and is covered by the server's own change of a silence. A
page's reload, and the loss of all state with it, is the initial state again. The
end-to-end tests under `web/cypress` and the scripts are not part of the program.
Two hazards have no property: that a source drops out without an error, and that
the alerts of an incident may be asked for before the rules; no document says what
the user should see then, and the models contain both.

Some properties speak only of a user who waits for answers: `TablesShowTheirQuery`
and `ButtonsMatchGraph` of the metrics page, `AlertsOfSelectedIncident`,
`FilteredMatchesFilters` and `VisibleIncidentShowsAlerts` of the incidents page. They
do not hold while requests overlap, so what goes wrong then at
`IncidentsPage.tsx:311`, `:321` and `:267`, `QueryBrowser.tsx:826` and
`MetricsPage.tsx:660` is in the models but in no property, but for `incidents_stale`,
which shows the first of them, and `RowsTypeOK`, which says for every user that the
late answers leave no hole in the list of queries.

## Plan

Done: all modules above, and their proofs. Next: leaving and coming back to the
incidents page, with the Redux data of the last visit.
