----------------------------- MODULE MetricsPage -----------------------------
(***************************************************************************)
(* The metrics page: the list of queries in the Redux store, the graph of  *)
(* QueryBrowser.tsx, one table per query and the URL (MetricsPage.tsx).    *)
(* The graph asks for all queries at once and stores the series it got by  *)
(* index; the list may have changed by then.  It adapts the number of      *)
(* samples to the number of data points it gets, and asks again.  A table  *)
(* belongs to a position of the list, not to a query.  Leaving a component *)
(* aborts its requests; nothing else does.  An action is one event, timer  *)
(* or promise callback with the React effects it triggers.                 *)
(***************************************************************************)
EXTENDS Integers, Sequences, FiniteSets

CONSTANTS
  Text,              \* query texts
  Blank,             \* the empty text, and the absence of series or data
  SeriesCount,       \* how many series the servers return for a list of queries
  Spans,             \* time spans of the graph, in seconds
  DefaultSpan,       \* the span a graph starts with
  Chunk,             \* QUERY_CHUNK_SIZE, in seconds
  MinStep,           \* minStep, in seconds
  MinSamples, MaxSamples, MaxDataPointsSoft, MaxDataPointsHard,
  SamplesLeeway,     \* its inverse: 5 stands for 0.2
  MaxRows,           \* bound: rows a user creates
  Urls,              \* what the URL may ask for when the page is opened
  MaxEdits,          \* bound: events of a user who does not wait
  MaxPatientEdits,   \* bound: events of a user who waits
  MaxFailures        \* bound: requests that fail

TextOrBlank == Text \cup {Blank}

(* The query strings of as many rows as there may be.                      *)
QueryLists == UNION {[1 .. n -> TextOrBlank] : n \in 0 .. MaxRows}

ASSUME BlankAssumption == Blank \notin Text
ASSUME SeriesAssumption == SeriesCount \in [QueryLists -> Nat]
ASSUME SpansAssumption == Spans \subseteq Nat \ {0} /\ DefaultSpan \in Spans
ASSUME SamplesAssumption ==
  /\ Chunk \in Nat \ {0} /\ MinStep \in Nat \ {0}
  /\ MinSamples \in Nat \ {0} /\ MaxSamples \in Nat /\ MinSamples <= MaxSamples
ASSUME UrlsAssumption == Urls \subseteq QueryLists
ASSUME BoundsAssumption ==
  MaxRows \in Nat \ {0} /\ {MaxEdits, MaxPatientEdits, MaxFailures} \subseteq Nat

(* The limits leave room for the leeway, which is less than 1: a number of *)
(* samples that is left as it is cannot be far off the soft limit.         *)
ASSUME LimitsAssumption ==
  /\ MaxDataPointsSoft \in Nat /\ MaxDataPointsHard \in Nat
  /\ SamplesLeeway \in Nat \ {0, 1}
  /\ SamplesLeeway * MaxDataPointsSoft <= (SamplesLeeway - 1) * MaxDataPointsHard

VARIABLES
  rows,        \* queryBrowser.queries
  url,         \* the query parameters of the URL, by index
  graph,       \* the state of QueryBrowser
  pending,     \* its requests in flight; identical ones count as one
  tables,      \* the state of the QueryTable of each row, and its requests
  page,        \* hideGraphs, whether a poll interval is set, the time span in
               \* Redux, and whether the user waits for the page to be quiet
  edits, failures

vars == <<rows, url, graph, pending, tables, page, edits, failures>>

----------------------------------------------------------------------------
(* The number of samples                                                   *)

Clamp(n, low, high) == IF n < low THEN low ELSE IF n > high THEN high ELSE n
CeilDiv(a, b) == (a + b - 1) \div b

getMaxSamplesForSpan(span) ==
  Clamp((2 * span + MinStep) \div (2 * MinStep), MinSamples, MaxSamples)

(* getTimeRanges cuts a span of a week or more into days.                  *)
RangeCount(span) == IF span < 7 * Chunk THEN 1 ELSE CeilDiv(span, Chunk)
RangeDuration(span) == IF span < 7 * Chunk THEN span ELSE Chunk

(* A range query has a whole number of seconds as its step, and each range *)
(* is asked for its share of the samples, rounded up.                      *)
PointsPerSeries(span, samples) ==
  LET share == CeilDiv(samples, RangeCount(span))
      step == CeilDiv(RangeDuration(span), share)
  IN  RangeCount(span) * CeilDiv(RangeDuration(span), step)

NewSamples(points, samples, span) ==
  IF points = 0 THEN getMaxSamplesForSpan(span)
  ELSE Clamp((samples * MaxDataPointsSoft) \div points, MinSamples, getMaxSamplesForSpan(span))

Distance(m, n) == IF m < n THEN n - m ELSE m - n

(* Mutant: a limit is not enforced once it is within the leeway.           *)
SamplesChangeLeewayOnly(new, samples, span) ==
  SamplesLeeway * Distance(new, samples) > samples

(* Whether the samples change, rather than the data being shown.           *)
SamplesChange(new, samples, span) ==
  \/ SamplesLeeway * Distance(new, samples) > samples
  \/ new # samples /\ new \in {getMaxSamplesForSpan(span), MinSamples}

----------------------------------------------------------------------------
(* Rows                                                                    *)

Row == [ text : TextOrBlank, query : TextOrBlank,
         enabled : BOOLEAN, expanded : BOOLEAN,
         series : TextOrBlank ]      \* the query whose series they are

newQueryBrowserQuery ==
  [text |-> Blank, query |-> Blank, enabled |-> TRUE, expanded |-> TRUE, series |-> Blank]

(* What an array holds between its end and an index that was assigned.     *)
Hole == [newQueryBrowserQuery EXCEPT !.enabled = FALSE, !.series = "hole"]

Queries(R) == [i \in DOMAIN R |-> R[i].query]

(* The texts that are not empty, in their order: each with its place.      *)
InOrder(texts) ==
  LET filled == {i \in DOMAIN texts : texts[i] # Blank}
  IN  {<<Cardinality({k \in filled : k <= i}), texts[i]>> : i \in filled}

(* Mutant: the texts typed, rather than the queries that run.              *)
QueriesKeyTyped(R) == InOrder([i \in DOMAIN R |-> R[i].text])

(* queriesKey: the queries that are not empty.                             *)
QueriesKey(R) == InOrder(Queries(R))

(* Assigning rows by index.                                                *)
Assigned(R, new) ==
  [i \in UNION {1 .. k : k \in DOMAIN R \cup DOMAIN new} |->
     IF i \in DOMAIN new THEN new[i] ELSE IF i \in DOMAIN R THEN R[i] ELSE Hole]

(* What queryBrowserPatchQueryHelper patches.                              *)
RowAt(R, i) == IF i \in DOMAIN R THEN R[i] ELSE newQueryBrowserQuery

(* Mutant: empty queries have no series to patch.                          *)
SeriesPatchedSkipping(R, queries) ==
  Assigned(R, [i \in {k \in DOMAIN queries : queries[k] # Blank} |->
                 [RowAt(R, i) EXCEPT !.series = queries[i]]])

(* The series of the answer to a list of queries, patched one by one.      *)
SeriesPatched(R, queries) ==
  Assigned(R, [i \in DOMAIN queries |-> [RowAt(R, i) EXCEPT !.series = queries[i]]])

DeleteAllSeries(R) == [i \in DOMAIN R |-> [R[i] EXCEPT !.series = Blank]]

----------------------------------------------------------------------------
(* Rendering                                                               *)

Request == [queries : QueryLists, samples : Nat, span : Spans]

NewGraph ==
  [ mounted |-> TRUE, span |-> DefaultSpan, samples |-> getMaxSamplesForSpan(DefaultSpan),
    zoomed |-> FALSE, data |-> <<>>, points |-> 0,
    updating |-> TRUE, isDatasetTooBig |-> FALSE, error |-> FALSE ]
NoGraph == [NewGraph EXCEPT !.mounted = FALSE, !.updating = FALSE]

(* A tick of the graph sends this request.                                 *)
RequestOf(R, g) == [queries |-> Queries(R), samples |-> g.samples, span |-> g.span]

(* Without a query, or with hidden graphs, there is no QueryBrowser.       *)
GraphOf(R, hidden) ==
  IF hidden \/ QueriesKey(R) = {} THEN NoGraph
  ELSE IF graph.mounted
       THEN [graph EXCEPT !.updating = @ \/ QueriesKey(R) # QueriesKey(rows)]
       ELSE NewGraph

(* A graph asks when it appears, when the queries it shows change, and     *)
(* again when something else its poll depends on does.                     *)
PendingOf(R, g, again) ==
  IF ~g.mounted THEN {}
  ELSE IF ~graph.mounted \/ again \/ QueriesKey(R) # QueriesKey(rows)
       THEN pending \cup {RequestOf(R, g)}
       ELSE pending

NewTable == [data |-> Blank, error |-> FALSE, pending |-> {}]

(* What a tick of a table adds to its requests.                            *)
TableRequests(row) == IF row.enabled /\ row.expanded /\ row.query # Blank THEN {row.query} ELSE {}

OpenedTable(row) == [NewTable EXCEPT !.pending = TableRequests(row)]

(* Mutant: the data of the query that was there before stays.              *)
TableOfKeeping(table, old, new, again) ==
  [table EXCEPT !.pending = IF again \/ new.query # old.query
                            THEN @ \cup TableRequests(new) ELSE @]

(* The table at a position whose row was `old` and is now `new`.           *)
TableOf(table, old, new, again) ==
  IF new.query # old.query
  THEN [data |-> Blank, error |-> FALSE, pending |-> table.pending \cup TableRequests(new)]
  ELSE [table EXCEPT !.pending = IF again THEN @ \cup TableRequests(new) ELSE @]

TablesOf(R, again) ==
  [i \in DOMAIN R |-> IF i \in DOMAIN rows THEN TableOf(tables[i], rows[i], R[i], again)
                      ELSE OpenedTable(R[i])]

(* Mutant: nothing is removed.                                             *)
KeepQueryKeys(u) == u

removeQueryKeys(u) == <<>>

(* The URL once the effect on the queries has run.                         *)
UrlOf(u, R) ==
  LET kept == removeQueryKeys(u)
  IN  [i \in DOMAIN R \cup DOMAIN kept |-> IF i \in DOMAIN R THEN R[i].query ELSE kept[i]]

(* The page once the list of queries has become R.                         *)
Rendered(R, hidden, again) ==
  LET g == GraphOf(R, hidden)
  IN  /\ graph' = g
      /\ pending' = PendingOf(R, g, again)
      /\ rows' = IF g.mounted /\ ~graph.mounted THEN DeleteAllSeries(R) ELSE R
      /\ url' = UrlOf(url, R)
      /\ tables' = TablesOf(R, again)

Quiet == pending = {} /\ \A i \in DOMAIN tables : tables[i].pending = {}

----------------------------------------------------------------------------
(* Opening the page: its queries are the consecutive ones of the URL.      *)

RowOfQuery(q) == [newQueryBrowserQuery EXCEPT !.query = q, !.text = q]

UrlQueries(u) == [i \in {k \in DOMAIN u : 1 .. k \subseteq DOMAIN u} |-> RowOfQuery(u[i])]

OpenedRows(u) == IF UrlQueries(u) = <<>> THEN <<newQueryBrowserQuery>> ELSE UrlQueries(u)

OpenedGraph(R) == IF QueriesKey(R) = {} THEN NoGraph ELSE NewGraph

OpenedPending(R) == IF QueriesKey(R) = {} THEN {} ELSE {RequestOf(R, NewGraph)}

OpenedTables(R) == [i \in DOMAIN R |-> OpenedTable(R[i])]

Init ==
  /\ \E u \in Urls :
       /\ rows = OpenedRows(u)
       /\ url = UrlOf(u, OpenedRows(u))
       /\ graph = OpenedGraph(OpenedRows(u))
       /\ pending = OpenedPending(OpenedRows(u))
       /\ tables = OpenedTables(OpenedRows(u))
  /\ page \in [hideGraphs : {FALSE}, polling : {FALSE}, timespan : {DefaultSpan}, patient : BOOLEAN]
  /\ edits = 0 /\ failures = 0

----------------------------------------------------------------------------
(* The user                                                                *)

Edit == /\ edits < (IF page.patient THEN MaxPatientEdits ELSE MaxEdits)
        /\ edits' = edits + 1
        /\ page.patient => Quiet
        /\ UNCHANGED failures

(* An event that changes the list of queries and nothing else.             *)
EditRows(R, again) == Edit /\ Rendered(R, page.hideGraphs, again) /\ UNCHANGED page

QueryBrowserAddQuery ==
  /\ Len(rows) < MaxRows
  /\ EditRows(Append(rows, newQueryBrowserQuery), FALSE)

QueryBrowserDuplicateQuery(i) ==
  /\ Len(rows) < MaxRows
  /\ EditRows(Append(rows, [newQueryBrowserQuery EXCEPT
                              !.text = rows[i].text, !.enabled = FALSE]), FALSE)

Without(R, i) == SubSeq(R, 1, i - 1) \o SubSeq(R, i + 1, Len(R))

QueryBrowserDeleteQuery(i) ==
  EditRows(IF Len(rows) = 1 THEN <<newQueryBrowserQuery>> ELSE Without(rows, i), FALSE)

(* Also what a change of the namespace does, here and in the developer     *)
(* perspective.                                                            *)
QueryBrowserDeleteAllQueries == EditRows(<<newQueryBrowserQuery>>, FALSE)

handleTextChange(i, t) == t # rows[i].text /\ EditRows([rows EXCEPT ![i].text = t], FALSE)

QueryBrowserRunQueries ==
  EditRows([i \in DOMAIN rows |->
              IF rows[i].enabled /\ rows[i].query # rows[i].text
              THEN [rows[i] EXCEPT !.query = rows[i].text, !.series = Blank]
              ELSE rows[i]], TRUE)

QueryBrowserSetAllExpanded ==
  LET all == \A i \in DOMAIN rows : rows[i].expanded
  IN  EditRows([i \in DOMAIN rows |-> [rows[i] EXCEPT !.expanded = ~all]], FALSE)

QueryBrowserToggleIsEnabled(i) ==
  LET isEnabled == ~rows[i].enabled
  IN  EditRows([rows EXCEPT ![i].enabled = isEnabled, ![i].expanded = isEnabled,
                            ![i].query = IF isEnabled THEN rows[i].text ELSE Blank], FALSE)

(* queryBrowserPatchQuery(i, { isEnabled: true, query, text: query })      *)
QueryPatched(i, q) ==
  Assigned(rows, [k \in {i} |-> [RowAt(rows, i) EXCEPT !.enabled = TRUE, !.query = q, !.text = q]])

insertPredefinedQuery(q) ==
  LET i == IF Len(rows) = 1 /\ rows[1].text = Blank THEN 1 ELSE Len(rows) + 1
  IN  /\ rows[Len(rows)].text # q /\ i <= MaxRows
      /\ EditRows(QueryPatched(i, q), FALSE)

(* The example goes to the input that had the focus last, or to the first. *)
insertExampleQuery(i, q) ==
  /\ ~page.hideGraphs /\ QueriesKey(rows) = {}
  /\ EditRows(QueryPatched(i, q), FALSE)

(* Switching polling on or off starts the polls anew.                      *)
QueryBrowserSetPollInterval ==
  /\ Edit /\ Rendered(rows, page.hideGraphs, TRUE)
  /\ page' = [page EXCEPT !.polling = ~@]

ToggleGraphs ==
  /\ Edit /\ Rendered(rows, ~page.hideGraphs, FALSE)
  /\ page' = [page EXCEPT !.hideGraphs = ~@]

(* A span: the graph is emptied and asks with the samples of that span.    *)
(* A dataset that is too big takes the place of the graph and its controls.*)
SpanChanged(s, zoomed) ==
  LET g == [graph EXCEPT !.span = s, !.samples = getMaxSamplesForSpan(s), !.zoomed = zoomed,
                         !.data = <<>>, !.points = 0, !.updating = TRUE]
  IN  /\ graph.mounted /\ ~graph.isDatasetTooBig
      /\ Edit /\ graph' = g /\ pending' = pending \cup {RequestOf(rows, g)}
      /\ UNCHANGED <<rows, url>>

(* The control also sets the span in Redux, on which the tables depend.    *)
onSpanChange(s) ==
  /\ s # graph.span /\ SpanChanged(s, FALSE) /\ page' = [page EXCEPT !.timespan = s]
  /\ tables' = TablesOf(rows, s # page.timespan)

zoomableGraphOnZoom(s) ==
  /\ graph.data # <<>> /\ s <= graph.span
  /\ SpanChanged(s, TRUE) /\ UNCHANGED <<page, tables>>

(* Loading the page again, from its URL.                                   *)
Reload ==
  /\ Edit
  /\ LET R == OpenedRows(url)
     IN  /\ rows' = R /\ url' = UrlOf(url, R) /\ graph' = OpenedGraph(R)
         /\ pending' = OpenedPending(R) /\ tables' = OpenedTables(R)
  /\ page' = [page EXCEPT !.hideGraphs = FALSE, !.polling = FALSE, !.timespan = DefaultSpan]

----------------------------------------------------------------------------
(* Polls                                                                   *)

(* Only a graph that shows the latest data polls.                          *)
PollGraph ==
  /\ page.polling /\ graph.mounted /\ ~graph.zoomed
  /\ pending' = pending \cup {RequestOf(rows, graph)}
  /\ UNCHANGED <<rows, url, graph, tables, page, edits, failures>>

PollTable(i) ==
  /\ page.polling
  /\ tables' = [tables EXCEPT ![i].pending = @ \cup TableRequests(rows[i])]
  /\ UNCHANGED <<rows, url, graph, pending, page, edits, failures>>

----------------------------------------------------------------------------
(* Answers                                                                 *)

NumDataPoints(r) == SeriesCount[r.queries] * PointsPerSeries(r.span, r.samples)

TooBig(r) == NumDataPoints(r) > MaxDataPointsHard /\ r.samples = MinSamples

(* "The resulting dataset is too large to graph."  It goes on updating.    *)
AnswerTooBig(r) ==
  /\ TooBig(r)
  /\ graph' = [graph EXCEPT !.isDatasetTooBig = TRUE]
  /\ pending' = pending \ {r}
  /\ UNCHANGED <<rows, url, tables>>

(* Another number of samples; the graph asks again if it is new to it.     *)
AnswerRefetches(r) ==
  LET new == NewSamples(NumDataPoints(r), r.samples, r.span)
      g == [graph EXCEPT !.isDatasetTooBig = FALSE, !.error = FALSE, !.samples = new,
                         !.updating = @ \/ new # graph.samples]
  IN  /\ ~TooBig(r) /\ SamplesChange(new, r.samples, r.span)
      /\ graph' = g
      /\ pending' = (pending \ {r}) \cup
                    (IF new = graph.samples THEN {} ELSE {RequestOf(rows, g)})
      /\ UNCHANGED <<rows, url, tables>>

(* The data are shown and the series stored, by index.                     *)
AnswerShown(r) ==
  LET R == SeriesPatched(rows, r.queries)
  IN  /\ ~TooBig(r)
      /\ ~SamplesChange(NewSamples(NumDataPoints(r), r.samples, r.span), r.samples, r.span)
      /\ graph' = [graph EXCEPT !.isDatasetTooBig = FALSE, !.error = FALSE, !.updating = FALSE,
                                !.data = r.queries, !.points = NumDataPoints(r)]
      /\ pending' = pending \ {r}
      /\ rows' = R /\ url' = UrlOf(url, R) /\ tables' = TablesOf(R, FALSE)

Answered(r) ==
  /\ AnswerTooBig(r) \/ AnswerRefetches(r) \/ AnswerShown(r)
  /\ UNCHANGED <<page, edits, failures>>

(* Mutant: an error does not end the update.                               *)
FailsUpdating(r) ==
  /\ failures < MaxFailures /\ failures' = failures + 1
  /\ graph' = [graph EXCEPT !.error = TRUE]
  /\ pending' = pending \ {r}
  /\ UNCHANGED <<rows, url, tables, page, edits>>

Fails(r) ==
  /\ failures < MaxFailures /\ failures' = failures + 1
  /\ graph' = [graph EXCEPT !.error = TRUE, !.updating = FALSE]
  /\ pending' = pending \ {r}
  /\ UNCHANGED <<rows, url, tables, page, edits>>

TableAnswered(i, t) ==
  /\ tables' = [tables EXCEPT ![i] = [data |-> t, error |-> FALSE, pending |-> @.pending \ {t}]]
  /\ UNCHANGED <<rows, url, graph, pending, page, edits, failures>>

TableFails(i, t) ==
  /\ failures < MaxFailures /\ failures' = failures + 1
  /\ tables' = [tables EXCEPT ![i] = [data |-> Blank, error |-> TRUE, pending |-> @.pending \ {t}]]
  /\ UNCHANGED <<rows, url, graph, pending, page, edits>>

----------------------------------------------------------------------------
User ==
  \/ QueryBrowserAddQuery \/ QueryBrowserDeleteAllQueries \/ QueryBrowserRunQueries
  \/ QueryBrowserSetAllExpanded \/ QueryBrowserSetPollInterval \/ ToggleGraphs \/ Reload
  \/ \E i \in DOMAIN rows :
       \/ QueryBrowserDuplicateQuery(i) \/ QueryBrowserDeleteQuery(i) \/ QueryBrowserToggleIsEnabled(i)
       \/ \E t \in TextOrBlank : handleTextChange(i, t)
       \/ \E t \in Text : insertExampleQuery(i, t)
  \/ \E t \in Text : insertPredefinedQuery(t)
  \/ \E s \in Spans : onSpanChange(s) \/ zoomableGraphOnZoom(s)

Answers ==
  \/ \E r \in pending : Answered(r) \/ Fails(r)

TableAnswers ==
  \E i \in DOMAIN tables : \E t \in tables[i].pending : TableAnswered(i, t) \/ TableFails(i, t)

Polls == PollGraph \/ \E i \in DOMAIN tables : PollTable(i)

Next == User \/ Answers \/ TableAnswers \/ Polls

Spec == Init /\ [][Next]_vars

(* Requests of the graph are answered or fail.  The user owes nothing, and *)
(* polls are not relied on.                                                *)
FairSpec == Spec /\ WF_vars(Answers)

(* The same, spelled out for larger instances because ENABLED is slow to   *)
(* evaluate: Answers is enabled while there is a request, and only its     *)
(* steps remove a request and let the others be.                           *)
RequestAnswered == \E r \in pending : r \notin pending'

AnsweringSpec == Spec /\ ([]<>(pending = {}) \/ []<><<RequestAnswered>>_vars)

----------------------------------------------------------------------------
(* Properties                                                              *)

Graph == [ mounted : BOOLEAN, span : Spans, samples : Nat, zoomed : BOOLEAN,
           data : QueryLists, points : Nat,
           updating : BOOLEAN, isDatasetTooBig : BOOLEAN, error : BOOLEAN ]

Table == [data : TextOrBlank, error : BOOLEAN, pending : SUBSET Text]

(* The list of queries is never empty and has no holes, though answers     *)
(* assign its rows by the indices of an older list.                        *)
RowsTypeOK ==
  /\ \E n \in 1 .. MaxRows : rows \in [1 .. n -> Row]
  /\ url \in QueryLists
  /\ graph \in Graph
  /\ pending \subseteq Request
  /\ tables \in [DOMAIN rows -> Table]
  /\ page \in [hideGraphs : BOOLEAN, polling : BOOLEAN, timespan : Spans, patient : BOOLEAN]
  /\ edits \in Nat /\ failures \in 0 .. MaxFailures

(* "If we have more than this number of data points, do not render the     *)
(* graph": the graph stays within the hard limit, whatever the leeway of   *)
(* the samples lets pass.                                                  *)
NotTooManyPoints == graph.points <= MaxDataPointsHard

(* Whatever was added, deleted or disabled before, loading the page again  *)
(* from its URL runs the same queries (the effect that updates the URL).   *)
ReloadKeepsQueries == [][Reload => Queries(rows') = Queries(rows)]_vars

(* For a user who waits: a table holds results of no other query than that *)
(* of its row, though rows move when one above them is deleted.            *)
TablesShowTheirQuery ==
  page.patient =>
    \A i \in DOMAIN rows : tables[i].data \in {Blank, rows[i].query}

(* For a user who waits: once the page is quiet, each query has the series *)
(* of its own answer, from which the buttons of its table take the colours *)
(* of the graph.                                                           *)
ButtonsMatchGraph ==
  page.patient /\ Quiet /\ graph.mounted /\ ~graph.error /\ ~graph.isDatasetTooBig =>
    \A i \in DOMAIN rows : rows[i].query # Blank => rows[i].series = rows[i].query

(* The graph does not go on for ever updating, and asking with one number  *)
(* of samples after another, unless it says that there are too many data.  *)
LoadingEnds == <>[](graph.updating => graph.isDatasetTooBig)
=============================================================================
