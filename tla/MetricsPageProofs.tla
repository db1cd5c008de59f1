-------------------------- MODULE MetricsPageProofs --------------------------
(* Proofs about MetricsPage.                                               *)
EXTENDS MetricsPage, FiniteSetTheorems, TLAPS

SampleNumbers == MinSamples .. MaxSamples

RowLists == UNION {[1 .. n -> Row] : n \in 1 .. MaxRows}

(* What holds of the graph and of its requests.                            *)
GraphOK(g) == g \in Graph /\ g.samples \in SampleNumbers /\ g.points <= MaxDataPointsHard
PendingOK(p) == p \subseteq Request /\ \A r \in p : r.samples \in SampleNumbers

(* What holds of the tables of rows R, of a user who waits if w.           *)
TablesOK(T, R, w) ==
  /\ T \in [DOMAIN R -> Table]
  /\ w => \A i \in DOMAIN R :
            T[i].data \in {Blank, R[i].query} /\ T[i].pending \subseteq {R[i].query}

Pages == [hideGraphs : BOOLEAN, polling : BOOLEAN, timespan : Spans, patient : BOOLEAN]

(* The inductive invariant.  The URL has to mirror the rows for a reload   *)
(* to be typed; requests have to carry a legal number of samples for their *)
(* answers to be bounded; and for a user who waits a table only ever waits *)
(* for the query of its own row.                                           *)
PInv ==
  /\ rows \in RowLists
  /\ url = Queries(rows)
  /\ GraphOK(graph)
  /\ PendingOK(pending)
  /\ TablesOK(tables, rows, page.patient)
  /\ page \in Pages
  /\ edits \in Nat /\ failures \in 0 .. MaxFailures

----------------------------------------------------------------------------
(* The number of samples                                                   *)

(* A span's largest number of samples is within the limits.                *)
LEMMA SamplesOfSpan ==
  ASSUME NEW s \in Spans
  PROVE  getMaxSamplesForSpan(s) \in SampleNumbers
<1> s \in Nat
  BY SpansAssumption
<1>1. (2 * s + MinStep) \div (2 * MinStep) \in Int
  BY SamplesAssumption
<1> QED
  BY <1>1, SamplesAssumption DEF getMaxSamplesForSpan, Clamp, SampleNumbers

LEMMA CeilDivNat ==
  ASSUME NEW a \in Nat \ {0}, NEW b \in Nat \ {0}
  PROVE  CeilDiv(a, b) \in Nat \ {0}
<1>1. a + b - 1 \in Nat /\ a + b - 1 >= b
  OBVIOUS
<1>2. ASSUME NEW c \in Nat, c >= b PROVE c \div b \in Nat \ {0}
  BY <1>2
<1> QED
  BY <1>1, <1>2 DEF CeilDiv

(* How a span is cut into ranges.                                          *)
LEMMA RangesNat ==
  ASSUME NEW s \in Spans
  PROVE  RangeCount(s) \in Nat \ {0} /\ RangeDuration(s) \in Nat \ {0}
<1>1. s \in Nat \ {0} /\ Chunk \in Nat \ {0}
  BY SpansAssumption, SamplesAssumption
<1>2. CeilDiv(s, Chunk) \in Nat \ {0}
  BY <1>1, CeilDivNat
<1> QED
  BY <1>1, <1>2 DEF RangeCount, RangeDuration

LEMMA PointsPerSeriesNat ==
  ASSUME NEW s \in Spans, NEW n \in Nat \ {0}
  PROVE  PointsPerSeries(s, n) \in Nat
<1> DEFINE c == RangeCount(s)
           d == RangeDuration(s)
           share == CeilDiv(n, c)
           step == CeilDiv(d, share)
<1>1. c \in Nat \ {0} /\ d \in Nat \ {0}
  BY RangesNat
<1>2. share \in Nat \ {0}
  BY <1>1, CeilDivNat
<1>3. step \in Nat \ {0}
  BY <1>1, <1>2, CeilDivNat
<1>4. CeilDiv(d, step) \in Nat
  BY <1>1, <1>3, CeilDivNat
<1>5. PointsPerSeries(s, n) = c * CeilDiv(d, step)
  BY DEF PointsPerSeries
<1> HIDE DEF c, d, share, step
<1> QED
  BY <1>1, <1>4, <1>5

(* The answer to a request has a natural number of data points.            *)
LEMMA PointsNat ==
  ASSUME NEW r \in Request, r.samples \in SampleNumbers
  PROVE  NumDataPoints(r) \in Nat
<1>1. r.span \in Spans /\ r.queries \in QueryLists
  BY DEF Request
<1>2. r.samples \in Nat \ {0}
  BY SamplesAssumption DEF SampleNumbers
<1>3. SeriesCount[r.queries] \in Nat
  BY <1>1, SeriesAssumption
<1>4. PointsPerSeries(r.span, r.samples) \in Nat
  BY <1>1, <1>2, PointsPerSeriesNat
<1> QED
  BY <1>3, <1>4 DEF NumDataPoints

(* Whatever is asked for next is a legal number of samples.                *)
LEMMA NewSamplesLegal ==
  ASSUME NEW p \in Nat, NEW n \in Nat, NEW s \in Spans
  PROVE  NewSamples(p, n, s) \in SampleNumbers
<1>1. getMaxSamplesForSpan(s) \in SampleNumbers
  BY SamplesOfSpan
<1>2. CASE p = 0
  BY <1>1, <1>2 DEF NewSamples
<1>3. CASE p # 0
  <2>1. (n * MaxDataPointsSoft) \div p \in Int
    BY <1>3, LimitsAssumption
  <2> QED
    BY <1>1, <1>3, <2>1, SamplesAssumption DEF NewSamples, Clamp, SampleNumbers
<1> QED
  BY <1>2, <1>3

(* Products of natural numbers are monotonic.                              *)
LEMMA TimesMonotonic ==
  ASSUME NEW a \in Nat, NEW b \in Nat, NEW c \in Nat, a <= b
  PROVE  c * a <= c * b
OBVIOUS

LEMMA ProductChain ==
  ASSUME NEW a \in Nat, NEW b \in Nat, NEW c, NEW d \in Nat, NEW e, NEW f,
         a <= b, b = c, c <= d, d = e, a = f
  PROVE  f <= e
OBVIOUS

(* A fraction of something larger is the smaller one.                      *)
LEMMA SmallerFactor ==
  ASSUME NEW a \in Nat, NEW b \in Nat \ {0}, NEW p \in Nat, NEW h \in Nat,
         p > h, a * p <= b * h
  PROVE  a < b
<1> SUFFICES ASSUME a >= b PROVE FALSE
  OBVIOUS
<1>1. p * b <= p * a
  BY TimesMonotonic
<1>2. b * (h + 1) <= b * p
  BY TimesMonotonic
<1>3. b * (h + 1) = b * h + b
  OBVIOUS
<1>4. p * b = b * p /\ p * a = a * p
  OBVIOUS
<1>5. b * h \in Nat /\ b * p \in Nat /\ a * p \in Nat
  OBVIOUS
<1> QED
  BY <1>1, <1>2, <1>3, <1>4, <1>5

(* The arithmetic of the leeway, with q the samples that would meet the    *)
(* soft limit: above the hard limit they are too far from n to be let be.  *)
LEMMA Leeway ==
  ASSUME NEW p \in Nat, NEW n \in Nat \ {0}, NEW q \in Nat,
         p > MaxDataPointsHard, q * p <= n * MaxDataPointsSoft
  PROVE  q < n /\ SamplesLeeway * (n - q) > n
<1> DEFINE L == SamplesLeeway
           S == MaxDataPointsSoft
           H == MaxDataPointsHard
           M == L - 1
<1>0. L \in Nat /\ M \in Nat \ {0} /\ S \in Nat /\ H \in Nat /\ L = M + 1
  BY LimitsAssumption
<1>a. L * S <= M * H /\ p > H /\ q * p <= n * S
  BY LimitsAssumption
<1> HIDE DEF L, S, H, M
<1>1. /\ q * p \in Nat /\ n * S \in Nat /\ L * S \in Nat /\ M * H \in Nat /\ M * n \in Nat
      /\ L * (q * p) \in Nat /\ L * (n * S) \in Nat /\ n * (M * H) \in Nat
  BY <1>0
<1>2. L * (q * p) <= L * (n * S)
  BY <1>0, <1>1, <1>a, TimesMonotonic
<1>3. L * (n * S) = n * (L * S)
  BY <1>0
<1>4. n * (L * S) <= n * (M * H)
  BY <1>1, <1>a, TimesMonotonic
<1>5. n * (M * H) = (M * n) * H /\ L * (q * p) = (L * q) * p
  BY <1>0
<1>6. (L * q) * p <= (M * n) * H
  BY <1>1, <1>2, <1>3, <1>4, <1>5, ProductChain
<1>7. M * n # 0 /\ L * q \in Nat
  BY <1>0
<1>8. L * q < M * n
  BY <1>0, <1>1, <1>a, <1>6, <1>7, SmallerFactor
<1>9. L * (n - q) = L * n - L * q /\ L * n = M * n + n
  BY <1>0
<1>10. L * (n - q) > n
  BY <1>1, <1>7, <1>8, <1>9
<1>11. q < n
  <2> SUFFICES ASSUME q >= n PROVE FALSE
    OBVIOUS
  <2>1. L * n <= L * q
    BY <1>0, TimesMonotonic
  <2> QED
    BY <2>1, <1>1, <1>7, <1>8, <1>9
<1> QED
  BY <1>10, <1>11 DEF L

(* Data that are shown are within the hard limit.                          *)
LEMMA ShownWithinLimit ==
  ASSUME NEW r \in Request, r.samples \in SampleNumbers, ~TooBig(r),
         ~SamplesChange(NewSamples(NumDataPoints(r), r.samples, r.span), r.samples, r.span)
  PROVE  NumDataPoints(r) <= MaxDataPointsHard
<1> DEFINE p == NumDataPoints(r)
           n == r.samples
           top == getMaxSamplesForSpan(r.span)
           q == (n * MaxDataPointsSoft) \div p
           new == NewSamples(p, n, r.span)
<1>1. p \in Nat
  BY PointsNat
<1>2. n \in Nat \ {0} /\ MinSamples \in Nat \ {0} /\ top \in Nat /\ MinSamples <= top
  BY SamplesOfSpan, SamplesAssumption DEF SampleNumbers, Request
<1>3. MaxDataPointsSoft \in Nat /\ MaxDataPointsHard \in Nat /\ SamplesLeeway \in Nat \ {0}
  BY LimitsAssumption
<1>4. ~(p > MaxDataPointsHard /\ n = MinSamples)
  BY DEF TooBig
<1>5. ~SamplesChange(new, n, r.span)
  OBVIOUS
<1> SUFFICES ASSUME p > MaxDataPointsHard PROVE FALSE
  BY <1>1, <1>3
<1>6. n # MinSamples /\ p # 0
  BY <1>3, <1>4
<1>7. n * MaxDataPointsSoft \in Nat
  BY <1>2, <1>3
<1>8. q \in Nat /\ q * p <= n * MaxDataPointsSoft
  BY <1>1, <1>6, <1>7
<1>9. new = Clamp(q, MinSamples, top)
  BY <1>6 DEF NewSamples
<1> HIDE DEF p, n, top, q, new
<1>10. q < n /\ SamplesLeeway * (n - q) > n
  BY <1>1, <1>2, <1>8, Leeway
<1>11. CASE q < MinSamples
  <2>1. new = MinSamples
    BY <1>9, <1>11 DEF Clamp
  <2> QED
    BY <2>1, <1>5, <1>6 DEF SamplesChange, top
<1>12. CASE q >= MinSamples /\ q <= top
  <2>1. new = q
    BY <1>2, <1>8, <1>9, <1>12 DEF Clamp
  <2>2. Distance(new, n) = n - q
    BY <2>1, <1>10 DEF Distance
  <2> QED
    BY <2>2, <1>5, <1>10 DEF SamplesChange
<1>13. CASE q > top
  <2>1. new = top
    BY <1>2, <1>8, <1>9, <1>13 DEF Clamp
  <2>2. new # n
    BY <2>1, <1>2, <1>8, <1>10, <1>13
  <2> QED
    BY <2>1, <2>2, <1>5 DEF SamplesChange, top
<1> QED
  BY <1>2, <1>8, <1>11, <1>12, <1>13

----------------------------------------------------------------------------
(* Lists of rows                                                           *)

(* A list of rows, as a function and as a sequence.                        *)
LEMMA RowListFacts ==
  ASSUME NEW R \in RowLists
  PROVE  /\ Len(R) \in 1 .. MaxRows /\ DOMAIN R = 1 .. Len(R)
         /\ R \in [1 .. Len(R) -> Row] /\ R \in Seq(Row) /\ R # <<>>
<1>1. PICK n \in 1 .. MaxRows : R \in [1 .. n -> Row]
  BY DEF RowLists
<1>2. n \in Nat /\ R \in Seq(Row) /\ Len(R) = n
  BY <1>1, BoundsAssumption
<1> QED
  BY <1>1, <1>2

LEMMA RowListIntro ==
  ASSUME NEW n \in 1 .. MaxRows, NEW R \in [1 .. n -> Row]
  PROVE  R \in RowLists
BY DEF RowLists

LEMMA RowSequence ==
  ASSUME NEW s \in Seq(Row), Len(s) \in 1 .. MaxRows
  PROVE  s \in RowLists
<1>1. s \in [1 .. Len(s) -> Row]
  OBVIOUS
<1> QED
  BY <1>1, RowListIntro

LEMMA RowFields ==
  ASSUME NEW r \in Row
  PROVE  /\ r.text \in TextOrBlank /\ r.query \in TextOrBlank
         /\ [r EXCEPT !.series = Blank] \in Row
BY DEF Row, TextOrBlank

LEMMA QueriesOK ==
  ASSUME NEW R \in RowLists
  PROVE  Queries(R) \in QueryLists
<1>1. PICK n \in 1 .. MaxRows : R \in [1 .. n -> Row]
  BY DEF RowLists
<1>2. \A i \in 1 .. n : R[i].query \in TextOrBlank
  BY <1>1, RowFields
<1>3. Queries(R) \in [1 .. n -> TextOrBlank]
  BY <1>1, <1>2 DEF Queries
<1> QED
  BY <1>3, BoundsAssumption DEF QueryLists

LEMMA DeleteAllSeriesOK ==
  ASSUME NEW R \in RowLists
  PROVE  /\ DeleteAllSeries(R) \in RowLists
         /\ DOMAIN DeleteAllSeries(R) = DOMAIN R
         /\ \A i \in DOMAIN R : DeleteAllSeries(R)[i].query = R[i].query
         /\ Queries(DeleteAllSeries(R)) = Queries(R)
<1>1. PICK n \in 1 .. MaxRows : R \in [1 .. n -> Row]
  BY DEF RowLists
<1>2. DeleteAllSeries(R) \in [1 .. n -> Row]
  BY <1>1, RowFields DEF DeleteAllSeries
<1>3. \A i \in DOMAIN R : DeleteAllSeries(R)[i].query = R[i].query
  BY <1>1 DEF DeleteAllSeries, Row
<1>4. DOMAIN DeleteAllSeries(R) = DOMAIN R
  BY DEF DeleteAllSeries
<1> QED
  BY <1>2, <1>3, <1>4, RowListIntro DEF Queries

LEMMA NewRowOK ==
  /\ newQueryBrowserQuery \in Row /\ newQueryBrowserQuery.query = Blank
  /\ <<newQueryBrowserQuery>> \in RowLists
<1>1. newQueryBrowserQuery \in Row /\ newQueryBrowserQuery.query = Blank
  BY DEF newQueryBrowserQuery, Row, TextOrBlank
<1>2. <<newQueryBrowserQuery>> \in [1 .. 1 -> Row]
  BY <1>1
<1>3. 1 \in 1 .. MaxRows
  BY BoundsAssumption
<1>4. <<newQueryBrowserQuery>> \in RowLists
  BY <1>2, <1>3, RowListIntro
<1> QED
  BY <1>1, <1>4

LEMMA RowAtOK ==
  ASSUME NEW R \in RowLists, NEW i
  PROVE  RowAt(R, i) \in Row
BY RowListFacts, NewRowOK DEF RowAt

(* Rows assigned up to one past the end of the list leave no hole.         *)
LEMMA AssignedOK ==
  ASSUME NEW R \in RowLists, NEW new, \A i \in DOMAIN new : new[i] \in Row,
         NEW m \in 0 .. MaxRows, DOMAIN new \subseteq 1 .. m,
         (Len(R) + 1) .. m \subseteq DOMAIN new
  PROVE  /\ Assigned(R, new) \in RowLists
         /\ \A i \in DOMAIN Assigned(R, new) :
              \/ i \in DOMAIN new /\ Assigned(R, new)[i] = new[i]
              \/ i \in DOMAIN R /\ Assigned(R, new)[i] = R[i]
<1> DEFINE n == Len(R)
           D == UNION {1 .. k : k \in DOMAIN R \cup DOMAIN new}
           A == Assigned(R, new)
<1>1. n \in 1 .. MaxRows /\ DOMAIN R = 1 .. n /\ R \in [1 .. n -> Row]
  BY RowListFacts
<1>2. MaxRows \in Nat
  BY BoundsAssumption
<1>3. \E j \in 1 .. MaxRows : D = 1 .. j /\ D = DOMAIN R \cup DOMAIN new
  <2>1. CASE m <= n
    <3>1. D = 1 .. n
      BY <1>1, <1>2, <2>1
    <3> QED
      BY <1>1, <1>2, <2>1, <3>1
  <2>2. CASE m > n
    <3>1. m \in DOMAIN new /\ DOMAIN R \cup DOMAIN new = 1 .. m
      BY <1>1, <1>2, <2>2
    <3>2. D = 1 .. m
      BY <1>2, <3>1
    <3> QED
      BY <1>1, <1>2, <2>2, <3>1, <3>2
  <2>3. m <= n \/ m > n
    BY <1>1, <1>2
  <2> QED
    BY <2>1, <2>2, <2>3
<1>4. DOMAIN A = D
  BY DEF Assigned
<1>5. \A i \in D : \/ i \in DOMAIN new /\ A[i] = new[i]
                   \/ i \in DOMAIN R /\ A[i] = R[i]
  BY <1>3 DEF Assigned
<1>6. \A i \in D : A[i] \in Row
  BY <1>1, <1>5
<1>7. A = [i \in D |-> A[i]]
  BY DEF Assigned
<1> HIDE DEF A, D, n
<1>8. A \in RowLists
  <2>1. PICK j \in 1 .. MaxRows : D = 1 .. j
    BY <1>3
  <2>2. A \in [1 .. j -> Row]
    BY <1>6, <1>7, <2>1
  <2> QED
    BY <2>2, RowListIntro
<1> QED
  BY <1>4, <1>5, <1>8 DEF A

(* The list has the rows it had and the rows assigned, with their new      *)
(* contents.                                                               *)
LEMMA AssignedValues ==
  ASSUME NEW R \in RowLists, NEW new, \A i \in DOMAIN new : new[i] \in Row,
         NEW m \in 0 .. MaxRows, DOMAIN new \subseteq 1 .. m,
         (Len(R) + 1) .. m \subseteq DOMAIN new
  PROVE  /\ DOMAIN Assigned(R, new) = DOMAIN R \cup DOMAIN new
         /\ \A i \in DOMAIN new : Assigned(R, new)[i] = new[i]
<1> DEFINE n == Len(R)
           D == UNION {1 .. k : k \in DOMAIN R \cup DOMAIN new}
           A == Assigned(R, new)
<1>1. n \in 1 .. MaxRows /\ DOMAIN R = 1 .. n /\ R \in [1 .. n -> Row]
  BY RowListFacts
<1>2. MaxRows \in Nat
  BY BoundsAssumption
<1>3. \E j \in 1 .. MaxRows : D = 1 .. j /\ D = DOMAIN R \cup DOMAIN new
  <2>1. CASE m <= n
    <3>1. D = 1 .. n
      BY <1>1, <1>2, <2>1
    <3> QED
      BY <1>1, <1>2, <2>1, <3>1
  <2>2. CASE m > n
    <3>1. m \in DOMAIN new /\ DOMAIN R \cup DOMAIN new = 1 .. m
      BY <1>1, <1>2, <2>2
    <3>2. D = 1 .. m
      BY <1>2, <3>1
    <3> QED
      BY <1>1, <1>2, <2>2, <3>1, <3>2
  <2>3. m <= n \/ m > n
    BY <1>1, <1>2
  <2> QED
    BY <2>1, <2>2, <2>3
<1>4. DOMAIN A = D
  BY DEF Assigned
<1>9. \A i \in DOMAIN new : A[i] = new[i]
  BY <1>3 DEF Assigned
<1> QED
  BY <1>3, <1>4, <1>9 DEF A

(* Patching series changes no query.                                       *)
LEMMA SeriesPatchedOK ==
  ASSUME NEW R \in RowLists, NEW q \in QueryLists
  PROVE  /\ SeriesPatched(R, q) \in RowLists
         /\ \A i \in DOMAIN SeriesPatched(R, q) \cap DOMAIN R :
              SeriesPatched(R, q)[i].query = R[i].query
<1> DEFINE new == [i \in DOMAIN q |-> [RowAt(R, i) EXCEPT !.series = q[i]]]
<1>1. PICK m \in 0 .. MaxRows : q \in [1 .. m -> TextOrBlank]
  BY DEF QueryLists
<1>2. \A i \in DOMAIN new : new[i] \in Row /\ (i \in DOMAIN R => new[i].query = R[i].query)
  <2> SUFFICES ASSUME NEW i \in DOMAIN q
               PROVE  new[i] \in Row /\ (i \in DOMAIN R => new[i].query = R[i].query)
    OBVIOUS
  <2>1. RowAt(R, i) \in Row /\ q[i] \in TextOrBlank
    BY <1>1, RowAtOK
  <2>2. [RowAt(R, i) EXCEPT !.series = q[i]] \in Row
    BY <2>1 DEF Row
  <2>3. [RowAt(R, i) EXCEPT !.series = q[i]].query = RowAt(R, i).query
    BY <2>1 DEF Row
  <2> QED
    BY <2>2, <2>3 DEF RowAt
<1>3. DOMAIN new = 1 .. m
  BY <1>1
<1>4. Len(R) \in Nat
  BY RowListFacts, BoundsAssumption
<1>5. SeriesPatched(R, q) = Assigned(R, new)
  BY DEF SeriesPatched
<1> HIDE DEF new
<1>6. (Len(R) + 1) .. m \subseteq DOMAIN new
  BY <1>3, <1>4, BoundsAssumption
<1> QED
  BY <1>2, <1>3, <1>5, <1>6, AssignedOK

----------------------------------------------------------------------------
(* Rendering                                                               *)

LEMMA UrlIsQueries ==
  ASSUME NEW u, NEW R
  PROVE  UrlOf(u, R) = Queries(R)
BY DEF UrlOf, removeQueryKeys, Queries

LEMMA NewGraphOK ==
  GraphOK(NewGraph) /\ GraphOK(NoGraph)
<1>1. DefaultSpan \in Spans /\ getMaxSamplesForSpan(DefaultSpan) \in SampleNumbers
  BY SpansAssumption, SamplesOfSpan
<1>2. <<>> \in QueryLists
  <2>1. 0 \in 0 .. MaxRows /\ <<>> \in [1 .. 0 -> TextOrBlank]
    BY BoundsAssumption
  <2> QED
    BY <2>1 DEF QueryLists
<1>3. SampleNumbers \subseteq Nat /\ 0 \in Nat /\ MaxDataPointsHard \in Nat
  BY SamplesAssumption, LimitsAssumption DEF SampleNumbers
<1>4. NewGraph \in Graph
  BY <1>1, <1>2, <1>3 DEF NewGraph, Graph
<1>5. NewGraph.samples \in SampleNumbers /\ NewGraph.points <= MaxDataPointsHard
  BY <1>1, <1>3 DEF NewGraph
<1>6. NoGraph \in Graph /\ NoGraph.samples = NewGraph.samples /\ NoGraph.points = NewGraph.points
  BY <1>4 DEF NoGraph, Graph
<1> QED
  BY <1>4, <1>5, <1>6 DEF GraphOK

LEMMA RequestOK ==
  ASSUME NEW R \in RowLists, NEW g, GraphOK(g)
  PROVE  RequestOf(R, g) \in Request /\ RequestOf(R, g).samples \in SampleNumbers
BY QueriesOK DEF RequestOf, Request, GraphOK, Graph

LEMMA TableRequestsOK ==
  ASSUME NEW r \in Row
  PROVE  TableRequests(r) \subseteq Text /\ TableRequests(r) \subseteq {r.query}
BY DEF TableRequests, Row, TextOrBlank

LEMMA OpenedTableOK ==
  ASSUME NEW r \in Row
  PROVE  /\ OpenedTable(r) \in Table
         /\ OpenedTable(r).data = Blank /\ OpenedTable(r).pending \subseteq {r.query}
BY TableRequestsOK DEF OpenedTable, NewTable, Table, TextOrBlank

LEMMA TableOfOK ==
  ASSUME NEW t \in Table, NEW old \in Row, NEW new \in Row, NEW again
  PROVE  /\ TableOf(t, old, new, again) \in Table
         /\ (t.pending = {} \/ new.query = old.query)
              /\ t.data \in {Blank, old.query} /\ t.pending \subseteq {old.query}
            => /\ TableOf(t, old, new, again).data \in {Blank, new.query}
               /\ TableOf(t, old, new, again).pending \subseteq {new.query}
<1> USE TableRequestsOK
<1>1. CASE new.query # old.query
  BY <1>1 DEF TableOf, Table, TextOrBlank
<1>2. CASE new.query = old.query
  <2>1. TableOf(t, old, new, again) =
          [t EXCEPT !.pending = IF again THEN @ \cup TableRequests(new) ELSE @]
    BY <1>2 DEF TableOf
  <2> QED
    BY <1>2, <2>1 DEF Table
<1> QED
  BY <1>1, <1>2

(* The queries of the rows that stay where they are do not change.         *)
QueriesStay(R) == \A i \in DOMAIN R \cap DOMAIN rows : R[i].query = rows[i].query

LEMMA TablesOfOK ==
  ASSUME rows \in RowLists, NEW w \in BOOLEAN, TablesOK(tables, rows, w),
         NEW R \in RowLists, NEW again, w => Quiet \/ QueriesStay(R)
  PROVE  TablesOK(TablesOf(R, again), R, w)
<1>1. \A i \in DOMAIN R : R[i] \in Row
  BY RowListFacts
<1>2. \A i \in DOMAIN rows : rows[i] \in Row /\ tables[i] \in Table
  BY RowListFacts DEF TablesOK
<1>3. DOMAIN tables = DOMAIN rows
  BY DEF TablesOK
<1> DEFINE T == TablesOf(R, again)
<1>4. DOMAIN T = DOMAIN R /\ T = [i \in DOMAIN R |-> T[i]]
  BY DEF TablesOf
<1>5. ASSUME NEW i \in DOMAIN R
      PROVE  T[i] \in Table /\ (w => T[i].data \in {Blank, R[i].query} /\ T[i].pending \subseteq {R[i].query})
  <2>1. CASE i \in DOMAIN rows
    <3>1. T[i] = TableOf(tables[i], rows[i], R[i], again)
      BY <2>1 DEF TablesOf
    <3>2. w => /\ tables[i].pending = {} \/ R[i].query = rows[i].query
               /\ tables[i].data \in {Blank, rows[i].query} /\ tables[i].pending \subseteq {rows[i].query}
      BY <1>3, <2>1 DEF TablesOK, Quiet, QueriesStay
    <3> QED
      BY <1>1, <1>2, <2>1, <3>1, <3>2, TableOfOK
  <2>2. CASE i \notin DOMAIN rows
    <3>1. T[i] = OpenedTable(R[i])
      BY <2>2 DEF TablesOf
    <3> QED
      BY <1>1, <3>1, OpenedTableOK
  <2> QED
    BY <2>1, <2>2
<1> HIDE DEF T
<1>6. T \in [DOMAIN R -> Table]
  BY <1>4, <1>5
<1> QED
  BY <1>5, <1>6 DEF TablesOK, T

(* The parts of the invariant a rendering sets.                            *)
PageParts ==
  /\ rows \in RowLists /\ url = Queries(rows)
  /\ GraphOK(graph) /\ PendingOK(pending)
  /\ TablesOK(tables, rows, page.patient)

LEMMA GraphOfOK ==
  ASSUME GraphOK(graph), NEW R, NEW hidden
  PROVE  GraphOK(GraphOf(R, hidden))
<1> DEFINE c == QueriesKey(R) # QueriesKey(rows)
<1>1. c \in BOOLEAN
  OBVIOUS
<1>2. GraphOK([graph EXCEPT !.updating = @ \/ c])
  BY <1>1 DEF GraphOK, Graph
<1> QED
  BY <1>2, NewGraphOK DEF GraphOf

LEMMA RenderedOK ==
  ASSUME PInv, page' = page \/ page'.patient = page.patient,
         NEW R \in RowLists, NEW hidden, NEW again, Rendered(R, hidden, again),
         page.patient => Quiet \/ QueriesStay(R)
  PROVE  PageParts'
<1> DEFINE g == GraphOf(R, hidden)
           D == IF g.mounted /\ ~graph.mounted THEN DeleteAllSeries(R) ELSE R
<1>1. /\ graph' = g /\ pending' = PendingOf(R, g, again) /\ rows' = D
      /\ url' = UrlOf(url, R) /\ tables' = TablesOf(R, again)
  BY DEF Rendered
<1>2. GraphOK(g)
  BY GraphOfOK DEF PInv
<1>3. D \in RowLists /\ DOMAIN D = DOMAIN R /\ Queries(D) = Queries(R)
      /\ \A i \in DOMAIN R : D[i].query = R[i].query
  BY DeleteAllSeriesOK
<1>4. page.patient \in BOOLEAN /\ page'.patient = page.patient
  BY DEF PInv, Pages
<1>5. TablesOK(TablesOf(R, again), R, page.patient)
  BY <1>4, TablesOfOK DEF PInv
<1> HIDE DEF D, g
<1>6. TablesOK(tables', rows', page'.patient)
  BY <1>1, <1>3, <1>4, <1>5 DEF TablesOK
<1>7. PendingOK(PendingOf(R, g, again))
  BY <1>2, RequestOK DEF PendingOf, PendingOK, PInv
<1>8. url' = Queries(rows')
  BY <1>1, <1>3, UrlIsQueries
<1> QED
  BY <1>1, <1>2, <1>3, <1>6, <1>7, <1>8 DEF PageParts

----------------------------------------------------------------------------
(* The user                                                                *)

LEMMA EditFacts ==
  ASSUME PInv, Edit
  PROVE  edits' \in Nat /\ failures' = failures /\ (page.patient => Quiet)
BY DEF PInv, Edit

(* An event of the user that leaves the parts a rendering sets in order.   *)
LEMMA PartsSuffice ==
  ASSUME PInv, PageParts', page' \in Pages, edits' \in Nat, failures' = failures
  PROVE  PInv'
BY DEF PInv, PageParts

LEMMA EditRowsKeeps ==
  ASSUME PInv, NEW R \in RowLists, NEW again, EditRows(R, again)
  PROVE  PInv'
<1>1. Edit /\ Rendered(R, page.hideGraphs, again) /\ page' = page
  BY DEF EditRows
<1>2. PageParts'
  BY <1>1, EditFacts, RenderedOK
<1>3. page' \in Pages
  BY <1>1 DEF PInv
<1> QED
  BY <1>1, <1>2, <1>3, EditFacts, PartsSuffice

(* A row with other fields.                                                *)
LEMMA RowChanged ==
  ASSUME NEW r \in Row, NEW q \in TextOrBlank, NEW b \in BOOLEAN
  PROVE  /\ [r EXCEPT !.text = q] \in Row
         /\ [r EXCEPT !.expanded = b] \in Row
         /\ [r EXCEPT !.query = q, !.series = Blank] \in Row
         /\ [r EXCEPT !.enabled = TRUE, !.query = q, !.text = q] \in Row
         /\ [r EXCEPT !.text = q, !.enabled = b] \in Row
BY DEF Row, TextOrBlank

LEMMA RowExpanded ==
  ASSUME NEW r \in Row, NEW a
  PROVE  [r EXCEPT !.expanded = ~a] \in Row
<1>1. CASE a
  BY <1>1 DEF Row
<1>2. CASE ~a
  BY <1>2 DEF Row
<1> QED
  BY <1>1, <1>2

LEMMA RowsAreRows ==
  ASSUME PInv
  PROVE  /\ Len(rows) \in 1 .. MaxRows /\ DOMAIN rows = 1 .. Len(rows)
         /\ rows \in [1 .. Len(rows) -> Row] /\ rows \in Seq(Row)
         /\ \A i \in DOMAIN rows : rows[i] \in Row
BY RowListFacts DEF PInv

LEMMA AppendedRows ==
  ASSUME PInv, NEW r \in Row, Len(rows) < MaxRows
  PROVE  Append(rows, r) \in RowLists
<1>1. Append(rows, r) \in Seq(Row) /\ Len(Append(rows, r)) = Len(rows) + 1
  BY RowsAreRows
<1>2. Len(rows) + 1 \in 1 .. MaxRows
  BY RowsAreRows, BoundsAssumption
<1> QED
  BY <1>1, <1>2, RowSequence

(* A list with as many rows as there are.                                  *)
LEMMA SameManyRows ==
  ASSUME PInv, NEW R, R \in [DOMAIN rows -> Row]
  PROVE  R \in RowLists
BY RowsAreRows, RowListIntro

LEMMA AddQueryKeeps == ASSUME PInv, QueryBrowserAddQuery PROVE PInv'
BY AppendedRows, NewRowOK, EditRowsKeeps DEF QueryBrowserAddQuery

LEMMA DuplicateQueryKeeps ==
  ASSUME PInv, NEW i \in DOMAIN rows, QueryBrowserDuplicateQuery(i)
  PROVE  PInv'
<1>1. rows[i].text \in TextOrBlank
  BY RowsAreRows, RowFields
<1>2. [newQueryBrowserQuery EXCEPT !.text = rows[i].text, !.enabled = FALSE] \in Row
  BY <1>1, NewRowOK, RowChanged
<1> QED
  BY <1>2, AppendedRows, EditRowsKeeps DEF QueryBrowserDuplicateQuery

LEMMA WithoutOK ==
  ASSUME PInv, NEW i \in DOMAIN rows, Len(rows) # 1
  PROVE  Without(rows, i) \in RowLists
<1> DEFINE n == Len(rows)
           a == SubSeq(rows, 1, i - 1)
           b == SubSeq(rows, i + 1, n)
<1>1. n \in 2 .. MaxRows /\ i \in 1 .. n /\ rows \in Seq(Row)
  BY RowsAreRows, BoundsAssumption
<1>2. MaxRows \in Nat
  BY BoundsAssumption
<1>3. a \in Seq(Row) /\ Len(a) = i - 1
  BY <1>1, <1>2
<1>4. b \in Seq(Row) /\ Len(b) = n - i
  BY <1>1, <1>2
<1> HIDE DEF a, b
<1>5. a \o b \in Seq(Row) /\ Len(a \o b) = n - 1
  BY <1>1, <1>2, <1>3, <1>4
<1>6. n - 1 \in 1 .. MaxRows
  BY <1>1, <1>2
<1> QED
  BY <1>5, <1>6, RowSequence DEF Without, a, b

LEMMA DeleteQueryKeeps ==
  ASSUME PInv, NEW i \in DOMAIN rows, QueryBrowserDeleteQuery(i)
  PROVE  PInv'
BY NewRowOK, WithoutOK, EditRowsKeeps DEF QueryBrowserDeleteQuery

LEMMA DeleteAllQueriesKeeps == ASSUME PInv, QueryBrowserDeleteAllQueries PROVE PInv'
BY NewRowOK, EditRowsKeeps DEF QueryBrowserDeleteAllQueries

LEMMA TextChangeKeeps ==
  ASSUME PInv, NEW i \in DOMAIN rows, NEW t \in TextOrBlank, handleTextChange(i, t)
  PROVE  PInv'
<1>1. [rows EXCEPT ![i].text = t] \in [DOMAIN rows -> Row]
  BY RowsAreRows, RowChanged
<1> QED
  BY <1>1, SameManyRows, EditRowsKeeps DEF handleTextChange

LEMMA RunQueriesKeeps == ASSUME PInv, QueryBrowserRunQueries PROVE PInv'
<1> DEFINE R == [i \in DOMAIN rows |->
                   IF rows[i].enabled /\ rows[i].query # rows[i].text
                   THEN [rows[i] EXCEPT !.query = rows[i].text, !.series = Blank]
                   ELSE rows[i]]
<1>1. \A i \in DOMAIN rows : rows[i] \in Row /\ rows[i].text \in TextOrBlank
  BY RowsAreRows, RowFields
<1>2. R \in [DOMAIN rows -> Row]
  BY <1>1, RowChanged
<1>3. EditRows(R, TRUE)
  BY DEF QueryBrowserRunQueries
<1> HIDE DEF R
<1> QED
  BY <1>2, <1>3, SameManyRows, EditRowsKeeps

LEMMA SetAllExpandedKeeps == ASSUME PInv, QueryBrowserSetAllExpanded PROVE PInv'
<1> DEFINE all == \A i \in DOMAIN rows : rows[i].expanded
           R == [i \in DOMAIN rows |-> [rows[i] EXCEPT !.expanded = ~all]]
<1>1. EditRows(R, FALSE)
  BY DEF QueryBrowserSetAllExpanded
<1>2. R \in [DOMAIN rows -> Row]
  <2> HIDE DEF all
  <2>1. \A i \in DOMAIN rows : [rows[i] EXCEPT !.expanded = ~all] \in Row
    BY RowsAreRows, RowExpanded
  <2> QED
    BY <2>1
<1> HIDE DEF R
<1> QED
  BY <1>1, <1>2, SameManyRows, EditRowsKeeps

LEMMA ToggleIsEnabledKeeps ==
  ASSUME PInv, NEW i \in DOMAIN rows, QueryBrowserToggleIsEnabled(i)
  PROVE  PInv'
<1> DEFINE on == ~rows[i].enabled
           q == IF on THEN rows[i].text ELSE Blank
           R == [rows EXCEPT ![i].enabled = on, ![i].expanded = on, ![i].query = q]
<1>1. rows[i] \in Row /\ on \in BOOLEAN /\ q \in TextOrBlank
  BY RowsAreRows, RowFields DEF TextOrBlank
<1>2. EditRows(R, FALSE)
  BY DEF QueryBrowserToggleIsEnabled
<1>3. R \in [DOMAIN rows -> Row]
  <2> HIDE DEF on, q
  <2>1. [rows[i] EXCEPT !.enabled = on, !.expanded = on, !.query = q] \in Row
    BY <1>1 DEF Row
  <2>2. R = [rows EXCEPT ![i] = [rows[i] EXCEPT !.enabled = on, !.expanded = on, !.query = q]]
    BY RowsAreRows
  <2> HIDE DEF R
  <2> DEFINE r == [rows[i] EXCEPT !.enabled = on, !.expanded = on, !.query = q]
  <2>3. r \in Row /\ R = [rows EXCEPT ![i] = r]
    BY <2>1, <2>2
  <2> HIDE DEF r
  <2> QED
    BY <2>3, RowsAreRows
<1> HIDE DEF R
<1> QED
  BY <1>2, <1>3, SameManyRows, EditRowsKeeps

LEMMA QueryPatchedOK ==
  ASSUME PInv, NEW i \in 1 .. Len(rows) + 1, i <= MaxRows, NEW q \in Text
  PROVE  QueryPatched(i, q) \in RowLists
<1> DEFINE new == [k \in {i} |-> [RowAt(rows, i) EXCEPT !.enabled = TRUE, !.query = q, !.text = q]]
<1>1. rows \in RowLists /\ Len(rows) \in Nat /\ MaxRows \in Nat
  BY RowsAreRows, BoundsAssumption DEF PInv
<1>2. \A k \in DOMAIN new : new[k] \in Row
  BY <1>1, RowAtOK, RowChanged DEF TextOrBlank
<1>3. DOMAIN new = {i} /\ QueryPatched(i, q) = Assigned(rows, new)
  BY DEF QueryPatched
<1> HIDE DEF new
<1>4. i \in 0 .. MaxRows /\ DOMAIN new \subseteq 1 .. i /\ (Len(rows) + 1) .. i \subseteq DOMAIN new
  BY <1>1, <1>3
<1> QED
  BY <1>1, <1>2, <1>3, <1>4, AssignedOK

LEMMA PredefinedQueryKeeps ==
  ASSUME PInv, NEW q \in Text, insertPredefinedQuery(q)
  PROVE  PInv'
<1> DEFINE i == IF Len(rows) = 1 /\ rows[1].text = Blank THEN 1 ELSE Len(rows) + 1
<1>1. i <= MaxRows /\ EditRows(QueryPatched(i, q), FALSE)
  BY DEF insertPredefinedQuery
<1>2. i \in 1 .. Len(rows) + 1
  BY RowsAreRows, BoundsAssumption
<1> HIDE DEF i
<1> QED
  BY <1>1, <1>2, QueryPatchedOK, EditRowsKeeps

LEMMA ExampleQueryKeeps ==
  ASSUME PInv, NEW i \in DOMAIN rows, NEW q \in Text, insertExampleQuery(i, q)
  PROVE  PInv'
<1>1. i \in 1 .. Len(rows) + 1 /\ i <= MaxRows
  BY RowsAreRows, BoundsAssumption
<1> QED
  BY <1>1, QueryPatchedOK, EditRowsKeeps DEF insertExampleQuery

LEMMA SetPollIntervalKeeps == ASSUME PInv, QueryBrowserSetPollInterval PROVE PInv'
<1>1. /\ Edit /\ Rendered(rows, page.hideGraphs, TRUE)
      /\ page' \in Pages /\ page'.patient = page.patient
  BY DEF QueryBrowserSetPollInterval, PInv, Pages
<1>2. PageParts'
  BY <1>1, EditFacts, RenderedOK DEF PInv
<1> QED
  BY <1>1, <1>2, EditFacts, PartsSuffice

LEMMA ToggleGraphsKeeps == ASSUME PInv, ToggleGraphs PROVE PInv'
<1>1. /\ Edit /\ Rendered(rows, ~page.hideGraphs, FALSE)
      /\ page' \in Pages /\ page'.patient = page.patient
  BY DEF ToggleGraphs, PInv, Pages
<1>2. PageParts'
  BY <1>1, EditFacts, RenderedOK DEF PInv
<1> QED
  BY <1>1, <1>2, EditFacts, PartsSuffice

(* A new span resets the graph, and asks with its samples.                 *)
LEMMA SpanChangedParts ==
  ASSUME PInv, NEW s \in Spans, NEW z \in BOOLEAN, SpanChanged(s, z)
  PROVE  /\ GraphOK(graph') /\ PendingOK(pending') /\ UNCHANGED <<rows, url>>
         /\ edits' \in Nat /\ failures' = failures /\ (page.patient => Quiet)
<1> DEFINE g == [graph EXCEPT !.span = s, !.samples = getMaxSamplesForSpan(s), !.zoomed = z,
                              !.data = <<>>, !.points = 0, !.updating = TRUE]
<1>1. Edit /\ graph' = g /\ pending' = pending \cup {RequestOf(rows, g)} /\ UNCHANGED <<rows, url>>
  BY DEF SpanChanged
<1>2. getMaxSamplesForSpan(s) \in SampleNumbers
  BY SamplesOfSpan
<1>3. 0 \in Nat /\ 0 <= MaxDataPointsHard /\ SampleNumbers \subseteq Nat
  BY LimitsAssumption, SamplesAssumption DEF SampleNumbers
<1>4. <<>> \in QueryLists
  BY NewGraphOK DEF GraphOK, Graph, NewGraph
<1>5. GraphOK(g)
  BY <1>2, <1>3, <1>4 DEF GraphOK, Graph, PInv
<1> HIDE DEF g
<1>6. PendingOK(pending')
  BY <1>1, <1>5, RequestOK DEF PendingOK, PInv
<1> QED
  BY <1>1, <1>5, <1>6, EditFacts

LEMMA SpanChangeKeeps ==
  ASSUME PInv, NEW s \in Spans, onSpanChange(s)
  PROVE  PInv'
<1>1. /\ SpanChanged(s, FALSE) /\ page' = [page EXCEPT !.timespan = s]
      /\ tables' = TablesOf(rows, s # page.timespan)
  BY DEF onSpanChange
<1>2. /\ GraphOK(graph') /\ PendingOK(pending') /\ rows' = rows /\ url' = url
      /\ edits' \in Nat /\ failures' = failures /\ (page.patient => Quiet)
  BY <1>1, SpanChangedParts
<1>3. page' \in Pages /\ page'.patient = page.patient /\ page.patient \in BOOLEAN
  BY <1>1 DEF PInv, Pages
<1>4. TablesOK(tables', rows', page'.patient)
  BY <1>1, <1>2, <1>3, TablesOfOK DEF PInv
<1>5. PageParts'
  BY <1>2, <1>4 DEF PageParts, PInv, Queries
<1> QED
  BY <1>2, <1>3, <1>5, PartsSuffice

LEMMA ZoomKeeps ==
  ASSUME PInv, NEW s \in Spans, zoomableGraphOnZoom(s)
  PROVE  PInv'
<1>1. SpanChanged(s, TRUE) /\ UNCHANGED <<page, tables>>
  BY DEF zoomableGraphOnZoom
<1>2. /\ GraphOK(graph') /\ PendingOK(pending') /\ rows' = rows /\ url' = url
      /\ edits' \in Nat /\ failures' = failures
  BY <1>1, SpanChangedParts
<1> QED
  BY <1>1, <1>2 DEF PInv, Queries, TablesOK

(* The query parameters of the URL are those of the rows, consecutive from *)
(* the first: the page opens with all of them.                             *)
LEMMA OpenedRowsOK ==
  ASSUME NEW u \in QueryLists
  PROVE  /\ OpenedRows(u) \in RowLists
         /\ u # <<>> => Queries(OpenedRows(u)) = u
<1>1. PICK n \in 0 .. MaxRows : u \in [1 .. n -> TextOrBlank]
  BY DEF QueryLists
<1>2. n \in Nat /\ MaxRows \in Nat
  BY BoundsAssumption
<1>3. {k \in DOMAIN u : 1 .. k \subseteq DOMAIN u} = 1 .. n
  BY <1>1, <1>2
<1>4. UrlQueries(u) = [i \in 1 .. n |-> RowOfQuery(u[i])]
  BY <1>3 DEF UrlQueries
<1>5. \A i \in 1 .. n : RowOfQuery(u[i]) \in Row /\ RowOfQuery(u[i]).query = u[i]
  BY <1>1 DEF RowOfQuery, newQueryBrowserQuery, Row, TextOrBlank
<1>6. CASE n = 0
  <2>1. UrlQueries(u) = <<>> /\ u = <<>>
    BY <1>1, <1>4, <1>6
  <2> QED
    BY <2>1, NewRowOK DEF OpenedRows
<1>7. CASE n # 0
  <2>1. n \in 1 .. MaxRows
    BY <1>2, <1>7
  <2>2. UrlQueries(u) \in [1 .. n -> Row] /\ \A i \in 1 .. n : UrlQueries(u)[i].query = u[i]
    BY <1>4, <1>5
  <2>3. UrlQueries(u) # <<>>
    BY <2>1, <2>2, <1>2
  <2>4. OpenedRows(u) = UrlQueries(u)
    BY <2>3 DEF OpenedRows
  <2>5. Queries(UrlQueries(u)) = u
    BY <2>2, <1>1 DEF Queries
  <2> QED
    BY <2>1, <2>2, <2>4, <2>5, RowListIntro
<1> QED
  BY <1>6, <1>7

LEMMA OpenedPartsOK ==
  ASSUME NEW R \in RowLists, NEW w \in BOOLEAN
  PROVE  GraphOK(OpenedGraph(R)) /\ PendingOK(OpenedPending(R)) /\ TablesOK(OpenedTables(R), R, w)
<1>1. GraphOK(OpenedGraph(R))
  BY NewGraphOK DEF OpenedGraph
<1>2. PendingOK(OpenedPending(R))
  BY NewGraphOK, RequestOK DEF OpenedPending, PendingOK
<1>3. \A i \in DOMAIN R : R[i] \in Row
  BY RowListFacts
<1>4. TablesOK(OpenedTables(R), R, w)
  BY <1>3, OpenedTableOK DEF OpenedTables, TablesOK
<1> QED
  BY <1>1, <1>2, <1>4

LEMMA ReloadFacts ==
  ASSUME PInv, Reload
  PROVE  rows' = OpenedRows(Queries(rows)) /\ rows' \in RowLists /\ Queries(rows') = Queries(rows)
<1>1. url = Queries(rows) /\ Queries(rows) \in QueryLists
  BY QueriesOK DEF PInv
<1>2. Queries(rows) # <<>>
  BY RowsAreRows DEF Queries
<1>3. rows' = OpenedRows(url)
  BY DEF Reload
<1> QED
  BY <1>1, <1>2, <1>3, OpenedRowsOK

LEMMA ReloadKeeps == ASSUME PInv, Reload PROVE PInv'
<1>1. rows' \in RowLists /\ url' = UrlOf(url, rows') /\ graph' = OpenedGraph(rows')
      /\ pending' = OpenedPending(rows') /\ tables' = OpenedTables(rows')
  BY ReloadFacts DEF Reload
<1>2. Edit /\ page' = [page EXCEPT !.hideGraphs = FALSE, !.polling = FALSE, !.timespan = DefaultSpan]
  BY DEF Reload
<1>3. page' \in Pages /\ page'.patient \in BOOLEAN
  BY <1>2, SpansAssumption DEF PInv, Pages
<1>4. url' = Queries(rows')
  BY <1>1, UrlIsQueries
<1>5. GraphOK(graph') /\ PendingOK(pending') /\ TablesOK(tables', rows', page'.patient)
  BY <1>1, <1>3, OpenedPartsOK
<1>6. PageParts'
  BY <1>1, <1>4, <1>5 DEF PageParts
<1> QED
  BY <1>2, <1>3, <1>6, EditFacts, PartsSuffice

----------------------------------------------------------------------------
(* Polls and answers                                                       *)

LEMMA PollGraphKeeps == ASSUME PInv, PollGraph PROVE PInv'
<1>1. pending' = pending \cup {RequestOf(rows, graph)}
      /\ UNCHANGED <<rows, url, graph, tables, page, edits, failures>>
  BY DEF PollGraph
<1>2. PendingOK(pending')
  BY <1>1, RequestOK DEF PInv, PendingOK
<1> QED
  BY <1>1, <1>2 DEF PInv, Queries, TablesOK

(* A table that takes the place of another of the same row.                *)
LEMMA TableReplaced ==
  ASSUME PInv, NEW i \in DOMAIN tables, NEW t \in Table,
         page.patient => t.data \in {Blank, rows[i].query} /\ t.pending \subseteq {rows[i].query},
         tables' = [tables EXCEPT ![i] = t], UNCHANGED <<rows, url, graph, pending, page, edits>>,
         failures' \in 0 .. MaxFailures
  PROVE  PInv'
<1>1. TablesOK(tables', rows', page'.patient)
  BY DEF PInv, TablesOK
<1> QED
  BY <1>1 DEF PInv, Queries

LEMMA TableFacts ==
  ASSUME PInv, NEW i \in DOMAIN tables
  PROVE  /\ i \in DOMAIN rows /\ tables[i] \in Table /\ rows[i] \in Row
         /\ page.patient => tables[i].data \in {Blank, rows[i].query}
                            /\ tables[i].pending \subseteq {rows[i].query}
BY RowsAreRows DEF PInv, TablesOK

LEMMA PollTableKeeps ==
  ASSUME PInv, NEW i \in DOMAIN tables, PollTable(i)
  PROVE  PInv'
<1> DEFINE t == [tables[i] EXCEPT !.pending = @ \cup TableRequests(rows[i])]
<1>1. tables' = [tables EXCEPT ![i] = t]
      /\ UNCHANGED <<rows, url, graph, pending, page, edits, failures>>
  BY DEF PollTable
<1>2. t \in Table /\ t.data = tables[i].data
      /\ t.pending = tables[i].pending \cup TableRequests(rows[i])
  BY TableFacts, TableRequestsOK DEF Table
<1>3. page.patient => t.data \in {Blank, rows[i].query} /\ t.pending \subseteq {rows[i].query}
  BY <1>2, TableFacts, TableRequestsOK
<1> HIDE DEF t
<1> QED
  BY <1>1, <1>2, <1>3, TableReplaced DEF PInv

LEMMA TableAnsweredKeeps ==
  ASSUME PInv, NEW i \in DOMAIN tables, NEW q \in tables[i].pending, TableAnswered(i, q)
  PROVE  PInv'
<1> DEFINE t == [data |-> q, error |-> FALSE, pending |-> tables[i].pending \ {q}]
<1>1. tables' = [tables EXCEPT ![i] = t]
      /\ UNCHANGED <<rows, url, graph, pending, page, edits, failures>>
  BY DEF TableAnswered
<1>2. t \in Table
  BY TableFacts DEF Table, TextOrBlank
<1>3. page.patient => t.data \in {Blank, rows[i].query} /\ t.pending \subseteq {rows[i].query}
  BY TableFacts
<1> HIDE DEF t
<1> QED
  BY <1>1, <1>2, <1>3, TableReplaced DEF PInv

LEMMA FailureCounted ==
  ASSUME PInv, failures < MaxFailures, failures' = failures + 1
  PROVE  failures' \in 0 .. MaxFailures
BY BoundsAssumption DEF PInv

LEMMA TableFailsKeeps ==
  ASSUME PInv, NEW i \in DOMAIN tables, NEW q \in tables[i].pending, TableFails(i, q)
  PROVE  PInv'
<1> DEFINE t == [data |-> Blank, error |-> TRUE, pending |-> tables[i].pending \ {q}]
<1>1. /\ failures < MaxFailures /\ failures' = failures + 1
      /\ tables' = [tables EXCEPT ![i] = t]
      /\ UNCHANGED <<rows, url, graph, pending, page, edits>>
  BY DEF TableFails
<1>2. t \in Table
  BY TableFacts DEF Table, TextOrBlank
<1>3. page.patient => t.data \in {Blank, rows[i].query} /\ t.pending \subseteq {rows[i].query}
  BY TableFacts
<1> HIDE DEF t
<1> QED
  BY <1>1, <1>2, <1>3, FailureCounted, TableReplaced

LEMMA FailsKeeps ==
  ASSUME PInv, NEW r \in pending, Fails(r)
  PROVE  PInv'
<1>1. /\ failures < MaxFailures /\ failures' = failures + 1
      /\ graph' = [graph EXCEPT !.error = TRUE, !.updating = FALSE]
      /\ pending' = pending \ {r}
      /\ UNCHANGED <<rows, url, tables, page, edits>>
  BY DEF Fails
<1>2. GraphOK(graph')
  BY <1>1 DEF PInv, GraphOK, Graph
<1>3. PendingOK(pending')
  BY <1>1 DEF PInv, PendingOK
<1> QED
  BY <1>1, <1>2, <1>3, FailureCounted DEF PInv, Queries, TablesOK

LEMMA AnswerTooBigKeeps ==
  ASSUME PInv, NEW r \in pending, AnswerTooBig(r), UNCHANGED <<page, edits, failures>>
  PROVE  PInv'
<1>1. /\ graph' = [graph EXCEPT !.isDatasetTooBig = TRUE]
      /\ pending' = pending \ {r} /\ UNCHANGED <<rows, url, tables>>
  BY DEF AnswerTooBig
<1>2. GraphOK(graph')
  BY <1>1 DEF PInv, GraphOK, Graph
<1>3. PendingOK(pending')
  BY <1>1 DEF PInv, PendingOK
<1> QED
  BY <1>1, <1>2, <1>3 DEF PInv, Queries, TablesOK

LEMMA AnswerRefetchesKeeps ==
  ASSUME PInv, NEW r \in pending, AnswerRefetches(r), UNCHANGED <<page, edits, failures>>
  PROVE  PInv'
<1> DEFINE new == NewSamples(NumDataPoints(r), r.samples, r.span)
           b == graph.updating \/ new # graph.samples
           g == [graph EXCEPT !.isDatasetTooBig = FALSE, !.error = FALSE, !.samples = new,
                              !.updating = b]
<1>1. /\ graph' = g
      /\ pending' = (pending \ {r}) \cup (IF new = graph.samples THEN {} ELSE {RequestOf(rows, g)})
      /\ UNCHANGED <<rows, url, tables>>
  BY DEF AnswerRefetches
<1>2. r \in Request /\ r.samples \in SampleNumbers /\ r.samples \in Nat /\ r.span \in Spans
  BY DEF PInv, PendingOK, Request
<1>3. new \in SampleNumbers
  BY <1>2, PointsNat, NewSamplesLegal
<1>7. new \in Nat
  BY <1>3, SamplesAssumption DEF SampleNumbers
<1>4. b \in BOOLEAN
  BY DEF PInv, GraphOK, Graph
<1> HIDE DEF new, b
<1>5. GraphOK(g)
  BY <1>3, <1>4, <1>7 DEF PInv, GraphOK, Graph
<1> HIDE DEF g
<1>6. PendingOK(pending')
  BY <1>1, <1>5, RequestOK DEF PInv, PendingOK
<1> QED
  BY <1>1, <1>5, <1>6 DEF PInv, Queries, TablesOK

LEMMA AnswerShownKeeps ==
  ASSUME PInv, NEW r \in pending, AnswerShown(r), UNCHANGED <<page, edits, failures>>
  PROVE  PInv'
<1> DEFINE R == SeriesPatched(rows, r.queries)
           p == NumDataPoints(r)
<1>1. /\ graph' = [graph EXCEPT !.isDatasetTooBig = FALSE, !.error = FALSE, !.updating = FALSE,
                                !.data = r.queries, !.points = p]
      /\ pending' = pending \ {r}
      /\ rows' = R /\ url' = UrlOf(url, R) /\ tables' = TablesOf(R, FALSE)
  BY DEF AnswerShown
<1>2. r \in Request /\ r.samples \in SampleNumbers /\ r.queries \in QueryLists
  BY DEF PInv, PendingOK, Request
<1>3. p \in Nat /\ p <= MaxDataPointsHard
  BY <1>2, PointsNat, ShownWithinLimit DEF AnswerShown
<1> HIDE DEF p
<1>4. GraphOK(graph')
  BY <1>1, <1>2, <1>3 DEF PInv, GraphOK, Graph
<1>5. PendingOK(pending')
  BY <1>1 DEF PInv, PendingOK
<1>6. R \in RowLists /\ QueriesStay(R)
  BY <1>2, SeriesPatchedOK DEF PInv, QueriesStay
<1> HIDE DEF R
<1>7. page.patient \in BOOLEAN
  BY DEF PInv, Pages
<1>8. TablesOK(TablesOf(R, FALSE), R, page.patient)
  BY <1>6, <1>7, TablesOfOK DEF PInv
<1>9. url' = Queries(rows')
  BY <1>1, UrlIsQueries
<1> QED
  BY <1>1, <1>4, <1>5, <1>6, <1>8, <1>9 DEF PInv, TablesOK

----------------------------------------------------------------------------
LEMMA InitOK == Init => PInv
<1> SUFFICES ASSUME Init PROVE PInv
  OBVIOUS
<1>1. PICK u \in Urls :
        /\ rows = OpenedRows(u) /\ url = UrlOf(u, OpenedRows(u))
        /\ graph = OpenedGraph(OpenedRows(u)) /\ pending = OpenedPending(OpenedRows(u))
        /\ tables = OpenedTables(OpenedRows(u))
  BY DEF Init
<1>2. u \in QueryLists
  BY UrlsAssumption
<1>3. rows \in RowLists
  BY <1>1, <1>2, OpenedRowsOK
<1>4. page \in Pages /\ page.patient \in BOOLEAN
  BY SpansAssumption DEF Init, Pages
<1>5. url = Queries(rows)
  BY <1>1, UrlIsQueries
<1>6. GraphOK(graph) /\ PendingOK(pending) /\ TablesOK(tables, rows, page.patient)
  BY <1>1, <1>3, <1>4, OpenedPartsOK
<1> QED
  BY <1>3, <1>4, <1>5, <1>6, BoundsAssumption DEF Init, PInv

LEMMA UserKeeps == ASSUME PInv, User PROVE PInv'
<1>1. CASE QueryBrowserAddQuery BY <1>1, AddQueryKeeps
<1>2. CASE QueryBrowserDeleteAllQueries BY <1>2, DeleteAllQueriesKeeps
<1>3. CASE QueryBrowserRunQueries BY <1>3, RunQueriesKeeps
<1>4. CASE QueryBrowserSetAllExpanded BY <1>4, SetAllExpandedKeeps
<1>5. CASE QueryBrowserSetPollInterval BY <1>5, SetPollIntervalKeeps
<1>6. CASE ToggleGraphs BY <1>6, ToggleGraphsKeeps
<1>7. CASE Reload BY <1>7, ReloadKeeps
<1>8. ASSUME NEW i \in DOMAIN rows, QueryBrowserDuplicateQuery(i) PROVE PInv'
  BY <1>8, DuplicateQueryKeeps
<1>9. ASSUME NEW i \in DOMAIN rows, QueryBrowserDeleteQuery(i) PROVE PInv'
  BY <1>9, DeleteQueryKeeps
<1>10. ASSUME NEW i \in DOMAIN rows, QueryBrowserToggleIsEnabled(i) PROVE PInv'
  BY <1>10, ToggleIsEnabledKeeps
<1>11. ASSUME NEW i \in DOMAIN rows, NEW t \in TextOrBlank, handleTextChange(i, t) PROVE PInv'
  BY <1>11, TextChangeKeeps
<1>12. ASSUME NEW i \in DOMAIN rows, NEW t \in Text, insertExampleQuery(i, t) PROVE PInv'
  BY <1>12, ExampleQueryKeeps
<1>13. ASSUME NEW t \in Text, insertPredefinedQuery(t) PROVE PInv'
  BY <1>13, PredefinedQueryKeeps
<1>14. ASSUME NEW s \in Spans, onSpanChange(s) PROVE PInv'
  BY <1>14, SpanChangeKeeps
<1>15. ASSUME NEW s \in Spans, zoomableGraphOnZoom(s) PROVE PInv'
  BY <1>15, ZoomKeeps
<1> QED
  BY <1>1, <1>2, <1>3, <1>4, <1>5, <1>6, <1>7, <1>8, <1>9, <1>10, <1>11, <1>12, <1>13,
     <1>14, <1>15 DEF User

LEMMA NextKeeps == ASSUME PInv, [Next]_vars PROVE PInv'
<1>1. CASE User
  BY <1>1, UserKeeps
<1>2. ASSUME NEW r \in pending, Answered(r) PROVE PInv'
  BY <1>2, AnswerTooBigKeeps, AnswerRefetchesKeeps, AnswerShownKeeps DEF Answered
<1>3. ASSUME NEW r \in pending, Fails(r) PROVE PInv'
  BY <1>3, FailsKeeps
<1>4. ASSUME NEW i \in DOMAIN tables, NEW t \in tables[i].pending, TableAnswered(i, t) PROVE PInv'
  BY <1>4, TableAnsweredKeeps
<1>5. ASSUME NEW i \in DOMAIN tables, NEW t \in tables[i].pending, TableFails(i, t) PROVE PInv'
  BY <1>5, TableFailsKeeps
<1>6. CASE PollGraph
  BY <1>6, PollGraphKeeps
<1>7. ASSUME NEW i \in DOMAIN tables, PollTable(i) PROVE PInv'
  BY <1>7, PollTableKeeps
<1>8. CASE UNCHANGED vars
  BY <1>8 DEF vars, PInv, Queries, TablesOK
<1> QED
  BY <1>1, <1>2, <1>3, <1>4, <1>5, <1>6, <1>7, <1>8 DEF Next, Answers, TableAnswers, Polls

LEMMA InvariantHolds == Spec => []PInv
<1>1. PInv /\ [Next]_vars => PInv'
  BY NextKeeps
<1> QED
  BY <1>1, InitOK, PTL DEF Spec

(* The list of queries is never empty and never has a hole, whatever       *)
(* answers assign by the indices of an older list, and every state of the  *)
(* graph and of the tables is one the code names.                          *)
THEOREM TypeCorrect == Spec => []RowsTypeOK
<1>1. PInv => RowsTypeOK
  BY QueriesOK DEF PInv, RowsTypeOK, RowLists, GraphOK, PendingOK, TablesOK, Pages
<1> QED
  BY <1>1, InvariantHolds, PTL

(* The graph never shows more data points than the hard limit: the leeway  *)
(* within which a number of samples is left alone never lets them pass.    *)
THEOREM PointsWithinLimit == Spec => []NotTooManyPoints
<1>1. PInv => NotTooManyPoints
  BY DEF PInv, NotTooManyPoints, GraphOK
<1> QED
  BY <1>1, InvariantHolds, PTL

(* For a user who waits, a table holds results of no other query.          *)
THEOREM TablesFollowRows == Spec => []TablesShowTheirQuery
<1>1. PInv => TablesShowTheirQuery
  BY DEF PInv, TablesShowTheirQuery, TablesOK
<1> QED
  BY <1>1, InvariantHolds, PTL

(* Loading the page again runs the queries that ran before.                *)
THEOREM UrlRestoresQueries == Spec => ReloadKeepsQueries
<1>1. PInv /\ [Next]_vars => [Reload => Queries(rows') = Queries(rows)]_vars
  BY ReloadFacts
<1> QED
  BY <1>1, InvariantHolds, PTL DEF Spec, ReloadKeepsQueries

----------------------------------------------------------------------------
(* The buttons of the tables and the graph, for a user who waits           *)

Filled(Q) == {i \in DOMAIN Q : Q[i] # Blank}
Place(Q, i) == Cardinality({k \in Filled(Q) : k <= i})

LEMMA InOrderPlaces ==
  ASSUME NEW Q
  PROVE  InOrder(Q) = {<<Place(Q, i), Q[i]>> : i \in Filled(Q)}
BY DEF InOrder, Filled, Place

LEMMA FilledFinite ==
  ASSUME NEW Q \in QueryLists
  PROVE  /\ Filled(Q) \subseteq Nat /\ IsFiniteSet(Filled(Q))
         /\ \A i \in Filled(Q) : IsFiniteSet({k \in Filled(Q) : k <= i})
<1>1. PICK n \in 0 .. MaxRows : Q \in [1 .. n -> TextOrBlank]
  BY DEF QueryLists
<1>2. n \in Nat
  BY BoundsAssumption
<1>3. Filled(Q) \subseteq 1 .. n
  BY <1>1 DEF Filled
<1>4. IsFiniteSet(1 .. n)
  BY <1>2, FS_Interval
<1>5. IsFiniteSet(Filled(Q))
  BY <1>3, <1>4, FS_Subset
<1>6. \A i \in Filled(Q) : {k \in Filled(Q) : k <= i} \in SUBSET Filled(Q)
  OBVIOUS
<1> QED
  BY <1>2, <1>3, <1>5, <1>6, FS_Subset

(* No two queries have the same place.                                     *)
LEMMA PlacesDiffer ==
  ASSUME NEW Q \in QueryLists, NEW i \in Filled(Q), NEW j \in Filled(Q),
         Place(Q, i) = Place(Q, j)
  PROVE  i = j
<1> DEFINE upTo(k) == {l \in Filled(Q) : l <= k}
<1>1. ASSUME NEW a \in Filled(Q), NEW b \in Filled(Q), Place(Q, a) = Place(Q, b), a <= b
      PROVE  a = b
  <2>1. a \in Nat /\ b \in Nat /\ IsFiniteSet(upTo(b))
    BY FilledFinite
  <2>2. upTo(a) \in SUBSET upTo(b)
    BY <1>1, <2>1, FilledFinite
  <2>3. Cardinality(upTo(a)) = Cardinality(upTo(b))
    BY <1>1 DEF Place
  <2>4. b \in upTo(b)
    BY <2>1
  <2> HIDE DEF upTo
  <2>5. upTo(a) = upTo(b)
    BY <2>1, <2>2, <2>3, FS_Subset
  <2>6. b \in upTo(a)
    BY <2>4, <2>5
  <2> QED
    BY <1>1, <2>1, <2>6 DEF upTo
<1>2. i \in Nat /\ j \in Nat
  BY FilledFinite
<1> QED
  BY <1>1, <1>2

(* As many queries as are not empty.                                       *)
LEMMA InOrderCardinality ==
  ASSUME NEW Q \in QueryLists
  PROVE  Cardinality(InOrder(Q)) = Cardinality(Filled(Q))
<1> DEFINE f == [i \in Filled(Q) |-> <<Place(Q, i), Q[i]>>]
<1>1. f \in [Filled(Q) -> InOrder(Q)] /\ \A q \in InOrder(Q) : \E i \in Filled(Q) : f[i] = q
  BY InOrderPlaces
<1>2. \A i, j \in Filled(Q) : f[i] = f[j] => i = j
  BY PlacesDiffer
<1> HIDE DEF f
<1>3. f \in Bijection(Filled(Q), InOrder(Q))
  BY <1>1, <1>2 DEF Bijection, Injection, Surjection, IsInjective
<1> QED
  BY <1>3, FilledFinite, FS_Bijection DEF ExistsBijection

(* A query that is set or replaced, while the others stay where they are,  *)
(* changes the list of those that are not empty.                           *)
LEMMA OrderTellsChange ==
  ASSUME NEW Q \in QueryLists, NEW P \in QueryLists, InOrder(P) = InOrder(Q),
         NEW i \in DOMAIN P, P[i] # Blank,
         DOMAIN P = DOMAIN Q \cup {i}, \A k \in DOMAIN Q \ {i} : P[k] = Q[k]
  PROVE  i \in DOMAIN Q /\ P[i] = Q[i]
<1>1. i \in Filled(P) /\ Filled(P) = Filled(Q) \cup {i}
  BY DEF Filled
<1>2. CASE i \in Filled(Q)
  <2>1. Filled(P) = Filled(Q)
    BY <1>1, <1>2
  <2>2. \A k \in Filled(Q) : Place(P, k) = Place(Q, k)
    BY <2>1 DEF Place
  <2>3. <<Place(P, i), P[i]>> \in InOrder(Q)
    BY <1>1, InOrderPlaces
  <2>4. PICK j \in Filled(Q) : Place(Q, j) = Place(P, i) /\ Q[j] = P[i]
    BY <2>3, InOrderPlaces
  <2>5. j = i
    BY <1>2, <2>2, <2>4, PlacesDiffer
  <2> QED
    BY <1>2, <2>4, <2>5 DEF Filled
<1>3. CASE i \notin Filled(Q)
  <2>1. Cardinality(Filled(P)) = Cardinality(Filled(Q))
    BY InOrderCardinality
  <2>2. Cardinality(Filled(P)) = Cardinality(Filled(Q)) + 1 /\ Cardinality(Filled(Q)) \in Nat
    BY <1>1, <1>3, FilledFinite, FS_AddElement, FS_CardinalityType
  <2> QED
    BY <2>1, <2>2
<1> QED
  BY <1>2, <1>3

(* Each query has the series of its own answer.                            *)
Matched(R) == \A i \in DOMAIN R : R[i].query # Blank => R[i].series = R[i].query

(* The graph of a user who waits asks for nothing but what the page has    *)
(* now, and one that has been answered has been matched.                   *)
Asks == pending \subseteq {RequestOf(rows, graph)}
Shows == graph.mounted /\ pending = {} /\ ~graph.error /\ ~graph.isDatasetTooBig
               => Matched(rows)

(* The inductive invariant for such a user.                                *)
MInv == PInv /\ (page.patient => Asks /\ Shows)

(* A list that is not asked for anew keeps its series.                     *)
KeepsSeries(R) == QueriesKey(R) = QueriesKey(rows) /\ Matched(rows) => Matched(R)

LEMMA RequestSame ==
  ASSUME NEW R, NEW S, NEW g, Queries(R) = Queries(S)
  PROVE  RequestOf(R, g) = RequestOf(S, g)
BY DEF RequestOf

LEMMA RenderedMatches ==
  ASSUME MInv, PInv', page'.patient = page.patient, page.patient => Quiet,
         NEW R \in RowLists, NEW hidden, NEW again, Rendered(R, hidden, again),
         again \/ KeepsSeries(R)
  PROVE  MInv'
<1> SUFFICES ASSUME page.patient PROVE Asks' /\ Shows'
  BY DEF MInv
<1> DEFINE g == GraphOf(R, hidden)
           D == IF g.mounted /\ ~graph.mounted THEN DeleteAllSeries(R) ELSE R
<1>1. graph' = g /\ pending' = PendingOf(R, g, again) /\ rows' = D
  BY DEF Rendered
<1>2. pending = {} /\ Asks /\ Shows
  BY DEF Quiet, MInv
<1>3. RequestOf(D, g) = RequestOf(R, g)
  BY DeleteAllSeriesOK, RequestSame
<1>4. CASE ~g.mounted
  BY <1>1, <1>4 DEF PendingOf, Asks, Shows
<1>5. CASE g.mounted /\ (~graph.mounted \/ again \/ QueriesKey(R) # QueriesKey(rows))
  <2>1. pending' = {RequestOf(R, g)}
    BY <1>1, <1>2, <1>5 DEF PendingOf
  <2> QED
    BY <1>1, <1>3, <2>1 DEF Asks, Shows
<1>6. CASE g.mounted /\ graph.mounted /\ ~again /\ QueriesKey(R) = QueriesKey(rows)
  <2>1. pending' = {} /\ rows' = R
    BY <1>1, <1>2, <1>6 DEF PendingOf
  <2>2. graph.error = g.error /\ graph.isDatasetTooBig = g.isDatasetTooBig
    <3>1. ~NoGraph.mounted
      BY DEF NoGraph, NewGraph
    <3>2. g = [graph EXCEPT !.updating = @ \/ QueriesKey(R) # QueriesKey(rows)]
      BY <1>6, <3>1 DEF GraphOf
    <3> QED
      BY <3>2 DEF MInv, PInv, GraphOK, Graph
  <2> HIDE DEF g
  <2>3. Shows'
    BY <1>1, <1>2, <1>6, <2>1, <2>2 DEF Shows, KeepsSeries
  <2> QED
    BY <2>1, <2>3 DEF Asks
<1> HIDE DEF g
<1> QED
  BY <1>4, <1>5, <1>6

LEMMA EditRowsMatches ==
  ASSUME MInv, NEW R \in RowLists, NEW again, EditRows(R, again), again \/ KeepsSeries(R)
  PROVE  MInv'
<1>1. PInv' /\ Edit /\ Rendered(R, page.hideGraphs, again) /\ page' = page
  BY EditRowsKeeps DEF EditRows, MInv
<1> QED
  BY <1>1, EditFacts, RenderedMatches DEF MInv

----------------------------------------------------------------------------
(* The user                                                                *)

LEMMA AppendedMatches ==
  ASSUME MInv, NEW r \in Row, Len(rows) < MaxRows, r.query = Blank,
         EditRows(Append(rows, r), FALSE)
  PROVE  MInv'
<1> DEFINE R == Append(rows, r)
<1>1. R \in RowLists
  BY AppendedRows DEF MInv
<1>2. /\ DOMAIN R = 1 .. Len(rows) + 1 /\ R[Len(rows) + 1] = r
      /\ \A i \in DOMAIN rows : R[i] = rows[i]
      /\ DOMAIN rows = 1 .. Len(rows) /\ Len(rows) \in Nat
  BY RowsAreRows, BoundsAssumption DEF MInv
<1> HIDE DEF R
<1>3. \A i \in DOMAIN R : i \in DOMAIN rows \/ i = Len(rows) + 1
  BY <1>2
<1>4. KeepsSeries(R)
  BY <1>2, <1>3 DEF KeepsSeries, Matched
<1> QED
  BY <1>1, <1>4, EditRowsMatches DEF R

LEMMA AddQueryMatches == ASSUME MInv, QueryBrowserAddQuery PROVE MInv'
BY NewRowOK, AppendedMatches DEF QueryBrowserAddQuery

LEMMA DuplicateQueryMatches ==
  ASSUME MInv, NEW i \in DOMAIN rows, QueryBrowserDuplicateQuery(i)
  PROVE  MInv'
<1> DEFINE r == [newQueryBrowserQuery EXCEPT !.text = rows[i].text, !.enabled = FALSE]
<1>1. rows[i].text \in TextOrBlank
  BY RowsAreRows, RowFields DEF MInv
<1>2. r \in Row /\ r.query = Blank
  BY <1>1, NewRowOK, RowChanged DEF newQueryBrowserQuery
<1> QED
  BY <1>2, AppendedMatches DEF QueryBrowserDuplicateQuery

(* What is left of the rows, when one is deleted, are rows.                *)
LEMMA WithoutRows ==
  ASSUME PInv, NEW i \in DOMAIN rows, Len(rows) # 1
  PROVE  \A k \in DOMAIN Without(rows, i) : \E j \in DOMAIN rows : Without(rows, i)[k] = rows[j]
<1> DEFINE n == Len(rows)
           a == SubSeq(rows, 1, i - 1)
           b == SubSeq(rows, i + 1, n)
<1>1. n \in 2 .. MaxRows /\ i \in 1 .. n /\ rows \in Seq(Row) /\ MaxRows \in Nat
      /\ DOMAIN rows = 1 .. n
  BY RowsAreRows, BoundsAssumption
<1>2. a \in Seq(Row) /\ Len(a) = i - 1 /\ \A k \in 1 .. i - 1 : a[k] = rows[k]
  BY <1>1
<1>3. b \in Seq(Row) /\ Len(b) = n - i /\ \A k \in 1 .. n - i : b[k] = rows[i + k]
  <2>1. i + 1 \in 1 .. n + 1 /\ n \in Nat /\ Len(rows) = n
    BY <1>1
  <2>2. b \in Seq(Row)
    BY <1>1, <2>1
  <2>3. Len(b) = n - i
    BY <1>1, <2>1
  <2>4. \A k \in 1 .. n - i : b[k] = rows[i + k]
    BY <1>1, <2>1
  <2> QED
    BY <2>2, <2>3, <2>4
<1> HIDE DEF a, b
<1>4. Len(a \o b) = Len(a) + Len(b) /\ a \o b \in Seq(Row)
  <2>1. a \in Seq(Row) /\ b \in Seq(Row)
    BY <1>2, <1>3
  <2> QED
    BY <2>1
<1>5. Len(a) \in Nat /\ Len(b) \in Nat /\ Len(a) + Len(b) = n - 1
  BY <1>1, <1>2, <1>3
<1>6. DOMAIN (a \o b) = 1 .. n - 1
  BY <1>4, <1>5
<1>7. \A k \in 1 .. n - 1 : (a \o b)[k] = IF k <= Len(a) THEN a[k] ELSE b[k - Len(a)]
  <2>1. a \in Seq(Row) /\ b \in Seq(Row)
    BY <1>2, <1>3
  <2>2. 1 .. n - 1 = 1 .. Len(a) + Len(b)
    BY <1>5
  <2> QED
    BY <1>5, <2>1, <2>2
<1>8. Without(rows, i) = a \o b
  BY DEF Without, a, b
<1> SUFFICES ASSUME NEW k \in 1 .. n - 1 PROVE \E j \in 1 .. n : (a \o b)[k] = rows[j]
  BY <1>1, <1>6, <1>8
<1>9. k <= i - 1 => (a \o b)[k] = rows[k] /\ k \in 1 .. n
  BY <1>1, <1>2, <1>7
<1>10. k > i - 1 => /\ k - (i - 1) \in 1 .. n - i
                    /\ i + (k - (i - 1)) \in 1 .. n
  BY <1>1
<1>11. k > i - 1 => (a \o b)[k] = b[k - (i - 1)]
  <2>1. Len(a) = i - 1
    BY <1>2
  <2>2. k > i - 1 => ~(k <= i - 1)
    BY <1>1
  <2> QED
    BY <1>7, <2>1, <2>2
<1>12. k > i - 1 => (a \o b)[k] = rows[i + (k - (i - 1))]
  BY <1>3, <1>10, <1>11
<1>13. k <= i - 1 \/ k > i - 1
  BY <1>1
<1> QED
  BY <1>9, <1>10, <1>12, <1>13

LEMMA NewRowMatched == Matched(<<newQueryBrowserQuery>>)
BY NewRowOK DEF Matched

LEMMA DeleteQueryMatches ==
  ASSUME MInv, NEW i \in DOMAIN rows, QueryBrowserDeleteQuery(i)
  PROVE  MInv'
<1>1. CASE Len(rows) = 1
  BY <1>1, NewRowOK, NewRowMatched, EditRowsMatches DEF QueryBrowserDeleteQuery, KeepsSeries
<1>2. CASE Len(rows) # 1
  <2>1. KeepsSeries(Without(rows, i))
    BY <1>2, WithoutRows DEF MInv, KeepsSeries, Matched
  <2>2. Without(rows, i) \in RowLists
    BY <1>2, WithoutOK DEF MInv
  <2> QED
    BY <1>2, <2>1, <2>2, EditRowsMatches DEF QueryBrowserDeleteQuery
<1> QED
  BY <1>1, <1>2

LEMMA DeleteAllQueriesMatches == ASSUME MInv, QueryBrowserDeleteAllQueries PROVE MInv'
BY NewRowOK, NewRowMatched, EditRowsMatches DEF QueryBrowserDeleteAllQueries, KeepsSeries

LEMMA TextChangeMatches ==
  ASSUME MInv, NEW i \in DOMAIN rows, NEW t \in TextOrBlank, handleTextChange(i, t)
  PROVE  MInv'
<1> DEFINE R == [rows EXCEPT ![i].text = t]
<1>1. \A k \in DOMAIN rows : rows[k] \in Row
  BY RowsAreRows DEF MInv
<1>2. R \in [DOMAIN rows -> Row]
  BY <1>1, RowsAreRows, RowChanged DEF MInv
<1>3. \A k \in DOMAIN rows : R[k].query = rows[k].query /\ R[k].series = rows[k].series
  BY <1>1, RowsAreRows DEF MInv, Row
<1>4. R \in RowLists
  <2> HIDE DEF R
  <2> QED
    BY <1>2, SameManyRows DEF MInv
<1>5. EditRows(R, FALSE)
  BY DEF handleTextChange
<1> HIDE DEF R
<1>6. KeepsSeries(R)
  BY <1>2, <1>3 DEF KeepsSeries, Matched
<1> QED
  BY <1>4, <1>5, <1>6, EditRowsMatches

LEMMA RunQueriesMatches == ASSUME MInv, QueryBrowserRunQueries PROVE MInv'
<1> DEFINE R == [i \in DOMAIN rows |->
                   IF rows[i].enabled /\ rows[i].query # rows[i].text
                   THEN [rows[i] EXCEPT !.query = rows[i].text, !.series = Blank]
                   ELSE rows[i]]
<1>1. \A i \in DOMAIN rows : rows[i] \in Row /\ rows[i].text \in TextOrBlank
  BY RowsAreRows, RowFields DEF MInv
<1>2. R \in [DOMAIN rows -> Row]
  BY <1>1, RowChanged
<1>3. EditRows(R, TRUE)
  BY DEF QueryBrowserRunQueries
<1> HIDE DEF R
<1> QED
  BY <1>2, <1>3, SameManyRows, EditRowsMatches DEF MInv

LEMMA SetAllExpandedMatches == ASSUME MInv, QueryBrowserSetAllExpanded PROVE MInv'
<1> DEFINE all == \A i \in DOMAIN rows : rows[i].expanded
           R == [i \in DOMAIN rows |-> [rows[i] EXCEPT !.expanded = ~all]]
<1>1. EditRows(R, FALSE)
  BY DEF QueryBrowserSetAllExpanded
<1> HIDE DEF all
<1>2. \A i \in DOMAIN rows : rows[i] \in Row /\ [rows[i] EXCEPT !.expanded = ~all] \in Row
  BY RowsAreRows, RowExpanded DEF MInv
<1>3. R \in [DOMAIN rows -> Row]
  BY <1>2
<1>4. \A k \in DOMAIN rows : R[k].query = rows[k].query /\ R[k].series = rows[k].series
  BY <1>2 DEF Row
<1> HIDE DEF R
<1>5. KeepsSeries(R)
  BY <1>3, <1>4 DEF KeepsSeries, Matched
<1> QED
  BY <1>1, <1>3, <1>5, SameManyRows, EditRowsMatches DEF MInv

(* A list in which one row alone has another query: unless that query is   *)
(* empty, it is asked for.                                                 *)
LEMMA OneQueryChanged ==
  ASSUME PInv, NEW R \in RowLists, NEW i \in DOMAIN R, DOMAIN R = DOMAIN rows \cup {i},
         \A k \in DOMAIN rows \ {i} : R[k] = rows[k],
         i \in DOMAIN rows => R[i].series = rows[i].series
  PROVE  KeepsSeries(R)
<1> SUFFICES ASSUME QueriesKey(R) = QueriesKey(rows), Matched(rows) PROVE Matched(R)
  BY DEF KeepsSeries
<1> DEFINE P == Queries(R)
           Q == Queries(rows)
<1>1. P \in QueryLists /\ Q \in QueryLists /\ InOrder(P) = InOrder(Q)
  BY QueriesOK DEF PInv, QueriesKey
<1>2. /\ DOMAIN P = DOMAIN R /\ DOMAIN Q = DOMAIN rows
      /\ \A k \in DOMAIN R : P[k] = R[k].query
      /\ \A k \in DOMAIN rows : Q[k] = rows[k].query
  BY DEF Queries
<1> HIDE DEF P, Q
<1>3. R[i].query # Blank => i \in DOMAIN rows /\ R[i].query = rows[i].query
  <2> SUFFICES ASSUME R[i].query # Blank PROVE i \in DOMAIN Q /\ P[i] = Q[i]
    BY <1>2
  <2>1. \A k \in DOMAIN Q \ {i} : P[k] = Q[k]
    BY <1>2
  <2> QED
    BY <1>1, <1>2, <2>1, OrderTellsChange
<1>4. \A k \in DOMAIN R \ {i} : k \in DOMAIN rows /\ R[k] = rows[k]
  OBVIOUS
<1> QED
  BY <1>3, <1>4 DEF Matched

LEMMA ToggleIsEnabledMatches ==
  ASSUME MInv, NEW i \in DOMAIN rows, QueryBrowserToggleIsEnabled(i)
  PROVE  MInv'
<1> DEFINE on == ~rows[i].enabled
           q == IF on THEN rows[i].text ELSE Blank
           r == [rows[i] EXCEPT !.enabled = on, !.expanded = on, !.query = q]
           R == [rows EXCEPT ![i] = r]
<1>1. rows[i] \in Row /\ on \in BOOLEAN /\ q \in TextOrBlank
  BY RowsAreRows, RowFields DEF TextOrBlank, MInv
<1>2. EditRows(R, FALSE)
  <2>1. [rows EXCEPT ![i].enabled = on, ![i].expanded = on, ![i].query = q] = R
    <3> HIDE DEF on, q
    <3> QED
      BY RowsAreRows DEF MInv
  <2> QED
    BY <2>1 DEF QueryBrowserToggleIsEnabled
<1> HIDE DEF on, q
<1>3. r \in Row /\ r.series = rows[i].series
  BY <1>1 DEF Row
<1> HIDE DEF r
<1>4. R \in [DOMAIN rows -> Row]
  BY <1>3, RowsAreRows DEF MInv
<1>5. /\ DOMAIN R = DOMAIN rows \cup {i} /\ R[i] = r
      /\ \A k \in DOMAIN rows \ {i} : R[k] = rows[k]
  BY RowsAreRows DEF MInv
<1> HIDE DEF R
<1>6. R \in RowLists
  BY <1>4, SameManyRows DEF MInv
<1> QED
  BY <1>2, <1>3, <1>5, <1>6, OneQueryChanged, EditRowsMatches DEF MInv

LEMMA QueryPatchedMatches ==
  ASSUME MInv, NEW i \in 1 .. Len(rows) + 1, i <= MaxRows, NEW q \in Text,
         EditRows(QueryPatched(i, q), FALSE)
  PROVE  MInv'
<1> DEFINE r == [RowAt(rows, i) EXCEPT !.enabled = TRUE, !.query = q, !.text = q]
           new == [k \in {i} |-> r]
           R == QueryPatched(i, q)
<1>1. rows \in RowLists /\ Len(rows) \in Nat /\ MaxRows \in Nat
  BY RowsAreRows, BoundsAssumption DEF PInv, MInv
<1>2. RowAt(rows, i) \in Row
  BY <1>1, RowAtOK
<1>3. r \in Row /\ r.series = RowAt(rows, i).series
  BY <1>2, RowChanged DEF TextOrBlank, Row
<1> HIDE DEF r
<1>4. DOMAIN new = {i} /\ new[i] = r /\ R = Assigned(rows, new)
  BY DEF QueryPatched, r
<1> HIDE DEF new, R
<1>5. /\ i \in 0 .. MaxRows /\ DOMAIN new \subseteq 1 .. i /\ (Len(rows) + 1) .. i \subseteq DOMAIN new
      /\ \A k \in DOMAIN new : new[k] \in Row
  BY <1>1, <1>3, <1>4
<1>6. /\ R \in RowLists /\ DOMAIN R = DOMAIN rows \cup {i}
      /\ R[i] = r /\ \A k \in DOMAIN R : k = i \/ (k \in DOMAIN rows /\ R[k] = rows[k])
  <2>1. /\ R \in RowLists
        /\ \A k \in DOMAIN R : k \in DOMAIN new \/ (k \in DOMAIN rows /\ R[k] = rows[k])
    BY <1>1, <1>4, <1>5, AssignedOK
  <2>2. DOMAIN R = DOMAIN rows \cup DOMAIN new /\ \A k \in DOMAIN new : R[k] = new[k]
    BY <1>1, <1>4, <1>5, AssignedValues
  <2> QED
    BY <1>4, <2>1, <2>2
<1>7. \A k \in DOMAIN rows \ {i} : R[k] = rows[k]
  BY <1>6
<1>8. i \in DOMAIN rows => R[i].series = rows[i].series
  BY <1>3, <1>6 DEF RowAt
<1>9. KeepsSeries(R)
  BY <1>6, <1>7, <1>8, OneQueryChanged DEF MInv
<1> QED
  BY <1>6, <1>9, EditRowsMatches DEF R

LEMMA PredefinedQueryMatches ==
  ASSUME MInv, NEW q \in Text, insertPredefinedQuery(q)
  PROVE  MInv'
<1> DEFINE i == IF Len(rows) = 1 /\ rows[1].text = Blank THEN 1 ELSE Len(rows) + 1
<1>1. i <= MaxRows /\ EditRows(QueryPatched(i, q), FALSE)
  BY DEF insertPredefinedQuery
<1>2. i \in 1 .. Len(rows) + 1
  BY RowsAreRows, BoundsAssumption DEF MInv
<1> HIDE DEF i
<1> QED
  BY <1>1, <1>2, QueryPatchedMatches

LEMMA ExampleQueryMatches ==
  ASSUME MInv, NEW i \in DOMAIN rows, NEW q \in Text, insertExampleQuery(i, q)
  PROVE  MInv'
<1>1. i \in 1 .. Len(rows) + 1 /\ i <= MaxRows
  BY RowsAreRows, BoundsAssumption DEF MInv
<1> QED
  BY <1>1, QueryPatchedMatches DEF insertExampleQuery

LEMMA RowsKeepSeries == KeepsSeries(rows)
BY DEF KeepsSeries

LEMMA SetPollIntervalMatches == ASSUME MInv, QueryBrowserSetPollInterval PROVE MInv'
<1>1. PInv' /\ rows \in RowLists
  BY SetPollIntervalKeeps DEF MInv, PInv
<1>2. /\ Edit /\ Rendered(rows, page.hideGraphs, TRUE) /\ page'.patient = page.patient
  BY DEF QueryBrowserSetPollInterval, MInv, PInv, Pages
<1> QED
  BY <1>1, <1>2, EditFacts, RenderedMatches DEF MInv

LEMMA ToggleGraphsMatches == ASSUME MInv, ToggleGraphs PROVE MInv'
<1>1. PInv' /\ rows \in RowLists
  BY ToggleGraphsKeeps DEF MInv, PInv
<1>2. /\ Edit /\ Rendered(rows, ~page.hideGraphs, FALSE) /\ page'.patient = page.patient
  BY DEF ToggleGraphs, MInv, PInv, Pages
<1> QED
  BY <1>1, <1>2, EditFacts, RowsKeepSeries, RenderedMatches DEF MInv

(* A new span asks for what it shows.                                      *)
LEMMA SpanChangedMatches ==
  ASSUME MInv, PInv', NEW s, NEW z, SpanChanged(s, z), page'.patient = page.patient
  PROVE  MInv'
<1> SUFFICES ASSUME page.patient PROVE Asks' /\ Shows'
  BY DEF MInv
<1>1. PICK g : graph' = g /\ pending' = pending \cup {RequestOf(rows, g)} /\ rows' = rows
  BY DEF SpanChanged
<1>2. pending = {}
  BY EditFacts DEF SpanChanged, MInv, Quiet
<1> QED
  BY <1>1, <1>2 DEF Asks, Shows

LEMMA SpanChangeMatches ==
  ASSUME MInv, NEW s \in Spans, onSpanChange(s)
  PROVE  MInv'
<1>1. PInv' /\ SpanChanged(s, FALSE) /\ page'.patient = page.patient
  BY SpanChangeKeeps DEF onSpanChange, MInv, PInv, Pages
<1> QED
  BY <1>1, SpanChangedMatches

LEMMA ZoomMatches ==
  ASSUME MInv, NEW s \in Spans, zoomableGraphOnZoom(s)
  PROVE  MInv'
<1>1. PInv' /\ SpanChanged(s, TRUE) /\ page' = page
  BY ZoomKeeps DEF zoomableGraphOnZoom, MInv
<1> QED
  BY <1>1, SpanChangedMatches

(* A page just opened asks for what it shows.                              *)
LEMMA OpenedAsks ==
  ASSUME NEW R
  PROVE  /\ OpenedPending(R) \subseteq {RequestOf(R, OpenedGraph(R))}
         /\ OpenedGraph(R).mounted => OpenedPending(R) # {}
<1>1. ~NoGraph.mounted
  BY DEF NoGraph, NewGraph
<1> QED
  BY <1>1 DEF OpenedPending, OpenedGraph

LEMMA ReloadMatches == ASSUME MInv, Reload PROVE MInv'
<1>1. PInv'
  BY ReloadKeeps DEF MInv
<1>2. graph' = OpenedGraph(rows') /\ pending' = OpenedPending(rows')
  BY DEF Reload
<1> QED
  BY <1>1, <1>2, OpenedAsks DEF MInv, Asks, Shows

----------------------------------------------------------------------------
(* Polls and answers                                                       *)

LEMMA PollGraphMatches == ASSUME MInv, PollGraph PROVE MInv'
<1>1. PInv'
  BY PollGraphKeeps DEF MInv
<1>2. pending' = pending \cup {RequestOf(rows, graph)} /\ UNCHANGED <<rows, graph, page>>
  BY DEF PollGraph
<1> QED
  BY <1>1, <1>2 DEF MInv, Asks, Shows, Queries, RequestOf

(* What the tables do is nothing to the graph.                             *)
LEMMA GraphLeftAlone ==
  ASSUME MInv, PInv', UNCHANGED <<rows, graph, pending, page>>
  PROVE  MInv'
BY DEF MInv, Asks, Shows, RequestOf, Queries, Matched

LEMMA FailsMatches ==
  ASSUME MInv, NEW r \in pending, Fails(r)
  PROVE  MInv'
<1>1. PInv'
  BY FailsKeeps DEF MInv
<1> SUFFICES ASSUME page.patient PROVE Asks' /\ Shows'
  BY <1>1 DEF MInv, Fails
<1>2. graph' = [graph EXCEPT !.error = TRUE, !.updating = FALSE] /\ pending' = pending \ {r}
  BY DEF Fails
<1>3. pending' = {} /\ graph'.error
  BY <1>2 DEF MInv, Asks, PInv, GraphOK, Graph
<1> QED
  BY <1>3 DEF Asks, Shows

LEMMA AnswerTooBigMatches ==
  ASSUME MInv, NEW r \in pending, AnswerTooBig(r), UNCHANGED <<page, edits, failures>>
  PROVE  MInv'
<1>1. PInv'
  BY AnswerTooBigKeeps DEF MInv
<1> SUFFICES ASSUME page.patient PROVE Asks' /\ Shows'
  BY <1>1 DEF MInv
<1>2. graph' = [graph EXCEPT !.isDatasetTooBig = TRUE] /\ pending' = pending \ {r}
  BY DEF AnswerTooBig
<1>3. pending' = {} /\ graph'.isDatasetTooBig
  BY <1>2 DEF MInv, Asks, PInv, GraphOK, Graph
<1> QED
  BY <1>3 DEF Asks, Shows

(* A number of samples that changes is another one.                        *)
LEMMA SamplesDiffer ==
  ASSUME NEW n \in Nat, NEW s, SamplesChange(n, n, s)
  PROVE  FALSE
<1>1. Distance(n, n) = 0
  BY DEF Distance
<1>2. ~(SamplesLeeway * Distance(n, n) > n)
  BY <1>1, LimitsAssumption
<1> QED
  BY <1>2 DEF SamplesChange

LEMMA AnswerRefetchesMatches ==
  ASSUME MInv, NEW r \in pending, AnswerRefetches(r), UNCHANGED <<page, edits, failures>>
  PROVE  MInv'
<1>1. PInv'
  BY AnswerRefetchesKeeps DEF MInv
<1> SUFFICES ASSUME page.patient PROVE Asks' /\ Shows'
  BY <1>1 DEF MInv
<1> DEFINE new == NewSamples(NumDataPoints(r), r.samples, r.span)
<1>2. PICK g : /\ graph' = g /\ rows' = rows
               /\ pending' = (pending \ {r}) \cup
                             (IF new = graph.samples THEN {} ELSE {RequestOf(rows, g)})
  BY DEF AnswerRefetches
<1>3. r = RequestOf(rows, graph) /\ r.samples = graph.samples /\ graph.samples \in Nat
  BY DEF MInv, Asks, RequestOf, PInv, GraphOK, Graph
<1>4. new # graph.samples
  <2>1. SamplesChange(new, r.samples, r.span)
    BY DEF AnswerRefetches
  <2> HIDE DEF new
  <2> QED
    BY <1>3, <2>1, SamplesDiffer
<1> HIDE DEF new
<1>5. pending \ {r} = {}
  BY <1>3 DEF MInv, Asks
<1>6. pending' = {RequestOf(rows', graph')}
  BY <1>2, <1>4, <1>5
<1> QED
  BY <1>6 DEF Asks, Shows

(* The answer to the page's own request patches every row it has.          *)
LEMMA OwnSeriesPatched ==
  ASSUME NEW R \in RowLists
  PROVE  Matched(SeriesPatched(R, Queries(R)))
<1> DEFINE q == Queries(R)
           new == [i \in DOMAIN q |-> [RowAt(R, i) EXCEPT !.series = q[i]]]
<1>1. \A i \in DOMAIN R : R[i] \in Row
  BY RowListFacts
<1>2. DOMAIN q = DOMAIN R /\ \A i \in DOMAIN R : q[i] = R[i].query
  BY DEF Queries
<1>3. Len(R) \in 1 .. MaxRows /\ DOMAIN R = 1 .. Len(R)
  BY RowListFacts
<1> HIDE DEF q
<1>4. \A i \in DOMAIN R : new[i] \in Row /\ new[i].series = new[i].query
  <2> SUFFICES ASSUME NEW i \in DOMAIN R
               PROVE  new[i] \in Row /\ new[i].series = new[i].query
    OBVIOUS
  <2>1. new[i] = [R[i] EXCEPT !.series = R[i].query]
    BY <1>2 DEF RowAt
  <2> QED
    BY <1>1, <2>1 DEF Row
<1>5. DOMAIN new = DOMAIN R /\ SeriesPatched(R, q) = Assigned(R, new)
  BY <1>2 DEF SeriesPatched
<1> HIDE DEF new
<1>6. (Len(R) + 1) .. Len(R) \subseteq DOMAIN new /\ Len(R) \in 0 .. MaxRows
  BY <1>3, BoundsAssumption
<1>7. /\ DOMAIN Assigned(R, new) = DOMAIN R
      /\ \A i \in DOMAIN R : Assigned(R, new)[i] = new[i]
  <2>1. DOMAIN new \subseteq 1 .. Len(R) /\ \A i \in DOMAIN new : new[i] \in Row
    BY <1>3, <1>4, <1>5
  <2>2. DOMAIN Assigned(R, new) = DOMAIN R \cup DOMAIN new
        /\ \A i \in DOMAIN new : Assigned(R, new)[i] = new[i]
    BY <1>6, <2>1, AssignedValues
  <2> QED
    BY <1>5, <2>2
<1> QED
  BY <1>4, <1>5, <1>7 DEF Matched, q

LEMMA AnswerShownMatches ==
  ASSUME MInv, NEW r \in pending, AnswerShown(r), UNCHANGED <<page, edits, failures>>
  PROVE  MInv'
<1>1. PInv'
  BY AnswerShownKeeps DEF MInv
<1> SUFFICES ASSUME page.patient PROVE Asks' /\ Shows'
  BY <1>1 DEF MInv
<1>2. rows' = SeriesPatched(rows, r.queries) /\ pending' = pending \ {r}
  BY DEF AnswerShown
<1>3. r = RequestOf(rows, graph) /\ r.queries = Queries(rows) /\ pending' = {}
  BY <1>2 DEF MInv, Asks, RequestOf
<1>4. Matched(rows')
  BY <1>2, <1>3, OwnSeriesPatched DEF MInv, PInv
<1> QED
  BY <1>3, <1>4 DEF Asks, Shows

----------------------------------------------------------------------------
LEMMA UserMatches == ASSUME MInv, User PROVE MInv'
<1>1. CASE QueryBrowserAddQuery BY <1>1, AddQueryMatches
<1>2. CASE QueryBrowserDeleteAllQueries BY <1>2, DeleteAllQueriesMatches
<1>3. CASE QueryBrowserRunQueries BY <1>3, RunQueriesMatches
<1>4. CASE QueryBrowserSetAllExpanded BY <1>4, SetAllExpandedMatches
<1>5. CASE QueryBrowserSetPollInterval BY <1>5, SetPollIntervalMatches
<1>6. CASE ToggleGraphs BY <1>6, ToggleGraphsMatches
<1>7. CASE Reload BY <1>7, ReloadMatches
<1>8. ASSUME NEW i \in DOMAIN rows, QueryBrowserDuplicateQuery(i) PROVE MInv'
  BY <1>8, DuplicateQueryMatches
<1>9. ASSUME NEW i \in DOMAIN rows, QueryBrowserDeleteQuery(i) PROVE MInv'
  BY <1>9, DeleteQueryMatches
<1>10. ASSUME NEW i \in DOMAIN rows, QueryBrowserToggleIsEnabled(i) PROVE MInv'
  BY <1>10, ToggleIsEnabledMatches
<1>11. ASSUME NEW i \in DOMAIN rows, NEW t \in TextOrBlank, handleTextChange(i, t) PROVE MInv'
  BY <1>11, TextChangeMatches
<1>12. ASSUME NEW i \in DOMAIN rows, NEW t \in Text, insertExampleQuery(i, t) PROVE MInv'
  BY <1>12, ExampleQueryMatches
<1>13. ASSUME NEW t \in Text, insertPredefinedQuery(t) PROVE MInv'
  BY <1>13, PredefinedQueryMatches
<1>14. ASSUME NEW s \in Spans, onSpanChange(s) PROVE MInv'
  BY <1>14, SpanChangeMatches
<1>15. ASSUME NEW s \in Spans, zoomableGraphOnZoom(s) PROVE MInv'
  BY <1>15, ZoomMatches
<1> QED
  BY <1>1, <1>2, <1>3, <1>4, <1>5, <1>6, <1>7, <1>8, <1>9, <1>10, <1>11, <1>12, <1>13,
     <1>14, <1>15 DEF User

LEMMA NextMatches == ASSUME MInv, [Next]_vars PROVE MInv'
<1>1. PInv'
  BY NextKeeps DEF MInv
<1>2. CASE User
  BY <1>2, UserMatches
<1>3. ASSUME NEW r \in pending, Answered(r) PROVE MInv'
  BY <1>3, AnswerTooBigMatches, AnswerRefetchesMatches, AnswerShownMatches DEF Answered
<1>4. ASSUME NEW r \in pending, Fails(r) PROVE MInv'
  BY <1>4, FailsMatches
<1>5. CASE TableAnswers
  <2>1. UNCHANGED <<rows, graph, pending, page>>
    BY <1>5 DEF TableAnswers, TableAnswered, TableFails
  <2> QED
    BY <1>1, <2>1, GraphLeftAlone
<1>6. CASE PollGraph
  BY <1>6, PollGraphMatches
<1>7. CASE (\E i \in DOMAIN tables : PollTable(i)) \/ UNCHANGED vars
  <2>1. UNCHANGED <<rows, graph, pending, page>>
    BY <1>7 DEF PollTable, vars
  <2> QED
    BY <1>1, <2>1, GraphLeftAlone
<1> QED
  BY <1>2, <1>3, <1>4, <1>5, <1>6, <1>7 DEF Next, Answers, Polls

(* For a user who waits: once the page is quiet, each query has the series *)
(* of its own answer, from which the buttons of its table take the colours *)
(* of the graph.                                                           *)
THEOREM ButtonsFollowGraph == Spec => []ButtonsMatchGraph
<1>1. Init => MInv
  <2> SUFFICES ASSUME Init PROVE MInv
    OBVIOUS
  <2>1. graph = OpenedGraph(rows) /\ pending = OpenedPending(rows)
    BY DEF Init
  <2> QED
    BY <2>1, InitOK, OpenedAsks DEF MInv, Asks, Shows
<1>2. MInv /\ [Next]_vars => MInv'
  BY NextMatches
<1>3. MInv => ButtonsMatchGraph
  BY DEF MInv, Shows, Matched, ButtonsMatchGraph, Quiet
<1> QED
  BY <1>1, <1>2, <1>3, PTL DEF Spec
=============================================================================
