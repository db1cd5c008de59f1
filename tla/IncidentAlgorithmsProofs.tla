----------------------- MODULE IncidentAlgorithmsProofs -----------------------
(***************************************************************************)
(* Proofs about IncidentAlgorithms, for every history and not only for     *)
(* those a run can record: values are any set of samples whose times are   *)
(* bounded.  An incident has the highest severity of each time it was      *)
(* mapped, however its samples are split over series and answers; each of  *)
(* its alerts is asked for once, is shown with the times it fired at       *)
(* during the incident, and is counted in one row; the bars of both charts *)
(* are disjoint and cover the samples they are made of, and the bar of a   *)
(* firing incident is open.                                                *)
(***************************************************************************)
EXTENDS IncidentAlgorithms, FiniteSetTheorems, WellFoundedInduction, TLAPS

(* Sets of samples, with times from lo to hi and a severity.               *)
Samples(lo, hi) == SUBSET ((lo .. hi) \X (0 .. 2))

(* No two samples have the same time.                                      *)
Single(values) == \A v, w \in values : v[1] = w[1] => v = w

----------------------------------------------------------------------------
(* Smallest and largest                                                    *)

LEMMA MinOf ==
  ASSUME NEW lo \in Int, NEW hi \in Int, NEW S \in SUBSET (lo .. hi), S # {}
  PROVE  Min(S) \in S /\ \A x \in S : Min(S) <= x
<1> DEFINE T == {x - lo : x \in S}
<1>1. T \subseteq Nat /\ T # {}
  OBVIOUS
<1>2. \E m \in T : \A y \in T : ~ (<<y, m>> \in OpToRel(<, Nat))
  BY <1>1, NatLessThanWellFounded, WFMin
<1>3. PICK m \in T : \A y \in T : ~ (<<y, m>> \in OpToRel(<, Nat))
  BY <1>2
<1>4. \A y \in T : m <= y
  <2> SUFFICES ASSUME NEW y \in T PROVE m <= y
    OBVIOUS
  <2>1. m \in Nat /\ y \in Nat
    BY <1>1
  <2>2. ~(y < m)
    BY <1>3, <2>1 DEF OpToRel
  <2> QED
    BY <2>1, <2>2
<1>5. PICK s \in S : m = s - lo
  BY <1>3
<1>6. \A x \in S : s <= x
  <2> SUFFICES ASSUME NEW x \in S PROVE s <= x
    OBVIOUS
  <2>1. x - lo \in T
    OBVIOUS
  <2>2. s - lo <= x - lo
    BY <1>4, <1>5, <2>1
  <2>3. s \in Int /\ x \in Int
    OBVIOUS
  <2> HIDE DEF T
  <2> QED
    BY <2>2, <2>3
<1> QED
  BY <1>6 DEF Min

LEMMA MaxOf ==
  ASSUME NEW lo \in Int, NEW hi \in Int, NEW S \in SUBSET (lo .. hi), S # {}
  PROVE  Max(S) \in S /\ \A x \in S : Max(S) >= x
<1> DEFINE T == {0 - x : x \in S}
<1>1. T \in SUBSET ((0 - hi) .. (0 - lo)) /\ T # {} /\ 0 - hi \in Int /\ 0 - lo \in Int
  <2>1. \A x \in S : 0 - x \in (0 - hi) .. (0 - lo)
    OBVIOUS
  <2>2. 0 - hi \in Int /\ 0 - lo \in Int
    OBVIOUS
  <2> QED
    BY <2>1, <2>2
<1>2. Min(T) \in T /\ \A y \in T : Min(T) <= y
  BY <1>1, MinOf
<1>3. PICK s \in S : Min(T) = 0 - s
  BY <1>2
<1>4. \A x \in S : s >= x
  <2> SUFFICES ASSUME NEW x \in S PROVE s >= x
    OBVIOUS
  <2>1. 0 - x \in T
    OBVIOUS
  <2>2. 0 - s <= 0 - x
    BY <1>2, <1>3, <2>1
  <2>3. s \in Int /\ x \in Int
    OBVIOUS
  <2> HIDE DEF T
  <2> QED
    BY <2>2, <2>3
<1> QED
  BY <1>4 DEF Max

LEMMA TimesOf ==
  ASSUME NEW lo \in Int, NEW hi \in Int, NEW V \in Samples(lo, hi)
  PROVE  /\ Timestamps(V) \in SUBSET (lo .. hi)
         /\ \A v \in V : v[1] \in lo .. hi /\ v[2] \in 0 .. 2 /\ v = <<v[1], v[2]>>
         /\ V # {} => Timestamps(V) # {}
BY DEF Samples, Timestamps

(* The latest sample, the first one of a set, and the next one.            *)
LEMMA LatestOf ==
  ASSUME NEW lo \in Int, NEW hi \in Int, NEW V \in Samples(lo, hi), V # {}
  PROVE  /\ \E v \in V : v[1] = Latest(V)
         /\ \A v \in V : v[1] <= Latest(V)
         /\ Latest(V) \in lo .. hi
<1>1. Max(Timestamps(V)) \in Timestamps(V) /\ \A x \in Timestamps(V) : Max(Timestamps(V)) >= x
  BY TimesOf, MaxOf
<1> QED
  BY <1>1, TimesOf DEF Latest, Timestamps

LEMMA FirstOf ==
  ASSUME NEW lo \in Int, NEW hi \in Int, NEW V \in Samples(lo, hi), V # {}
  PROVE  /\ \E v \in V : v[1] = Min(Timestamps(V))
         /\ \A v \in V : Min(Timestamps(V)) <= v[1]
         /\ Min(Timestamps(V)) \in lo .. hi
<1>1. Min(Timestamps(V)) \in Timestamps(V) /\ \A x \in Timestamps(V) : Min(Timestamps(V)) <= x
  BY TimesOf, MinOf
<1> QED
  BY <1>1, TimesOf DEF Timestamps

----------------------------------------------------------------------------
(* Highest severities                                                      *)

(* Every time keeps a sample, of the highest severity it has.              *)
LEMMA HighestOf ==
  ASSUME NEW lo \in Int, NEW hi \in Int, NEW V \in Samples(lo, hi)
  PROVE  /\ HighestSeverityAtEachTimestamp(V) \in Samples(lo, hi)
         /\ HighestSeverityAtEachTimestamp(V) \subseteq V
         /\ Single(HighestSeverityAtEachTimestamp(V))
         /\ \A v \in V : \E w \in HighestSeverityAtEachTimestamp(V) : w[1] = v[1] /\ w[2] >= v[2]
<1> DEFINE H == HighestSeverityAtEachTimestamp(V)
<1>1. H \subseteq V /\ H \in Samples(lo, hi)
  BY DEF HighestSeverityAtEachTimestamp, Samples
<1>2. Single(H)
  <2> SUFFICES ASSUME NEW v \in H, NEW w \in H, v[1] = w[1] PROVE v = w
    BY DEF Single
  <2>1. v[2] <= w[2] /\ w[2] <= v[2] /\ v \in V /\ w \in V
    BY DEF HighestSeverityAtEachTimestamp
  <2>2. v[2] = w[2]
    BY <2>1, TimesOf
  <2> QED
    BY <2>1, <2>2, TimesOf
<1>3. ASSUME NEW v \in V PROVE \E w \in H : w[1] = v[1] /\ w[2] >= v[2]
  <2> DEFINE S == {u[2] : u \in {u \in V : u[1] = v[1]}}
  <2>1. S \in SUBSET (0 .. 2) /\ v[2] \in S
    BY TimesOf
  <2>2. Max(S) \in S /\ \A x \in S : Max(S) >= x
    <3>1. S # {} /\ 0 \in Int /\ 2 \in Int
      BY <2>1
    <3> HIDE DEF S
    <3> QED
      BY <2>1, <3>1, MaxOf
  <2>3. PICK w \in V : w[1] = v[1] /\ w[2] = Max(S)
    BY <2>2
  <2>4. \A u \in V : u[1] = w[1] => u[2] \in S
    BY <2>3
  <2>5. \A u \in V : u[1] = w[1] => u[2] <= w[2]
    BY <2>1, <2>2, <2>3, <2>4
  <2>6. w \in H
    BY <2>5 DEF HighestSeverityAtEachTimestamp
  <2>7. w[2] >= v[2]
    BY <2>1, <2>2, <2>3
  <2> QED
    BY <2>3, <2>6, <2>7
<1> QED
  BY <1>1, <1>2, <1>3

(* Merging what was merged before is merging everything at once.           *)
LEMMA HighestOfUnion ==
  ASSUME NEW lo \in Int, NEW hi \in Int, NEW V \in Samples(lo, hi), NEW W \in Samples(lo, hi)
  PROVE  HighestSeverityAtEachTimestamp(HighestSeverityAtEachTimestamp(V) \cup W)
           = HighestSeverityAtEachTimestamp(V \cup W)
<1> DEFINE H == HighestSeverityAtEachTimestamp(V)
<1>1. H \subseteq V /\ \A v \in V : \E w \in H : w[1] = v[1] /\ w[2] >= v[2]
  BY HighestOf
<1>2. \A v \in V \cup W : v[2] \in Int
  BY TimesOf
<1>3. ASSUME NEW v \in V \cup W, \A w \in V \cup W : w[1] = v[1] => w[2] <= v[2]
      PROVE  v \in H \cup W
  BY <1>3 DEF HighestSeverityAtEachTimestamp
<1> HIDE DEF H
<1>4. ASSUME NEW v \in H \cup W, \A w \in H \cup W : w[1] = v[1] => w[2] <= v[2],
             NEW w \in V \cup W, w[1] = v[1]
      PROVE  w[2] <= v[2]
  <2>1. PICK u \in H \cup W : u[1] = w[1] /\ u[2] >= w[2]
    BY <1>1, <1>2
  <2>2. u[2] <= v[2]
    BY <1>4, <2>1
  <2> QED
    BY <1>1, <1>2, <2>1, <2>2
<1>5. {v \in H \cup W : \A w \in H \cup W : w[1] = v[1] => w[2] <= v[2]}
        = {v \in V \cup W : \A w \in V \cup W : w[1] = v[1] => w[2] <= v[2]}
  BY <1>1, <1>3, <1>4
<1> QED
  BY <1>5 DEF HighestSeverityAtEachTimestamp, H

(* An incident of three answers, and what it should be made of.            *)
Merged(f, r, q) == MergeIncident(MergeIncident(NewIncident(f), r), q)
HighestOfAll(U, V, W) == HighestSeverityAtEachTimestamp(U \cup V \cup W)
AllOf(x, y, z) == {x, y, z}

LEMMA HighestOfThree ==
  ASSUME NEW lo \in Int, NEW hi \in Int,
         NEW U \in Samples(lo, hi), NEW V \in Samples(lo, hi), NEW W \in Samples(lo, hi)
  PROVE  LET H(X) == HighestSeverityAtEachTimestamp(X)
         IN  H(H(H(U) \cup V) \cup W) = HighestOfAll(U, V, W)
<1> DEFINE H(X) == HighestSeverityAtEachTimestamp(X)
           S == U \cup V
<1>1. S \in Samples(lo, hi)
  BY DEF Samples
<1>2. H(H(U) \cup V) = H(S)
  BY HighestOfUnion
<1> HIDE DEF S
<1>3. H(H(S) \cup W) = H(S \cup W)
  BY <1>1, HighestOfUnion
<1> HIDE DEF H
<1>4. H(H(H(U) \cup V) \cup W) = H(S \cup W)
  BY <1>2, <1>3
<1> QED
  BY <1>4 DEF H, S, HighestOfAll

LEMMA MergedValues ==
  ASSUME NEW lo \in Int, NEW hi \in Int, NEW f, f.values \in Samples(lo, hi),
         NEW r, r.values \in Samples(lo, hi), NEW q, q.values \in Samples(lo, hi)
  PROVE  /\ Merged(f, r, q).values = HighestOfAll(f.values, r.values, q.values)
         /\ Merged(f, r, q).componentList = AllOf(f.component, r.component, q.component)
<1> DEFINE H(W) == HighestSeverityAtEachTimestamp(W)
           n == NewIncident(f)
           m == MergeIncident(n, r)
           merged == MergeIncident(m, q)
<1>1. n.values = H(f.values) /\ n.componentList = {f.component}
      /\ DOMAIN n = {"group_id", "src", "componentList", "silenced", "values"}
  BY DEF NewIncident
<1> HIDE DEF n
<1>2. m.values = H(n.values \cup r.values) /\ m.componentList = n.componentList \cup {r.component}
      /\ DOMAIN m = {"group_id", "src", "componentList", "silenced", "values"}
  BY <1>1 DEF MergeIncident
<1> HIDE DEF m
<1>3. merged.values = H(m.values \cup q.values) /\ merged.componentList = m.componentList \cup {q.component}
  BY <1>2 DEF MergeIncident
<1> HIDE DEF merged
<1>4. H(H(H(f.values) \cup r.values) \cup q.values) = HighestOfAll(f.values, r.values, q.values)
  BY HighestOfThree
<1> HIDE DEF H
<1>5. merged.values = HighestOfAll(f.values, r.values, q.values)
  BY <1>1, <1>2, <1>3, <1>4
<1>6. merged.componentList = AllOf(f.component, r.component, q.component)
  BY <1>1, <1>2, <1>3 DEF AllOf
<1> QED
  BY <1>5, <1>6 DEF merged, m, n, Merged

(* An incident keeps the highest severity of each time, and whichever of   *)
(* two answers is merged first, it has the same values and components      *)
(* (getIncidents): the days of the page and the series of a group may be   *)
(* answered in any order.                                                  *)
THEOREM MergeOrderIsFree ==
  ASSUME NEW lo \in Int, NEW hi \in Int, NEW f, f.values \in Samples(lo, hi),
         NEW r, r.values \in Samples(lo, hi), NEW q, q.values \in Samples(lo, hi)
  PROVE  /\ Merged(f, r, q).values = HighestOfAll(f.values, r.values, q.values)
         /\ Merged(f, r, q).values = Merged(f, q, r).values
         /\ Merged(f, r, q).componentList = Merged(f, q, r).componentList
<1>1. HighestOfAll(f.values, r.values, q.values) = HighestOfAll(f.values, q.values, r.values)
  <2>1. f.values \cup r.values \cup q.values = f.values \cup q.values \cup r.values
    OBVIOUS
  <2> QED
    BY <2>1 DEF HighestOfAll
<1>2. AllOf(f.component, r.component, q.component) = AllOf(f.component, q.component, r.component)
  BY DEF AllOf
<1> QED
  BY <1>1, <1>2, MergedValues

----------------------------------------------------------------------------
(* The bars of an incident                                                 *)

(* The samples at which a bar starts: those whose predecessor has another  *)
(* severity.                                                               *)
Runs(values) == {v \in values : \A p \in Steps(values) : p[2] = v => p[1][2] # v[2]}

RunEnd(v, values) ==
  IF After(v, Runs(values)) = {} THEN Latest(values)
  ELSE Min(Timestamps(After(v, Runs(values)))) - 1

LEMMA AfterOf ==
  ASSUME NEW lo \in Int, NEW hi \in Int, NEW V \in Samples(lo, hi), NEW v
  PROVE  After(v, V) \in Samples(lo, hi) /\ Before(v, V) \in Samples(lo, hi)
BY DEF After, Before, Samples

(* A bar ends before the next one starts.                                  *)
LEMMA RunEnds ==
  ASSUME NEW lo \in Int, NEW hi \in Int, NEW V \in Samples(lo, hi), NEW v \in Runs(V)
  PROVE  /\ RunEnd(v, V) \in Int
         /\ \A w \in Runs(V) : v[1] < w[1] => RunEnd(v, V) < w[1]
         /\ \A u \in V : \/ u[1] <= RunEnd(v, V)
                        \/ \E w \in Runs(V) : v[1] < w[1] /\ w[1] <= u[1]
<1>1. Runs(V) \in Samples(lo, hi) /\ Runs(V) \subseteq V /\ V # {}
  BY DEF Runs, Samples
<1> DEFINE A == After(v, Runs(V))
<1>2. A \in Samples(lo, hi) /\ \A w \in Runs(V) : w \in A <=> v[1] < w[1]
  BY <1>1, AfterOf, TimesOf DEF After
<1>3. A \subseteq Runs(V) /\ RunEnd(v, V) = IF A = {} THEN Latest(V) ELSE Min(Timestamps(A)) - 1
  BY DEF RunEnd, After
<1> HIDE DEF A
<1>4. CASE A = {}
  <2>1. \A u \in V : u[1] <= Latest(V)
    BY <1>1, LatestOf
  <2>2. Latest(V) \in Int
    BY <1>1, LatestOf
  <2> QED
    BY <1>2, <1>3, <1>4, <2>1, <2>2
<1>5. CASE A # {}
  <2> DEFINE m == Min(Timestamps(A))
  <2>1. (\E w \in A : w[1] = m) /\ (\A w \in A : m <= w[1]) /\ m \in Int
    BY <1>2, <1>5, FirstOf
  <2>2. RunEnd(v, V) = m - 1
    BY <1>3, <1>5
  <2> HIDE DEF m
  <2>3. \A w \in V : w[1] \in Int
    BY TimesOf
  <2>4. \A w \in Runs(V) : v[1] < w[1] => m - 1 < w[1]
    BY <1>1, <1>2, <2>1, <2>3
  <2>5. PICK w \in A : w[1] = m
    BY <2>1
  <2>6. w \in Runs(V) /\ v[1] < w[1]
    BY <1>2, <1>3, <2>5
  <2>7. \A u \in V : u[1] <= m - 1 \/ w[1] <= u[1]
    BY <2>1, <2>3, <2>5
  <2> QED
    BY <2>1, <2>2, <2>4, <2>6, <2>7
<1> QED
  BY <1>4, <1>5

(* Between the start of a bar and the next one the severity is the same.   *)
LEMMA SameSeverity ==
  ASSUME NEW lo \in Int, NEW hi \in Int, NEW V \in Samples(lo, hi), Single(V),
         NEW v \in V, NEW u \in V, v[1] <= u[1],
         \A w \in Runs(V) : ~(v[1] < w[1] /\ w[1] <= u[1])
  PROVE  u[2] = v[2]
<1> DEFINE Bad == {w \in V : v[1] <= w[1] /\ w[1] <= u[1] /\ w[2] # v[2]}
<1> SUFFICES ASSUME Bad # {} PROVE FALSE
  BY TimesOf
<1>1. Bad \in Samples(lo, hi)
  BY DEF Samples
<1>2. PICK b \in Bad : \A w \in Bad : b[1] <= w[1]
  BY <1>1, FirstOf
<1>3. b \in V /\ v[1] < b[1] /\ b[1] <= u[1] /\ b[2] # v[2]
  BY <1>2, TimesOf DEF Single
<1>4. PICK p \in Steps(V) : p[2] = b /\ p[1][2] = b[2]
  BY <1>3 DEF Runs
<1>5. p[1] \in V /\ p[1][1] < b[1] /\ ~(p[1][1] < v[1])
  BY <1>3, <1>4 DEF Steps
<1>6. p[1] \in Bad
  BY <1>3, <1>4, <1>5, TimesOf
<1>7. p[1][1] \in Int /\ b[1] \in Int
  BY <1>3, <1>5, TimesOf
<1> QED
  BY <1>2, <1>5, <1>6, <1>7

(* Every sample lies in the bar of a run of its severity.                  *)
LEMMA RunOf ==
  ASSUME NEW lo \in Int, NEW hi \in Int, NEW V \in Samples(lo, hi), Single(V), NEW u \in V
  PROVE  \E v \in Runs(V) : v[1] <= u[1] /\ u[1] <= RunEnd(v, V) /\ v[2] = u[2]
<1> DEFINE E == {v \in Runs(V) : v[1] <= u[1]}
<1>1. E \in Samples(lo, hi) /\ \A v \in V : v[1] \in Int
  BY TimesOf DEF Samples, Runs
<1>2. E # {}
  <2>1. PICK f \in V : \A w \in V : f[1] <= w[1]
    BY FirstOf
  <2>2. \A p \in Steps(V) : p[2] # f
    <3> SUFFICES ASSUME NEW p \in Steps(V), p[2] = f PROVE FALSE
      OBVIOUS
    <3>1. p[1] \in V /\ p[1][1] < f[1]
      BY DEF Steps
    <3> QED
      BY <1>1, <2>1, <3>1
  <2> QED
    BY <2>1, <2>2 DEF Runs
<1>3. PICK v \in E : \A w \in E : w[1] <= v[1]
  BY <1>1, <1>2, LatestOf
<1>4. v \in Runs(V) /\ v \in V /\ v[1] <= u[1]
  BY DEF Runs
<1>5. \A w \in Runs(V) : ~(v[1] < w[1] /\ w[1] <= u[1])
  <2> SUFFICES ASSUME NEW w \in Runs(V), v[1] < w[1], w[1] <= u[1] PROVE FALSE
    OBVIOUS
  <2>1. w \in E /\ w \in V
    BY DEF Runs
  <2> QED
    BY <1>1, <1>3, <1>4, <2>1
<1>6. u[1] <= RunEnd(v, V)
  BY <1>4, <1>5, RunEnds
<1>7. u[2] = v[2]
  BY <1>4, <1>5, SameSeverity
<1> QED
  BY <1>4, <1>6, <1>7

(* The bars with data: one for each run of a severity.                     *)
DataBars(incident, dates) ==
  LET V == HighestSeverityAtEachTimestamp(incident.values)
  IN  {[ from |-> v[1], to |-> RunEnd(v, V), data |-> TRUE, severity |-> v[2],
         firing |-> /\ incident.firing /\ After(v, Runs(V)) = {}
                    /\ Latest(V) >= dates[Len(dates)] ] : v \in Runs(V)}

(* What createIncidentsChartBars makes of the samples.                     *)
LEMMA IncidentBars ==
  ASSUME NEW incident, NEW dates
  PROVE  {b \in createIncidentsChartBars(incident, dates) : b.data} = DataBars(incident, dates)
<1> DEFINE V == HighestSeverityAtEachTimestamp(incident.values)
           Bar(v) == [ from |-> v[1], to |-> RunEnd(v, V), data |-> TRUE, severity |-> v[2],
                       firing |-> /\ incident.firing /\ After(v, Runs(V)) = {}
                                  /\ Latest(V) >= dates[Len(dates)] ]
           Data == {Bar(v) : v \in Runs(V)}
<1>1. PICK Empty : /\ createIncidentsChartBars(incident, dates) = Data \cup Empty
                   /\ \A b \in Empty : ~b.data
  <2> DEFINE gaps == {p \in Steps(V) : HasGap(p[1], p[2])}
             E1 == {NoData(p[1][1] + 1, p[2][1] - 1) : p \in gaps}
             E2 == IF Min(Timestamps(V)) > dates[1] THEN {NoData(dates[1], Min(Timestamps(V)) - 1)} ELSE {}
             E3 == IF Latest(V) < dates[Len(dates)]
                   THEN {[NoData(Latest(V) + 1, dates[Len(dates)]) EXCEPT !.firing = incident.firing]}
                   ELSE {}
  <2>1. createIncidentsChartBars(incident, dates) = Data \cup E1 \cup E2 \cup E3
    BY DEF createIncidentsChartBars, Runs, RunEnd
  <2>2. \A b \in E1 : ~b.data
    BY DEF NoData
  <2>3. \A b \in E2 : ~b.data
    BY DEF NoData
  <2>4. \A b \in E3 : ~b.data
    BY DEF NoData
  <2> DEFINE E == E1 \cup E2 \cup E3
  <2> HIDE DEF E1, E2, E3, Data
  <2>5. createIncidentsChartBars(incident, dates) = Data \cup E
    BY <2>1
  <2>6. \A b \in E : ~b.data
    BY <2>2, <2>3, <2>4
  <2> HIDE DEF E
  <2> QED
    BY <2>5, <2>6
<1>2. \A b \in Data : b.data
  OBVIOUS
<1> HIDE DEF Data
<1>3. {b \in createIncidentsChartBars(incident, dates) : b.data} = Data
  BY <1>1, <1>2
<1> QED
  BY <1>3 DEF Data, DataBars

(* The bars of an incident never overlap, whatever its samples             *)
(* (createIncidentsChartBars, generateIntervalsWithGaps).                  *)
THEOREM IncidentBarsAreDisjoint ==
  ASSUME NEW lo \in Int, NEW hi \in Int, NEW incident, incident.values \in Samples(lo, hi),
         NEW dates
  PROVE  LET bars == {b \in createIncidentsChartBars(incident, dates) : b.data}
         IN  \A b, c \in bars : b # c => ~Overlap(b, c)
<1> DEFINE V == HighestSeverityAtEachTimestamp(incident.values)
           Bar(v) == [ from |-> v[1], to |-> RunEnd(v, V), data |-> TRUE, severity |-> v[2],
                       firing |-> /\ incident.firing /\ After(v, Runs(V)) = {}
                                  /\ Latest(V) >= dates[Len(dates)] ]
<1>1. V \in Samples(lo, hi) /\ Single(V) /\ Runs(V) \subseteq V
  BY HighestOf DEF Runs
<1>2. \A v \in V : v[1] \in Int
  BY <1>1, TimesOf
<1>3. \A v, w \in Runs(V) : v[1] < w[1] => ~Overlap(Bar(v), Bar(w)) /\ ~Overlap(Bar(w), Bar(v))
  <2> SUFFICES ASSUME NEW v \in Runs(V), NEW w \in Runs(V), v[1] < w[1]
               PROVE  ~Overlap(Bar(v), Bar(w)) /\ ~Overlap(Bar(w), Bar(v))
    OBVIOUS
  <2>1. RunEnd(v, V) < w[1] /\ RunEnd(v, V) \in Int /\ w[1] \in Int
    BY <1>1, <1>2, RunEnds
  <2> HIDE DEF V
  <2> QED
    BY <2>1 DEF Overlap
<1>4. \A v, w \in Runs(V) : v # w => v[1] < w[1] \/ w[1] < v[1]
  BY <1>1, <1>2 DEF Single
<1>5. {b \in createIncidentsChartBars(incident, dates) : b.data} = {Bar(v) : v \in Runs(V)}
  BY IncidentBars DEF DataBars
<1> HIDE DEF V, Bar
<1>6. \A b, c \in {Bar(v) : v \in Runs(V)} : b # c => ~Overlap(b, c)
  BY <1>3, <1>4
<1> QED
  BY <1>5, <1>6

(* At every time an incident was recorded, the bar that covers it has the  *)
(* highest severity the incident had then.                                 *)
THEOREM IncidentBarsShowSeverity ==
  ASSUME NEW lo \in Int, NEW hi \in Int, NEW incident, incident.values \in Samples(lo, hi),
         NEW dates, NEW u \in HighestSeverityAtEachTimestamp(incident.values)
  PROVE  \E b \in createIncidentsChartBars(incident, dates) :
           b.data /\ In(u[1], b) /\ b.severity = u[2]
<1> DEFINE V == HighestSeverityAtEachTimestamp(incident.values)
           Bar(v) == [ from |-> v[1], to |-> RunEnd(v, V), data |-> TRUE, severity |-> v[2],
                       firing |-> /\ incident.firing /\ After(v, Runs(V)) = {}
                                  /\ Latest(V) >= dates[Len(dates)] ]
<1>1. V \in Samples(lo, hi) /\ Single(V)
  BY HighestOf
<1>2. PICK v \in Runs(V) : v[1] <= u[1] /\ u[1] <= RunEnd(v, V) /\ v[2] = u[2]
  BY <1>1, RunOf
<1>3. In(u[1], Bar(v)) /\ Bar(v).severity = u[2] /\ Bar(v).data
  BY <1>2 DEF In
<1>4. {b \in createIncidentsChartBars(incident, dates) : b.data} = {Bar(w) : w \in Runs(V)}
  BY IncidentBars DEF DataBars
<1> HIDE DEF V, Bar
<1>5. Bar(v) \in createIncidentsChartBars(incident, dates)
  BY <1>4
<1> QED
  BY <1>3, <1>5

HasBarOf(incident, dates, severity) ==
  \E b \in createIncidentsChartBars(incident, dates) : b.data /\ b.severity = severity

(* The severity filter finds an incident exactly by the severities its     *)
(* bars have (filterIncident, getIncidentMaximumSeveritiesOverTime), so    *)
(* that no incident is left out whose chart shows the severity chosen.     *)
THEOREM FilterFindsBars ==
  ASSUME NEW lo \in Int, NEW hi \in Int, NEW incident, incident.values \in Samples(lo, hi),
         NEW dates, NEW severity \in 0 .. 2
  PROVE  incident \in filterIncident(OnlySeverity(severity), {incident})
           <=> HasBarOf(incident, dates, severity)
<1> DEFINE V == HighestSeverityAtEachTimestamp(incident.values)
           found == \E v \in V : v[2] = severity
<1>1. incident \in filterIncident(OnlySeverity(severity), {incident}) <=> found
  <2> DEFINE names == getIncidentMaximumSeveritiesOverTime(incident)
             f == OnlySeverity(severity)
  <2>1. /\ f.severity = <<getSeverityName(severity)>> /\ f.severity # <<>>
        /\ f.state = <<>> /\ f.groupId = <<>>
    BY DEF OnlySeverity
  <2>2. Range(f.severity) = {getSeverityName(severity)}
    BY <2>1 DEF Range
  <2> HIDE DEF f
  <2>3. incident \in filterIncident(f, {incident}) <=> getSeverityName(severity) \in names
    BY <2>1, <2>2 DEF filterIncident
  <2>4. \A v \in V : v[2] \in 0 .. 2
    BY HighestOf, TimesOf
  <2>5. \A x, y \in 0 .. 2 : getSeverityName(x) = getSeverityName(y) => x = y
    BY DEF getSeverityName
  <2>6. names = {getSeverityName(v[2]) : v \in V}
    BY DEF getIncidentMaximumSeveritiesOverTime
  <2> QED
    BY <2>3, <2>4, <2>5, <2>6 DEF f
<1>2. ASSUME NEW v \in V, v[2] = severity
      PROVE  \E b \in createIncidentsChartBars(incident, dates) : b.data /\ b.severity = severity
  BY <1>2, IncidentBarsShowSeverity
<1>3. ASSUME NEW b \in createIncidentsChartBars(incident, dates), b.data, b.severity = severity
      PROVE  found
  <2>1. b \in DataBars(incident, dates)
    BY <1>3, IncidentBars
  <2>2. PICK v \in Runs(V) : b.severity = v[2]
    BY <2>1 DEF DataBars
  <2>3. v \in V
    BY DEF Runs
  <2> QED
    BY <1>3, <2>2, <2>3
<1> QED
  BY <1>1, <1>2, <1>3 DEF HasBarOf

----------------------------------------------------------------------------
(* The bars of an alert                                                    *)

Gaps(values) == {p \in Steps(values) : HasGap(p[1], p[2])}

(* The samples at which a stretch without a gap starts, and where it ends. *)
Starts(values) ==
  {v \in values : Before(v, values) = {} \/ \E p \in Gaps(values) : p[2][1] = v[1]}

StretchEnd(v, values) ==
  LET later == {p \in Gaps(values) : p[1][1] >= v[1]}
  IN  IF later = {} THEN Latest(values) ELSE Min({p[1][1] : p \in later})

LEMMA GapsOf ==
  ASSUME NEW lo \in Int, NEW hi \in Int, NEW V \in Samples(lo, hi), NEW p \in Gaps(V)
  PROVE  /\ p[1] \in V /\ p[2] \in V /\ p[1][1] \in lo .. hi /\ p[2][1] \in lo .. hi
         /\ p[1][1] < p[2][1]
         /\ \A u \in V : u[1] <= p[1][1] \/ p[2][1] <= u[1]
<1>1. p[1] \in V /\ p[2] \in V /\ p[1][1] < p[2][1]
      /\ ~\E u \in V : p[1][1] < u[1] /\ u[1] < p[2][1]
  BY DEF Gaps, Steps
<1>2. \A u \in V : u[1] \in lo .. hi
  BY TimesOf
<1>3. p[1][1] \in lo .. hi /\ p[2][1] \in lo .. hi
  BY <1>1, <1>2
<1>4. \A u \in V : u[1] <= p[1][1] \/ p[2][1] <= u[1]
  <2> SUFFICES ASSUME NEW u \in V, ~(u[1] <= p[1][1]), ~(p[2][1] <= u[1]) PROVE FALSE
    OBVIOUS
  <2>1. u[1] \in Int /\ p[1][1] \in Int /\ p[2][1] \in Int
    BY <1>2, <1>3
  <2> QED
    BY <1>1, <2>1
<1> QED
  BY <1>1, <1>3, <1>4

(* A stretch ends at the first gap after its start, or with the samples.   *)
LEMMA StretchEnds ==
  ASSUME NEW lo \in Int, NEW hi \in Int, NEW V \in Samples(lo, hi), NEW v \in V
  PROVE  /\ StretchEnd(v, V) \in Int /\ StretchEnd(v, V) <= Latest(V)
         /\ \A p \in Gaps(V) : p[1][1] >= v[1] => StretchEnd(v, V) <= p[1][1]
         /\ \/ StretchEnd(v, V) = Latest(V)
            \/ \E p \in Gaps(V) : p[1][1] >= v[1] /\ StretchEnd(v, V) = p[1][1]
<1> DEFINE later == {p \in Gaps(V) : p[1][1] >= v[1]}
           T == {p[1][1] : p \in later}
<1>1. T \in SUBSET (lo .. hi)
  BY GapsOf
<1>2. V # {} /\ Latest(V) \in lo .. hi /\ \A u \in V : u[1] <= Latest(V)
  BY LatestOf
<1>3. CASE later = {}
  BY <1>2, <1>3 DEF StretchEnd
<1>4. CASE later # {}
  <2>1. T # {}
    BY <1>4
  <2>2. StretchEnd(v, V) = Min(T)
    BY <1>4 DEF StretchEnd
  <2> HIDE DEF T
  <2>3. Min(T) \in T /\ \A x \in T : Min(T) <= x
    BY <1>1, <2>1, MinOf
  <2>4. PICK p \in Gaps(V) : p[1][1] >= v[1] /\ Min(T) = p[1][1]
    BY <2>3 DEF T
  <2>5. p[1][1] <= Latest(V)
    BY <1>2, GapsOf
  <2>6. \A q \in Gaps(V) : q[1][1] >= v[1] => Min(T) <= q[1][1]
    BY <2>3 DEF T
  <2>7. Min(T) \in Int
    BY <2>4, GapsOf
  <2> QED
    BY <2>2, <2>4, <2>5, <2>6, <2>7
<1> QED
  BY <1>3, <1>4

(* A later stretch starts after a gap that ends the earlier one.           *)
LEMMA StretchesApart ==
  ASSUME NEW lo \in Int, NEW hi \in Int, NEW V \in Samples(lo, hi),
         NEW v \in Starts(V), NEW w \in Starts(V), v[1] < w[1]
  PROVE  StretchEnd(v, V) < w[1]
<1>1. v \in V /\ w \in V /\ v[1] \in Int /\ w[1] \in Int
  BY TimesOf DEF Starts
<1>2. Before(w, V) # {}
  BY <1>1 DEF Before
<1>3. PICK p \in Gaps(V) : p[2][1] = w[1]
  BY <1>2 DEF Starts
<1>4. p[1][1] >= v[1] /\ p[1][1] < w[1] /\ p[1][1] \in Int
  BY <1>1, <1>3, GapsOf
<1>5. StretchEnd(v, V) <= p[1][1] /\ StretchEnd(v, V) \in Int
  BY <1>1, <1>4, StretchEnds
<1> QED
  BY <1>1, <1>4, <1>5

(* No stretch reaches into a gap.                                          *)
LEMMA StretchAvoidsGap ==
  ASSUME NEW lo \in Int, NEW hi \in Int, NEW V \in Samples(lo, hi),
         NEW v \in Starts(V), NEW p \in Gaps(V)
  PROVE  StretchEnd(v, V) < p[1][1] + 1 \/ p[2][1] - 1 < v[1]
<1>1. v \in V /\ v[1] \in Int /\ p[1][1] \in Int /\ p[2][1] \in Int
  BY TimesOf, GapsOf DEF Starts
<1>2. v[1] <= p[1][1] \/ p[2][1] <= v[1]
  BY <1>1, GapsOf
<1>3. v[1] <= p[1][1] => StretchEnd(v, V) <= p[1][1] /\ StretchEnd(v, V) \in Int
  BY <1>1, StretchEnds
<1> QED
  BY <1>1, <1>2, <1>3

(* Two gaps are apart.                                                     *)
LEMMA GapsApart ==
  ASSUME NEW lo \in Int, NEW hi \in Int, NEW V \in Samples(lo, hi), Single(V),
         NEW p \in Gaps(V), NEW q \in Gaps(V), p # q
  PROVE  p[2][1] - 1 < q[1][1] + 1 \/ q[2][1] - 1 < p[1][1] + 1
<1>1. /\ p[1] \in V /\ p[2] \in V /\ p[1][1] \in Int /\ p[2][1] \in Int /\ p[1][1] < p[2][1]
      /\ \A u \in V : u[1] <= p[1][1] \/ p[2][1] <= u[1]
  BY GapsOf
<1>2. /\ q[1] \in V /\ q[2] \in V /\ q[1][1] \in Int /\ q[2][1] \in Int /\ q[1][1] < q[2][1]
      /\ \A u \in V : u[1] <= q[1][1] \/ q[2][1] <= u[1]
  BY GapsOf
<1>3. p = <<p[1], p[2]>> /\ q = <<q[1], q[2]>>
  BY DEF Gaps, Steps
<1>4. p[1][1] # q[1][1] \/ p[2][1] # q[2][1]
  BY <1>1, <1>2, <1>3 DEF Single
<1>5. q[1][1] <= p[1][1] \/ p[2][1] <= q[1][1]
  BY <1>1, <1>2
<1>6. q[2][1] <= p[1][1] \/ p[2][1] <= q[2][1]
  BY <1>1, <1>2
<1>7. p[1][1] <= q[1][1] \/ q[2][1] <= p[1][1]
  BY <1>1, <1>2
<1>8. p[2][1] <= q[1][1] \/ q[2][1] <= p[2][1]
  BY <1>1, <1>2
<1> QED
  BY <1>1, <1>2, <1>4, <1>5, <1>6, <1>7, <1>8

(* Every sample lies in a stretch.                                         *)
LEMMA StretchOf ==
  ASSUME NEW lo \in Int, NEW hi \in Int, NEW V \in Samples(lo, hi), NEW u \in V
  PROVE  \E v \in Starts(V) : v[1] <= u[1] /\ u[1] <= StretchEnd(v, V)
<1> DEFINE E == {v \in Starts(V) : v[1] <= u[1]}
<1>1. E \in Samples(lo, hi) /\ \A v \in V : v[1] \in Int
  BY TimesOf DEF Samples, Starts
<1>2. E # {}
  <2>1. PICK f \in V : \A w \in V : f[1] <= w[1]
    BY FirstOf
  <2>2. Before(f, V) = {}
    BY <1>1, <2>1 DEF Before
  <2> QED
    BY <2>1, <2>2 DEF Starts
<1>3. PICK v \in E : \A w \in E : w[1] <= v[1]
  BY <1>1, <1>2, LatestOf
<1>4. v \in Starts(V) /\ v \in V /\ v[1] <= u[1]
  BY DEF Starts
<1>5. \A p \in Gaps(V) : p[1][1] >= v[1] => u[1] <= p[1][1]
  <2> SUFFICES ASSUME NEW p \in Gaps(V), p[1][1] >= v[1], ~(u[1] <= p[1][1]) PROVE FALSE
    OBVIOUS
  <2>1. /\ p[2] \in V /\ p[1][1] \in Int /\ p[2][1] \in Int /\ p[1][1] < p[2][1]
        /\ p[2][1] <= u[1]
    BY GapsOf
  <2>2. p[2] \in E
    BY <2>1 DEF Starts
  <2>3. p[2][1] <= v[1] /\ v[1] \in Int
    BY <1>1, <1>3, <1>4, <2>2
  <2> QED
    BY <2>1, <2>3
<1>6. u[1] <= StretchEnd(v, V)
  <2>1. u[1] <= Latest(V)
    BY LatestOf
  <2>2. CASE StretchEnd(v, V) = Latest(V)
    BY <2>1, <2>2
  <2>3. CASE \E p \in Gaps(V) : p[1][1] >= v[1] /\ StretchEnd(v, V) = p[1][1]
    BY <1>5, <2>3
  <2> QED
    BY <1>4, <2>2, <2>3, StretchEnds
<1> QED
  BY <1>4, <1>6

DataBar(v, alert) ==
  [ from |-> v[1], to |-> StretchEnd(v, alert.values), data |-> TRUE,
    firing |-> ~alert.resolved /\ StretchEnd(v, alert.values) = Latest(alert.values) ]
GapBar(p) == [ from |-> p[1][1] + 1, to |-> p[2][1] - 1, data |-> FALSE, firing |-> FALSE ]

LEMMA AlertBars ==
  ASSUME NEW alert
  PROVE  createAlertsChartBars(alert) =
           {DataBar(v, alert) : v \in Starts(alert.values)} \cup {GapBar(p) : p \in Gaps(alert.values)}
BY DEF createAlertsChartBars, DataBar, GapBar, Starts, Gaps, StretchEnd

(* The bars of an alert, those without data included, never overlap,       *)
(* whatever its samples (createAlertsChartBars,                            *)
(* consolidateAndMergeAlertIntervals).                                     *)
THEOREM AlertBarsAreDisjoint ==
  ASSUME NEW lo \in Int, NEW hi \in Int, NEW alert, alert.values \in Samples(lo, hi),
         Single(alert.values)
  PROVE  \A b, c \in createAlertsChartBars(alert) : b # c => ~Overlap(b, c)
<1> DEFINE V == alert.values
           D == {DataBar(v, alert) : v \in Starts(V)}
           G == {GapBar(p) : p \in Gaps(V)}
           Apart(b, c) == ~Overlap(b, c) /\ ~Overlap(c, b)
<1>1. \A v \in Starts(V) : v \in V /\ v[1] \in Int /\ StretchEnd(v, V) \in Int
  BY TimesOf, StretchEnds DEF Starts
<1>2. \A p \in Gaps(V) : p[1][1] \in Int /\ p[2][1] \in Int
  BY GapsOf
<1>3. ASSUME NEW v \in Starts(V), NEW w \in Starts(V), DataBar(v, alert) # DataBar(w, alert)
      PROVE  Apart(DataBar(v, alert), DataBar(w, alert))
  <2>1. v[1] # w[1]
    BY <1>1, <1>3 DEF Single
  <2>2. StretchEnd(v, V) < w[1] \/ StretchEnd(w, V) < v[1]
    BY <1>1, <2>1, StretchesApart
  <2> QED
    BY <1>1, <2>2 DEF Overlap, DataBar
<1>4. ASSUME NEW v \in Starts(V), NEW p \in Gaps(V)
      PROVE  Apart(DataBar(v, alert), GapBar(p))
  <2>1. StretchEnd(v, V) < p[1][1] + 1 \/ p[2][1] - 1 < v[1]
    BY StretchAvoidsGap
  <2> QED
    BY <1>1, <1>2, <2>1 DEF Overlap, DataBar, GapBar
<1>5. ASSUME NEW p \in Gaps(V), NEW q \in Gaps(V), GapBar(p) # GapBar(q)
      PROVE  Apart(GapBar(p), GapBar(q))
  <2>1. p[2][1] - 1 < q[1][1] + 1 \/ q[2][1] - 1 < p[1][1] + 1
    BY <1>5, GapsApart
  <2> QED
    BY <1>2, <2>1 DEF Overlap, GapBar
<1>6. createAlertsChartBars(alert) = D \cup G
  BY AlertBars
<1>7. \A b, c \in D \cup G : b # c => Apart(b, c)
  BY <1>3, <1>4, <1>5
<1> QED
  BY <1>6, <1>7

(* Every sample of an alert is covered by a bar with data, and no bar with *)
(* data reaches into a gap.                                                *)
THEOREM AlertBarsCoverSamples ==
  ASSUME NEW lo \in Int, NEW hi \in Int, NEW alert, alert.values \in Samples(lo, hi)
  PROVE  /\ \A u \in alert.values : \E b \in createAlertsChartBars(alert) : b.data /\ In(u[1], b)
         /\ \A b \in createAlertsChartBars(alert), p \in Gaps(alert.values), t \in Int :
              b.data /\ In(t, b) => t <= p[1][1] \/ p[2][1] <= t
<1> DEFINE V == alert.values
<1>1. createAlertsChartBars(alert) =
        {DataBar(v, alert) : v \in Starts(V)} \cup {GapBar(p) : p \in Gaps(V)}
  BY AlertBars
<1>2. ASSUME NEW u \in V
      PROVE  \E b \in createAlertsChartBars(alert) : b.data /\ In(u[1], b)
  <2>1. PICK v \in Starts(V) : v[1] <= u[1] /\ u[1] <= StretchEnd(v, V)
    BY StretchOf
  <2>2. DataBar(v, alert).data /\ In(u[1], DataBar(v, alert))
    BY <2>1 DEF DataBar, In
  <2>3. DataBar(v, alert) \in createAlertsChartBars(alert)
    BY <1>1
  <2> QED
    BY <2>2, <2>3
<1>3. ASSUME NEW b \in createAlertsChartBars(alert), NEW p \in Gaps(V), NEW t \in Int,
             b.data, In(t, b)
      PROVE  t <= p[1][1] \/ p[2][1] <= t
  <2>1. PICK v \in Starts(V) : b = DataBar(v, alert)
    BY <1>1, <1>3 DEF GapBar
  <2>2. v[1] <= t /\ t <= StretchEnd(v, V)
    BY <1>3, <2>1 DEF DataBar, In
  <2>3. v[1] \in Int /\ StretchEnd(v, V) \in Int
    BY TimesOf, StretchEnds DEF Starts
  <2>4. p[1][1] \in Int /\ p[2][1] \in Int
    BY GapsOf
  <2>5. StretchEnd(v, V) < p[1][1] + 1 \/ p[2][1] - 1 < v[1]
    BY StretchAvoidsGap
  <2> QED
    BY <2>2, <2>3, <2>4, <2>5
<1> QED
  BY <1>2, <1>3

----------------------------------------------------------------------------
(* The end of a firing incident                                            *)

(* Times on the grid of query steps.                                       *)
Multiples == {k * Interval : k \in Int}

LEMMA LastMidnight ==
  ASSUME NEW time \in Nat
  PROVE  LET dates == generateDateArray(Days, time)
         IN  dates[Len(dates)] \in Int /\ dates[Len(dates)] <= time
<1> DEFINE m == (time \div OneDay) * OneDay
           dates == generateDateArray(Days, time)
<1>1. OneDay \in Nat \ {0} /\ Days \in Nat \ {0}
  BY RangeAssumption
<1>2. m \in Int /\ m <= time
  BY <1>1
<1> HIDE DEF m
<1>3. dates = [k \in 1 .. Days |-> m - (Days - k) * OneDay]
  BY DEF generateDateArray, m
<1>4. Len(dates) = Days
  BY <1>1, <1>3
<1>5. dates[Days] = m - (Days - Days) * OneDay
  BY <1>1, <1>3
<1>6. (Days - Days) * OneDay = 0
  BY <1>1
<1>7. dates[Len(dates)] = m
  BY <1>2, <1>4, <1>5, <1>6
<1> HIDE DEF dates
<1> QED
  BY <1>2, <1>7 DEF dates

(* Less than a step apart on the grid is not apart.                        *)
LEMMA GridOrder ==
  ASSUME NEW x \in Multiples, NEW y \in Multiples, x - y < Interval
  PROVE  x <= y
<1>1. PICK j \in Int, k \in Int : x = j * Interval /\ y = k * Interval
  BY DEF Multiples
<1>2. Interval \in Nat /\ Interval > 0
  BY IntervalAssumption
<1>3. x - y = (j - k) * Interval
  BY <1>1, <1>2
<1>4. j - k >= 1 => (j - k) * Interval >= Interval
  BY <1>2
<1>5. j <= k
  BY <1>1, <1>2, <1>3, <1>4
<1>6. (k - j) * Interval >= 0
  BY <1>2, <1>5
<1>7. y - x = (k - j) * Interval
  BY <1>1, <1>2
<1> QED
  BY <1>1, <1>2, <1>6, <1>7

(* The padding stays within a step, and reaches a step further than the    *)
(* latest sample unless that is in the future.                             *)
LEMMA PaddingOf ==
  ASSUME NEW lo \in Int, NEW hi \in Int, NEW V \in Samples(lo, hi), V # {}, NEW time \in Nat
  PROVE  LET P == insertPaddingPointsForChart(V, time)
         IN  /\ P \in Samples(lo - Interval, hi + Interval)
             /\ V \subseteq P
             /\ time >= Latest(V) + Interval => \E v \in P : v[1] = Latest(V) + Interval
<1> DEFINE P == insertPaddingPointsForChart(V, time)
           threshold == Interval + 1
           Leads(v) == \A w \in Before(v, V) : v[1] - w[1] > threshold
           Trails(v) == /\ \A w \in After(v, V) : w[1] - v[1] > threshold
                        /\ After(v, V) = {} => time >= v[1] + Interval
           L == {<<v[1] - Interval, v[2]>> : v \in {v \in V : Leads(v)}}
           T == {<<v[1] + Interval, v[2]>> : v \in {v \in V : Trails(v)}}
<1>1. P = V \cup L \cup T
  BY DEF insertPaddingPointsForChart
<1>2. Interval \in Nat
  BY IntervalAssumption
<1>3. \A v \in V : v[1] \in lo .. hi /\ v[2] \in 0 .. 2 /\ v = <<v[1], v[2]>>
  BY TimesOf
<1> DEFINE Wide == ((lo - Interval) .. (hi + Interval)) \X (0 .. 2)
<1>4. \A v \in V : v \in Wide /\ <<v[1] - Interval, v[2]>> \in Wide /\ <<v[1] + Interval, v[2]>> \in Wide
  <2> SUFFICES ASSUME NEW v \in V
               PROVE  v \in Wide /\ <<v[1] - Interval, v[2]>> \in Wide /\ <<v[1] + Interval, v[2]>> \in Wide
    OBVIOUS
  <2>1. /\ v[1] \in (lo - Interval) .. (hi + Interval)
        /\ v[1] - Interval \in (lo - Interval) .. (hi + Interval)
        /\ v[1] + Interval \in (lo - Interval) .. (hi + Interval)
    BY <1>2, <1>3
  <2> QED
    BY <1>3, <2>1
<1>5. V \subseteq Wide /\ L \subseteq Wide /\ T \subseteq Wide
  BY <1>4
<1>6. ASSUME time >= Latest(V) + Interval
      PROVE  \E v \in T : v[1] = Latest(V) + Interval
  <2>1. PICK v \in V : v[1] = Latest(V)
    BY LatestOf
  <2>2. After(v, V) = {}
    <3>1. \A w \in V : w[1] <= v[1] /\ w[1] \in Int /\ v[1] \in Int
      BY <1>3, <2>1, LatestOf
    <3> QED
      BY <3>1 DEF After
  <2>3. Trails(v)
    BY <1>6, <2>1, <2>2
  <2>4. <<v[1] + Interval, v[2]>> \in T
    BY <2>3
  <2> QED
    BY <2>1, <2>4
<1> HIDE DEF P, L, T, Wide
<1>7. P \subseteq Wide /\ V \subseteq P
  BY <1>1, <1>5
<1>8. time >= Latest(V) + Interval => \E v \in P : v[1] = Latest(V) + Interval
  BY <1>1, <1>6
<1>9. P \in Samples(lo - Interval, hi + Interval)
  BY <1>7 DEF Samples, Wide
<1> QED
  BY <1>7, <1>8, <1>9 DEF P

LEMMA PaddedLatest ==
  ASSUME NEW lo \in Int, NEW hi \in Int, NEW V \in Samples(lo, hi), V # {},
         NEW time \in Nat, time \in Multiples, \A v \in V : v[1] \in Multiples,
         ~isResolved(Latest(V), time)
  PROVE  Latest(insertPaddingPointsForChart(V, time)) >= time
<1> DEFINE P == insertPaddingPointsForChart(V, time)
           l == Latest(V)
<1>1. Interval \in Nat /\ Interval > 0 /\ lo - Interval \in Int /\ hi + Interval \in Int
  BY IntervalAssumption
<1>2. l \in Int /\ l \in Multiples /\ \E v \in V : v[1] = l
  BY LatestOf
<1>3. /\ P \in Samples(lo - Interval, hi + Interval) /\ V \subseteq P /\ P # {}
      /\ time >= l + Interval => \E v \in P : v[1] = l + Interval
  BY PaddingOf
<1> HIDE DEF P
<1>4. Latest(P) \in Int /\ \A v \in P : v[1] <= Latest(P)
  BY <1>1, <1>3, LatestOf
<1>5. time - l < 2 * Interval
  BY <1>1, <1>2 DEF isResolved
<1> HIDE DEF l
<1>6. CASE time >= l + Interval
  <2>1. l + Interval \in Multiples
    <3>1. PICK k \in Int : l = k * Interval
      BY <1>2 DEF Multiples
    <3>2. l + Interval = (k + 1) * Interval
      BY <1>1, <3>1
    <3> QED
      BY <3>2 DEF Multiples
  <2>2. time <= l + Interval
    BY <1>1, <1>2, <1>5, <2>1, GridOrder
  <2>3. l + Interval <= Latest(P)
    BY <1>3, <1>4, <1>6
  <2> QED
    BY <1>1, <1>2, <1>4, <2>2, <2>3 DEF P
<1>7. CASE ~(time >= l + Interval)
  <2>1. time <= l
    BY <1>1, <1>2, <1>7, GridOrder
  <2>2. l <= Latest(P)
    BY <1>2, <1>3, <1>4
  <2> QED
    BY <1>2, <1>4, <2>1, <2>2 DEF P
<1> QED
  BY <1>6, <1>7

(* The bar of the last run of a firing incident is marked as firing if the *)
(* samples reach the last midnight.                                        *)
LEMMA OpenBar ==
  ASSUME NEW incident, NEW dates, incident.firing,
         NEW r \in Runs(HighestSeverityAtEachTimestamp(incident.values)),
         After(r, Runs(HighestSeverityAtEachTimestamp(incident.values))) = {},
         Latest(HighestSeverityAtEachTimestamp(incident.values)) >= dates[Len(dates)]
  PROVE  \E b \in createIncidentsChartBars(incident, dates) : b.data /\ b.firing
<1> DEFINE W == HighestSeverityAtEachTimestamp(incident.values)
           Bar(v) == [ from |-> v[1], to |-> RunEnd(v, W), data |-> TRUE, severity |-> v[2],
                       firing |-> /\ incident.firing /\ After(v, Runs(W)) = {}
                                  /\ Latest(W) >= dates[Len(dates)] ]
<1>1. {b \in createIncidentsChartBars(incident, dates) : b.data} = {Bar(v) : v \in Runs(W)}
  <2>1. DataBars(incident, dates) = {Bar(v) : v \in Runs(W)}
    BY DEF DataBars
  <2> QED
    BY <2>1, IncidentBars
<1>2. Bar(r).firing /\ Bar(r).data
  OBVIOUS
<1> HIDE DEF W, Bar
<1>3. Bar(r) \in createIncidentsChartBars(incident, dates)
  BY <1>1 DEF W
<1> QED
  BY <1>2, <1>3

(* An incident that fires now has a bar marked as firing, whatever it      *)
(* recorded before (insertPaddingPointsForChart, createIncidentsChartBars, *)
(* generateDateArray).  Without the point after the last sample its chart  *)
(* would end before the last midnight and say nothing of the present.      *)
THEOREM FiringIncidentIsOpen ==
  ASSUME NEW lo \in Int, NEW hi \in Int, NEW V \in Samples(lo, hi), V # {},
         NEW time \in Nat, time \in Multiples, \A v \in V : v[1] \in Multiples,
         ~isResolved(Latest(V), time),
         NEW incident, incident.firing, incident.values = insertPaddingPointsForChart(V, time)
  PROVE  \E b \in createIncidentsChartBars(incident, generateDateArray(Days, time)) :
           b.data /\ b.firing
<1> DEFINE P == insertPaddingPointsForChart(V, time)
           W == HighestSeverityAtEachTimestamp(incident.values)
           dates == generateDateArray(Days, time)
<1>1. lo - Interval \in Int /\ hi + Interval \in Int
  BY IntervalAssumption
<1>2. P \in Samples(lo - Interval, hi + Interval) /\ P # {}
  BY PaddingOf
<1>3. Latest(P) >= time
  BY PaddedLatest
<1>4. incident.values = P
  OBVIOUS
<1>5. dates[Len(dates)] \in Int /\ dates[Len(dates)] <= time
  BY LastMidnight
<1> HIDE DEF P, dates
<1>6. /\ W \in Samples(lo - Interval, hi + Interval) /\ W \subseteq P /\ Single(W)
      /\ \A v \in P : \E w \in W : w[1] = v[1]
  BY <1>1, <1>2, <1>4, HighestOf
<1> HIDE DEF W
<1>7. \A v \in P : v[1] \in Int
  BY <1>1, <1>2, TimesOf
<1>8. /\ Latest(P) \in Int /\ \E v \in P : v[1] = Latest(P)
      /\ \A v \in P : v[1] <= Latest(P)
  BY <1>1, <1>2, LatestOf
<1>9. W # {}
  BY <1>2, <1>6
<1>10. Latest(W) \in Int /\ \A w \in W : w[1] <= Latest(W)
  BY <1>1, <1>6, <1>9, LatestOf
<1>11. Latest(W) >= dates[Len(dates)]
  <2>1. PICK w \in W : w[1] = Latest(P)
    BY <1>6, <1>8
  <2>2. Latest(P) <= Latest(W)
    BY <1>10, <2>1
  <2> QED
    BY <1>3, <1>5, <1>8, <1>10, <2>2
<1>12. PICK u \in W : TRUE
  BY <1>9
<1>13. PICK r \in Runs(W) : \A w \in Runs(W) : w[1] <= r[1]
  <2>1. Runs(W) # {}
    BY <1>1, <1>6, <1>12, RunOf
  <2>2. Runs(W) \in Samples(lo - Interval, hi + Interval)
    BY <1>6 DEF Runs, Samples
  <2> QED
    BY <1>1, <2>1, <2>2, LatestOf
<1>14. After(r, Runs(W)) = {}
  <2>1. \A w \in Runs(W) : w[1] \in Int /\ r[1] \in Int
    BY <1>6, <1>7 DEF Runs
  <2> QED
    BY <1>13, <2>1 DEF After
<1> QED
  BY <1>11, <1>13, <1>14, OpenBar DEF W, dates

----------------------------------------------------------------------------
(* Recursive functions: a function that is defined step by step exists.    *)

(* A set of numbers that has 0 and with each number the next one has all.  *)
LEMMA Counting ==
  ASSUME NEW S, 0 \in S, \A n \in Nat : n \in S => n + 1 \in S
  PROVE  \A n \in Nat : n \in S
<1> DEFINE T == {n \in Nat : n \notin S}
<1> SUFFICES ASSUME T # {} PROVE FALSE
  OBVIOUS
<1>1. T \subseteq Nat
  OBVIOUS
<1>2. PICK m \in T : \A y \in T : ~ (<<y, m>> \in OpToRel(<, Nat))
  BY <1>1, NatLessThanWellFounded, WFMin
<1>3. m \in Nat /\ m \notin S /\ m # 0
  OBVIOUS
<1>6. m - 1 \in Nat /\ m - 1 < m
  BY <1>3
<1>4. m - 1 \notin T
  BY <1>2, <1>3, <1>6 DEF OpToRel
<1>5. (m - 1) + 1 \in S
  BY <1>3, <1>4, <1>6
<1> QED
  BY <1>3, <1>5

Follows(f, a, b, st, N) ==
  f = [n \in a .. N |-> IF n = a THEN b ELSE st[f[n - 1], n]]

(* A sequence that is defined step by step exists.                         *)
LEMMA StepwiseExists ==
  ASSUME NEW T, NEW a \in Int, NEW N \in Int, a <= N, NEW b \in T,
         NEW st \in [T \X ((a + 1) .. N) -> T]
  PROVE  \E f \in [a .. N -> T] : Follows(f, a, b, st, N)
<1> DEFINE P(n) == \E f \in [a .. (a + n) -> T] : Follows(f, a, b, st, a + n)
           S == {n \in Nat : a + n <= N => P(n)}
<1>1. 0 \in S
  <2> DEFINE f == [n \in a .. a |-> b]
  <2>1. f \in [a .. (a + 0) -> T] /\ Follows(f, a, b, st, a + 0)
    BY DEF Follows
  <2> QED
    BY <2>1
<1>2. ASSUME NEW n \in Nat, n \in S, a + (n + 1) <= N PROVE P(n + 1)
  <2>1. PICK f \in [a .. (a + n) -> T] : Follows(f, a, b, st, a + n)
    BY <1>2
  <2> DEFINE m == a + (n + 1)
             g == [k \in a .. m |-> IF k = m THEN st[f[a + n], m] ELSE f[k]]
  <2>2. m \in (a + 1) .. N /\ m - 1 = a + n /\ a + n \in a .. (a + n) /\ m # a
    BY <1>2
  <2>3. f[a + n] \in T /\ st[f[a + n], m] \in T
    BY <2>1, <2>2
  <2>4. \A k \in a .. m : k # m => k \in a .. (a + n) /\ (k # a => k - 1 \in a .. (a + n) /\ k - 1 # m)
    BY <2>2
  <2>5. g \in [a .. m -> T]
    BY <2>1, <2>3, <2>4
  <2>6. ASSUME NEW k \in a .. m PROVE g[k] = IF k = a THEN b ELSE st[g[k - 1], k]
    <3>1. CASE k = m
      <4>1. k - 1 \in a .. m /\ k - 1 # m /\ k - 1 = a + n
        BY <3>1, <2>2
      <4>2. g[k - 1] = f[a + n]
        BY <4>1
      <4> QED
        BY <3>1, <4>2, <2>2
    <3>2. CASE k # m /\ k = a
      BY <2>1, <2>2, <2>4, <3>2 DEF Follows
    <3>3. CASE k # m /\ k # a
      <4>1. k \in a .. (a + n) /\ k - 1 \in a .. m /\ k - 1 # m
        BY <2>4, <3>3
      <4>2. g[k] = f[k] /\ g[k - 1] = f[k - 1]
        BY <3>3, <4>1
      <4>3. f[k] = st[f[k - 1], k]
        BY <2>1, <3>3, <4>1 DEF Follows
      <4> QED
        BY <3>3, <4>2, <4>3
    <3> QED
      BY <3>1, <3>2, <3>3
  <2> HIDE DEF g
  <2>7. Follows(g, a, b, st, m)
    BY <2>5, <2>6 DEF Follows
  <2> QED
    BY <2>5, <2>7
<1>3. N - a \in Nat
  OBVIOUS
<1> HIDE DEF P
<1>4. \A n \in Nat : n \in S => n + 1 \in S
  <2> SUFFICES ASSUME NEW n \in Nat, n \in S, a + (n + 1) <= N PROVE P(n + 1)
    OBVIOUS
  <2> QED
    BY <1>2
<1>5. N - a \in S
  <2> HIDE DEF S
  <2> QED
    BY <1>1, <1>3, <1>4, Counting
<1>6. a + (N - a) = N
  OBVIOUS
<1> QED
  BY <1>5, <1>6 DEF P

----------------------------------------------------------------------------
(* Sequences by their elements                                             *)

Elems(q) == {q[i] : i \in DOMAIN q}

(* The elements of two sequences joined.                                   *)
LEMMA ElemsOfJoin ==
  ASSUME NEW X, NEW q \in Seq(X), NEW r \in Seq(X)
  PROVE  q \o r \in Seq(X) /\ Elems(q \o r) = Elems(q) \cup Elems(r)
<1>1. /\ q \o r \in Seq(X) /\ Len(q \o r) = Len(q) + Len(r)
      /\ DOMAIN (q \o r) = 1 .. Len(q) + Len(r) /\ DOMAIN q = 1 .. Len(q) /\ DOMAIN r = 1 .. Len(r)
      /\ Len(q) \in Nat /\ Len(r) \in Nat
  OBVIOUS
<1>2. \A i \in 1 .. Len(q) + Len(r) :
        (q \o r)[i] = IF i <= Len(q) THEN q[i] ELSE r[i - Len(q)]
  OBVIOUS
<1>3. \A i \in 1 .. Len(q) : i \in 1 .. Len(q) + Len(r) /\ (q \o r)[i] = q[i]
  BY <1>1, <1>2
<1>4. \A i \in 1 .. Len(r) : i + Len(q) \in 1 .. Len(q) + Len(r) /\ (q \o r)[i + Len(q)] = r[i]
  BY <1>1, <1>2
<1>5. \A i \in 1 .. Len(q) + Len(r) : (q \o r)[i] \in Elems(q) \cup Elems(r)
  <2> SUFFICES ASSUME NEW i \in 1 .. Len(q) + Len(r) PROVE (q \o r)[i] \in Elems(q) \cup Elems(r)
    OBVIOUS
  <2>1. CASE i <= Len(q)
    BY <1>1, <1>2, <2>1 DEF Elems
  <2>2. CASE ~(i <= Len(q))
    <3>1. i - Len(q) \in 1 .. Len(r)
      BY <1>1, <2>2
    <3> QED
      BY <1>1, <1>2, <2>2, <3>1 DEF Elems
  <2> QED
    BY <2>1, <2>2
<1> DEFINE j == q \o r
<1>6. DOMAIN j = 1 .. Len(q) + Len(r) /\ \A i \in 1 .. Len(q) + Len(r) : j[i] \in Elems(q) \cup Elems(r)
  BY <1>1, <1>5
<1>7. /\ \A i \in 1 .. Len(q) : i \in DOMAIN j /\ j[i] = q[i]
      /\ \A i \in 1 .. Len(r) : i + Len(q) \in DOMAIN j /\ j[i + Len(q)] = r[i]
  BY <1>1, <1>3, <1>4
<1> HIDE DEF j
<1>8. Elems(j) \subseteq Elems(q) \cup Elems(r)
  BY <1>6 DEF Elems
<1>9. Elems(q) \subseteq Elems(j) /\ Elems(r) \subseteq Elems(j)
  BY <1>1, <1>7 DEF Elems
<1> QED
  BY <1>1, <1>8, <1>9 DEF j

(* The elements of a sequence with one more.                               *)
LEMMA ElemsOfAppend ==
  ASSUME NEW X, NEW q \in Seq(X), NEW x \in X
  PROVE  Append(q, x) \in Seq(X) /\ Elems(Append(q, x)) = Elems(q) \cup {x}
<1>1. Append(q, x) = q \o <<x>> /\ <<x>> \in Seq(X)
  OBVIOUS
<1>2. Elems(<<x>>) = {x}
  BY DEF Elems
<1> DEFINE r == <<x>>
<1>3. q \o r \in Seq(X) /\ Elems(q \o r) = Elems(q) \cup Elems(r)
  <2>1. r \in Seq(X)
    BY <1>1
  <2> HIDE DEF r
  <2> QED
    BY <2>1, ElemsOfJoin
<1> QED
  BY <1>1, <1>2, <1>3

(* FlattenSeq joins all sequences, so it has all their elements.           *)
LEMMA FlattenOf ==
  ASSUME NEW X, NEW n \in Nat, NEW s \in [1 .. n -> Seq(X)]
  PROVE  /\ FlattenSeq(s) \in Seq(X)
         /\ \A x : x \in Elems(FlattenSeq(s)) <=> \E k \in 1 .. n : x \in Elems(s[k])
<1>1. Len(s) = n
  <2>1. s \in Seq(Seq(X))
    OBVIOUS
  <2> QED
    BY <2>1
<1>2. CASE n = 0
  <2>1. FlattenSeq(s) = s /\ s = <<>>
    BY <1>1, <1>2 DEF FlattenSeq
  <2> QED
    BY <1>2, <2>1 DEF Elems
<1>3. CASE n # 0
  <2> DEFINE R(f) == f = [i \in 1 .. n |-> IF i = 1 THEN s[i] ELSE f[i - 1] \o s[i]]
             F == CHOOSE f : R(f)
             st == [p \in Seq(X) \X ((1 + 1) .. n) |-> p[1] \o s[p[2]]]
  <2>1. FlattenSeq(s) = F[n]
    BY <1>1, <1>3 DEF FlattenSeq
  <2>2. st \in [Seq(X) \X ((1 + 1) .. n) -> Seq(X)]
    <3> SUFFICES ASSUME NEW p \in Seq(X) \X ((1 + 1) .. n) PROVE p[1] \o s[p[2]] \in Seq(X)
      OBVIOUS
    <3> QED
      BY ElemsOfJoin
  <2>3. s[1] \in Seq(X) /\ 1 <= n
    BY <1>3
  <2> HIDE DEF st
  <2>4. PICK f \in [1 .. n -> Seq(X)] : Follows(f, 1, s[1], st, n)
    <3>1. 1 \in Int /\ n \in Int
      OBVIOUS
    <3> QED
      BY <2>2, <2>3, <3>1, StepwiseExists
  <2>5. R(f)
    <3> SUFFICES ASSUME NEW i \in 1 .. n, i # 1 PROVE st[f[i - 1], i] = f[i - 1] \o s[i]
      BY <2>4 DEF Follows
    <3>1. <<f[i - 1], i>> \in Seq(X) \X ((1 + 1) .. n)
      OBVIOUS
    <3> QED
      BY <3>1 DEF st
  <2>6. R(F)
    BY <2>5
  <2> HIDE DEF F
  <2> DEFINE P(m) == /\ F[m] \in Seq(X)
                     /\ \A x : x \in Elems(F[m]) <=> \E k \in 1 .. m : x \in Elems(s[k])
             S == {m \in Nat : m + 1 <= n => P(m + 1)}
  <2>7. 0 \in S
    <3>1. F[1] = s[1]
      BY <2>3, <2>6
    <3> QED
      BY <2>3, <3>1
  <2>8. ASSUME NEW m \in Nat, m \in S PROVE m + 1 \in S
    <3> SUFFICES ASSUME m + 2 <= n PROVE P(m + 2)
      OBVIOUS
    <3>1. P(m + 1)
      BY <2>8
    <3>2. F[m + 2] = F[m + 1] \o s[m + 2]
      <4>1. m + 2 \in 1 .. n /\ m + 2 # 1 /\ (m + 2) - 1 = m + 1
        OBVIOUS
      <4> QED
        BY <2>6, <4>1
    <3>3. F[m + 2] \in Seq(X) /\ Elems(F[m + 2]) = Elems(F[m + 1]) \cup Elems(s[m + 2])
      BY <3>1, <3>2, ElemsOfJoin
    <3>4. 1 .. (m + 2) = (1 .. (m + 1)) \cup {m + 2}
      OBVIOUS
    <3> QED
      BY <3>1, <3>3, <3>4
  <2>9. n - 1 \in Nat /\ (n - 1) + 1 = n
    BY <1>3
  <2> HIDE DEF P
  <2>10. n - 1 \in S
    <3> HIDE DEF S
    <3> QED
      BY <2>7, <2>8, <2>9, Counting
  <2> QED
    BY <2>1, <2>9, <2>10 DEF P
<1> QED
  BY <1>2, <1>3

----------------------------------------------------------------------------
(* The URL                                                                 *)

(* Texts without a comma, and what they are joined to.                     *)
Plain(texts) ==
  /\ texts \in Seq({texts[n] : n \in DOMAIN texts})
  /\ \A n \in DOMAIN texts : texts[n] = << texts[n][1] >>

LEMMA OneText ==
  ASSUME NEW x
  PROVE  <<x>> # <<>> /\ <<x>>[1] = x /\ Range(<<x>>) = {x}
<1>1. DOMAIN <<x>> = {1} /\ <<x>>[1] = x
  OBVIOUS
<1> QED
  BY <1>1 DEF Range

(* Between the commas of texts joined are the texts.                       *)
LEMMA JoinOf ==
  ASSUME NEW q, Plain(q), q # <<>>
  PROVE  join(q) = [n \in DOMAIN q |-> q[n][1]]
<1> DEFINE N == Len(q)
           Y == {q[n][1] : n \in DOMAIN q}
           R(f) == f = [n \in 0 .. N |-> IF n = 0 THEN <<>> ELSE f[n - 1] \o q[n]]
           F == CHOOSE f : R(f)
           st == [p \in Seq(Y) \X ((0 + 1) .. N) |-> p[1] \o q[p[2]]]
<1>1. join(q) = F[N]
  BY DEF join
<1>2. N \in Nat /\ DOMAIN q = 1 .. N
  BY DEF Plain
<1>3. \A n \in 1 .. N : q[n] = << q[n][1] >> /\ q[n][1] \in Y
  BY <1>2 DEF Plain
<1> HIDE DEF N, Y
<1>4. st \in [Seq(Y) \X ((0 + 1) .. N) -> Seq(Y)]
  <2> SUFFICES ASSUME NEW p \in Seq(Y) \X ((0 + 1) .. N) PROVE p[1] \o q[p[2]] \in Seq(Y)
    OBVIOUS
  <2>1. << q[p[2]][1] >> \in Seq(Y) /\ q[p[2]] = << q[p[2]][1] >>
    BY <1>3
  <2>2. p[1] \in Seq(Y) /\ q[p[2]] \in Seq(Y)
    BY <2>1
  <2> HIDE DEF st
  <2> QED
    BY <2>2
<1>5. <<>> \in Seq(Y) /\ 0 <= N /\ 0 \in Int /\ N \in Int
  BY <1>2
<1> HIDE DEF st
<1>6. PICK f \in [0 .. N -> Seq(Y)] : Follows(f, 0, <<>>, st, N)
  BY <1>4, <1>5, StepwiseExists
<1>7. R(f)
  <2> SUFFICES ASSUME NEW n \in 0 .. N, n # 0 PROVE st[f[n - 1], n] = f[n - 1] \o q[n]
    BY <1>6 DEF Follows
  <2>1. <<f[n - 1], n>> \in Seq(Y) \X ((0 + 1) .. N)
    BY <1>2
  <2> QED
    BY <2>1 DEF st
<1>8. R(F)
  BY <1>7
<1> HIDE DEF F
<1> DEFINE P(n) == F[n] = [k \in 1 .. n |-> q[k][1]]
           S == {n \in Nat : n <= N => P(n)}
<1>9. 0 \in S
  <2>1. F[0] = <<>> /\ 1 .. 0 = {}
    BY <1>2, <1>8
  <2>2. P(0)
    BY <2>1
  <2> QED
    BY <2>2
<1>10. ASSUME NEW n \in Nat, n \in S PROVE n + 1 \in S
  <2> SUFFICES ASSUME n + 1 <= N PROVE P(n + 1)
    OBVIOUS
  <2> DEFINE r == [k \in 1 .. n |-> q[k][1]]
             y == q[n + 1][1]
  <2>1. F[n] = r
    BY <1>2, <1>10
  <2>2. n + 1 \in 0 .. N /\ n + 1 # 0 /\ (n + 1) - 1 = n /\ n + 1 \in 1 .. N
    BY <1>2
  <2>3. F[n + 1] = r \o <<y>>
    <3>1. F[n + 1] = F[n] \o q[n + 1]
      BY <1>8, <2>2
    <3>2. q[n + 1] = <<y>>
      BY <1>3, <2>2
    <3> QED
      BY <2>1, <3>1, <3>2
  <2>4. \A k \in 1 .. n : q[k][1] \in Y
    BY <1>2, <1>3
  <2>5. r \in Seq(Y) /\ Len(r) = n /\ \A k \in 1 .. n : r[k] = q[k][1]
    BY <2>4
  <2> HIDE DEF r
  <2>6. r \o <<y>> = [k \in 1 .. (n + 1) |-> IF k <= n THEN r[k] ELSE y]
    BY <2>5
  <2>7. \A k \in 1 .. (n + 1) : (IF k <= n THEN r[k] ELSE y) = q[k][1]
    BY <2>5
  <2> QED
    BY <2>3, <2>6, <2>7
<1> HIDE DEF P
<1>11. N \in S
  <2> HIDE DEF S
  <2> QED
    BY <1>2, <1>9, <1>10, Counting
<1>12. P(N)
  BY <1>2, <1>11
<1> QED
  BY <1>1, <1>2, <1>12 DEF P

(* What was joined is split into the same texts.                           *)
LEMMA SplitOfJoin ==
  ASSUME NEW q, Plain(q), q # <<>>
  PROVE  split(join(q)) = q
<1>1. join(q) = [n \in DOMAIN q |-> q[n][1]]
  BY JoinOf
<1>2. split(join(q)) = [n \in DOMAIN q |-> << q[n][1] >>]
  BY <1>1 DEF split
<1>3. q = [n \in DOMAIN q |-> q[n]] /\ \A n \in DOMAIN q : q[n] = << q[n][1] >>
  BY DEF Plain
<1> QED
  BY <1>2, <1>3

(* The page opened by its URL has the filters it had, but of several       *)
(* incidents the first.                                                    *)
LEMMA FiltersOfOwnUrl ==
  ASSUME NEW f \in Filters
  PROVE  LET u == FiltersOfUrl(UrlOf(f))
         IN  /\ u.days = f.days /\ u.severity = f.severity /\ u.state = f.state
             /\ u.groupId = IF selectedGroupId(f) = <<"">> THEN f.groupId
                            ELSE <<selectedGroupId(f)>>
<1> DEFINE url == UrlOf(f)
           group == selectedGroupId(f)
           u == FiltersOfUrl(url)
<1>1. /\ DOMAIN f = {"days", "severity", "state", "groupId"} /\ f.days # <<>>
      /\ \A k \in DOMAIN f : Plain(f[k])
  BY FiltersAssumption DEF Plain
<1>2. ASSUME NEW k \in DOMAIN f, f[k] # <<>>, k # "groupId" \/ group = <<"">>
      PROVE  k \in DOMAIN url /\ url[k] = join(f[k])
  BY <1>2 DEF UrlOf, makeIncidentUrlParams
<1>3. ASSUME NEW k \in DOMAIN f, f[k] = <<>>, k # "groupId" \/ group = <<"">>
      PROVE  k \notin DOMAIN url
  BY <1>3 DEF UrlOf, makeIncidentUrlParams
<1>4. group # <<"">> => "groupId" \in DOMAIN url /\ url["groupId"] = group
  BY DEF UrlOf, makeIncidentUrlParams
<1> HIDE DEF url
<1>5. /\ u.days = IF "days" \in DOMAIN url THEN split(url["days"]) ELSE << <<"7 days">> >>
      /\ \A k \in {"severity", "state", "groupId"} :
           u[k] = IF k \in DOMAIN url THEN split(url[k]) ELSE <<>>
  BY DEF FiltersOfUrl, parseUrlParams
<1> HIDE DEF u
<1>6. \A k \in DOMAIN f : f[k] # <<>> => split(join(f[k])) = f[k]
  BY <1>1, SplitOfJoin
<1>7. u.days = f.days
  BY <1>1, <1>2, <1>5, <1>6
<1>8. ASSUME NEW k \in {"severity", "state"} PROVE u[k] = f[k]
  BY <1>1, <1>2, <1>3, <1>5, <1>6
<1>9. CASE group = <<"">>
  <2>1. u.groupId = f.groupId
    BY <1>1, <1>2, <1>3, <1>5, <1>6, <1>9
  <2> QED
    BY <1>7, <1>8, <1>9, <2>1 DEF u, url
<1>10. CASE group # <<"">>
  <2>1. group = f.groupId[1] /\ f.groupId # <<>>
    BY <1>10 DEF selectedGroupId
  <2>2. group = << group[1] >>
    BY <1>1, <2>1 DEF Plain
  <2>3. split(group) = <<group>>
    BY <2>2 DEF split
  <2>4. u.groupId = <<group>>
    BY <1>4, <1>5, <1>10, <2>3
  <2> QED
    BY <1>7, <1>8, <1>10, <2>4 DEF u, url
<1> QED
  BY <1>9, <1>10

(* Reloading the page, or opening a copied URL, shows the same incidents   *)
(* and writes the same URL, for all filters and whatever was recorded: the *)
(* texts that are joined are split again, and of several incidents in a    *)
(* link only the first is asked for (updateBrowserUrl, parseUrlParams).    *)
THEOREM ReloadIsFaithful == Spec => []ReloadShowsSameIncidents
<1>1. ASSUME NEW f \in Filters, NEW incidents
      PROVE  LET u == FiltersOfUrl(UrlOf(f))
             IN  /\ u.days = f.days
                 /\ ShownFor(u, incidents) = ShownFor(f, incidents)
                 /\ UrlOf(u) = UrlOf(f)
  <2> DEFINE u == FiltersOfUrl(UrlOf(f))
             group == selectedGroupId(f)
  <2>1. /\ u.days = f.days /\ u.severity = f.severity /\ u.state = f.state
        /\ u.groupId = IF group = <<"">> THEN f.groupId ELSE <<group>>
    BY FiltersOfOwnUrl
  <2>2. /\ DOMAIN u = {"days", "severity", "state", "groupId"} /\ DOMAIN f = DOMAIN u
        /\ \A k \in DOMAIN f : Plain(f[k])
    BY FiltersAssumption DEF FiltersOfUrl, Plain
  <2> HIDE DEF u
  <2> HIDE DEF group
  <2>3. selectedGroupId(u) = group
    <3>1. CASE group = <<"">>
      BY <2>1, <3>1 DEF selectedGroupId, group
    <3>2. CASE group # <<"">>
      <4>1. u.groupId = <<group>>
        BY <2>1, <3>2
      <4>2. u.groupId # <<>> /\ u.groupId[1] = group
        BY <4>1, OneText
      <4> QED
        BY <4>2 DEF selectedGroupId
    <3> QED
      BY <3>1, <3>2
  <2>4. ShownFor(u, incidents) = ShownFor(f, incidents)
    <3>1. CASE group = <<"">>
      BY <2>1, <2>3, <3>1 DEF ShownFor, filterIncident, group
    <3>2. CASE group # <<"">>
      <4> DEFINE own == {i \in incidents : <<i.group_id>> = group}
      <4>1. f.groupId # <<>> /\ group \in Range(f.groupId)
        <5>1. f.groupId # <<>> /\ group = f.groupId[1] /\ Plain(f.groupId)
          BY <2>2, <3>2 DEF selectedGroupId, group
        <5> QED
          BY <5>1 DEF Plain, Range
      <4>2. u.groupId # <<>> /\ group \in Range(u.groupId)
        <5>1. u.groupId = <<group>>
          BY <2>1, <3>2
        <5> QED
          BY <5>1, OneText
      <4>3. \A i \in own : <<i.group_id>> \in Range(f.groupId) /\ <<i.group_id>> \in Range(u.groupId)
        BY <4>1, <4>2
      <4>4. ShownFor(u, incidents) = filterIncident(u, own) /\ ShownFor(f, incidents) = filterIncident(f, own)
        BY <2>3, <3>2 DEF ShownFor, group
      <4> HIDE DEF own
      <4>5. filterIncident(u, own) = filterIncident(f, own)
        BY <2>1, <4>3 DEF filterIncident
      <4> QED
        BY <4>4, <4>5
    <3> QED
      BY <3>1, <3>2
  <2>5. UrlOf(u) = UrlOf(f)
    <3> DEFINE own(x) == [k \in {k \in DOMAIN x : x[k] # <<>>} |-> join(x[k])]
               overridden(m) == [k \in DOMAIN m \cup {"groupId"} |-> IF k = "groupId" THEN group ELSE m[k]]
    <3>1. /\ UrlOf(u) = IF group = <<"">> THEN own(u) ELSE overridden(own(u))
          /\ UrlOf(f) = IF group = <<"">> THEN own(f) ELSE overridden(own(f))
      BY <2>3 DEF UrlOf, makeIncidentUrlParams, group
    <3>2. CASE group = <<"">>
      <4>1. \A k \in DOMAIN f : u[k] = f[k]
        BY <2>1, <2>2, <3>2
      <4>2. own(u) = own(f)
        BY <2>2, <4>1
      <4> QED
        BY <3>1, <3>2, <4>2
    <3>3. CASE group # <<"">>
      <4>1. \A k \in DOMAIN f : k # "groupId" => u[k] = f[k]
        BY <2>1, <2>2
      <4>2. DOMAIN own(u) \cup {"groupId"} = DOMAIN own(f) \cup {"groupId"}
        BY <2>2, <4>1
      <4>3. \A k \in DOMAIN own(f) : k # "groupId" => own(u)[k] = own(f)[k]
        BY <2>2, <4>1
      <4> HIDE DEF own
      <4>4. overridden(own(u)) = overridden(own(f))
        BY <4>2, <4>3
      <4> HIDE DEF overridden
      <4> QED
        BY <3>1, <3>3, <4>4
    <3> QED
      BY <3>2, <3>3
  <2> QED
    BY <2>1, <2>4, <2>5 DEF u
<1>2. ReloadShowsSameIncidents
  BY <1>1 DEF ReloadShowsSameIncidents
<1> QED
  BY <1>2, PTL

----------------------------------------------------------------------------
(* The incidents of a sequence of answers                                  *)

InRange(x, end) == [x EXCEPT !.values = {v \in @ : end - OneDay <= v[1] /\ v[1] <= end}]

(* What is kept of a sequence are its elements at the places.              *)
LEMMA KeepOf ==
  ASSUME NEW X, NEW q \in Seq(X), NEW places
  PROVE  /\ Keep(places, q) \in Seq(X)
         /\ \A x : x \in Elems(Keep(places, q)) <=> \E i \in DOMAIN q : i \in places /\ x = q[i]
<1> DEFINE N == Len(q)
           R(f) == f = [n \in 0 .. N |-> IF n = 0 THEN <<>>
                                         ELSE IF n \in places THEN Append(f[n - 1], q[n])
                                         ELSE f[n - 1]]
           F == CHOOSE f : R(f)
           st == [p \in Seq(X) \X ((0 + 1) .. N) |->
                    IF p[2] \in places THEN Append(p[1], q[p[2]]) ELSE p[1]]
<1>1. Keep(places, q) = F[N]
  BY DEF Keep
<1>2. N \in Nat /\ DOMAIN q = 1 .. N
  OBVIOUS
<1>3. \A n \in 1 .. N : q[n] \in X
  BY <1>2
<1> HIDE DEF N
<1>4. st \in [Seq(X) \X ((0 + 1) .. N) -> Seq(X)]
  BY <1>3
<1>5. <<>> \in Seq(X) /\ 0 <= N /\ 0 \in Int /\ N \in Int
  BY <1>2
<1> HIDE DEF st
<1>6. PICK f \in [0 .. N -> Seq(X)] : Follows(f, 0, <<>>, st, N)
  BY <1>4, <1>5, StepwiseExists
<1>7. R(f)
  <2> SUFFICES ASSUME NEW n \in 0 .. N, n # 0
               PROVE  st[f[n - 1], n] = IF n \in places THEN Append(f[n - 1], q[n]) ELSE f[n - 1]
    BY <1>6 DEF Follows
  <2>1. <<f[n - 1], n>> \in Seq(X) \X ((0 + 1) .. N)
    BY <1>2
  <2> QED
    BY <2>1 DEF st
<1>8. R(F)
  BY <1>7
<1> HIDE DEF F
<1> DEFINE P(n) == /\ F[n] \in Seq(X)
                   /\ \A x : x \in Elems(F[n]) <=> \E i \in 1 .. n : i \in places /\ x = q[i]
           S == {n \in Nat : n <= N => P(n)}
<1>9. 0 \in S
  <2>1. F[0] = <<>>
    BY <1>2, <1>8
  <2>2. Elems(F[0]) = {} /\ 1 .. 0 = {}
    BY <2>1 DEF Elems
  <2>3. P(0)
    BY <1>5, <2>1, <2>2
  <2> QED
    BY <2>3
<1>10. ASSUME NEW n \in Nat, n \in S PROVE n + 1 \in S
  <2> SUFFICES ASSUME n + 1 <= N PROVE P(n + 1)
    OBVIOUS
  <2>1. P(n)
    BY <1>2, <1>10
  <2>2. n + 1 \in 0 .. N /\ n + 1 # 0 /\ (n + 1) - 1 = n /\ n + 1 \in 1 .. N
    BY <1>2
  <2>3. F[n + 1] = IF n + 1 \in places THEN Append(F[n], q[n + 1]) ELSE F[n]
    BY <1>8, <2>2
  <2>4. 1 .. (n + 1) = (1 .. n) \cup {n + 1}
    OBVIOUS
  <2>5. CASE n + 1 \notin places
    BY <2>1, <2>3, <2>4, <2>5
  <2>6. CASE n + 1 \in places
    <3>1. F[n + 1] \in Seq(X) /\ Elems(F[n + 1]) = Elems(F[n]) \cup {q[n + 1]}
      BY <1>3, <2>1, <2>2, <2>3, <2>6, ElemsOfAppend
    <3> QED
      BY <2>1, <2>4, <2>6, <3>1
  <2> QED
    BY <2>5, <2>6
<1> HIDE DEF P
<1>11. N \in S
  <2> HIDE DEF S
  <2> QED
    BY <1>2, <1>9, <1>10, Counting
<1>12. P(N)
  BY <1>2, <1>11
<1> QED
  BY <1>1, <1>2, <1>12 DEF P

(* The answer for one range: the series that have samples in it.           *)
LEMMA SeriesInOf ==
  ASSUME NEW X, NEW end, NEW series \in Seq(X), \A x \in X : InRange(x, end) \in X
  PROVE  /\ SeriesIn(end, series) \in Seq(X)
         /\ \A x : x \in Elems(SeriesIn(end, series))
                     <=> \E i \in DOMAIN series : x = InRange(series[i], end) /\ x.values # {}
<1> DEFINE inRange == [n \in DOMAIN series |->
             [series[n] EXCEPT !.values = {v \in @ : end - OneDay <= v[1] /\ v[1] <= end}]]
           places == {n \in DOMAIN series : inRange[n].values # {}}
<1>1. SeriesIn(end, series) = Keep(places, inRange)
  BY DEF SeriesIn
<1>2. \A n \in DOMAIN series : inRange[n] = InRange(series[n], end) /\ series[n] \in X
  BY DEF InRange
<1>3. DOMAIN inRange = DOMAIN series /\ DOMAIN series = 1 .. Len(series) /\ Len(series) \in Nat
  OBVIOUS
<1>4. \A n : n \in places <=> n \in DOMAIN series /\ InRange(series[n], end).values # {}
  BY <1>2
<1>5. inRange \in [1 .. Len(series) -> X]
  <2>1. inRange = [n \in 1 .. Len(series) |-> inRange[n]]
    BY <1>3
  <2>2. \A n \in 1 .. Len(series) : inRange[n] \in X
    BY <1>2, <1>3
  <2> HIDE DEF inRange
  <2> QED
    BY <2>1, <2>2
<1> HIDE DEF inRange, places
<1>7. inRange \in Seq(X)
  BY <1>3, <1>5
<1>6. /\ Keep(places, inRange) \in Seq(X)
      /\ \A x : x \in Elems(Keep(places, inRange)) <=> \E i \in DOMAIN inRange : i \in places /\ x = inRange[i]
  BY <1>7, KeepOf
<1>8. \A x : (\E i \in DOMAIN inRange : i \in places /\ x = inRange[i])
               <=> \E i \in DOMAIN series : x = InRange(series[i], end) /\ x.values # {}
  <2> SUFFICES ASSUME NEW x
               PROVE  (\E i \in DOMAIN inRange : i \in places /\ x = inRange[i])
                        <=> \E i \in DOMAIN series : x = InRange(series[i], end) /\ x.values # {}
    OBVIOUS
  <2>1. ASSUME NEW i \in DOMAIN inRange, i \in places, x = inRange[i]
        PROVE  i \in DOMAIN series /\ x = InRange(series[i], end) /\ x.values # {}
    BY <1>2, <1>4, <2>1
  <2>2. ASSUME NEW i \in DOMAIN series, x = InRange(series[i], end), x.values # {}
        PROVE  i \in DOMAIN inRange /\ i \in places /\ x = inRange[i]
    BY <1>2, <1>3, <1>4, <2>2
  <2> QED
    BY <2>1, <2>2
<1> QED
  BY <1>1, <1>6, <1>8

----------------------------------------------------------------------------
ResultsOf(G, S, C, lo, hi) ==
  [ group_id : G, component : C, src : S, silenced : BOOLEAN, values : Samples(lo, hi) ]
IncidentsOf(G, S, C, lo, hi) ==
  [ group_id : G, src : S, componentList : SUBSET C, silenced : BOOLEAN,
    values : Samples(lo, hi) ]

(* What the results E have for the group g.                                *)
Own(E, g) == {r \in E : r.group_id = g}
AllValues(E, g) == UNION {r.values : r \in Own(E, g)}

(* One incident for each group, with the highest severity of each time and *)
(* the components of all its results, and the name of one of them.         *)
Summarises(I, E) ==
  /\ \A i \in I : /\ \E r \in Own(E, i.group_id) : r.src = i.src
                  /\ i.values = HighestSeverityAtEachTimestamp(AllValues(E, i.group_id))
                  /\ i.componentList = {r.component : r \in Own(E, i.group_id)}
  /\ \A r \in E : \E i \in I : i.group_id = r.group_id
  /\ \A i, j \in I : i.group_id = j.group_id => i = j

(* What a group has when one more result is added to E.                    *)
LEMMA OwnOfMore ==
  ASSUME NEW E, NEW r, NEW g
  PROVE  /\ Own(E \cup {r}, g) = IF r.group_id = g THEN Own(E, g) \cup {r} ELSE Own(E, g)
         /\ AllValues(E \cup {r}, g) = IF r.group_id = g THEN AllValues(E, g) \cup r.values
                                       ELSE AllValues(E, g)
<1>1. Own(E \cup {r}, g) = IF r.group_id = g THEN Own(E, g) \cup {r} ELSE Own(E, g)
  BY DEF Own
<1> QED
  BY <1>1 DEF AllValues

(* The samples of all its results are samples.                             *)
LEMMA AllValuesType ==
  ASSUME NEW lo \in Int, NEW hi \in Int, NEW E, \A r \in E : r.values \in Samples(lo, hi), NEW g
  PROVE  AllValues(E, g) \in Samples(lo, hi)
BY DEF AllValues, Own, Samples

(* What merging a result into an incident keeps and changes.               *)
LEMMA MergeIncidentOf ==
  ASSUME NEW lo \in Int, NEW hi \in Int, NEW G, NEW S, NEW C,
         NEW i \in IncidentsOf(G, S, C, lo, hi), NEW r \in ResultsOf(G, S, C, lo, hi)
  PROVE  /\ MergeIncident(i, r) \in IncidentsOf(G, S, C, lo, hi)
         /\ MergeIncident(i, r).group_id = i.group_id /\ MergeIncident(i, r).src = i.src
         /\ MergeIncident(i, r).values = HighestSeverityAtEachTimestamp(i.values \cup r.values)
         /\ MergeIncident(i, r).componentList = i.componentList \cup {r.component}
<1> DEFINE H == HighestSeverityAtEachTimestamp(i.values \cup r.values)
           m == MergeIncident(i, r)
           c == i.componentList \cup {r.component}
           s == IF Latest(r.values) >= Latest(H) THEN r.silenced ELSE i.silenced
<1>1. i.values \cup r.values \in Samples(lo, hi)
  BY DEF IncidentsOf, ResultsOf, Samples
<1>2. H \in Samples(lo, hi)
  BY <1>1, HighestOf
<1>3. m = [i EXCEPT !.values = H, !.componentList = c, !.silenced = s]
  BY DEF MergeIncident, IncidentsOf
<1>4. c \in SUBSET C /\ s \in BOOLEAN
  BY DEF IncidentsOf, ResultsOf
<1> HIDE DEF H, c, s, m
<1>5. m \in IncidentsOf(G, S, C, lo, hi) /\ m.values = H /\ m.componentList = c
      /\ m.group_id = i.group_id /\ m.src = i.src
  BY <1>2, <1>3, <1>4 DEF IncidentsOf
<1> QED
  BY <1>5 DEF H, c, m

(* What the first result of a group makes.                                 *)
LEMMA NewIncidentOf ==
  ASSUME NEW lo \in Int, NEW hi \in Int, NEW G, NEW S, NEW C, NEW r \in ResultsOf(G, S, C, lo, hi)
  PROVE  /\ NewIncident(r) \in IncidentsOf(G, S, C, lo, hi)
         /\ NewIncident(r).group_id = r.group_id /\ NewIncident(r).src = r.src
         /\ NewIncident(r).values = HighestSeverityAtEachTimestamp(r.values)
         /\ NewIncident(r).componentList = {r.component}
<1>1. HighestSeverityAtEachTimestamp(r.values) \in Samples(lo, hi)
  BY HighestOf DEF ResultsOf
<1> QED
  BY <1>1 DEF NewIncident, IncidentsOf, ResultsOf

(* Adding a result keeps the shape of the incidents.                       *)
LEMMA AddResultType ==
  ASSUME NEW lo \in Int, NEW hi \in Int, NEW G, NEW S, NEW C,
         NEW I \in SUBSET IncidentsOf(G, S, C, lo, hi), NEW r \in ResultsOf(G, S, C, lo, hi)
  PROVE  AddResult(I, r) \in SUBSET IncidentsOf(G, S, C, lo, hi)
<1>1. \A i \in I : MergeIncident(i, r) \in IncidentsOf(G, S, C, lo, hi)
  BY MergeIncidentOf
<1>2. NewIncident(r) \in IncidentsOf(G, S, C, lo, hi)
  BY NewIncidentOf
<1> QED
  BY <1>1, <1>2 DEF AddResult

(* If the incidents summarise the results so far, they do with one more.   *)
LEMMA AddSummarises ==
  ASSUME NEW lo \in Int, NEW hi \in Int, NEW G, NEW S, NEW C,
         NEW I \in SUBSET IncidentsOf(G, S, C, lo, hi),
         NEW E \in SUBSET ResultsOf(G, S, C, lo, hi),
         NEW r \in ResultsOf(G, S, C, lo, hi), Summarises(I, E)
  PROVE  Summarises(AddResult(I, r), E \cup {r})
<1> DEFINE D == E \cup {r}
           J == AddResult(I, r)
<1>1. \A g : /\ Own(D, g) = IF r.group_id = g THEN Own(E, g) \cup {r} ELSE Own(E, g)
             /\ AllValues(D, g) = IF r.group_id = g THEN AllValues(E, g) \cup r.values
                                  ELSE AllValues(E, g)
  BY OwnOfMore
<1>2. \A g : AllValues(E, g) \in Samples(lo, hi)
  BY AllValuesType DEF ResultsOf
<1>3. CASE \E i \in I : i.group_id = r.group_id
  <2>1. PICK o \in I : o.group_id = r.group_id
    BY <1>3
  <2>2. \A i \in I : i.group_id = r.group_id <=> i = o
    BY <2>1 DEF Summarises
  <2> DEFINE m == MergeIncident(o, r)
  <2>3. J = (I \ {o}) \cup {m}
    BY <1>3, <2>1, <2>2 DEF AddResult
  <2>4. /\ m \in IncidentsOf(G, S, C, lo, hi) /\ m.group_id = o.group_id /\ m.src = o.src
        /\ m.values = HighestSeverityAtEachTimestamp(o.values \cup r.values)
        /\ m.componentList = o.componentList \cup {r.component}
    BY MergeIncidentOf
  <2> HIDE DEF m, J, D
  <2>5. m.values = HighestSeverityAtEachTimestamp(AllValues(D, m.group_id))
    <3>1. o.values = HighestSeverityAtEachTimestamp(AllValues(E, o.group_id))
      BY DEF Summarises
    <3>2. r.values \in Samples(lo, hi)
      BY DEF ResultsOf
    <3>3. HighestSeverityAtEachTimestamp(o.values \cup r.values)
            = HighestSeverityAtEachTimestamp(AllValues(E, o.group_id) \cup r.values)
      BY <1>2, <3>1, <3>2, HighestOfUnion
    <3> QED
      BY <1>1, <2>1, <2>4, <3>3
  <2>6. /\ m.componentList = {x.component : x \in Own(D, m.group_id)}
        /\ \E x \in Own(D, m.group_id) : x.src = m.src
    <3>1. /\ o.componentList = {x.component : x \in Own(E, o.group_id)}
          /\ \E x \in Own(E, o.group_id) : x.src = o.src
      BY DEF Summarises
    <3> QED
      BY <1>1, <2>1, <2>4, <3>1
  <2>7. ASSUME NEW i \in I \ {o}
        PROVE  /\ \E x \in Own(D, i.group_id) : x.src = i.src
               /\ i.values = HighestSeverityAtEachTimestamp(AllValues(D, i.group_id))
               /\ i.componentList = {x.component : x \in Own(D, i.group_id)}
    BY <1>1, <2>2 DEF Summarises
  <2>8. \A x \in D : \E i \in J : i.group_id = x.group_id
    BY <2>1, <2>3, <2>4 DEF Summarises, D
  <2>9. \A i, j \in J : i.group_id = j.group_id => i = j
    BY <2>1, <2>2, <2>3, <2>4 DEF Summarises
  <2>10. Summarises(J, D)
    BY <2>3, <2>5, <2>6, <2>7, <2>8, <2>9 DEF Summarises
  <2> QED
    BY <2>10 DEF J, D
<1>4. CASE ~\E i \in I : i.group_id = r.group_id
  <2> DEFINE m == NewIncident(r)
  <2>1. J = I \cup {m}
    BY <1>4 DEF AddResult
  <2>2. /\ m \in IncidentsOf(G, S, C, lo, hi) /\ m.group_id = r.group_id /\ m.src = r.src
        /\ m.values = HighestSeverityAtEachTimestamp(r.values)
        /\ m.componentList = {r.component}
    BY NewIncidentOf
  <2> HIDE DEF m, J, D
  <2>3. Own(E, r.group_id) = {}
    BY <1>4 DEF Own, Summarises
  <2>4. AllValues(E, r.group_id) = {}
    BY <2>3 DEF AllValues
  <2>5. Own(D, m.group_id) = {r} /\ AllValues(D, m.group_id) = r.values
    BY <1>1, <2>2, <2>3, <2>4
  <2>6. /\ m.values = HighestSeverityAtEachTimestamp(AllValues(D, m.group_id))
        /\ m.componentList = {x.component : x \in Own(D, m.group_id)}
        /\ \E x \in Own(D, m.group_id) : x.src = m.src
    BY <2>2, <2>5
  <2>7. ASSUME NEW i \in I
        PROVE  /\ \E x \in Own(D, i.group_id) : x.src = i.src
               /\ i.values = HighestSeverityAtEachTimestamp(AllValues(D, i.group_id))
               /\ i.componentList = {x.component : x \in Own(D, i.group_id)}
    BY <1>1, <1>4 DEF Summarises
  <2>8. \A x \in D : \E i \in J : i.group_id = x.group_id
    BY <2>1, <2>2 DEF Summarises, D
  <2>9. \A i, j \in J : i.group_id = j.group_id => i = j
    BY <1>4, <2>1, <2>2 DEF Summarises
  <2>10. Summarises(J, D)
    BY <2>1, <2>6, <2>7, <2>8, <2>9 DEF Summarises
  <2> QED
    BY <2>10 DEF J, D
<1> QED
  BY <1>3, <1>4

(* However the samples of the incidents are split over results, and in     *)
(* whatever order these come, there is one incident for each group, with   *)
(* the highest severity of each time and all components (getIncidents).    *)
THEOREM IncidentsSummariseResults ==
  ASSUME NEW lo \in Int, NEW hi \in Int, NEW G, NEW S, NEW C,
         NEW results \in Seq(ResultsOf(G, S, C, lo, hi))
  PROVE  /\ getIncidents(results) \in SUBSET IncidentsOf(G, S, C, lo, hi)
         /\ Summarises(getIncidents(results), Elems(results))
<1> DEFINE N == Len(results)
           T == SUBSET IncidentsOf(G, S, C, lo, hi)
           R(f) == f = [n \in 0 .. N |-> IF n = 0 THEN {} ELSE AddResult(f[n - 1], results[n])]
           F == CHOOSE f : R(f)
           st == [p \in T \X ((0 + 1) .. N) |-> AddResult(p[1], results[p[2]])]
<1>1. getIncidents(results) = F[N]
  BY DEF getIncidents
<1>2. /\ N \in Nat /\ 0 <= N /\ 0 \in Int /\ N \in Int /\ {} \in T
      /\ DOMAIN results = 1 .. N /\ \A n \in 1 .. N : results[n] \in ResultsOf(G, S, C, lo, hi)
  OBVIOUS
<1>3. \A I \in T, r \in ResultsOf(G, S, C, lo, hi) : AddResult(I, r) \in T
  BY AddResultType
<1> HIDE DEF N, T
<1>4. st \in [T \X ((0 + 1) .. N) -> T]
  BY <1>2, <1>3
<1> HIDE DEF st
<1>5. PICK f \in [0 .. N -> T] : Follows(f, 0, {}, st, N)
  BY <1>2, <1>4, StepwiseExists
<1>6. R(f)
  <2> SUFFICES ASSUME NEW n \in 0 .. N, n # 0 PROVE st[f[n - 1], n] = AddResult(f[n - 1], results[n])
    BY <1>5 DEF Follows
  <2>1. <<f[n - 1], n>> \in T \X ((0 + 1) .. N)
    BY <1>2
  <2> QED
    BY <2>1 DEF st
<1>7. R(F)
  BY <1>6
<1> HIDE DEF F
<1> DEFINE E(n) == {results[k] : k \in 1 .. n}
           P(n) == F[n] \in T /\ Summarises(F[n], E(n))
           Good == {n \in Nat : n <= N => P(n)}
<1>8. 0 \in Good
  <2>1. F[0] = {} /\ E(0) = {}
    BY <1>2, <1>7
  <2> HIDE DEF E
  <2>2. P(0)
    BY <1>2, <2>1 DEF Summarises
  <2> QED
    BY <2>2
<1>9. ASSUME NEW n \in Nat, n \in Good PROVE n + 1 \in Good
  <2> SUFFICES ASSUME n + 1 <= N PROVE P(n + 1)
    OBVIOUS
  <2>1. P(n)
    BY <1>2, <1>9
  <2>2. n + 1 \in 0 .. N /\ n + 1 # 0 /\ (n + 1) - 1 = n /\ n + 1 \in 1 .. N
    BY <1>2
  <2>3. F[n + 1] = AddResult(F[n], results[n + 1])
    BY <1>7, <2>2
  <2>4. E(n + 1) = E(n) \cup {results[n + 1]}
    <3>1. 1 .. (n + 1) = (1 .. n) \cup {n + 1}
      OBVIOUS
    <3> QED
      BY <3>1
  <2>5. E(n) \subseteq ResultsOf(G, S, C, lo, hi)
    BY <1>2, <2>2
  <2> HIDE DEF E
  <2>6. F[n + 1] \in T
    BY <1>2, <1>3, <2>1, <2>2, <2>3
  <2>7. Summarises(AddResult(F[n], results[n + 1]), E(n) \cup {results[n + 1]})
    BY <1>2, <2>1, <2>2, <2>5, AddSummarises DEF T
  <2> QED
    BY <2>3, <2>4, <2>6, <2>7
<1> HIDE DEF P
<1>10. N \in Good
  <2> HIDE DEF Good
  <2> QED
    BY <1>2, <1>8, <1>9, Counting
<1>11. P(N)
  BY <1>2, <1>10
<1>12. E(N) = Elems(results)
  BY <1>2 DEF Elems
<1> QED
  BY <1>1, <1>11, <1>12 DEF P, T

----------------------------------------------------------------------------
(* The ranges of the days                                                  *)

(* Division of a multiple and a remainder.                                 *)
LEMMA Quotient ==
  ASSUME NEW q \in Int, NEW d \in Nat \ {0}, NEW r \in 0 .. d - 1
  PROVE  (q * d + r) \div d = q
<1> DEFINE x == (q * d + r) \div d
           m == (q * d + r) % d
<1>1. q * d + r \in Int /\ x \in Int /\ m \in 0 .. d - 1 /\ q * d + r = d * x + m
  OBVIOUS
<1> HIDE DEF x, m
<1>2. q * d = d * q /\ d * q \in Int /\ d * x \in Int /\ d * (x - q) = d * x - d * q /\ d * (q - x) = d * q - d * x
  BY <1>1
<1>3. x - q >= 1 => d * (x - q) >= d
  BY <1>1
<1>4. q - x >= 1 => d * (q - x) >= d
  BY <1>1
<1>5. d * (x - q) < d /\ d * (q - x) < d
  BY <1>1, <1>2
<1>6. x = q
  BY <1>1, <1>3, <1>4, <1>5
<1> QED
  BY <1>6 DEF x

RangeEnd(k) == now - Days * OneDay + k * OneDay

(* There is one range for each day, the last one ends now.                 *)
LEMMA RangesOf ==
  getIncidentsTimeRanges(Days * OneDay, now) = [k \in 1 .. Days |-> RangeEnd(k)]
<1>1. Days \in Nat /\ Days >= 1 /\ OneDay \in Nat \ {0}
  BY RangeAssumption
<1> DEFINE span == Days * OneDay
           count == IF span <= OneDay THEN 1 ELSE (span + OneDay - 1) \div OneDay
<1>2. count = Days
  <2>1. CASE Days = 1
    BY <1>1, <2>1
  <2>2. CASE Days # 1
    <3>1. span > OneDay
      <4>1. Days - 1 >= 1 /\ Days - 1 \in Nat
        BY <1>1, <2>2
      <4>2. (Days - 1) * OneDay >= OneDay /\ (Days - 1) * OneDay = span - OneDay /\ span \in Nat
        BY <1>1, <4>1
      <4>3. (Days - 1) * OneDay > 0
        BY <1>1, <4>2
      <4> HIDE DEF span
      <4> QED
        BY <1>1, <4>2, <4>3
    <3>2. (span + (OneDay - 1)) \div OneDay = Days
      BY <1>1, Quotient
    <3>3. span + (OneDay - 1) = span + OneDay - 1
      BY <1>1
    <3> QED
      BY <1>1, <3>1, <3>2, <3>3
  <2> QED
    BY <2>1, <2>2
<1>3. getIncidentsTimeRanges(span, now) = [k \in 1 .. count |-> (now - span) + k * OneDay]
  BY DEF getIncidentsTimeRanges
<1> HIDE DEF count
<1> QED
  BY <1>2, <1>3 DEF RangeEnd

(* The ranges together are the days the page shows, without a gap.         *)
LEMMA RangesCover ==
  ASSUME now \in Int, NEW t \in Int
  PROVE  Within(t) <=> \E k \in 1 .. Days : RangeEnd(k) - OneDay <= t /\ t <= RangeEnd(k)
<1>1. Days \in Nat /\ Days >= 1 /\ OneDay \in Nat \ {0}
  BY RangeAssumption
<1> DEFINE start == now - Days * OneDay
<1>2. start \in Int /\ now = start + Days * OneDay
  BY <1>1
<1>3. \A k \in Int : RangeEnd(k) = start + k * OneDay /\ k * OneDay \in Int
  BY <1>1 DEF RangeEnd
<1>4. Within(t) <=> start <= t /\ t <= start + Days * OneDay
  BY <1>2 DEF Within
<1> HIDE DEF start
<1>5. ASSUME NEW k \in 1 .. Days, RangeEnd(k) - OneDay <= t, t <= RangeEnd(k)
      PROVE  Within(t)
  <2>1. k * OneDay <= Days * OneDay
    <3>1. (Days - k) * OneDay >= 0 /\ (Days - k) * OneDay = Days * OneDay - k * OneDay
      BY <1>1
    <3> QED
      BY <1>1, <1>3, <3>1
  <2>2. k * OneDay >= OneDay
    <3>1. (k - 1) * OneDay >= 0 /\ (k - 1) * OneDay = k * OneDay - OneDay
      BY <1>1
    <3> QED
      BY <1>1, <1>3, <3>1
  <2>3. Days * OneDay \in Int /\ k * OneDay \in Int /\ RangeEnd(k) = start + k * OneDay
    BY <1>1, <1>3
  <2> QED
    BY <1>1, <1>2, <1>4, <1>5, <2>1, <2>2, <2>3
<1>6. ASSUME Within(t)
      PROVE  \E k \in 1 .. Days : RangeEnd(k) - OneDay <= t /\ t <= RangeEnd(k)
  <2> DEFINE S == {n \in Nat : t <= start + (n + 1) * OneDay
                       => \E k \in 1 .. (n + 1) : RangeEnd(k) - OneDay <= t /\ t <= RangeEnd(k)}
  <2>1. 0 \in S
    <3>1. RangeEnd(1) = start + OneDay
      BY <1>1, <1>3
    <3> QED
      BY <1>1, <1>2, <1>4, <1>6, <3>1
  <2>2. ASSUME NEW n \in Nat, n \in S PROVE n + 1 \in S
    <3>1. RangeEnd(n + 2) = start + (n + 2) * OneDay
      BY <1>3
    <3>2. (n + 2) * OneDay = (n + 1) * OneDay + OneDay /\ (n + 1) * OneDay \in Int
      BY <1>1
    <3>3. 1 .. (n + 2) = (1 .. (n + 1)) \cup {n + 2}
      OBVIOUS
    <3>4. CASE t <= start + (n + 1) * OneDay
      BY <2>2, <3>3, <3>4
    <3>5. CASE ~(t <= start + (n + 1) * OneDay)
      BY <1>1, <1>2, <3>1, <3>2, <3>3, <3>5
    <3> QED
      BY <3>4, <3>5
  <2>3. Days - 1 \in Nat /\ (Days - 1) + 1 = Days
    BY <1>1
  <2>4. Days - 1 \in S
    <3> HIDE DEF S
    <3> QED
      BY <2>1, <2>2, <2>3, Counting
  <2> QED
    BY <1>4, <1>6, <2>3, <2>4
<1> QED
  BY <1>5, <1>6

----------------------------------------------------------------------------
(* The answers of the map, and what is recorded                            *)

(* The answers: the samples of each series in each range.                  *)
LEMMA ResultsOfSeries ==
  ASSUME NEW X, NEW series \in Seq(X), \A x \in X, e \in Int : InRange(x, e) \in X, now \in Int
  PROVE  /\ Results(series) \in Seq(X)
         /\ \A x : x \in Elems(Results(series))
                     <=> \E k \in 1 .. Days : \E i \in DOMAIN series :
                            x = InRange(series[i], RangeEnd(k)) /\ x.values # {}
<1> DEFINE ends == getIncidentsTimeRanges(Days * OneDay, now)
           s == [k \in DOMAIN ends |-> SeriesIn(ends[k], series)]
<1>1. Days \in Nat /\ OneDay \in Nat
  BY RangeAssumption
<1>2. \A k \in 1 .. Days : RangeEnd(k) \in Int
  BY <1>1 DEF RangeEnd
<1>3. DOMAIN ends = 1 .. Days /\ \A k \in 1 .. Days : ends[k] = RangeEnd(k)
  BY RangesOf
<1>4. Results(series) = FlattenSeq(s)
  BY DEF Results
<1> HIDE DEF ends
<1>5. ASSUME NEW k \in 1 .. Days
      PROVE  /\ s[k] \in Seq(X)
             /\ \A x : x \in Elems(s[k])
                         <=> \E i \in DOMAIN series : x = InRange(series[i], RangeEnd(k)) /\ x.values # {}
  <2>1. s[k] = SeriesIn(RangeEnd(k), series)
    BY <1>3
  <2>2. \A x \in X : InRange(x, RangeEnd(k)) \in X
    BY <1>2
  <2> HIDE DEF s
  <2> QED
    BY <2>1, <2>2, SeriesInOf
<1>6. s \in [1 .. Days -> Seq(X)]
  BY <1>3, <1>5
<1> HIDE DEF s
<1>7. /\ FlattenSeq(s) \in Seq(X)
      /\ \A x : x \in Elems(FlattenSeq(s)) <=> \E k \in 1 .. Days : x \in Elems(s[k])
  BY <1>1, <1>6, FlattenOf
<1>8. \A x : (\E k \in 1 .. Days : x \in Elems(s[k]))
               <=> \E k \in 1 .. Days : \E i \in DOMAIN series :
                      x = InRange(series[i], RangeEnd(k)) /\ x.values # {}
  BY <1>5
<1> QED
  BY <1>4, <1>7, <1>8

----------------------------------------------------------------------------
(* Samples are recorded at query steps up to now, one for each series.     *)
Times == {t \in 0 .. now : t \in Multiples}
Recorded == SUBSET ((DOMAIN Alerts) \X Times)

HInv ==
  /\ now \in Nat /\ now \in Multiples
  /\ firing \in [AlertStates -> Recorded]
  /\ mapped \in [BOOLEAN -> Recorded]

(* Pairs with times of a smaller set, and new ones.                        *)
LEMMA Pairs ==
  ASSUME NEW D, NEW A, NEW B, NEW t, A \cup {t} \subseteq B
  PROVE  /\ \A r \in SUBSET (D \X A) : r \in SUBSET (D \X B)
         /\ \A r \in SUBSET (D \X A), set \in SUBSET D : r \cup {<<a, t>> : a \in set} \in SUBSET (D \X B)
<1>1. \A d \in D, x \in A : <<d, x>> \in D \X B
  OBVIOUS
<1>2. \A d \in D : <<d, t>> \in D \X B
  OBVIOUS
<1>3. D \X A \subseteq D \X B
  BY <1>1
<1> QED
  BY <1>2, <1>3

(* The two parts of a pair.                                                *)
LEMMA PairOf ==
  ASSUME NEW D, NEW A, NEW r \in SUBSET (D \X A)
  PROVE  \A s \in r : s[1] \in D /\ s[2] \in A /\ s = <<s[1], s[2]>>
OBVIOUS

(* Time passes by one query step, and no earlier time is lost.             *)
LEMMA NextStep ==
  ASSUME HInv, Step
  PROVE  /\ now' \in Nat /\ now' \in Multiples
         /\ Times \cup {now'} \subseteq Times'
<1>1. Interval \in Nat /\ Interval > 0 /\ now' = now + Interval /\ now \in Nat
  BY IntervalAssumption DEF HInv, Step
<1>2. PICK k \in Int : now = k * Interval
  BY DEF HInv, Multiples
<1>3. now' = (k + 1) * Interval
  BY <1>1, <1>2
<1>4. now' \in Multiples
  BY <1>3 DEF Multiples
<1> QED
  BY <1>1, <1>4 DEF Times

(* What is recorded has the shape that HInv says (Step).                   *)
LEMMA HistoryInvariant == Spec => []HInv
<1>1. Init => HInv
  <2>1. 0 \in Multiples
    <3>1. 0 = 0 * Interval
      BY IntervalAssumption
    <3> QED
      BY <3>1 DEF Multiples
  <2> QED
    BY <2>1 DEF Init, HInv, Recorded
<1>2. ASSUME HInv, [Next]_vars PROVE HInv'
  <2>1. CASE UNCHANGED vars
    BY <1>2, <2>1 DEF vars, HInv, Recorded, Times
  <2>2. CASE Step
    <3>1. PICK alerts \in SUBSET Real, how \in {"pending", "missed", "mapped", "silenced"} :
            LET watchdogs == DOMAIN Alerts \ Real
                At(set) == {<<a, now'>> : a \in set}
                fires == watchdogs \cup (IF how = "pending" THEN {} ELSE alerts)
                maps == IF how \in {"mapped", "silenced"} THEN alerts \cup watchdogs ELSE {}
            IN  /\ firing' = [firing EXCEPT !["firing"] = @ \cup At(fires),
                                            !["pending"] = @ \cup At(alerts \ fires)]
                /\ mapped' = [mapped EXCEPT ![how = "silenced"] = @ \cup At(maps)]
      BY <2>2 DEF Step
    <3> DEFINE At(set) == {<<a, now'>> : a \in set}
    <3>20. Times \cup {now'} \subseteq Times'
      BY <1>2, <2>2, NextStep
    <3>21. /\ \A r \in Recorded : r \in Recorded'
           /\ \A set \in SUBSET DOMAIN Alerts, r \in Recorded : r \cup At(set) \in Recorded'
      <4> DEFINE D == DOMAIN Alerts
                 A == Times
                 B == Times'
      <4>1. Recorded = SUBSET (D \X A) /\ Recorded' = SUBSET (D \X B)
        BY DEF Recorded
      <4>2. A \cup {now'} \subseteq B
        BY <3>20
      <4> HIDE DEF D, A, B
      <4>3. /\ \A r \in SUBSET (D \X A) : r \in SUBSET (D \X B)
            /\ \A r \in SUBSET (D \X A), set \in SUBSET D :
                 r \cup {<<a, now'>> : a \in set} \in SUBSET (D \X B)
        BY <4>2, Pairs
      <4> QED
        BY <4>1, <4>3 DEF D
    <3> HIDE DEF At
    <3>4. Real \subseteq DOMAIN Alerts
      BY DEF Real
    <3> DEFINE fires == (DOMAIN Alerts \ Real) \cup (IF how = "pending" THEN {} ELSE alerts)
               maps == IF how \in {"mapped", "silenced"} THEN alerts \cup (DOMAIN Alerts \ Real) ELSE {}
    <3>5. fires \in SUBSET DOMAIN Alerts /\ maps \in SUBSET DOMAIN Alerts /\ alerts \ fires \in SUBSET DOMAIN Alerts
      BY <3>4
    <3>6. /\ firing' = [firing EXCEPT !["firing"] = @ \cup At(fires),
                                      !["pending"] = @ \cup At(alerts \ fires)]
          /\ mapped' = [mapped EXCEPT ![how = "silenced"] = @ \cup At(maps)]
      BY <3>1 DEF At
    <3> HIDE DEF fires, maps
    <3>7. firing' \in [AlertStates -> Recorded']
      BY <1>2, <3>21, <3>5, <3>6 DEF HInv, AlertStates
    <3>8. mapped' \in [BOOLEAN -> Recorded']
      BY <1>2, <3>21, <3>5, <3>6 DEF HInv
    <3> QED
      BY <1>2, <2>2, <3>7, <3>8, NextStep DEF HInv
  <2> QED
    BY <1>2, <2>1, <2>2 DEF Next
<1> QED
  BY <1>1, <1>2, PTL DEF Spec

----------------------------------------------------------------------------
(* The results of the map: their groups, components and labels.            *)
GroupSet == {Alerts[a].group : a \in DOMAIN Alerts}
SrcSet == {Alerts[a].src : a \in DOMAIN Alerts}
ComponentSet == {Alerts[a].component : a \in DOMAIN Alerts}
MapResults == ResultsOf(GroupSet, SrcSet, ComponentSet, 0, now)

MapSeries(a, b) ==
  [ group_id |-> Alerts[a].group, component |-> Alerts[a].component,
    src |-> Alerts[a].src, silenced |-> b,
    values |-> {<<s[2], Alerts[a].severity>> : s \in {s \in mapped[b] : s[1] = a}} ]

(* A series of the map is a result.                                        *)
LEMMA MapSeriesType ==
  ASSUME HInv, NEW a \in DOMAIN Alerts, NEW b \in BOOLEAN
  PROVE  MapSeries(a, b) \in MapResults
<1>1. {<<s[2], Alerts[a].severity>> : s \in {s \in mapped[b] : s[1] = a}} \in Samples(0, now)
  <2>1. Alerts[a].severity \in 0 .. 2
    BY AlertsAssumption
  <2>2. \A s \in mapped[b] : s[2] \in 0 .. now
    <3>1. mapped[b] \in SUBSET ((DOMAIN Alerts) \X Times)
      BY DEF HInv, Recorded
    <3>2. \A s \in mapped[b] : s[2] \in Times
      BY <3>1, PairOf
    <3> QED
      BY <3>2 DEF Times
  <2> QED
    BY <2>1, <2>2 DEF Samples
<1> QED
  BY <1>1 DEF MapSeries, MapResults, ResultsOf, GroupSet, SrcSet, ComponentSet

(* The series of the map are those of each alert, silenced and not.        *)
LEMMA IncidentSeriesOf ==
  ASSUME HInv
  PROVE  /\ IncidentSeries \in Seq(MapResults)
         /\ \A x : x \in Elems(IncidentSeries)
                     <=> \E a \in DOMAIN Alerts, b \in BOOLEAN : x = MapSeries(a, b)
<1> DEFINE N == Len(Alerts)
           s == [a \in DOMAIN Alerts |-> [k \in 1 .. 2 |-> MapSeries(a, k = 2)]]
<1>1. IncidentSeries = FlattenSeq(s)
  BY DEF IncidentSeries, MapSeries
<1>2. N \in Nat /\ DOMAIN Alerts = 1 .. N
  BY AlertsAssumption
<1>3. ASSUME NEW a \in DOMAIN Alerts
      PROVE  /\ s[a] \in Seq(MapResults)
             /\ \A x : x \in Elems(s[a]) <=> \E b \in BOOLEAN : x = MapSeries(a, b)
  <2>1. s[a] = [k \in 1 .. 2 |-> MapSeries(a, k = 2)]
    OBVIOUS
  <2>2. \A k \in 1 .. 2 : MapSeries(a, k = 2) \in MapResults
    <3>1. \A b \in BOOLEAN : MapSeries(a, b) \in MapResults
      BY MapSeriesType
    <3> QED
      BY <3>1
  <2> HIDE DEF s
  <2>3. s[a] \in Seq(MapResults)
    BY <2>1, <2>2
  <2>4. DOMAIN s[a] = {1, 2} /\ s[a][1] = MapSeries(a, FALSE) /\ s[a][2] = MapSeries(a, TRUE)
    <3>1. 1 .. 2 = {1, 2} /\ 1 # 2
      OBVIOUS
    <3>2. (1 = 2) = FALSE /\ (2 = 2) = TRUE
      OBVIOUS
    <3>3. DOMAIN s[a] = {1, 2} /\ s[a][1] = MapSeries(a, 1 = 2) /\ s[a][2] = MapSeries(a, 2 = 2)
      BY <2>1, <3>1
    <3>4. MapSeries(a, 1 = 2) = MapSeries(a, FALSE) /\ MapSeries(a, 2 = 2) = MapSeries(a, TRUE)
      BY <3>2, Zenon
    <3> QED
      BY <3>3, <3>4
  <2> QED
    BY <2>3, <2>4 DEF Elems
<1>4. s \in [1 .. N -> Seq(MapResults)]
  BY <1>2, <1>3
<1> HIDE DEF s, N
<1>5. /\ FlattenSeq(s) \in Seq(MapResults)
      /\ \A x : x \in Elems(FlattenSeq(s)) <=> \E a \in 1 .. N : x \in Elems(s[a])
  BY <1>2, <1>4, FlattenOf
<1> QED
  BY <1>1, <1>2, <1>3, <1>5

(* What the answers of the map contain.                                    *)
LEMMA InRangeType ==
  ASSUME HInv, NEW x \in MapResults, NEW e \in Int
  PROVE  /\ InRange(x, e) \in MapResults
         /\ InRange(x, e).group_id = x.group_id /\ InRange(x, e).component = x.component
         /\ InRange(x, e).src = x.src
         /\ InRange(x, e).values = {v \in x.values : e - OneDay <= v[1] /\ v[1] <= e}
<1>1. {v \in x.values : e - OneDay <= v[1] /\ v[1] <= e} \in Samples(0, now)
  BY DEF MapResults, ResultsOf, Samples
<1> QED
  BY <1>1 DEF InRange, MapResults, ResultsOf

MapAnswers == Elems(Results(IncidentSeries))

(* Each result is a series of an alert, in one of the ranges.              *)
LEMMA MapAnswersOf ==
  ASSUME HInv
  PROVE  /\ Results(IncidentSeries) \in Seq(MapResults)
         /\ \A x : x \in MapAnswers
                     <=> \E k \in 1 .. Days, a \in DOMAIN Alerts, b \in BOOLEAN :
                            x = InRange(MapSeries(a, b), RangeEnd(k)) /\ x.values # {}
<1> DEFINE series == IncidentSeries
<1>1. /\ series \in Seq(MapResults)
      /\ \A x : x \in Elems(series) <=> \E a \in DOMAIN Alerts, b \in BOOLEAN : x = MapSeries(a, b)
  BY IncidentSeriesOf
<1> HIDE DEF series
<1>2. \A x \in MapResults, e \in Int : InRange(x, e) \in MapResults
  BY InRangeType
<1>3. now \in Int
  BY DEF HInv
<1>4. /\ Results(series) \in Seq(MapResults)
      /\ \A x : x \in Elems(Results(series))
                  <=> \E k \in 1 .. Days : \E i \in DOMAIN series :
                         x = InRange(series[i], RangeEnd(k)) /\ x.values # {}
  BY <1>1, <1>2, <1>3, ResultsOfSeries
<1>5. ASSUME NEW x, NEW k \in 1 .. Days
      PROVE  (\E i \in DOMAIN series : x = InRange(series[i], RangeEnd(k)) /\ x.values # {})
               <=> \E a \in DOMAIN Alerts, b \in BOOLEAN :
                      x = InRange(MapSeries(a, b), RangeEnd(k)) /\ x.values # {}
  <2>1. (\E i \in DOMAIN series : x = InRange(series[i], RangeEnd(k)) /\ x.values # {})
          <=> \E y \in Elems(series) : x = InRange(y, RangeEnd(k)) /\ x.values # {}
    BY DEF Elems
  <2> QED
    BY <1>1, <2>1
<1> QED
  BY <1>4, <1>5 DEF MapAnswers, series

(* The samples of a series, within the days and not.                       *)
LEMMA SamplesOfSeries ==
  ASSUME HInv, NEW a \in DOMAIN Alerts, NEW b \in BOOLEAN, NEW e \in Int
  PROVE  LET r == InRange(MapSeries(a, b), e)
         IN  /\ r.group_id = Alerts[a].group /\ r.component = Alerts[a].component
             /\ r.src = Alerts[a].src
             /\ \A v : v \in r.values
                         <=> \E s \in mapped[b] : /\ s[1] = a /\ v = <<s[2], Alerts[a].severity>>
                                                  /\ e - OneDay <= s[2] /\ s[2] <= e
<1> DEFINE x == MapSeries(a, b)
           r == InRange(x, e)
<1>1. x \in MapResults
  BY MapSeriesType
<1>2. /\ r.group_id = x.group_id /\ r.component = x.component /\ r.src = x.src
      /\ r.values = {v \in x.values : e - OneDay <= v[1] /\ v[1] <= e}
  BY <1>1, InRangeType
<1>3. /\ x.group_id = Alerts[a].group /\ x.component = Alerts[a].component
      /\ x.src = Alerts[a].src
      /\ x.values = {<<s[2], Alerts[a].severity>> : s \in {s \in mapped[b] : s[1] = a}}
  BY DEF MapSeries
<1> HIDE DEF x, r
<1>4. \A v : v \in r.values
               <=> \E s \in mapped[b] : /\ s[1] = a /\ v = <<s[2], Alerts[a].severity>>
                                        /\ e - OneDay <= s[2] /\ s[2] <= e
  BY <1>2, <1>3
<1> QED
  BY <1>2, <1>3, <1>4 DEF r, x

Sample(s) == <<s[2], Alerts[s[1]].severity>>

(* The samples of the map, and those of a group within the days.           *)
LEMMA MappedType ==
  ASSUME HInv
  PROVE  /\ \A b \in BOOLEAN : \A s \in mapped[b] :
              s[1] \in DOMAIN Alerts /\ s[2] \in 0 .. now /\ s[2] \in Multiples /\ s = <<s[1], s[2]>>
         /\ \A g, s : s \in MappedIn(g)
                        <=> /\ \E b \in BOOLEAN : s \in mapped[b]
                            /\ Alerts[s[1]].group = g /\ Within(s[2])
<1>1. ASSUME NEW b \in BOOLEAN, NEW s \in mapped[b]
      PROVE  s[1] \in DOMAIN Alerts /\ s[2] \in Times /\ s = <<s[1], s[2]>>
  <2> DEFINE D == DOMAIN Alerts
             r == mapped[b]
  <2>1. r \in SUBSET (D \X Times) /\ s \in r
    BY DEF HInv, Recorded
  <2> HIDE DEF D, r
  <2>2. s[1] \in D /\ s[2] \in Times /\ s = <<s[1], s[2]>>
    BY <2>1, PairOf
  <2> QED
    BY <2>2 DEF D
<1>2. BOOLEAN = {TRUE, FALSE}
  OBVIOUS
<1>3. ASSUME NEW g, NEW s
      PROVE s \in MappedIn(g) <=> /\ \E b \in BOOLEAN : s \in mapped[b]
                                  /\ Alerts[s[1]].group = g /\ Within(s[2])
  BY <1>2, Zenon DEF MappedIn
<1>4. \A b \in BOOLEAN : \A s \in mapped[b] :
        s[1] \in DOMAIN Alerts /\ s[2] \in 0 .. now /\ s[2] \in Multiples /\ s = <<s[1], s[2]>>
  BY <1>1 DEF Times
<1> QED
  BY <1>3, <1>4

(* Every sample of an answer was mapped.                                   *)
LEMMA AnswersAreMapped ==
  ASSUME HInv, NEW r \in MapAnswers
  PROVE  /\ r.values # {}
         /\ \A v \in r.values : \E s \in MappedIn(r.group_id) :
              v = Sample(s) /\ Alerts[s[1]].component = r.component /\ Alerts[s[1]].src = r.src
<1>1. PICK k \in 1 .. Days, a \in DOMAIN Alerts, b \in BOOLEAN :
        r = InRange(MapSeries(a, b), RangeEnd(k)) /\ r.values # {}
  BY MapAnswersOf
<1>2. RangeEnd(k) \in Int /\ now \in Int
  BY RangeAssumption DEF RangeEnd, HInv
<1>3. /\ r.group_id = Alerts[a].group /\ r.component = Alerts[a].component /\ r.src = Alerts[a].src
      /\ \A v : v \in r.values
                  <=> \E s \in mapped[b] : /\ s[1] = a /\ v = <<s[2], Alerts[a].severity>>
                                           /\ RangeEnd(k) - OneDay <= s[2] /\ s[2] <= RangeEnd(k)
  BY <1>1, <1>2, SamplesOfSeries
<1>4. ASSUME NEW v \in r.values
      PROVE  \E s \in MappedIn(r.group_id) :
               v = Sample(s) /\ Alerts[s[1]].component = r.component /\ Alerts[s[1]].src = r.src
  <2>1. PICK s \in mapped[b] : /\ s[1] = a /\ v = <<s[2], Alerts[a].severity>>
                               /\ RangeEnd(k) - OneDay <= s[2] /\ s[2] <= RangeEnd(k)
    BY <1>3
  <2>2. s[2] \in Int
    BY MappedType
  <2>3. Within(s[2])
    BY <1>2, <2>1, <2>2, RangesCover
  <2>4. s \in MappedIn(r.group_id)
    BY <1>3, <2>1, <2>3, MappedType
  <2> QED
    BY <1>3, <2>1, <2>4 DEF Sample
<1> QED
  BY <1>1, <1>4

(* Every sample that was mapped within the days is in an answer.           *)
LEMMA MappedIsAnswered ==
  ASSUME HInv, NEW g, NEW s \in MappedIn(g)
  PROVE  \E r \in MapAnswers :
           /\ r.group_id = g /\ r.component = Alerts[s[1]].component /\ r.src = Alerts[s[1]].src
           /\ Sample(s) \in r.values
<1>1. PICK b \in BOOLEAN : s \in mapped[b]
  BY MappedType
<1>2. Alerts[s[1]].group = g /\ Within(s[2]) /\ s[1] \in DOMAIN Alerts /\ s[2] \in Int /\ now \in Int
  BY <1>1, MappedType DEF HInv
<1>3. PICK k \in 1 .. Days : RangeEnd(k) - OneDay <= s[2] /\ s[2] <= RangeEnd(k)
  BY <1>2, RangesCover
<1>4. RangeEnd(k) \in Int
  BY <1>2, RangeAssumption DEF RangeEnd
<1> DEFINE r == InRange(MapSeries(s[1], b), RangeEnd(k))
<1>5. /\ r.group_id = g /\ r.component = Alerts[s[1]].component /\ r.src = Alerts[s[1]].src
      /\ \A v : v \in r.values
                  <=> \E u \in mapped[b] : /\ u[1] = s[1] /\ v = <<u[2], Alerts[s[1]].severity>>
                                           /\ RangeEnd(k) - OneDay <= u[2] /\ u[2] <= RangeEnd(k)
  BY <1>2, <1>4, SamplesOfSeries
<1>6. Sample(s) \in r.values
  BY <1>1, <1>3, <1>5 DEF Sample
<1>7. r \in MapAnswers
  BY <1>2, <1>6, MapAnswersOf
<1> QED
  BY <1>5, <1>6, <1>7

----------------------------------------------------------------------------
(* The incidents and their history                                         *)

HistoryOf(g) == {<<s[2], Highest(g, s[2])>> : s \in MappedIn(g)}
ComponentsOf(g) == {Alerts[s[1]].component : s \in MappedIn(g)}

(* The alert, time and severity of a sample.                               *)
LEMMA SampleType ==
  ASSUME HInv, NEW g, NEW s \in MappedIn(g)
  PROVE  /\ s[1] \in DOMAIN Alerts /\ s[2] \in 0 .. now /\ s[2] \in Multiples
         /\ Alerts[s[1]].severity \in 0 .. 2
         /\ Sample(s)[1] = s[2] /\ Sample(s)[2] = Alerts[s[1]].severity
BY MappedType, AlertsAssumption DEF Sample

(* The highest severity of a time is that of one of its samples.           *)
LEMMA HighestIs ==
  ASSUME HInv, NEW g, NEW s \in MappedIn(g)
  PROVE  /\ \E u \in MappedIn(g) : u[2] = s[2] /\ Alerts[u[1]].severity = Highest(g, s[2])
         /\ \A u \in MappedIn(g) : u[2] = s[2] => Alerts[u[1]].severity <= Highest(g, s[2])
         /\ Highest(g, s[2]) \in 0 .. 2
<1> DEFINE S == {Alerts[u[1]].severity : u \in {u \in MappedIn(g) : u[2] = s[2]}}
<1>1. S \in SUBSET (0 .. 2)
  BY SampleType
<1>2. S # {}
  OBVIOUS
<1>3. Highest(g, s[2]) = Max(S)
  BY DEF Highest
<1>6. \A u \in MappedIn(g) : u[2] = s[2] => Alerts[u[1]].severity \in S
  OBVIOUS
<1>9. \A x \in S : \E u \in MappedIn(g) : u[2] = s[2] /\ Alerts[u[1]].severity = x
  OBVIOUS
<1> HIDE DEF S
<1>4. Max(S) \in S /\ \A x \in S : Max(S) >= x
  <2>1. 0 \in Int /\ 2 \in Int
    OBVIOUS
  <2> QED
    BY <1>1, <1>2, <2>1, MaxOf
<1>5. \E u \in MappedIn(g) : u[2] = s[2] /\ Alerts[u[1]].severity = Highest(g, s[2])
  BY <1>3, <1>4, <1>9
<1>7. \A u \in MappedIn(g) : u[2] = s[2] => Alerts[u[1]].severity <= Highest(g, s[2])
  BY <1>1, <1>3, <1>4, <1>6
<1>8. Highest(g, s[2]) \in 0 .. 2
  BY <1>1, <1>3, <1>4
<1> QED
  BY <1>5, <1>7, <1>8

(* The highest severities of the samples of a group.                       *)
LEMMA HighestOfSamples ==
  ASSUME HInv, NEW g
  PROVE  HighestSeverityAtEachTimestamp({Sample(s) : s \in MappedIn(g)}) = HistoryOf(g)
<1> DEFINE V == {Sample(s) : s \in MappedIn(g)}
           H == HighestSeverityAtEachTimestamp(V)
<1>1. ASSUME NEW v \in H PROVE v \in HistoryOf(g)
  <2>1. PICK s \in MappedIn(g) : v = Sample(s)
    BY DEF HighestSeverityAtEachTimestamp
  <2>2. PICK u \in MappedIn(g) : u[2] = s[2] /\ Alerts[u[1]].severity = Highest(g, s[2])
    BY HighestIs
  <2>3. Alerts[s[1]].severity <= Highest(g, s[2]) /\ Highest(g, s[2]) \in 0 .. 2
        /\ Alerts[s[1]].severity \in 0 .. 2
    BY HighestIs, SampleType
  <2>4. Sample(u) \in V /\ Sample(u)[1] = v[1] /\ Sample(u)[2] = Highest(g, s[2])
        /\ v[2] = Alerts[s[1]].severity
    BY <2>1, <2>2, SampleType
  <2>5. Sample(u)[2] <= v[2]
    BY <2>4 DEF HighestSeverityAtEachTimestamp
  <2>6. Alerts[s[1]].severity = Highest(g, s[2])
    BY <2>3, <2>4, <2>5
  <2> QED
    BY <2>1, <2>6 DEF Sample, HistoryOf
<1>2. ASSUME NEW v \in HistoryOf(g) PROVE v \in H
  <2>1. PICK s \in MappedIn(g) : v = <<s[2], Highest(g, s[2])>>
    BY DEF HistoryOf
  <2>2. PICK u \in MappedIn(g) : u[2] = s[2] /\ Alerts[u[1]].severity = Highest(g, s[2])
    BY HighestIs
  <2>3. v = Sample(u)
    BY <2>1, <2>2 DEF Sample
  <2>4. ASSUME NEW w \in V, w[1] = v[1] PROVE w[2] <= v[2]
    <3>1. PICK x \in MappedIn(g) : w = Sample(x)
      OBVIOUS
    <3>2. x[2] = s[2] /\ w[2] = Alerts[x[1]].severity /\ v[2] = Highest(g, s[2])
      BY <2>1, <2>4, <3>1, SampleType
    <3> QED
      BY <3>2, HighestIs
  <2> QED
    BY <2>3, <2>4 DEF HighestSeverityAtEachTimestamp
<1> QED
  BY <1>1, <1>2

(* What the answers have for a group is what was mapped for it.            *)
LEMMA OwnIsMapped ==
  ASSUME HInv, NEW g
  PROVE  /\ Own(MapAnswers, g) = {} <=> MappedIn(g) = {}
         /\ AllValues(MapAnswers, g) = {Sample(s) : s \in MappedIn(g)}
         /\ {r.component : r \in Own(MapAnswers, g)} = ComponentsOf(g)
<1>1. \A r \in Own(MapAnswers, g) :
        /\ r.values # {}
        /\ \A v \in r.values : \E s \in MappedIn(g) : v = Sample(s) /\ Alerts[s[1]].component = r.component
  BY AnswersAreMapped DEF Own
<1>2. \A s \in MappedIn(g) : \E r \in Own(MapAnswers, g) :
        r.component = Alerts[s[1]].component /\ Sample(s) \in r.values
  BY MappedIsAnswered DEF Own
<1> DEFINE O == Own(MapAnswers, g)
<1>3. AllValues(MapAnswers, g) = UNION {r.values : r \in O}
  BY DEF AllValues
<1> HIDE DEF O
<1>4. UNION {r.values : r \in O} = {Sample(s) : s \in MappedIn(g)}
  BY <1>1, <1>2 DEF O
<1>5. {r.component : r \in O} = ComponentsOf(g)
  BY <1>1, <1>2 DEF O, ComponentsOf
<1>6. O = {} <=> MappedIn(g) = {}
  BY <1>1, <1>2 DEF O
<1> QED
  BY <1>3, <1>4, <1>5, <1>6 DEF O

(* The incidents the page makes of the answers of the map.                 *)
MapIncidents == getIncidents(Results(IncidentSeries))

(* One incident for each group that was mapped, with all its samples.      *)
LEMMA MapIncidentsOf ==
  ASSUME HInv
  PROVE  /\ MapIncidents \in SUBSET IncidentsOf(GroupSet, SrcSet, ComponentSet, 0, now)
         /\ \A i \in MapIncidents : /\ \E s \in MappedIn(i.group_id) : Alerts[s[1]].src = i.src
                                    /\ i.values = HistoryOf(i.group_id)
                                    /\ i.componentList = ComponentsOf(i.group_id)
         /\ \A g : MappedIn(g) # {} => \E i \in MapIncidents : i.group_id = g
         /\ \A i, j \in MapIncidents : i.group_id = j.group_id => i = j
<1> DEFINE results == Results(IncidentSeries)
<1>1. results \in Seq(ResultsOf(GroupSet, SrcSet, ComponentSet, 0, now))
  BY MapAnswersOf DEF MapResults
<1>2. now \in Int /\ 0 \in Int
  BY DEF HInv
<1> HIDE DEF results
<1>3. /\ getIncidents(results) \in SUBSET IncidentsOf(GroupSet, SrcSet, ComponentSet, 0, now)
      /\ Summarises(getIncidents(results), Elems(results))
  BY <1>1, <1>2, IncidentsSummariseResults
<1>4. /\ MapIncidents \in SUBSET IncidentsOf(GroupSet, SrcSet, ComponentSet, 0, now)
      /\ Summarises(MapIncidents, MapAnswers)
  BY <1>3 DEF MapIncidents, MapAnswers, results
<1>5. \A i \in MapIncidents :
        /\ \E r \in Own(MapAnswers, i.group_id) : r.src = i.src
        /\ i.values = HighestSeverityAtEachTimestamp(AllValues(MapAnswers, i.group_id))
        /\ i.componentList = {r.component : r \in Own(MapAnswers, i.group_id)}
  BY <1>4 DEF Summarises
<1>6. ASSUME NEW i \in MapIncidents
      PROVE  /\ \E s \in MappedIn(i.group_id) : Alerts[s[1]].src = i.src
             /\ i.values = HistoryOf(i.group_id)
             /\ i.componentList = ComponentsOf(i.group_id)
  <2> DEFINE g == i.group_id
  <2>1. /\ Own(MapAnswers, g) = {} <=> MappedIn(g) = {}
        /\ AllValues(MapAnswers, g) = {Sample(s) : s \in MappedIn(g)}
        /\ {r.component : r \in Own(MapAnswers, g)} = ComponentsOf(g)
    BY OwnIsMapped
  <2>2. HighestSeverityAtEachTimestamp({Sample(s) : s \in MappedIn(g)}) = HistoryOf(g)
    BY HighestOfSamples
  <2>3. \E s \in MappedIn(g) : Alerts[s[1]].src = i.src
    <3>1. PICK r \in MapAnswers : r.group_id = g /\ r.src = i.src
      BY <1>5 DEF Own
    <3> QED
      BY <3>1, AnswersAreMapped
  <2> QED
    BY <1>5, <2>1, <2>2, <2>3
<1>7. ASSUME NEW g, MappedIn(g) # {} PROVE \E i \in MapIncidents : i.group_id = g
  <2>1. PICK r \in Own(MapAnswers, g) : TRUE
    BY <1>7, OwnIsMapped
  <2> QED
    BY <1>4, <2>1 DEF Summarises, Own
<1>8. \A i, j \in MapIncidents : i.group_id = j.group_id => i = j
  BY <1>4 DEF Summarises
<1> QED
  BY <1>4, <1>6, <1>7, <1>8

(* However the samples of a group are split over the series of its alerts  *)
(* and over the daily answers, its incident has the highest severity of    *)
(* each time and the components of all of them, and a group without        *)
(* samples has none (getIncidents, getIncidentsTimeRanges).                *)
THEOREM IncidentsHaveTheirHistory == Spec => []IncidentsShowTheirHistory
<1>1. ASSUME HInv PROVE IncidentsShowTheirHistory
  <2>1. SUFFICES ASSUME NEW g \in Groups
        PROVE {[values |-> i.values, componentList |-> i.componentList] :
                 i \in {i \in MapIncidents : i.group_id = g}}
                = IF MappedIn(g) = {} THEN {}
                  ELSE {[values |-> HistoryOf(g), componentList |-> ComponentsOf(g)]}
    BY DEF IncidentsShowTheirHistory, MapIncidents, HistoryOf, ComponentsOf
  <2>2. CASE MappedIn(g) = {}
    <3>1. {i \in MapIncidents : i.group_id = g} = {}
      BY <1>1, <2>2, MapIncidentsOf
    <3> QED
      BY <2>2, <3>1
  <2>3. CASE MappedIn(g) # {}
    <3>1. PICK i \in MapIncidents : i.group_id = g
      BY <1>1, <2>3, MapIncidentsOf
    <3>2. {j \in MapIncidents : j.group_id = g} = {i}
      BY <1>1, <3>1, MapIncidentsOf
    <3>3. i.values = HistoryOf(g) /\ i.componentList = ComponentsOf(g)
      BY <1>1, <3>1, MapIncidentsOf
    <3> QED
      BY <2>3, <3>2, <3>3
  <2> QED
    BY <2>2, <2>3
<1> QED
  BY <1>1, HistoryInvariant, PTL

----------------------------------------------------------------------------
(* The charts of the incidents                                             *)

(* The samples that padding inserts are at times without a sample.         *)
LEMMA PaddingIsApart ==
  ASSUME NEW lo \in Int, NEW hi \in Int, NEW V \in Samples(lo, hi), NEW time \in Nat,
         NEW p \in insertPaddingPointsForChart(V, time), NEW v \in V, p[1] = v[1]
  PROVE  p \in V
<1> DEFINE threshold == Interval + 1
           Leads(w) == \A u \in Before(w, V) : w[1] - u[1] > threshold
           Trails(w) == /\ \A u \in After(w, V) : u[1] - w[1] > threshold
                        /\ After(w, V) = {} => time >= w[1] + Interval
<1>1. Interval \in Nat /\ Interval > 0
  BY IntervalAssumption
<1>2. \A w \in V : w[1] \in Int
  BY TimesOf
<1>3. p \in V \cup {<<w[1] - Interval, w[2]>> : w \in {w \in V : Leads(w)}}
            \cup {<<w[1] + Interval, w[2]>> : w \in {w \in V : Trails(w)}}
  BY DEF insertPaddingPointsForChart
<1>4. ASSUME NEW w \in V, Leads(w), p = <<w[1] - Interval, w[2]>> PROVE FALSE
  <2>1. v \in Before(w, V)
    BY <1>1, <1>2, <1>4 DEF Before
  <2>2. w[1] - v[1] > threshold
    BY <1>4, <2>1
  <2> QED
    BY <1>1, <1>2, <1>4, <2>2
<1>5. ASSUME NEW w \in V, Trails(w), p = <<w[1] + Interval, w[2]>> PROVE FALSE
  <2>1. v \in After(w, V)
    BY <1>1, <1>2, <1>5 DEF After
  <2>2. v[1] - w[1] > threshold
    BY <1>5, <2>1
  <2> QED
    BY <1>1, <1>2, <1>5, <2>2
<1> QED
  BY <1>3, <1>4, <1>5

(* So every sample of an incident keeps its severity.                      *)
LEMMA PaddingKeeps ==
  ASSUME NEW lo \in Int, NEW hi \in Int, NEW V \in Samples(lo, hi), Single(V), NEW time \in Nat,
         NEW v \in V
  PROVE  v \in HighestSeverityAtEachTimestamp(insertPaddingPointsForChart(V, time))
<1> DEFINE P == insertPaddingPointsForChart(V, time)
<1>1. v \in P
  BY PaddingOf
<1>2. ASSUME NEW p \in P, p[1] = v[1] PROVE p[2] <= v[2]
  <2>1. p \in V
    BY <1>2, PaddingIsApart
  <2>2. p = v
    BY <1>2, <2>1 DEF Single
  <2> QED
    BY <2>2, TimesOf
<1> QED
  BY <1>1, <1>2 DEF HighestSeverityAtEachTimestamp

----------------------------------------------------------------------------
(* The samples of a group, and the incident that is shown for it.          *)
LEMMA HistoryType ==
  ASSUME HInv, NEW g
  PROVE  /\ HistoryOf(g) \in Samples(0, now) /\ Single(HistoryOf(g))
         /\ \A v \in HistoryOf(g) : v[1] \in Multiples
         /\ MappedIn(g) # {} => HistoryOf(g) # {}
<1>1. \A s \in MappedIn(g) : s[2] \in 0 .. now /\ Highest(g, s[2]) \in 0 .. 2 /\ s[2] \in Multiples
  BY SampleType, HighestIs
<1>2. HistoryOf(g) \in Samples(0, now)
  BY <1>1 DEF HistoryOf, Samples
<1>3. Single(HistoryOf(g))
  BY DEF HistoryOf, Single
<1>4. \A v \in HistoryOf(g) : v[1] \in Multiples
  BY <1>1 DEF HistoryOf
<1>5. MappedIn(g) # {} => HistoryOf(g) # {}
  BY DEF HistoryOf
<1> QED
  BY <1>2, <1>3, <1>4, <1>5

(* The values of an incident shown are its history and the padding, and it *)
(* is not the Watchdog's.                                                  *)
LEMMA ShownIncident ==
  ASSUME HInv, NEW i \in IncidentsShown
  PROVE  LET V == HistoryOf(i.group_id)
         IN  /\ V # {} /\ V \in Samples(0, now) /\ Single(V) /\ \A v \in V : v[1] \in Multiples
             /\ i.values = insertPaddingPointsForChart(V, now)
             /\ i.values \in Samples(0 - Interval, now + Interval)
             /\ i.firing <=> ~isResolved(Latest(V), now)
             /\ \E s \in MappedIn(i.group_id) : Alerts[s[1]].src # Watchdog
<1>1. PICK j \in MapIncidents :
        /\ i = [ group_id |-> j.group_id, componentList |-> j.componentList,
                 resolved |-> isResolved(Latest(j.values), now),
                 firing |-> ~isResolved(Latest(j.values), now),
                 values |-> insertPaddingPointsForChart(j.values, now) ]
        /\ j.src # Watchdog
  BY DEF IncidentsShown, convertToIncidents, MapIncidents
<1> DEFINE g == i.group_id
           V == HistoryOf(g)
<1>2. g = j.group_id
  BY <1>1
<1>3. MappedIn(g) # {} /\ j.values = V /\ \E s \in MappedIn(g) : Alerts[s[1]].src = j.src
  BY <1>2, MapIncidentsOf
<1>4. V \in Samples(0, now) /\ Single(V) /\ V # {} /\ \A v \in V : v[1] \in Multiples
  BY <1>3, HistoryType
<1> HIDE DEF V
<1>5. i.values = insertPaddingPointsForChart(V, now) /\ (i.firing <=> ~isResolved(Latest(V), now))
  BY <1>1, <1>3
<1>6. now \in Nat /\ 0 \in Int /\ now \in Int
  BY DEF HInv
<1>7. insertPaddingPointsForChart(V, now) \in Samples(0 - Interval, now + Interval)
  BY <1>4, <1>6, PaddingOf
<1>8. \E s \in MappedIn(g) : Alerts[s[1]].src # Watchdog
  BY <1>1, <1>3
<1> QED
  BY <1>4, <1>5, <1>7, <1>8 DEF V

(* Whatever was recorded, the bars of an incident do not overlap, the bar  *)
(* at each time it was recorded has the severity it had then, and the      *)
(* severity filter finds it by the severities of its bars                  *)
(* (createIncidentsChartBars, filterIncident).                             *)
THEOREM BarsMatchHistory == Spec => []BarsShowSeverity
<1>1. ASSUME HInv PROVE BarsShowSeverity
  <2> SUFFICES ASSUME NEW i \in IncidentsShown
               PROVE  LET bars == VisibleBars(i)
                      IN  /\ \A s \in MappedIn(i.group_id) :
                               \E b \in bars : In(s[2], b) /\ b.severity = Highest(i.group_id, s[2])
                          /\ \A b, c \in bars : b # c => ~Overlap(b, c)
                          /\ \A severity \in 0 .. 2 :
                               (\E b \in bars : b.severity = severity)
                                 <=> i \in filterIncident(OnlySeverity(severity), {i})
    BY DEF BarsShowSeverity
  <2> DEFINE dates == generateDateArray(Days, now)
             bars == VisibleBars(i)
             V == HistoryOf(i.group_id)
             lo == 0 - Interval
             hi == now + Interval
  <2>1. lo \in Int /\ hi \in Int /\ now \in Nat /\ now \in Int /\ 0 \in Int
    BY <1>1, IntervalAssumption DEF HInv
  <2>2. /\ V \in Samples(0, now) /\ Single(V)
        /\ i.values = insertPaddingPointsForChart(V, now) /\ i.values \in Samples(lo, hi)
    BY <1>1, ShownIncident
  <2>3. bars = {b \in createIncidentsChartBars(i, dates) : b.data}
    BY DEF VisibleBars
  <2> HIDE DEF dates, bars, lo, hi
  <2>4. ASSUME NEW s \in MappedIn(i.group_id)
        PROVE  \E b \in bars : In(s[2], b) /\ b.severity = Highest(i.group_id, s[2])
    <3> DEFINE u == <<s[2], Highest(i.group_id, s[2])>>
    <3>1. u \in V
      BY DEF HistoryOf
    <3> HIDE DEF V
    <3>2. u \in HighestSeverityAtEachTimestamp(i.values)
      BY <2>1, <2>2, <3>1, PaddingKeeps
    <3>3. \E b \in createIncidentsChartBars(i, dates) : b.data /\ In(u[1], b) /\ b.severity = u[2]
      BY <2>1, <2>2, <3>2, IncidentBarsShowSeverity
    <3>4. u[1] = s[2] /\ u[2] = Highest(i.group_id, s[2])
      OBVIOUS
    <3> QED
      BY <2>3, <3>3, <3>4
  <2>5. \A b, c \in bars : b # c => ~Overlap(b, c)
    BY <2>1, <2>2, <2>3, IncidentBarsAreDisjoint
  <2>6. ASSUME NEW severity \in 0 .. 2
        PROVE  (\E b \in bars : b.severity = severity)
                 <=> i \in filterIncident(OnlySeverity(severity), {i})
    <3>1. i.values \in Samples(lo, hi)
      BY <2>2
    <3>2. i \in filterIncident(OnlySeverity(severity), {i}) <=> HasBarOf(i, dates, severity)
      BY <2>1, <3>1, FilterFindsBars
    <3> QED
      BY <2>3, <3>2 DEF HasBarOf
  <2> QED
    BY <2>4, <2>5, <2>6 DEF bars
<1> QED
  BY <1>1, HistoryInvariant, PTL

(* An incident that fires has a bar without an end, whatever was recorded  *)
(* and at whatever time of the day (createIncidentsChartBars,              *)
(* generateDateArray, insertPaddingPointsForChart).                        *)
THEOREM FiringIncidentsAreOpen == Spec => []FiringIncidentHasOpenEnd
<1>1. ASSUME HInv PROVE FiringIncidentHasOpenEnd
  <2> SUFFICES ASSUME NEW i \in IncidentsShown, i.firing
               PROVE  \E b \in VisibleBars(i) : b.firing
    BY DEF FiringIncidentHasOpenEnd
  <2> DEFINE V == HistoryOf(i.group_id)
  <2>1. /\ V # {} /\ V \in Samples(0, now) /\ \A v \in V : v[1] \in Multiples
        /\ i.values = insertPaddingPointsForChart(V, now) /\ ~isResolved(Latest(V), now)
    BY <1>1, ShownIncident
  <2>2. now \in Nat /\ now \in Multiples /\ 0 \in Int /\ now \in Int
    BY <1>1 DEF HInv
  <2> HIDE DEF V
  <2>3. \E b \in createIncidentsChartBars(i, generateDateArray(Days, now)) : b.data /\ b.firing
    BY <2>1, <2>2, FiringIncidentIsOpen
  <2> QED
    BY <2>3 DEF VisibleBars
<1> QED
  BY <1>1, HistoryInvariant, PTL

----------------------------------------------------------------------------
(* The queries for the alerts of an incident                               *)

(* The alert of a name has it, and a length.                               *)
LEMMA AlertOfName ==
  ASSUME NEW s \in SrcSet
  PROVE  AlertOf(s).src = s /\ AlertOf(s).length \in Nat
<1> DEFINE A == {Alerts[k] : k \in DOMAIN Alerts}
<1>1. \E a \in A : a.src = s
  BY DEF SrcSet
<1>2. AlertOf(s) = CHOOSE a \in A : a.src = s
  BY DEF AlertOf
<1>3. \A a \in A : a.length \in Nat
  BY AlertsAssumption
<1> HIDE DEF A
<1>4. AlertOf(s) \in A /\ AlertOf(s).src = s
  BY <1>1, <1>2
<1> QED
  BY <1>3, <1>4

(* The lengths of the first alerts together.                               *)
Sums(srcs) ==
  CHOOSE f : f = [n \in 0 .. Len(srcs) |-> IF n = 0 THEN 0 ELSE f[n - 1] + AlertOf(srcs[n]).length]

(* The length of a list is the last of its sums.                           *)
LEMMA SumsOf ==
  ASSUME NEW srcs \in Seq(SrcSet)
  PROVE  /\ LengthOf(srcs) = Sums(srcs)[Len(srcs)]
         /\ Sums(srcs)[0] = 0
         /\ \A n \in Nat : n < Len(srcs)
              => Sums(srcs)[n + 1] = Sums(srcs)[n] + AlertOf(srcs[n + 1]).length
         /\ \A n \in Nat : n <= Len(srcs) => Sums(srcs)[n] \in Nat
<1> DEFINE N == Len(srcs)
           R(f) == f = [n \in 0 .. N |-> IF n = 0 THEN 0 ELSE f[n - 1] + AlertOf(srcs[n]).length]
           st == [p \in Nat \X ((0 + 1) .. N) |-> p[1] + AlertOf(srcs[p[2]]).length]
           F == Sums(srcs)
<1>1. LengthOf(srcs) = F[N]
  BY DEF LengthOf, Sums
<1>2. N \in Nat /\ 0 <= N /\ 0 \in Int /\ N \in Int /\ 0 \in Nat /\ \A n \in 1 .. N : srcs[n] \in SrcSet
  OBVIOUS
<1>3. F = CHOOSE f : R(f)
  BY DEF Sums
<1> HIDE DEF N, F
<1>4. \A n \in 1 .. N : AlertOf(srcs[n]).length \in Nat
  BY <1>2, AlertOfName
<1>5. st \in [Nat \X ((0 + 1) .. N) -> Nat]
  BY <1>4
<1> HIDE DEF st
<1>6. PICK f \in [0 .. N -> Nat] : Follows(f, 0, 0, st, N)
  BY <1>2, <1>5, StepwiseExists
<1>7. R(f)
  <2> SUFFICES ASSUME NEW n \in 0 .. N, n # 0
               PROVE  st[f[n - 1], n] = f[n - 1] + AlertOf(srcs[n]).length
    BY <1>6 DEF Follows
  <2>1. <<f[n - 1], n>> \in Nat \X ((0 + 1) .. N)
    BY <1>2
  <2> QED
    BY <2>1 DEF st
<1>8. R(F)
  BY <1>3, <1>7
<1>9. F[0] = 0
  BY <1>2, <1>8
<1>10. ASSUME NEW n \in Nat, n < N PROVE F[n + 1] = F[n] + AlertOf(srcs[n + 1]).length
  <2>1. n + 1 \in 0 .. N /\ n + 1 # 0 /\ (n + 1) - 1 = n
    BY <1>2, <1>10
  <2> QED
    BY <1>8, <2>1
<1> DEFINE S == {n \in Nat : n <= N => F[n] \in Nat}
<1>11. ASSUME NEW n \in Nat, n \in S PROVE n + 1 \in S
  <2> SUFFICES ASSUME n + 1 <= N PROVE F[n + 1] \in Nat
    OBVIOUS
  <2>1. n < N /\ n <= N /\ n + 1 \in 1 .. N
    BY <1>2
  <2>2. F[n] \in Nat
    BY <1>11, <2>1
  <2>3. F[n + 1] = F[n] + AlertOf(srcs[n + 1]).length
    BY <1>10, <2>1
  <2>4. AlertOf(srcs[n + 1]).length \in Nat
    BY <1>4, <2>1
  <2> QED
    BY <2>2, <2>3, <2>4
<1>12. 0 \in S
  BY <1>9
<1>13. \A n \in Nat : n \in S
  <2> HIDE DEF S
  <2> QED
    BY <1>11, <1>12, Counting
<1> QED
  BY <1>1, <1>9, <1>10, <1>13 DEF N, F

(* One more alert adds its length.                                         *)
LEMMA LengthOfAppend ==
  ASSUME NEW srcs \in Seq(SrcSet), NEW x \in SrcSet
  PROVE  /\ LengthOf(srcs) \in Nat
         /\ LengthOf(Append(srcs, x)) = LengthOf(srcs) + AlertOf(x).length
<1> DEFINE N == Len(srcs)
           F == Sums(srcs)
           more == Append(srcs, x)
           M == Sums(more)
<1>1. N \in Nat /\ more \in Seq(SrcSet) /\ Len(more) = N + 1 /\ more[N + 1] = x
      /\ \A n \in 1 .. N : more[n] = srcs[n]
  OBVIOUS
<1>2. /\ LengthOf(srcs) = F[N] /\ F[0] = 0
      /\ \A n \in Nat : n < N => F[n + 1] = F[n] + AlertOf(srcs[n + 1]).length
      /\ \A n \in Nat : n <= N => F[n] \in Nat
  BY SumsOf
<1> HIDE DEF more
<1>3. /\ LengthOf(more) = M[N + 1] /\ M[0] = 0
      /\ \A n \in Nat : n < N + 1 => M[n + 1] = M[n] + AlertOf(more[n + 1]).length
  BY <1>1, SumsOf
<1> HIDE DEF N, F, M
<1> DEFINE S == {n \in Nat : n <= N => M[n] = F[n]}
<1>4. 0 \in S
  BY <1>2, <1>3
<1>5. ASSUME NEW n \in Nat, n \in S PROVE n + 1 \in S
  <2> SUFFICES ASSUME n + 1 <= N PROVE M[n + 1] = F[n + 1]
    OBVIOUS
  <2>1. n < N /\ n < N + 1 /\ n <= N /\ n + 1 \in 1 .. N
    BY <1>1
  <2>2. more[n + 1] = srcs[n + 1] /\ M[n] = F[n]
    BY <1>1, <1>5, <2>1
  <2> QED
    BY <1>2, <1>3, <2>1, <2>2
<1>6. N \in S
  <2> HIDE DEF S
  <2> QED
    BY <1>1, <1>4, <1>5, Counting
<1>7. M[N] = F[N] /\ N < N + 1 /\ N <= N
  BY <1>1, <1>6
<1>8. M[N + 1] = M[N] + AlertOf(x).length
  BY <1>1, <1>3, <1>7
<1> QED
  BY <1>1, <1>2, <1>3, <1>7, <1>8 DEF more

(* Nothing is as long as nothing.                                          *)
LEMMA LengthOfNone == LengthOf(<<>>) = 0
<1>1. <<>> \in Seq(SrcSet) /\ Len(<<>>) = 0
  OBVIOUS
<1> QED
  BY <1>1, SumsOf

(* Queries, and the places at which they ask for an alert.                 *)
QuerySet == [srcs : Seq(SrcSet), length : Nat]

AsksAt(Q, q, k, s) == q \in DOMAIN Q /\ k \in DOMAIN Q[q].srcs /\ Q[q].srcs[k] = s

(* No alert is asked for at two places.                                    *)
AsksOnce(Q) ==
  \A q, r, k, j, s : AsksAt(Q, q, k, s) /\ AsksAt(Q, r, j, s) => q = r /\ k = j

(* A query has room for its alerts, with all the separators.               *)
WithinLimit(q) ==
  /\ LengthOf(q.srcs) + 4 * (Len(q.srcs) - 1) <= q.length
  /\ Len(q.srcs) > 1 => q.length <= MaxQueryLength

(* The alerts that are asked for.                                          *)
AsksAll(Q, names) == \A s : s \in names <=> \E q, k : AsksAt(Q, q, k, s)

(* D asks at one more place than Q.                                        *)
OneMore(D, Q, qx, kx, x) ==
  \A q, k, s : AsksAt(D, q, k, s) <=> AsksAt(Q, q, k, s) \/ (q = qx /\ k = kx /\ s = x)

(* What holds of the queries while they are built.                         *)
AsksFor(Q, names) ==
  /\ Q \in Seq(QuerySet) /\ Len(Q) >= 1
  /\ AsksAll(Q, names)
  /\ AsksOnce(Q)
  /\ \A q \in DOMAIN Q : WithinLimit(Q[q])

(* The alerts that are asked for have a place in a query.                  *)
LEMMA AskedOf ==
  ASSUME NEW Q
  PROVE  \A s : s \in Asked(Q) <=> \E q, k : AsksAt(Q, q, k, s)
BY DEF Asked, AsksAt

(* A new alert, asked for at one more place.                               *)
LEMMA OneMorePlace ==
  ASSUME NEW Q, NEW D, NEW names, AsksFor(Q, names), NEW x, x \notin names, NEW qx, NEW kx,
         OneMore(D, Q, qx, kx, x)
  PROVE  AsksAll(D, names \cup {x}) /\ AsksOnce(D)
<1>1. \A s : s \in names <=> \E q, k : AsksAt(Q, q, k, s)
  BY DEF AsksFor, AsksAll
<1>4. \A q, k, s : AsksAt(D, q, k, s) <=> AsksAt(Q, q, k, s) \/ (q = qx /\ k = kx /\ s = x)
  BY DEF OneMore
<1>2. AsksAll(D, names \cup {x})
  BY <1>1, <1>4 DEF AsksAll
<1>3. ASSUME NEW q, NEW r, NEW k, NEW j, NEW s, AsksAt(D, q, k, s), AsksAt(D, r, j, s)
      PROVE  q = r /\ k = j
  <2>1. CASE s = x
    <3>1. ~AsksAt(Q, q, k, x) /\ ~AsksAt(Q, r, j, x)
      BY <1>1
    <3> QED
      BY <1>3, <1>4, <2>1, <3>1
  <2>2. CASE s # x
    <3>1. AsksAt(Q, q, k, s) /\ AsksAt(Q, r, j, s)
      BY <1>3, <1>4, <2>2
    <3> QED
      BY <3>1 DEF AsksFor, AsksOnce
  <2> QED
    BY <2>1, <2>2
<1> QED
  BY <1>2, <1>3 DEF AsksOnce

(* One more alert in the last query.                                       *)
LEMMA AddToLast ==
  ASSUME NEW Q, NEW names, AsksFor(Q, names), NEW x \in SrcSet, x \notin names, NEW length \in Nat,
         length = Q[Len(Q)].length + AlertOf(x).length + 4, length <= MaxQueryLength
  PROVE  AsksFor([Q EXCEPT ![Len(Q)] = [srcs |-> Append(Q[Len(Q)].srcs, x), length |-> length]],
                 names \cup {x})
<1> DEFINE n == Len(Q)
           last == Q[n]
           more == Append(last.srcs, x)
           new == [srcs |-> more, length |-> length]
           D == [Q EXCEPT ![n] = new]
<1>1. Q \in Seq(QuerySet) /\ n \in Nat /\ n >= 1 /\ DOMAIN Q = 1 .. n /\ n \in 1 .. n
  BY DEF AsksFor
<1>2. last \in QuerySet /\ last.srcs \in Seq(SrcSet) /\ last.length \in Nat
  <2>1. last \in QuerySet
    BY <1>1
  <2> HIDE DEF last
  <2> QED
    BY <2>1 DEF QuerySet
<1> DEFINE m == Len(last.srcs)
<1>3. m \in Nat /\ more \in Seq(SrcSet) /\ Len(more) = m + 1 /\ DOMAIN more = 1 .. m + 1
      /\ DOMAIN last.srcs = 1 .. m /\ more[m + 1] = x /\ \A k \in 1 .. m : more[k] = last.srcs[k]
  BY <1>2
<1>4. new \in QuerySet /\ new.srcs = more /\ new.length = length
  BY <1>3 DEF QuerySet
<1>5. D \in Seq(QuerySet) /\ Len(D) = n /\ DOMAIN D = 1 .. n /\ D[n] = new
      /\ \A q \in 1 .. n : q # n => D[q] = Q[q]
  <2> HIDE DEF new
  <2> QED
    BY <1>1, <1>4
<1>6. LengthOf(more) = LengthOf(last.srcs) + AlertOf(x).length /\ LengthOf(last.srcs) \in Nat
  BY <1>2, LengthOfAppend
<1>7. AlertOf(x).length \in Nat /\ MaxQueryLength \in Nat
  BY AlertOfName, BoundsAssumption
<1>8. WithinLimit(last)
  BY <1>1 DEF AsksFor
<1>9. length = last.length + AlertOf(x).length + 4
  OBVIOUS
<1> HIDE DEF D, new, more, n, m, last
<1>10. WithinLimit(new)
  <2>1. LengthOf(last.srcs) + 4 * (m - 1) <= last.length
    BY <1>8 DEF WithinLimit, m
  <2> DEFINE old == LengthOf(last.srcs)
             own == AlertOf(x).length
             used == last.length
  <2>2. /\ old \in Nat /\ own \in Nat /\ used \in Nat /\ m \in Nat
        /\ old + 4 * (m - 1) <= used
        /\ LengthOf(more) = old + own /\ length = used + own + 4
    BY <1>2, <1>3, <1>6, <1>7, <1>9, <2>1
  <2> HIDE DEF old, own, used
  <2>3. LengthOf(more) + 4 * ((m + 1) - 1) <= length
    BY <2>2
  <2> QED
    BY <1>3, <1>4, <2>3 DEF WithinLimit
<1>11. \A q, k, s : AsksAt(D, q, k, s) <=> AsksAt(Q, q, k, s) \/ (q = n /\ k = m + 1 /\ s = x)
  <2> SUFFICES ASSUME NEW q, NEW k, NEW s
               PROVE  AsksAt(D, q, k, s) <=> AsksAt(Q, q, k, s) \/ (q = n /\ k = m + 1 /\ s = x)
    OBVIOUS
  <2>1. CASE q = n
    <3>1. AsksAt(D, n, k, s) <=> k \in 1 .. m + 1 /\ more[k] = s
      BY <1>1, <1>3, <1>4, <1>5 DEF AsksAt
    <3>2. AsksAt(Q, n, k, s) <=> k \in 1 .. m /\ last.srcs[k] = s
      BY <1>1, <1>3 DEF AsksAt, last
    <3>3. k \in 1 .. m + 1 <=> k \in 1 .. m \/ k = m + 1
      BY <1>3
    <3>4. m + 1 \notin 1 .. m
      BY <1>3
    <3> QED
      BY <1>3, <2>1, <3>1, <3>2, <3>3, <3>4
  <2>2. CASE q # n
    BY <1>1, <1>5, <2>2 DEF AsksAt
  <2> QED
    BY <2>1, <2>2
<1>12. /\ AsksAll(D, names \cup {x})
       /\ AsksOnce(D)
  <2>1. OneMore(D, Q, n, m + 1, x)
    BY <1>11 DEF OneMore
  <2> QED
    BY <2>1, OneMorePlace
<1>13. \A q \in DOMAIN D : WithinLimit(D[q])
  <2>1. \A q \in DOMAIN Q : WithinLimit(Q[q])
    BY DEF AsksFor
  <2> QED
    BY <1>1, <1>5, <1>10, <2>1
<1>14. AsksFor(D, names \cup {x})
  BY <1>1, <1>5, <1>12, <1>13 DEF AsksFor
<1> QED
  BY <1>14 DEF D, new, more, last, n

(* One more alert in a new query.                                          *)
LEMMA AddQuery ==
  ASSUME NEW Q, NEW names, AsksFor(Q, names), NEW x \in SrcSet, x \notin names
  PROVE  AsksFor(Append(Q, [srcs |-> <<x>>, length |-> AlertOf(x).length]), names \cup {x})
<1> DEFINE n == Len(Q)
           one == <<x>>
           new == [srcs |-> one, length |-> AlertOf(x).length]
           D == Append(Q, new)
<1>1. Q \in Seq(QuerySet) /\ n \in Nat /\ n >= 1 /\ DOMAIN Q = 1 .. n
  BY DEF AsksFor
<1>2. AlertOf(x).length \in Nat
  BY AlertOfName
<1>3. one \in Seq(SrcSet) /\ Len(one) = 1 /\ DOMAIN one = {1} /\ one[1] = x /\ one = Append(<<>>, x)
      /\ <<>> \in Seq(SrcSet)
  OBVIOUS
<1>4. new \in QuerySet /\ new.srcs = one /\ new.length = AlertOf(x).length
  BY <1>2, <1>3 DEF QuerySet
<1>5. LengthOf(one) = 0 + AlertOf(x).length
  BY <1>3, LengthOfAppend, LengthOfNone
<1> HIDE DEF one, new
<1>6. D \in Seq(QuerySet) /\ Len(D) = n + 1 /\ DOMAIN D = 1 .. n + 1 /\ D[n + 1] = new
      /\ \A q \in 1 .. n : D[q] = Q[q]
  BY <1>1, <1>4
<1> HIDE DEF D, n
<1>7. WithinLimit(new)
  BY <1>2, <1>3, <1>4, <1>5 DEF WithinLimit
<1>8. \A q, k, s : AsksAt(D, q, k, s) <=> AsksAt(Q, q, k, s) \/ (q = n + 1 /\ k = 1 /\ s = x)
  <2> SUFFICES ASSUME NEW q, NEW k, NEW s
               PROVE  AsksAt(D, q, k, s) <=> AsksAt(Q, q, k, s) \/ (q = n + 1 /\ k = 1 /\ s = x)
    OBVIOUS
  <2>1. CASE q = n + 1
    <3>1. n + 1 \notin 1 .. n /\ n + 1 \in 1 .. n + 1
      BY <1>1
    <3>2. AsksAt(D, n + 1, k, s) <=> k = 1 /\ s = x
      BY <1>3, <1>4, <1>6, <3>1 DEF AsksAt
    <3>3. ~AsksAt(Q, n + 1, k, s)
      BY <1>1, <3>1 DEF AsksAt
    <3> QED
      BY <2>1, <3>2, <3>3
  <2>2. CASE q # n + 1
    <3>1. q \in 1 .. n + 1 <=> q \in 1 .. n
      BY <1>1, <2>2
    <3> QED
      BY <1>1, <1>6, <2>2, <3>1 DEF AsksAt
  <2> QED
    BY <2>1, <2>2
<1>9. /\ AsksAll(D, names \cup {x})
      /\ AsksOnce(D)
  <2>1. OneMore(D, Q, n + 1, 1, x)
    BY <1>8 DEF OneMore
  <2> QED
    BY <2>1, OneMorePlace
<1>10. \A q \in DOMAIN D : WithinLimit(D[q])
  <2>1. \A q \in DOMAIN Q : WithinLimit(Q[q])
    BY DEF AsksFor
  <2>2. \A q \in 1 .. n + 1 : q \in 1 .. n \/ q = n + 1
    BY <1>1
  <2> QED
    BY <1>1, <1>6, <1>7, <2>1, <2>2
<1>11. AsksFor(D, names \cup {x})
  BY <1>1, <1>6, <1>9, <1>10 DEF AsksFor
<1> QED
  BY <1>11 DEF D, new, one

(* One more alert, asked for already or not.                               *)
LEMMA AddToQueryOf ==
  ASSUME NEW Q, NEW names, AsksFor(Q, names), NEW x \in SrcSet
  PROVE  AsksFor(AddToQuery(Q, AlertOf(x)), names \cup {x})
<1> DEFINE a == AlertOf(x)
           last == Q[Len(Q)]
           length == last.length + a.length + 4
<1>1. a.src = x /\ a.length \in Nat
  BY AlertOfName
<1>2. x \in Asked(Q) <=> x \in names
  BY AskedOf DEF AsksFor, AsksAll
<1>3. Q \in Seq(QuerySet) /\ Len(Q) >= 1 /\ last \in QuerySet
  BY DEF AsksFor
<1>4. length \in Nat
  BY <1>1, <1>3 DEF QuerySet
<1> HIDE DEF a
<1>5. AddToQuery(Q, a) =
        IF x \in Asked(Q) THEN Q
        ELSE IF length <= MaxQueryLength
        THEN [Q EXCEPT ![Len(Q)] = [srcs |-> Append(last.srcs, x), length |-> length]]
        ELSE Append(Q, [srcs |-> <<x>>, length |-> a.length])
  BY <1>1 DEF AddToQuery
<1>6. CASE x \in Asked(Q)
  <2>1. names \cup {x} = names
    BY <1>2, <1>6
  <2> QED
    BY <1>5, <1>6, <2>1 DEF a
<1>7. CASE x \notin Asked(Q) /\ length <= MaxQueryLength
  <2>1. AsksFor([Q EXCEPT ![Len(Q)] = [srcs |-> Append(Q[Len(Q)].srcs, x), length |-> length]],
                names \cup {x})
    BY <1>2, <1>4, <1>7, AddToLast DEF a
  <2> QED
    BY <1>5, <1>7, <2>1 DEF a
<1>8. CASE x \notin Asked(Q) /\ ~(length <= MaxQueryLength)
  <2>1. AsksFor(Append(Q, [srcs |-> <<x>>, length |-> AlertOf(x).length]), names \cup {x})
    BY <1>2, <1>8, AddQuery
  <2> QED
    BY <1>5, <1>8, <2>1 DEF a
<1> QED
  BY <1>6, <1>7, <1>8

(* The queries of any sequence of alerts ask for each of them, at one      *)
(* place, and one that asks for several is within the limit, with all the  *)
(* separators (createAlertsQuery).                                         *)
THEOREM QueriesAskOnce ==
  ASSUME NEW srcs \in Seq(SrcSet)
  PROVE  AsksFor(createAlertsQuery([i \in DOMAIN srcs |-> AlertOf(srcs[i])]), Elems(srcs))
<1> DEFINE list == [i \in DOMAIN srcs |-> AlertOf(srcs[i])]
           N == Len(srcs)
           none == <<[srcs |-> <<>>, length |-> 0]>>
           T == {Q \in Seq(QuerySet) : \E names \in SUBSET SrcSet : AsksFor(Q, names)}
           R(f) == f = [n \in 0 .. N |-> IF n = 0 THEN none ELSE AddToQuery(f[n - 1], list[n])]
           F == CHOOSE f : R(f)
           st == [p \in T \X ((0 + 1) .. N) |-> AddToQuery(p[1], list[p[2]])]
<1>1. /\ N \in Nat /\ 0 <= N /\ 0 \in Int /\ N \in Int /\ DOMAIN srcs = 1 .. N
      /\ \A n \in 1 .. N : srcs[n] \in SrcSet
  OBVIOUS
<1>2. DOMAIN list = 1 .. N /\ \A n \in 1 .. N : list[n] = AlertOf(srcs[n])
  BY <1>1
<1>3. Len(list) = N
  <2>1. list \in [1 .. N -> {list[n] : n \in 1 .. N}]
    BY <1>2
  <2> QED
    BY <1>1, <2>1
<1>4. createAlertsQuery(list) = F[N]
  BY <1>3 DEF createAlertsQuery
<1> HIDE DEF N, list
<1>5. AsksFor(none, {})
  <2>1. [srcs |-> <<>>, length |-> 0] \in QuerySet
    BY DEF QuerySet
  <2>2. none \in Seq(QuerySet) /\ Len(none) = 1 /\ DOMAIN none = {1}
    BY <2>1
  <2>3. none[1].srcs = <<>> /\ none[1].length = 0
    OBVIOUS
  <2>4. DOMAIN <<>> = {} /\ Len(<<>>) = 0
    OBVIOUS
  <2> HIDE DEF none
  <2>5. \A q, k, s : ~AsksAt(none, q, k, s)
    BY <2>2, <2>3, <2>4 DEF AsksAt
  <2>6. WithinLimit(none[1])
    BY <2>3, <2>4, LengthOfNone DEF WithinLimit
  <2> QED
    BY <2>2, <2>5, <2>6 DEF AsksFor, AsksAll, AsksOnce
<1>6. none \in T
  <2>1. none \in Seq(QuerySet)
    BY <1>5 DEF AsksFor
  <2> HIDE DEF none
  <2> QED
    BY <1>5, <2>1
<1> HIDE DEF none
<1>7. \A Q \in T, n \in 1 .. N : AddToQuery(Q, list[n]) \in T
  <2> SUFFICES ASSUME NEW Q \in T, NEW n \in 1 .. N PROVE AddToQuery(Q, list[n]) \in T
    OBVIOUS
  <2>1. PICK names \in SUBSET SrcSet : AsksFor(Q, names)
    OBVIOUS
  <2>2. AsksFor(AddToQuery(Q, list[n]), names \cup {srcs[n]})
    BY <1>1, <1>2, <2>1, AddToQueryOf
  <2>3. AddToQuery(Q, list[n]) \in Seq(QuerySet)
    BY <2>2 DEF AsksFor
  <2>4. names \cup {srcs[n]} \in SUBSET SrcSet
    BY <1>1
  <2> QED
    BY <2>2, <2>3, <2>4
<1> HIDE DEF T
<1>8. st \in [T \X ((0 + 1) .. N) -> T]
  BY <1>1, <1>7
<1> HIDE DEF st
<1>9. PICK f \in [0 .. N -> T] : Follows(f, 0, none, st, N)
  BY <1>1, <1>6, <1>8, StepwiseExists
<1>10. R(f)
  <2> SUFFICES ASSUME NEW n \in 0 .. N, n # 0 PROVE st[f[n - 1], n] = AddToQuery(f[n - 1], list[n])
    BY <1>9 DEF Follows
  <2>1. <<f[n - 1], n>> \in T \X ((0 + 1) .. N)
    BY <1>1
  <2> QED
    BY <2>1 DEF st
<1>11. R(F)
  BY <1>10
<1> HIDE DEF F
<1> DEFINE names(n) == {srcs[k] : k \in 1 .. n}
           P(n) == AsksFor(F[n], names(n))
           Good == {n \in Nat : n <= N => P(n)}
<1>12. 0 \in Good
  <2>1. F[0] = none /\ names(0) = {}
    BY <1>1, <1>11
  <2> HIDE DEF names
  <2>2. P(0)
    BY <1>5, <2>1
  <2> QED
    BY <2>2
<1>13. ASSUME NEW n \in Nat, n \in Good PROVE n + 1 \in Good
  <2> SUFFICES ASSUME n + 1 <= N PROVE P(n + 1)
    OBVIOUS
  <2>1. P(n)
    BY <1>1, <1>13
  <2>2. n + 1 \in 0 .. N /\ n + 1 # 0 /\ (n + 1) - 1 = n /\ n + 1 \in 1 .. N
    BY <1>1
  <2>3. F[n + 1] = AddToQuery(F[n], list[n + 1])
    BY <1>11, <2>2
  <2>4. names(n + 1) = names(n) \cup {srcs[n + 1]}
    <3>1. 1 .. (n + 1) = (1 .. n) \cup {n + 1}
      OBVIOUS
    <3> QED
      BY <3>1
  <2> HIDE DEF names
  <2>5. AsksFor(AddToQuery(F[n], AlertOf(srcs[n + 1])), names(n) \cup {srcs[n + 1]})
    BY <1>1, <2>1, <2>2, AddToQueryOf
  <2> QED
    BY <1>2, <2>2, <2>3, <2>4, <2>5
<1> HIDE DEF P
<1>14. N \in Good
  <2> HIDE DEF Good
  <2> QED
    BY <1>1, <1>12, <1>13, Counting
<1>15. P(N)
  BY <1>1, <1>14
<1>16. names(N) = Elems(srcs)
  BY <1>1 DEF Elems
<1> QED
  BY <1>4, <1>15, <1>16 DEF P, list

(* The results of a group, and the alerts they are of.                     *)
LEMMA SelectedOf ==
  ASSUME HInv, NEW g
  PROVE  /\ SelectedResults(g) \in Seq(MapResults)
         /\ Elems(SelectedResults(g)) = Own(MapAnswers, g)
<1> DEFINE results == Results(IncidentSeries)
           places == {i \in DOMAIN results : results[i].group_id = g}
<1>1. SelectedResults(g) = Keep(places, results)
  BY DEF SelectedResults
<1>2. results \in Seq(MapResults) /\ MapAnswers = Elems(results)
  BY MapAnswersOf DEF MapAnswers
<1>3. \A i : i \in places <=> i \in DOMAIN results /\ results[i].group_id = g
  OBVIOUS
<1> HIDE DEF results, places
<1>4. /\ Keep(places, results) \in Seq(MapResults)
      /\ \A x : x \in Elems(Keep(places, results)) <=> \E i \in DOMAIN results : i \in places /\ x = results[i]
  BY <1>2, KeepOf
<1>5. \A x : (\E i \in DOMAIN results : i \in places /\ x = results[i])
               <=> x \in Elems(results) /\ x.group_id = g
  BY <1>3 DEF Elems
<1>6. \A x : x \in Own(MapAnswers, g) <=> x \in Elems(results) /\ x.group_id = g
  BY <1>2 DEF Own
<1> QED
  BY <1>1, <1>4, <1>5, <1>6

(* The names of the alerts a group was mapped to.                          *)
NamesOf(g) == {Alerts[s[1]].src : s \in MappedIn(g)}

(* They are the names of its results.                                      *)
LEMMA OwnNames ==
  ASSUME HInv, NEW g
  PROVE  {r.src : r \in Own(MapAnswers, g)} = NamesOf(g)
<1>1. \A r \in Own(MapAnswers, g) :
        /\ r.values # {}
        /\ \A v \in r.values : \E s \in MappedIn(g) : Alerts[s[1]].src = r.src
  BY AnswersAreMapped DEF Own
<1>2. \A s \in MappedIn(g) : \E r \in Own(MapAnswers, g) : r.src = Alerts[s[1]].src
  BY MappedIsAnswered DEF Own
<1>3. \A r \in Own(MapAnswers, g) : \E s \in MappedIn(g) : Alerts[s[1]].src = r.src
  BY <1>1
<1> DEFINE O == Own(MapAnswers, g)
<1> HIDE DEF O
<1> QED
  BY <1>2, <1>3 DEF NamesOf

(* The queries of a group ask for these names.                             *)
LEMMA QueriesOf ==
  ASSUME HInv, NEW g
  PROVE  AsksFor(Queries(g), NamesOf(g))
<1> DEFINE results == SelectedResults(g)
           srcs == [i \in DOMAIN results |-> results[i].src]
<1>1. results \in Seq(MapResults) /\ Elems(results) = Own(MapAnswers, g)
  BY SelectedOf
<1>2. Queries(g) = createAlertsQuery([i \in DOMAIN results |-> AlertOf(results[i].src)])
  BY DEF Queries
<1> HIDE DEF results
<1>3. \A r \in MapResults : r.src \in SrcSet
  BY DEF MapResults, ResultsOf
<1>4. DOMAIN results = 1 .. Len(results) /\ Len(results) \in Nat /\ \A i \in DOMAIN results : results[i] \in MapResults
  BY <1>1
<1>5. srcs \in [1 .. Len(results) -> SrcSet]
  BY <1>3, <1>4
<1>6. DOMAIN srcs = DOMAIN results /\ \A i \in DOMAIN results : srcs[i] = results[i].src
  OBVIOUS
<1> HIDE DEF srcs
<1>7. srcs \in Seq(SrcSet)
  BY <1>4, <1>5
<1>8. [i \in DOMAIN results |-> AlertOf(results[i].src)] = [i \in DOMAIN srcs |-> AlertOf(srcs[i])]
  BY <1>6
<1>9. Elems(srcs) = {r.src : r \in Elems(results)}
  BY <1>6 DEF Elems
<1>10. Elems(srcs) = NamesOf(g)
  BY <1>1, <1>9, OwnNames
<1>11. AsksFor(createAlertsQuery([i \in DOMAIN srcs |-> AlertOf(srcs[i])]), Elems(srcs))
  BY <1>7, QueriesAskOnce
<1> QED
  BY <1>2, <1>8, <1>10, <1>11

(* Whatever was recorded, the queries for the alerts of an incident ask    *)
(* for every alert it was mapped to, for each once and for no other, and   *)
(* only a query for one alert is longer than the limit                     *)
(* (createAlertsQuery).                                                    *)
THEOREM AlertsAreQueried == Spec => []EveryAlertIsQueried
<1>1. ASSUME HInv PROVE EveryAlertIsQueried
  <2> SUFFICES ASSUME NEW g \in Groups
               PROVE  LET queries == Queries(g)
                      IN  /\ Asked(queries) = {Alerts[s[1]].src : s \in MappedIn(g)}
                          /\ \A q, r \in DOMAIN queries :
                               \A k \in DOMAIN queries[q].srcs, j \in DOMAIN queries[r].srcs :
                                 queries[q].srcs[k] = queries[r].srcs[j] => q = r /\ k = j
                          /\ \A q \in DOMAIN queries :
                               Len(queries[q].srcs) > 1 =>
                                 LengthOf(queries[q].srcs) + 4 * (Len(queries[q].srcs) - 1) <= MaxQueryLength
    BY DEF EveryAlertIsQueried
  <2> DEFINE Q == Queries(g)
  <2>1. AsksFor(Q, NamesOf(g))
    BY <1>1, QueriesOf
  <2> HIDE DEF Q
  <2>2. Asked(Q) = {Alerts[s[1]].src : s \in MappedIn(g)}
    <3>1. \A s : s \in Asked(Q) <=> s \in NamesOf(g)
      BY <2>1, AskedOf DEF AsksFor, AsksAll
    <3> QED
      BY <3>1 DEF NamesOf
  <2>3. ASSUME NEW q \in DOMAIN Q, NEW r \in DOMAIN Q,
               NEW k \in DOMAIN Q[q].srcs, NEW j \in DOMAIN Q[r].srcs, Q[q].srcs[k] = Q[r].srcs[j]
        PROVE  q = r /\ k = j
    <3>1. AsksAt(Q, q, k, Q[q].srcs[k]) /\ AsksAt(Q, r, j, Q[q].srcs[k])
      BY <2>3 DEF AsksAt
    <3> QED
      BY <2>1, <3>1 DEF AsksFor, AsksOnce
  <2>4. ASSUME NEW q \in DOMAIN Q, Len(Q[q].srcs) > 1
        PROVE  LengthOf(Q[q].srcs) + 4 * (Len(Q[q].srcs) - 1) <= MaxQueryLength
    <3> DEFINE srcs == Q[q].srcs
    <3>1. Q[q] \in QuerySet
      BY <2>1 DEF AsksFor
    <3>2. srcs \in Seq(SrcSet) /\ Q[q].length \in Nat
      BY <3>1 DEF QuerySet
    <3>3. LengthOf(srcs) + 4 * (Len(srcs) - 1) <= Q[q].length /\ Q[q].length <= MaxQueryLength
      BY <2>1, <2>4 DEF AsksFor, WithinLimit
    <3> HIDE DEF srcs
    <3>4. LengthOf(srcs) \in Nat
      <4>1. srcs # <<>>
        BY <2>4 DEF srcs
      <4>2. PICK s \in SrcSet : TRUE
        BY <3>2, <4>1
      <4> QED
        BY <3>2, <4>2, LengthOfAppend
    <3>5. Len(srcs) \in Nat /\ MaxQueryLength \in Nat
      BY <3>2, BoundsAssumption
    <3>6. LengthOf(srcs) + 4 * (Len(srcs) - 1) <= MaxQueryLength
      BY <3>2, <3>3, <3>4, <3>5
    <3> QED
      BY <3>6 DEF srcs
  <2> QED
    BY <2>2, <2>3, <2>4 DEF Q
<1> QED
  BY <1>1, HistoryInvariant, PTL

----------------------------------------------------------------------------
(* The alerts of a sequence of results                                     *)

(* What the results E have of the alert s.                                 *)
OfAlert(E, s) == {r \in E : r.src = s}
(* All samples of an alert.                                                *)
ValuesOfAlert(E, s) == UNION {r.values : r \in OfAlert(E, s)}

(* One incident for each alert, with all samples of its results.           *)
Collects(I, E) ==
  /\ \A i \in I : OfAlert(E, i.src) # {} /\ i.values = ValuesOfAlert(E, i.src)
  /\ \A r \in E : \E i \in I : i.src = r.src
  /\ \A i, j \in I : i.src = j.src => i = j

(* What an alert has when one more result is added to E.                   *)
LEMMA OfAlertMore ==
  ASSUME NEW E, NEW r, NEW s
  PROVE  /\ OfAlert(E \cup {r}, s) = IF r.src = s THEN OfAlert(E, s) \cup {r} ELSE OfAlert(E, s)
         /\ ValuesOfAlert(E \cup {r}, s) = IF r.src = s THEN ValuesOfAlert(E, s) \cup r.values
                                           ELSE ValuesOfAlert(E, s)
<1>1. OfAlert(E \cup {r}, s) = IF r.src = s THEN OfAlert(E, s) \cup {r} ELSE OfAlert(E, s)
  BY DEF OfAlert
<1> QED
  BY <1>1 DEF ValuesOfAlert

(* What merging a result of the same alert keeps and changes.              *)
LEMMA MergeByKeyOf ==
  ASSUME NEW lo \in Int, NEW hi \in Int, NEW G, NEW S, NEW C,
         NEW i \in ResultsOf(G, S, C, lo, hi), NEW r \in ResultsOf(G, S, C, lo, hi)
  PROVE  /\ MergeByKey(i, r) \in ResultsOf(G, S, C, lo, hi)
         /\ MergeByKey(i, r).src = i.src
         /\ MergeByKey(i, r).values = i.values \cup r.values
<1> DEFINE V == i.values \cup r.values
           m == MergeByKey(i, r)
           s == IF Latest(r.values) > Latest(i.values) THEN r.silenced ELSE i.silenced
<1>1. V \in Samples(lo, hi)
  BY DEF ResultsOf, Samples
<1>2. m = [i EXCEPT !.values = V, !.silenced = s]
  BY DEF MergeByKey, ResultsOf
<1>3. s \in BOOLEAN
  BY DEF ResultsOf
<1> HIDE DEF V, s, m
<1>4. m \in ResultsOf(G, S, C, lo, hi) /\ m.values = V /\ m.src = i.src
  BY <1>1, <1>2, <1>3 DEF ResultsOf
<1> QED
  BY <1>4 DEF V, m

(* Adding a result keeps the shape of the incidents.                       *)
LEMMA AddByKeyType ==
  ASSUME NEW lo \in Int, NEW hi \in Int, NEW G, NEW S, NEW C,
         NEW I \in SUBSET ResultsOf(G, S, C, lo, hi), NEW r \in ResultsOf(G, S, C, lo, hi)
  PROVE  AddByKey(I, r) \in SUBSET ResultsOf(G, S, C, lo, hi)
<1>1. \A i \in I : MergeByKey(i, r) \in ResultsOf(G, S, C, lo, hi)
  BY MergeByKeyOf
<1> QED
  BY <1>1 DEF AddByKey

(* If the incidents collect the results so far, they do with one more.     *)
LEMMA AddCollects ==
  ASSUME NEW lo \in Int, NEW hi \in Int, NEW G, NEW S, NEW C,
         NEW I \in SUBSET ResultsOf(G, S, C, lo, hi), NEW E,
         NEW r \in ResultsOf(G, S, C, lo, hi), Collects(I, E)
  PROVE  Collects(AddByKey(I, r), E \cup {r})
<1> DEFINE D == E \cup {r}
           J == AddByKey(I, r)
<1>1. \A s : /\ OfAlert(D, s) = IF r.src = s THEN OfAlert(E, s) \cup {r} ELSE OfAlert(E, s)
             /\ ValuesOfAlert(D, s) = IF r.src = s THEN ValuesOfAlert(E, s) \cup r.values
                                      ELSE ValuesOfAlert(E, s)
  BY OfAlertMore
<1>2. CASE \E i \in I : i.src = r.src
  <2>1. PICK o \in I : o.src = r.src
    BY <1>2
  <2>2. \A i \in I : i.src = r.src <=> i = o
    BY <2>1 DEF Collects
  <2> DEFINE m == MergeByKey(o, r)
  <2>3. J = (I \ {o}) \cup {m}
    BY <1>2, <2>1, <2>2 DEF AddByKey
  <2>4. m.src = o.src /\ m.values = o.values \cup r.values
    BY MergeByKeyOf
  <2> HIDE DEF m, J, D
  <2>5. OfAlert(D, m.src) # {} /\ m.values = ValuesOfAlert(D, m.src)
    BY <1>1, <2>1, <2>4 DEF Collects
  <2>6. \A i \in I \ {o} : OfAlert(D, i.src) # {} /\ i.values = ValuesOfAlert(D, i.src)
    BY <1>1, <2>2 DEF Collects
  <2>7. \A x \in D : \E i \in J : i.src = x.src
    BY <2>1, <2>3, <2>4 DEF Collects, D
  <2>8. \A i, j \in J : i.src = j.src => i = j
    BY <2>1, <2>2, <2>3, <2>4 DEF Collects
  <2>9. Collects(J, D)
    BY <2>3, <2>5, <2>6, <2>7, <2>8 DEF Collects
  <2> QED
    BY <2>9 DEF J, D
<1>3. CASE ~\E i \in I : i.src = r.src
  <2>1. J = I \cup {r}
    BY <1>3 DEF AddByKey
  <2> HIDE DEF J, D
  <2>2. OfAlert(E, r.src) = {}
    BY <1>3 DEF OfAlert, Collects
  <2>3. ValuesOfAlert(E, r.src) = {}
    BY <2>2 DEF ValuesOfAlert
  <2>4. OfAlert(D, r.src) # {} /\ r.values = ValuesOfAlert(D, r.src)
    BY <1>1, <2>2, <2>3
  <2>5. \A i \in I : OfAlert(D, i.src) # {} /\ i.values = ValuesOfAlert(D, i.src)
    BY <1>1, <1>3 DEF Collects
  <2>6. \A x \in D : \E i \in J : i.src = x.src
    BY <2>1 DEF Collects, D
  <2>7. \A i, j \in J : i.src = j.src => i = j
    BY <1>3, <2>1 DEF Collects
  <2>8. Collects(J, D)
    BY <2>1, <2>4, <2>5, <2>6, <2>7 DEF Collects
  <2> QED
    BY <2>8 DEF J, D
<1> QED
  BY <1>2, <1>3

(* However the samples of the alerts are split over results, and in        *)
(* whatever order these come, there is one incident for each alert, with   *)
(* all its samples (mergeIncidentsByKey).                                  *)
THEOREM ResultsAreCollected ==
  ASSUME NEW lo \in Int, NEW hi \in Int, NEW G, NEW S, NEW C,
         NEW results \in Seq(ResultsOf(G, S, C, lo, hi))
  PROVE  /\ mergeIncidentsByKey(results) \in SUBSET ResultsOf(G, S, C, lo, hi)
         /\ Collects(mergeIncidentsByKey(results), Elems(results))
<1> DEFINE N == Len(results)
           T == SUBSET ResultsOf(G, S, C, lo, hi)
           R(f) == f = [n \in 0 .. N |-> IF n = 0 THEN {} ELSE AddByKey(f[n - 1], results[n])]
           F == CHOOSE f : R(f)
           st == [p \in T \X ((0 + 1) .. N) |-> AddByKey(p[1], results[p[2]])]
<1>1. mergeIncidentsByKey(results) = F[N]
  BY DEF mergeIncidentsByKey
<1>2. /\ N \in Nat /\ 0 <= N /\ 0 \in Int /\ N \in Int /\ {} \in T
      /\ DOMAIN results = 1 .. N /\ \A n \in 1 .. N : results[n] \in ResultsOf(G, S, C, lo, hi)
  OBVIOUS
<1>3. \A I \in T, r \in ResultsOf(G, S, C, lo, hi) : AddByKey(I, r) \in T
  BY AddByKeyType
<1> HIDE DEF N, T
<1>4. st \in [T \X ((0 + 1) .. N) -> T]
  BY <1>2, <1>3
<1> HIDE DEF st
<1>5. PICK f \in [0 .. N -> T] : Follows(f, 0, {}, st, N)
  BY <1>2, <1>4, StepwiseExists
<1>6. R(f)
  <2> SUFFICES ASSUME NEW n \in 0 .. N, n # 0 PROVE st[f[n - 1], n] = AddByKey(f[n - 1], results[n])
    BY <1>5 DEF Follows
  <2>1. <<f[n - 1], n>> \in T \X ((0 + 1) .. N)
    BY <1>2
  <2> QED
    BY <2>1 DEF st
<1>7. R(F)
  BY <1>6
<1> HIDE DEF F
<1> DEFINE E(n) == {results[k] : k \in 1 .. n}
           P(n) == F[n] \in T /\ Collects(F[n], E(n))
           Good == {n \in Nat : n <= N => P(n)}
<1>8. 0 \in Good
  <2>1. F[0] = {} /\ E(0) = {}
    BY <1>2, <1>7
  <2> HIDE DEF E
  <2>2. P(0)
    BY <1>2, <2>1 DEF Collects
  <2> QED
    BY <2>2
<1>9. ASSUME NEW n \in Nat, n \in Good PROVE n + 1 \in Good
  <2> SUFFICES ASSUME n + 1 <= N PROVE P(n + 1)
    OBVIOUS
  <2>1. P(n)
    BY <1>2, <1>9
  <2>2. n + 1 \in 0 .. N /\ n + 1 # 0 /\ (n + 1) - 1 = n /\ n + 1 \in 1 .. N
    BY <1>2
  <2>3. F[n + 1] = AddByKey(F[n], results[n + 1])
    BY <1>7, <2>2
  <2>4. E(n + 1) = E(n) \cup {results[n + 1]}
    <3>1. 1 .. (n + 1) = (1 .. n) \cup {n + 1}
      OBVIOUS
    <3> QED
      BY <3>1
  <2> HIDE DEF E
  <2>5. F[n + 1] \in T
    BY <1>2, <1>3, <2>1, <2>2, <2>3
  <2>6. Collects(AddByKey(F[n], results[n + 1]), E(n) \cup {results[n + 1]})
    BY <1>2, <2>1, <2>2, AddCollects DEF T
  <2> QED
    BY <2>3, <2>4, <2>5, <2>6
<1> HIDE DEF P
<1>10. N \in Good
  <2> HIDE DEF Good
  <2> QED
    BY <1>2, <1>8, <1>9, Counting
<1>11. P(N)
  BY <1>2, <1>10
<1>12. E(N) = Elems(results)
  BY <1>2 DEF Elems
<1> QED
  BY <1>1, <1>11, <1>12 DEF P, T

----------------------------------------------------------------------------
(* The answers to the queries for the alerts of an incident                *)

LabelSet == {Alerts[a].label : a \in DOMAIN Alerts}

(* The results for alerts.                                                 *)
ActiveResults ==
  [ src : SrcSet, label : LabelSet, alertstate : AlertStates, severity : 0 .. 2,
    values : Samples(0, now) ]

(* One series of ALERTS.                                                   *)
ActiveSeries(a, state) ==
  [ src |-> Alerts[a].src, label |-> Alerts[a].label, alertstate |-> state,
    severity |-> Alerts[a].severity,
    values |-> {<<s[2], 1>> : s \in {s \in firing[state] : s[1] = a}} ]

(* The samples of ALERTS.                                                  *)
LEMMA FiringType ==
  ASSUME HInv, NEW state \in AlertStates, NEW s \in firing[state]
  PROVE  s[1] \in DOMAIN Alerts /\ s[2] \in 0 .. now /\ s[2] \in Multiples /\ s = <<s[1], s[2]>>
<1> DEFINE D == DOMAIN Alerts
           r == firing[state]
<1>1. r \in SUBSET (D \X Times) /\ s \in r
  BY DEF HInv, Recorded
<1> HIDE DEF D, r
<1>2. s[1] \in D /\ s[2] \in Times /\ s = <<s[1], s[2]>>
  BY <1>1, PairOf
<1> QED
  BY <1>2 DEF D, Times

(* A series of ALERTS is a result.                                         *)
LEMMA ActiveSeriesType ==
  ASSUME HInv, NEW a \in DOMAIN Alerts, NEW state \in AlertStates
  PROVE  ActiveSeries(a, state) \in ActiveResults
<1>1. {<<s[2], 1>> : s \in {s \in firing[state] : s[1] = a}} \in Samples(0, now)
  <2>1. \A s \in firing[state] : s[2] \in 0 .. now
    BY FiringType
  <2> QED
    BY <2>1 DEF Samples
<1>2. Alerts[a].severity \in 0 .. 2
  BY AlertsAssumption
<1> QED
  BY <1>1, <1>2 DEF ActiveSeries, ActiveResults, SrcSet, LabelSet

(* The series of ALERTS are those of each alert in each state.             *)
LEMMA AlertSeriesOf ==
  ASSUME HInv
  PROVE  /\ AlertSeries \in Seq(ActiveResults)
         /\ \A x : x \in Elems(AlertSeries)
                     <=> \E a \in DOMAIN Alerts, state \in AlertStates : x = ActiveSeries(a, state)
<1> DEFINE N == Len(Alerts)
           State(k) == IF k = 1 THEN "firing" ELSE "pending"
           s == [a \in DOMAIN Alerts |-> [k \in 1 .. 2 |-> ActiveSeries(a, State(k))]]
<1>1. AlertSeries = FlattenSeq(s)
  BY DEF AlertSeries, ActiveSeries
<1>2. N \in Nat /\ DOMAIN Alerts = 1 .. N
  BY AlertsAssumption
<1>3. ASSUME NEW a \in DOMAIN Alerts
      PROVE  /\ s[a] \in Seq(ActiveResults)
             /\ \A x : x \in Elems(s[a]) <=> \E state \in AlertStates : x = ActiveSeries(a, state)
  <2>1. s[a] = [k \in 1 .. 2 |-> ActiveSeries(a, State(k))]
    OBVIOUS
  <2>2. \A k \in 1 .. 2 : ActiveSeries(a, State(k)) \in ActiveResults
    BY ActiveSeriesType DEF AlertStates
  <2> HIDE DEF s
  <2>3. s[a] \in Seq(ActiveResults)
    BY <2>1, <2>2
  <2>4. DOMAIN s[a] = {1, 2} /\ s[a][1] = ActiveSeries(a, "firing") /\ s[a][2] = ActiveSeries(a, "pending")
    <3>1. 1 .. 2 = {1, 2} /\ 1 # 2
      OBVIOUS
    <3>2. State(1) = "firing" /\ State(2) = "pending"
      OBVIOUS
    <3> HIDE DEF State
    <3>3. DOMAIN s[a] = {1, 2} /\ s[a][1] = ActiveSeries(a, State(1)) /\ s[a][2] = ActiveSeries(a, State(2))
      BY <2>1, <3>1
    <3> QED
      BY <3>2, <3>3
  <2> QED
    BY <2>3, <2>4 DEF Elems, AlertStates
<1>4. s \in [1 .. N -> Seq(ActiveResults)]
  BY <1>2, <1>3
<1> HIDE DEF s, N
<1>5. /\ FlattenSeq(s) \in Seq(ActiveResults)
      /\ \A x : x \in Elems(FlattenSeq(s)) <=> \E a \in 1 .. N : x \in Elems(s[a])
  BY <1>2, <1>4, FlattenOf
<1>6. ASSUME NEW x
      PROVE  x \in Elems(FlattenSeq(s))
               <=> \E a \in DOMAIN Alerts, state \in AlertStates : x = ActiveSeries(a, state)
  <2>1. x \in Elems(FlattenSeq(s)) <=> \E a \in DOMAIN Alerts : x \in Elems(s[a])
    BY <1>2, <1>5
  <2> QED
    BY <1>3, <2>1
<1> QED
  BY <1>1, <1>5, <1>6

(* What the answers for alerts contain.                                    *)
LEMMA InRangeActive ==
  ASSUME HInv, NEW x \in ActiveResults, NEW e \in Int
  PROVE  /\ InRange(x, e) \in ActiveResults
         /\ InRange(x, e).src = x.src /\ InRange(x, e).alertstate = x.alertstate
         /\ InRange(x, e).severity = x.severity /\ InRange(x, e).label = x.label
         /\ InRange(x, e).values = {v \in x.values : e - OneDay <= v[1] /\ v[1] <= e}
<1>1. {v \in x.values : e - OneDay <= v[1] /\ v[1] <= e} \in Samples(0, now)
  BY DEF ActiveResults, Samples
<1> QED
  BY <1>1 DEF InRange, ActiveResults

(* The results of the queries for the alerts of an incident.               *)
ActiveAnswers(g) == Elems(AlertResults(g))

(* Each result is a series of an alert asked for, in one of the ranges.    *)
LEMMA ActiveAnswersOf ==
  ASSUME HInv, NEW g
  PROVE  /\ AlertResults(g) \in Seq(ActiveResults)
         /\ \A x : x \in ActiveAnswers(g)
                     <=> \E k \in 1 .. Days, a \in DOMAIN Alerts, state \in AlertStates :
                            /\ x = InRange(ActiveSeries(a, state), RangeEnd(k)) /\ x.values # {}
                            /\ Alerts[a].src \in NamesOf(g)
<1> DEFINE all == AlertSeries
           asked == Asked(Queries(g))
           places == {i \in DOMAIN all : all[i].src \in asked}
           series == Keep(places, all)
<1>1. AlertResults(g) = Results(series)
  BY DEF AlertResults
<1>2. asked = NamesOf(g)
  <2>1. AsksAll(Queries(g), NamesOf(g))
    BY QueriesOf DEF AsksFor
  <2>2. \A s : s \in asked <=> s \in NamesOf(g)
    BY <2>1, AskedOf DEF AsksAll
  <2> QED
    BY <2>2
<1>3. /\ all \in Seq(ActiveResults)
      /\ \A x : x \in Elems(all) <=> \E a \in DOMAIN Alerts, state \in AlertStates : x = ActiveSeries(a, state)
  BY AlertSeriesOf
<1>4. \A i \in DOMAIN all : i \in places <=> all[i].src \in NamesOf(g)
  BY <1>2
<1> HIDE DEF all, asked, places
<1>5. /\ series \in Seq(ActiveResults)
      /\ \A x : x \in Elems(series) <=> \E i \in DOMAIN all : i \in places /\ x = all[i]
  BY <1>3, KeepOf
<1>6. \A x : x \in Elems(series) <=> x \in Elems(all) /\ x.src \in NamesOf(g)
  BY <1>4, <1>5 DEF Elems
<1> HIDE DEF series
<1>7. \A x \in ActiveResults, e \in Int : InRange(x, e) \in ActiveResults
  BY InRangeActive
<1>8. now \in Int
  BY DEF HInv
<1>9. /\ Results(series) \in Seq(ActiveResults)
      /\ \A x : x \in Elems(Results(series))
                  <=> \E k \in 1 .. Days : \E i \in DOMAIN series :
                         x = InRange(series[i], RangeEnd(k)) /\ x.values # {}
  BY <1>5, <1>7, <1>8, ResultsOfSeries
<1>10. ASSUME NEW x, NEW k \in 1 .. Days
       PROVE  (\E i \in DOMAIN series : x = InRange(series[i], RangeEnd(k)) /\ x.values # {})
                <=> \E a \in DOMAIN Alerts, state \in AlertStates :
                       /\ x = InRange(ActiveSeries(a, state), RangeEnd(k)) /\ x.values # {}
                       /\ Alerts[a].src \in NamesOf(g)
  <2>1. (\E i \in DOMAIN series : x = InRange(series[i], RangeEnd(k)) /\ x.values # {})
          <=> \E y \in Elems(series) : x = InRange(y, RangeEnd(k)) /\ x.values # {}
    BY DEF Elems
  <2>2. \A a, state : ActiveSeries(a, state).src = Alerts[a].src
    BY DEF ActiveSeries
  <2> QED
    BY <1>3, <1>6, <2>1, <2>2
<1> QED
  BY <1>1, <1>9, <1>10 DEF ActiveAnswers

----------------------------------------------------------------------------
(* The alerts that are shown for an incident                               *)

(* What an alert fired at within the days, and during an incident.         *)
Point(s) == <<s[2], 1>>
Fired(src) == {s \in firing["firing"] : Alerts[s[1]].src = src /\ Within(s[2])}
FiredDuring(g, src) ==
  {s \in firing["firing"] : /\ Alerts[s[1]].src = src
                            /\ \E u \in MappedIn(g) : u[2] <= s[2]
                            /\ \E u \in MappedIn(g) : s[2] <= u[2]}
(* They have no severity of their own.                                     *)
Points(fired) == {Point(s) : s \in fired}

(* Every sample of an answer fired.                                        *)
LEMMA AnswersHaveFired ==
  ASSUME HInv, NEW g, NEW r \in ActiveAnswers(g), r.alertstate = "firing"
  PROVE  /\ r.src \in NamesOf(g) /\ r.severity \in 0 .. 2
         /\ r.values # {} /\ r.values \subseteq Points(Fired(r.src))
         /\ \E a \in DOMAIN Alerts : Alerts[a].src = r.src /\ Alerts[a].label = r.label
<1>1. PICK k \in 1 .. Days, a \in DOMAIN Alerts, state \in AlertStates :
        /\ r = InRange(ActiveSeries(a, state), RangeEnd(k)) /\ r.values # {}
        /\ Alerts[a].src \in NamesOf(g)
  BY ActiveAnswersOf
<1>2. RangeEnd(k) \in Int /\ now \in Int
  BY RangeAssumption DEF RangeEnd, HInv
<1> DEFINE x == ActiveSeries(a, state)
<1>3. x \in ActiveResults
  BY ActiveSeriesType
<1>4. /\ r \in ActiveResults /\ r.src = x.src /\ r.alertstate = x.alertstate
      /\ r.label = x.label
      /\ r.values = {v \in x.values : RangeEnd(k) - OneDay <= v[1] /\ v[1] <= RangeEnd(k)}
  BY <1>1, <1>2, <1>3, InRangeActive
<1>5. /\ x.src = Alerts[a].src /\ x.alertstate = state /\ x.label = Alerts[a].label
      /\ x.values = {<<s[2], 1>> : s \in {s \in firing[state] : s[1] = a}}
  BY DEF ActiveSeries
<1> HIDE DEF x
<1>6. state = "firing"
  BY <1>4, <1>5
<1>7. ASSUME NEW v \in r.values PROVE v \in Points(Fired(r.src))
  <2>1. PICK s \in firing["firing"] : s[1] = a /\ v = <<s[2], 1>>
    BY <1>4, <1>5, <1>6
  <2>2. s[2] \in Int
    BY <1>6, FiringType
  <2>3. RangeEnd(k) - OneDay <= s[2] /\ s[2] <= RangeEnd(k)
    BY <1>4, <2>1
  <2>4. Within(s[2])
    BY <1>2, <2>2, <2>3, RangesCover
  <2>5. s \in Fired(r.src)
    BY <1>4, <1>5, <2>1, <2>4 DEF Fired
  <2> QED
    BY <2>1, <2>5 DEF Points, Point
<1>8. r.src \in NamesOf(g)
  BY <1>1, <1>4, <1>5
<1> QED
  BY <1>1, <1>4, <1>5, <1>7, <1>8 DEF ActiveResults

(* Every time an alert asked for fired within the days is in an answer.    *)
LEMMA FiredIsAnswered ==
  ASSUME HInv, NEW g, NEW src \in NamesOf(g), NEW s \in Fired(src)
  PROVE  \E r \in ActiveAnswers(g) :
           r.alertstate = "firing" /\ r.src = src /\ Point(s) \in r.values
<1>1. s \in firing["firing"] /\ Alerts[s[1]].src = src /\ Within(s[2]) /\ "firing" \in AlertStates
  BY DEF Fired, AlertStates
<1>2. s[1] \in DOMAIN Alerts /\ s[2] \in Int /\ now \in Int
  BY <1>1, FiringType DEF HInv
<1>3. PICK k \in 1 .. Days : RangeEnd(k) - OneDay <= s[2] /\ s[2] <= RangeEnd(k)
  BY <1>1, <1>2, RangesCover
<1>4. RangeEnd(k) \in Int
  BY <1>2, RangeAssumption DEF RangeEnd
<1> DEFINE x == ActiveSeries(s[1], "firing")
           r == InRange(x, RangeEnd(k))
<1>5. x \in ActiveResults
  BY <1>1, <1>2, ActiveSeriesType
<1>6. /\ r.src = x.src /\ r.alertstate = x.alertstate
      /\ r.values = {v \in x.values : RangeEnd(k) - OneDay <= v[1] /\ v[1] <= RangeEnd(k)}
  BY <1>4, <1>5, InRangeActive
<1>7. /\ x.src = src /\ x.alertstate = "firing"
      /\ x.values = {<<u[2], 1>> : u \in {u \in firing["firing"] : u[1] = s[1]}}
  BY <1>1 DEF ActiveSeries
<1>8. Point(s) \in x.values /\ Point(s)[1] = s[2]
  BY <1>1, <1>7 DEF Point
<1>9. Point(s) \in r.values
  BY <1>3, <1>6, <1>8
<1>10. r \in ActiveAnswers(g)
  BY <1>1, <1>2, <1>9, ActiveAnswersOf
<1> QED
  BY <1>6, <1>7, <1>9, <1>10

(* Joined over the ranges, an alert has all it fired at within the days.   *)
LEMMA DeduplicatedOf ==
  ASSUME HInv, NEW g
  PROVE  LET D == deduplicateAlerts(AlertResults(g))
         IN  /\ \A d \in D : /\ d.src \in NamesOf(g) /\ d.severity \in 0 .. 2
                             /\ d.values = Points(Fired(d.src))
             /\ \A src \in NamesOf(g) : Fired(src) # {} => \E d \in D : d.src = src
             /\ \A d, e \in D : d.src = e.src => d = e
<1> DEFINE results == AlertResults(g)
           isFiring == {results[i] : i \in {i \in DOMAIN results : results[i].alertstate = "firing"}}
           key(r) == <<r.src, r.label>>
           keys == {key(r) : r \in isFiring}
           severityOf(k) == (CHOOSE r \in isFiring : key(r) = k).severity
           valuesOf(k) == UNION {r.values : r \in {r \in isFiring : key(r) = k}}
           entry(k) == [src |-> k[1], severity |-> severityOf(k), values |-> valuesOf(k)]
           D == {entry(k) : k \in keys}
<1>1. D = deduplicateAlerts(AlertResults(g))
  BY DEF deduplicateAlerts
<1>2. \A r : r \in isFiring <=> r \in ActiveAnswers(g) /\ r.alertstate = "firing"
  BY DEF ActiveAnswers, Elems
<1>3. \A r \in isFiring : /\ r.src \in NamesOf(g) /\ r.severity \in 0 .. 2
                          /\ r.values # {} /\ r.values \subseteq Points(Fired(r.src))
  BY <1>2, AnswersHaveFired
<1>4. ASSUME NEW src \in NamesOf(g), NEW s \in Fired(src)
      PROVE  \E r \in isFiring : r.src = src /\ Point(s) \in r.values
  BY <1>2, FiredIsAnswered
<1>10. \A r, q \in isFiring : r.src = q.src => r.label = q.label
  BY <1>2, AnswersHaveFired, LabelsAssumption
<1> HIDE DEF isFiring
<1>11. \A r, q \in isFiring : r.src = q.src <=> key(r) = key(q)
  BY <1>10
<1>12. \A r : key(r)[1] = r.src
  OBVIOUS
<1> HIDE DEF key
<1>5. ASSUME NEW k \in keys
      PROVE  k[1] \in NamesOf(g) /\ severityOf(k) \in 0 .. 2 /\ valuesOf(k) = Points(Fired(k[1]))
  <2>1. PICK r \in isFiring : key(r) = k
    OBVIOUS
  <2>2. r.src = k[1] /\ k[1] \in NamesOf(g)
    BY <1>3, <1>12, <2>1
  <2>3. severityOf(k) \in 0 .. 2
    BY <1>3, <2>1
  <2>4. valuesOf(k) \subseteq Points(Fired(k[1]))
    BY <1>3, <1>12
  <2>5. \A v \in Points(Fired(k[1])) : v \in valuesOf(k)
    <3>1. \A q \in isFiring : q.src = k[1] => key(q) = k
      BY <1>11, <2>1, <2>2
    <3> QED
      BY <1>4, <2>2, <3>1 DEF Points
  <2> QED
    BY <2>2, <2>3, <2>4, <2>5
<1>6. ASSUME NEW src \in NamesOf(g), Fired(src) # {} PROVE \E k \in keys : k[1] = src
  BY <1>4, <1>6, <1>12
<1>13. \A j, k \in keys : j[1] = k[1] => j = k
  BY <1>11, <1>12
<1> HIDE DEF keys, severityOf, valuesOf
<1>7. \A d \in D : /\ d.src \in NamesOf(g) /\ d.severity \in 0 .. 2
                   /\ d.values = Points(Fired(d.src))
  BY <1>5
<1>8. ASSUME NEW src \in NamesOf(g), Fired(src) # {} PROVE \E d \in D : d.src = src
  <2>1. PICK k \in keys : k[1] = src
    BY <1>6, <1>8
  <2>2. entry(k) \in D /\ entry(k).src = src
    BY <2>1
  <2> QED
    BY <2>2
<1>9. \A d, e \in D : d.src = e.src => d = e
  BY <1>13
<1> HIDE DEF D
<1> QED
  BY <1>1, <1>7, <1>8, <1>9

(* The incidents of a group have the names and samples mapped for it.      *)
LEMMA CollectedOf ==
  ASSUME HInv, NEW g
  PROVE  LET I == mergeIncidentsByKey(SelectedResults(g))
         IN  /\ \A s : s \in NamesOf(g) <=> \E i \in I : i.src = s
             /\ UNION {i.values : i \in I} = {Sample(s) : s \in MappedIn(g)}
<1> DEFINE I == mergeIncidentsByKey(SelectedResults(g))
           E == Own(MapAnswers, g)
<1>1. SelectedResults(g) \in Seq(MapResults) /\ Elems(SelectedResults(g)) = E
  BY SelectedOf
<1>2. now \in Int /\ 0 \in Int
  BY DEF HInv
<1>3. Collects(I, E)
  BY <1>1, <1>2, ResultsAreCollected DEF MapResults
<1>4. AllValues(MapAnswers, g) = {Sample(s) : s \in MappedIn(g)}
  BY OwnIsMapped
<1>5. NamesOf(g) = {r.src : r \in E}
  BY OwnNames
<1>6. AllValues(MapAnswers, g) = UNION {r.values : r \in E}
  BY DEF AllValues
<1> HIDE DEF I, E
<1>7. \A s : s \in NamesOf(g) <=> \E i \in I : i.src = s
  BY <1>3, <1>5 DEF Collects, OfAlert
<1>8. UNION {i.values : i \in I} = UNION {r.values : r \in E}
  <2>1. \A i \in I : i.values = UNION {r.values : r \in OfAlert(E, i.src)}
    BY <1>3 DEF Collects, ValuesOfAlert
  <2>2. ASSUME NEW i \in I, NEW v \in i.values PROVE v \in UNION {r.values : r \in E}
    BY <2>1 DEF OfAlert
  <2>3. ASSUME NEW r \in E, NEW v \in r.values PROVE v \in UNION {i.values : i \in I}
    <3>1. PICK i \in I : i.src = r.src
      BY <1>3 DEF Collects
    <3>2. r \in OfAlert(E, i.src)
      BY <3>1 DEF OfAlert
    <3> QED
      BY <2>1, <3>2
  <2> QED
    BY <2>2, <2>3
<1> QED
  BY <1>4, <1>6, <1>7, <1>8 DEF I

(* What an alert fired at within half a step of an incident it fired at    *)
(* during it.                                                              *)
LEMMA WithinOf ==
  ASSUME HInv, NEW g, MappedIn(g) # {}, NEW I,
         UNION {i.values : i \in I} = {Sample(s) : s \in MappedIn(g)}, NEW src
  PROVE  WithinIncidents(Points(Fired(src)), I) = Points(FiredDuring(g, src))
<1> DEFINE V == {Sample(s) : s \in MappedIn(g)}
           first == Min(Timestamps(V))
           last == Latest(V)
           half == Interval \div 2
<1>1. V \in Samples(0, now) /\ V # {} /\ 0 \in Int /\ now \in Int
  <2>1. \A s \in MappedIn(g) : Sample(s) \in (0 .. now) \X (0 .. 2)
    BY SampleType DEF Sample
  <2> QED
    BY <2>1 DEF Samples, HInv
<1>2. /\ \E v \in V : v[1] = first
      /\ \A v \in V : first <= v[1]
      /\ \E v \in V : v[1] = last
      /\ \A v \in V : v[1] <= last
      /\ first \in Int /\ last \in Int
  <2> HIDE DEF V
  <2>1. /\ \E v \in V : v[1] = Min(Timestamps(V))
        /\ \A v \in V : Min(Timestamps(V)) <= v[1]
        /\ Min(Timestamps(V)) \in 0 .. now
    BY <1>1, FirstOf
  <2>2. /\ \E v \in V : v[1] = Latest(V)
        /\ \A v \in V : v[1] <= Latest(V)
        /\ Latest(V) \in 0 .. now
    BY <1>1, LatestOf
  <2> QED
    BY <1>1, <2>1, <2>2
<1>3. \A s \in MappedIn(g) : /\ Sample(s) \in V /\ Sample(s)[1] = s[2] /\ s[2] \in Int
                             /\ s[2] \in Multiples /\ Within(s[2])
  <2>1. \A s \in MappedIn(g) : Within(s[2])
    BY MappedType
  <2> QED
    BY <2>1, SampleType
<1>4. WithinIncidents(Points(Fired(src)), I)
        = {v \in Points(Fired(src)) : first - half <= v[1] /\ v[1] <= last + half}
  BY DEF WithinIncidents, Latest
<1>5. half \in Int /\ 0 <= half /\ half < Interval /\ Interval \in Nat
  BY IntervalAssumption
<1>6. \A s \in firing["firing"] : s[2] \in Int /\ s[2] \in Multiples /\ Point(s)[1] = s[2]
  <2>1. "firing" \in AlertStates
    BY DEF AlertStates
  <2> QED
    BY <2>1, FiringType DEF Point
<1>7. PICK f \in MappedIn(g), l \in MappedIn(g) : f[2] = first /\ l[2] = last
  <2>1. \A v \in V : \E s \in MappedIn(g) : v[1] = s[2]
    BY <1>3
  <2> HIDE DEF V, first, last
  <2> QED
    BY <1>2, <2>1
<1> HIDE DEF first, last, half
<1>8. ASSUME NEW s \in Fired(src), first - half <= s[2], s[2] <= last + half
      PROVE  s \in FiredDuring(g, src)
  <2>1. s \in firing["firing"] /\ Alerts[s[1]].src = src /\ s[2] \in Int /\ s[2] \in Multiples
    BY <1>6 DEF Fired
  <2>2. first \in Multiples /\ last \in Multiples
    BY <1>3, <1>7
  <2>3. first - s[2] < Interval /\ s[2] - last < Interval
    BY <1>2, <1>5, <1>8, <2>1
  <2>4. first <= s[2] /\ s[2] <= last
    BY <2>1, <2>2, <2>3, GridOrder
  <2> QED
    BY <1>7, <2>1, <2>4 DEF FiredDuring
<1>9. ASSUME NEW s \in FiredDuring(g, src)
      PROVE  s \in Fired(src) /\ first - half <= s[2] /\ s[2] <= last + half
  <2>1. PICK u \in MappedIn(g), w \in MappedIn(g) : u[2] <= s[2] /\ s[2] <= w[2]
    BY DEF FiredDuring
  <2>2. s \in firing["firing"] /\ Alerts[s[1]].src = src /\ s[2] \in Int
    BY <1>6 DEF FiredDuring
  <2>3. first <= u[2] /\ w[2] <= last
    BY <1>2, <1>3
  <2>4. Within(s[2])
    <3>1. Within(u[2]) /\ Within(w[2]) /\ u[2] \in Int /\ w[2] \in Int
      BY <1>3
    <3>2. now - Days * OneDay \in Int
      BY <1>1, RangeAssumption
    <3> QED
      BY <1>1, <2>1, <2>2, <3>1, <3>2 DEF Within
  <2> QED
    BY <1>2, <1>3, <1>5, <2>1, <2>2, <2>3, <2>4 DEF Fired
<1>10. \A s \in Fired(src) : Point(s)[1] = s[2]
  BY <1>6 DEF Fired
<1>11. ASSUME NEW v \in WithinIncidents(Points(Fired(src)), I) PROVE v \in Points(FiredDuring(g, src))
  <2>1. PICK s \in Fired(src) : v = Point(s)
    BY <1>4 DEF Points
  <2> QED
    BY <1>4, <1>8, <1>10, <2>1 DEF Points
<1>12. ASSUME NEW v \in Points(FiredDuring(g, src)) PROVE v \in WithinIncidents(Points(Fired(src)), I)
  <2>1. PICK s \in FiredDuring(g, src) : v = Point(s)
    BY DEF Points
  <2> QED
    BY <1>4, <1>9, <1>10, <2>1 DEF Points
<1> QED
  BY <1>11, <1>12

(* The points of an alert: on the grid, one at a time.                     *)
LEMMA PointsOf ==
  ASSUME HInv, NEW g, NEW src
  PROVE  LET V == Points(FiredDuring(g, src))
         IN  /\ V \in Samples(0, now)
             /\ \A v \in V : v[1] \in Multiples /\ v[2] = 1
             /\ \A v : v \in V <=> \E s \in FiredDuring(g, src) : v = <<s[2], 1>>
<1>1. \A s \in FiredDuring(g, src) : s[2] \in 0 .. now /\ s[2] \in Multiples
  <2>1. "firing" \in AlertStates
    BY DEF AlertStates
  <2> QED
    BY <2>1, FiringType DEF FiredDuring
<1> QED
  BY <1>1 DEF Points, Point, Samples

(* The table and the chart show an alert of an incident with the points at *)
(* which it fired during the incident, if it did, and only then.           *)
LEMMA ShownAlerts ==
  ASSUME HInv, NEW g
  PROVE  /\ \A a \in AlertsShown(g) :
              LET V == Points(FiredDuring(g, a.src))
              IN  /\ a.src \in NamesOf(g) \ {Watchdog} /\ V # {}
                  /\ a.values = insertPaddingPointsForChart(V, now)
                  /\ a.resolved = isResolved(Latest(V), now)
                  /\ a.severity \in 0 .. 2
         /\ \A src \in NamesOf(g) \ {Watchdog} :
              FiredDuring(g, src) # {} => \E a \in AlertsShown(g) : a.src = src
         /\ \A a, b \in AlertsShown(g) : a.src = b.src => a = b
<1> DEFINE D == deduplicateAlerts(AlertResults(g))
           I == mergeIncidentsByKey(SelectedResults(g))
           alerts == {[d EXCEPT !.values = WithinIncidents(@, I)] : d \in {d \in D : d.src # Watchdog}}
           shown == {a \in alerts : a.values # {} /\ \E i \in I : i.src = a.src}
           Incident(a) == CHOOSE i \in I : i.src = a.src
           Row(a) == [ src |-> a.src, severity |-> a.severity,
                       component |-> Incident(a).component,
                       silenced |-> Incident(a).silenced,
                       resolved |-> isResolved(Latest(a.values), now),
                       values |-> insertPaddingPointsForChart(a.values, now) ]
<1>1. AlertsShown(g) = {Row(a) : a \in shown}
  BY DEF AlertsShown, convertToAlerts
<1>2. /\ \A d \in D : /\ d.src \in NamesOf(g) /\ d.severity \in 0 .. 2
                      /\ d.values = Points(Fired(d.src))
      /\ \A src \in NamesOf(g) : Fired(src) # {} => \E d \in D : d.src = src
      /\ \A d, e \in D : d.src = e.src => d = e
  BY DeduplicatedOf
<1>3. /\ \A s : s \in NamesOf(g) <=> \E i \in I : i.src = s
      /\ UNION {i.values : i \in I} = {Sample(s) : s \in MappedIn(g)}
  BY CollectedOf
<1>4. \A d \in D : d = [src |-> d.src, severity |-> d.severity, values |-> d.values]
  BY DEF deduplicateAlerts
<1>5. NamesOf(g) # {} => MappedIn(g) # {}
  BY DEF NamesOf
<1> HIDE DEF D, I
<1> DEFINE W(d) == [d EXCEPT !.values = WithinIncidents(@, I)]
<1>6. ASSUME NEW d \in D
      PROVE  /\ W(d).src = d.src /\ W(d).severity = d.severity
             /\ W(d).values = Points(FiredDuring(g, d.src))
  <2>1. W(d) = [src |-> d.src, severity |-> d.severity, values |-> WithinIncidents(d.values, I)]
    BY <1>4
  <2>2. MappedIn(g) # {}
    BY <1>2, <1>5
  <2>3. WithinIncidents(Points(Fired(d.src)), I) = Points(FiredDuring(g, d.src))
    BY <1>3, <2>2, WithinOf
  <2> QED
    BY <1>2, <2>1, <2>3
<1>7. alerts = {W(d) : d \in {d \in D : d.src # Watchdog}}
  OBVIOUS
<1> HIDE DEF W, alerts
<1>8. \A a \in shown : \E d \in D : a = W(d) /\ d.src # Watchdog /\ a.values # {}
  BY <1>7
<1>9. \A d \in D : d.src # Watchdog /\ W(d).values # {} => W(d) \in shown
  BY <1>2, <1>3, <1>6, <1>7
<1>10. \A a : /\ Row(a).src = a.src /\ Row(a).severity = a.severity
              /\ Row(a).resolved = isResolved(Latest(a.values), now)
              /\ Row(a).values = insertPaddingPointsForChart(a.values, now)
  OBVIOUS
<1> HIDE DEF shown, Row
<1>11. ASSUME NEW x \in AlertsShown(g)
       PROVE  LET V == Points(FiredDuring(g, x.src))
              IN  /\ x.src \in NamesOf(g) \ {Watchdog} /\ V # {}
                  /\ x.values = insertPaddingPointsForChart(V, now)
                  /\ x.resolved = isResolved(Latest(V), now)
                  /\ x.severity \in 0 .. 2
  <2>1. PICK d \in D : x = Row(W(d)) /\ d.src # Watchdog /\ W(d).values # {}
    BY <1>1, <1>8
  <2>2. /\ x.src = d.src /\ x.severity = d.severity
        /\ W(d).values = Points(FiredDuring(g, d.src))
    BY <1>6, <1>10, <2>1
  <2> QED
    BY <1>2, <1>10, <2>1, <2>2
<1>12. ASSUME NEW src \in NamesOf(g) \ {Watchdog}, FiredDuring(g, src) # {}
       PROVE  \E a \in AlertsShown(g) : a.src = src
  <2>1. Points(FiredDuring(g, src)) # {}
    BY <1>12 DEF Points
  <2>2. Fired(src) # {}
    <3>1. WithinIncidents(Points(Fired(src)), I) = Points(FiredDuring(g, src))
      BY <1>3, <1>5, WithinOf
    <3> QED
      BY <2>1, <3>1 DEF WithinIncidents, Points
  <2>3. PICK d \in D : d.src = src
    BY <1>2, <2>2
  <2>4. W(d) \in shown
    BY <1>6, <1>9, <2>1, <2>3
  <2>5. Row(W(d)) \in AlertsShown(g) /\ Row(W(d)).src = src
    BY <1>1, <1>6, <1>10, <2>3, <2>4
  <2> QED
    BY <2>5
<1>13. ASSUME NEW x \in AlertsShown(g), NEW y \in AlertsShown(g), x.src = y.src PROVE x = y
  <2>1. PICK d \in D : x = Row(W(d))
    BY <1>1, <1>8
  <2>2. PICK e \in D : y = Row(W(e))
    BY <1>1, <1>8
  <2>3. d.src = e.src
    BY <1>6, <1>10, <1>13, <2>1, <2>2
  <2>4. d = e
    BY <1>2, <2>3
  <2> QED
    BY <2>1, <2>2, <2>4
<1> QED
  BY <1>11, <1>12, <1>13

----------------------------------------------------------------------------
(* The bars of the alerts that are shown                                   *)

(* The grid goes on by whole steps.                                        *)
LEMMA GridSteps ==
  ASSUME NEW x \in Multiples
  PROVE  /\ x \in Int /\ x - Interval \in Multiples /\ x + Interval \in Multiples
         /\ \A y \in Multiples : x < y => x + Interval <= y
<1>1. Interval \in Nat /\ Interval > 0
  BY IntervalAssumption
<1>2. PICK k \in Int : x = k * Interval
  BY DEF Multiples
<1>3. x + Interval = (k + 1) * Interval /\ x - Interval = (k - 1) * Interval /\ x \in Int
  BY <1>1, <1>2
<1>4. x + Interval \in Multiples /\ x - Interval \in Multiples
  BY <1>3 DEF Multiples
<1>5. ASSUME NEW y \in Multiples, x < y PROVE x + Interval <= y
  <2>1. y \in Int
    BY <1>1 DEF Multiples
  <2>2. (x + Interval) - y < Interval
    BY <1>1, <1>3, <1>5, <2>1
  <2> QED
    BY <1>4, <2>2, GridOrder
<1> QED
  BY <1>3, <1>4, <1>5

(* Points: samples on the grid, up to time, all of one severity.           *)
ArePoints(V, time) == \A v \in V : v = <<v[1], 1>> /\ v[1] \in Multiples /\ v[1] <= time

(* Padding adds points no more than a step away, and not in the future.    *)
LEMMA PaddedPoints ==
  ASSUME NEW lo \in Int, NEW hi \in Int, NEW V \in Samples(lo, hi), NEW time \in Nat,
         time \in Multiples, ArePoints(V, time)
  PROVE  LET P == insertPaddingPointsForChart(V, time)
         IN  /\ ArePoints(P, time)
             /\ \A p \in P : \E v \in V : v[1] - Interval <= p[1] /\ p[1] <= v[1] + Interval
             /\ \A v \in V, t \in Multiples :
                  v[1] - Interval <= t /\ t <= v[1] + Interval /\ t <= time => <<t, 1>> \in P
<1> DEFINE P == insertPaddingPointsForChart(V, time)
           threshold == Interval + 1
           Leads(v) == \A w \in Before(v, V) : v[1] - w[1] > threshold
           Trails(v) == /\ \A w \in After(v, V) : w[1] - v[1] > threshold
                        /\ After(v, V) = {} => time >= v[1] + Interval
           L == {<<v[1] - Interval, v[2]>> : v \in {v \in V : Leads(v)}}
           T == {<<v[1] + Interval, v[2]>> : v \in {v \in V : Trails(v)}}
<1>1. P = V \cup L \cup T
  BY DEF insertPaddingPointsForChart
<1>2. Interval \in Nat /\ Interval > 2
  BY IntervalAssumption
<1>3. \A v \in V : /\ v = <<v[1], 1>> /\ v[2] = 1 /\ v[1] \in Int /\ v[1] \in Multiples /\ v[1] <= time
                   /\ v[1] - Interval \in Multiples /\ v[1] + Interval \in Multiples
                   /\ \A w \in V : v[1] < w[1] => v[1] + Interval <= w[1]
  BY GridSteps DEF ArePoints
<1>4. ASSUME NEW v \in V, Trails(v) PROVE v[1] + Interval <= time
  <2>1. CASE After(v, V) = {}
    BY <1>2, <1>3, <1>4, <2>1
  <2>2. CASE After(v, V) # {}
    <3>1. PICK w \in V : w[1] > v[1]
      BY <2>2 DEF After
    <3> QED
      BY <1>2, <1>3, <3>1
  <2> QED
    BY <2>1, <2>2
<1>5. ASSUME NEW p \in P
      PROVE  /\ p = <<p[1], 1>> /\ p[1] \in Multiples /\ p[1] <= time
             /\ \E v \in V : v[1] - Interval <= p[1] /\ p[1] <= v[1] + Interval
  <2>1. CASE p \in V
    BY <1>2, <1>3, <2>1
  <2>2. CASE p \in L
    <3>1. PICK v \in V : p = <<v[1] - Interval, v[2]>>
      BY <2>2
    <3>2. p[1] = v[1] - Interval /\ p = <<p[1], 1>>
      BY <1>3, <3>1
    <3> QED
      BY <1>2, <1>3, <3>2
  <2>3. CASE p \in T
    <3>1. PICK v \in V : p = <<v[1] + Interval, v[2]>> /\ Trails(v)
      BY <2>3
    <3>2. p[1] = v[1] + Interval /\ p = <<p[1], 1>>
      BY <1>3, <3>1
    <3> QED
      BY <1>2, <1>3, <1>4, <3>1, <3>2
  <2> QED
    BY <1>1, <2>1, <2>2, <2>3
<1>6. ASSUME NEW v \in V, NEW t \in Multiples, v[1] - Interval <= t, t <= v[1] + Interval, t <= time
      PROVE  <<t, 1>> \in P
  <2>1. t \in Int /\ \A y \in Multiples : (t < y => t + Interval <= y) /\ (y < t => y + Interval <= t)
    BY GridSteps
  <2>2. t = v[1] - Interval \/ t = v[1] \/ t = v[1] + Interval
    BY <1>2, <1>3, <1>6, <2>1
  <2>3. CASE t = v[1]
    BY <1>1, <1>3, <2>3
  <2>4. CASE t = v[1] - Interval /\ <<t, 1>> \notin V
    <3>1. ASSUME NEW w \in Before(v, V) PROVE v[1] - w[1] > threshold
      <4>1. w \in V /\ w[1] < v[1] /\ w[1] \in Int /\ w[1] \in Multiples
        BY <1>3 DEF Before
      <4>2. w[1] # t
        BY <1>3, <2>4, <4>1
      <4>3. w[1] < t
        BY <1>3, <2>1, <2>4, <4>1, <4>2, <1>2
      <4>4. w[1] + Interval <= t
        BY <2>1, <4>1, <4>3
      <4> QED
        BY <1>2, <1>3, <2>1, <2>4, <4>1, <4>4
    <3>2. <<v[1] - Interval, v[2]>> \in L
      BY <3>1
    <3> QED
      BY <1>1, <1>3, <2>4, <3>2
  <2>5. CASE t = v[1] + Interval /\ <<t, 1>> \notin V
    <3>1. ASSUME NEW w \in After(v, V) PROVE w[1] - v[1] > threshold
      <4>1. w \in V /\ v[1] < w[1] /\ w[1] \in Int /\ w[1] \in Multiples
        BY <1>3 DEF After
      <4>2. w[1] # t
        BY <1>3, <2>5, <4>1
      <4>3. v[1] + Interval <= w[1]
        BY <1>3, <4>1
      <4>4. t + Interval <= w[1]
        BY <2>1, <2>5, <4>1, <4>2, <4>3
      <4> QED
        BY <1>2, <1>3, <2>1, <2>5, <4>1, <4>4
    <3>2. time >= v[1] + Interval
      BY <1>6, <2>5
    <3>3. <<v[1] + Interval, v[2]>> \in T
      BY <3>1, <3>2
    <3> QED
      BY <1>1, <1>3, <2>5, <3>3
  <2> QED
    BY <1>1, <2>2, <2>3, <2>4, <2>5
<1> HIDE DEF P
<1>7. ArePoints(P, time)
  BY <1>5 DEF ArePoints
<1> QED
  BY <1>5, <1>6, <1>7 DEF P

(* Of the times on the grid, a stretch has a point at each.                *)
LEMMA StretchHasPoints ==
  ASSUME NEW lo \in Int, NEW hi \in Int, NEW P \in Samples(lo, hi), NEW time \in Int,
         ArePoints(P, time), NEW v \in Starts(P),
         NEW t \in Multiples, v[1] <= t, t <= StretchEnd(v, P)
  PROVE  \E p \in P : p[1] = t
<1> SUFFICES ASSUME ~\E p \in P : p[1] = t PROVE FALSE
  OBVIOUS
<1>1. /\ v \in P /\ t \in Int /\ Interval \in Nat /\ Interval > 2
      /\ \A p \in P : p[1] \in Int /\ p[1] \in Multiples
  BY GridSteps, IntervalAssumption DEF Starts, ArePoints
<1>2. StretchEnd(v, P) \in Int /\ StretchEnd(v, P) <= Latest(P)
  BY <1>1, StretchEnds
<1> DEFINE B == {p \in P : p[1] < t}
           A == {p \in P : t < p[1]}
<1>3. B \in Samples(lo, hi) /\ A \in Samples(lo, hi)
  BY DEF Samples
<1>4. v \in B
  <2>1. v[1] # t
    BY <1>1
  <2> QED
    BY <1>1, <2>1
<1>5. A # {}
  <2>1. PICK l \in P : l[1] = Latest(P)
    BY <1>1, LatestOf
  <2>2. l[1] # t /\ t <= l[1]
    BY <1>1, <1>2, <2>1
  <2> QED
    BY <1>1, <2>2
<1>6. PICK b \in B : \A p \in B : p[1] <= b[1]
  BY <1>3, <1>4, LatestOf
<1>7. PICK a \in A : \A p \in A : a[1] <= p[1]
  BY <1>3, <1>5, FirstOf
<1>8. b \in P /\ a \in P /\ b[1] < t /\ t < a[1] /\ v[1] <= b[1]
  BY <1>4, <1>6, <1>7
<1>9. \A p \in P : ~(b[1] < p[1] /\ p[1] < a[1])
  <2> SUFFICES ASSUME NEW p \in P, b[1] < p[1], p[1] < a[1] PROVE FALSE
    OBVIOUS
  <2>1. p[1] \in Int /\ a[1] \in Int /\ b[1] \in Int /\ p[1] # t
    BY <1>1, <1>8
  <2>2. p \in B \/ p \in A
    BY <1>1, <2>1
  <2> QED
    BY <1>6, <1>7, <2>1, <2>2
<1>10. b[1] + Interval <= t /\ t < a[1] /\ b[1] \in Int /\ a[1] \in Int
  BY <1>1, <1>8, GridSteps
<1>11. <<b, a>> \in Gaps(P)
  <2>1. <<b, a>> \in Steps(P)
    BY <1>8, <1>9, <1>10, <1>1 DEF Steps
  <2>2. HasGap(b, a)
    BY <1>1, <1>10 DEF HasGap
  <2> QED
    BY <2>1, <2>2 DEF Gaps
<1>12. StretchEnd(v, P) <= b[1]
  BY <1>1, <1>8, <1>11, StretchEnds
<1> QED
  BY <1>1, <1>2, <1>8, <1>10, <1>12

(* The bars with data cover, of the times on the grid, those up to now     *)
(* within a step of a point, and no other (createAlertsChartBars,          *)
(* insertPaddingPointsForChart).                                           *)
THEOREM AlertBarsCoverSteps ==
  ASSUME NEW lo \in Int, NEW hi \in Int, NEW V \in Samples(lo, hi), V # {}, NEW time \in Nat,
         time \in Multiples, ArePoints(V, time),
         NEW alert, alert.values = insertPaddingPointsForChart(V, time), NEW t \in Multiples
  PROVE  (\E b \in createAlertsChartBars(alert) : b.data /\ In(t, b))
           <=> t <= time /\ \E v \in V : v[1] - Interval <= t /\ t <= v[1] + Interval
<1> DEFINE P == insertPaddingPointsForChart(V, time)
<1>1. /\ ArePoints(P, time)
      /\ \A p \in P : \E v \in V : v[1] - Interval <= p[1] /\ p[1] <= v[1] + Interval
      /\ \A v \in V : v[1] - Interval <= t /\ t <= v[1] + Interval /\ t <= time => <<t, 1>> \in P
  BY PaddedPoints
<1>2. P \in Samples(lo - Interval, hi + Interval) /\ lo - Interval \in Int /\ hi + Interval \in Int
      /\ time \in Int
  BY PaddingOf, IntervalAssumption
<1>3. alert.values = P
  OBVIOUS
<1> HIDE DEF P
<1>4. ASSUME NEW b \in createAlertsChartBars(alert), b.data, In(t, b)
      PROVE  t <= time /\ \E v \in V : v[1] - Interval <= t /\ t <= v[1] + Interval
  <2>1. PICK v \in Starts(P) : b = DataBar(v, alert)
    BY <1>3, <1>4, AlertBars DEF GapBar
  <2>2. v[1] <= t /\ t <= StretchEnd(v, P)
    BY <1>3, <1>4, <2>1 DEF DataBar, In
  <2>3. PICK p \in P : p[1] = t
    BY <1>1, <1>2, <2>2, StretchHasPoints
  <2> QED
    BY <1>1, <2>3 DEF ArePoints
<1>5. ASSUME t <= time, NEW v \in V, v[1] - Interval <= t, t <= v[1] + Interval
      PROVE  \E b \in createAlertsChartBars(alert) : b.data /\ In(t, b)
  <2>1. <<t, 1>> \in alert.values /\ <<t, 1>>[1] = t
    BY <1>1, <1>3, <1>5
  <2> QED
    BY <1>2, <1>3, <2>1, AlertBarsCoverSamples
<1> QED
  BY <1>4, <1>5

(* Of the bars of an alert that is not resolved the last one is marked as  *)
(* firing, and no other (createAlertsChartBars).                           *)
LEMMA LastBarFires ==
  ASSUME NEW lo \in Int, NEW hi \in Int, NEW alert, alert.values \in Samples(lo, hi),
         NEW b \in createAlertsChartBars(alert)
  PROVE  b.firing <=> ~alert.resolved /\ \A c \in createAlertsChartBars(alert) : c.from <= b.from
<1> DEFINE V == alert.values
           bars == createAlertsChartBars(alert)
<1>1. bars = {DataBar(v, alert) : v \in Starts(V)} \cup {GapBar(p) : p \in Gaps(V)}
  BY AlertBars
<1>2. \A v \in Starts(V) : /\ v \in V /\ v[1] \in Int /\ DataBar(v, alert).from = v[1]
                           /\ DataBar(v, alert).firing = (~alert.resolved /\ StretchEnd(v, V) = Latest(V))
                           /\ StretchEnd(v, V) \in Int /\ v[1] <= Latest(V) /\ Latest(V) \in Int
  <2> SUFFICES ASSUME NEW v \in Starts(V)
               PROVE  /\ v \in V /\ v[1] \in Int
                      /\ StretchEnd(v, V) \in Int /\ v[1] <= Latest(V) /\ Latest(V) \in Int
    BY DEF DataBar
  <2>1. v \in V
    BY DEF Starts
  <2> QED
    BY <2>1, TimesOf, LatestOf, StretchEnds
<1>3. \A p \in Gaps(V) : /\ p[1] \in V /\ p[2] \in V /\ p[1][1] \in Int /\ p[2][1] \in Int
                         /\ p[1][1] < p[2][1] /\ HasGap(p[1], p[2]) /\ p[2] \in Starts(V)
                         /\ GapBar(p).from = p[1][1] + 1 /\ GapBar(p).firing = FALSE
  <2> SUFFICES ASSUME NEW p \in Gaps(V)
               PROVE  /\ p[1] \in V /\ p[2] \in V /\ p[1][1] \in Int /\ p[2][1] \in Int
                      /\ p[1][1] < p[2][1] /\ HasGap(p[1], p[2]) /\ p[2] \in Starts(V)
    BY DEF GapBar
  <2>1. p[1] \in V /\ p[2] \in V /\ p[1][1] \in Int /\ p[2][1] \in Int /\ p[1][1] < p[2][1]
    BY GapsOf
  <2> QED
    BY <2>1 DEF Gaps, Starts
<1>4. Interval \in Nat /\ Interval > 2
  BY IntervalAssumption
<1> HIDE DEF bars
<1>5. CASE \E p \in Gaps(V) : b = GapBar(p)
  <2>1. PICK p \in Gaps(V) : b = GapBar(p)
    BY <1>5
  <2>2. DataBar(p[2], alert) \in bars /\ DataBar(p[2], alert).from = p[2][1]
    BY <1>1, <1>2, <1>3
  <2>3. p[1][1] + 1 < p[2][1]
    BY <1>3, <1>4 DEF HasGap
  <2>4. ~(DataBar(p[2], alert).from <= b.from)
    BY <1>3, <2>1, <2>2, <2>3
  <2> QED
    BY <1>3, <2>1, <2>2, <2>4 DEF bars
<1>6. CASE \E v \in Starts(V) : b = DataBar(v, alert)
  <2>1. PICK v \in Starts(V) : b = DataBar(v, alert)
    BY <1>6
  <2>2. ASSUME StretchEnd(v, V) = Latest(V), NEW c \in bars PROVE c.from <= b.from
    <3>1. CASE \E w \in Starts(V) : c = DataBar(w, alert)
      <4>1. PICK w \in Starts(V) : c = DataBar(w, alert)
        BY <3>1
      <4>2. ~(v[1] < w[1])
        BY <1>2, <2>2, StretchesApart
      <4> QED
        BY <1>2, <2>1, <4>1, <4>2
    <3>2. CASE \E p \in Gaps(V) : c = GapBar(p)
      <4>1. PICK p \in Gaps(V) : c = GapBar(p)
        BY <3>2
      <4>2. p[2][1] <= Latest(V) /\ Latest(V) \in Int
        BY <1>2, <1>3
      <4>3. ~(p[1][1] >= v[1])
        BY <1>2, <1>3, <2>2, <4>2, StretchEnds
      <4> QED
        BY <1>2, <1>3, <2>1, <4>1, <4>3
    <3> QED
      BY <1>1, <2>2, <3>1, <3>2
  <2>3. ASSUME \A c \in bars : c.from <= b.from PROVE StretchEnd(v, V) = Latest(V)
    <3> SUFFICES ASSUME NEW p \in Gaps(V), p[1][1] >= v[1] PROVE FALSE
      BY <1>2, StretchEnds
    <3>1. DataBar(p[2], alert) \in bars /\ DataBar(p[2], alert).from = p[2][1]
      BY <1>1, <1>2, <1>3
    <3> QED
      BY <1>2, <1>3, <2>1, <2>3, <3>1
  <2> QED
    BY <1>2, <2>1, <2>2, <2>3 DEF bars
<1> QED
  BY <1>1, <1>5, <1>6 DEF bars

(* The larger and the smaller of two numbers.                              *)
LEMMA LargerOf ==
  ASSUME NEW x \in Int, NEW y \in Int
  PROVE  Max({x, y}) \in Int /\ Max({x, y}) >= x /\ Min({x, y}) \in Int
<1> DEFINE S == {x, y}
           most == IF x > y THEN x ELSE y
           least == IF x < y THEN x ELSE y
<1>1. S \in SUBSET (least .. most) /\ S # {} /\ x \in S /\ S \subseteq Int
  OBVIOUS
<1>2. least \in Int /\ most \in Int
  OBVIOUS
<1> HIDE DEF S, least, most
<1>3. Max(S) \in S /\ \A z \in S : Max(S) >= z
  BY <1>1, <1>2, MaxOf
<1>4. Min(S) \in S
  BY <1>1, <1>2, MinOf
<1>5. Max(S) \in Int /\ Max(S) >= x /\ Min(S) \in Int
  BY <1>1, <1>3, <1>4
<1> QED
  BY <1>5 DEF S

(* The dates of the chart begin before and end after all points of the     *)
(* alerts (generateAlertsDateArray).                                       *)
LEMMA DatesCover ==
  ASSUME NEW lo \in Int, NEW hi \in Int, NEW alerts, alerts # {},
         \A a \in alerts : a.values \in Samples(lo, hi) /\ a.values # {}, NEW time
  PROVE  LET dates == generateAlertsDateArray(alerts, time)
         IN  /\ dates[1] \in Int /\ dates[2] \in Int
             /\ \A a \in alerts : \A v \in a.values : dates[1] <= v[1] /\ v[1] <= dates[2]
<1> DEFINE V == UNION {a.values : a \in alerts}
           first == Min(Timestamps(V))
           last == Latest(V)
           part == (last - first) \div 20
           lower == Min({OneDay, part})
           padding == Max({3600, lower})
<1>1. generateAlertsDateArray(alerts, time) = <<first - padding, last + padding>>
  BY DEF generateAlertsDateArray, Latest
<1>2. V \in Samples(lo, hi) /\ V # {} /\ \A a \in alerts : \A v \in a.values : v \in V
  BY DEF Samples
<1>3. /\ first \in Int /\ last \in Int /\ first <= last
      /\ \A v \in V : v[1] \in Int /\ first <= v[1] /\ v[1] <= last
  <2> HIDE DEF V
  <2>1. /\ \E v \in V : v[1] = first
        /\ \A v \in V : first <= v[1]
        /\ first \in lo .. hi
    BY <1>2, FirstOf
  <2>2. /\ \A v \in V : v[1] <= last
        /\ last \in lo .. hi
    BY <1>2, LatestOf
  <2>3. \A v \in V : v[1] \in Int
    BY <1>2, TimesOf
  <2> QED
    BY <2>1, <2>2, <2>3
<1> HIDE DEF V, first, last
<1>4. part \in Int /\ OneDay \in Int
  BY <1>3, RangeAssumption
<1> HIDE DEF part
<1>5. lower \in Int
  BY <1>4, LargerOf
<1> HIDE DEF lower
<1>6. padding \in Int /\ padding >= 3600
  BY <1>5, LargerOf
<1> HIDE DEF padding
<1>7. first - padding \in Int /\ last + padding \in Int
      /\ \A v \in V : first - padding <= v[1] /\ v[1] <= last + padding
  BY <1>3, <1>6
<1> QED
  BY <1>1, <1>2, <1>7

(* No more steps pass than the bound (Step).                               *)
LEMMA StepsAreBounded == Spec => [](now <= MaxSteps * Interval)
<1> DEFINE Bounded == now <= MaxSteps * Interval
<1>1. Interval \in Nat /\ MaxSteps \in Nat
  BY IntervalAssumption, BoundsAssumption
<1>2. MaxSteps * Interval \in Nat /\ MaxSteps * Interval \in Multiples
  BY <1>1 DEF Multiples
<1>3. Init => Bounded
  BY <1>2 DEF Init
<1>4. HInv /\ Bounded /\ [Next]_vars => Bounded'
  <2> SUFFICES ASSUME HInv, Bounded, [Next]_vars PROVE Bounded'
    OBVIOUS
  <2>1. CASE UNCHANGED vars
    BY <2>1 DEF vars
  <2>2. CASE Step
    <3>1. now \in Multiples /\ now < MaxSteps * Interval /\ now' = now + Interval
      BY <2>2 DEF Step, HInv
    <3> QED
      BY <1>2, <3>1, GridSteps
  <2> QED
    BY <2>1, <2>2 DEF Next
<1> QED
  BY <1>3, <1>4, HistoryInvariant, PTL DEF Spec

(* The times recorded are on the grid.                                     *)
LEMMA OnGrid ==
  ASSUME NEW t \in Multiples, 0 <= t, t <= MaxSteps * Interval
  PROVE  t \in Grid
<1>1. PICK k \in Int : t = k * Interval
  BY DEF Multiples
<1>2. Interval \in Nat /\ Interval > 0 /\ MaxSteps \in Nat
  BY IntervalAssumption, BoundsAssumption
<1>3. k <= -1 => (-k) * Interval >= 1
  BY <1>2
<1>4. (-k) * Interval = -t
  BY <1>1, <1>2
<1>5. k - MaxSteps >= 1 => (k - MaxSteps) * Interval >= 1
  BY <1>2
<1>6. (k - MaxSteps) * Interval = t - MaxSteps * Interval
  BY <1>1, <1>2
<1>7. MaxSteps * Interval \in Int /\ t \in Int
  BY <1>1, <1>2
<1>8. k >= 0 /\ k <= MaxSteps
  BY <1>2, <1>3, <1>4, <1>5, <1>6, <1>7
<1>9. k \in -1 .. MaxSteps + 1
  BY <1>2, <1>8
<1> QED
  BY <1>1, <1>9 DEF Grid

(* In every reachable record, the bars of an alert cover the query steps   *)
(* within one step of a time it fired at during the incident and no other, *)
(* are disjoint and within the dates of the chart, and the one marked as   *)
(* firing is the last (convertToAlerts, createAlertsChartBars,             *)
(* generateAlertsDateArray).                                               *)
THEOREM AlertBarsMatchHistory == Spec => []AlertBarsMatchSamples
<1>1. ASSUME HInv, now <= MaxSteps * Interval PROVE AlertBarsMatchSamples
  <2> SUFFICES ASSUME NEW g \in Groups, MappedIn(g) # {}, NEW a \in AlertsShown(g)
               PROVE
    LET dates == generateAlertsDateArray(AlertsShown(g), now)
        during == {t \in Grid : /\ \E s \in MappedIn(g) : s[2] <= t
                                /\ \E s \in MappedIn(g) : s[2] >= t}
        bars == createAlertsChartBars(a)
        data == {b \in bars : b.data}
        fired == {t \in during : \E s \in firing["firing"] : s[2] = t /\ Alerts[s[1]].src = a.src}
    IN  /\ \A t \in Grid : (\E b \in data : In(t, b))
                             <=> t <= now /\ \E u \in fired : t \in u - Interval .. u + Interval
        /\ \A b, c \in bars : b # c => ~Overlap(b, c)
        /\ \A b \in data : dates[1] <= b.from /\ b.to <= dates[2]
        /\ \A b \in bars : b.firing <=> ~a.resolved /\ \A c \in bars : c.from <= b.from
    BY DEF AlertBarsMatchSamples
  <2> DEFINE alerts == AlertsShown(g)
             dates == generateAlertsDateArray(alerts, now)
             during == {t \in Grid : /\ \E s \in MappedIn(g) : s[2] <= t
                                     /\ \E s \in MappedIn(g) : s[2] >= t}
             bars == createAlertsChartBars(a)
             data == {b \in bars : b.data}
             fired == {t \in during : \E s \in firing["firing"] : s[2] = t /\ Alerts[s[1]].src = a.src}
             V == Points(FiredDuring(g, a.src))
             lo == 0 - Interval
             hi == now + Interval
  <2>1. now \in Nat /\ now \in Multiples /\ Interval \in Nat /\ lo \in Int /\ hi \in Int
    BY <1>1, IntervalAssumption DEF HInv
  <2>2. /\ V # {} /\ V \in Samples(0, now) /\ ArePoints(V, now)
        /\ \A v : v \in V <=> \E s \in FiredDuring(g, a.src) : v = <<s[2], 1>>
    <3>1. V # {}
      BY <1>1, ShownAlerts
    <3>2. /\ V \in Samples(0, now)
          /\ \A v \in V : v[1] \in Multiples /\ v[2] = 1
          /\ \A v : v \in V <=> \E s \in FiredDuring(g, a.src) : v = <<s[2], 1>>
      BY <1>1, PointsOf
    <3>3. \A v \in V : v[1] \in 0 .. now /\ v = <<v[1], v[2]>>
      BY <2>1, <3>2, TimesOf
    <3> QED
      BY <2>1, <3>1, <3>2, <3>3 DEF ArePoints
  <2>3. \A x \in alerts : x.values # {} /\ x.values \in Samples(lo, hi)
    <3> SUFFICES ASSUME NEW x \in alerts PROVE x.values # {} /\ x.values \in Samples(lo, hi)
      OBVIOUS
    <3> DEFINE W == Points(FiredDuring(g, x.src))
    <3>1. W # {} /\ x.values = insertPaddingPointsForChart(W, now) /\ W \in Samples(0, now)
      BY <1>1, ShownAlerts, PointsOf
    <3> HIDE DEF W
    <3> QED
      BY <2>1, <3>1, PaddingOf
  <2>4. a.values = insertPaddingPointsForChart(V, now)
    BY <1>1, ShownAlerts
  <2>5. \A t : t \in fired <=> \E s \in FiredDuring(g, a.src) : s[2] = t
    <3> SUFFICES ASSUME NEW t PROVE t \in fired <=> \E s \in FiredDuring(g, a.src) : s[2] = t
      OBVIOUS
    <3>1. ASSUME t \in fired PROVE \E s \in FiredDuring(g, a.src) : s[2] = t
      <4>1. PICK s \in firing["firing"] : s[2] = t /\ Alerts[s[1]].src = a.src
        BY <3>1
      <4>2. s[2] \in Int /\ \A u \in MappedIn(g) : u[2] \in Int
        BY <1>1, FiringType, SampleType DEF AlertStates
      <4> QED
        BY <1>1, <3>1, <4>1, <4>2 DEF FiredDuring
    <3>2. ASSUME NEW s \in FiredDuring(g, a.src), s[2] = t PROVE t \in fired
      <4>1. /\ s \in firing["firing"] /\ Alerts[s[1]].src = a.src
            /\ \E u \in MappedIn(g) : u[2] <= t
            /\ \E u \in MappedIn(g) : t <= u[2]
        BY <3>2 DEF FiredDuring
      <4>2. t \in 0 .. now /\ t \in Multiples /\ \A u \in MappedIn(g) : u[2] \in Int
        BY <1>1, <3>2, <4>1, FiringType, SampleType DEF AlertStates
      <4>3. MaxSteps * Interval \in Int
        BY <2>1, BoundsAssumption
      <4>4. t \in Grid
        BY <1>1, <2>1, <4>2, <4>3, OnGrid
      <4>5. t \in during
        BY <4>1, <4>2, <4>4
      <4> HIDE DEF during
      <4> QED
        BY <3>2, <4>1, <4>5
    <3> QED
      BY <3>1, <3>2
  <2>6. ASSUME NEW t \in Grid
        PROVE  (\E b \in data : In(t, b))
                 <=> t <= now /\ \E u \in fired : t \in u - Interval .. u + Interval
    <3>1. t \in Multiples /\ t \in Int
      BY <2>1 DEF Grid, Multiples
    <3>2. (\E b \in bars : b.data /\ In(t, b))
            <=> t <= now /\ \E v \in V : v[1] - Interval <= t /\ t <= v[1] + Interval
      <4> HIDE DEF V
      <4> QED
        BY <2>1, <2>2, <2>4, <3>1, AlertBarsCoverSteps
    <3>3. (\E v \in V : v[1] - Interval <= t /\ t <= v[1] + Interval)
            <=> \E u \in fired : t \in u - Interval .. u + Interval
      <4> HIDE DEF V, fired
      <4>1. \A v \in V : v[1] \in Int /\ v[1] \in fired
        <5>1. 0 \in Int /\ now \in Int /\ V \in Samples(0, now)
          BY <2>1, <2>2
        <5>2. \A v \in V : v[1] \in 0 .. now
          BY <5>1, TimesOf
        <5> QED
          BY <2>2, <2>5, <5>2
      <4>2. \A u \in fired : \E v \in V : v[1] = u
        <5> SUFFICES ASSUME NEW u \in fired PROVE \E v \in V : v[1] = u
          OBVIOUS
        <5>1. PICK s \in FiredDuring(g, a.src) : s[2] = u
          BY <2>5
        <5>2. <<s[2], 1>> \in V /\ <<s[2], 1>>[1] = u
          BY <2>2, <5>1
        <5> QED
          BY <5>2
      <4> QED
        BY <2>1, <3>1, <4>1, <4>2
    <3> QED
      BY <3>2, <3>3
  <2> HIDE DEF V, fired, during
  <2>7. a.values \in Samples(lo, hi) /\ a.values # {}
    BY <2>3
  <2>8. \A b, c \in bars : b # c => ~Overlap(b, c)
    <3>1. ArePoints(a.values, now)
      BY <2>1, <2>2, <2>4, PaddedPoints
    <3>2. Single(a.values)
      BY <3>1 DEF ArePoints, Single
    <3> QED
      BY <2>1, <2>7, <3>2, AlertBarsAreDisjoint
  <2>9. ASSUME NEW b \in data PROVE dates[1] <= b.from /\ b.to <= dates[2]
    <3>1. PICK v \in Starts(a.values) : b = DataBar(v, a)
      BY AlertBars DEF GapBar
    <3>2. v \in a.values /\ b.from = v[1] /\ b.to = StretchEnd(v, a.values)
      BY <3>1 DEF Starts, DataBar
    <3>3. StretchEnd(v, a.values) \in Int /\ StretchEnd(v, a.values) <= Latest(a.values)
      BY <2>1, <2>7, <3>2, StretchEnds
    <3>4. PICK l \in a.values : l[1] = Latest(a.values) /\ l[1] \in Int
      BY <2>1, <2>7, LatestOf, TimesOf
    <3>5. /\ dates[1] \in Int /\ dates[2] \in Int
          /\ \A x \in alerts : \A w \in x.values : dates[1] <= w[1] /\ w[1] <= dates[2]
      <4> HIDE DEF lo, hi, alerts
      <4>1. alerts # {}
        BY DEF alerts
      <4> QED
        BY <2>1, <2>3, <4>1, DatesCover
    <3> HIDE DEF dates, lo, hi
    <3>6. dates[1] <= v[1] /\ l[1] <= dates[2]
      BY <3>2, <3>4, <3>5
    <3> QED
      BY <3>2, <3>3, <3>4, <3>5, <3>6
  <2>10. \A b \in bars : b.firing <=> ~a.resolved /\ \A c \in bars : c.from <= b.from
    BY <2>1, <2>7, LastBarFires
  <2> HIDE DEF bars, dates
  <2> QED
    BY <2>6, <2>8, <2>9, <2>10 DEF bars, dates, fired, during
<1> QED
  BY <1>1, HistoryInvariant, StepsAreBounded, PTL

----------------------------------------------------------------------------
(* The rows of the table                                                   *)

(* The numbers of all rows together.                                       *)
Weight(r) == r.counts[0] + r.counts[1] + r.counts[2]
(* Their sum, over every set of rows.                                      *)
Weights(rows) ==
  CHOOSE f : f = [s \in SUBSET rows |->
    IF s = {} THEN 0 ELSE LET x == CHOOSE x \in s : TRUE IN Weight(x) + f[s \ {x}]]

(* Sets without a common element.                                          *)
LEMMA DisjointSets ==
  ASSUME NEW S, NEW T, IsFiniteSet(S), IsFiniteSet(T), S \cap T = {}
  PROVE  IsFiniteSet(S \cup T) /\ Cardinality(S \cup T) = Cardinality(S) + Cardinality(T)
<1>1. /\ IsFiniteSet(S \cup T)
      /\ Cardinality(S \cup T) = Cardinality(S) + Cardinality(T) - Cardinality(S \cap T)
  BY FS_Union
<1>2. Cardinality(S \cap T) = 0
  BY FS_EmptySet
<1>3. Cardinality(S) \in Nat /\ Cardinality(T) \in Nat
  BY FS_CardinalityType
<1> QED
  BY <1>1, <1>2, <1>3

(* The alerts of a row.                                                    *)
OfComponent(alerts, c) == {a \in alerts : a.component = c}

(* What is known of a row.                                                 *)
LEMMA RowOf ==
  ASSUME NEW alerts, IsFiniteSet(alerts), \A a \in alerts : a.severity \in 0 .. 2
  PROVE  LET rows == groupAlertsForTable(alerts)
         IN  /\ \A r \in rows : Weight(r) = Cardinality(OfComponent(alerts, r.component))
             /\ \A a \in alerts : \E r \in rows : r.component = a.component
             /\ \A r, q \in rows : r.component = q.component => r = q
             /\ IsFiniteSet(rows)
<1> DEFINE rows == groupAlertsForTable(alerts)
           OwnAlerts(c) == {a \in alerts : a.component = c}
           Count(c, severity) == Cardinality({a \in OwnAlerts(c) : a.severity = severity})
           state(c) == IF \A a \in OwnAlerts(c) : a.silenced THEN "silenced"
                       ELSE IF \E a \in OwnAlerts(c) : ~a.resolved THEN "firing"
                       ELSE "resolved"
           row(c) == [ component |-> c, counts |-> [s \in 0 .. 2 |-> Count(c, s)], alertstate |-> state(c) ]
<1>1. rows = {row(c) : c \in {a.component : a \in alerts}}
  BY DEF groupAlertsForTable
<1>2. \A c : /\ row(c).component = c
             /\ row(c).counts[0] = Count(c, 0) /\ row(c).counts[1] = Count(c, 1)
             /\ row(c).counts[2] = Count(c, 2)
  OBVIOUS
<1>3. ASSUME NEW c PROVE Count(c, 0) + Count(c, 1) + Count(c, 2) = Cardinality(OfComponent(alerts, c))
  <2> DEFINE S(s) == {a \in OwnAlerts(c) : a.severity = s}
             all == OfComponent(alerts, c)
             two == S(0) \cup S(1)
  <2>1. all = two \cup S(2)
    BY DEF OfComponent
  <2>2. S(0) \subseteq alerts /\ S(1) \subseteq alerts /\ S(2) \subseteq alerts
    OBVIOUS
  <2>3. S(0) \cap S(1) = {} /\ two \cap S(2) = {}
    OBVIOUS
  <2>4. Count(c, 0) = Cardinality(S(0)) /\ Count(c, 1) = Cardinality(S(1)) /\ Count(c, 2) = Cardinality(S(2))
    OBVIOUS
  <2> HIDE DEF S, all, Count
  <2>5. IsFiniteSet(S(0)) /\ IsFiniteSet(S(1)) /\ IsFiniteSet(S(2))
    BY <2>2, FS_Subset
  <2>7. /\ Cardinality(S(0)) \in Nat /\ Cardinality(S(1)) \in Nat /\ Cardinality(S(2)) \in Nat
    BY <2>5, FS_CardinalityType
  <2>8. IsFiniteSet(two) /\ Cardinality(two) = Cardinality(S(0)) + Cardinality(S(1))
    BY <2>3, <2>5, DisjointSets
  <2> HIDE DEF two
  <2>9. Cardinality(two \cup S(2)) = Cardinality(two) + Cardinality(S(2))
    BY <2>3, <2>5, <2>8, DisjointSets
  <2>10. Cardinality(all) = Count(c, 0) + Count(c, 1) + Count(c, 2)
    BY <2>1, <2>4, <2>7, <2>8, <2>9
  <2> QED
    BY <2>10 DEF all
<1> HIDE DEF rows, Count, row
<1>4. \A r \in rows : Weight(r) = Cardinality(OfComponent(alerts, r.component))
  BY <1>1, <1>2, <1>3 DEF Weight
<1>5. \A a \in alerts : \E r \in rows : r.component = a.component
  BY <1>1, <1>2
<1>6. \A r, q \in rows : r.component = q.component => r = q
  BY <1>1, <1>2
<1>7. IsFiniteSet(rows)
  <2> DEFINE f == [a \in alerts |-> row(a.component)]
  <2>1. f \in Surjection(alerts, rows)
    BY <1>1 DEF Surjection
  <2> QED
    BY <2>1, FS_Surjection
<1> QED
  BY <1>4, <1>5, <1>6, <1>7 DEF rows

(* The rows count each alert once.                                         *)
LEMMA RowsCountAlerts ==
  ASSUME NEW alerts, IsFiniteSet(alerts), \A a \in alerts : a.severity \in 0 .. 2
  PROVE  LET rows == groupAlertsForTable(alerts)
         IN  Weights(rows)[rows] = Cardinality(alerts)
<1> DEFINE rows == groupAlertsForTable(alerts)
           Listed(T) == {a \in alerts : \E r \in T : r.component = a.component}
           pick(s) == CHOOSE x \in s : TRUE
           R(f) == f = [s \in SUBSET rows |->
                         IF s = {} THEN 0 ELSE Weight(pick(s)) + f[s \ {pick(s)}]]
           F == [s \in SUBSET rows |-> Cardinality(Listed(s))]
           f == Weights(rows)
<1>1. /\ \A r \in rows : Weight(r) = Cardinality(OfComponent(alerts, r.component))
      /\ \A a \in alerts : \E r \in rows : r.component = a.component
      /\ \A r, q \in rows : r.component = q.component => r = q
      /\ IsFiniteSet(rows)
  BY RowOf
<1>2. f = CHOOSE g : R(g)
  BY DEF Weights
<1> HIDE DEF rows, f
<1>3. \A s : s # {} => pick(s) \in s
  OBVIOUS
<1> HIDE DEF pick
<1>4. \A s : IsFiniteSet(Listed(s)) /\ Cardinality(Listed(s)) \in Nat
  <2> SUFFICES ASSUME NEW s PROVE IsFiniteSet(Listed(s)) /\ Cardinality(Listed(s)) \in Nat
    OBVIOUS
  <2>1. Listed(s) \in SUBSET alerts
    OBVIOUS
  <2> QED
    BY <2>1, FS_Subset, FS_CardinalityType
<1>5. ASSUME NEW s \in SUBSET rows, s # {}
      PROVE  Cardinality(Listed(s)) = Weight(pick(s)) + Cardinality(Listed(s \ {pick(s)}))
  <2> DEFINE x == pick(s)
             own == OfComponent(alerts, x.component)
             rest == Listed(s \ {x})
  <2>1. x \in s /\ x \in rows
    BY <1>3, <1>5
  <2>2. Listed(s) = own \cup rest
    BY <2>1 DEF OfComponent
  <2>3. own \cap rest = {}
    BY <1>1, <2>1 DEF OfComponent
  <2>4. IsFiniteSet(rest) /\ Cardinality(rest) \in Nat
    BY <1>4
  <2>5. own \in SUBSET alerts
    BY DEF OfComponent
  <2>6. Weight(x) = Cardinality(own)
    BY <1>1, <2>1
  <2> HIDE DEF own, rest, x
  <2>7. IsFiniteSet(own) /\ Cardinality(own) \in Nat
    BY <2>5, FS_Subset, FS_CardinalityType
  <2>9. Cardinality(own \cup rest) = Cardinality(own) + Cardinality(rest)
    BY <2>3, <2>4, <2>7, DisjointSets
  <2>10. Cardinality(Listed(s)) = Weight(x) + Cardinality(rest)
    BY <2>2, <2>6, <2>9
  <2> QED
    BY <2>10 DEF rest, x
<1>6. Listed({}) = {} /\ Cardinality(Listed({})) = 0
  BY FS_EmptySet
<1> HIDE DEF Listed
<1>7. R(F)
  <2> SUFFICES ASSUME NEW s \in SUBSET rows
               PROVE  F[s] = IF s = {} THEN 0 ELSE Weight(pick(s)) + F[s \ {pick(s)}]
    OBVIOUS
  <2>1. s \ {pick(s)} \in SUBSET rows
    OBVIOUS
  <2> QED
    BY <1>5, <1>6, <2>1
<1>8. R(f)
  BY <1>2, <1>7
<1>9. \A s \in SUBSET rows : IsFiniteSet(s) /\ Cardinality(s) \in Nat
  BY <1>1, FS_Subset, FS_CardinalityType
<1> DEFINE Good == {n \in Nat : \A s \in SUBSET rows : Cardinality(s) = n => f[s] = F[s]}
<1>10. 0 \in Good
  <2> SUFFICES ASSUME NEW s \in SUBSET rows, Cardinality(s) = 0 PROVE f[s] = F[s]
    OBVIOUS
  <2>1. s = {}
    BY <1>9, FS_EmptySet
  <2> QED
    BY <1>7, <1>8, <2>1
<1>11. ASSUME NEW n \in Nat, n \in Good PROVE n + 1 \in Good
  <2> SUFFICES ASSUME NEW s \in SUBSET rows, Cardinality(s) = n + 1 PROVE f[s] = F[s]
    <3> HIDE DEF F
    <3> QED
      OBVIOUS
  <2> DEFINE x == pick(s)
             t == s \ {x}
  <2>1. s # {}
    BY FS_EmptySet
  <2>2. x \in s /\ t \in SUBSET rows
    BY <1>3, <2>1
  <2>3. Cardinality(t) = n
    <3>1. IsFiniteSet(s)
      BY <1>9
    <3>2. Cardinality(s \ {x}) = Cardinality(s) - 1
      BY <2>2, <3>1, FS_RemoveElement
    <3> QED
      BY <3>2
  <2>4. f[t] = F[t]
    BY <1>11, <2>2, <2>3
  <2>5. f[s] = Weight(x) + f[t] /\ F[s] = Weight(x) + F[t]
    BY <1>7, <1>8, <2>1
  <2> QED
    BY <2>4, <2>5
<1>12. Cardinality(rows) \in Good
  <2>1. Cardinality(rows) \in Nat
    BY <1>9
  <2> HIDE DEF Good
  <2> QED
    BY <1>10, <1>11, <2>1, Counting
<1>13. f[rows] = Cardinality(Listed(rows))
  BY <1>12
<1>14. Listed(rows) = alerts
  BY <1>1 DEF Listed
<1> QED
  BY <1>13, <1>14 DEF rows, f

(* Only an alert that fires is mapped (Step).                              *)
MappedFires == \A b \in BOOLEAN : mapped[b] \subseteq firing["firing"]

(* The samples of the map are among those of the alerts (Step).            *)
LEMMA MappedAlwaysFires == Spec => []MappedFires
<1>1. Init => MappedFires
  BY DEF Init, MappedFires
<1>2. ASSUME HInv, MappedFires, [Next]_vars PROVE MappedFires'
  <2>1. CASE UNCHANGED vars
    BY <1>2, <2>1 DEF vars, MappedFires
  <2>2. CASE Step
    <3>1. PICK alerts \in SUBSET Real, how \in {"pending", "missed", "mapped", "silenced"} :
            LET watchdogs == DOMAIN Alerts \ Real
                At(set) == {<<a, now'>> : a \in set}
                fires == watchdogs \cup (IF how = "pending" THEN {} ELSE alerts)
                maps == IF how \in {"mapped", "silenced"} THEN alerts \cup watchdogs ELSE {}
            IN  /\ firing' = [firing EXCEPT !["firing"] = @ \cup At(fires),
                                            !["pending"] = @ \cup At(alerts \ fires)]
                /\ mapped' = [mapped EXCEPT ![how = "silenced"] = @ \cup At(maps)]
      BY <2>2 DEF Step
    <3> DEFINE At(set) == {<<a, now'>> : a \in set}
               watchdogs == DOMAIN Alerts \ Real
               fires == watchdogs \cup (IF how = "pending" THEN {} ELSE alerts)
               maps == IF how \in {"mapped", "silenced"} THEN alerts \cup watchdogs ELSE {}
               pend == alerts \ fires
    <3>2. /\ firing' = [firing EXCEPT !["firing"] = @ \cup At(fires), !["pending"] = @ \cup At(pend)]
          /\ mapped' = [mapped EXCEPT ![how = "silenced"] = @ \cup At(maps)]
      BY <3>1
    <3>3. maps \subseteq fires
      OBVIOUS
    <3> HIDE DEF fires, maps, pend
    <3>4. At(maps) \subseteq At(fires)
      BY <3>3
    <3> HIDE DEF At
    <3>5. firing \in [AlertStates -> Recorded] /\ mapped \in [BOOLEAN -> Recorded]
      BY <1>2 DEF HInv
    <3>6. firing'["firing"] = firing["firing"] \cup At(fires)
      BY <3>2, <3>5 DEF AlertStates
    <3>7. \A b \in BOOLEAN : mapped'[b] \subseteq mapped[b] \cup At(maps)
      BY <3>2, <3>5
    <3> QED
      BY <1>2, <3>4, <3>6, <3>7 DEF MappedFires
  <2> QED
    BY <1>2, <2>1, <2>2 DEF Next
<1> QED
  BY <1>1, <1>2, HistoryInvariant, PTL DEF Spec

(* There are finitely many alerts in the table.                            *)
LEMMA ShownIsFinite ==
  ASSUME HInv, NEW g
  PROVE  IsFiniteSet(AlertsShown(g))
<1>1. IsFiniteSet(SrcSet)
  <2> DEFINE N == Len(Alerts)
             f == [n \in 1 .. N |-> Alerts[n].src]
  <2>1. DOMAIN Alerts = 1 .. N /\ N \in Int
    BY AlertsAssumption
  <2> HIDE DEF N
  <2>2. f \in Surjection(1 .. N, SrcSet)
    BY <2>1 DEF Surjection, SrcSet
  <2>3. IsFiniteSet(1 .. N)
    BY <2>1, FS_Interval
  <2> QED
    BY <2>2, <2>3, FS_Surjection
<1> DEFINE A == AlertsShown(g)
           h == [a \in A |-> a.src]
<1>2. /\ \A a \in A : a.src \in NamesOf(g)
      /\ \A a, b \in A : a.src = b.src => a = b
  BY ShownAlerts
<1> HIDE DEF A
<1>3. NamesOf(g) \subseteq SrcSet
  BY SampleType DEF NamesOf, SrcSet
<1>4. h \in Injection(A, SrcSet)
  BY <1>2, <1>3 DEF Injection, IsInjective
<1>5. IsFiniteSet(A)
  BY <1>1, <1>4, FS_Injection
<1> QED
  BY <1>5 DEF A

(* The latest of an incident's history is the latest time it was mapped.   *)
LEMMA LatestMapped ==
  ASSUME HInv, NEW g, MappedIn(g) # {}
  PROVE  /\ \E s \in MappedIn(g) : s[2] = Latest(HistoryOf(g))
         /\ \A s \in MappedIn(g) : s[2] <= Latest(HistoryOf(g))
         /\ Latest(HistoryOf(g)) \in Int
<1> DEFINE V == HistoryOf(g)
<1>1. V \in Samples(0, now) /\ V # {} /\ 0 \in Int /\ now \in Int
  BY HistoryType DEF HInv
<1>2. \A v : v \in V <=> \E s \in MappedIn(g) : v = <<s[2], Highest(g, s[2])>>
  BY DEF HistoryOf
<1> HIDE DEF V
<1>3. /\ \E v \in V : v[1] = Latest(V)
      /\ \A v \in V : v[1] <= Latest(V)
      /\ Latest(V) \in 0 .. now
  BY <1>1, LatestOf
<1>4. \E s \in MappedIn(g) : s[2] = Latest(V)
  BY <1>2, <1>3
<1>5. \A s \in MappedIn(g) : s[2] <= Latest(V)
  <2> SUFFICES ASSUME NEW s \in MappedIn(g) PROVE s[2] <= Latest(V)
    OBVIOUS
  <2> DEFINE v == <<s[2], Highest(g, s[2])>>
  <2>1. v \in V /\ v[1] = s[2]
    BY <1>2
  <2> QED
    BY <1>3, <2>1
<1> QED
  BY <1>3, <1>4, <1>5 DEF V

(* An incident fires exactly if one of its alerts does.                    *)
LEMMA FiresWithAlerts ==
  ASSUME HInv, MappedFires, NEW i \in IncidentsShown
  PROVE  i.firing <=> \E a \in AlertsShown(i.group_id) : ~a.resolved
<1> DEFINE g == i.group_id
           last == Latest(HistoryOf(g))
<1>1. /\ i.firing <=> ~isResolved(last, now)
      /\ \E s \in MappedIn(g) : Alerts[s[1]].src # Watchdog
  BY ShownIncident
<1>2. /\ \E s \in MappedIn(g) : s[2] = last
      /\ \A s \in MappedIn(g) : s[2] <= last
      /\ last \in Int
  BY <1>1, LatestMapped
<1>3. now \in Int /\ Interval \in Int
  BY IntervalAssumption DEF HInv
<1>4. \A s \in MappedIn(g) : s[1] \in DOMAIN Alerts /\ Alerts[s[1]].group = g /\ s[2] \in Int
  BY SampleType, MappedType
<1>5. \A src : LET V == Points(FiredDuring(g, src))
               IN  V # {} => /\ \E s \in FiredDuring(g, src) : s[2] = Latest(V)
                             /\ \A s \in FiredDuring(g, src) : s[2] <= Latest(V)
                             /\ Latest(V) \in Int
  <2> SUFFICES ASSUME NEW src, Points(FiredDuring(g, src)) # {}
               PROVE  /\ \E s \in FiredDuring(g, src) : s[2] = Latest(Points(FiredDuring(g, src)))
                      /\ \A s \in FiredDuring(g, src) : s[2] <= Latest(Points(FiredDuring(g, src)))
                      /\ Latest(Points(FiredDuring(g, src))) \in Int
    OBVIOUS
  <2> DEFINE V == Points(FiredDuring(g, src))
  <2>1. /\ V \in Samples(0, now) /\ V # {} /\ 0 \in Int
        /\ \A v : v \in V <=> \E s \in FiredDuring(g, src) : v = <<s[2], 1>>
    BY PointsOf
  <2> HIDE DEF V
  <2>2. /\ \E v \in V : v[1] = Latest(V)
        /\ \A v \in V : v[1] <= Latest(V)
        /\ Latest(V) \in 0 .. now
    BY <1>3, <2>1, LatestOf
  <2>3. \A s \in FiredDuring(g, src) : <<s[2], 1>> \in V /\ <<s[2], 1>>[1] = s[2]
    BY <2>1
  <2>4. \A s \in FiredDuring(g, src) : s[2] <= Latest(V)
    BY <2>2, <2>3
  <2> QED
    BY <2>1, <2>2, <2>4 DEF V
<1>6. ASSUME i.firing PROVE \E a \in AlertsShown(g) : ~a.resolved
  <2>1. PICK s \in MappedIn(g) : s[2] = last
    BY <1>2
  <2> DEFINE src == Alerts[s[1]].src
  <2>2. src # Watchdog
    BY <1>1, <1>4, WatchdogAssumption
  <2>3. s \in firing["firing"]
    BY MappedType DEF MappedFires
  <2>4. s \in FiredDuring(g, src)
    BY <1>4, <2>3 DEF FiredDuring
  <2>5. src \in NamesOf(g) \ {Watchdog}
    BY <2>2 DEF NamesOf
  <2>6. PICK a \in AlertsShown(g) : a.src = src
    BY <2>4, <2>5, ShownAlerts
  <2> DEFINE V == Points(FiredDuring(g, src))
  <2>7. V # {} /\ a.resolved = isResolved(Latest(V), now)
    BY <2>6, ShownAlerts
  <2>8. s[2] <= Latest(V) /\ Latest(V) \in Int
    BY <1>5, <2>4, <2>7
  <2> HIDE DEF V
  <2>9. ~isResolved(Latest(V), now)
    BY <1>1, <1>2, <1>3, <1>6, <2>1, <2>8 DEF isResolved
  <2> QED
    BY <2>6, <2>7, <2>9
<1>7. ASSUME NEW a \in AlertsShown(g), ~a.resolved PROVE i.firing
  <2> DEFINE V == Points(FiredDuring(g, a.src))
  <2>1. V # {} /\ a.resolved = isResolved(Latest(V), now)
    BY ShownAlerts
  <2>2. PICK s \in FiredDuring(g, a.src) : s[2] = Latest(V)
    BY <1>5, <2>1
  <2>3. PICK u \in MappedIn(g) : s[2] <= u[2]
    BY DEF FiredDuring
  <2>4. Latest(V) \in Int
    BY <1>5, <2>1
  <2> HIDE DEF V
  <2>5. Latest(V) <= last
    BY <1>2, <1>4, <2>2, <2>3, <2>4
  <2>6. ~isResolved(Latest(V), now)
    BY <1>7, <2>1
  <2> DEFINE v == Latest(V)
  <2>7. v \in Int /\ v <= last /\ last \in Int /\ ~(now - v >= 2 * Interval)
    BY <1>2, <2>4, <2>5, <2>6 DEF isResolved
  <2> HIDE DEF v
  <2>8. ~(now - last >= 2 * Interval)
    BY <1>3, <2>7
  <2>9. ~isResolved(last, now)
    BY <2>8 DEF isResolved
  <2> QED
    BY <1>1, <2>9
<1> QED
  BY <1>6, <1>7

(* No row of resolved alerts is firing.                                    *)
LEMMA ResolvedRows ==
  ASSUME NEW alerts, \A a \in alerts : a.resolved, NEW r \in groupAlertsForTable(alerts)
  PROVE  r.alertstate # "firing"
<1> DEFINE rows == groupAlertsForTable(alerts)
           OwnAlerts(c) == {a \in alerts : a.component = c}
           Count(c, severity) == Cardinality({a \in OwnAlerts(c) : a.severity = severity})
           state(c) == IF \A a \in OwnAlerts(c) : a.silenced THEN "silenced"
                       ELSE IF \E a \in OwnAlerts(c) : ~a.resolved THEN "firing"
                       ELSE "resolved"
           row(c) == [ component |-> c, counts |-> [s \in 0 .. 2 |-> Count(c, s)], alertstate |-> state(c) ]
<1>1. rows = {row(c) : c \in {a.component : a \in alerts}}
  BY DEF groupAlertsForTable
<1>2. \A c : row(c).alertstate = state(c)
  OBVIOUS
<1>3. \A c : state(c) # "firing"
  OBVIOUS
<1> HIDE DEF rows, row, state
<1>4. \A x \in rows : x.alertstate # "firing"
  BY <1>1, <1>2, <1>3
<1> QED
  BY <1>4 DEF rows

(* In every reachable record, an incident fires exactly if one of the      *)
(* alerts listed for it does, no row of a resolved incident is firing, and *)
(* the rows count every alert once (convertToIncidents, convertToAlerts,   *)
(* groupAlertsForTable).                                                   *)
THEOREM IncidentsFireWithAlerts == Spec => []IncidentFiresWithItsAlerts
<1>1. ASSUME HInv, MappedFires PROVE IncidentFiresWithItsAlerts
  <2> SUFFICES ASSUME NEW i \in IncidentsShown
               PROVE  LET alerts == AlertsShown(i.group_id)
                          rows == groupAlertsForTable(alerts)
                      IN  /\ i.firing <=> \E a \in alerts : ~a.resolved
                          /\ ~i.firing => \A r \in rows : r.alertstate # "firing"
                          /\ MapThenSumSet(LAMBDA r : r.counts[0] + r.counts[1] + r.counts[2], rows)
                               = Cardinality(alerts)
    BY DEF IncidentFiresWithItsAlerts
  <2> DEFINE alerts == AlertsShown(i.group_id)
             rows == groupAlertsForTable(alerts)
  <2>1. i.firing <=> \E a \in alerts : ~a.resolved
    BY <1>1, FiresWithAlerts
  <2>2. IsFiniteSet(alerts) /\ \A a \in alerts : a.severity \in 0 .. 2
    BY <1>1, ShownIsFinite, ShownAlerts
  <2> HIDE DEF alerts
  <2>3. ~i.firing => \A r \in rows : r.alertstate # "firing"
    BY <2>1, ResolvedRows
  <2>4. Weights(rows)[rows] = Cardinality(alerts)
    BY <2>2, RowsCountAlerts
  <2> HIDE DEF rows
  <2>5. MapThenSumSet(LAMBDA r : r.counts[0] + r.counts[1] + r.counts[2], rows) = Weights(rows)[rows]
    BY DEF MapThenSumSet, MapThenFoldSet, Weights, Weight
  <2>6. MapThenSumSet(LAMBDA r : r.counts[0] + r.counts[1] + r.counts[2], rows) = Cardinality(alerts)
    BY <2>4, <2>5 DEF MapThenSumSet, MapThenFoldSet
  <2> QED
    BY <2>1, <2>3, <2>6 DEF rows, alerts, MapThenSumSet, MapThenFoldSet
<1> QED
  BY <1>1, HistoryInvariant, MappedAlwaysFires, PTL
=============================================================================
