------------------------ MODULE LegacyDashboardsProofs ------------------------
(***************************************************************************)
(* Proofs about LegacyDashboards.  The variables of every dashboard keep   *)
(* their types through renders, answers and edits; the requests in flight  *)
(* are those of the dashboard that is shown; and the options a dropdown    *)
(* shows at rest are those the servers have for its query, or they are     *)
(* being asked for.  Under two assumptions on the dashboards every         *)
(* dropdown is done when nothing is asked any more: one of its options is  *)
(* selected, and the URL says which.                                       *)
(***************************************************************************)
EXTENDS LegacyDashboards, WellFoundedInduction, TLAPS

(* A variable that loads has a query.                                      *)
VariableOK(v) == v \in Variable /\ (v.isLoading => v.hasQuery)

(* The variables of a dashboard b: all those it declares, or such as have  *)
(* no query.                                                               *)
Whole(vs, b) ==
  DOMAIN vs = Variables[b] /\ \A n \in DOMAIN vs : vs[n].hasQuery <=> Template[n].type = "query"
VariablesOK(vs, b) ==
  /\ DOMAIN vs \subseteq Variables[b]
  /\ \A n \in DOMAIN vs : VariableOK(vs[n]) /\ (vs[n].hasQuery => Whole(vs, b))

(* The inductive invariant for the types: the store has every dashboard,   *)
(* and what is asked is a variable of its dashboard.                       *)
LInv ==
  /\ url \in Url
  /\ items \in {"loading", "loaded", "failed"}
  /\ DOMAIN legacy = Board /\ legacy = [b \in Board |-> legacy[b]]
  /\ \A b \in Board : VariablesOK(legacy[b], b)
  /\ requests \subseteq Request /\ \A q \in requests : q.name \in Variables[q.board]
  /\ events \in 0 .. MaxEvents
  /\ failures \in 0 .. MaxFailures

----------------------------------------------------------------------------
(* Values                                                                  *)

(* Every set of numbers that is not empty has a smallest one.              *)
LEMMA LeastMember ==
  ASSUME NEW S, S \subseteq Nat, S # {}
  PROVE  \E x \in S : \A y \in S : x <= y
<1>1. \E x \in S : \A y \in S : ~ (<<y, x>> \in OpToRel(<, Nat))
  BY NatLessThanWellFounded, WFMin
<1>2. PICK x \in S : \A y \in S : ~ (<<y, x>> \in OpToRel(<, Nat))
  BY <1>1
<1>3. \A y \in S : x <= y
  <2> SUFFICES ASSUME NEW y \in S PROVE x <= y
    OBVIOUS
  <2>1. x \in Nat /\ y \in Nat
    BY <1>2
  <2>2. ~(y < x)
    BY <1>2, <2>1 DEF OpToRel
  <2> QED
    BY <2>1, <2>2
<1> QED
  BY <1>2, <1>3

LEMMA SmallestIsMember ==
  ASSUME NEW S, S \subseteq Nat
  PROVE  /\ S = {} => Smallest(S) = NoValue
         /\ S # {} => Smallest(S) \in S
BY LeastMember DEF Smallest

LEMMA SmallestIsValue ==
  ASSUME NEW S \in SUBSET Values
  PROVE  Smallest(S) \in Value
BY SmallestIsMember, ValuesAssumption DEF Value

LEMMA LoadedIsVariable ==
  ASSUME NEW v \in Variable, NEW S \in SUBSET Values
  PROVE  LET w == VariableOptionsLoaded(v, S)
         IN  VariableOK(w) /\ ~w.isLoading /\ w.hasQuery = v.hasQuery /\ w.options = S
BY SmallestIsValue DEF VariableOptionsLoaded, Variable, VariableOK

(* What is made without a query is a variable, too.                        *)
LEMMA WithOptionsLoadedOK ==
  ASSUME NEW b \in Board, NEW vs, VariablesOK(vs, b), NEW names \in SUBSET Variables[b],
         NEW S \in SUBSET Values
  PROVE  VariablesOK(WithOptionsLoaded(vs, names, S), b)
<1> DEFINE ws == WithOptionsLoaded(vs, names, S)
           old(n) == IF n \in DOMAIN vs THEN vs[n] ELSE Made
<1>1. Made \in Variable /\ ~Made.hasQuery
  BY DEF Made, Variable, Value
<1>2. DOMAIN ws = DOMAIN vs \cup names
  BY DEF WithOptionsLoaded
<1>3. \A n \in DOMAIN ws : ws[n] = IF n \in names THEN VariableOptionsLoaded(old(n), S) ELSE vs[n]
  BY DEF WithOptionsLoaded
<1>4. \A n \in DOMAIN ws : old(n) \in Variable
  BY <1>1 DEF VariablesOK, VariableOK
<1> HIDE DEF ws
<1>5. \A n \in DOMAIN ws : VariableOK(ws[n]) /\ ws[n].hasQuery = old(n).hasQuery
  <2> TAKE n \in DOMAIN ws
  <2>1. CASE n \in names
    <3> HIDE DEF old
    <3> QED
      BY <1>3, <1>4, <2>1, LoadedIsVariable
  <2>2. CASE n \notin names
    BY <1>2, <1>3, <2>2 DEF VariablesOK
  <2> QED
    BY <2>1, <2>2
<1>6. ASSUME NEW n \in DOMAIN ws, ws[n].hasQuery PROVE Whole(ws, b)
  <2>1. Whole(vs, b)
    BY <1>1, <1>5, <1>6 DEF VariablesOK
  <2>2. DOMAIN ws = DOMAIN vs
    BY <1>2, <2>1 DEF Whole
  <2> QED
    BY <1>5, <2>1, <2>2 DEF Whole
<1>7. DOMAIN ws \subseteq Variables[b]
  BY <1>2 DEF VariablesOK
<1> QED
  BY <1>5, <1>6, <1>7 DEF VariablesOK, ws

LEMMA FreshVariables ==
  ASSUME NEW params \in [Names -> Value], NEW boards, NEW b \in Board,
         NEW project \in Projects \cup {NoValue}
  PROVE  VariablesOK(getAllVariables(params, boards, project, b), b)
<1> DEFINE vs == getAllVariables(params, boards, project, b)
<1>1. Variables[b] \subseteq Names
  BY BoardsAssumption
<1>2. DOMAIN vs \in {{}, Variables[b]}
  BY DEF getAllVariables
<1>3. ASSUME NEW n \in DOMAIN vs 
      PROVE  VariableOK(vs[n]) /\ (vs[n].hasQuery <=> Template[n].type = "query")
  <2> DEFINE t == Template[n]
             default == IF t.selected = NoValue /\ t.includeAll THEN All ELSE t.selected
             value == IF params[n] # NoValue THEN params[n] ELSE default
             shown == IF Fixed(n, project) THEN project
                      ELSE IF value # NoValue THEN value ELSE Smallest(t.options)
  <2>1. n \in Names
    BY <1>1, <1>2, <1>3
  <2>2. t.options \in SUBSET Values /\ t.selected \in Values \cup {NoValue}
    BY <2>1, TemplateAssumption
  <2>3. value \in Value
    BY <2>1, <2>2 DEF Value
  <2>4. Smallest(t.options) \in Value
    BY <2>2, SmallestIsValue
  <2>5. Fixed(n, project) => project \in Value
    BY DEF Fixed, Value
  <2> HIDE DEF value
  <2>6. shown \in Value
    BY <2>3, <2>4, <2>5
  <2> DEFINE asks == t.type = "query"
             loads == n # "namespace" /\ asks
  <2>7. vs[n] = [hasQuery |-> asks, options |-> t.options, isLoading |-> loads, value |-> shown]
    BY <1>3 DEF getAllVariables, value
  <2>8. asks \in BOOLEAN /\ loads \in BOOLEAN /\ (loads => asks) /\ (asks <=> Template[n].type = "query")
    OBVIOUS
  <2> HIDE DEF shown, asks, loads
  <2> QED
    BY <2>2, <2>6, <2>7, <2>8 DEF Variable, VariableOK
<1> HIDE DEF vs
<1>4. VariablesOK(vs, b)
  BY <1>2, <1>3 DEF VariablesOK, Whole
<1> QED
  BY <1>4 DEF vs

LEMMA QueryType ==
  ASSUME NEW b \in Board, NEW vs, VariablesOK(vs, b), NEW n,
         NEW project \in Projects \cup {NoValue}
  PROVE  /\ evaluateVariableTemplate(n, vs, project) \in Asked \cup {Undefined}
         /\ evaluateVariableTemplate(n, vs, project) # Undefined => vs[n].hasQuery
BY DEF evaluateVariableTemplate, VariablesOK, VariableOK, Variable, Asked, Value

(* The dashboard to show instead of another is one of the cluster.         *)
LEMMA ReplacementType ==
  ASSUME NEW r, r.url \in Url
  PROVE  Replacement(r) \in Board \cup {NoBoard, "gone"}
<1> DEFINE boards == legacyDashboards(r.items, r.url.project)
<1>1. boards \subseteq DOMAIN Boards /\ DOMAIN Boards \subseteq Nat
  BY BoardsAssumption DEF legacyDashboards
<1>2. boards # {} => Boards[Smallest(boards)] \in Board
  BY <1>1, SmallestIsMember DEF Board
<1> HIDE DEF boards
<1>3. r.url.board \in Board \cup {NoBoard, "gone"}
  BY DEF Url
<1> QED
  BY <1>2, <1>3 DEF Replacement, boards

LEMMA UrlType ==
  ASSUME NEW b \in Board \cup {NoBoard, "gone"}, NEW project \in Projects \cup {NoValue}
  PROVE  UrlOf(b, project) \in Url
<1>1. [n \in Names |-> NoValue] \in [Names -> Value]
  BY DEF Value
<1>2. Nothing.url \in Url
  BY <1>1 DEF Nothing, Url
<1> QED
  BY <1>2 DEF UrlOf, Url

----------------------------------------------------------------------------
(* The types of one step                                                   *)

LEMMA InitTypes == Init => LInv
BY UrlsAssumption, BoundsAssumption DEF Init, LInv, VariablesOK

(* What is rendered has the types of the state.                            *)
LEMMA RenderedType ==
  ASSUME LInv
  PROVE  /\ Rendered.url = url /\ Rendered.items = items
         /\ Rendered.variables = VariablesOf(url.board)
         /\ DOMAIN Rendered.variables \subseteq Names
         /\ DOMAIN Rendered.variables # {} =>
              url.board \in Board /\ VariablesOK(Rendered.variables, url.board)
         /\ \A n \in DOMAIN Rendered.variables : VariableOK(Rendered.variables[n])
         /\ \A n \in DOMAIN Rendered.variables : Rendered.variables[n] \in Variable
BY BoardsAssumption DEF LInv, Rendered, VariablesOf, VariablesOK, VariableOK

LEMMA AskedType ==
  ASSUME LInv, NEW n \in Asking(Rendered)
  PROVE  /\ [board |-> Rendered.url.board, name |-> n, query |-> QueryOf(n, Rendered)] \in Request
         /\ n \in Variables[Rendered.url.board] /\ Rendered.variables[n].hasQuery
<1>1. n \in DOMAIN Rendered.variables /\ QueryOf(n, Rendered) # Undefined
  BY DEF Asking, Mounted
<1>2. url.board \in Board /\ url.project \in Projects \cup {NoValue} /\ n \in Names
  BY <1>1, RenderedType DEF LInv, Url
<1>3. VariablesOK(VariablesOf(url.board), url.board)
  BY <1>2 DEF LInv, VariablesOf
<1>4. QueryOf(n, Rendered) \in Asked /\ Rendered.variables[n].hasQuery
  BY <1>1, <1>2, <1>3, QueryType, RenderedType DEF QueryOf
<1> QED
  BY <1>1, <1>2, <1>3, <1>4, RenderedType DEF Request, VariablesOK

LEMMA AbortsType ==
  ASSUME LInv, NEW b \in Board, NEW vs, VariablesOK(vs, b), NEW r
  PROVE  VariablesOK(AfterAborts(vs, b, r), b)
<1> DEFINE names == {q.name : q \in {q \in Aborted(r) : q.board = b}}
<1>1. names \in SUBSET Variables[b]
  BY DEF Aborted, LInv
<1> QED
  BY <1>1, WithOptionsLoadedOK DEF AfterAborts

LEMMA DropdownsType ==
  ASSUME LInv, NEW b \in Board
  PROVE  VariablesOK(AfterDropdowns(b, Rendered), b)
<1> DEFINE vs == legacy[b]
           ws == AfterDropdowns(b, Rendered)
<1>1. VariablesOK(vs, b)
  BY DEF LInv
<1>2. DOMAIN ws = DOMAIN vs
  BY DEF AfterDropdowns
<1>3. ASSUME NEW n \in DOMAIN vs PROVE VariableOK(ws[n]) /\ ws[n].hasQuery = vs[n].hasQuery
  <2>1. VariableOK(vs[n])
    BY <1>1, <1>3 DEF VariablesOK
  <2>2. n \in Names
    BY <1>1, <1>3, BoardsAssumption DEF VariablesOK
  <2>3. url.params[n] \in Value
    BY <2>2 DEF LInv, Url
  <2> HIDE DEF vs
  <2>4. CASE b # Rendered.url.board
    BY <1>3, <2>1, <2>4 DEF AfterDropdowns, vs
  <2>5. CASE b = Rendered.url.board
    <3>1. PICK l \in BOOLEAN, v \in Value \cup {vs[n].value} :
            /\ l => vs[n].hasQuery
            /\ ws[n] = [vs[n] EXCEPT !.isLoading = l, !.value = v]
      <4> DEFINE l0 == vs[n].isLoading \/ n \in Asking(Rendered)
                 v0 == IF n \in FromUrl(Rendered) THEN Rendered.url.params[n] ELSE vs[n].value
      <4>1. ws[n] = [vs[n] EXCEPT !.isLoading = l0, !.value = v0]
        BY <1>3, <2>5 DEF AfterDropdowns, vs
      <4>2. l0 \in BOOLEAN /\ (l0 => vs[n].hasQuery)
        <5>1. Rendered.variables = vs
          BY <2>5, RenderedType DEF VariablesOf, vs
        <5>2. n \in Asking(Rendered) => vs[n].hasQuery
          BY <5>1, AskedType
        <5> QED
          BY <2>1, <5>2 DEF Variable, VariableOK
      <4>3. v0 \in Value \cup {vs[n].value}
        BY <2>3, RenderedType
      <4> QED
        BY <4>1, <4>2, <4>3
    <3> QED
      BY <2>1, <3>1 DEF Variable, VariableOK
  <2> QED
    BY <2>4, <2>5
<1> HIDE DEF vs, ws
<1>4. VariablesOK(ws, b)
  BY <1>1, <1>2, <1>3 DEF VariablesOK, Whole
<1> QED
  BY <1>4 DEF ws

LEMMA DropdownUrlType ==
  ASSUME LInv
  PROVE  UrlAfterDropdowns(Rendered) \in Url
<1>1. Rendered.url \in Url
  BY RenderedType DEF LInv
<1>2. \A n \in ToUrl(Rendered) : Rendered.variables[n].value \in Value
  BY RenderedType DEF ToUrl, Differing, Mounted, Variable
<1>3. PICK params \in [Names -> Value] :
        UrlAfterDropdowns(Rendered) = [Rendered.url EXCEPT !.params = params]
  <2> DEFINE p == [n \in Names |-> IF n \in ToUrl(Rendered) THEN Rendered.variables[n].value
                                   ELSE Rendered.url.params[n]]
  <2>1. p \in [Names -> Value]
    BY <1>1, <1>2 DEF Url
  <2>2. UrlAfterDropdowns(Rendered) = [Rendered.url EXCEPT !.params = p]
    BY DEF UrlAfterDropdowns
  <2> QED
    BY <2>1, <2>2
<1> QED
  BY <1>1, <1>3 DEF Url

LEMMA CommitTypes == ASSUME LInv, Commit(AllProjects) PROVE LInv'
<1> DEFINE boards == legacyDashboards(items, url.project)
           target == Replacement(Rendered)
           fresh(params, b) == getAllVariables(params, boards, url.project, b)
           patched == IF url.board = NoBoard THEN target ELSE url.board
<1>1. url.board \in Board \cup {NoBoard, "gone"} /\ url.project \in Projects \cup {NoValue}
      /\ url.params \in [Names -> Value]
  BY DEF LInv, Url
<1>2. target \in Board \cup {NoBoard, "gone"}
  BY RenderedType, ReplacementType DEF LInv
<1> HIDE DEF target
<1>3. url' \in Url
  <2>1. CASE Replacing(Rendered)
    <3>1. url' = UrlOf(target, url.project)
      BY <2>1, RenderedType DEF Commit, target
    <3> QED
      BY <1>1, <1>2, <3>1, UrlType
  <2>2. CASE ~Replacing(Rendered)
    <3> DEFINE u == UrlAfterDropdowns(Rendered)
    <3>1. u \in Url
      BY DropdownUrlType
    <3>2. url' = [u EXCEPT !.project = IF @ = NoValue THEN AllProjects ELSE @]
      BY <2>2 DEF Commit
    <3> HIDE DEF u
    <3> QED
      BY <3>1, <3>2, ValuesAssumption DEF Url
  <2> QED
    BY <2>1, <2>2
<1>4. legacy' = [ b \in Board |->
                   AfterAborts(
                     IF Patching(Rendered) /\ b = patched THEN fresh(url.params, b)
                     ELSE IF Replacing(Rendered) /\ b = target THEN fresh(Nothing.url.params, b)
                     ELSE AfterDropdowns(b, Rendered), b, Rendered) ]
  BY RenderedType DEF Commit, target
<1>5. Nothing.url.params \in [Names -> Value]
  BY DEF Nothing, Value
<1>6. \A b \in Board : /\ VariablesOK(fresh(url.params, b), b)
                       /\ VariablesOK(fresh(Nothing.url.params, b), b)
                       /\ VariablesOK(AfterDropdowns(b, Rendered), b)
  BY <1>1, <1>5, FreshVariables, DropdownsType
<1> HIDE DEF boards, fresh, patched
<1>7. \A b \in Board : VariablesOK(legacy'[b], b)
  <2> SUFFICES ASSUME NEW b \in Board PROVE VariablesOK(legacy'[b], b)
    OBVIOUS
  <2>1. PICK vs \in {fresh(url.params, b), fresh(Nothing.url.params, b), AfterDropdowns(b, Rendered)} :
          legacy'[b] = AfterAborts(vs, b, Rendered)
    BY <1>4
  <2>2. VariablesOK(vs, b)
    BY <1>6
  <2> QED
    BY <2>1, <2>2, AbortsType
<1>8. DOMAIN legacy' = Board /\ legacy' = [b \in Board |-> legacy'[b]]
  BY <1>4
<1>9. requests' \subseteq Request /\ \A q \in requests' : q.name \in Variables[q.board]
  BY AskedType DEF Commit, LInv
<1> QED
  BY <1>3, <1>7, <1>8, <1>9 DEF LInv, Commit

(* One variable of a dashboard is changed.                                 *)
LEMMA OneVariableChanged ==
  ASSUME LInv, NEW b \in Board, NEW n \in DOMAIN legacy[b], NEW v, VariableOK(v),
         v.hasQuery = legacy[b][n].hasQuery, legacy' = [legacy EXCEPT ![b][n] = v]
  PROVE  /\ DOMAIN legacy' = Board /\ legacy' = [c \in Board |-> legacy'[c]]
         /\ \A c \in Board : VariablesOK(legacy'[c], c)
<1>1. DOMAIN legacy' = Board /\ legacy' = [c \in Board |-> legacy'[c]]
  BY DEF LInv
<1>2. \A c \in Board \ {b} : legacy'[c] = legacy[c]
  BY DEF LInv
<1>3. legacy'[b] = [legacy[b] EXCEPT ![n] = v]
  BY DEF LInv
<1>4. VariablesOK(legacy[b], b)
  BY DEF LInv
<1>5. VariablesOK(legacy'[b], b)
  BY <1>3, <1>4 DEF VariablesOK, Whole
<1> QED
  BY <1>1, <1>2, <1>5 DEF LInv

LEMMA LoadTypes ==
  ASSUME LInv, NEW q \in requests, NEW S \in SUBSET Values, Load(q, S),
         failures' \in 0 .. MaxFailures
  PROVE  LInv'
<1> DEFINE vs == WithOptionsLoaded(legacy[q.board], {q.name}, S)
<1>1. /\ q.board \in Board /\ q.name \in Variables[q.board] /\ requests' \subseteq requests
  BY DEF LInv, Load, Request
<1>2. legacy' = [legacy EXCEPT ![q.board] = vs]
  BY DEF Load
<1>3. VariablesOK(vs, q.board)
  BY <1>1, WithOptionsLoadedOK DEF LInv
<1> HIDE DEF vs
<1>4. /\ DOMAIN legacy' = Board /\ legacy' = [b \in Board |-> legacy'[b]]
      /\ \A b \in Board : VariablesOK(legacy'[b], b)
  BY <1>1, <1>2, <1>3 DEF LInv
<1> QED
  BY <1>1, <1>4 DEF LInv, Load

LEMMA AnswerTypes == ASSUME LInv, Answer \/ Fail PROVE LInv'
<1>1. CASE BoardsLoaded
  BY <1>1 DEF BoardsLoaded, LInv
<1>2. CASE BoardsFail
  BY <1>2, BoundsAssumption DEF BoardsFail, LInv
<1>3. ASSUME NEW q \in requests, OptionsLoaded(q) PROVE LInv'
  <2>1. Offered[q.name][q.query] \in SUBSET Values
    BY OfferedAssumption DEF LInv, Request
  <2> QED
    BY <1>3, <2>1, LoadTypes DEF OptionsLoaded, LInv
<1>4. ASSUME NEW q \in requests, OptionsFail(q) PROVE LInv'
  <2>1. failures' \in 0 .. MaxFailures
    BY <1>4, BoundsAssumption DEF OptionsFail, LInv
  <2> QED
    BY <1>4, <2>1, LoadTypes DEF OptionsFail
<1> QED
  BY <1>1, <1>2, <1>3, <1>4 DEF Answer, Fail

LEMMA ChangeTypes ==
  ASSUME LInv, NEW b \in Board \cup {NoBoard, "gone"}, NEW p \in Projects \cup {NoValue}, Change(b, p)
  PROVE  LInv'
<1> DEFINE boards == legacyDashboards(items, url.project)
           fresh == getAllVariables(Nothing.url.params, boards, p, b)
<1>1. Nothing.url.params \in [Names -> Value]
  BY DEF Nothing, Value
<1>2. b \in Board => VariablesOK(fresh, b)
  BY <1>1, FreshVariables
<1>3. legacy' = [c \in Board |-> IF c = b THEN fresh ELSE legacy[c]]
  BY DEF Change
<1> HIDE DEF fresh
<1>4. \A c \in Board : VariablesOK(legacy'[c], c)
  BY <1>2, <1>3 DEF LInv
<1>5. DOMAIN legacy' = Board /\ legacy' = [c \in Board |-> legacy'[c]]
  BY <1>3
<1>6. url' \in Url
  BY UrlType DEF Change
<1>7. events' \in 0 .. MaxEvents
  BY BoundsAssumption DEF Change, User, LInv
<1> QED
  BY <1>4, <1>5, <1>6, <1>7 DEF Change, User, LInv

LEMMA PickValueTypes ==
  ASSUME LInv, NEW n \in Names, NEW v \in Value, PickValue(n, v)
  PROVE  LInv'
<1>1. url.board \in Board /\ n \in DOMAIN legacy[url.board]
  BY DEF PickValue, VariablesOf
<1> DEFINE w == [legacy[url.board][n] EXCEPT !.value = v]
<1>2. VariableOK(legacy[url.board][n])
  BY <1>1 DEF LInv, VariablesOK
<1>3. VariableOK(w) /\ w.hasQuery = legacy[url.board][n].hasQuery
  BY <1>2 DEF Variable, VariableOK
<1>4. legacy' = [legacy EXCEPT ![url.board][n] = w]
  BY <1>1 DEF PickValue, LInv
<1> HIDE DEF w
<1>5. /\ DOMAIN legacy' = Board /\ legacy' = [b \in Board |-> legacy'[b]]
      /\ \A b \in Board : VariablesOK(legacy'[b], b)
  BY <1>1, <1>3, <1>4, OneVariableChanged
<1>6. url' \in Url
  BY DEF PickValue, LInv, Url
<1>7. events' \in 0 .. MaxEvents
  BY BoundsAssumption DEF PickValue, User, LInv
<1> QED
  BY <1>5, <1>6, <1>7 DEF PickValue, User, LInv

LEMMA UserTypes == ASSUME LInv, UserEvent PROVE LInv'
<1>1. ASSUME NEW n \in Names, NEW v \in Value, PickValue(n, v) PROVE LInv'
  BY <1>1, PickValueTypes
<1>2. CASE PickRange
  <2>1. url' \in Url
    BY <1>2 DEF PickRange, LInv, Url
  <2> QED
    BY <1>2, <2>1, BoundsAssumption DEF PickRange, User, LInv
<1>3. CASE PickInterval
  <2>1. url' \in Url
    BY <1>3 DEF PickInterval, LInv, Url
  <2> QED
    BY <1>3, <2>1, BoundsAssumption DEF PickInterval, User, LInv
<1>4. ASSUME NEW b \in Board, PickBoard(b) PROVE LInv'
  BY <1>4, ChangeTypes DEF PickBoard, LInv, Url
<1>5. ASSUME NEW p \in Projects, PickProject(p) PROVE LInv'
  <2>1. url.board \in Board \cup {NoBoard, "gone"}
    BY DEF LInv, Url
  <2> QED
    BY <1>5, <2>1, ChangeTypes DEF PickProject
<1> QED
  BY <1>1, <1>2, <1>3, <1>4, <1>5 DEF UserEvent

(* The types of the page are invariant.                                    *)
THEOREM PageTypes == Spec => []LInv
<1>1. ASSUME LInv, [Next]_vars PROVE LInv'
  <2>1. CASE UNCHANGED vars
    BY <1>1, <2>1 DEF vars, LInv, VariablesOK
  <2> QED
    BY <1>1, <2>1, CommitTypes, AnswerTypes, UserTypes DEF Next
<1> QED
  BY <1>1, InitTypes, PTL DEF Spec

(* In every reachable state the URL, the store and the requests have their *)
(* types: a variable holds one of its values, whatever was clicked, loaded *)
(* or found in the URL.                                                    *)
COROLLARY DashboardsTypeCorrect == Spec => []TypeOK
<1>1. LInv => TypeOK
  BY DEF LInv, TypeOK, VariablesOK, VariableOK, Whole
<1> QED
  BY <1>1, PageTypes, PTL

----------------------------------------------------------------------------
(* Requests                                                                *)

(* An answer belongs to a dropdown of the dashboard that was rendered      *)
(* last: leaving a dashboard aborts what its dropdowns had asked.          *)
RequestsBelong ==
  \A q \in requests : q.board = page.seen.url.board /\ q.name \in Mounted(page.seen)

LEMMA CommitRequests ==
  ASSUME Commit(AllProjects)
  PROVE  page'.seen = Rendered /\ RequestsBelong'
<1>1. page'.seen = Rendered
  BY DEF Commit
<1>2. \A q \in requests' : q.board = Rendered.url.board /\ q.name \in Mounted(Rendered)
  <2>1. Asking(Rendered) \subseteq Mounted(Rendered)
    BY DEF Asking
  <2>2. requests' = (requests \ Aborted(Rendered)) \cup
          {[board |-> Rendered.url.board, name |-> n, query |-> QueryOf(n, Rendered)] :
             n \in Asking(Rendered)}
    BY DEF Commit
  <2> QED
    BY <2>1, <2>2 DEF Aborted
<1> QED
  BY <1>1, <1>2 DEF RequestsBelong, Mounted

(* Everything but a render happens at rest, leaves what was rendered, and  *)
(* asks for nothing.                                                       *)
LEMMA OtherSteps ==
  ASSUME Answer \/ Fail \/ UserEvent
  PROVE  Stable /\ page' = page /\ requests' \subseteq requests
BY DEF Answer, Fail, UserEvent, BoardsLoaded, BoardsFail, OptionsLoaded, OptionsFail, Load,
       PickValue, PickRange, PickInterval, PickBoard, PickProject, Change, User

(* No answer is ever loaded into a dashboard that is not shown: every      *)
(* request in flight was sent by a dropdown of the dashboard rendered last *)
(* (safe-fetch-hook.ts aborts the others).                                 *)
THEOREM AnswersOfShownDashboard == Spec => []RequestsBelong
<1>1. Init => RequestsBelong
  BY DEF Init, RequestsBelong
<1>2. ASSUME RequestsBelong, [Next]_vars PROVE RequestsBelong'
  <2>1. CASE UNCHANGED vars
    BY <1>2, <2>1 DEF vars, RequestsBelong, Mounted
  <2>2. CASE Commit(AllProjects)
    BY <2>2, CommitRequests
  <2>3. CASE Answer \/ Fail \/ UserEvent
    BY <1>2, <2>3, OtherSteps DEF RequestsBelong, Mounted
  <2> QED
    BY <1>2, <2>1, <2>2, <2>3 DEF Next
<1> QED
  BY <1>1, <1>2, PTL DEF Spec

----------------------------------------------------------------------------
(* Options                                                                 *)

(* What the options of the dropdown n depend on is the same in the renders *)
(* r and s.                                                                *)
Same(n, r, s) ==
  /\ r.url.board = s.url.board
  /\ n \in Mounted(s)
  /\ OptionDeps(n, r) = OptionDeps(n, s)

RequestOf(n, r) == [board |-> r.url.board, name |-> n, query |-> QueryOf(n, r)]
HasItsOptions(n, r) ==
  QueryOf(n, r) = Undefined \/ r.variables[n].options = Offered[n][QueryOf(n, r)]

(* The options of a dropdown are those of its query, or on their way.      *)
Answered(n) ==
  HasItsOptions(n, Rendered) \/ RequestOf(n, Rendered) \in requests \/ failures > 0

(* The inductive invariant: what a dropdown has rendered is answered.      *)
OInv ==
  /\ LInv
  /\ \A n \in Mounted(Rendered) : Same(n, Rendered, page.seen) => Answered(n)

(* At rest, every dropdown shows the options of its query or asks for them.*)
OptionsFollowQueries ==
  Stable /\ failures = 0 =>
    \A n \in Mounted(Rendered) :
      HasItsOptions(n, Rendered) \/ RequestOf(n, Rendered) \in requests

LEMMA SameAnswer ==
  ASSUME NEW n, NEW r, NEW s, Same(n, r, s)
  PROVE  /\ n \in Mounted(s)
         /\ RequestOf(n, r) = RequestOf(n, s)
         /\ HasItsOptions(n, r) <=> HasItsOptions(n, s)
BY DEF Same, OptionDeps, RequestOf, HasItsOptions

LEMMA AskingIsDue ==
  ASSUME NEW n \in Mounted(Rendered), QueryOf(n, Rendered) # Undefined,
         ~Same(n, Rendered, page.seen)
  PROVE  n \in Asking(Rendered)
BY DEF Asking, Changed, Remounted, Same

LEMMA StableIsSame ==
  ASSUME Stable, NEW n \in Mounted(Rendered)
  PROVE  Same(n, Rendered, page.seen)
BY DEF Stable, Same

LEMMA CommitAnswers == ASSUME OInv, Commit(AllProjects) PROVE OInv'
<1>1. LInv' /\ page'.seen = Rendered /\ failures' = failures
  BY CommitTypes, CommitRequests DEF OInv, Commit
<1> SUFFICES ASSUME NEW n \in Mounted(Rendered'), Same(n, Rendered', page'.seen)
             PROVE  Answered(n)'
  BY <1>1 DEF OInv
<1>2. /\ n \in Mounted(Rendered)
      /\ RequestOf(n, Rendered') = RequestOf(n, Rendered)
      /\ HasItsOptions(n, Rendered') <=> HasItsOptions(n, Rendered)
  BY <1>1, SameAnswer
<1>3. SUFFICES ASSUME ~HasItsOptions(n, Rendered), ~(failures > 0)
               PROVE  RequestOf(n, Rendered) \in requests'
  BY <1>1, <1>2 DEF Answered
<1>4. requests' = (requests \ Aborted(Rendered)) \cup {RequestOf(m, Rendered) : m \in Asking(Rendered)}
  BY DEF Commit, RequestOf
<1>5. CASE n \in Asking(Rendered)
  BY <1>4, <1>5
<1>6. CASE n \notin Asking(Rendered)
  <2>1. Same(n, Rendered, page.seen)
    BY <1>2, <1>3, <1>6, AskingIsDue DEF HasItsOptions
  <2>2. RequestOf(n, Rendered) \in requests
    BY <1>2, <1>3, <2>1 DEF OInv, Answered
  <2>3. RequestOf(n, Rendered) \notin Aborted(Rendered)
    BY <1>2 DEF Aborted, RequestOf
  <2> QED
    BY <1>4, <2>2, <2>3
<1> QED
  BY <1>5, <1>6

(* A step that keeps the requests and is no render.                        *)
LEMMA KeptAnswers ==
  ASSUME OInv, LInv', Stable, page' = page, requests' = requests, failures' \in Nat,
         failures' >= failures
  PROVE  OInv'
<1> SUFFICES ASSUME NEW n \in Mounted(Rendered'), Same(n, Rendered', page'.seen)
             PROVE  Answered(n)'
  BY DEF OInv
<1>1. page'.seen = Rendered
  BY DEF Stable
<1>2. /\ n \in Mounted(Rendered)
      /\ RequestOf(n, Rendered') = RequestOf(n, Rendered)
      /\ HasItsOptions(n, Rendered') <=> HasItsOptions(n, Rendered)
  BY <1>1, SameAnswer
<1>3. Answered(n)
  BY <1>2, StableIsSame DEF OInv
<1>4. failures \in Nat
  BY BoundsAssumption DEF OInv, LInv
<1> QED
  BY <1>2, <1>3, <1>4 DEF Answered

(* An answer that is the options of its query, or a failure.               *)
LEMMA LoadAnswers ==
  ASSUME OInv, LInv', NEW q \in requests, NEW S \in SUBSET Values, Load(q, S),
         failures' \in Nat, failures' >= failures,
         S = Offered[q.name][q.query] \/ failures' > 0
  PROVE  OInv'
<1> SUFFICES ASSUME NEW n \in Mounted(Rendered'), Same(n, Rendered', page'.seen)
             PROVE  Answered(n)'
  BY DEF OInv
<1>1. page'.seen = Rendered /\ Stable
  BY DEF Stable, Load
<1>2. /\ n \in Mounted(Rendered)
      /\ RequestOf(n, Rendered') = RequestOf(n, Rendered)
      /\ HasItsOptions(n, Rendered') <=> HasItsOptions(n, Rendered)
  BY <1>1, SameAnswer
<1>3. Answered(n)
  BY <1>1, <1>2, StableIsSame DEF OInv
<1>4. failures \in Nat
  BY BoundsAssumption DEF OInv, LInv
<1>5. CASE RequestOf(n, Rendered) # q
  BY <1>2, <1>3, <1>4, <1>5 DEF Answered, Load
<1>6. CASE RequestOf(n, Rendered) = q /\ S = Offered[q.name][q.query]
  <2>1. q.board = url.board /\ q.name = n /\ q.query = QueryOf(n, Rendered)
    BY <1>6 DEF RequestOf, Rendered
  <2>2. url.board \in Board /\ n \in DOMAIN legacy[url.board]
    BY <1>2 DEF Mounted, Rendered, VariablesOf
  <2>3. legacy'[url.board][n] = VariableOptionsLoaded(legacy[url.board][n], S)
    BY <2>1, <2>2 DEF Load, OInv, LInv, WithOptionsLoaded
  <2>4. Rendered'.variables[n].options = S
    <3>1. url' = url
      BY DEF Load
    <3>2. Rendered'.variables = legacy'[url.board]
      BY <2>2, <3>1 DEF Rendered, VariablesOf
    <3>3. VariableOptionsLoaded(legacy[url.board][n], S).options = S
      BY DEF VariableOptionsLoaded
    <3> QED
      BY <2>3, <3>2, <3>3
  <2>5. QueryOf(n, Rendered') = QueryOf(n, Rendered)
    BY <1>2 DEF RequestOf
  <2>6. HasItsOptions(n, Rendered')
    BY <1>6, <2>1, <2>4, <2>5 DEF HasItsOptions
  <2> QED
    BY <2>6 DEF Answered
<1>7. CASE failures' > 0
  BY <1>7 DEF Answered
<1> QED
  BY <1>5, <1>6, <1>7

LEMMA OtherAnswers == ASSUME OInv, Answer \/ Fail \/ UserEvent PROVE OInv'
<1>1. LInv' /\ Stable /\ page' = page
  BY AnswerTypes, UserTypes, OtherSteps DEF OInv
<1>2. failures \in Nat /\ failures' \in Nat
  BY <1>1, BoundsAssumption DEF OInv, LInv
<1>3. CASE BoardsLoaded
  BY <1>1, <1>2, <1>3, KeptAnswers DEF BoardsLoaded
<1>4. CASE BoardsFail
  BY <1>1, <1>2, <1>4, KeptAnswers DEF BoardsFail
<1>5. ASSUME NEW q \in requests, OptionsLoaded(q) PROVE OInv'
  <2>1. Offered[q.name][q.query] \in SUBSET Values
    BY OfferedAssumption DEF OInv, LInv, Request
  <2> QED
    BY <1>1, <1>2, <1>5, <2>1, LoadAnswers DEF OptionsLoaded
<1>6. ASSUME NEW q \in requests, OptionsFail(q) PROVE OInv'
  <2>1. failures' > 0 /\ failures' >= failures /\ Load(q, {})
    BY <1>2, <1>6 DEF OptionsFail
  <2> QED
    BY <1>1, <1>2, <2>1, LoadAnswers
<1>7. CASE UserEvent
  <2>1. requests' = requests /\ failures' = failures
    BY <1>7 DEF UserEvent, PickValue, PickRange, PickInterval, PickBoard, PickProject, Change, User
  <2> QED
    BY <1>1, <1>2, <2>1, KeptAnswers
<1> QED
  BY <1>3, <1>4, <1>5, <1>6, <1>7 DEF Answer, Fail

LEMMA InitAnswers == Init => OInv
<1> SUFFICES ASSUME Init PROVE OInv
  OBVIOUS
<1>1. Mounted(Rendered) = {}
  BY DEF Init, Mounted, Rendered, VariablesOf
<1> QED
  BY <1>1, InitTypes DEF OInv

(* A stutter.                                                              *)
LEMMA UnchangedAnswers == ASSUME OInv, UNCHANGED vars PROVE OInv'
<1>1. LInv'
  BY DEF OInv, vars, LInv, VariablesOK
<1>2. Rendered' = Rendered /\ page' = page /\ requests' = requests /\ failures' = failures
  BY DEF vars, Rendered, VariablesOf
<1> QED
  BY <1>1, <1>2 DEF OInv, Answered

(* However the answers to old and new queries overtake one another, a      *)
(* dropdown at rest shows the options the servers have for the query it    *)
(* has now, or its request for them is in flight (the effect on query and  *)
(* options, LegacyVariableDropdowns.tsx:147-221).  It is why the options   *)
(* match the queries when every request is answered.                       *)
THEOREM DropdownsFollowQueries == Spec => []OptionsFollowQueries
<1>1. ASSUME OInv, [Next]_vars PROVE OInv'
  <2>1. CASE UNCHANGED vars
    BY <1>1, <2>1, UnchangedAnswers
  <2> QED
    BY <1>1, <2>1, CommitAnswers, OtherAnswers DEF Next
<1>2. OInv => OptionsFollowQueries
  <2> SUFFICES ASSUME OInv, Stable, failures = 0, NEW n \in Mounted(Rendered)
               PROVE  HasItsOptions(n, Rendered) \/ RequestOf(n, Rendered) \in requests
    BY DEF OptionsFollowQueries
  <2> QED
    BY StableIsSame DEF OInv, Answered
<1> QED
  BY <1>1, <1>2, InitAnswers, PTL DEF Spec

----------------------------------------------------------------------------
(* What the dropdowns show                                                 *)

(* The dropdown of n, as it is now.                                        *)
Shown(n) == Rendered.variables[n]
(* It has the options the dashboard says, as after it was opened.          *)
Fresh(n) == Shown(n).options = Template[n].options

(* The request of the dropdown n was aborted, or it has no options either. *)
Emptied(n) == Shown(n).options = {} /\ ~Shown(n).isLoading

(* The dropdown n keeps its options in a render.                           *)
KeptByCommit(n) ==
  /\ url'.board = url.board /\ n \in Mounted(Rendered)
  /\ Shown(n)'.options = Shown(n).options
  /\ Shown(n)'.isLoading = (Shown(n).isLoading \/ n \in Asking(Rendered))
  /\ Shown(n)'.value = IF n \in FromUrl(Rendered) THEN url.params[n] ELSE Shown(n).value
  /\ url'.params[n] = IF n \in ToUrl(Rendered) THEN Shown(n).value ELSE url.params[n]

(* A dashboard says what options its variables begin with.                 *)
LEMMA FreshOptions ==
  ASSUME NEW params, NEW boards, NEW project, NEW b,
         NEW n \in DOMAIN getAllVariables(params, boards, project, b)
  PROVE  getAllVariables(params, boards, project, b)[n].options = Template[n].options
<1> DEFINE N == IF InList(b, boards) THEN Variables[b] ELSE {}
           V(m) == LET t == Template[m]
                       default == IF t.selected = NoValue /\ t.includeAll THEN All ELSE t.selected
                       value == IF params[m] # NoValue THEN params[m] ELSE default
                   IN  IF Fixed(m, project) THEN project
                       ELSE IF value # NoValue THEN value ELSE Smallest(t.options)
           row(m) == [ hasQuery |-> Template[m].type = "query", options |-> Template[m].options,
                       isLoading |-> m # "namespace" /\ Template[m].type = "query", value |-> V(m) ]
<1>1. getAllVariables(params, boards, project, b) = [m \in N |-> row(m)]
  BY DEF getAllVariables
<1> HIDE DEF V, N
<1> QED
  BY <1>1

(* What the callbacks of aborted requests leave.                           *)
LEMMA AbortsShow ==
  ASSUME NEW vs, NEW b, NEW r, NEW n \in DOMAIN AfterAborts(vs, b, r)
  PROVE  LET v == AfterAborts(vs, b, r)[n]
         IN  (v.options = {} /\ ~v.isLoading) \/ (n \in DOMAIN vs /\ v = vs[n])
BY DEF AfterAborts, WithOptionsLoaded, VariableOptionsLoaded

(* After a render a dropdown is as the dashboard says, or empty, or keeps  *)
(* its options.                                                            *)
LEMMA CommitShows ==
  ASSUME LInv, Commit(AllProjects), NEW n \in Mounted(Rendered')
  PROVE  Fresh(n)' \/ Emptied(n)' \/ KeptByCommit(n)
<1> DEFINE r == Rendered
           boards == legacyDashboards(r.items, r.url.project)
           target == Replacement(r)
           fresh(params, b) == getAllVariables(params, boards, r.url.project, b)
           patched == IF r.url.board = NoBoard THEN target ELSE r.url.board
           c == url'.board
<1>1. /\ r.url = url /\ r.variables = VariablesOf(url.board) /\ url \in Url
      /\ DOMAIN Nothing.url = {"board", "params", "project", "refresh", "range"}
  BY RenderedType DEF LInv, Nothing
<1>2. /\ url' = IF Replacing(r) THEN UrlOf(target, r.url.project)
                ELSE [UrlAfterDropdowns(r) EXCEPT !.project = IF @ = NoValue THEN AllProjects ELSE @]
      /\ legacy' =
           [ b \in Board |->
               AfterAborts(
                 IF Patching(r) /\ b = patched THEN fresh(r.url.params, b)
                 ELSE IF Replacing(r) /\ b = target THEN fresh(Nothing.url.params, b)
                 ELSE AfterDropdowns(b, r), b, r) ]
  BY DEF Commit
<1>3. c \in Board /\ Rendered'.variables = legacy'[c] /\ n \in DOMAIN legacy'[c]
  BY DEF Rendered, VariablesOf, Mounted
<1>4. Replacing(r) => c = target
  BY <1>1, <1>2 DEF UrlOf
<1>5. ~Replacing(r) => /\ c = url.board
                       /\ url'.params = UrlAfterDropdowns(r).params
  BY <1>1, <1>2 DEF UrlAfterDropdowns, Url
<1> HIDE DEF boards, target, patched, r
<1>6. PICK vs : /\ legacy'[c] = AfterAborts(vs, c, r)
                 /\ \/ vs = fresh(r.url.params, c)
                    \/ vs = fresh(Nothing.url.params, c)
                    \/ ~Replacing(r) /\ vs = AfterDropdowns(c, r)
  BY <1>2, <1>3, <1>4
<1>7. SUFFICES ASSUME ~Emptied(n)', n \in DOMAIN vs, legacy'[c][n] = vs[n]
               PROVE  Fresh(n)' \/ KeptByCommit(n)
  BY <1>3, <1>6, AbortsShow DEF Emptied, Shown
<1>8. CASE vs = fresh(r.url.params, c) \/ vs = fresh(Nothing.url.params, c)
  BY <1>3, <1>7, <1>8, FreshOptions DEF Fresh, Shown
<1>9. CASE ~Replacing(r) /\ vs = AfterDropdowns(c, r)
  <2>1. c = url.board /\ r.variables = legacy[c]
    BY <1>1, <1>3, <1>5, <1>9 DEF VariablesOf
  <2>2. DOMAIN AfterDropdowns(c, r) = DOMAIN legacy[c]
    BY DEF AfterDropdowns
  <2>3. n \in Mounted(r)
    BY <1>7, <1>9, <2>1, <2>2 DEF Mounted
  <2> DEFINE old == legacy[c][n]
             l == old.isLoading \/ n \in Asking(r)
             v == IF n \in FromUrl(r) THEN r.url.params[n] ELSE old.value
  <2>4. legacy'[c][n] = [old EXCEPT !.isLoading = l, !.value = v]
    BY <1>1, <1>7, <1>9, <2>1, <2>2 DEF AfterDropdowns
  <2>5. old \in Variable /\ n \in Names
    BY <1>3, <2>1, <2>3, BoardsAssumption DEF LInv, VariablesOK, VariableOK, Mounted
  <2>6. /\ legacy'[c][n].options = old.options
        /\ legacy'[c][n].isLoading = (old.isLoading \/ n \in Asking(r))
        /\ legacy'[c][n].value = IF n \in FromUrl(r) THEN url.params[n] ELSE old.value
    BY <1>1, <2>4, <2>5 DEF Variable
  <2>7. url'.params[n] = IF n \in ToUrl(r) THEN old.value ELSE url.params[n]
    <3>1. UrlAfterDropdowns(r).params =
            [m \in Names |-> IF m \in ToUrl(r) THEN r.variables[m].value ELSE r.url.params[m]]
      BY <1>1 DEF UrlAfterDropdowns, Url
    <3> QED
      BY <1>1, <1>5, <1>9, <2>1, <2>5, <3>1
  <2>8. Shown(n)' = legacy'[c][n] /\ Shown(n) = old
    BY <1>1, <1>3, <2>1 DEF Shown, r
  <2> QED
    BY <2>1, <2>3, <2>6, <2>7, <2>8 DEF KeptByCommit, r
<1> QED
  BY <1>6, <1>8, <1>9

(* The dropdown n is left alone, and what it asked for.                    *)
LeftAlone(n) ==
  /\ url'.board = url.board /\ n \in Mounted(Rendered)
  /\ Shown(n)' = Shown(n) /\ url'.params[n] = url.params[n]

(* A value is picked, and the URL says so.                                 *)
Picked(n) ==
  /\ url'.board = url.board /\ n \in Mounted(Rendered)
  /\ Shown(n)'.options = Shown(n).options /\ Shown(n)'.isLoading = Shown(n).isLoading
  /\ Shown(n)'.value \in Shown(n).options \cup {All} /\ Shown(n)'.value = url'.params[n]

(* Options are loaded.                                                     *)
Loaded(n) ==
  /\ url' = url /\ n \in Mounted(Rendered)
  /\ \E S \in SUBSET Values : Shown(n)' = VariableOptionsLoaded(Shown(n), S)

(* No request of the dropdown n is lost.                                   *)
KeepsRequests(n) ==
  \A q \in requests : q.board = url.board /\ q.name = n => q \in requests'

(* An answer changes the dropdown it is for, and no other.                 *)
LEMMA LoadShows ==
  ASSUME LInv, RequestsBelong, NEW q \in requests, NEW S \in SUBSET Values, Load(q, S),
         NEW n \in Mounted(Rendered')
  PROVE  (LeftAlone(n) /\ KeepsRequests(n)) \/ Loaded(n)
<1>1. url' = url /\ url.board \in Board /\ Rendered'.variables = legacy'[url.board]
      /\ n \in DOMAIN legacy'[url.board] /\ Rendered.variables = legacy[url.board]
  BY DEF Load, Rendered, VariablesOf, Mounted
<1>2. q.board \in Board /\ requests' = requests \ {q}
  BY DEF LInv, Load, Request
<1>3. legacy' = [legacy EXCEPT ![q.board] = WithOptionsLoaded(legacy[q.board], {q.name}, S)]
  BY DEF Load
<1>4. CASE q.board = url.board /\ q.name = n
  <2>1. n \in DOMAIN legacy[url.board]
    BY <1>1, <1>4 DEF RequestsBelong, Load, Stable, Mounted
  <2>2. legacy'[url.board][n] = VariableOptionsLoaded(legacy[url.board][n], S)
    BY <1>1, <1>3, <1>4, <2>1 DEF LInv, WithOptionsLoaded
  <2> QED
    BY <1>1, <2>1, <2>2 DEF Loaded, Shown, Mounted
<1>5. CASE ~(q.board = url.board /\ q.name = n)
  <2>1. n \in DOMAIN legacy[url.board] /\ legacy'[url.board][n] = legacy[url.board][n]
    BY <1>1, <1>2, <1>3, <1>5 DEF LInv, WithOptionsLoaded
  <2> QED
    BY <1>1, <1>2, <1>5, <2>1 DEF LeftAlone, KeepsRequests, Shown, Mounted
<1> QED
  BY <1>4, <1>5

(* Who changes the dashboard or the project starts afresh.                 *)
LEMMA ChangeShows ==
  ASSUME LInv, NEW b, NEW p, Change(b, p), NEW n \in Mounted(Rendered')
  PROVE  Fresh(n)'
<1> DEFINE fresh == getAllVariables(Nothing.url.params, legacyDashboards(items, url.project), p, b)
<1>1. url'.board = b
  BY DEF Change, UrlOf, Nothing
<1>2. b \in Board /\ Rendered'.variables = legacy'[b] /\ n \in DOMAIN legacy'[b]
  BY <1>1 DEF Rendered, VariablesOf, Mounted
<1>3. legacy'[b] = fresh
  BY <1>2 DEF Change
<1> HIDE DEF fresh
<1> QED
  BY <1>2, <1>3, FreshOptions DEF Fresh, Shown, fresh

(* A value is picked in one dropdown.                                      *)
LEMMA PickValueShows ==
  ASSUME LInv, NEW m \in Names, NEW v \in Value, PickValue(m, v), NEW n \in Mounted(Rendered')
  PROVE  LeftAlone(n) \/ Picked(n)
<1>1. /\ url.board \in Board /\ m \in DOMAIN legacy[url.board]
      /\ VariablesOf(url.board) = legacy[url.board]
  BY DEF PickValue, VariablesOf
<1>2. v \in legacy[url.board][m].options \cup {All}
  BY <1>1 DEF PickValue
<1>3. /\ url' = [url EXCEPT !.params[m] = v]
      /\ legacy' = [legacy EXCEPT ![url.board][m].value = v]
  BY DEF PickValue
<1>4. /\ url'.board = url.board
      /\ url'.params = [url.params EXCEPT ![m] = v] /\ url.params \in [Names -> Value]
  BY <1>3 DEF LInv, Url
<1>5. legacy'[url.board] = [legacy[url.board] EXCEPT ![m].value = v]
  BY <1>1, <1>3 DEF LInv
<1>6. Rendered'.variables = legacy'[url.board] /\ Rendered.variables = legacy[url.board]
  BY <1>1, <1>4 DEF Rendered, VariablesOf
<1>7. n \in DOMAIN legacy[url.board] /\ n \in Names
  BY <1>1, <1>5, <1>6, BoardsAssumption DEF Mounted, LInv, VariablesOK
<1>8. CASE n = m
  <2>1. legacy[url.board][m] \in Variable
    BY <1>1 DEF LInv, VariablesOK, VariableOK
  <2>2. legacy'[url.board][m] = [legacy[url.board][m] EXCEPT !.value = v]
    BY <1>1, <1>5
  <2>3. /\ legacy'[url.board][m].options = legacy[url.board][m].options
        /\ legacy'[url.board][m].isLoading = legacy[url.board][m].isLoading
        /\ legacy'[url.board][m].value = v
    BY <2>1, <2>2 DEF Variable
  <2> QED
    BY <1>2, <1>4, <1>6, <1>7, <1>8, <2>3 DEF Picked, Shown, Mounted
<1>9. CASE n # m
  <2>1. legacy'[url.board][n] = legacy[url.board][n] /\ url'.params[n] = url.params[n]
    BY <1>4, <1>5, <1>7, <1>9
  <2> QED
    BY <1>4, <1>6, <1>7, <2>1 DEF LeftAlone, Shown, Mounted
<1> QED
  BY <1>8, <1>9

(* What a step that is no render does to a dropdown.                       *)
LEMMA OtherShows ==
  ASSUME LInv, RequestsBelong, Answer \/ Fail \/ UserEvent, NEW n \in Mounted(Rendered')
  PROVE  \/ Fresh(n)'
         \/ (LeftAlone(n) \/ Picked(n)) /\ KeepsRequests(n)
         \/ Loaded(n)
<1>1. ASSUME legacy' = legacy, url'.board = url.board, url'.params = url.params, requests' = requests
      PROVE  LeftAlone(n) /\ KeepsRequests(n)
  BY <1>1 DEF LeftAlone, KeepsRequests, Shown, Rendered, VariablesOf, Mounted
<1>2. CASE BoardsLoaded \/ BoardsFail
  BY <1>1, <1>2 DEF BoardsLoaded, BoardsFail
<1>3. ASSUME NEW q \in requests, OptionsLoaded(q) \/ OptionsFail(q)
      PROVE  (LeftAlone(n) /\ KeepsRequests(n)) \/ Loaded(n)
  <2>1. Offered[q.name][q.query] \in SUBSET Values
    BY OfferedAssumption DEF LInv, Request
  <2>2. PICK S \in SUBSET Values : Load(q, S)
    BY <1>3, <2>1 DEF OptionsLoaded, OptionsFail
  <2> QED
    BY <2>2, LoadShows
<1>4. CASE UserEvent
  <2>1. KeepsRequests(n)
    BY <1>4 DEF UserEvent, PickValue, PickRange, PickInterval, PickBoard, PickProject,
                Change, User, KeepsRequests
  <2>2. CASE PickRange \/ PickInterval
    <3>1. url'.board = url.board /\ url'.params = url.params
      BY <2>2 DEF PickRange, PickInterval, LInv, Url
    <3> QED
      BY <1>1, <2>2, <3>1 DEF PickRange, PickInterval, User
  <2>3. ASSUME NEW m \in Names, NEW v \in Value, PickValue(m, v) PROVE LeftAlone(n) \/ Picked(n)
    BY <2>3, PickValueShows
  <2>4. ASSUME NEW b \in Board, PickBoard(b) PROVE Fresh(n)'
    BY <2>4, ChangeShows DEF PickBoard
  <2>5. ASSUME NEW p \in Projects, PickProject(p) PROVE Fresh(n)'
    BY <2>5, ChangeShows DEF PickProject
  <2> QED
    BY <1>4, <2>1, <2>2, <2>3, <2>4, <2>5 DEF UserEvent
<1> QED
  BY <1>2, <1>3, <1>4 DEF Answer, Fail

(* A dropdown that is loading has yet to ask, or has asked.                *)
LoadingHasReason ==
  \A n \in Mounted(Rendered) : Shown(n).isLoading =>
    Fresh(n) \/ \E q \in requests : q.board = url.board /\ q.name = n

(* A value is offered, unless the options are not from the servers yet.    *)
ValueIsOffered ==
  failures = 0 =>
    \A n \in Mounted(Rendered) :
      Fresh(n) \/ Shown(n).options = {} \/ Shown(n).value \in Shown(n).options \cup {All}

(* What brings value and URL together has seen them.                       *)
Settled(n) ==
  /\ url.board = page.seen.url.board /\ n \in Mounted(page.seen)
  /\ ValueDeps(n, Rendered) = ValueDeps(n, page.seen)

(* The value of such a dropdown is in the URL.                             *)
UrlHasValue ==
  failures = 0 =>
    \A n \in Mounted(Rendered) :
      Settled(n) => Fresh(n) \/ Shown(n).options = {} \/ Shown(n).value = url.params[n]

(* A page at rest has a project.                                           *)
ProjectIsKnown ==
  /\ url.project = NoValue => page.previousProject = NoValue
  /\ Stable => url.project # NoValue

(* What the dropdowns hold together.                                       *)
DInv ==
  OInv /\ RequestsBelong /\ LoadingHasReason /\ ValueIsOffered /\ UrlHasValue /\ ProjectIsKnown

(* What loading does to a value.                                           *)
LEMMA LoadedValue ==
  ASSUME NEW v \in Variable, NEW S \in SUBSET Values
  PROVE  LET w == VariableOptionsLoaded(v, S)
         IN  /\ w.options = S /\ ~w.isLoading
             /\ v.options = S => w.value = v.value
             /\ v.options # S => S = {} \/ w.value \in S \cup {All}
<1>1. S # {} => Smallest(S) \in S
  BY SmallestIsMember, ValuesAssumption
<1> QED
  BY <1>1 DEF VariableOptionsLoaded

LEMMA ShownType ==
  ASSUME LInv, NEW n \in Mounted(Rendered)
  PROVE  Shown(n) \in Variable /\ n \in Names /\ url.board \in Board
BY RenderedType DEF Shown, Mounted

(* A render keeps what holds of loading, values and URL.                   *)
LEMMA CommitKeeps ==
  ASSUME DInv, Commit(AllProjects)
  PROVE  LoadingHasReason' /\ ValueIsOffered' /\ UrlHasValue'
<1>1. LInv /\ LInv' /\ failures' = failures /\ page'.seen = Rendered
  BY CommitTypes, CommitRequests DEF DInv, OInv, Commit
<1>2. ASSUME NEW n \in Mounted(Rendered'), Shown(n)'.isLoading
      PROVE  Fresh(n)' \/ \E q \in requests' : q.board = url'.board /\ q.name = n
  <2>1. SUFFICES ASSUME KeptByCommit(n), ~Fresh(n)'
                 PROVE  \E q \in requests' : q.board = url'.board /\ q.name = n
    BY <1>1, <1>2, CommitShows DEF Emptied
  <2>2. requests' = (requests \ Aborted(Rendered)) \cup {RequestOf(m, Rendered) : m \in Asking(Rendered)}
    BY DEF Commit, RequestOf
  <2>3. Rendered.url = url /\ url'.board = url.board /\ n \in Mounted(Rendered)
    BY <2>1 DEF KeptByCommit, Rendered
  <2>4. CASE n \in Asking(Rendered)
    <3>1. RequestOf(n, Rendered) \in requests'
      BY <2>2, <2>4
    <3>2. RequestOf(n, Rendered).board = url.board /\ RequestOf(n, Rendered).name = n
      BY <2>3 DEF RequestOf
    <3> QED
      BY <2>3, <3>1, <3>2
  <2>5. CASE n \notin Asking(Rendered)
    <3>1. Shown(n).isLoading /\ ~Fresh(n)
      BY <1>2, <2>1, <2>5 DEF KeptByCommit, Fresh
    <3>2. PICK q \in requests : q.board = url.board /\ q.name = n
      BY <2>3, <3>1 DEF DInv, LoadingHasReason
    <3>3. q \notin Aborted(Rendered)
      BY <2>3, <3>2 DEF Aborted
    <3> QED
      BY <2>2, <2>3, <3>2, <3>3
  <2> QED
    BY <2>4, <2>5
<1>3. ASSUME NEW n \in Mounted(Rendered'), failures = 0
      PROVE  Fresh(n)' \/ Shown(n)'.options = {} \/ Shown(n)'.value \in Shown(n)'.options \cup {All}
  <2>1. SUFFICES ASSUME KeptByCommit(n), ~Fresh(n)', Shown(n)'.options # {}
                 PROVE  Shown(n)'.value \in Shown(n)'.options \cup {All}
    BY <1>1, CommitShows DEF Emptied
  <2>2. n \in Mounted(Rendered) /\ Shown(n)'.options = Shown(n).options /\ ~Fresh(n) /\ Shown(n).options # {}
    BY <2>1 DEF KeptByCommit, Fresh
  <2>3. Shown(n).value \in Shown(n).options \cup {All}
    BY <1>3, <2>2 DEF DInv, ValueIsOffered
  <2>4. n \in FromUrl(Rendered) => url.params[n] \in Shown(n).options
    BY DEF FromUrl, Shown, Rendered
  <2> QED
    BY <2>1, <2>2, <2>3, <2>4 DEF KeptByCommit
<1>4. ASSUME NEW n \in Mounted(Rendered'), failures = 0, Settled(n)'
      PROVE  Fresh(n)' \/ Shown(n)'.options = {} \/ Shown(n)'.value = url'.params[n]
  <2>1. SUFFICES ASSUME KeptByCommit(n), ~Fresh(n)', Shown(n)'.options # {}
                 PROVE  Shown(n)'.value = url'.params[n]
    BY <1>1, CommitShows DEF Emptied
  <2>2. n \in Mounted(Rendered) /\ Shown(n)'.options = Shown(n).options /\ ~Fresh(n) /\ Shown(n).options # {}
    BY <2>1 DEF KeptByCommit, Fresh
  <2>3. Shown(n)'.value = Shown(n).value /\ url'.params[n] = url.params[n]
    BY <1>1, <1>4 DEF Settled, ValueDeps, Shown, Rendered
  <2>4. SUFFICES ASSUME Shown(n).value # url.params[n] PROVE FALSE
    BY <2>3
  <2>5. n \in Differing(Rendered)
    <3>1. ~Settled(n)
      BY <1>4, <2>2, <2>4 DEF DInv, UrlHasValue
    <3>2. Changed(n, Rendered, ValueDeps)
      BY <2>2, <3>1 DEF Settled, Changed, Remounted, Rendered
    <3> QED
      BY <2>2, <2>4, <3>2 DEF Differing, Shown, Rendered
  <2>6. n \notin FromUrl(Rendered)
    BY <2>1, <2>3, <2>4 DEF KeptByCommit
  <2>7. Shown(n).value # NoValue
    <3>1. Shown(n).value \in Shown(n).options \cup {All}
      BY <1>4, <2>2 DEF DInv, ValueIsOffered
    <3>2. Shown(n).options \subseteq Values
      BY <1>1, <2>2, ShownType DEF Variable
    <3> QED
      BY <3>1, <3>2, ValuesAssumption DEF NoValue
  <2>8. n \in ToUrl(Rendered)
    BY <2>5, <2>6, <2>7 DEF ToUrl, Shown
  <2> QED
    BY <2>1, <2>3, <2>4, <2>8 DEF KeptByCommit
<1>5. LoadingHasReason'
  BY <1>2 DEF LoadingHasReason
<1>6. ValueIsOffered'
  BY <1>1, <1>3 DEF ValueIsOffered
<1>7. UrlHasValue'
  BY <1>1, <1>4 DEF UrlHasValue
<1> QED
  BY <1>5, <1>6, <1>7

(* A render finds a project, or is not the last.                           *)
LEMMA CommitKnowsProject == ASSUME DInv, Commit(AllProjects) PROVE ProjectIsKnown'
<1> DEFINE r == Rendered
           target == Replacement(r)
<1>1. /\ r.url = url /\ url \in Url /\ page'.seen = r
      /\ DOMAIN Nothing.url = {"board", "params", "project", "refresh", "range"}
  BY RenderedType, CommitRequests DEF DInv, OInv, LInv, Nothing
<1>2. /\ url' = IF Replacing(r) THEN UrlOf(target, r.url.project)
                ELSE [UrlAfterDropdowns(r) EXCEPT !.project = IF @ = NoValue THEN AllProjects ELSE @]
      /\ page'.previousProject = IF Replacing(r) THEN r.url.project ELSE page.previousProject
  BY DEF Commit
<1> HIDE DEF r, target
<1>3. CASE Replacing(r)
  <2>1. url'.board = target /\ url'.project = url.project /\ page'.previousProject = url.project
    BY <1>1, <1>2, <1>3 DEF UrlOf
  <2>2. ASSUME Stable', url'.project = NoValue PROVE FALSE
    <3>1. url' = url
      BY <1>1, <2>2 DEF Stable, Rendered
    <3>2. page.previousProject = url.project
      BY <2>1, <2>2 DEF DInv, ProjectIsKnown
    <3> QED
      BY <1>1, <1>3, <2>1, <3>1, <3>2 DEF Replacing, target
  <2> QED
    BY <2>1, <2>2 DEF ProjectIsKnown
<1>4. CASE ~Replacing(r)
  <2>1. url'.project = IF url.project = NoValue THEN AllProjects ELSE url.project
    BY <1>1, <1>2, <1>4 DEF UrlAfterDropdowns, Url
  <2>2. url'.project # NoValue
    BY <2>1, ValuesAssumption DEF NoValue
  <2> QED
    BY <2>2 DEF ProjectIsKnown
<1> QED
  BY <1>3, <1>4

(* So does every other step.                                               *)
LEMMA OtherKeeps ==
  ASSUME DInv, Answer \/ Fail \/ UserEvent
  PROVE  LoadingHasReason' /\ ValueIsOffered' /\ UrlHasValue'
<1>1. LInv /\ Stable /\ page' = page /\ page.seen = Rendered /\ failures \in Nat /\ failures' >= failures
  <2>1. failures' = failures \/ failures' = failures + 1
    BY DEF Answer, Fail, UserEvent, BoardsLoaded, BoardsFail, OptionsLoaded, OptionsFail,
           PickValue, PickRange, PickInterval, PickBoard, PickProject, Change, User
  <2>2. failures \in Nat
    BY BoundsAssumption DEF DInv, OInv, LInv
  <2> QED
    BY <2>1, <2>2, OtherSteps DEF DInv, OInv, Stable
<1>2. failures' = 0 => failures = 0
  <2>1. failures' \in Nat
    BY AnswerTypes, UserTypes, <1>1, BoundsAssumption DEF LInv
  <2> QED
    BY <1>1, <2>1
<1>3. \A n : LeftAlone(n) => (Fresh(n)' <=> Fresh(n))
  BY DEF LeftAlone, Fresh
<1>4. ASSUME NEW n \in Mounted(Rendered'), Shown(n)'.isLoading
      PROVE  Fresh(n)' \/ \E q \in requests' : q.board = url'.board /\ q.name = n
  <2>1. CASE (LeftAlone(n) \/ Picked(n)) /\ KeepsRequests(n)
    <3>1. /\ n \in Mounted(Rendered) /\ url'.board = url.board /\ Shown(n).isLoading
          /\ Fresh(n)' <=> Fresh(n)
      BY <1>4, <2>1 DEF LeftAlone, Picked, Fresh
    <3> QED
      BY <2>1, <3>1 DEF DInv, LoadingHasReason, KeepsRequests
  <2>2. CASE Loaded(n)
    BY <1>1, <1>4, <2>2, LoadedValue, ShownType DEF Loaded
  <2> QED
    BY <1>1, <2>1, <2>2, OtherShows DEF DInv
<1>5. ASSUME NEW n \in Mounted(Rendered'), failures' = 0
      PROVE  Fresh(n)' \/ Shown(n)'.options = {} \/ Shown(n)'.value \in Shown(n)'.options \cup {All}
  <2>1. CASE LeftAlone(n)
    BY <1>2, <1>3, <1>5, <2>1 DEF LeftAlone, DInv, ValueIsOffered
  <2>2. CASE Picked(n)
    BY <2>2 DEF Picked
  <2>3. CASE Loaded(n)
    <3>1. PICK S \in SUBSET Values : Shown(n)' = VariableOptionsLoaded(Shown(n), S)
      BY <2>3 DEF Loaded
    <3>2. n \in Mounted(Rendered) /\ Shown(n) \in Variable
      BY <1>1, <2>3, ShownType DEF Loaded
    <3>3. /\ Shown(n)'.options = S
          /\ Shown(n).options = S => Shown(n)'.value = Shown(n).value
          /\ Shown(n).options # S => S = {} \/ Shown(n)'.value \in S \cup {All}
      BY <3>1, <3>2, LoadedValue
    <3>4. Shown(n).options = S => (Fresh(n)' <=> Fresh(n))
      BY <3>3 DEF Fresh
    <3>5. Fresh(n) \/ Shown(n).options = {} \/ Shown(n).value \in Shown(n).options \cup {All}
      BY <1>2, <1>5, <3>2 DEF DInv, ValueIsOffered
    <3> QED
      BY <3>3, <3>4, <3>5
  <2> QED
    BY <1>1, <2>1, <2>2, <2>3, OtherShows DEF DInv
<1>6. ASSUME NEW n \in Mounted(Rendered'), failures' = 0, Settled(n)'
      PROVE  Fresh(n)' \/ Shown(n)'.options = {} \/ Shown(n)'.value = url'.params[n]
  <2>1. n \in Mounted(Rendered) /\ ValueDeps(n, Rendered') = ValueDeps(n, Rendered)
    BY <1>1, <1>6 DEF Settled
  <2>2. /\ Shown(n)'.value = Shown(n).value /\ url'.params[n] = url.params[n]
        /\ Shown(n)'.options = Shown(n).options
    BY <2>1 DEF ValueDeps, Shown, Rendered
  <2>3. Settled(n)
    BY <1>1, <2>1 DEF Settled, Rendered
  <2>4. Fresh(n) \/ Shown(n).options = {} \/ Shown(n).value = url.params[n]
    BY <1>2, <1>6, <2>1, <2>3 DEF DInv, UrlHasValue
  <2> QED
    BY <2>2, <2>4 DEF Fresh
<1>7. LoadingHasReason'
  BY <1>4 DEF LoadingHasReason
<1>8. ValueIsOffered'
  BY <1>5 DEF ValueIsOffered
<1>9. UrlHasValue'
  BY <1>6 DEF UrlHasValue
<1> QED
  BY <1>7, <1>8, <1>9

(* Nobody but a link leaves the project open.                              *)
LEMMA OtherKnowsProject ==
  ASSUME DInv, Answer \/ Fail \/ UserEvent
  PROVE  ProjectIsKnown'
<1>1. Stable /\ page' = page /\ url.project # NoValue /\ url \in Url
  BY OtherSteps DEF DInv, OInv, LInv, ProjectIsKnown
<1>2. ASSUME NEW b, NEW p \in Projects \cup {url.project}, url' = UrlOf(b, p) PROVE url'.project # NoValue
  <2>1. DOMAIN Nothing.url = {"board", "params", "project", "refresh", "range"}
    BY DEF Nothing
  <2> QED
    BY <1>1, <1>2, <2>1, ValuesAssumption DEF UrlOf, NoValue
<1>3. CASE Answer \/ Fail
  <2>1. url' = url
    BY <1>3 DEF Answer, Fail, BoardsLoaded, BoardsFail, OptionsLoaded, OptionsFail, Load
  <2> QED
    BY <1>1, <2>1 DEF ProjectIsKnown
<1>4. CASE UserEvent
  <2>1. CASE PickRange \/ PickInterval \/ \E n \in Names, v \in Value : PickValue(n, v)
    <3>1. url'.project = url.project
      BY <1>1, <2>1 DEF PickRange, PickInterval, PickValue, Url
    <3> QED
      BY <1>1, <3>1 DEF ProjectIsKnown
  <2>2. CASE \E b \in Board : PickBoard(b)
    BY <1>2, <2>2 DEF PickBoard, Change, ProjectIsKnown
  <2>3. CASE \E p \in Projects : PickProject(p)
    BY <1>2, <2>3 DEF PickProject, Change, ProjectIsKnown
  <2> QED
    BY <1>4, <2>1, <2>2, <2>3 DEF UserEvent
<1> QED
  BY <1>3, <1>4

LEMMA InitDropdowns == Init => DInv
<1> SUFFICES ASSUME Init PROVE DInv
  OBVIOUS
<1>1. Mounted(Rendered) = {}
  BY DEF Init, Mounted, Rendered, VariablesOf
<1>2. ~Stable
  BY DEF Init, Stable, Rendered, Nothing
<1>3. url.project = page.previousProject
  BY DEF Init
<1> QED
  BY <1>1, <1>2, <1>3, InitAnswers DEF DInv, RequestsBelong, Init, LoadingHasReason, ValueIsOffered, UrlHasValue, ProjectIsKnown

(* A dropdown that is done, one with a query.                              *)
Done(n) ==
  /\ ~Shown(n).isLoading
  /\ Shown(n).value \in ValuesAtRest(n)
  /\ Consistent(n, Rendered)

(* A dropdown is done when the one it uses is.                             *)
LEMMA UsedDoneFirst ==
  ASSUME HasOptions, DInv, Quiet, failures = 0, NEW n \in Mounted(Rendered), Shown(n).hasQuery,
         LET used == Template[n].uses
         IN  used \in Mounted(Rendered) /\ Shown(used).hasQuery => Done(used)
  PROVE  Done(n)
<1> DEFINE used == Template[n].uses
           q == QueryOf(n, Rendered)
<1>1. /\ LInv /\ Rendered.url = url /\ Rendered.variables = VariablesOf(url.board)
      /\ url.board \in Board /\ n \in Names /\ n \in Variables[url.board]
      /\ Whole(Rendered.variables, url.board)
      /\ Shown(n) \in Variable /\ url \in Url
  <2>1. LInv /\ n \in DOMAIN Rendered.variables
    BY DEF DInv, OInv, Mounted
  <2>2. url.board \in Board /\ n \in Names /\ Shown(n) \in Variable
    BY <2>1, ShownType
  <2>3. n \in Variables[url.board] /\ Whole(Rendered.variables, url.board)
    BY <2>1, RenderedType DEF VariablesOK, Shown
  <2> QED
    BY <2>1, <2>2, <2>3, RenderedType DEF LInv
<1>2. url.project \in Projects
  BY <1>1 DEF DInv, ProjectIsKnown, Quiet, Url
<1>3. q \in AskedAtRest(n, url.board) /\ q \in Asked
  <2>1. CASE used \notin Variables[url.board]
    <3>1. q = NoValue
      BY <1>1, <2>1 DEF QueryOf, evaluateVariableTemplate, Whole, Shown
    <3> HIDE DEF q
    <3>2. NoValue \in Asked
      BY DEF Asked, Value
    <3>3. AskedAtRest(n, url.board) = {NoValue}
      BY <2>1 DEF AskedAtRest
    <3> QED
      BY <3>1, <3>2, <3>3
  <2>2. CASE used \in Variables[url.board]
    <3>1. used \in Mounted(Rendered) /\ (Shown(used).hasQuery <=> Template[used].type = "query")
      BY <1>1, <2>2 DEF Mounted, Whole, Shown
    <3>2. ~Rendered.variables[used].isLoading /\ Rendered.variables[used].value \in Value
      <4>1. VariableOK(Shown(used))
        BY <1>1, <3>1, RenderedType DEF Mounted, Shown
      <4>2. Shown(used).hasQuery => ~Shown(used).isLoading
        BY <3>1 DEF Done
      <4> QED
        BY <4>1, <4>2 DEF VariableOK, Variable, Shown
    <3>3. Template[used].type = "query" => Rendered.variables[used].value \in ValuesAtRest(used)
      BY <3>1 DEF Done, Shown
    <3>4. q = IF Fixed(used, url.project) THEN url.project ELSE Rendered.variables[used].value
      BY <1>1, <2>2, <3>1, <3>2 DEF QueryOf, evaluateVariableTemplate, Whole, Shown
    <3> HIDE DEF q
    <3>5. q \in Asked
      BY <1>2, <3>2, <3>4 DEF Asked
    <3>6. CASE Template[used].type # "query"
      BY <2>2, <3>5, <3>6 DEF AskedAtRest
    <3>7. CASE Template[used].type = "query" /\ Fixed(used, url.project)
      BY <1>2, <2>2, <3>4, <3>5, <3>7 DEF AskedAtRest, Fixed
    <3>8. CASE Template[used].type = "query" /\ ~Fixed(used, url.project)
      BY <2>2, <3>3, <3>4, <3>5, <3>8 DEF AskedAtRest
    <3> QED
      BY <3>5, <3>6, <3>7, <3>8
  <2> QED
    BY <2>1, <2>2
<1>4. Offered[n][q] # {} /\ Offered[n][q] # Template[n].options
  <2>1. Template[n].type = "query"
    BY <1>1 DEF Whole, Mounted, Shown
  <2> HIDE DEF q
  <2> QED
    BY <1>1, <1>3, <2>1 DEF HasOptions
<1>5. Shown(n).options = Offered[n][q]
  <2>1. Same(n, Rendered, page.seen)
    BY StableIsSame DEF Quiet
  <2>2. Answered(n) /\ requests = {}
    BY <2>1 DEF DInv, OInv, Quiet
  <2>3. q # Undefined
    BY <1>3, ValuesAssumption DEF Asked, Value, NoValue, Undefined
  <2> QED
    BY <2>2, <2>3 DEF Answered, HasItsOptions, Shown
<1>6. ~Fresh(n) /\ Shown(n).options # {}
  BY <1>4, <1>5 DEF Fresh
<1>7. ~Shown(n).isLoading
  BY <1>6 DEF DInv, LoadingHasReason, Quiet
<1>8. Shown(n).value \in Shown(n).options \cup {All}
  BY <1>6 DEF DInv, ValueIsOffered
<1>9. Shown(n).value = url.params[n]
  <2>1. Settled(n)
    BY DEF Quiet, Stable, Settled, Rendered
  <2> QED
    BY <1>6, <2>1 DEF DInv, UrlHasValue
<1>10. Consistent(n, Rendered)
  BY <1>1, <1>5, <1>7, <1>8, <1>9 DEF Consistent, Shown
<1>11. Shown(n).value \in ValuesAtRest(n)
  <2> HIDE DEF q
  <2> QED
    BY <1>3, <1>5, <1>8 DEF ValuesAtRest
<1> QED
  BY <1>7, <1>10, <1>11 DEF Done

(* All are done, by the ranks of the variables.                            *)
LEMMA AllDone ==
  ASSUME HasOptions, Grounded, DInv, Quiet, failures = 0, NEW n \in Mounted(Rendered),
         Shown(n).hasQuery
  PROVE  Done(n)
<1>1. PICK rank \in [Names -> 0 .. Cardinality(Names)] :
        \A m \in Names : Template[m].uses \in Names => rank[Template[m].uses] < rank[m]
  BY DEF Grounded
<1> DEFINE M == Mounted(Rendered)
           Late == {m \in M : Shown(m).hasQuery /\ ~Done(m)}
           Waiting == {rank[m] : m \in Late}
<1>2. M \subseteq Names
  BY RenderedType DEF DInv, OInv, Mounted
<1> SUFFICES ASSUME ~Done(n) PROVE FALSE
  OBVIOUS
<1> HIDE DEF M
<1>3. Waiting \subseteq Nat /\ Waiting # {}
  BY <1>2 DEF M
<1>4. PICK m \in Late : \A k \in Late : rank[m] <= rank[k]
  <2> HIDE DEF Waiting
  <2>1. PICK x \in Waiting : \A y \in Waiting : x <= y
    BY <1>3, LeastMember
  <2> QED
    BY <2>1 DEF Waiting
<1>5. Template[m].uses \in M /\ Shown(Template[m].uses).hasQuery => Done(Template[m].uses)
  <2> SUFFICES ASSUME Template[m].uses \in Late PROVE FALSE
    OBVIOUS
  <2> DEFINE k == Template[m].uses
  <2>1. k \in Names /\ m \in Names
    BY <1>2
  <2>2. rank[k] < rank[m] /\ rank[m] <= rank[k]
    BY <1>1, <1>4, <2>1
  <2>3. rank[k] \in Nat /\ rank[m] \in Nat
    BY <2>1
  <2> QED
    BY <2>2, <2>3
<1> QED
  BY <1>4, <1>5, UsedDoneFirst DEF M

(* When every request is answered, each dropdown with a query shows the    *)
(* options the servers have for the values selected now, one of them is    *)
(* selected, and the URL says which, whatever was asked and in whatever    *)
(* order it was answered: if the servers have options of their own for the *)
(* variables, and these do not use one another in a circle (the effects of *)
(* LegacyVariableDropdowns.tsx).                                           *)
THEOREM DropdownsMatch ==
  ASSUME HasOptions, Grounded
  PROVE  Spec => []OptionsMatchQueries
<1>1. ASSUME DInv, [Next]_vars PROVE DInv'
  <2>1. CASE UNCHANGED vars
    <3>1. Rendered' = Rendered
      BY <2>1 DEF vars, Rendered, VariablesOf
    <3>2. OInv'
      BY <1>1, <2>1, UnchangedAnswers DEF DInv
    <3>3. RequestsBelong' /\ LoadingHasReason' /\ ValueIsOffered' /\ UrlHasValue' /\ ProjectIsKnown'
      BY <1>1, <2>1, <3>1 DEF vars, DInv, RequestsBelong, Mounted, LoadingHasReason, ValueIsOffered, UrlHasValue, ProjectIsKnown,
                              Shown, Fresh, Settled, Stable
    <3> QED
      BY <3>2, <3>3 DEF DInv
  <2>2. CASE Commit(AllProjects)
    BY <1>1, <2>2, CommitAnswers, CommitRequests, CommitKeeps, CommitKnowsProject DEF DInv
  <2>3. CASE Answer \/ Fail \/ UserEvent
    <3>1. RequestsBelong'
      BY <1>1, <2>3, OtherSteps DEF DInv, RequestsBelong, Mounted
    <3> QED
      BY <1>1, <2>3, <3>1, OtherAnswers, OtherKeeps, OtherKnowsProject DEF DInv
  <2> QED
    BY <1>1, <2>1, <2>2, <2>3 DEF Next
<1>2. DInv => OptionsMatchQueries
  BY AllDone DEF OptionsMatchQueries, Done, Shown
<1> QED
  BY <1>1, <1>2, InitDropdowns, PTL DEF Spec
=============================================================================
