------------------------ MODULE DatasourceCacheProofs ------------------------
(***************************************************************************)
(* Proofs about DatasourceCache.  Every hit is stored for some question,   *)
(* with a resource that answers it, and questions share a key only if they *)
(* read alike.  So a panel whose question none reads like is given what it *)
(* asked for, and for those the cache implements DatasourceService.        *)
(***************************************************************************)
EXTENDS DatasourceCache, SequenceTheorems, TLAPS

(* Names and projects without hyphens, none of them called like another.   *)
PlainNames ==
  /\ \A n \in Names \cup Projects : n \in Seq(STRING) /\ Len(n) = 1
  /\ Names \cap Projects = {}

----------------------------------------------------------------------------
(* What an entry is stored for                                             *)

StoredFor(e, q) == e.key = QuestionKey(q) /\ Answers(e.resource, q)

EntriesAnswer(table, scopes) ==
  \A e \in table : e.resource.scope \in scopes /\ \E q \in Questions : StoredFor(e, q)

(* The answers on their way.                                               *)
CallsAnswer ==
  \A c \in Calls :
    /\ call[c].phase = "got" /\ call[c].result # Undefined
         => Answers(call[c].result, call[c].question)
    /\ call[c].phase = "listed" =>
         call[c].list \subseteq {d \in Resources : d.scope = call[c].question.scope}

(* The inductive invariant.                                                *)
CInv ==
  /\ TypeOK
  /\ CallsAnswer
  /\ EntriesAnswer(datasources, Projects)
  /\ EntriesAnswer(globalDatasources, {Global})

----------------------------------------------------------------------------
(* Tables                                                                  *)

(* The two questions a resource answers, and their keys.                   *)
LEMMA ResourceQuestions ==
  ASSUME NEW d \in Resources
  PROVE  /\ \E q \in Questions : QuestionKey(q) = NameKey(d) /\ Answers(d, q)
         /\ d.default => \E q \in Questions : QuestionKey(q) = DefaultKey(d) /\ Answers(d, q)
<1>1. NoName \notin Names
  BY KeyPartsAssumption DEF NoName
<1> DEFINE byName == [scope |-> d.scope, selector |-> [kind |-> d.kind, name |-> d.name]]
           byDefault == [scope |-> d.scope, selector |-> [kind |-> d.kind, name |-> NoName]]
<1>2. byName \in Questions /\ byDefault \in Questions
  BY DEF Questions, Selectors, Resources
<1>3. d.name # NoName
  BY <1>1 DEF Resources
<1>4. QuestionKey(byName) = NameKey(d) /\ Answers(d, byName)
  BY <1>3 DEF QuestionKey, NameKey, Answers
<1>5. QuestionKey(byDefault) = DefaultKey(d) /\ (d.default => Answers(d, byDefault))
  BY DEF QuestionKey, DefaultKey, Answers
<1> QED
  BY <1>2, <1>4, <1>5

LEMMA ResourceKeys ==
  ASSUME NEW d \in Resources
  PROVE  NameKey(d) \in Keys /\ (d.default => DefaultKey(d) \in Keys)
BY ResourceQuestions DEF Keys

LEMMA PutTable ==
  ASSUME NEW V, NEW table \in Tables(V), NEW key \in Keys, NEW v \in V
  PROVE  Put(table, key, v) \in Tables(V)
BY TtlAssumption DEF Tables, Put

LEMMA PutAnswers ==
  ASSUME NEW table, NEW scopes, EntriesAnswer(table, scopes), NEW key, NEW v, v.scope \in scopes,
         \E q \in Questions : QuestionKey(q) = key /\ Answers(v, q)
  PROVE  EntriesAnswer(Put(table, key, v), scopes)
BY DEF EntriesAnswer, StoredFor, Put

LEMMA SetTable ==
  ASSUME NEW table \in Tables(Resources), NEW scopes, EntriesAnswer(table, scopes),
         NEW d \in Resources, d.scope \in scopes
  PROVE  /\ setDatasource(table, d) \in Tables(Resources)
         /\ EntriesAnswer(setDatasource(table, d), scopes)
<1> DEFINE first == IF d.default THEN Put(table, DefaultKey(d), d) ELSE table
<1>1. first \in Tables(Resources) /\ EntriesAnswer(first, scopes)
  BY PutTable, PutAnswers, ResourceQuestions, ResourceKeys
<1>2. setDatasource(table, d) = Put(first, NameKey(d), d)
  BY DEF setDatasource
<1> HIDE DEF first
<1> QED
  BY <1>1, <1>2, PutTable, PutAnswers, ResourceQuestions, ResourceKeys

LEMMA ListedTable ==
  ASSUME NEW table \in Tables(Resources), NEW scopes, EntriesAnswer(table, scopes),
         NEW list \in SUBSET {d \in Resources : d.scope \in scopes},
         NEW new \in ListedTables(table, list)
  PROVE  new \in Tables(Resources) /\ EntriesAnswer(new, scopes)
<1>1. ASSUME NEW e \in new
      PROVE  \/ e \in table
             \/ \E d \in list : e = [key |-> NameKey(d), resource |-> d, ttl |-> Ttl]
             \/ \E d \in list :
                  d.default /\ e = [key |-> DefaultKey(d), resource |-> d, ttl |-> Ttl]
  BY DEF ListedTables
<1>2. \A d \in list : d \in Resources /\ d.scope \in scopes
  OBVIOUS
<1>3. ASSUME NEW e \in new
      PROVE  /\ e \in [key : Keys, resource : Resources, ttl : 1 .. Ttl]
             /\ e.resource.scope \in scopes /\ \E q \in Questions : StoredFor(e, q)
  <2>1. CASE e \in table
    BY <2>1 DEF Tables, EntriesAnswer
  <2>2. CASE \E d \in list : e = [key |-> NameKey(d), resource |-> d, ttl |-> Ttl]
    BY <2>2, <1>2, ResourceKeys, ResourceQuestions, TtlAssumption DEF StoredFor
  <2>3. CASE \E d \in list :
               d.default /\ e = [key |-> DefaultKey(d), resource |-> d, ttl |-> Ttl]
    BY <2>3, <1>2, ResourceKeys, ResourceQuestions, TtlAssumption DEF StoredFor
  <2> QED
    BY <1>1, <2>1, <2>2, <2>3
<1> QED
  BY <1>3 DEF Tables, EntriesAnswer

LEMMA AgedEntries ==
  ASSUME NEW S, NEW table \in SUBSET S, NEW e \in Aged(table)
  PROVE  \E f \in table : f.ttl > 1 /\ e = [f EXCEPT !.ttl = f.ttl - 1]
BY DEF Aged

LEMMA AgedTable ==
  ASSUME NEW V, NEW table \in Tables(V)
  PROVE  /\ Aged(table) \in Tables(V)
         /\ \A scopes : EntriesAnswer(table, scopes) => EntriesAnswer(Aged(table), scopes)
<1>1. ASSUME NEW e \in Aged(table)
      PROVE  /\ e \in [key : Keys, resource : V, ttl : 1 .. Ttl]
             /\ \E f \in table : f.key = e.key /\ f.resource = e.resource
  <2>1. PICK f \in table : f.ttl > 1 /\ e = [f EXCEPT !.ttl = f.ttl - 1]
    BY AgedEntries DEF Tables
  <2>2. f \in [key : Keys, resource : V, ttl : 1 .. Ttl]
    BY DEF Tables
  <2> QED
    BY <2>1, <2>2, TtlAssumption
<1> QED
  BY <1>1 DEF Tables, EntriesAnswer, StoredFor

----------------------------------------------------------------------------
(* The steps                                                               *)

LEMMA InitInvariant ==
  ASSUME Init
  PROVE  CInv
<1>1. TypeOK
  BY ExistingAssumption DEF Init, TypeOK, Tables, CallStates
<1>2. CallsAnswer
  BY DEF Init, CallsAnswer, Idle
<1> QED
  BY <1>1, <1>2 DEF Init, CInv, EntriesAnswer

LEMMA ServerSteps ==
  ASSUME CInv, Create \/ Delete
  PROVE  CInv'
BY DEF CInv, TypeOK, CallsAnswer, EntriesAnswer, Create, Delete, cache

(* A call that changes alone leaves the invariant to its new state.        *)
LEMMA CallStep ==
  ASSUME CInv, NEW c \in Calls, NEW new \in CallStates,
         call' = [call EXCEPT ![c] = new],
         new.phase = "got" /\ new.result # Undefined => Answers(new.result, new.question),
         new.phase = "listed" => new.list \subseteq {d \in Resources : d.scope = new.question.scope}
  PROVE  call' \in [Calls -> CallStates] /\ CallsAnswer'
<1>1. call' \in [Calls -> CallStates]
  BY DEF CInv, TypeOK
<1>2. ASSUME NEW b \in Calls
      PROVE  call'[b] = IF b = c THEN new ELSE call[b]
  BY DEF CInv, TypeOK
<1>3. CallsAnswer'
  BY <1>2 DEF CInv, CallsAnswer
<1> QED
  BY <1>1, <1>3

LEMMA CallEnds ==
  ASSUME CInv, NEW c \in Calls, call' = [call EXCEPT ![c] = Idle]
  PROVE  call' \in [Calls -> CallStates] /\ CallsAnswer'
<1>1. Idle \in CallStates /\ Idle.phase = "idle"
  BY DEF CallStates, Idle
<1> QED
  BY <1>1, CallStep

(* What a call may wait for.                                               *)
LEMMA CallTypes ==
  ASSUME NEW q \in Questions
  PROVE  /\ [phase |-> "get", question |-> q] \in CallStates
         /\ [phase |-> "list", question |-> q] \in CallStates
         /\ \A r \in Resources \cup {Undefined} :
              [phase |-> "got", question |-> q, result |-> r] \in CallStates
         /\ \A list \in SUBSET Resources :
              [phase |-> "listed", question |-> q, list |-> list] \in CallStates
BY DEF CallStates

LEMMA CallQuestion ==
  ASSUME TypeOK, NEW c \in Calls, call[c].phase # "idle"
  PROVE  call[c].question \in Questions
BY DEF TypeOK, CallStates, Idle

LEMMA RequestCalls ==
  ASSUME CInv, NEW c \in Calls, Get(c) \/ List(c) \/ ServerAnswers(c) \/ ServerFails(c)
  PROVE  call' \in [Calls -> CallStates] /\ CallsAnswer'
<1>1. CASE Get(c)
  <2>1. PICK q \in Questions : call' = [call EXCEPT ![c] = [phase |-> "get", question |-> q]]
    BY <1>1 DEF Get
  <2> DEFINE new == [phase |-> "get", question |-> q]
  <2>2. new \in CallStates /\ new.phase = "get"
    BY CallTypes
  <2> HIDE DEF new
  <2> QED
    BY <2>1, <2>2, CallStep DEF new
<1>2. CASE List(c)
  <2>1. PICK q \in Questions : call' = [call EXCEPT ![c] = [phase |-> "list", question |-> q]]
    BY <1>2 DEF List
  <2> DEFINE new == [phase |-> "list", question |-> q]
  <2>2. new \in CallStates /\ new.phase = "list"
    BY CallTypes
  <2> HIDE DEF new
  <2> QED
    BY <2>1, <2>2, CallStep DEF new
<1>3. CASE ServerAnswers(c)
  <2> DEFINE q == call[c].question
  <2>0. q \in Questions
    BY <1>3, CallQuestion DEF ServerAnswers, CInv
  <2>1. CASE call[c].phase = "get"
    <3>1. PICK r \in Resources \cup {Undefined} :
            /\ r # Undefined => Answers(r, q)
            /\ call' = [call EXCEPT ![c] = [phase |-> "got", question |-> q, result |-> r]]
      BY <1>3, <2>1 DEF ServerAnswers, CInv, TypeOK
    <3> DEFINE new == [phase |-> "got", question |-> q, result |-> r]
    <3>2. new \in CallStates /\ new.phase = "got" /\ new.result = r /\ new.question = q
      BY <2>0, CallTypes
    <3> HIDE DEF new, q
    <3> QED
      BY <3>1, <3>2, CallStep DEF new
  <2>2. CASE call[c].phase = "list"
    <3>1. PICK list \in SUBSET {d \in Resources : d.scope = q.scope} :
            call' = [call EXCEPT ![c] = [phase |-> "listed", question |-> q, list |-> list]]
      BY <1>3, <2>2 DEF ServerAnswers, CInv, TypeOK
    <3> DEFINE new == [phase |-> "listed", question |-> q, list |-> list]
    <3>2. /\ new \in CallStates /\ new.phase = "listed"
          /\ new.list \subseteq {d \in Resources : d.scope = new.question.scope}
      BY <2>0, CallTypes
    <3> HIDE DEF new, q
    <3> QED
      BY <3>1, <3>2, CallStep DEF new
  <2> QED
    BY <1>3, <2>1, <2>2 DEF ServerAnswers
<1>4. CASE ServerFails(c)
  <2> DEFINE q == call[c].question
             new == [phase |-> "listed", question |-> q, list |-> {}]
  <2>1. q \in Questions
    BY <1>4, CallQuestion DEF ServerFails, CInv
  <2>2. new \in CallStates /\ new.phase = "listed" /\ new.list = {}
    BY <2>1, CallTypes
  <2>3. call' = [call EXCEPT ![c] = new] \/ call' = [call EXCEPT ![c] = Idle]
    BY <1>4 DEF ServerFails
  <2> HIDE DEF new, q
  <2> QED
    BY <2>2, <2>3, CallStep, CallEnds
<1> QED
  BY <1>1, <1>2, <1>3, <1>4

LEMMA RequestSteps ==
  ASSUME CInv, NEW c \in Calls, Get(c) \/ List(c) \/ ServerAnswers(c) \/ ServerFails(c)
  PROVE  CInv'
<1>1. call' \in [Calls -> CallStates] /\ CallsAnswer'
  BY RequestCalls
<1>2. CASE Get(c) \/ List(c) \/ ServerAnswers(c)
  BY <1>1, <1>2
  DEF Get, List, ServerAnswers, CInv, TypeOK, EntriesAnswer, cache
<1>3. CASE ServerFails(c)
  BY <1>1, <1>3 DEF ServerFails, CInv, TypeOK, EntriesAnswer, cache
<1> QED
  BY <1>2, <1>3

LEMMA FoundStep ==
  ASSUME CInv, NEW c \in Calls, GotFound(c)
  PROVE  CInv'
<1>1. call' \in [Calls -> CallStates] /\ CallsAnswer'
  BY CallEnds DEF GotFound
<1>2. /\ call[c].result \in Resources /\ call[c].question \in Questions
      /\ call[c].result.scope = call[c].question.scope
  BY DEF GotFound, CInv, CallsAnswer, Answers, TypeOK, CallStates, Idle
<1>3. /\ datasources' \in Tables(Resources) /\ EntriesAnswer(datasources', Projects)
      /\ globalDatasources' \in Tables(Resources) /\ EntriesAnswer(globalDatasources', {Global})
  <2>1. CASE call[c].question.scope = Global
    BY <1>2, <2>1, SetTable DEF GotFound, CInv, TypeOK
  <2>2. CASE call[c].question.scope # Global
    <3>1. call[c].question.scope \in Projects
      BY <1>2, <2>2 DEF Questions, Scopes
    <3> QED
      BY <1>2, <2>2, <3>1, SetTable DEF GotFound, CInv, TypeOK
  <2> QED
    BY <2>1, <2>2
<1> QED
  BY <1>1, <1>3 DEF GotFound, CInv, TypeOK, EntriesAnswer

LEMMA ListedStep ==
  ASSUME CInv, NEW c \in Calls, Listed(c)
  PROVE  CInv'
<1>1. call' \in [Calls -> CallStates] /\ CallsAnswer'
  BY CallEnds DEF Listed
<1>2. /\ call[c].list \in SUBSET {d \in Resources : d.scope = call[c].question.scope}
      /\ call[c].question \in Questions
  BY DEF Listed, CInv, CallsAnswer, TypeOK, CallStates, Idle
<1>3. /\ datasources' \in Tables(Resources) /\ EntriesAnswer(datasources', Projects)
      /\ globalDatasources' \in Tables(Resources) /\ EntriesAnswer(globalDatasources', {Global})
  <2>1. CASE call[c].question.scope = Global
    BY <1>2, <2>1, ListedTable DEF Listed, CInv, TypeOK
  <2>2. CASE call[c].question.scope # Global
    <3>1. call[c].question.scope \in Projects
      BY <1>2, <2>2 DEF Questions, Scopes
    <3> QED
      BY <1>2, <2>2, <3>1, ListedTable DEF Listed, CInv, TypeOK
  <2> QED
    BY <2>1, <2>2
<1> QED
  BY <1>1, <1>3 DEF Listed, CInv, TypeOK, EntriesAnswer

LEMMA UndefinedStep ==
  ASSUME CInv, NEW c \in Calls, GotUndefined(c)
  PROVE  CInv'
<1>1. call' \in [Calls -> CallStates] /\ CallsAnswer'
  BY CallEnds DEF GotUndefined
<1>2. call[c].question \in Questions
  BY DEF GotUndefined, CInv, TypeOK, CallStates, Idle
<1>3. emptyDatasources' \in Tables({Undefined})
  BY <1>2, PutTable DEF GotUndefined, CInv, TypeOK, Keys
<1> QED
  BY <1>1, <1>3 DEF GotUndefined, CInv, TypeOK, EntriesAnswer

LEMMA TickStep ==
  ASSUME CInv, Tick
  PROVE  CInv'
<1>1. /\ datasources' \in Tables(Resources) /\ EntriesAnswer(datasources', Projects)
      /\ globalDatasources' \in Tables(Resources) /\ EntriesAnswer(globalDatasources', {Global})
      /\ emptyDatasources' \in Tables({Undefined})
  BY AgedTable DEF Tick, CInv, TypeOK
<1> QED
  BY <1>1 DEF Tick, CInv, TypeOK, CallsAnswer, EntriesAnswer

----------------------------------------------------------------------------
(* Theorems                                                                *)

(* Every hit of the cache was stored for a question that it answers        *)
(* (CachedDatasourceAPI).                                                  *)
THEOREM CacheInvariant == Spec => []CInv
<1>1. Init => CInv
  BY InitInvariant
<1>2. CInv /\ [Next]_vars => CInv'
  <2> SUFFICES ASSUME CInv, [Next]_vars PROVE CInv'
    OBVIOUS
  <2>1. CASE UNCHANGED vars
    BY <2>1 DEF vars, cache, CInv, TypeOK, CallsAnswer, EntriesAnswer
  <2> QED
    BY <2>1, ServerSteps, RequestSteps, FoundStep, ListedStep, UndefinedStep, TickStep
    DEF Next, Callback
<1> QED
  BY <1>1, <1>2, PTL DEF Spec

(* The tables, the calls in flight and the server stay well typed for any  *)
(* kinds, names and projects (datasource-cache-api.ts).                    *)
COROLLARY CacheTypeCorrect == Spec => []TypeOK
BY CacheInvariant, PTL DEF CInv

LEMMA KindTexts ==
  ASSUME NEW q \in Questions
  PROVE  q.selector.kind \in STRING
<1>1. q.selector.kind \in Kinds
  BY DEF Questions, Selectors
<1>2. Kinds \subseteq STRING
  BY KeyPartsAssumption
<1> QED
  BY <1>1, <1>2

(* The keys of questions are kinds before texts of names and projects.     *)
LEMMA KeyParts ==
  ASSUME NEW q \in Questions
  PROVE  /\ q.selector.name \o q.scope \in Seq(STRING)
         /\ q.selector.kind \in STRING
         /\ QuestionKey(q) = <<q.selector.kind>> \o (q.selector.name \o q.scope)
<1> DEFINE k == <<q.selector.kind>>
           n == q.selector.name
           s == q.scope
<1>1. q.selector.kind \in STRING /\ k \in Seq(STRING)
  <2>1. q.selector.kind \in STRING
    BY KindTexts
  <2> QED
    BY <2>1
<1>2. << >> \in Seq(STRING)
  OBVIOUS
<1>3. n \in Seq(STRING) /\ s \in Seq(STRING)
  BY <1>2, KeyPartsAssumption DEF Questions, Selectors, Scopes, NoName, Global
<1>4. QuestionKey(q) = (k \o n) \o s
  BY DEF QuestionKey, generateKey
<1> HIDE DEF k, n, s
<1>5. (k \o n) \o s = k \o (n \o s) /\ n \o s \in Seq(STRING)
  BY <1>1, <1>3, ConcatAssociative, ConcatProperties
<1> QED
  BY <1>1, <1>4, <1>5 DEF k, n, s

(* Questions share a key exactly when they read alike (generateKey).       *)
THEOREM SharedKeysReadAlike ==
  ASSUME NEW p \in Questions, NEW q \in Questions
  PROVE  QuestionKey(p) = QuestionKey(q) <=> p \in Alike(q)
<1> DEFINE k(x) == <<x.selector.kind>>
           t(x) == x.selector.name \o x.scope
<1>1. \A x \in {p, q} : QuestionKey(x) = k(x) \o t(x)
  BY KeyParts
<1>2. \A x \in {p, q} :
        /\ k(x) \in Seq(STRING) /\ Len(k(x)) = 1 /\ k(x)[1] = x.selector.kind
        /\ t(x) \in Seq(STRING)
  <2>1. \A x \in {p, q} : x.selector.kind \in STRING /\ t(x) \in Seq(STRING)
    BY KeyParts
  <2> QED
    BY <2>1
<1>3. p \in Alike(q) <=> p.selector.kind = q.selector.kind /\ t(p) = t(q)
  BY DEF Alike
<1> HIDE DEF t
<1>4. ASSUME k(p) \o t(p) = k(q) \o t(q)
      PROVE  p.selector.kind = q.selector.kind /\ t(p) = t(q)
  <2> HIDE DEF k
  <2>1. (k(p) \o t(p))[1] = k(p)[1] /\ (k(q) \o t(q))[1] = k(q)[1]
    BY <1>2, ConcatProperties
  <2>2. p.selector.kind = q.selector.kind
    BY <1>2, <1>4, <2>1
  <2>3. k(p) = k(q)
    BY <2>2 DEF k
  <2>4. t(p) = t(q)
    BY <1>2, <1>4, <2>3, ConcatSimplifications
  <2> QED
    BY <2>2, <2>4
<1>5. ASSUME p.selector.kind = q.selector.kind, t(p) = t(q)
      PROVE  k(p) \o t(p) = k(q) \o t(q)
  BY <1>5
<1> HIDE DEF k
<1> QED
  BY <1>1, <1>3, <1>4, <1>5

(* A question that none reads like has its key for itself.                 *)
LEMMA ApartKeys ==
  ASSUME NEW p \in Questions, NEW q \in Apart, QuestionKey(p) = QuestionKey(q)
  PROVE  p = q
BY SharedKeysReadAlike DEF Apart

(* A panel is only ever given what it asked for, or what answers a         *)
(* question that reads the same (getDatasource, getGlobalDatasource).      *)
THEOREM RightAnswers == Spec => []RightDatasource
<1>1. CInv => RightDatasource
  <2> SUFFICES ASSUME CInv, NEW q \in Questions, NEW e \in Hits(q)
               PROVE  /\ \E r \in Alike(q) : Answers(e.resource, r)
                      /\ e.resource.scope = Global <=> q.scope = Global
    BY DEF RightDatasource
  <2>1. /\ \E p \in Questions : StoredFor(e, p)
        /\ e.resource.scope \in IF q.scope = Global THEN {Global} ELSE Projects
    BY DEF Hits, Table, CInv, EntriesAnswer
  <2>2. PICK p \in Questions : StoredFor(e, p)
    BY <2>1
  <2>3. p \in Alike(q)
    BY <2>2, SharedKeysReadAlike DEF StoredFor, Hits
  <2>4. Global \notin Projects
    BY KeyPartsAssumption DEF Global
  <2> QED
    BY <2>1, <2>2, <2>3, <2>4 DEF StoredFor
<1> QED
  BY <1>1, CacheInvariant, PTL

----------------------------------------------------------------------------
(* The cache implements the service.  Memory and Told only change as       *)
(* DatasourceService says: one lemma per way to change them.               *)

LEMMA ApartQuestions == Apart \subseteq Questions
BY DEF Apart

(* What has been told are facts that a call tells.                         *)
ToldAre == Told = {f \in Facts : \E c \in Calls : Tells(c, f)}

LEMMA ToldFacts == TypeOK => ToldAre
<1> SUFFICES ASSUME TypeOK PROVE ToldAre
  OBVIOUS
<1>1. ASSUME NEW c \in Calls
      PROVE  Given(c) \subseteq Resources \cup {Undefined}
  BY DEF TypeOK, CallStates, Given, Idle
<1> QED
  BY <1>1 DEF Told, Facts, Tells, ToldAre

LEMMA ToldFactsNext ==
  ASSUME TypeOK'
  PROVE  Told' = {f \in Facts : \E c \in Calls : Tells(c, f)'}
<1>1. TypeOK' => ToldAre'
  BY ToldFacts, PTL
<1> QED
  BY <1>1 DEF ToldAre

(* What is remembered are facts that a hit or a miss recalls.              *)
Recalls(m) ==
  \/ \E e \in Hits(m.fact.question) : e.resource = m.fact.answer /\ e.ttl = m.ttl
  \/ m.fact.answer = Undefined /\ \E e \in Misses(m.fact.question) : e.ttl = m.ttl

MemoryIs == Memory = {m \in [fact : Facts, ttl : 1 .. Ttl] : Recalls(m)}

LEMMA MemoryFacts == TypeOK => MemoryIs
<1> SUFFICES ASSUME TypeOK PROVE MemoryIs
  OBVIOUS
<1>1. ASSUME NEW q \in Apart
      PROVE  /\ \A e \in Hits(q) : e.resource \in Resources /\ e.ttl \in 1 .. Ttl
             /\ \A e \in Misses(q) : e.resource = Undefined /\ e.ttl \in 1 .. Ttl
  BY DEF TypeOK, Tables, Hits, Misses, Table
<1>2. ASSUME NEW m \in Memory
      PROVE  m \in [fact : Facts, ttl : 1 .. Ttl] /\ Recalls(m)
  <2>0. PICK q \in Apart : \E e \in Hits(q) \cup Misses(q) :
          m = [fact |-> [question |-> q, answer |-> e.resource], ttl |-> e.ttl]
    BY DEF Memory
  <2>1. PICK e \in Hits(q) \cup Misses(q) :
          m = [fact |-> [question |-> q, answer |-> e.resource], ttl |-> e.ttl]
    BY <2>0
  <2> QED
    BY <1>1, <2>1 DEF Facts, Recalls
<1>3. ASSUME NEW m \in [fact : Facts, ttl : 1 .. Ttl], Recalls(m)
      PROVE  m \in Memory
  <2>1. /\ m.fact.question \in Apart
        /\ m = [fact |-> [question |-> m.fact.question, answer |-> m.fact.answer], ttl |-> m.ttl]
    BY DEF Facts
  <2>2. PICK e \in Hits(m.fact.question) \cup Misses(m.fact.question) :
          e.resource = m.fact.answer /\ e.ttl = m.ttl
    BY <1>1, <1>3, <2>1 DEF Recalls
  <2>3. m = [fact |-> [question |-> m.fact.question, answer |-> e.resource], ttl |-> e.ttl]
    BY <2>1, <2>2
  <2> QED
    BY <2>1, <2>3 DEF Memory
<1> QED
  BY <1>2, <1>3 DEF MemoryIs

LEMMA MemoryFactsNext ==
  ASSUME TypeOK'
  PROVE  Memory' = {m \in [fact : Facts, ttl : 1 .. Ttl] : Recalls(m)'}
<1>1. TypeOK' => MemoryIs'
  BY MemoryFacts, PTL
<1> QED
  BY <1>1 DEF MemoryIs

(* An entry that d has been stored in just now.                            *)
NewFor(e, d) ==
  /\ e.resource = d /\ e.ttl = Ttl
  /\ e.key = NameKey(d) \/ (d.default /\ e.key = DefaultKey(d))

Grows(old, new, list) == \A e \in new : e \in old \/ \E d \in list : NewFor(e, d)

LEMMA SetGrows ==
  ASSUME NEW table, NEW d
  PROVE  Grows(table, setDatasource(table, d), {d})
BY DEF Grows, NewFor, setDatasource, Put

LEMMA ListedGrows ==
  ASSUME NEW table, NEW list, NEW new \in ListedTables(table, list)
  PROVE  Grows(table, new, list)
BY DEF Grows, NewFor, ListedTables

LEMMA ResourceDefined ==
  ASSUME NEW d \in Resources
  PROVE  d # Undefined
BY DEF Resources, Undefined

LEMMA NewHitAnswers ==
  ASSUME NEW d \in Resources, NEW q \in Apart, NEW e,
         NewFor(e, d), e.key = QuestionKey(q)
  PROVE  Answers(d, q)
<1>1. PICK p \in Questions : QuestionKey(p) = QuestionKey(q) /\ Answers(d, p)
  BY ResourceQuestions DEF NewFor
<1> QED
  BY <1>1, ApartKeys

LEMMA MemoryKept ==
  ASSUME UNCHANGED cache
  PROVE  Memory' = Memory
BY DEF cache, Memory, Hits, Misses, Table

(* A call that does not carry an answer tells nothing.                     *)
LEMMA ToldShrinks ==
  ASSUME TypeOK, NEW c \in Calls, NEW new, call' = [call EXCEPT ![c] = new],
         new.phase \notin {"got", "listed"}
  PROVE  Told' \subseteq Told
<1>1. \A b \in Calls : call'[b] = IF b = c THEN new ELSE call[b]
  BY DEF TypeOK
<1>2. \A b \in Calls : Given(b)' \subseteq Given(b) /\ (b = c => Given(b)' = {})
  BY <1>1 DEF Given
<1> QED
  BY <1>1, <1>2 DEF Told, Tells

(* What hits learn from answers that were told.                            *)
LEMMA HitsAreTold ==
  ASSUME CInv, CInv', NEW list \in SUBSET Resources,
         Grows(datasources, datasources', list),
         Grows(globalDatasources, globalDatasources', list),
         UNCHANGED emptyDatasources,
         \A f \in Facts : f.answer \in list /\ Answers(f.answer, f.question) => f \in Told
  PROVE  \A m \in Memory' : m \in Memory \/ (m.fact \in Told /\ m.ttl = Ttl)
<1> SUFFICES ASSUME NEW m \in Memory', m \notin Memory
             PROVE  m.fact \in Told /\ m.ttl = Ttl
  OBVIOUS
<1>1. m \in [fact : Facts, ttl : 1 .. Ttl] /\ Recalls(m)' /\ ~Recalls(m)
  BY MemoryFacts, MemoryFactsNext DEF MemoryIs, CInv
<1>2. m.fact \in Facts /\ m.fact.question \in Apart
  BY <1>1 DEF Facts
<1>3. ~ (m.fact.answer = Undefined /\ \E e \in Misses(m.fact.question)' : e.ttl = m.ttl)
  BY <1>1 DEF Recalls, Misses
<1>4. PICK e \in Table(m.fact.question)' :
        /\ e.key = QuestionKey(m.fact.question)
        /\ e.resource = m.fact.answer /\ e.ttl = m.ttl
  BY <1>1, <1>3 DEF Recalls, Hits
<1>5. e \notin Table(m.fact.question)
  BY <1>1, <1>4 DEF Recalls, Hits
<1>6. PICK d \in list : NewFor(e, d)
  BY <1>4, <1>5 DEF Grows, Table
<1>7. Answers(d, m.fact.question)
  BY <1>2, <1>4, <1>6, NewHitAnswers
<1> QED
  BY <1>2, <1>4, <1>6, <1>7 DEF NewFor

LEMMA ServerRefines ==
  ASSUME CInv, CInv', Create \/ Delete
  PROVE  Service!Change
<1>1. server' \in SUBSET Resources
  BY DEF CInv, TypeOK
<1>2. Memory' = Memory
  BY MemoryKept DEF Create, Delete
<1>3. Told' = Told
  BY DEF Create, Delete, Told, Tells, Given
<1> QED
  BY <1>1, <1>2, <1>3 DEF Service!Change

LEMMA AskRefines ==
  ASSUME CInv, NEW c \in Calls, Get(c) \/ List(c)
  PROVE  Service!Say
<1>1. Memory' = Memory /\ UNCHANGED server
  BY MemoryKept DEF Get, List
<1>2. PICK q \in Questions :
        \/ call' = [call EXCEPT ![c] = [phase |-> "get", question |-> q]]
        \/ call' = [call EXCEPT ![c] = [phase |-> "list", question |-> q]]
  BY DEF Get, List
<1>3. Told' \subseteq Told
  BY <1>2, ToldShrinks DEF CInv
<1> QED
  BY <1>1, <1>3 DEF Service!Say

(* The server tells what is true at that moment.                           *)
LEMMA AnswerRefines ==
  ASSUME CInv, CInv', NEW c \in Calls, ServerAnswers(c)
  PROVE  Service!Say
<1> DEFINE q == call[c].question
<1>1. Memory' = Memory /\ UNCHANGED server
  BY MemoryKept DEF ServerAnswers
<1>2. \A b \in Calls : b # c => call'[b] = call[b]
  BY DEF CInv, TypeOK, ServerAnswers
<1>3. \/ call'[c].phase = "got" /\ call'[c].question = q
         /\ IF call'[c].result = Undefined THEN \A d \in server : ~Answers(d, q)
            ELSE call'[c].result \in server
      \/ call'[c].phase = "listed" /\ call'[c].list \subseteq server
  <2>1. c \in DOMAIN call
    BY DEF CInv, TypeOK
  <2>2. CASE call[c].phase = "get"
    <3>1. PICK r \in IF {d \in server : Answers(d, q)} = {} THEN {Undefined}
                     ELSE {d \in server : Answers(d, q)} :
            call' = [call EXCEPT ![c] = [phase |-> "got", question |-> q, result |-> r]]
      BY <2>2 DEF ServerAnswers
    <3>2. call'[c] = [phase |-> "got", question |-> q, result |-> r]
      BY <2>1, <3>1
    <3>3. \A d \in server : d # Undefined
      BY ResourceDefined DEF CInv, TypeOK
    <3> QED
      BY <3>1, <3>2, <3>3
  <2>3. CASE call[c].phase = "list"
    <3>1. call'[c] = [phase |-> "listed", question |-> q,
                      list |-> {d \in server : d.scope = q.scope /\ d.kind = q.selector.kind}]
      BY <2>1, <2>3 DEF ServerAnswers
    <3> QED
      BY <3>1
  <2> QED
    BY <2>2, <2>3 DEF ServerAnswers
<1>4. ASSUME NEW f \in Told', f \notin Told
      PROVE  f \in Service!Facts /\ Service!TrueNow(f)
  <2>0. \A b \in Calls : b # c => Given(b)' = Given(b)
    BY <1>2 DEF Given
  <2>1. f \in Facts /\ Tells(c, f)'
    <3>1. f \in Facts /\ \E b \in Calls : Tells(b, f)'
      BY <1>4, ToldFactsNext DEF CInv
    <3>2. \A b \in Calls : ~Tells(b, f)
      BY <1>4, <3>1, ToldFacts DEF ToldAre, CInv
    <3>3. \A b \in Calls : b # c => ~Tells(b, f)'
      BY <1>2, <2>0, <3>2 DEF Tells
    <3> QED
      BY <3>1, <3>3
  <2>2. \A d \in server : d # Undefined
    BY ResourceDefined DEF CInv, TypeOK
  <2>3. Service!TrueNow(f)
    BY <1>3, <2>1, <2>2 DEF Tells, Given, Service!TrueNow
  <2> QED
    BY <2>1, <2>3 DEF Facts, Service!Facts
<1> QED
  BY <1>1, <1>4 DEF Service!Say

LEMMA FailureRefines ==
  ASSUME CInv, NEW c \in Calls, ServerFails(c)
  PROVE  Service!Say
<1>1. Memory' = Memory /\ UNCHANGED server
  BY MemoryKept DEF ServerFails
<1>2. \A b \in Calls : b # c => call'[b] = call[b]
  BY DEF CInv, TypeOK, ServerFails
<1>3. call'[c].phase = "idle" \/ (call'[c].phase = "listed" /\ call'[c].list = {})
  BY DEF CInv, TypeOK, ServerFails, Idle
<1>4. \A b \in Calls : Given(b)' \subseteq Given(b) /\ (b = c => Given(b)' = {})
  BY <1>2, <1>3 DEF Given
<1>5. Told' \subseteq Told
  BY <1>2, <1>4 DEF Told, Tells
<1> QED
  BY <1>1, <1>5 DEF Service!Say

(* The end of a call tells no more.                                        *)
LEMMA EndShrinks ==
  ASSUME CInv, NEW c \in Calls, call' = [call EXCEPT ![c] = Idle]
  PROVE  Told' \subseteq Told
BY ToldShrinks DEF CInv, Idle

LEMMA FoundRefines ==
  ASSUME CInv, CInv', NEW c \in Calls, GotFound(c)
  PROVE  Service!Remember
<1> DEFINE d == call[c].result
<1>1. d \in Resources /\ d # Undefined /\ call[c].phase = "got"
  BY DEF GotFound, CInv, TypeOK, CallStates, Idle
<1>2. /\ Grows(datasources, datasources', {d})
      /\ Grows(globalDatasources, globalDatasources', {d})
  BY SetGrows DEF GotFound, Grows
<1>3. \A f \in Facts : f.answer \in {d} /\ Answers(f.answer, f.question) => f \in Told
  BY <1>1, ToldFacts DEF ToldAre, CInv, Tells, Given
<1>4. {d} \in SUBSET Resources /\ UNCHANGED emptyDatasources
  BY <1>1 DEF GotFound
<1> HIDE DEF d
<1>5. \A m \in Memory' : m \in Memory \/ (m.fact \in Told /\ m.ttl = Ttl)
  BY <1>2, <1>3, <1>4, HitsAreTold
<1> QED
  BY <1>5, EndShrinks DEF GotFound, Service!Remember

LEMMA ListedRefines ==
  ASSUME CInv, CInv', NEW c \in Calls, Listed(c)
  PROVE  Service!Remember
<1> DEFINE list == call[c].list
<1>1. list \in SUBSET Resources /\ call[c].phase = "listed"
  BY DEF Listed, CInv, TypeOK, CallStates, Idle
<1>2. /\ Grows(datasources, datasources', list)
      /\ Grows(globalDatasources, globalDatasources', list)
  BY ListedGrows DEF Listed, Grows
<1>3. \A f \in Facts : f.answer \in list /\ Answers(f.answer, f.question) => f \in Told
  <2>1. Given(c) = list /\ \A d \in list : d # Undefined
    BY <1>1, ResourceDefined DEF Given
  <2> HIDE DEF list
  <2> QED
    BY <2>1, ToldFacts DEF ToldAre, CInv, Tells
<1>4. UNCHANGED emptyDatasources
  BY DEF Listed
<1> HIDE DEF list
<1>5. \A m \in Memory' : m \in Memory \/ (m.fact \in Told /\ m.ttl = Ttl)
  BY <1>1, <1>2, <1>3, <1>4, HitsAreTold
<1> QED
  BY <1>5, EndShrinks DEF Listed, Service!Remember

(* A miss is remembered for the question it was told for.                  *)
LEMMA UndefinedRefines ==
  ASSUME CInv, CInv', NEW c \in Calls, GotUndefined(c)
  PROVE  Service!Remember
<1> DEFINE q == call[c].question
<1>1. q \in Questions /\ call[c].phase = "got" /\ call[c].result = Undefined
  BY DEF GotUndefined, CInv, TypeOK, CallStates, Idle
<1>2. ASSUME NEW m \in Memory', m \notin Memory
      PROVE  m.fact \in Told /\ m.ttl = Ttl
  <2>1. m \in [fact : Facts, ttl : 1 .. Ttl] /\ Recalls(m)' /\ ~Recalls(m)
    BY <1>2, MemoryFacts, MemoryFactsNext DEF MemoryIs, CInv
  <2>2. m.fact \in Facts /\ m.fact.question \in Apart
    BY <2>1 DEF Facts
  <2>3. Hits(m.fact.question)' = Hits(m.fact.question)
    BY DEF GotUndefined, Hits, Table
  <2>4. m.fact.answer = Undefined /\ \E e \in Misses(m.fact.question)' : e.ttl = m.ttl
    BY <2>1, <2>3 DEF Recalls
  <2>5. PICK e \in emptyDatasources' : e.key = QuestionKey(m.fact.question) /\ e.ttl = m.ttl
    BY <2>4 DEF Misses
  <2>6. e \notin emptyDatasources
    BY <2>1, <2>4, <2>5 DEF Recalls, Misses
  <2>7. e.key = QuestionKey(q) /\ e.ttl = Ttl
    BY <2>5, <2>6 DEF GotUndefined, Put
  <2>8. m.fact.question = q
    BY <1>1, <2>2, <2>5, <2>7, ApartKeys
  <2> QED
    BY <1>1, <2>2, <2>4, <2>5, <2>7, <2>8, ToldFacts DEF ToldAre, CInv, Tells, Given
<1> QED
  BY <1>2, EndShrinks DEF GotUndefined, Service!Remember

LEMMA TickRefines ==
  ASSUME CInv, CInv', Tick
  PROVE  Service!Age
<1>1. Told' = Told /\ UNCHANGED server
  BY DEF Tick, Told, Tells, Given
<1>2. ASSUME NEW V, NEW table \in Tables(V), NEW e \in Aged(table)
      PROVE  \E f \in table : f.key = e.key /\ f.resource = e.resource /\ f.ttl = e.ttl + 1
  <2>1. PICK f \in table : f.ttl > 1 /\ e = [f EXCEPT !.ttl = f.ttl - 1]
    BY <1>2, AgedEntries DEF Tables
  <2>2. f \in [key : Keys, resource : V, ttl : 1 .. Ttl]
    BY <1>2 DEF Tables
  <2> QED
    BY <2>1, <2>2, TtlAssumption
<1>3. ASSUME NEW m \in Memory'
      PROVE  m \in Service!Memories /\ [m EXCEPT !.ttl = m.ttl + 1] \in Memory
  <2>1. m \in [fact : Facts, ttl : 1 .. Ttl] /\ Recalls(m)'
    BY <1>3, MemoryFactsNext DEF CInv
  <2> DEFINE older == [m EXCEPT !.ttl = m.ttl + 1]
             q == m.fact.question
  <2>2. older = [fact |-> m.fact, ttl |-> m.ttl + 1]
    BY <2>1
  <2>3. \/ \E e \in Hits(q) : e.resource = m.fact.answer /\ e.ttl = m.ttl + 1
        \/ m.fact.answer = Undefined /\ \E e \in Misses(q) : e.ttl = m.ttl + 1
    <3>1. CASE \E e \in Hits(q)' : e.resource = m.fact.answer /\ e.ttl = m.ttl
      <4>1. PICK e \in Table(q)' : /\ e.key = QuestionKey(q)
                                   /\ e.resource = m.fact.answer /\ e.ttl = m.ttl
        BY <3>1 DEF Hits
      <4>2. Table(q)' = Aged(Table(q)) /\ Table(q) \in Tables(Resources)
        BY DEF Tick, Table, CInv, TypeOK
      <4> QED
        BY <1>2, <4>1, <4>2 DEF Hits
    <3>2. CASE m.fact.answer = Undefined /\ \E e \in Misses(q)' : e.ttl = m.ttl
      <4>1. PICK e \in emptyDatasources' : e.key = QuestionKey(q) /\ e.ttl = m.ttl
        BY <3>2 DEF Misses
      <4>2. emptyDatasources' = Aged(emptyDatasources) /\ emptyDatasources \in Tables({Undefined})
        BY DEF Tick, CInv, TypeOK
      <4> QED
        BY <1>2, <3>2, <4>1, <4>2 DEF Misses
    <3> QED
      BY <2>1, <3>1, <3>2 DEF Recalls
  <2>4. m.ttl + 1 \in 1 .. Ttl
    BY <2>3 DEF Hits, Misses, Table, CInv, TypeOK, Tables
  <2> HIDE DEF q
  <2>5. older \in Memory
    BY <2>1, <2>2, <2>3, <2>4, MemoryFacts DEF MemoryIs, CInv, Recalls, q
  <2> QED
    BY <2>1, <2>5 DEF Service!Memories, Service!Facts, Facts
<1> QED
  BY <1>1, <1>3 DEF Service!Age

(* For the questions that none reads like, the cache implements the        *)
(* service: whatever it answers without asking, the server has answered to *)
(* that question, truly and within the life of an entry, whatever panels   *)
(* ask that mistake each other's answers (CachedDatasourceAPI).            *)
THEOREM CacheImplementsService == Spec => ImplementsService
<1>1. Init => Service!Init
  BY ExistingAssumption DEF Init, Service!Init, Told, Tells, Given, Memory, Hits, Misses, Table, Idle
<1>2. CInv /\ CInv' /\ [Next]_vars => [Service!Next]_(Service!vars)
  <2> SUFFICES ASSUME CInv, CInv', [Next]_vars
               PROVE  [Service!Next]_(Service!vars)
    OBVIOUS
  <2>1. CASE UNCHANGED vars
    <3>1. Told' = Told /\ Memory' = Memory /\ server' = server
      BY <2>1, MemoryKept DEF vars, Told, Tells, Given
    <3> QED
      BY <3>1 DEF Service!vars
  <2>2. CASE Next
    <3>1. CASE Create \/ Delete
      BY <3>1, ServerRefines DEF Service!Next
    <3>2. CASE Tick
      BY <3>2, TickRefines DEF Service!Next
    <3>3. ASSUME NEW c \in Calls,
                 Get(c) \/ List(c) \/ ServerAnswers(c) \/ ServerFails(c) \/ Callback(c)
          PROVE  Service!Next
      BY <3>3, AskRefines, AnswerRefines, FailureRefines, FoundRefines, ListedRefines,
         UndefinedRefines DEF Service!Next, Callback
    <3> QED
      BY <2>2, <3>1, <3>2, <3>3 DEF Next
  <2> QED
    BY <2>1, <2>2
<1> QED
  BY <1>1, <1>2, CacheInvariant, PTL DEF Spec, ImplementsService, Service!Spec

----------------------------------------------------------------------------
(* Names                                                                   *)

LEMMA NoParts ==
  /\ NoName \in Seq(STRING) /\ Len(NoName) = 0
  /\ Global \in Seq(STRING) /\ Len(Global) = 0
BY DEF NoName, Global

(* Names and projects without hyphens that never coincide are enough for   *)
(* no two questions to read alike: a key then tells how many of its parts  *)
(* are missing and which (generateKey).                                    *)
THEOREM PlainNamesSuffice == PlainNames => Apart = Questions
<1> SUFFICES ASSUME PlainNames, NEW p \in Questions, NEW q \in Questions,
                    QuestionKey(p) = QuestionKey(q)
             PROVE  p = q
  <2> SUFFICES ASSUME PlainNames,
                      \A p, q \in Questions : QuestionKey(p) = QuestionKey(q) => p = q,
                      NEW q \in Questions
               PROVE  Alike(q) = {q}
    BY DEF Apart
  <2>1. q \in Alike(q) /\ Alike(q) \subseteq Questions
    BY DEF Alike
  <2>2. \A p \in Questions : p \in Alike(q) => p = q
    BY SharedKeysReadAlike
  <2> QED
    BY <2>1, <2>2
<1>1. ASSUME NEW x \in Questions
      PROVE  /\ x.selector.kind \in STRING
             /\ x.selector.name = NoName \/ x.selector.name \in Names
             /\ x.scope = Global \/ x.scope \in Projects
  BY KindTexts DEF Questions, Selectors, Scopes
<1>2. \A n \in Names \cup Projects : n \in Seq(STRING) /\ Len(n) = 1
  BY DEF PlainNames
<1>3. ASSUME NEW x \in Questions
      PROVE  /\ QuestionKey(x) \in Seq(STRING)
             /\ Len(QuestionKey(x)) = 1 + Len(x.selector.name) + Len(x.scope)
             /\ QuestionKey(x)[1] = x.selector.kind
             /\ x.selector.name # NoName => QuestionKey(x)[2] = x.selector.name[1]
             /\ x.selector.name = NoName /\ x.scope # Global => QuestionKey(x)[2] = x.scope[1]
             /\ x.selector.name # NoName /\ x.scope # Global => QuestionKey(x)[3] = x.scope[1]
  <2> DEFINE k == <<x.selector.kind>>
             n == x.selector.name
             s == x.scope
  <2>1. k \in Seq(STRING) /\ Len(k) = 1 /\ k[1] = x.selector.kind
    BY <1>1
  <2>2. n \in Seq(STRING) /\ Len(n) = IF n = NoName THEN 0 ELSE 1
    BY <1>1, <1>2, NoParts
  <2>3. s \in Seq(STRING) /\ Len(s) = IF s = Global THEN 0 ELSE 1
    BY <1>1, <1>2, NoParts
  <2>4. QuestionKey(x) = (k \o n) \o s
    BY DEF QuestionKey, generateKey
  <2> HIDE DEF k, n, s
  <2>5. /\ k \o n \in Seq(STRING) /\ Len(k \o n) = 1 + Len(n)
        /\ (k \o n)[1] = k[1]
        /\ n # NoName => (k \o n)[2] = n[1]
    BY <2>1, <2>2, ConcatProperties
  <2>6. /\ (k \o n) \o s \in Seq(STRING) /\ Len((k \o n) \o s) = 1 + Len(n) + Len(s)
        /\ ((k \o n) \o s)[1] = (k \o n)[1]
        /\ n # NoName => ((k \o n) \o s)[2] = (k \o n)[2]
        /\ n = NoName /\ s # Global => ((k \o n) \o s)[2] = s[1]
        /\ n # NoName /\ s # Global => ((k \o n) \o s)[3] = s[1]
    BY <2>1, <2>2, <2>3, <2>5, ConcatProperties
  <2> QED
    BY <2>1, <2>4, <2>5, <2>6 DEF n, s
<1>4. p.selector.kind = q.selector.kind
  BY <1>3
<1>5. ASSUME NEW x \in Names \cup Projects, NEW y \in Names \cup Projects, x[1] = y[1]
      PROVE  x = y
  BY <1>2, <1>5
<1>6. p.selector.name = q.selector.name /\ p.scope = q.scope
  <2> DEFINE named(x) == x.selector.name # NoName
             scoped(x) == x.scope # Global
             length(x) == 1 + (IF named(x) THEN 1 ELSE 0) + (IF scoped(x) THEN 1 ELSE 0)
  <2>1. \A x \in Questions : Len(QuestionKey(x)) = length(x)
    <3>1. ASSUME NEW x \in Questions
          PROVE  /\ Len(x.selector.name) = IF named(x) THEN 1 ELSE 0
                 /\ Len(x.scope) = IF scoped(x) THEN 1 ELSE 0
      BY <1>1, <1>2, NoParts
    <3> QED
      BY <1>3, <3>1
  <2>2. length(p) = length(q)
    BY <2>1
  <2>3. CASE named(p) /\ scoped(p)
    <3>1. named(q) /\ scoped(q)
      BY <2>2, <2>3
    <3>2. p.selector.name[1] = q.selector.name[1] /\ p.scope[1] = q.scope[1]
      BY <1>3, <2>3, <3>1
    <3> QED
      BY <1>1, <1>5, <2>3, <3>1, <3>2
  <2>4. CASE ~named(p) /\ ~scoped(p)
    BY <2>2, <2>4
  <2>5. CASE named(p) /\ ~scoped(p)
    <3>1. named(q) /\ ~scoped(q)
      <4>1. ASSUME ~named(q), scoped(q)
            PROVE  FALSE
        <5>1. p.selector.name[1] = q.scope[1]
          BY <1>3, <2>5, <4>1
        <5>2. p.selector.name = q.scope
          BY <1>1, <1>5, <2>5, <4>1, <5>1
        <5> QED
          BY <1>1, <2>5, <4>1, <5>2 DEF PlainNames
      <4> QED
        BY <2>2, <2>5, <4>1
    <3>2. p.selector.name[1] = q.selector.name[1]
      BY <1>3, <2>5, <3>1
    <3> QED
      BY <1>1, <1>5, <2>5, <3>1, <3>2
  <2>6. CASE ~named(p) /\ scoped(p)
    <3>1. ~named(q) /\ scoped(q)
      <4>1. ASSUME named(q), ~scoped(q)
            PROVE  FALSE
        <5>1. p.scope[1] = q.selector.name[1]
          BY <1>3, <2>6, <4>1
        <5>2. p.scope = q.selector.name
          BY <1>1, <1>5, <2>6, <4>1, <5>1
        <5> QED
          BY <1>1, <2>6, <4>1, <5>2 DEF PlainNames
      <4> QED
        BY <2>2, <2>6, <4>1
    <3>2. p.scope[1] = q.scope[1]
      BY <1>3, <2>6, <3>1
    <3> QED
      BY <1>1, <1>5, <2>6, <3>1, <3>2
  <2> QED
    BY <2>3, <2>4, <2>5, <2>6
<1> QED
  BY <1>4, <1>6 DEF Questions, Selectors
=============================================================================
