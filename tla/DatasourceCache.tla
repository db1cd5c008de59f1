--------------------------- MODULE DatasourceCache ---------------------------
(***************************************************************************)
(* CachedDatasourceAPI: the cache between the Perses panels and the        *)
(* datasource API.  Panels ask for a datasource of a project, or a global  *)
(* one, by kind and name, or by kind for the default one.  Hits and misses *)
(* are remembered for a time; requests of several panels are in flight at  *)
(* once and each callback writes the cache when its answer arrives.        *)
(*                                                                         *)
(* A key is the text kind-name-project.  Its parts are sequences of the    *)
(* pieces between hyphens, so two questions share a key here exactly when  *)
(* they share the text, as x of dev and the default of x-dev do.           *)
(***************************************************************************)
EXTENDS Naturals, Sequences, FiniteSets

CONSTANTS
  Kinds,          \* datasource kinds: texts without a hyphen
  Names,          \* names of datasources, as sequences of pieces
  Projects,       \* names of projects, as sequences of pieces
  Existing,       \* the datasources that exist at first
  Calls,          \* bound: calls in flight at once
  Ttl,            \* life of a cache entry in clock ticks (5 minutes)
  MaxChanges,     \* bound: changes of the datasources on the server
  MaxFailures     \* bound: requests that fail

ASSUME TtlAssumption == Ttl \in Nat \ {0}
ASSUME BoundsAssumption == MaxChanges \in Nat /\ MaxFailures \in Nat
ASSUME KeyPartsAssumption ==
  /\ Kinds \subseteq STRING
  /\ Names \subseteq Seq(STRING) \ {<< >>} /\ Projects \subseteq Seq(STRING) \ {<< >>}

Global == << >>             \* the scope of a global datasource: no project
NoName == << >>             \* the selector of a default datasource
Scopes == Projects \cup {Global}
Selectors == [kind : Kinds, name : Names \cup {NoName}]
Questions == [scope : Scopes, selector : Selectors]

Resources == [scope : Scopes, kind : Kinds, name : Names, default : BOOLEAN]
Undefined == [scope |-> "undefined"]

(* Two datasources of one scope and kind never share a name.               *)
ASSUME ExistingAssumption ==
  /\ Existing \subseteq Resources
  /\ \A d, e \in Existing : <<d.scope, d.kind, d.name>> = <<e.scope, e.kind, e.name>> => d = e

VARIABLES
  server,         \* the datasources that exist
  changes, failures,
  datasources,    \* private datasources: the entries, each with its key
  globalDatasources,
  emptyDatasources,
  call            \* what every call in flight waits for

cache == <<datasources, globalDatasources, emptyDatasources>>
vars == <<server, changes, failures, cache, call>>

(* Mutant: the name is left out of the key.                                *)
generateKeyWithoutName(selector, scope) == <<selector.kind>> \o scope

(* this.generateKey                                                        *)
generateKey(selector, scope) == <<selector.kind>> \o selector.name \o scope

QuestionKey(q) == generateKey(q.selector, q.scope)
Keys == {QuestionKey(q) : q \in Questions}

(* A datasource answers the question.                                      *)
Answers(d, q) ==
  /\ d.scope = q.scope
  /\ d.kind = q.selector.kind
  /\ IF q.selector.name = NoName THEN d.default ELSE d.name = q.selector.name

----------------------------------------------------------------------------
(* class Cache.  An entry lives for Ttl ticks from the last set; a table   *)
(* holds one entry per key.                                                *)

Put(table, key, resource) ==
  {e \in table : e.key # key} \cup {[key |-> key, resource |-> resource, ttl |-> Ttl]}

Tables(values) == SUBSET [key : Keys, resource : values, ttl : 1 .. Ttl]

NameKey(d) == generateKey([kind |-> d.kind, name |-> d.name], d.scope)
DefaultKey(d) == generateKey([kind |-> d.kind, name |-> NoName], d.scope)

(* setDatasource and setGlobalDatasource: a default one is stored twice.   *)
setDatasource(table, d) ==
  Put(IF d.default THEN Put(table, DefaultKey(d), d) ELSE table, NameKey(d), d)

(* setDatasources and setGlobalDatasources: one after the other; the       *)
(* server lists a project's datasources of one kind with distinct names,   *)
(* and the last default wins.                                              *)
ListedTables(table, list) ==
  LET defaults == {d \in list : d.default}
      keys == {NameKey(d) : d \in list} \cup {DefaultKey(d) : d \in defaults}
      named == {[key |-> NameKey(d), resource |-> d, ttl |-> Ttl] : d \in list}
      rest == {e \in table : e.key \notin keys}
  IN  IF defaults = {} THEN {rest \cup named}
      ELSE {rest \cup named \cup {[key |-> DefaultKey(d), resource |-> d, ttl |-> Ttl]} :
              d \in defaults}

Table(q) == IF q.scope = Global THEN globalDatasources ELSE datasources
Hits(q) == {e \in Table(q) : e.key = QuestionKey(q)}
Misses(q) == {e \in emptyDatasources : e.key = QuestionKey(q)}

(* One clock tick of a table: entries run out and are purged.              *)
Aged(table) == {[e EXCEPT !.ttl = @ - 1] : e \in {f \in table : f.ttl > 1}}

----------------------------------------------------------------------------
Idle == [phase |-> "idle"]

CallStates ==
  {Idle} \cup
  [phase : {"get", "list"}, question : Questions] \cup
  [phase : {"got"}, question : Questions, result : Resources \cup {Undefined}] \cup
  [phase : {"listed"}, question : Questions, list : SUBSET Resources]

TypeOK ==
  /\ server \in SUBSET Resources
  /\ changes \in Nat /\ failures \in Nat
  /\ datasources \in Tables(Resources)
  /\ globalDatasources \in Tables(Resources)
  /\ emptyDatasources \in Tables({Undefined})
  /\ call \in [Calls -> CallStates]

Init ==
  /\ server = Existing
  /\ changes = 0 /\ failures = 0
  /\ datasources = {} /\ globalDatasources = {} /\ emptyDatasources = {}
  /\ call = [c \in Calls |-> Idle]

----------------------------------------------------------------------------
(* The server: datasources come, go and become the default; two of one     *)
(* scope and kind never share a name.                                      *)

Create ==
  /\ changes < MaxChanges
  /\ \E d \in Resources :
       /\ \A e \in server : <<e.scope, e.kind, e.name>> # <<d.scope, d.kind, d.name>>
       /\ server' = server \cup {d}
  /\ changes' = changes + 1
  /\ UNCHANGED <<failures, cache, call>>

Delete ==
  /\ changes < MaxChanges
  /\ \E d \in server : server' = server \ {d}
  /\ changes' = changes + 1
  /\ UNCHANGED <<failures, cache, call>>

----------------------------------------------------------------------------
(* The panels                                                              *)

(* getDatasource and getGlobalDatasource up to the request.  A hit, or a   *)
(* miss that is remembered, is answered at once and changes nothing.       *)
Get(c) ==
  /\ call[c] = Idle
  /\ \E q \in Questions :
       /\ Hits(q) = {} /\ Misses(q) = {}
       /\ call' = [call EXCEPT ![c] = [phase |-> "get", question |-> q]]
  /\ UNCHANGED <<server, changes, failures, cache>>

(* listDatasources and listGlobalDatasources ask by kind alone.            *)
List(c) ==
  /\ call[c] = Idle
  /\ \E q \in Questions :
       /\ q.selector.name = NoName
       /\ call' = [call EXCEPT ![c] = [phase |-> "list", question |-> q]]
  /\ UNCHANGED <<server, changes, failures, cache>>

(* OcpDatasourceApi: the first of the matching datasources, if any.        *)
ServerAnswers(c) ==
  /\ LET q == call[c].question
     IN  \/ /\ call[c].phase = "get"
            /\ LET found == {d \in server : Answers(d, q)}
               IN  \E r \in IF found = {} THEN {Undefined} ELSE found :
                     call' = [call EXCEPT ![c] =
                                [phase |-> "got", question |-> q, result |-> r]]
         \/ /\ call[c].phase = "list"
            /\ call' = [call EXCEPT ![c] =
                 [phase |-> "listed", question |-> q,
                  list |-> {d \in server : d.scope = q.scope /\ d.kind = q.selector.kind}]]
  /\ UNCHANGED <<server, changes, failures, cache>>

(* A rejected request rejects the panel's promise and stores nothing; a    *)
(* rejected list of global datasources counts as an empty one.             *)
ServerFails(c) ==
  /\ call[c].phase \in {"get", "list"}
  /\ failures < MaxFailures
  /\ failures' = failures + 1
  /\ call' = [call EXCEPT ![c] =
       IF call[c].phase = "list" /\ call[c].question.scope = Global
       THEN [phase |-> "listed", question |-> call[c].question, list |-> {}] ELSE Idle]
  /\ UNCHANGED <<server, changes, cache>>

(* The then-callback of a get.                                             *)
GotFound(c) ==
  /\ call[c].phase = "got"
  /\ call[c].result # Undefined
  /\ LET q == call[c].question
         d == call[c].result
     IN  /\ IF q.scope = Global
            THEN /\ globalDatasources' = setDatasource(globalDatasources, d)
                 /\ UNCHANGED datasources
            ELSE /\ datasources' = setDatasource(datasources, d)
                 /\ UNCHANGED globalDatasources
  /\ call' = [call EXCEPT ![c] = Idle]
  /\ UNCHANGED <<server, changes, failures, emptyDatasources>>

(* Mutant: the miss is stored for the default of the kind and scope.       *)
GotUndefinedForKind(c) ==
  /\ call[c].phase = "got"
  /\ call[c].result = Undefined
  /\ LET q == call[c].question
     IN  emptyDatasources' = Put(emptyDatasources,
           generateKey([q.selector EXCEPT !.name = NoName], q.scope), Undefined)
  /\ call' = [call EXCEPT ![c] = Idle]
  /\ UNCHANGED <<server, changes, failures, datasources, globalDatasources>>

(* setUndefinedDatasource and setUndefinedGlobalDatasource: both remember  *)
(* the miss in the one table emptyDatasources.                             *)
GotUndefined(c) ==
  /\ call[c].phase = "got"
  /\ call[c].result = Undefined
  /\ emptyDatasources' = Put(emptyDatasources, QuestionKey(call[c].question), Undefined)
  /\ call' = [call EXCEPT ![c] = Idle]
  /\ UNCHANGED <<server, changes, failures, datasources, globalDatasources>>

(* The then-callback of a list.                                            *)
Listed(c) ==
  /\ call[c].phase = "listed"
  /\ IF call[c].question.scope = Global
     THEN /\ globalDatasources' \in ListedTables(globalDatasources, call[c].list)
          /\ UNCHANGED datasources
     ELSE /\ datasources' \in ListedTables(datasources, call[c].list)
          /\ UNCHANGED globalDatasources
  /\ call' = [call EXCEPT ![c] = Idle]
  /\ UNCHANGED <<server, changes, failures, emptyDatasources>>

(* Mutant: misses never run out.                                           *)
TickHitsOnly ==
  /\ datasources' = Aged(datasources)
  /\ globalDatasources' = Aged(globalDatasources)
  /\ UNCHANGED <<server, changes, failures, emptyDatasources, call>>

(* Time passes.                                                            *)
Tick ==
  /\ datasources' = Aged(datasources)
  /\ globalDatasources' = Aged(globalDatasources)
  /\ emptyDatasources' = Aged(emptyDatasources)
  /\ UNCHANGED <<server, changes, failures, call>>

Callback(c) == GotFound(c) \/ GotUndefined(c) \/ Listed(c)
Next ==
  \/ Create \/ Delete \/ Tick
  \/ \E c \in Calls : Get(c) \/ List(c) \/ ServerAnswers(c) \/ ServerFails(c) \/ Callback(c)

(* Time passes, the server answers and callbacks run.                      *)
Fairness ==
  /\ WF_vars(Tick)
  /\ \A c \in Calls : WF_vars(ServerAnswers(c)) /\ WF_vars(Callback(c))

Spec == Init /\ [][Next]_vars
FairSpec == Spec /\ Fairness

----------------------------------------------------------------------------
(* Properties                                                              *)

(* The questions that read the same as this one does, hyphens and all, and *)
(* those that no other one reads like.                                     *)
Alike(q) ==
  {r \in Questions : /\ r.selector.kind = q.selector.kind
                     /\ r.selector.name \o r.scope = q.selector.name \o q.scope}

Apart == {q \in Questions : Alike(q) = {q}}

(* Whatever the cache gives a panel answers what it asked for, the kind,   *)
(* the project and the name or the default, or else another question that  *)
(* reads the same (generateKey): a question that none reads like is        *)
(* answered right.  A project is never given a global datasource.          *)
RightDatasource ==
  \A q \in Questions : \A e \in Hits(q) :
    /\ \E r \in Alike(q) : Answers(e.resource, r)
    /\ e.resource.scope = Global <=> q.scope = Global

(* The facts that the answers in flight, and the entries of the tables,    *)
(* stand for: a resource is a fact about every question that it answers.   *)
(* Questions that read alike are left out: they may take each other's      *)
(* answers.                                                                *)
Facts == [question : Apart, answer : Resources \cup {Undefined}]

(* What the server has answered to a call.                                 *)
Given(c) ==
  CASE call[c].phase = "got" -> {call[c].result}
    [] call[c].phase = "listed" -> call[c].list
    [] OTHER -> {}

Tells(c, f) ==
  /\ f.answer \in Given(c)
  /\ IF f.answer = Undefined THEN f.question = call[c].question
     ELSE Answers(f.answer, f.question)

Told ==
  {f \in [question : Apart, answer : UNION {Given(c) : c \in Calls}] : \E c \in Calls : Tells(c, f)}

Memory ==
  UNION {{[fact |-> [question |-> q, answer |-> e.resource], ttl |-> e.ttl] :
            e \in Hits(q) \cup Misses(q)} : q \in Apart}

Service == INSTANCE DatasourceService WITH
  Questions <- Apart, truth <- server, told <- Told, memory <- Memory

(* The cache implements the service for the questions that none reads      *)
(* like: a panel is only given what the server has answered to that very   *)
(* question within the life of an entry, and is only told that there is    *)
(* nothing if the server has said so, whatever panels ask that mistake     *)
(* each other's answers.  The source says: "in case the keyExist, then it  *)
(* means we already did the query, but the datasource doesn't exist."      *)
ImplementsService == Service!Spec

(* A lookup that would be answered from the cache, against the server.     *)
Current(q) ==
  /\ \A e \in Hits(q) : e.resource \in server
  /\ Hits(q) = {} /\ Misses(q) # {} =>
       \E r \in Alike(q) : ~ \E d \in server : Answers(d, r)

(* Once the datasources stop changing, every lookup is answered by what    *)
(* exists, however old the answers still in flight were; a question is     *)
(* denied an answer only if it has none, or one that reads the same has    *)
(* none.                                                                   *)
CatchesUp == <>[](\A q \in Questions : Current(q))
=============================================================================
