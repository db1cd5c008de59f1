-------------------------- MODULE DatasourceService --------------------------
(***************************************************************************)
(* What CachedDatasourceAPI promises the Perses panels: whatever it answers *)
(* without asking the server, the server has answered to that question, it *)
(* was true when the server did, and no more than Ttl ticks have passed    *)
(* since the answer came in.                                               *)
(***************************************************************************)
EXTENDS Naturals

CONSTANTS
  Questions, Resources,
  Undefined,      \* the answer that there is no such resource
  Answers(_, _),  \* a resource answers a question
  Ttl             \* life of what is remembered

VARIABLES
  truth,          \* the resources that exist
  told,           \* what the server has said and is on its way
  memory          \* what may be answered without asking

vars == <<truth, told, memory>>

Facts == [question : Questions, answer : Resources \cup {Undefined}]
Memories == [fact : Facts, ttl : 1 .. Ttl]

TrueNow(f) ==
  IF f.answer = Undefined THEN \A d \in truth : ~Answers(d, f.question)
  ELSE f.answer \in truth /\ Answers(f.answer, f.question)

Init ==
  /\ truth \in SUBSET Resources
  /\ told = {} /\ memory = {}

Change ==
  /\ truth' \in SUBSET Resources
  /\ UNCHANGED <<told, memory>>

(* The server answers, or an answer is lost.                               *)
Say ==
  /\ \A f \in told' : f \in told \/ (f \in Facts /\ TrueNow(f))
  /\ UNCHANGED <<truth, memory>>

Remember ==
  /\ told' \subseteq told
  /\ \A m \in memory' : m \in memory \/ (m.fact \in told /\ m.ttl = Ttl)
  /\ UNCHANGED truth

(* Everything gets older by a tick, or is forgotten.                       *)
Age ==
  /\ \A m \in memory' : m \in Memories /\ [m EXCEPT !.ttl = @ + 1] \in memory
  /\ UNCHANGED <<truth, told>>

Next == Change \/ Say \/ Remember \/ Age

Spec == Init /\ [][Next]_vars
=============================================================================
