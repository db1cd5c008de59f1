------------------------------ MODULE Alerting ------------------------------
(***************************************************************************)
(* The alerting data of the console plugin: a page mounts the poller of    *)
(* useAlerts, every tick starts a fetchAlertingData thunk, and every thunk *)
(* writes its answers into the entry of the Redux store that its namespace *)
(* names.  JavaScript runs one turn at a time, so an action is one turn: a *)
(* thunk can be overtaken only at its awaits.  Nothing cancels a thunk.    *)
(***************************************************************************)
EXTENDS ApplySilences, Naturals

CONSTANTS
  Keys,           \* identifiers of the store: the namespaces a user may show
  Visible,        \* the alerts the monitoring API lists for a namespace
  Sources,        \* sources of alerting rules: prometheus and the extensions
  SourceOf,       \* the source that lists a rule
  Slots,          \* bound: thunks in flight at once
  MaxChanges,     \* bound: changes of the servers' alerts and silences
  MaxFailures     \* bound: requests, bodies or mutations that fail

ASSUME VisibleAssumption == Visible \in [Keys -> SUBSET Alerts]
ASSUME SourcesAssumption == SourceOf \in [Rules -> Sources]
ASSUME BoundsAssumption == MaxChanges \in Nat /\ MaxFailures \in Nat

VARIABLES
  firing,         \* server: the state of every alert in the rules API
  silenceState,   \* server: the state of every silence in the Alertmanager
  changes,        \* changes made so far
  failures,       \* failures so far
  page,           \* the mounted page's namespace and its access check
  mutation,       \* a silence being saved, or a set of silences being expired
  thunk,          \* what every thunk in flight is waiting for
  info            \* alerting[prometheus]

server == <<firing, silenceState, changes>>
vars == <<firing, silenceState, changes, failures, page, mutation, thunk, info>>

Idle == [phase |-> "idle"]
NoMutation == [kind |-> "none"]
Pending == [status |-> "pending"]

(* "denied" is a rejection that carries a response, whose body the thunk   *)
(* then awaits; "failed" is one that does not.                             *)
Rejected == {[status |-> "denied"], [status |-> "failed"]}
RulesAnswers == {Pending} \cup Rejected \cup
  [status : {"ok"}, alerts : [Alerts -> ServerAlertStates], listed : SUBSET Rules]
SilencesAnswers == {Pending} \cup Rejected \cup
  [status : {"ok"}, silences : [Silences -> SilenceStates]]

(* Both answers are in before the thunk awaits a body.                     *)
Thunks == {Idle} \cup
  [phase : {"fetching"}, key : Keys, rules : RulesAnswers, silences : SilencesAnswers] \cup
  [phase : {"rulesText", "silencesText"}, key : Keys,
   rules : RulesAnswers \ {Pending}, silences : SilencesAnswers \ {Pending}]
Mutations == {NoMutation} \cup
  [kind : {"save", "expire"}, left : SUBSET Silences, key : Keys, ok : BOOLEAN]
Pages == [mounted : BOOLEAN, key : Keys, accessCheckLoading : BOOLEAN]

TypeOK ==
  /\ firing \in [Alerts -> ServerAlertStates]
  /\ silenceState \in [Silences -> SilenceStates]
  /\ changes \in Nat
  /\ failures \in Nat
  /\ page \in Pages
  /\ mutation \in Mutations
  /\ thunk \in [Slots -> Thunks]
  /\ info \in [Keys -> AlertsInfo]

Init ==
  /\ firing \in [Alerts -> {"absent", "firing"}]
  /\ silenceState \in [Silences -> {"absent", "active"}]
  /\ changes = 0
  /\ failures = 0
  /\ page \in [mounted : {FALSE}, key : Keys, accessCheckLoading : {TRUE}]
  /\ mutation = NoMutation
  /\ thunk = [t \in Slots |-> Idle]
  /\ info = [k \in Keys |-> newAlertsInfo]

----------------------------------------------------------------------------
(* The servers                                                             *)

AlertChanges ==
  /\ changes < MaxChanges
  /\ \E a \in Alerts, v \in ServerAlertStates :
        v # firing[a] /\ firing' = [firing EXCEPT ![a] = v]
  /\ changes' = changes + 1
  /\ UNCHANGED <<silenceState, failures, page, mutation, thunk, info>>

(* A silence starts or ends by its own startsAt and endsAt, or is expired  *)
(* from somewhere else.                                                    *)
SilenceChanges ==
  /\ changes < MaxChanges
  /\ \E s \in Silences :
       \/ silenceState[s] = "pending" /\ silenceState' = [silenceState EXCEPT ![s] = "active"]
       \/ silenceState[s] \in {"pending", "active"}
            /\ silenceState' = [silenceState EXCEPT ![s] = "expired"]
  /\ changes' = changes + 1
  /\ UNCHANGED <<firing, failures, page, mutation, thunk, info>>

(* The rules API as one answer: the sources in ok list what they know and  *)
(* what the namespace may see.                                             *)
RulesSnapshot(k, ok) ==
  [status |-> "ok",
   alerts |-> [a \in Alerts |->
                 IF a \in Visible[k] /\ SourceOf[RuleOf[a]] \in ok THEN firing[a] ELSE "absent"],
   listed |-> {r \in Rules : SourceOf[r] \in ok}]

(* fetchAlerts: with one source its rejection is the answer's; with more,  *)
(* the sources that reject are left out of a fulfilled answer.  Should     *)
(* that throw, Prometheus alone is asked again: then its rejection is the  *)
(* answer's, or its rules are, which is as if the other sources rejected.  *)
RulesAnswered(t) ==
  /\ thunk[t].phase = "fetching"
  /\ thunk[t].rules = Pending
  /\ \E ok \in SUBSET Sources :
       /\ ok # Sources => failures < MaxFailures
       /\ failures' = IF ok = Sources THEN failures ELSE failures + 1
       /\ \E answer \in (IF ok = {} THEN Rejected ELSE {}) \cup
                        (IF ok = {} /\ Cardinality(Sources) = 1 THEN {}
                         ELSE {RulesSnapshot(thunk[t].key, ok)}) :
            thunk' = [thunk EXCEPT ![t].rules = answer]
  /\ UNCHANGED <<server, page, mutation, info>>

SilencesAnswered(t) ==
  /\ thunk[t].phase = "fetching"
  /\ thunk[t].silences = Pending
  /\ \/ /\ thunk' = [thunk EXCEPT ![t].silences = [status |-> "ok", silences |-> silenceState]]
        /\ UNCHANGED failures
     \/ /\ failures < MaxFailures
        /\ failures' = failures + 1
        /\ \E answer \in Rejected : thunk' = [thunk EXCEPT ![t].silences = answer]
  /\ UNCHANGED <<server, page, mutation, info>>

----------------------------------------------------------------------------
(* fetchAlertingData, turn by turn                                         *)

(* The first turn: both requests leave.  The action AlertingSetLoading it  *)
(* dispatches has no case in the reducer.                                  *)
Start(t, k) ==
  /\ thunk[t] = Idle
  /\ thunk' = [thunk EXCEPT ![t] =
       [phase |-> "fetching", key |-> k, rules |-> Pending, silences |-> Pending]]

(* Mutant: the answers go to the namespace the page shows by now.          *)
SilencesPartForPage(t, i) ==
  /\ thunk' = [thunk EXCEPT ![t] = Idle]
  /\ info' = [info EXCEPT ![page.key] =
       applySilences(IF thunk[t].silences.status = "ok"
                     THEN SetSilencesLoaded(i, thunk[t].silences.silences)
                     ELSE SetSilencesErrored(i))]

(* The rest of the thunk once the rules are dispatched and left i: the     *)
(* silences, and the silences applied.                                     *)
SilencesPart(t, i) ==
  IF thunk[t].silences.status = "denied"
  THEN /\ thunk' = [thunk EXCEPT ![t].phase = "silencesText"]
       /\ info' = [info EXCEPT ![thunk[t].key] = i]
  ELSE /\ thunk' = [thunk EXCEPT ![t] = Idle]
       /\ info' = [info EXCEPT ![thunk[t].key] =
            applySilences(IF thunk[t].silences.status = "failed" THEN SetSilencesErrored(i)
                          ELSE SetSilencesLoaded(i, thunk[t].silences.silences))]

(* The turn after Promise.allSettled.  A denied rules request has the      *)
(* thunk await its body before anything is dispatched.                     *)
Settled(t) ==
  /\ thunk[t].phase = "fetching"
  /\ thunk[t].rules # Pending
  /\ thunk[t].silences # Pending
  /\ LET rules == thunk[t].rules
         i == info[thunk[t].key]
     IN  \/ /\ rules.status = "denied"
            /\ thunk' = [thunk EXCEPT ![t].phase = "rulesText"]
            /\ UNCHANGED info
         \/ rules.status = "failed" /\ SilencesPart(t, SetErrored(i))
         \/ rules.status = "ok" /\ SilencesPart(t, SetRulesLoaded(i, rules.alerts, rules.listed))
  /\ UNCHANGED <<server, failures, page, mutation>>

(* The body of the denied rules request has been read.                     *)
RulesText(t) ==
  /\ thunk[t].phase = "rulesText"
  /\ SilencesPart(t, SetErrored(info[thunk[t].key]))
  /\ UNCHANGED <<server, failures, page, mutation>>

(* The body of the denied silences request has been read.                  *)
SilencesText(t) ==
  /\ thunk[t].phase = "silencesText"
  /\ thunk' = [thunk EXCEPT ![t] = Idle]
  /\ info' = [info EXCEPT ![thunk[t].key] = applySilences(SetSilencesErrored(@))]
  /\ UNCHANGED <<server, failures, page, mutation>>

(* The body cannot be read: the await throws and the thunk ends there.     *)
TextFails(t) ==
  /\ thunk[t].phase \in {"rulesText", "silencesText"}
  /\ failures < MaxFailures
  /\ failures' = failures + 1
  /\ thunk' = [thunk EXCEPT ![t] = Idle]
  /\ UNCHANGED <<server, page, mutation, info>>

----------------------------------------------------------------------------
(* The page: usePoll ticks at once whenever its dependencies change and on *)
(* every interval; a tick does nothing while the access check is loading.  *)

Mount ==
  /\ ~page.mounted
  /\ page' = [page EXCEPT !.mounted = TRUE]
  /\ IF page.accessCheckLoading THEN UNCHANGED thunk ELSE \E t \in Slots : Start(t, page.key)
  /\ UNCHANGED <<server, failures, mutation, info>>

(* Leaving the alerting pages altogether has the access checked again.     *)
Unmount ==
  /\ page.mounted
  /\ \E loading \in {page.accessCheckLoading, TRUE} :
       page' = [page EXCEPT !.mounted = FALSE, !.accessCheckLoading = loading]
  /\ UNCHANGED <<server, failures, mutation, thunk, info>>

(* The check decides whether the user is shown the entry of a namespace or *)
(* the entry of all namespaces.                                            *)
AccessChecked ==
  /\ page.mounted
  /\ page.accessCheckLoading
  /\ \E k \in Keys :
       /\ page' = [page EXCEPT !.key = k, !.accessCheckLoading = FALSE]
       /\ \E t \in Slots : Start(t, k)
  /\ UNCHANGED <<server, failures, mutation, info>>

ShowKey(k) ==
  /\ k # page.key
  /\ page' = [page EXCEPT !.key = k]
  /\ IF page.mounted /\ ~page.accessCheckLoading THEN \E t \in Slots : Start(t, k)
     ELSE UNCHANGED thunk

(* The namespace of the console or of the route changes.                   *)
ChangeNamespace ==
  /\ \E k \in Keys : ShowKey(k)
  /\ UNCHANGED <<server, failures, mutation, info>>

(* The namespace bar of the page clears the entry of the chosen namespace, *)
(* which is not the one shown to a user who may see everything.            *)
onNamespaceChange ==
  /\ page.mounted
  /\ \E k \in Keys :
       /\ info' = [info EXCEPT ![k] = newAlertsInfo]
       /\ ShowKey(k) \/ UNCHANGED <<page, thunk>>
  /\ UNCHANGED <<server, failures, mutation>>

(* Mutant: the interval only retries until something is loaded.            *)
TickUntilLoaded ==
  /\ page.mounted
  /\ ~page.accessCheckLoading
  /\ ~info[page.key].loaded
  /\ \E t \in Slots : Start(t, page.key)
  /\ UNCHANGED <<server, failures, page, mutation, info>>

Tick ==
  /\ page.mounted
  /\ ~page.accessCheckLoading
  /\ \E t \in Slots : Start(t, page.key)
  /\ UNCHANGED <<server, failures, page, mutation, info>>

----------------------------------------------------------------------------
(* The user's changes: SilenceForm saves one silence, ExpireAllSilences-   *)
(* Button deletes several.  Their callbacks hold the trigger of the render *)
(* that submitted, whose namespace the page may have left since.           *)

SubmitSave ==
  /\ page.mounted
  /\ ~page.accessCheckLoading
  /\ mutation = NoMutation
  /\ changes < MaxChanges
  /\ \E s \in Silences :
       /\ silenceState[s] = "absent"
       /\ mutation' = [kind |-> "save", left |-> {s}, key |-> page.key, ok |-> TRUE]
  /\ UNCHANGED <<server, failures, page, thunk, info>>

SubmitExpire ==
  /\ page.mounted
  /\ ~page.accessCheckLoading
  /\ mutation = NoMutation
  /\ changes < MaxChanges
  /\ \E selected \in SUBSET ActiveSilences(info[page.key]) :
       /\ selected # {}
       /\ mutation' = [kind |-> "expire", left |-> selected, key |-> page.key, ok |-> TRUE]
  /\ UNCHANGED <<server, failures, page, thunk, info>>

(* The Alertmanager answers one of the requests.                           *)
MutationAnswered ==
  /\ mutation # NoMutation
  /\ \E s \in mutation.left :
       \/ /\ mutation' = [mutation EXCEPT !.left = @ \ {s}]
          /\ \/ mutation.kind = "save"
                  /\ \E v \in {"pending", "active"} : silenceState' = [silenceState EXCEPT ![s] = v]
             \/ mutation.kind = "expire" /\ silenceState' = [silenceState EXCEPT ![s] = "expired"]
          /\ changes' = changes + 1
          /\ UNCHANGED failures
       \/ /\ failures < MaxFailures
          /\ failures' = failures + 1
          /\ mutation' = [mutation EXCEPT !.left = @ \ {s}, !.ok = FALSE]
          /\ UNCHANGED <<silenceState, changes>>
  /\ UNCHANGED <<firing, page, thunk, info>>

(* The callback: a refused save only shows its error, everything else      *)
(* refetches silences and alerts.                                          *)
MutationDone ==
  /\ mutation # NoMutation
  /\ mutation.left = {}
  /\ mutation' = NoMutation
  /\ IF mutation.kind = "save" /\ ~mutation.ok THEN UNCHANGED thunk
     ELSE \E t \in Slots : Start(t, mutation.key)
  /\ UNCHANGED <<server, failures, page, info>>

----------------------------------------------------------------------------
Servers == AlertChanges \/ SilenceChanges
Page == Mount \/ Unmount \/ AccessChecked \/ ChangeNamespace \/ onNamespaceChange \/ Tick
User == SubmitSave \/ SubmitExpire \/ MutationAnswered \/ MutationDone
Answer(t) == RulesAnswered(t) \/ SilencesAnswered(t)
Turn(t) == Settled(t) \/ RulesText(t) \/ SilencesText(t) \/ TextFails(t)

Next == Servers \/ Page \/ User \/ \E t \in Slots : Answer(t) \/ Turn(t)

(* The interval keeps ticking while the page is mounted, servers answer,   *)
(* the event loop runs every turn that is due, and the access check ends.  *)
(* A page that stays mounted is what the liveness property asks for.       *)
Fairness ==
  /\ WF_vars(Tick)
  /\ WF_vars(AccessChecked)
  /\ \A t \in Slots : WF_vars(Answer(t)) /\ WF_vars(Turn(t))

Spec == Init /\ [][Next]_vars
FairSpec == Spec /\ Fairness

----------------------------------------------------------------------------
(* Properties                                                              *)

(* Fresh lists on which no silence has been applied yet.                   *)
Raw(i) ==
  /\ \A a \in Alerts : i.silencedBy[a] = {} /\ i.alerts[a] # "silenced"
  /\ \A r \in Rules : i.ruleSilencedBy[r] = {}

(* The lists carry exactly the marks of the silences stored beside them.   *)
Applied(i) ==
  /\ \A a \in Alerts :
       /\ i.silencedBy[a] = Silencers(i, a)
       /\ i.silencedBy[a] # {} => i.alerts[a] = "silenced"
  /\ \A s \in Silences :
       i.firingAlerts[s] =
         {a \in Alerts : i.silences[s] # "absent" /\ isAlertSilenced(i.alerts, a, s)}

(* Whatever order the thunks finish in, an entry of the store never shows  *)
(* alerts marked by silences other than the ones it lists: either no mark  *)
(* at all, or all of them (reducers.ts, thunks.ts).                        *)
MarksMatchSilences == \A k \in Keys : Raw(info[k]) \/ Applied(info[k])

(* The list can call an alert silenced without naming a silence only while *)
(* it also shows an error of the rules or of the silences: applySilences   *)
(* never turns a silenced alert back, but a rules answer does, and without *)
(* an error no silences are applied to anything older.                     *)
OrphansOnlyAfterError ==
  \A k \in Keys, a \in Alerts :
    info[k].alerts[a] = "silenced" /\ info[k].silencedBy[a] = {}
      => info[k].loadError \/ info[k].silencesError

(* An answer that arrives after the user has changed the namespace never   *)
(* puts an alert where its namespace does not show it.                     *)
NamespaceIsolation ==
  \A k \in Keys, a \in Alerts : info[k].alerts[a] # "absent" => a \in Visible[k]

(* The same of an answer still on its way: it is for the namespace its     *)
(* thunk was started for, wherever the page has gone since.                *)
AnswersStayInNamespace ==
  \A t \in Slots :
    thunk[t].phase # "idle" /\ thunk[t].rules.status = "ok"
      => \A a \in Alerts : thunk[t].rules.alerts[a] # "absent" => a \in Visible[thunk[t].key]

(* A rule marked silenced has only silenced alerts: no rule hides a firing *)
(* alert from the alerting rules page (isRuleSilenced).                    *)
SilencedRuleHidesNothing ==
  \A k \in Keys, a \in Alerts :
    /\ info[k].rules[RuleOf[a]] = "silenced"
    /\ info[k].ruleAlerts[a] # "absent"
    => info[k].ruleAlerts[a] = "silenced"

(* The inductive invariant that carries the four about the store.          *)
IInv ==
  /\ TypeOK
  /\ AnswersStayInNamespace
  /\ MarksMatchSilences
  /\ OrphansOnlyAfterError
  /\ NamespaceIsolation
  /\ SilencedRuleHidesNothing

(* What the page should show of the servers' current state.                *)
InSync(k) ==
  LET shown == info[k]
      silencers(a) == {s \in Silences : silenceState[s] = "active" /\ <<s, a>> \in Matches}
  IN  /\ ~shown.loadError
      /\ ~shown.silencesError
      /\ shown.silences = silenceState
      /\ \A a \in Alerts :
           shown.alerts[a] =
             IF a \notin Visible[k] THEN "absent"
             ELSE IF firing[a] = "firing" /\ silencers(a) # {} THEN "silenced"
                  ELSE firing[a]

(* A page left open on a namespace, whose namespace bar is left alone too, *)
(* ends up showing the servers' state for good, however answers failed or  *)
(* overtook each other before.                                             *)
Settles ==
  \A k \in Keys :
    /\ <>[](page.mounted /\ page.key = k)
    /\ <>[][~onNamespaceChange]_vars
    => <>[]InSync(k)
=============================================================================
