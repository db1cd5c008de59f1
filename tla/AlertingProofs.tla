--------------------------- MODULE AlertingProofs ---------------------------
(***************************************************************************)
(* Proofs about Alerting.  The entry of a namespace is what every turn     *)
(* rewrites, so the argument is local: EntryOK holds of the entry a turn   *)
(* reads, and of the entry each reducer case makes of it.                  *)
(***************************************************************************)
EXTENDS Alerting, TLAPS

----------------------------------------------------------------------------
(* Types of the reducer cases                                              *)

LEMMA ErroredType ==
  ASSUME NEW i \in AlertsInfo
  PROVE  SetErrored(i) \in AlertsInfo
BY DEF AlertsInfo, SetErrored

LEMMA SilencesErroredType ==
  ASSUME NEW i \in AlertsInfo
  PROVE  SetSilencesErrored(i) \in AlertsInfo
BY DEF AlertsInfo, SetSilencesErrored, SilenceStates

LEMMA SilencesLoadedType ==
  ASSUME NEW i \in AlertsInfo, NEW silences \in [Silences -> SilenceStates]
  PROVE  SetSilencesLoaded(i, silences) \in AlertsInfo
BY DEF AlertsInfo, SetSilencesLoaded

LEMMA RulesLoadedType ==
  ASSUME NEW i \in AlertsInfo, NEW alerts \in [Alerts -> ServerAlertStates],
         NEW listed \in SUBSET Rules
  PROVE  SetRulesLoaded(i, alerts, listed) \in AlertsInfo
<1>1. alerts \in [Alerts -> AlertStates]
  BY DEF AlertStates
<1>2. \A r \in Rules : ruleState(alerts, r) \in RuleStates \ {"absent", "silenced"}
  BY DEF ruleState, RuleStates
<1>3. [r \in Rules |-> IF r \in listed THEN ruleState(alerts, r) ELSE "absent"]
        \in [Rules -> RuleStates]
  BY <1>2 DEF RuleStates
<1> QED
  BY <1>1, <1>3 DEF AlertsInfo, SetRulesLoaded

LEMMA ApplyToAlertsType ==
  ASSUME NEW i \in AlertsInfo
  PROVE  applySilencesToAlerts(i) \in AlertsInfo
BY DEF AlertsInfo, applySilencesToAlerts, AlertStates, Silencers, ActiveSilences

LEMMA ApplyToRulesType ==
  ASSUME NEW i \in AlertsInfo
  PROVE  applySilencesToRules(i) \in AlertsInfo
<1> DEFINE covered == {r \in Rules : RuleSilencers(i, r) # {}}
           ruleAlerts == [a \in Alerts |->
             IF \E s \in RuleSilencers(i, RuleOf[a]) : isAlertSilenced(i.ruleAlerts, a, s)
             THEN "silenced" ELSE i.ruleAlerts[a]]
           allSilenced(r) == AlertsOf(i, r) # {}
                               /\ \A a \in AlertsOf(i, r) : ruleAlerts[a] = "silenced"
           anyAlert(r) == {s \in ActiveSilences(i) :
                             \E a \in AlertsOf(i, r) : isAlertSilenced(ruleAlerts, a, s)}
           newRules == [r \in Rules |-> IF r \in covered THEN "silenced" ELSE i.rules[r]]
           newBy == [r \in Rules |->
             IF ~isRuleFiring(i.rules[r]) THEN i.ruleSilencedBy[r]
             ELSE IF r \in covered /\ allSilenced(r) THEN anyAlert(r)
                  ELSE RuleSilencers(i, r)]
<1>1. newRules \in [Rules -> RuleStates]
  BY DEF AlertsInfo, RuleStates
<1>2. \A r \in Rules : RuleSilencers(i, r) \subseteq Silences /\ anyAlert(r) \subseteq Silences
  BY DEF RuleSilencers, ActiveSilences
<1>3. newBy \in [Rules -> SUBSET Silences]
  <2> HIDE DEF anyAlert, allSilenced, covered
  <2> QED
    BY <1>2 DEF AlertsInfo
<1>4. ruleAlerts \in [Alerts -> AlertStates]
  BY DEF AlertsInfo, AlertStates
<1>5. applySilencesToRules(i) =
        [i EXCEPT !.rules = newRules, !.ruleSilencedBy = newBy, !.ruleAlerts = ruleAlerts]
  BY DEF applySilencesToRules
<1> HIDE DEF newRules, newBy, ruleAlerts
<1> QED
  BY <1>1, <1>3, <1>4, <1>5 DEF AlertsInfo

LEMMA FiringAlertsType ==
  ASSUME NEW i \in AlertsInfo
  PROVE  setFiringAlerts(i) \in AlertsInfo
BY DEF AlertsInfo, setFiringAlerts

LEMMA ApplyType ==
  ASSUME NEW i \in AlertsInfo
  PROVE  applySilences(i) \in AlertsInfo
BY ApplyToAlertsType, ApplyToRulesType, FiringAlertsType DEF applySilences

----------------------------------------------------------------------------
(* Type correctness of the whole state                                     *)

LEMMA StartType ==
  ASSUME TypeOK, NEW t \in Slots, NEW k \in Keys, Start(t, k)
  PROVE  thunk' \in [Slots -> Thunks]
<1> DEFINE new == [phase |-> "fetching", key |-> k, rules |-> Pending, silences |-> Pending]
<1>1. new \in Thunks
  BY DEF Thunks, RulesAnswers, SilencesAnswers
<1>2. thunk' = [thunk EXCEPT ![t] = new]
  BY DEF Start
<1> HIDE DEF new
<1> QED
  BY <1>1, <1>2 DEF TypeOK

(* What a thunk in flight is made of.                                      *)
LEMMA BusyThunk ==
  ASSUME TypeOK, NEW t \in Slots, thunk[t].phase # "idle"
  PROVE  thunk[t] \in [phase : {"fetching", "rulesText", "silencesText"}, key : Keys,
                       rules : RulesAnswers, silences : SilencesAnswers]
BY DEF TypeOK, Thunks, Idle

LEMMA SilencesPartType ==
  ASSUME TypeOK, NEW t \in Slots, thunk[t].phase # "idle",
         NEW i \in AlertsInfo, SilencesPart(t, i),
         thunk[t].rules # Pending, thunk[t].silences # Pending
  PROVE  thunk' \in [Slots -> Thunks] /\ info' \in [Keys -> AlertsInfo]
<1>1. thunk[t] \in [phase : {"fetching", "rulesText", "silencesText"}, key : Keys,
                    rules : RulesAnswers, silences : SilencesAnswers]
  BY BusyThunk
<1>2. CASE thunk[t].silences.status = "denied"
  <2>1. [thunk[t] EXCEPT !.phase = "silencesText"] \in Thunks
    BY <1>1 DEF Thunks
  <2>2. thunk' = [thunk EXCEPT ![t] = [thunk[t] EXCEPT !.phase = "silencesText"]]
    BY <1>2 DEF SilencesPart, TypeOK
  <2>3. info' = [info EXCEPT ![thunk[t].key] = i]
    BY <1>2 DEF SilencesPart
  <2> QED
    BY <1>1, <2>1, <2>2, <2>3 DEF TypeOK
<1>3. CASE thunk[t].silences.status # "denied"
  <2> DEFINE j == IF thunk[t].silences.status = "failed" THEN SetSilencesErrored(i)
                  ELSE SetSilencesLoaded(i, thunk[t].silences.silences)
  <2>1. j \in AlertsInfo
    <3>1. CASE thunk[t].silences.status = "failed"
      BY <3>1, SilencesErroredType
    <3>2. CASE thunk[t].silences.status # "failed"
      <4>1. thunk[t].silences.silences \in [Silences -> SilenceStates]
        BY <1>1, <1>3, <3>2 DEF SilencesAnswers, Pending, Rejected
      <4> QED
        BY <3>2, <4>1, SilencesLoadedType
    <3> QED
      BY <3>1, <3>2
  <2>2. applySilences(j) \in AlertsInfo
    BY <2>1, ApplyType
  <2>3. thunk' = [thunk EXCEPT ![t] = Idle] /\ info' = [info EXCEPT ![thunk[t].key] = applySilences(j)]
    BY <1>3 DEF SilencesPart
  <2> HIDE DEF j
  <2> QED
    BY <1>1, <2>2, <2>3 DEF TypeOK, Thunks
<1> QED
  BY <1>2, <1>3

LEMMA NewInfoType == newAlertsInfo \in AlertsInfo
BY DEF newAlertsInfo, AlertsInfo, AlertStates, ServerAlertStates, RuleStates, SilenceStates

LEMMA InitType == Init => TypeOK
<1> SUFFICES ASSUME Init PROVE TypeOK
  OBVIOUS
<1>2. info \in [Keys -> AlertsInfo]
  BY NewInfoType DEF Init
<1>3. thunk \in [Slots -> Thunks] /\ mutation \in Mutations
  BY DEF Init, Thunks, Mutations
<1>4. page \in Pages
  BY DEF Init, Pages
<1> QED
  BY <1>2, <1>3, <1>4 DEF Init, TypeOK, ServerAlertStates, SilenceStates

(* The fields no proof below says more about.                              *)
LEMMA ServersType ==
  ASSUME TypeOK, Servers
  PROVE  TypeOK'
<1>1. CASE AlertChanges
  <2> USE <1>1
  <2>1. firing' \in [Alerts -> ServerAlertStates] /\ changes' \in Nat
    BY DEF AlertChanges, TypeOK
  <2> QED
    BY <2>1 DEF AlertChanges, TypeOK
<1>2. CASE SilenceChanges
  <2> USE <1>2
  <2>1. silenceState' \in [Silences -> SilenceStates] /\ changes' \in Nat
    BY DEF SilenceChanges, TypeOK, SilenceStates
  <2> QED
    BY <2>1 DEF SilenceChanges, TypeOK
<1> QED
  BY <1>1, <1>2 DEF Servers

LEMMA ShowKeyType ==
  ASSUME TypeOK, NEW k \in Keys, ShowKey(k)
  PROVE  page' \in Pages /\ thunk' \in [Slots -> Thunks]
<1>1. page' \in Pages
  BY DEF ShowKey, TypeOK, Pages
<1>2. thunk' \in [Slots -> Thunks]
  BY StartType DEF ShowKey, TypeOK
<1> QED
  BY <1>1, <1>2

LEMMA PageType ==
  ASSUME TypeOK, Page
  PROVE  TypeOK'
<1>1. CASE Mount
  <2>1. page' \in Pages
    BY <1>1 DEF Mount, TypeOK, Pages
  <2>2. thunk' \in [Slots -> Thunks]
    BY <1>1, StartType DEF Mount, TypeOK, Pages
  <2> QED
    BY <1>1, <2>1, <2>2 DEF Mount, TypeOK, server
<1>2. CASE Unmount
  <2>1. page' \in Pages
    BY <1>2 DEF Unmount, TypeOK, Pages
  <2> QED
    BY <1>2, <2>1 DEF Unmount, TypeOK, server
<1>3. CASE AccessChecked
  <2>1. page' \in Pages
    BY <1>3 DEF AccessChecked, TypeOK, Pages
  <2>2. thunk' \in [Slots -> Thunks]
    BY <1>3, StartType DEF AccessChecked, TypeOK, Pages
  <2> QED
    BY <1>3, <2>1, <2>2 DEF AccessChecked, TypeOK, server
<1>4. CASE ChangeNamespace
  BY <1>4, ShowKeyType DEF ChangeNamespace, TypeOK, server
<1>5. CASE onNamespaceChange
  <2>1. page' \in Pages /\ thunk' \in [Slots -> Thunks]
    BY <1>5, ShowKeyType DEF onNamespaceChange, TypeOK
  <2>2. info' \in [Keys -> AlertsInfo]
    BY <1>5, NewInfoType DEF onNamespaceChange, TypeOK
  <2> QED
    BY <1>5, <2>1, <2>2 DEF onNamespaceChange, TypeOK, server
<1>6. CASE Tick
  <2>2. thunk' \in [Slots -> Thunks]
    BY <1>6, StartType DEF Tick, TypeOK, Pages
  <2> QED
    BY <1>6, <2>2 DEF Tick, TypeOK, server
<1> QED
  BY <1>1, <1>2, <1>3, <1>4, <1>5, <1>6 DEF Page

LEMMA UserType ==
  ASSUME TypeOK, User
  PROVE  TypeOK'
<1>1. CASE SubmitSave
  <2>1. mutation' \in Mutations
    BY <1>1 DEF SubmitSave, TypeOK, Mutations, Pages
  <2> QED
    BY <1>1, <2>1 DEF SubmitSave, TypeOK, server
<1>2. CASE SubmitExpire
  <2>1. mutation' \in Mutations
    BY <1>2 DEF SubmitExpire, TypeOK, Mutations, Pages, ActiveSilences
  <2> QED
    BY <1>2, <2>1 DEF SubmitExpire, TypeOK, server
<1>3. CASE MutationAnswered
  <2>0. mutation \in [kind : {"save", "expire"}, left : SUBSET Silences, key : Keys, ok : BOOLEAN]
    BY <1>3 DEF MutationAnswered, TypeOK, Mutations
  <2>1. mutation' \in Mutations
    BY <1>3, <2>0 DEF MutationAnswered, Mutations
  <2>2. silenceState' \in [Silences -> SilenceStates]
    BY <1>3, <2>0 DEF MutationAnswered, TypeOK, SilenceStates
  <2>3. changes' \in Nat /\ failures' \in Nat
    BY <1>3 DEF MutationAnswered, TypeOK
  <2> QED
    BY <1>3, <2>1, <2>2, <2>3 DEF MutationAnswered, TypeOK
<1>4. CASE MutationDone
  <2>0. mutation \in [kind : {"save", "expire"}, left : SUBSET Silences, key : Keys, ok : BOOLEAN]
    BY <1>4 DEF MutationDone, TypeOK, Mutations
  <2>1. mutation' \in Mutations
    BY <1>4 DEF MutationDone, Mutations
  <2>2. thunk' \in [Slots -> Thunks]
    BY <1>4, <2>0, StartType DEF MutationDone, TypeOK
  <2> QED
    BY <1>4, <2>1, <2>2 DEF MutationDone, TypeOK, server
<1> QED
  BY <1>1, <1>2, <1>3, <1>4 DEF User

LEMMA AnswerType ==
  ASSUME TypeOK, NEW t \in Slots, Answer(t)
  PROVE  TypeOK'
<1>0. /\ thunk[t].phase = "fetching"
      /\ thunk[t] \in [phase : {"fetching"}, key : Keys,
                       rules : RulesAnswers, silences : SilencesAnswers]
  BY DEF Answer, RulesAnswered, SilencesAnswered, TypeOK, Thunks, Idle
<1>1. CASE RulesAnswered(t)
  <2>0. PICK ok \in SUBSET Sources :
          \E answer \in Rejected \cup {RulesSnapshot(thunk[t].key, ok)} :
            thunk' = [thunk EXCEPT ![t].rules = answer]
    BY <1>1 DEF RulesAnswered
  <2>1. PICK answer \in Rejected \cup {RulesSnapshot(thunk[t].key, ok)} :
               thunk' = [thunk EXCEPT ![t].rules = answer]
    BY <2>0
  <2>2. RulesSnapshot(thunk[t].key, ok) \in RulesAnswers
    BY <1>0 DEF RulesSnapshot, RulesAnswers, TypeOK, ServerAlertStates
  <2>3. answer \in RulesAnswers
    BY <2>2 DEF RulesAnswers
  <2>4. [thunk[t] EXCEPT !.rules = answer] \in Thunks
    BY <1>0, <2>3 DEF Thunks
  <2>5. thunk' = [thunk EXCEPT ![t] = [thunk[t] EXCEPT !.rules = answer]]
    BY <2>1 DEF TypeOK
  <2>6. thunk' \in [Slots -> Thunks]
    BY <2>4, <2>5 DEF TypeOK
  <2>7. failures' \in Nat
    BY <1>1 DEF RulesAnswered, TypeOK
  <2> QED
    BY <1>1, <2>6, <2>7 DEF RulesAnswered, TypeOK, server
<1>2. CASE SilencesAnswered(t)
  <2>1. PICK answer \in Rejected \cup {[status |-> "ok", silences |-> silenceState]} :
               thunk' = [thunk EXCEPT ![t].silences = answer]
    BY <1>2 DEF SilencesAnswered
  <2>3. answer \in SilencesAnswers
    BY DEF SilencesAnswers, TypeOK
  <2>4. [thunk[t] EXCEPT !.silences = answer] \in Thunks
    BY <1>0, <2>3 DEF Thunks
  <2>5. thunk' = [thunk EXCEPT ![t] = [thunk[t] EXCEPT !.silences = answer]]
    BY <2>1 DEF TypeOK
  <2>6. thunk' \in [Slots -> Thunks]
    BY <2>4, <2>5 DEF TypeOK
  <2>7. failures' \in Nat
    BY <1>2 DEF SilencesAnswered, TypeOK
  <2> QED
    BY <1>2, <2>6, <2>7 DEF SilencesAnswered, TypeOK, server
<1> QED
  BY <1>1, <1>2 DEF Answer

LEMMA TurnType ==
  ASSUME TypeOK, NEW t \in Slots, Turn(t)
  PROVE  TypeOK'
<1>0. /\ thunk[t].phase # "idle"
      /\ thunk[t] \in [phase : {"fetching", "rulesText", "silencesText"}, key : Keys,
                       rules : RulesAnswers, silences : SilencesAnswers]
  BY BusyThunk DEF Turn, Settled, RulesText, SilencesText, TextFails
<1>1. info[thunk[t].key] \in AlertsInfo
  BY <1>0 DEF TypeOK
<1>2. CASE Settled(t)
  <2> USE <1>2
  <2>1. thunk[t].rules # Pending /\ thunk[t].silences # Pending
    BY DEF Settled
  <2>2. CASE thunk[t].rules.status = "denied"
    <3>1. [thunk[t] EXCEPT !.phase = "rulesText"] \in Thunks
      BY <1>0, <2>1 DEF Thunks
    <3>2. thunk' = [thunk EXCEPT ![t] = [thunk[t] EXCEPT !.phase = "rulesText"]]
      BY <2>2 DEF Settled, TypeOK
    <3> QED
      BY <2>2, <3>1, <3>2 DEF Settled, TypeOK, server
  <2>3. CASE thunk[t].rules.status = "failed"
    <3>1. SilencesPart(t, SetErrored(info[thunk[t].key]))
      BY <2>3 DEF Settled
    <3>2. thunk' \in [Slots -> Thunks] /\ info' \in [Keys -> AlertsInfo]
      BY <1>0, <1>1, <2>1, <3>1, ErroredType, SilencesPartType
    <3> QED
      BY <3>2 DEF Settled, TypeOK, server
  <2>4. CASE thunk[t].rules.status = "ok"
    <3> DEFINE i == SetRulesLoaded(info[thunk[t].key], thunk[t].rules.alerts, thunk[t].rules.listed)
    <3>1. SilencesPart(t, i)
      BY <2>4 DEF Settled
    <3>2. /\ thunk[t].rules.alerts \in [Alerts -> ServerAlertStates]
          /\ thunk[t].rules.listed \in SUBSET Rules
      BY <1>0, <2>4 DEF RulesAnswers, Pending, Rejected
    <3>3. i \in AlertsInfo
      BY <1>1, <3>2, RulesLoadedType
    <3> HIDE DEF i
    <3>4. thunk' \in [Slots -> Thunks] /\ info' \in [Keys -> AlertsInfo]
      BY <1>0, <2>1, <3>1, <3>3, SilencesPartType
    <3> QED
      BY <3>4 DEF Settled, TypeOK, server
  <2> QED
    BY <2>2, <2>3, <2>4 DEF Settled
<1>3. CASE RulesText(t)
  <2>1. thunk[t].rules # Pending /\ thunk[t].silences # Pending
    BY <1>3 DEF RulesText, TypeOK, Thunks, Idle
  <2>2. thunk' \in [Slots -> Thunks] /\ info' \in [Keys -> AlertsInfo]
    BY <1>0, <1>1, <1>3, <2>1, ErroredType, SilencesPartType DEF RulesText
  <2> QED
    BY <1>3, <2>2 DEF RulesText, TypeOK, server
<1>4. CASE SilencesText(t)
  <2>1. applySilences(SetSilencesErrored(info[thunk[t].key])) \in AlertsInfo
    BY <1>1, SilencesErroredType, ApplyType
  <2>2. info' = [info EXCEPT ![thunk[t].key] = applySilences(SetSilencesErrored(info[thunk[t].key]))]
    BY <1>4 DEF SilencesText
  <2>3. thunk' \in [Slots -> Thunks]
    BY <1>4 DEF SilencesText, TypeOK, Thunks
  <2> QED
    BY <1>4, <2>1, <2>2, <2>3 DEF SilencesText, TypeOK, server
<1>5. CASE TextFails(t)
  <2>1. thunk' \in [Slots -> Thunks] /\ failures' \in Nat
    BY <1>5 DEF TextFails, TypeOK, Thunks
  <2> QED
    BY <1>5, <2>1 DEF TextFails, TypeOK, server
<1> QED
  BY <1>2, <1>3, <1>4, <1>5 DEF Turn

(* Every variable keeps its type, for any alerts, silences and namespaces  *)
(* and any number of thunks in flight.                                     *)
THEOREM TypeCorrect == Spec => []TypeOK
<1>1. Init => TypeOK
  BY InitType
<1>2. TypeOK /\ [Next]_vars => TypeOK'
  <2> SUFFICES ASSUME TypeOK, [Next]_vars PROVE TypeOK'
    OBVIOUS
  <2>1. CASE Next
    BY <2>1, ServersType, PageType, UserType, AnswerType, TurnType DEF Next
  <2>2. CASE UNCHANGED vars
    BY <2>2 DEF vars, TypeOK
  <2> QED
    BY <2>1, <2>2
<1> QED
  BY <1>1, <1>2, PTL DEF Spec

----------------------------------------------------------------------------
(* One entry of the store                                                  *)

NoOrphans(i) ==
  \A a \in Alerts : i.alerts[a] = "silenced" /\ i.silencedBy[a] = {}
                      => i.loadError \/ i.silencesError
Isolated(k, i) == \A a \in Alerts : i.alerts[a] # "absent" => a \in Visible[k]
HidesNothing(i) ==
  \A a \in Alerts : i.rules[RuleOf[a]] = "silenced" /\ i.ruleAlerts[a] # "absent"
                      => i.ruleAlerts[a] = "silenced"

EntryOK(k, i) == (Raw(i) \/ Applied(i)) /\ NoOrphans(i) /\ Isolated(k, i) /\ HidesNothing(i)

(* What applySilences needs of the entry it is given: no mark on an alert  *)
(* that is not firing, and no old mark unless an error is shown.           *)
Applicable(k, i) ==
  /\ \A a \in Alerts : ~isAlertFiring(i.alerts[a]) => i.silencedBy[a] = {}
  /\ i.loadError \/ i.silencesError \/ \A a \in Alerts : i.alerts[a] # "silenced"
  /\ Isolated(k, i)
  /\ HidesNothing(i)

LEMMA EntryErrored ==
  ASSUME NEW k \in Keys, NEW i \in AlertsInfo, EntryOK(k, i)
  PROVE  EntryOK(k, SetErrored(i)) /\ SetErrored(i).loadError
<1> DEFINE j == SetErrored(i)
<1>1. /\ j.alerts = i.alerts /\ j.silencedBy = i.silencedBy
      /\ j.rules = i.rules /\ j.ruleSilencedBy = i.ruleSilencedBy
      /\ j.ruleAlerts = i.ruleAlerts /\ j.silences = i.silences
      /\ j.firingAlerts = i.firingAlerts /\ j.loadError
  BY DEF SetErrored, AlertsInfo
<1> HIDE DEF j
<1>2. Raw(i) => Raw(j)
  BY <1>1 DEF Raw
<1>3. Applied(i) => Applied(j)
  BY <1>1 DEF Applied, Silencers, ActiveSilences
<1>4. EntryOK(k, j)
  BY <1>1, <1>2, <1>3 DEF EntryOK, NoOrphans, Isolated, HidesNothing
<1> QED
  BY <1>1, <1>4 DEF j

LEMMA EntryRulesLoaded ==
  ASSUME NEW k \in Keys, NEW i \in AlertsInfo,
         NEW alerts \in [Alerts -> ServerAlertStates], NEW listed \in SUBSET Rules,
         \A a \in Alerts : alerts[a] # "absent" => a \in Visible[k]
  PROVE  LET j == SetRulesLoaded(i, alerts, listed)
         IN  Raw(j) /\ EntryOK(k, j)
<1> DEFINE j == SetRulesLoaded(i, alerts, listed)
<1>1. /\ j.alerts = alerts /\ j.ruleAlerts = alerts
      /\ j.silencedBy = [a \in Alerts |-> {}]
      /\ j.ruleSilencedBy = [r \in Rules |-> {}]
      /\ j.rules = [r \in Rules |-> IF r \in listed THEN ruleState(alerts, r) ELSE "absent"]
  BY DEF SetRulesLoaded, AlertsInfo
<1> HIDE DEF j
<1>2. \A a \in Alerts : alerts[a] # "silenced"
  BY DEF ServerAlertStates
<1>3. Raw(j)
  BY <1>1, <1>2 DEF Raw
<1>4. \A r \in Rules : j.rules[r] # "silenced"
  BY <1>1 DEF ruleState
<1>5. EntryOK(k, j)
  BY <1>1, <1>2, <1>3, <1>4, RuleOfAssumption DEF EntryOK, NoOrphans, Isolated, HidesNothing
<1> QED
  BY <1>3, <1>5 DEF j

(* Loading or losing the silences touches nothing but the silences.        *)
LEMMA ApplicableWithSilences ==
  ASSUME NEW k \in Keys, NEW i \in AlertsInfo, EntryOK(k, i)
  PROVE  /\ Applicable(k, SetSilencesErrored(i))
         /\ \A silences \in [Silences -> SilenceStates] :
              i.loadError \/ Raw(i) => Applicable(k, SetSilencesLoaded(i, silences))
<1>1. \A a \in Alerts : ~isAlertFiring(i.alerts[a]) => i.silencedBy[a] = {}
  BY DEF EntryOK, Raw, Applied, Silencers, isAlertSilenced
<1>2. Applicable(k, SetSilencesErrored(i))
  <2> DEFINE j == SetSilencesErrored(i)
  <2>1. /\ j.alerts = i.alerts /\ j.silencedBy = i.silencedBy
        /\ j.rules = i.rules /\ j.ruleAlerts = i.ruleAlerts
        /\ j.silencesError
    BY DEF SetSilencesErrored, AlertsInfo
  <2> HIDE DEF j
  <2>2. Applicable(k, j)
    BY <1>1, <2>1 DEF Applicable, EntryOK, Isolated, HidesNothing
  <2> QED
    BY <2>2 DEF j
<1>3. ASSUME NEW silences \in [Silences -> SilenceStates], i.loadError \/ Raw(i)
      PROVE  Applicable(k, SetSilencesLoaded(i, silences))
  <2> DEFINE j == SetSilencesLoaded(i, silences)
  <2>1. /\ j.alerts = i.alerts /\ j.silencedBy = i.silencedBy
        /\ j.rules = i.rules /\ j.ruleAlerts = i.ruleAlerts
        /\ j.loadError = i.loadError
    BY DEF SetSilencesLoaded, AlertsInfo
  <2> HIDE DEF j
  <2>2. Applicable(k, j)
    BY <1>1, <1>3, <2>1 DEF Applicable, EntryOK, Isolated, HidesNothing, Raw
  <2> QED
    BY <2>2 DEF j
<1> QED
  BY <1>2, <1>3

LEMMA EntryApplied ==
  ASSUME NEW k \in Keys, NEW i \in AlertsInfo, Applicable(k, i)
  PROVE  EntryOK(k, applySilences(i))
<1> DEFINE j == applySilencesToAlerts(i)
           m == applySilencesToRules(j)
           n == setFiringAlerts(m)
           covered == {r \in Rules : RuleSilencers(j, r) # {}}
<1>1. j \in AlertsInfo /\ m \in AlertsInfo /\ n \in AlertsInfo /\ applySilences(i) = n
  BY ApplyToAlertsType, ApplyToRulesType, FiringAlertsType DEF applySilences
<1>2. /\ j.alerts = [a \in Alerts |-> IF Silencers(i, a) # {} THEN "silenced" ELSE i.alerts[a]]
      /\ j.silencedBy = [a \in Alerts |-> IF isAlertFiring(i.alerts[a]) THEN Silencers(i, a)
                                          ELSE i.silencedBy[a]]
      /\ j.rules = i.rules /\ j.ruleAlerts = i.ruleAlerts /\ j.silences = i.silences
      /\ j.loadError = i.loadError /\ j.silencesError = i.silencesError
  BY DEF applySilencesToAlerts, AlertsInfo
<1> HIDE DEF j
<1>3. /\ m.alerts = j.alerts /\ m.silencedBy = j.silencedBy /\ m.silences = j.silences
      /\ m.loadError = j.loadError /\ m.silencesError = j.silencesError
      /\ m.rules = [r \in Rules |-> IF r \in covered THEN "silenced" ELSE j.rules[r]]
      /\ m.ruleAlerts = [a \in Alerts |->
            IF \E s \in RuleSilencers(j, RuleOf[a]) : isAlertSilenced(j.ruleAlerts, a, s)
            THEN "silenced" ELSE j.ruleAlerts[a]]
  BY <1>1 DEF applySilencesToRules, AlertsInfo
<1> HIDE DEF m
<1>4. /\ n.alerts = j.alerts /\ n.silencedBy = j.silencedBy /\ n.silences = i.silences
      /\ n.rules = m.rules /\ n.ruleAlerts = m.ruleAlerts
      /\ n.loadError = i.loadError /\ n.silencesError = i.silencesError
      /\ n.firingAlerts = [s \in Silences |->
            IF m.silences[s] = "absent" THEN {}
            ELSE {a \in Alerts : isAlertSilenced(m.alerts, a, s)}]
  BY <1>1, <1>2, <1>3 DEF setFiringAlerts, AlertsInfo
<1> HIDE DEF n, covered
<1>5. \A a \in Alerts : ~isAlertFiring(i.alerts[a]) => Silencers(i, a) = {}
  BY DEF Silencers, isAlertSilenced
<1>6. \A a \in Alerts : Silencers(n, a) = Silencers(i, a)
  <2>1. \A a \in Alerts : isAlertFiring(n.alerts[a]) <=> isAlertFiring(i.alerts[a])
    BY <1>2, <1>4, <1>5 DEF isAlertFiring
  <2>2. ActiveSilences(n) = ActiveSilences(i)
    BY <1>4 DEF ActiveSilences
  <2> QED
    BY <2>1, <2>2 DEF Silencers, isAlertSilenced
<1>7. Applied(n)
  <2>1. \A a \in Alerts : n.silencedBy[a] = Silencers(n, a)
    <3>1. n.silencedBy = [a \in Alerts |-> IF isAlertFiring(i.alerts[a]) THEN Silencers(i, a)
                                          ELSE i.silencedBy[a]]
      BY <1>2, <1>4
    <3>2. ASSUME NEW a \in Alerts PROVE n.silencedBy[a] = Silencers(i, a)
      <4>1. CASE isAlertFiring(i.alerts[a])
        BY <3>1, <4>1
      <4>2. CASE ~isAlertFiring(i.alerts[a])
        <5>1. i.silencedBy[a] = {}
          BY <4>2 DEF Applicable
        <5>2. Silencers(i, a) = {}
          BY <1>5, <4>2
        <5> QED
          BY <3>1, <4>2, <5>1, <5>2
      <4> QED
        BY <4>1, <4>2
    <3> QED
      BY <1>6, <3>2
  <2>2. \A a \in Alerts : n.silencedBy[a] # {} => n.alerts[a] = "silenced"
    BY <1>2, <1>4, <1>6, <2>1
  <2>3. \A s \in Silences : n.firingAlerts[s] =
          {a \in Alerts : n.silences[s] # "absent" /\ isAlertSilenced(n.alerts, a, s)}
    BY <1>2, <1>3, <1>4
  <2> QED
    BY <2>1, <2>2, <2>3 DEF Applied
<1>8. NoOrphans(n)
  <2>1. i.loadError \/ i.silencesError \/ \A a \in Alerts : i.alerts[a] # "silenced"
    BY DEF Applicable
  <2>2. SUFFICES ASSUME NEW a \in Alerts, n.alerts[a] = "silenced", n.silencedBy[a] = {},
                        \A b \in Alerts : i.alerts[b] # "silenced"
                 PROVE  FALSE
    BY <1>4, <2>1 DEF NoOrphans
  <2>3. Silencers(i, a) # {}
    BY <1>2, <1>4, <2>2
  <2>4. isAlertFiring(i.alerts[a])
    BY <1>5, <2>3
  <2> QED
    BY <1>2, <1>4, <2>2, <2>3, <2>4
<1>9. Isolated(k, n)
  <2>1. \A a \in Alerts : i.alerts[a] # "absent" => a \in Visible[k]
    BY DEF Applicable, Isolated
  <2>2. \A a \in Alerts : Silencers(i, a) # {} => i.alerts[a] # "absent"
    BY <1>5 DEF isAlertFiring
  <2> QED
    BY <1>2, <1>4, <2>1, <2>2 DEF Isolated
<1>10. HidesNothing(n)
  <2> SUFFICES ASSUME NEW a \in Alerts, n.rules[RuleOf[a]] = "silenced", n.ruleAlerts[a] # "absent"
               PROVE  n.ruleAlerts[a] = "silenced"
    BY DEF HidesNothing
  <2>1. RuleOf[a] \in Rules
    BY RuleOfAssumption
  <2>2. CASE RuleOf[a] \in covered
    <3>1. PICK s \in RuleSilencers(j, RuleOf[a]) : TRUE
      BY <2>1, <2>2 DEF covered
    <3>2. j.ruleAlerts[a] # "absent"
      <4>1. \A z \in RuleSilencers(j, RuleOf[a]) :
              isAlertSilenced(j.ruleAlerts, a, z) => j.ruleAlerts[a] # "absent"
        BY DEF isAlertSilenced, isAlertFiring
      <4>2. \/ n.ruleAlerts[a] = j.ruleAlerts[a]
            \/ \E z \in RuleSilencers(j, RuleOf[a]) : isAlertSilenced(j.ruleAlerts, a, z)
        BY <1>3, <1>4
      <4> QED
        BY <4>1, <4>2
    <3>3. isAlertSilenced(j.ruleAlerts, a, s)
      BY <3>1, <3>2 DEF RuleSilencers, AlertsOf
    <3> QED
      BY <1>3, <1>4, <3>1, <3>3
  <2>3. CASE RuleOf[a] \notin covered
    BY <1>2, <1>3, <1>4, <2>1, <2>3 DEF Applicable, HidesNothing
  <2> QED
    BY <2>2, <2>3
<1> QED
  BY <1>1, <1>7, <1>8, <1>9, <1>10 DEF EntryOK

----------------------------------------------------------------------------
(* The state: a turn rewrites the one entry its thunk names                *)

Entries == \A k \in Keys : EntryOK(k, info[k])

LEMMA EntriesSame ==
  Entries <=> /\ MarksMatchSilences
              /\ OrphansOnlyAfterError
              /\ NamespaceIsolation
              /\ SilencedRuleHidesNothing
BY DEF Entries, EntryOK, NoOrphans, Isolated, HidesNothing, MarksMatchSilences,
       OrphansOnlyAfterError, NamespaceIsolation, SilencedRuleHidesNothing

LEMMA SilencesPartEntries ==
  ASSUME TypeOK, Entries, NEW t \in Slots, thunk[t].phase # "idle",
         thunk[t].silences # Pending,
         NEW i \in AlertsInfo, EntryOK(thunk[t].key, i), i.loadError \/ Raw(i),
         SilencesPart(t, i)
  PROVE  Entries'
<1> DEFINE k == thunk[t].key
<1>0. k \in Keys /\ thunk[t].silences \in SilencesAnswers
  BY BusyThunk
<1>1. CASE thunk[t].silences.status = "denied"
  <2>1. info' = [info EXCEPT ![k] = i]
    BY <1>1 DEF SilencesPart
  <2> QED
    BY <1>0, <2>1 DEF Entries, TypeOK
<1>2. CASE thunk[t].silences.status = "failed"
  <2>1. info' = [info EXCEPT ![k] = applySilences(SetSilencesErrored(i))]
    BY <1>2 DEF SilencesPart
  <2>2. EntryOK(k, applySilences(SetSilencesErrored(i)))
    BY <1>0, SilencesErroredType, ApplicableWithSilences, EntryApplied
  <2> QED
    BY <1>0, <2>1, <2>2 DEF Entries, TypeOK
<1>3. CASE thunk[t].silences.status \notin {"denied", "failed"}
  <2> DEFINE silences == thunk[t].silences.silences
  <2>1. info' = [info EXCEPT ![k] = applySilences(SetSilencesLoaded(i, silences))]
    BY <1>3 DEF SilencesPart
  <2>2. silences \in [Silences -> SilenceStates]
    BY <1>0, <1>3 DEF SilencesAnswers, Pending, Rejected
  <2>3. EntryOK(k, applySilences(SetSilencesLoaded(i, silences)))
    BY <1>0, <2>2, SilencesLoadedType, ApplicableWithSilences, EntryApplied
  <2> QED
    BY <1>0, <2>1, <2>3 DEF Entries, TypeOK
<1> QED
  BY <1>1, <1>2, <1>3

LEMMA TurnEntries ==
  ASSUME TypeOK, AnswersStayInNamespace, Entries, NEW t \in Slots, Turn(t)
  PROVE  Entries'
<1> DEFINE k == thunk[t].key
<1>0. /\ thunk[t].phase # "idle"
      /\ thunk[t] \in [phase : {"fetching", "rulesText", "silencesText"}, key : Keys,
                       rules : RulesAnswers, silences : SilencesAnswers]
  BY BusyThunk DEF Turn, Settled, RulesText, SilencesText, TextFails
<1>1. k \in Keys /\ info[k] \in AlertsInfo /\ EntryOK(k, info[k])
  BY <1>0 DEF TypeOK, Entries
<1>2. CASE Settled(t)
  <2>1. thunk[t].silences # Pending /\ thunk[t].rules # Pending
    BY <1>2 DEF Settled
  <2>2. CASE thunk[t].rules.status = "denied"
    BY <1>2, <2>2 DEF Settled, Entries
  <2>3. CASE thunk[t].rules.status = "failed"
    <3>1. SilencesPart(t, SetErrored(info[k]))
      BY <1>2, <2>3 DEF Settled
    <3> QED
      BY <1>0, <1>1, <2>1, <3>1, ErroredType, EntryErrored, SilencesPartEntries
  <2>4. CASE thunk[t].rules.status = "ok"
    <3> DEFINE i == SetRulesLoaded(info[k], thunk[t].rules.alerts, thunk[t].rules.listed)
    <3>1. SilencesPart(t, i)
      BY <1>2, <2>4 DEF Settled
    <3>2. /\ thunk[t].rules.alerts \in [Alerts -> ServerAlertStates]
          /\ thunk[t].rules.listed \in SUBSET Rules
      BY <1>0, <2>4 DEF RulesAnswers, Pending, Rejected
    <3>3. \A a \in Alerts : thunk[t].rules.alerts[a] # "absent" => a \in Visible[k]
      BY <1>0, <2>4 DEF AnswersStayInNamespace
    <3>4. i \in AlertsInfo /\ Raw(i) /\ EntryOK(k, i)
      BY <1>1, <3>2, <3>3, RulesLoadedType, EntryRulesLoaded
    <3> HIDE DEF i
    <3> QED
      BY <1>0, <2>1, <3>1, <3>4, SilencesPartEntries
  <2> QED
    BY <1>2, <2>2, <2>3, <2>4 DEF Settled
<1>3. CASE RulesText(t)
  <2>1. thunk[t].silences # Pending
    BY <1>3 DEF RulesText, TypeOK, Thunks, Idle
  <2>2. SilencesPart(t, SetErrored(info[k]))
    BY <1>3 DEF RulesText
  <2> QED
    BY <1>0, <1>1, <2>1, <2>2, ErroredType, EntryErrored, SilencesPartEntries
<1>4. CASE SilencesText(t)
  <2>1. info' = [info EXCEPT ![k] = applySilences(SetSilencesErrored(info[k]))]
    BY <1>4 DEF SilencesText
  <2>2. EntryOK(k, applySilences(SetSilencesErrored(info[k])))
    BY <1>1, SilencesErroredType, ApplicableWithSilences, EntryApplied
  <2> QED
    BY <1>1, <2>1, <2>2 DEF Entries, TypeOK
<1>5. CASE TextFails(t)
  BY <1>5 DEF TextFails, Entries
<1> QED
  BY <1>2, <1>3, <1>4, <1>5 DEF Turn

LEMMA NewEntry ==
  ASSUME NEW k \in Keys
  PROVE  EntryOK(k, newAlertsInfo)
BY RuleOfAssumption DEF EntryOK, NoOrphans, Isolated, HidesNothing, Raw, newAlertsInfo

LEMMA InitEntries == Init => Entries
BY NewEntry DEF Init, Entries

----------------------------------------------------------------------------
(* Answers on their way                                                    *)

InNamespace(th) ==
  th.phase # "idle" /\ th.rules.status = "ok"
    => \A a \in Alerts : th.rules.alerts[a] # "absent" => a \in Visible[th.key]

LEMMA StartInNamespace ==
  ASSUME TypeOK, AnswersStayInNamespace, NEW t \in Slots, NEW k \in Keys, Start(t, k)
  PROVE  AnswersStayInNamespace'
<1>1. thunk' = [thunk EXCEPT ![t] =
         [phase |-> "fetching", key |-> k, rules |-> Pending, silences |-> Pending]]
  BY DEF Start
<1>2. InNamespace([phase |-> "fetching", key |-> k, rules |-> Pending, silences |-> Pending])
  BY DEF InNamespace, Pending
<1>3. \A u \in Slots : InNamespace(thunk[u])
  BY DEF AnswersStayInNamespace, InNamespace
<1>4. \A u \in Slots : InNamespace(thunk'[u])
  BY <1>1, <1>2, <1>3 DEF TypeOK
<1> QED
  BY <1>4 DEF AnswersStayInNamespace, InNamespace

LEMMA AnswerInNamespace ==
  ASSUME TypeOK, AnswersStayInNamespace, NEW t \in Slots, Answer(t)
  PROVE  AnswersStayInNamespace'
<1>0. thunk[t] \in [phase : {"fetching"}, key : Keys,
                   rules : RulesAnswers, silences : SilencesAnswers]
  BY DEF Answer, RulesAnswered, SilencesAnswered, TypeOK, Thunks, Idle
<1>1. \A u \in Slots : InNamespace(thunk[u])
  BY DEF AnswersStayInNamespace, InNamespace
<1>2. CASE RulesAnswered(t)
  <2>1. PICK ok \in SUBSET Sources :
          \E answer \in Rejected \cup {RulesSnapshot(thunk[t].key, ok)} :
            thunk' = [thunk EXCEPT ![t].rules = answer]
    BY <1>2 DEF RulesAnswered
  <2>2. PICK answer \in Rejected \cup {RulesSnapshot(thunk[t].key, ok)} :
               thunk' = [thunk EXCEPT ![t].rules = answer]
    BY <2>1
  <2>3. InNamespace([thunk[t] EXCEPT !.rules = answer])
    <3>1. CASE answer \in Rejected
      BY <1>0, <3>1 DEF InNamespace, Rejected
    <3>2. CASE answer = RulesSnapshot(thunk[t].key, ok)
      BY <1>0, <3>2 DEF InNamespace, RulesSnapshot
    <3> QED
      BY <3>1, <3>2
  <2>4. \A u \in Slots : InNamespace(thunk'[u])
    BY <1>1, <2>2, <2>3 DEF TypeOK
  <2> QED
    BY <2>4 DEF AnswersStayInNamespace, InNamespace
<1>3. CASE SilencesAnswered(t)
  <2>1. PICK answer \in Rejected \cup {[status |-> "ok", silences |-> silenceState]} :
               thunk' = [thunk EXCEPT ![t].silences = answer]
    BY <1>3 DEF SilencesAnswered
  <2>2. InNamespace([thunk[t] EXCEPT !.silences = answer])
    BY <1>0, <1>1 DEF InNamespace
  <2>3. \A u \in Slots : InNamespace(thunk'[u])
    BY <1>1, <2>1, <2>2 DEF TypeOK
  <2> QED
    BY <2>3 DEF AnswersStayInNamespace, InNamespace
<1> QED
  BY <1>2, <1>3 DEF Answer

LEMMA TurnInNamespace ==
  ASSUME TypeOK, AnswersStayInNamespace, NEW t \in Slots, Turn(t)
  PROVE  AnswersStayInNamespace'
<1>1. \A u \in Slots : InNamespace(thunk[u])
  BY DEF AnswersStayInNamespace, InNamespace
<1>2. PICK th \in {Idle, [thunk[t] EXCEPT !.phase = "silencesText"],
                  [thunk[t] EXCEPT !.phase = "rulesText"]} : thunk' = [thunk EXCEPT ![t] = th]
  BY DEF Turn, Settled, RulesText, SilencesText, TextFails, SilencesPart, TypeOK
<1>3. thunk[t] \in [phase : {"fetching", "rulesText", "silencesText"}, key : Keys,
                   rules : RulesAnswers, silences : SilencesAnswers]
  BY BusyThunk DEF Turn, Settled, RulesText, SilencesText, TextFails
<1>4. InNamespace(th)
  BY <1>1, <1>2, <1>3 DEF InNamespace, Idle
<1>5. \A u \in Slots : InNamespace(thunk'[u])
  BY <1>1, <1>2, <1>4 DEF TypeOK
<1> QED
  BY <1>5 DEF AnswersStayInNamespace, InNamespace

(* A step that is no turn leaves the store alone and starts at most one    *)
(* thunk.                                                                  *)
LEMMA OtherSteps ==
  ASSUME TypeOK, AnswersStayInNamespace, Entries, Servers \/ Page \/ User
  PROVE  AnswersStayInNamespace' /\ Entries'
<1>1. thunk' = thunk \/ \E t \in Slots, k \in Keys : Start(t, k)
  <2>1. CASE Servers
    BY <2>1 DEF Servers, AlertChanges, SilenceChanges
  <2>2. CASE Page
    BY <2>2 DEF Page, Mount, Unmount, AccessChecked, ChangeNamespace, onNamespaceChange,
                ShowKey, Tick, TypeOK, Pages
  <2>3. CASE User
    <3>1. CASE SubmitSave \/ SubmitExpire \/ MutationAnswered
      BY <3>1 DEF SubmitSave, SubmitExpire, MutationAnswered
    <3>2. CASE MutationDone
      <4>1. mutation.key \in Keys
        BY <3>2 DEF MutationDone, TypeOK, Mutations
      <4> QED
        BY <3>2, <4>1 DEF MutationDone
    <3> QED
      BY <2>3, <3>1, <3>2 DEF User
  <2> QED
    BY <2>1, <2>2, <2>3
<1>2. info' = info \/ \E k \in Keys : info' = [info EXCEPT ![k] = newAlertsInfo]
  BY DEF Servers, AlertChanges, SilenceChanges,
         Page, Mount, Unmount, AccessChecked, ChangeNamespace, onNamespaceChange, Tick,
         User, SubmitSave, SubmitExpire, MutationAnswered, MutationDone
<1>3. Entries'
  BY <1>2, NewEntry DEF Entries, TypeOK
<1>4. CASE thunk' = thunk
  BY <1>3, <1>4 DEF AnswersStayInNamespace
<1>5. CASE \E t \in Slots, k \in Keys : Start(t, k)
  BY <1>3, <1>5, StartInNamespace
<1> QED
  BY <1>1, <1>4, <1>5

(* The invariant is inductive: answers stay in their namespace, and every  *)
(* entry a turn writes is one of the reducer cases above.                  *)
THEOREM Invariant == Spec => []IInv
<1>1. Init => IInv
  <2> SUFFICES ASSUME Init PROVE IInv
    OBVIOUS
  <2>1. AnswersStayInNamespace
    BY DEF AnswersStayInNamespace, Init, Idle
  <2> QED
    BY <2>1, InitType, InitEntries, EntriesSame DEF IInv
<1>2. IInv /\ [Next]_vars => IInv'
  <2> SUFFICES ASSUME IInv, [Next]_vars PROVE IInv'
    OBVIOUS
  <2>1. TypeOK /\ AnswersStayInNamespace /\ Entries
    BY EntriesSame DEF IInv
  <2>2. TypeOK'
    BY <2>1, ServersType, PageType, UserType, AnswerType, TurnType DEF Next, vars, TypeOK
  <2>3. AnswersStayInNamespace' /\ Entries'
    <3>1. CASE Servers \/ Page \/ User
      BY <2>1, <3>1, OtherSteps
    <3>2. CASE \E t \in Slots : Answer(t)
      BY <2>1, <3>2, AnswerInNamespace DEF Answer, RulesAnswered, SilencesAnswered, Entries
    <3>3. CASE \E t \in Slots : Turn(t)
      BY <2>1, <3>3, TurnInNamespace, TurnEntries
    <3>4. CASE UNCHANGED vars
      BY <2>1, <3>4 DEF vars, Entries, AnswersStayInNamespace
    <3> QED
      BY <3>1, <3>2, <3>3, <3>4 DEF Next
  <2>4. (MarksMatchSilences /\ OrphansOnlyAfterError /\ NamespaceIsolation
           /\ SilencedRuleHidesNothing)'
    BY <2>3, EntriesSame, PTL
  <2> QED
    BY <2>2, <2>3, <2>4 DEF IInv
<1> QED
  BY <1>1, <1>2, PTL DEF Spec

(* No entry of the store mixes alerts marked by one list of silences with  *)
(* another list, however many thunks overtake each other.                  *)
COROLLARY MarksAlwaysMatch == Spec => []MarksMatchSilences
BY Invariant, PTL DEF IInv

(* A silenced alert without a silence is only ever shown beside an error.  *)
COROLLARY OrphansAreFlagged == Spec => []OrphansOnlyAfterError
BY Invariant, PTL DEF IInv

(* A late answer never shows one namespace's alerts in another.            *)
COROLLARY NamespacesStayApart == Spec => []NamespaceIsolation
BY Invariant, PTL DEF IInv

(* An answer on its way is for the namespace its thunk was started for.    *)
COROLLARY AnswersStayApart == Spec => []AnswersStayInNamespace
BY Invariant, PTL DEF IInv

(* A silenced rule hides no firing alert.                                  *)
COROLLARY RulesHideNothing == Spec => []SilencedRuleHidesNothing
BY Invariant, PTL DEF IInv
=============================================================================
