--------------------------- MODULE ApplySilences ---------------------------
(***************************************************************************)
(* The pure part of the alerting store: one entry (AlertsInfo) of          *)
(* alerting[datasource][identifier] and what each reducer case makes of    *)
(* it.  The algorithm that marks alerts and rules as silenced is           *)
(* applySilences of features/alerts/components/AlertUtils.tsx.             *)
(*                                                                         *)
(* Labels and matchers are abstracted to the relation Matches: which       *)
(* silence's matchers all accept which alert's labels.                     *)
(***************************************************************************)
EXTENDS FiniteSets

CONSTANTS
  Alerts,     \* every alert a rule can raise
  Rules,      \* the alerting rules
  Silences,   \* the silences the Alertmanager may hold
  RuleOf,     \* the rule an alert belongs to
  Matches     \* pairs <<silence, alert>> whose matchers and labels agree

ASSUME RuleOfAssumption == RuleOf \in [Alerts -> Rules]
ASSUME MatchesAssumption == Matches \subseteq Silences \X Alerts

(* What the two servers say of an alert, a rule and a silence. "absent" is *)
(* an element missing from the list.                                       *)
ServerAlertStates == {"absent", "pending", "firing"}
SilenceStates == {"absent", "pending", "active", "expired"}

AlertStates == ServerAlertStates \cup {"silenced"}
RuleStates == {"absent", "inactive", "pending", "firing", "silenced"}

AlertsInfo ==
  [ loaded         : BOOLEAN,
    loadError      : BOOLEAN,                    \* loadError is not null
    alerts         : [Alerts -> AlertStates],
    silencedBy     : [Alerts -> SUBSET Silences],
    rules          : [Rules -> RuleStates],
    ruleSilencedBy : [Rules -> SUBSET Silences],
    ruleAlerts     : [Alerts -> AlertStates],    \* the copies in rules[i].alerts
    silencesLoaded : BOOLEAN,
    silencesError  : BOOLEAN,
    silences       : [Silences -> SilenceStates],
    firingAlerts   : [Silences -> SUBSET Alerts] ]

newAlertsInfo ==
  [ loaded         |-> FALSE,
    loadError      |-> FALSE,
    alerts         |-> [a \in Alerts |-> "absent"],
    silencedBy     |-> [a \in Alerts |-> {}],
    rules          |-> [r \in Rules |-> "absent"],
    ruleSilencedBy |-> [r \in Rules |-> {}],
    ruleAlerts     |-> [a \in Alerts |-> "absent"],
    silencesLoaded |-> FALSE,
    silencesError  |-> FALSE,
    silences       |-> [s \in Silences |-> "absent"],
    firingAlerts   |-> [s \in Silences |-> {}] ]

----------------------------------------------------------------------------
(* A rules answer: the alerts it lists with their states and the rules it  *)
(* lists.  A rule is as bad as its worst alert.                            *)

ruleState(alerts, r) ==
  LET of == {alerts[a] : a \in {b \in Alerts : RuleOf[b] = r}}
  IN  IF "firing" \in of THEN "firing"
      ELSE IF "pending" \in of THEN "pending" ELSE "inactive"

(* Mutant: the new list is merged into the old one.                        *)
SetRulesLoadedMerged(i, alerts, listed) ==
  [i EXCEPT !.loaded = TRUE,
            !.loadError = FALSE,
            !.alerts = [a \in Alerts |-> IF alerts[a] = "firing" /\ i.alerts[a] = "silenced"
                                          THEN "silenced" ELSE alerts[a]],
            !.silencedBy = [a \in Alerts |-> {}],
            !.rules = [r \in Rules |->
                         IF r \in listed THEN ruleState(alerts, r) ELSE "absent"],
            !.ruleSilencedBy = [r \in Rules |-> {}],
            !.ruleAlerts = alerts]

(* case AlertingSetRulesLoaded: both lists are replaced by new objects, so *)
(* no silencedBy survives.  Every alert object is copied into the alerts   *)
(* list; rules[i].alerts keeps its own.                                    *)
SetRulesLoaded(i, alerts, listed) ==
  [i EXCEPT !.loaded = TRUE,
            !.loadError = FALSE,
            !.alerts = alerts,
            !.silencedBy = [a \in Alerts |-> {}],
            !.rules = [r \in Rules |->
                         IF r \in listed THEN ruleState(alerts, r) ELSE "absent"],
            !.ruleSilencedBy = [r \in Rules |-> {}],
            !.ruleAlerts = alerts]

(* case AlertingSetErrored: the previous lists stay.                       *)
SetErrored(i) == [i EXCEPT !.loaded = TRUE, !.loadError = TRUE]

(* case AlertingSetSilencesErrored                                         *)
SetSilencesErrored(i) ==
  [i EXCEPT !.silencesLoaded = TRUE,
            !.silencesError = TRUE,
            !.silences = [s \in Silences |-> "absent"],
            !.firingAlerts = [s \in Silences |-> {}]]

(* case AlertingSetSilencesLoaded: fresh silences carry no firingAlerts.   *)
SetSilencesLoaded(i, silences) ==
  [i EXCEPT !.silencesLoaded = TRUE,
            !.silencesError = FALSE,
            !.silences = silences,
            !.firingAlerts = [s \in Silences |-> {}]]

----------------------------------------------------------------------------
isAlertFiring(state) == state \in {"firing", "silenced"}
isRuleFiring(state) == state \in {"firing", "silenced", "pending"}

isAlertSilenced(states, a, s) == isAlertFiring(states[a]) /\ <<s, a>> \in Matches

ActiveSilences(i) == {s \in Silences : i.silences[s] = "active"}

(* The active silences that match a firing alert.                          *)
Silencers(i, a) == {s \in ActiveSilences(i) : isAlertSilenced(i.alerts, a, s)}

(* rule.alerts                                                             *)
AlertsOf(i, r) == {a \in Alerts : RuleOf[a] = r /\ i.ruleAlerts[a] # "absent"}

(* Mutant: some alert of the rule, not every one.                          *)
RuleSilencersSome(i, r) ==
  IF isRuleFiring(i.rules[r])
  THEN {s \in ActiveSilences(i) :
          \E a \in AlertsOf(i, r) : isAlertSilenced(i.ruleAlerts, a, s)}
  ELSE {}

(* isRuleSilenced: one silence covers every alert of the rule.             *)
RuleSilencers(i, r) ==
  IF isRuleFiring(i.rules[r])
  THEN {s \in ActiveSilences(i) :
          \A a \in AlertsOf(i, r) : isAlertSilenced(i.ruleAlerts, a, s)}
  ELSE {}

(* Mutant: alerts that are already silenced are not looked at again.       *)
applySilencesToFiringOnly(i) ==
  [i EXCEPT
     !.alerts = [a \in Alerts |->
                   IF Silencers(i, a) # {} THEN "silenced" ELSE i.alerts[a]],
     !.silencedBy = [a \in Alerts |->
                       IF i.alerts[a] = "firing" THEN Silencers(i, a)
                       ELSE i.silencedBy[a]]]

(* applySilencesToAlerts.  Its writes to firingAlert.rule land in the      *)
(* draft reached through the alert, a copy of its own that nothing reads,  *)
(* so they leave rules and ruleAlerts as they are.                         *)
applySilencesToAlerts(i) ==
  [i EXCEPT
     !.alerts = [a \in Alerts |->
                   IF Silencers(i, a) # {} THEN "silenced" ELSE i.alerts[a]],
     !.silencedBy = [a \in Alerts |->
                       IF isAlertFiring(i.alerts[a]) THEN Silencers(i, a)
                       ELSE i.silencedBy[a]]]

(* applySilencesToRules: a rule that some silence covers is silenced, with *)
(* every alert of it that one of those silences matches; once all of them  *)
(* are, it lists each active silence that matches any of them.             *)
applySilencesToRules(i) ==
  LET covered == {r \in Rules : RuleSilencers(i, r) # {}}
      ruleAlerts == [a \in Alerts |->
        IF \E s \in RuleSilencers(i, RuleOf[a]) : isAlertSilenced(i.ruleAlerts, a, s)
        THEN "silenced" ELSE i.ruleAlerts[a]]
      allSilenced(r) == AlertsOf(i, r) # {} /\ \A a \in AlertsOf(i, r) : ruleAlerts[a] = "silenced"
  IN  [i EXCEPT
         !.rules = [r \in Rules |-> IF r \in covered THEN "silenced" ELSE i.rules[r]],
         !.ruleSilencedBy = [r \in Rules |->
            IF ~isRuleFiring(i.rules[r]) THEN i.ruleSilencedBy[r]
            ELSE IF r \in covered /\ allSilenced(r)
                 THEN {s \in ActiveSilences(i) :
                         \E a \in AlertsOf(i, r) : isAlertSilenced(ruleAlerts, a, s)}
                 ELSE RuleSilencers(i, r)],
         !.ruleAlerts = ruleAlerts]

(* silence.firingAlerts of every silence in the list, whatever its state.  *)
setFiringAlerts(i) ==
  [i EXCEPT !.firingAlerts = [s \in Silences |->
     IF i.silences[s] = "absent" THEN {}
     ELSE {a \in Alerts : isAlertSilenced(i.alerts, a, s)}]]

(* case AlertingApplySilences                                              *)
applySilences(i) == setFiringAlerts(applySilencesToRules(applySilencesToAlerts(i)))
=============================================================================
