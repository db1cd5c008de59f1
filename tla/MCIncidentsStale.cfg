\* A user who does not wait.
SPECIFICATION Spec
CONSTANTS
  d = d  e = e  day = day  week = week  NoGroup = NoGroup
  Groups = {d, e}
  Days = {day, week}
  Within <- MCWithin
  Firing <- MCFiring
  Requests = {q1, q2}
  MaxFailures = 0
INVARIANTS OnlySelectedIncidentsAlerts
