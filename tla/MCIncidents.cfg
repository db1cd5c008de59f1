\* A user who waits for answers or does not, one failure, under fairness.
SPECIFICATION FairSpec
CONSTANTS
  d = d  e = e  day = day  week = week  NoGroup = NoGroup
  Groups = {d, e}
  Days = {day, week}
  Within <- MCWithin
  Firing <- MCFiring
  Requests = {q1, q2}
  MaxFailures = 1
INVARIANTS SpinnerHasRequest AlertsOfSelectedIncident FilteredMatchesFilters VisibleIncidentShowsAlerts
PROPERTIES LoadingEnds
\* An error page offers nothing but a reload.
CHECK_DEADLOCK FALSE
