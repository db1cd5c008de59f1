\* Prometheus answers of two days, recorded over six query steps.
SPECIFICATION Spec
CONSTANTS
  Interval = 300
  OneDay = 600
  Days = 2
  Alerts <- MCAlerts
  Watchdog = "Watchdog"
  MaxQueryLength = 100
  Filters <- MCFilters
  MaxSteps = 6
  MaxSampled = 3
INVARIANTS IncidentsShowTheirHistory IncidentFiresWithItsAlerts
  AlertBarsMatchSamples BarsShowSeverity FiringIncidentHasOpenEnd ReloadShowsSameIncidents EveryAlertIsQueried
\* The last query step ends the history.
CHECK_DEADLOCK FALSE
