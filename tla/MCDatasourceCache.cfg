\* A datasource and two projects, of which two questions read alike, under
\* fairness.
SPECIFICATION FairSpec
CONSTANTS
  Kinds = {"Prometheus"}
  Names <- OneName
  Projects <- TwoProjects
  Existing <- TwoAlike
  Calls = {c1, c2}
  Ttl = 1
  MaxChanges = 1
  MaxFailures = 1
INVARIANTS RightDatasource
PROPERTIES ImplementsService CatchesUp
