\* Three events, one of another user and one failed save, under fairness.
SPECIFICATION FairSpec
CONSTANTS
  d1 = d1  d2 = d2  ns = ns  perses = perses
  Boards = {d1, d2}
  Panels = {p1, p2}
  External = {p1, p2}
  None = None
  Projects = {All, ns, perses}
  All = All
  ProjectOf <- MCProjectOf
  Namespaces = {ns}
  MaxEvents = 3
  MaxOthers = 1
  MaxFailures = 1
INVARIANTS TypeOK
PROPERTIES HandoverEnds ProjectsAgree RefetchKeepsEdits FailedSaveIsEdited
\* The user may stop.
CHECK_DEADLOCK FALSE
