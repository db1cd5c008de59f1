\* Edit, save and change the time range: nobody else is there and nothing fails.
SPECIFICATION Spec
CONSTANTS
  d1 = d1  d2 = d2  ns = ns  perses = perses
  Boards = {d1, d2}
  Panels = {p1, p2}
  External = {p1, p2}
  None = None
  Projects = {All, ns, perses}
  All = All
  ProjectOf <- MCProjectOf
  Namespaces = {ns}
  MaxEvents = 4
  MaxOthers = 0
  MaxFailures = 0
PROPERTIES SavedPanelsPersist
CHECK_DEADLOCK FALSE
