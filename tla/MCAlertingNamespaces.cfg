\* Two namespaces of which one shows a1 alone, one rule with both alerts, two
\* overlapping silences, two thunks in flight: answers for a namespace the
\* user has left.
SPECIFICATION Spec
CONSTANTS
  a1 = a1  a2 = a2  r1 = r1  s1 = s1  s2 = s2
  all = all  ns = ns  prometheus = prometheus  extension = extension
  t1 = t1  t2 = t2
  Alerts = {a1, a2}
  Rules = {r1}
  Silences = {s1, s2}
  Keys = {all, ns}
  Sources = {prometheus, extension}
  Slots = {t1, t2}
  RuleOf <- OneRule
  SourceOf <- OneSource
  Matches <- MCMatches
  Visible <- MCVisible
  MaxChanges = 0
  MaxFailures = 2
SYMMETRY SlotSymmetry
INVARIANTS NamespaceIsolation SilencedRuleHidesNothing
