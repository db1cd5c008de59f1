\* One alert, one silence and one failure, under fairness.
SPECIFICATION FairSpec
CONSTANTS
  a1 = a1  a2 = a2  r1 = r1  s1 = s1  s2 = s2
  all = all  ns = ns  prometheus = prometheus  extension = extension
  t1 = t1  t2 = t2
  Alerts = {a1}
  Rules = {r1}
  Silences = {s1}
  Keys = {all}
  Sources = {prometheus}
  Slots = {t1, t2}
  RuleOf <- OneRule
  SourceOf <- OneSource
  Matches <- MCMatches
  Visible <- MCVisible
  MaxChanges = 1
  MaxFailures = 1
INVARIANTS MarksMatchSilences OrphansOnlyAfterError
PROPERTIES Settles
