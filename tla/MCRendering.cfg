SPECIFICATION FairSpec
CONSTANTS
  r1 = r1
  r2 = r2
  s1 = s1
  s2 = s2
  k1 = k1
  Renders = {r1, r2}
  Sharers = {s1, s2}
  Maps = {s1}
  Keys = {k1}
  Scenarios <- MCScenarios
  None = None
INVARIANTS TypeOK NoMapRace SharedListed OneTemplate PageOrError HolderGoesOn
PROPERTIES RenderEnds ShareReturns
CHECK_DEADLOCK FALSE
