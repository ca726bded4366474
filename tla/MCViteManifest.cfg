SPECIFICATION FairSpec
CONSTANTS
  main = main
  n1 = n1
  n2 = n2
  f0 = f0
  f1 = f1
  f2 = f2
  s0 = s0
  s1 = s1
  Names = {main, n1, n2}
  Files = {f0, f1, f2}
  Sheets = {s0, s1}
  Roots = {main, n1}
  NoEntry = NoEntry
  NoFile = NoFile
  Manifests <- MCManifests
INVARIANTS TypeOK SheetsComplete PreloadComplete EachURLOnce ImportsFirst
PROPERTIES Terminates
CHECK_DEADLOCK FALSE
