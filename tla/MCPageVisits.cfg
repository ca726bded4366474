SPECIFICATION Spec
CONSTANTS
  home = home
  other = other
  a = a
  b = b
  x = x
  k = k
  g1 = g1
  g2 = g2
  Segments = {a, b, x}
  Aliases = {k}
  Groups = {g1, g2}
  NoProp = NoProp
  NoAlias = NoAlias
  Components = {home, other}
  PropTrees <- MCPropTrees
  NoPage = NoPage
INVARIANTS TypeOK AskedIsSent PageComplete InitialIsLazy AskedIsMerged CallbackMapIsWhole
