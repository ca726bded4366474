SPECIFICATION Spec
CONSTANTS
  f1 = f1
  f2 = f2
  dflt = dflt
  login = login
  k1 = k1
  Fields = {f1, f2}
  Bags = {dflt, login}
  DefaultBag = dflt
  Unnamed = Unnamed
  Keys = {k1}
  Infos <- MCInfos
  Seeds <- MCSeeds
  Oversize <- MCOversize
  MaxOps = 4
  NoBag = NoBag
  NoPending = NoPending
  NotSent = NotSent
INVARIANT PrecognitionSeesTheBag
CHECK_DEADLOCK FALSE
