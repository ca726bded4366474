SPECIFICATION Spec
CONSTANTS
  v1 = v1
  v2 = v2
  v3 = v3
  dflt = dflt
  login = login
  k1 = k1
  Visits = {v1, v2, v3}
  Bags = {dflt, login}
  Keys = {k1}
  Absent = Absent
  Oversize <- MCOversize
  MaxFlash = 2
  NoId = NoId
  NoEntry = NoEntry
INVARIANTS TypeOK MemoryTakenOnce CookieAccounted CookieTakenAgain OrphanOnlyByTwoIds
PROPERTY ImplementsMailbox
SYMMETRY MCSymmetry
CHECK_DEADLOCK FALSE
