SPECIFICATION Spec
CONSTANTS
  c1 = c1
  c2 = c2
  c3 = c3
  w1 = w1
  w2 = w2
  b1 = b1
  k1 = k1
  v1 = v1
  v2 = v2
  Calls = {c1, c2, c3}
  Writers = {w1, w2}
  Bags = {b1}
  Keys = {k1}
  Vals = {v1, v2}
  Absent = Absent
  NoCall = NoCall
  NoResult = NoResult
  NoHeader = NoHeader
  NoRef = NoRef
  WriterOf <- MCWriterOf
  Seeds <- MCSeeds
  Oversize <- MCOversize
SYMMETRY CallSymmetry
INVARIANTS TypeOK OnePayload ReturnedFlashIsPending SeedSurvives TakenOnce NoEntryAfterFlush
PROPERTIES ImplementsAccumulator
CHECK_DEADLOCK FALSE
