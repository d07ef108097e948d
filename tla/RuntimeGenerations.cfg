\* Two generations, of two session ids or of one that is used again: every order of
\* starts, aborts, stops, cache openings and workers of both.
SPECIFICATION Spec
CONSTANTS
  Sessions = {s1, s2}
  NoSession = NoSession
  Paths = {p1}
  NoPath = NoPath
  Ids = {}
  NoId = NoId
  MaxNonce = 2
  MaxWrites = 0
  MaxFaults = 0
SYMMETRY Symmetry
CHECK_DEADLOCK FALSE
INVARIANTS
  TypeOK
  CacheOpenExclusive
  GateMatchesWorker
  BatchMatchesPlan
PROPERTIES
  SlotSpec
  OnlyTheOwnerWrites
