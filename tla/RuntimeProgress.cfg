\* One generation over one document that changes once, with a watcher backend that fails
\* twice at any time; or two generations of one session id over a document nobody edits.
SPECIFICATION ProgressSpec
CONSTANTS
  Sessions = {s1}
  NoSession = NoSession
  Paths = {p1}
  NoPath = NoPath
  Ids = {}
  NoId = NoId
  MaxNonce = 2
  MaxWrites = 1
  MaxFaults = 2
CHECK_DEADLOCK FALSE
INVARIANTS
  DegradedIsShown
PROPERTIES
  ChangesAreIndexed
  GenerationsSettle
