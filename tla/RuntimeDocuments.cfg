\* One generation over two documents that are written, deleted and renamed while the
\* session starts, scans, indexes and keeps a document open, and whose watcher backend
\* may fail once.
SPECIFICATION Spec
CONSTANTS
  Sessions = {s1}
  NoSession = NoSession
  Paths = {p1, p2}
  NoPath = NoPath
  Ids = {i1}
  NoId = NoId
  MaxNonce = 1
  MaxWrites = 1
  MaxFaults = 1
SYMMETRY Symmetry
CHECK_DEADLOCK FALSE
INVARIANTS
  QuietMeansFresh
  OpenDocumentListed
  IndexAgreesWithTree
