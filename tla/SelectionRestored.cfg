\* Starting the window and doing nothing: the documents are restored or not.
SPECIFICATION Spec
CONSTANTS
  Paths = {p1, p2}
  NoPath = NoPath
  Ids = {d1, d2}
  NoId = NoId
  MaxEdits = 1
  MaxPicks = 0
  MaxLags = 0
SYMMETRY Symmetry
CHECK_DEADLOCK FALSE
INVARIANT RestoredDocumentShown
