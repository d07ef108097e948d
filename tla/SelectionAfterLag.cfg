\* One change of the open document, told by a resync instead of a tree event.
SPECIFICATION Spec
CONSTANTS
  Paths = {p1, p2}
  NoPath = NoPath
  Ids = {d1, d2}
  NoId = NoId
  MaxEdits = 1
  MaxPicks = 1
  MaxLags = 1
SYMMETRY Symmetry
CHECK_DEADLOCK FALSE
INVARIANT ShownIsCurrent
