\* A workspace without drafts, or with one that is open or closed; what the user types
\* twice, one more wish, one write of another program, one failing operation and one
\* end of the application fall anywhere.  All of them are bounded: the model stops.
\* And a connection of one of two checkouts, with two requests under way at a time and one
\* command that is refused for want of one.
SPECIFICATION WindowSpec
CONSTANTS
  Changes = {c1, c2}
  Docs = {"guide", "note"}
  NoDoc = NoDoc
  Tracked = {"guide"}
  Absent = Absent
  Torn = Torn
  MaxTyped = 2
  MaxForeign = 1
  MaxAsks = 1
  MaxFaults = 1
  MaxEnds = 1
  Checkouts = {p1, p2}
  None = None
  MaxRequests = 2
  MaxRefusals = 1
SYMMETRY Symmetry
CHECK_DEADLOCK FALSE
INVARIANTS
  AcceptedTextKept
  NoDanglingRecord
  NothingIsAwaitedInVain
  ConnectsThePicked
PROPERTIES
  ForeignTextShown
  SaveAnswerIsTrue
