\* Two previews and two commands; two clones that want one target; two AI tasks and a
\* terminal.
SPECIFICATION OperationsSpec
CONSTANTS
  Previews = {p1, p2}
  Users = {ann, bob}
  Commands = {c1, c2}
  None = None
  Base = Base
  Foreign = Foreign
  Empties = {TRUE, FALSE}
  OfEmpty = {p1}
  MaxEvents = 1
  Targets = {t1}
  Nothing = Nothing
  Callers = {a1, a2}
  Shells = {a1}
  MaxForeign = 1
  MaxLogouts = 1
  MaxOutput = 2
CHECK_DEADLOCK FALSE
INVARIANTS
  OutcomeIsTrue
  OneAtATime
PROPERTIES
  OthersAreSpared
  OperationsEnd
