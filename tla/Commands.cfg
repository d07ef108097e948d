\* Three starts over two session ids, so that an id is used again, against stops, a logout and a
\* read, every start failing or dropped wherever it waits; and two logins, one cancelled or
\* overtaken by the other, with a logout, a get_auth_state and token requests.
SPECIFICATION CommandsSpec
CONSTANTS
  Sessions = {s1, s2}
  NoSession = NoSession
  MaxNonce = 3
  Starts = {c1, c2, c3}
  NoStart = NoStart
  Stopper = Stopper
  MaxLogouts = 1
  Logins = {r1, r2}
  RefreshJob = RefreshJob
  Stored = Stored
  Nobody = Nobody
  MaxGeneration = 3
  MaxExpiries = 1
SYMMETRY Symmetry
CHECK_DEADLOCK FALSE
INVARIANTS
  NothingIsAbandoned
  RegistryMatchesRuntime
  LogoutEndsSessions
  WritesStayInSession
  CommandsGoOn
  LogoutDeletesCredentials
  AccountsDoNotMix
  CancelLeavesNothing
  EveryLoginIsAnswered
