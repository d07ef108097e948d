\* A token request that loaded the credentials just before a logout deleted them.
SPECIFICATION Spec
CONSTANTS
  Logins = {r1, r2}
  RefreshJob = RefreshJob
  Stored = Stored
  Nobody = Nobody
  MaxGeneration = 3
  MaxExpiries = 1
SYMMETRY Symmetry
INVARIANTS
  LogoutSignsOut
