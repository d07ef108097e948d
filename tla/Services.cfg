\* Each component on the small instance that MCServices gives it.
SPECIFICATION Spec
CONSTANTS
  None = None
  Nobody = Nobody
  Corrupt = Corrupt
  NoPath = NoPath
  NoId = NoId
  DocPaths = {p1, p2}
  DocIds = {d1, d2}
  Guide = guide
  Journal = journal
  Calls = {c1, c2}
  Page = page
  GithubProjects = {g1, g2}
  Main = main
  Workers = {worker}
  Labels = {setting}
  MaxBatches = 2
  FileEdits = 2
  FileEntries = 2
  MaxEdits = 1
  MaxPicks = 2
  MaxLags = 1
  Interval = 2
  SlowBy = 1
  CodeLife = 6
  AccessLife = 4
  RefreshLife = 7
  Timeout = 1
  Window = 2
  Horizon = 13
  ItemsPerPage = 1
  ItemPages = 2
  FirstSubs = 1
  SubsPerPage = 1
  SubPages = 2
  Budget = 3
  ReposPerPage = 2
  OwnersShown = 2
  ProjectsShown = 1
  MaxInstalls = 3
  MaxRepositories = 3
  MaxOwners = 3
  MaxProjects = 2
  MaxAsset = 1
  MaxGrown = 2
  MaxWrites = 2
SYMMETRY Symmetry
CHECK_DEADLOCK FALSE
INVARIANTS
  WhatIsMissingIsSaid
  CopiesAgree
  WhatIsShownIsThere
  ReadsAreTrue
  LimitsAreKept
PROPERTY ChoicesStay
