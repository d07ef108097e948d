\* The repository itself is the root of its documents.
SPECIFICATION Spec
CONSTANTS
  Files <- MCFiles
  Documents <- MCDocuments
  RootLists <- MCRepositoryRoot
  MaxChanges = 4
INVARIANT CachedMatchesCold
CHECK_DEADLOCK FALSE
