SPECIFICATION Spec
CONSTANTS
  Token <- MCTokens
  Context = 4
  Capacity = 2
  Ubatch = 2
  Batch = 2
  LateCommit = TRUE
INVARIANTS
  CommitRefusesMisuse
