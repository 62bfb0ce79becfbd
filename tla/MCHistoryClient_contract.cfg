SPECIFICATION Spec
CONSTANTS
  Token <- MCTokens
  Context = 3
  Capacity = 2
  Ubatch = 2
  Batch = 2
  LateCommit = FALSE
VIEW MCView
INVARIANTS
  AnswersTellTruth
  SnapshotRestorable
  HistoryDescribesBatch
