SPECIFICATION ModesSpec
CONSTANTS
  Token <- MCTokens
  Greedy <- MCGreedy
  Prompts <- MCPairs
  EOG = {0}
  IgnoreEos = TRUE
  Context = 7
  Capacity = 3
  Ubatch = 3
  Predict = 4
  Ar = FALSE
  ProbeAt <- MCNoProbe
  Reuse = TRUE
  Draft = 2
  Branches = 2
  Prune = TRUE
  MaxDepth = 31
  MaxNodes = 3
INVARIANTS
  DraftAligned
  NothingRefused
  CountsAddUp
PROPERTIES
  CommittedCellsStable
  Terminates
