SPECIFICATION ModesSpec
CONSTANTS
  Token <- MCTokens
  Greedy <- MCGreedy
  Prompts <- MCAllPrompts
  EOG = {0}
  IgnoreEos = FALSE
  Context = 7
  Capacity = 4
  Ubatch = 4
  Predict = 4
  Ar = FALSE
  ProbeAt <- MCNoProbe
  Reuse = FALSE
  Draft = 3
  Branches = 2
  Prune = TRUE
  MaxDepth = 3
  MaxNodes = 5
INVARIANTS
  TypeOK
  EmitsGreedy
  CommittedExact
  
  IInv
PROPERTIES
  GreedyDecoding
