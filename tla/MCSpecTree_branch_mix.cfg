SPECIFICATION Spec
CONSTANTS
  Token <- MCTokens
  EOG = {}
  Support <- MCSupport
  Prompts <- MCPrompts
  Predict = 4
  Cap = 2
  PruneDepth = 2
  PruneNodes = 2
  Options <- Shared2
  Inf <- MCInf
INVARIANT KeptBranchIsText
