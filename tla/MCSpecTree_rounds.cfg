SPECIFICATION FairSpec
CONSTANTS
  Token <- MCTokens
  EOG = {0}
  Support <- MCSupport
  Prompts <- MCPrompts
  Predict = 2
  Cap = 2
  PruneDepth = 2
  PruneNodes = 2
  Options <- MCOptions
  Inf <- MCInf
INVARIANTS
  TreeTypeOK
  RowOfKeptBranch
  OutputInSupport
  DraftFollowsBranch
PROPERTIES
  Answered
