SPECIFICATION Spec
CONSTANTS
  Layers = {0, 1}
  RamLayers = {2}
  NExpert = 2
  NTok = 2
  Bundle <- MCBundle
  Dense = 2
  Page = 4
  MaxExpert = 8
  Configs <- MCConfigs
  MaxCalls = 2
INVARIANTS
  ProductsOwnWeights
  ReadsOfPhase
  ReadStaysInStaging
  BudgetUsedUp
PROPERTIES
  CallsComplete
