SPECIFICATION Spec
CONSTANTS
  Seqs = {0, 1}
  MaxBatch = 2
  MaxCopies = 2
  Ranges <- MCRanges
  Options <- MCOptions
  Inf <- MCInf
INVARIANTS
  
  SlotIfAny
  NoHoles
