SPECIFICATION Spec
CONSTANTS
  Contexts <- OneCache
  NUbatch = 2
  NSeq = 1
  SeqLists <- Single
  Capture = TRUE
  PosLists <- NoPos
  Marks <- AllOut
  MaxTokens = 3
  MaxPos = 2
INVARIANT HiddenStateOfToken
