SPECIFICATION Spec
CONSTANTS
  Contexts <- MCContexts
  NUbatch = 2
  NSeq = 2
  SeqLists <- Coupled2
  Capture = FALSE
  PosLists <- GivenToo
  Marks <- SomeOut
  MaxTokens = 3
  MaxPos = 2
INVARIANT LogitsOfToken
INVARIANT UbatchesWellFormed
INVARIANT SequenceOrderKept
 
 
