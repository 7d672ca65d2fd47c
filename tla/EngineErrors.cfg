SPECIFICATION LLMEngineSpec
CONSTANTS
  Seqs = {s1, s2, s3}
  Token = {1, 2, 3}
  Prompts <- UnknownPrompts
  Requests <- UnknownRequests
  Eos <- MCEos
  LM <- MCLM
  BlockSize = 2
  NumBlocks = 2
  MaxLen = 6
  Fnv <- ChainedHash
  MaxNumSeqs = 2
  MaxNumBatchedTokens = 1
  MaxModelLen = 5
  ModelSeqLen = 5
  Vocabulary = {1, 2}
  MaxFaults = 2
SYMMETRY SeqSymmetry
INVARIANTS
  AccountsExact
  QueuedOnce
