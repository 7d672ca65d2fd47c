SPECIFICATION FairSpec
CONSTANTS
  Seqs = {s1, s2}
  Token = {1, 2, 3}
  Prompts <- SharedPrompts
  Requests <- SharedRequests
  Eos <- MCEos
  LM <- MCLM
  BlockSize = 2
  NumBlocks = 3
  MaxLen = 6
  Fnv <- ChainedHash
  MaxNumSeqs = 2
  MaxNumBatchedTokens = 3
  MaxModelLen = 5
  ModelSeqLen = 5
  Vocabulary = {1, 2, 3}
  MaxFaults = 0
PROPERTIES
  PublishedKvStable
  GeneratesAlone
  UsesBlockManager
  EveryRequestReported
