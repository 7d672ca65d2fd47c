SPECIFICATION BlockManagerSpec
CONSTANTS
  Seqs = {s1, s2}
  Token = {1, 2}
  Prompts <- MCPrompts
  BlockSize = 2
  NumBlocks = 4
  MaxLen = 5
  Fnv <- ChainedHash
SYMMETRY SeqSymmetry
INVARIANTS
  TypeOK
  AccountsExact
  IndexSound
  CachedBlocksOwn
  CachedBlocksChained
  TailPrivate
  AllocateNeverFails
  HashNeverFails
