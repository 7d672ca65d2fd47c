SPECIFICATION BlockManagerSpec
CONSTANTS
  Seqs = {s1, s2}
  Token = {1, 2}
  Prompts <- CollidingPrompts
  BlockSize = 2
  NumBlocks = 4
  MaxLen = 5
  Fnv <- CollidingHash
SYMMETRY SeqSymmetry
INVARIANTS
  AccountsExact
  IndexSound
