SPECIFICATION TextSpec
CONSTANTS
  Alphabet = {115, 83, 108, 1641, 32, 12288, 10, 769, 39}
  MaxText = 4
  Kinds = {"gpt2", "llama3", "qwen3"}
  Letters = {97, 98}
  MaxPiece = 5
  MaxMerges = 3
  MaxSentence = 5
  Files <- MCFiles
  Sentences <- MCSentences
INVARIANTS
  FollowsPattern
  MergesInOrder
  CachedRanksFresh
  RoundTrip
PROPERTY SpecialsFirst
CHECK_DEADLOCK FALSE
