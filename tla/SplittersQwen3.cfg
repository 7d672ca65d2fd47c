SPECIFICATION Spec
CONSTANTS
  Alphabet = {115, 83, 108, 49, 32, 9, 10, 33, 39}
  MaxText = 3
  Kinds = {"qwen3"}
INVARIANT Qwen3FollowsPattern
CHECK_DEADLOCK FALSE
