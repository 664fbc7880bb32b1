SPECIFICATION Spec
CONSTANTS
  Tokens = {a, b}
  Eos = eos
  MaxNew = 4
  DraftTokens = 2
  Prompt = 3
  DraftWindow = 7
INVARIANT MatchesTarget
PROPERTIES Terminates GreedyWithoutEos
CHECK_DEADLOCK FALSE
