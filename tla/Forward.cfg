SPECIFICATION ForwardSpec
CONSTANTS
  Vocabulary = {a, b}
  Zero = Zero
  NumLayers = 2
  Window = 4
  MaxChunk = 2
  FirstSize = 3
  PageSize = 2
  MaxRanks = 3
  Models <- MCModels
  Scores <- MCScores
INVARIANT EachTextAlone
PROPERTY ImplementsKVCache
CHECK_DEADLOCK FALSE
