SPECIFICATION Spec
CONSTANTS
  Vocabulary = {"char", "stop", "lead", "cont", "special", "eos"}
  StopSequence <- MCStopSequence
  ModelWindow = 5
  Drafts = {"off", "missing", "loaded"}
  MaxPrompt = 6
  MaxAsked = 4
  MaxContext = 6
INVARIANTS WithinWindow NoStopLeaks JoinedIsText
CHECK_DEADLOCK FALSE
