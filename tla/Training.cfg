SPECIFICATION Spec
CONSTANTS
  MaxSteps = 4
  CheckpointInterval = 1
  EvalInterval = 2
  Patience = 1
  Losses = {1, 2, 9}
  NaN = 9
  KeepLastN = 2
  AsyncChoices = {FALSE, TRUE}
  Device = "cuda"
  MaxFaults = 2
  ResumeFromStepDir = FALSE
  MaxRuns = 2
INVARIANTS CommittedSurvives LatestIsThere LabelIsTrainingProgress BestDescribesItsDirectory DoneMeansSaved
PROPERTIES WriteErrorSurfaces RunEnds
CHECK_DEADLOCK FALSE
