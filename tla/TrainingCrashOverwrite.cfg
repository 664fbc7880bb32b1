SPECIFICATION Spec
CONSTANTS
  MaxSteps = 4
  CheckpointInterval = 1
  EvalInterval = 2
  Patience = 0
  Losses = {1, 2}
  NaN = 9
  KeepLastN = 2
  AsyncChoices = {FALSE}
  Device = "cpu"
  MaxFaults = 1
  ResumeFromStepDir = FALSE
  MaxRuns = 1
INVARIANT CrashKeepsLatest
CHECK_DEADLOCK FALSE
