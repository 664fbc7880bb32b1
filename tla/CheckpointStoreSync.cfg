SPECIFICATION Spec
CONSTANTS
  Labels = {1, 2, 3}
  Versions = {va, vb}
  Losses = {1, 2}
  NaN = 9
  KeepLastN = 1
  Async = FALSE
  Device = "cpu"
  MaxFaults = 1
INVARIANTS LoadedStateIsOneCapture BestDirectoryKept
PROPERTIES PointerFollowsFiles
