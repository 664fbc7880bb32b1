SPECIFICATION Spec
CONSTANTS
  Wide = {"W"}
  Narrow <- MCNarrow
  Space = "_"
  Null = "0"
  Private = {"p"}
  Mask = "M"
  Foreign = {"f", "h"}
  HeldOut <- MCHeldOut
  MinLength = 1
  MaxLength = 5
  RepeatLength = 4
  GramSize = 1
  ShingleSize = 2
  NumBands = 2
  BandBits = 2
  Digest <- MCDigest
  MaxDistance = 1
  Gap = "n"
  Instruction = "i"
  Input = "I"
  Response = "r"
  None = None
  MaxArchiveDepth = 2
  Broken = Broken
  Confs <- AutoConfs
  Corpora <- MCCorpora
  SequenceLength = 2
  ShardSize = 4
  Vocab16 = TRUE
  Eos = "$"
  ZeroToken = "z"
  Nodes <- MCNodes
  Spoken <- MCSpoken
  MaxPreparations = 2
INVARIANTS IntactIsText OwnersMatchTokens KeptFarApart TrainedAsPrompted
CHECK_DEADLOCK FALSE
