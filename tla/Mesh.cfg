SPECIFICATION Spec
CONSTANTS
  Refused = Refused
  Asks <- MCAsks
  Routed <- MCRouted
  MaxFailures = 1
INVARIANTS ReplicasAgree MetaListsOneStep LastWordWins AcceptedIsUsable
PROPERTY EveryRankEnds
CHECK_DEADLOCK FALSE
