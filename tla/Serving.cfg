SPECIFICATION Spec
CONSTANTS
  Requests = {r1, r2}
  Endpoints <- MCEndpoints
  MaxPieces = 2
  Nobody = Nobody
INVARIANTS LockFollowsGenerator AnswersOnce NeverBlank
PROPERTY EveryRequestEnds
CHECK_DEADLOCK FALSE
