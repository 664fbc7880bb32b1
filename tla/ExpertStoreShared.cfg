SPECIFICATION Spec
CONSTANTS
  Clients = {c1, c2}
  NumLayers = 2
  Experts = {e1, e2}
  BudgetBytes = 7
  ExpertBytes = 2
  DecayEvery = 5
  HeatUnit = 4
  Margin = 2
  Wrap = 5
  MaxRequests = 6
  MaxLoads = 6
INVARIANTS WithinBudget OneSlotPerExpert LeasedStays
PROPERTY NoThrashing
CHECK_DEADLOCK FALSE
