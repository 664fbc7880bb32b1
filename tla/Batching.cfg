SPECIFICATION BatchSpec
CONSTANTS
  Vocabulary = {0, 1, 2, 3}
  Score <- MCScore
  Eos = 3
  Samplings <- MCSamplings
  Prompts <- MCPrompts
  Budgets <- MCBudgets
  Window = 5
  MaxRequests = 2
INVARIANT EachAsAlone
