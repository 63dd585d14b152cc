SPECIFICATION FairSpec
CONSTANTS
  Token = {1, 2}
  Eos = {2}
  MaxBudget = 3
  Gathers = 1
  Rows = 3
  Capacity = 2
  Backlog = 1
  MaxAttempts = 2
INVARIANTS
  OkMeansSameTokens
  VerdictsNeverContradict
  OnlyUnalikeHostsComeApart
PROPERTIES
  BothReturn
