SPECIFICATION Spec
CONSTANTS
  Token = {0, 1, 2}
  Eos = {2}
  RowZero = 0
  Prompt <- MCPrompt
  Rows = 4
  Models <- MCModels
  Predict <- MCPredict
  IndexTopk = 5
  Budgets = {1, 2, 3, 4, 5}
INVARIANTS
  PrimedCachesInStep
PROPERTIES
  KeepsContract
