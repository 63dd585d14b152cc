SPECIFICATION FairSpec
CONSTANTS
  Token = {0, 1, 2}
  Eos = {2}
  RowZero = 0
  Prompt <- MCPrompt
  Rows = 4
  Models <- MCModels
  Predict <- MCPredict
  IndexTopk = 7
  MaxCommit = 16
  MaxDraft = 8
  K = 2
  Budgets = {0, 1, 2, 3, 4, 5, 6}
INVARIANTS
  MatchesTargetOnly
  CachesFollowOutput
  ArgmaxReadsLiveState
  RoundAccounting
  NeverRefused
PROPERTIES
  KeepsContract
  VerifyThrowRollsBack
  Terminates
