SPECIFICATION ForwardSpec
CONSTANTS
  Model <- Glm53FlashSpec
  PickedExperts = {0, 287}
  ExpertIds = {0, 287}
  IndexTopk = 2
  MaxHeads = 3
INVARIANTS
  OperandsAreTheirs
  GathersAgree
  AccessesFit
  ForwardFindsItsTensors
  EveryWeightIsRead
