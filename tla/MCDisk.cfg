SPECIFICATION Spec
CONSTANTS
  Setups <- MCSetups
  NDEV = 7
  MaxExt = 3
  N_RETRY = 2
  maxsecsize = 512
INVARIANTS LettersInOrder LettersReach DefaultsFit   
CHECK_DEADLOCK FALSE
