SPECIFICATION FairSpec
CONSTANTS
  Boots <- Boots0
  MaxChains = 5
  MaxInstall = 10
  EnvSize = 20
  MaxTimes = 9
INVARIANT RunsItsLines
PROPERTY ConfigSettles
