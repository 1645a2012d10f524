SPECIFICATION FairSpec
CONSTANTS
  Boots <- MenuOnly
  MaxChains = 5
  MaxInstall = 10
  EnvSize = 20
  MaxTimes = 9
PROPERTY MenuTimesOut
