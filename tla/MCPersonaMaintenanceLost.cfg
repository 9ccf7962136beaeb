SPECIFICATION FairSpec
CONSTANTS
  Scenes = {1, 2}
  MinLines = 2
  MaxRetries = 3
  MaxLines = 3
  MaxChain = 2
  MaxFaults = 0
  MaxCrashes = 0
PROPERTIES NoObservationLost
