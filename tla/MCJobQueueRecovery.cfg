SPECIFICATION FairSpec
CONSTANTS
  Jobs = {1, 2, 3}
  Sessions = {1, 2}
  SessionOf <- MCSmallSessionOf
  CreatedAt <- MCSmallCreatedAt
  Scheduled = {2}
  MaxConcurrent = 2
  MaxDepth = 4
  MaxFaults = 0
  MaxCrashes = 1
  MaxGen = 1
PROPERTIES RecoveredJobsRun
