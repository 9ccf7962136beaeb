\* Two scenes of one persona, up to three lines each, a fault and a crash.
SPECIFICATION FairSpec
CONSTANTS
  Scenes = {1, 2}
  MinLines = 2
  MaxRetries = 2
  MaxLines = 3
  MaxChain = 2
  MaxFaults = 1
  MaxCrashes = 1
INVARIANTS SnapshotIsPrefix ConsumedStaysOut FlagsMatchQueue
PROPERTIES ReadLinesAreHandled QueuedTasksRun
