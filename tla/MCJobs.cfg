\* The queue with three sessions, one with two jobs, on two slots; and the one session of an
\* agent, a once and a daily reminder over three slots, with a store fault or a crash.
SPECIFICATION JobsSpec
CONSTANTS
  Jobs = {1, 2, 3, 4}
  Sessions = {1, 2, 3}
  SessionOf <- MCSessionOf
  CreatedAt <- MCCreatedAt
  Scheduled = {2}
  MaxConcurrent = 2
  MaxDepth = 3
  MaxFaults = 0
  MaxCrashes = 2
  MaxGen = 1
  Conversations = {1}
  Crons = {1, 2}
  Daily = {2}
  QueueDepth = 1
  MaxNow = 2
  MaxResets = 1
  MaxMishaps = 1
INVARIANTS LogMatchesMemory WorkConserving NoLeakedSlot Abortable OncePerSlot
PROPERTIES RefinesDurableFifo ReportFollows RunningDrainsAll NoSlotSkipped OnlyLiveCronsFire StaleCronsRetired DueCronsFire
