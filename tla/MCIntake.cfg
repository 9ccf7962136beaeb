\* The queue with two sessions, a fault, a crash and a removal; and one chat, direct or a
\* group, two messages handled at once, a command line, two codes.
SPECIFICATION IntakeSpec
CONSTANTS
  Jobs = {1, 2, 3}
  Sessions = {1, 2}
  SessionOf <- MCSmallSessionOf
  CreatedAt <- MCSmallCreatedAt
  Scheduled = {2}
  MaxConcurrent = 1
  MaxDepth = 3
  MaxFaults = 1
  MaxCrashes = 1
  MaxGen = 2
  Chats = {1}
  Pairs = {1, 2}
  Handlers = {h1, h2}
  CommandLines = {1}
  Cooldown = 1
  Ttl = 2
  MaxSessions = 1
  MaxJobs = 1
  MaxNow = 2
SYMMETRY Alike
INVARIANTS SlotLimit NoJobLost OneHolder OneLiveCode
PROPERTIES FateIsFinal PromptsAreSpaced
