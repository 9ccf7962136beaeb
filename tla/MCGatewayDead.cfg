\* The same chat: what a code that is no longer pending admits (pair-store.ts:103-105).
SPECIFICATION Spec
CONSTANTS
  Chats = {1}
  Pairs = {1, 2}
  Handlers = {h1, h2}
  CommandLines = {1}
  Cooldown = 1
  Ttl = 2
  MaxSessions = 1
  MaxJobs = 1
  MaxNow = 2
PROPERTIES DeadCodesAdmitNobody
CHECK_DEADLOCK FALSE
