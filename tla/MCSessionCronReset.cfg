\* README.md:25, a reminder lapses when its session is reset.
SPECIFICATION Spec
CONSTANTS
  Conversations = {1}
  Crons = {1}
  Daily = {}
  QueueDepth = 1
  MaxNow = 1
  MaxResets = 1
  MaxMishaps = 0
PROPERTIES ResetEndsReminders
CHECK_DEADLOCK FALSE
