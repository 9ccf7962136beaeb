\* One channel, NapCat or Telegram, two configurations and two plugins, one outage.
\* Plugins run out: the instance may stop.
SPECIFICATION FairSpec
CONSTANTS
  Plugins = {1, 2}
  Sends = {1}
  Messages = {1, 2}
  MaxRev = 2
  MaxOutages = 1
  Scenes <- MCScenes
INVARIANTS NeverStuck
PROPERTIES Reconnects FollowsConfig DelayedSendsCancelled
CHECK_DEADLOCK FALSE
