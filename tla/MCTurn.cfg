\* Two turns of one agent in two sessions over one container and one plugin.  A turn
\* runs once: the instance ends when both have ended.
SPECIFICATION FairSpec
CONSTANTS
  Turns = {1, 2}
  Calls <- MCCalls
INVARIANTS StoppedSaysNothing RememberedIsSaid NothingLeftBehind
PROPERTIES WorkersEnd
