\* Two tasks one after the other, with up to two pings under way.
SPECIFICATION FairSpec
CONSTANTS
  MaxTasks = 2
  MaxPings = 2
  Null = Null
\* The page stops when the buttons have been clicked often enough.
CHECK_DEADLOCK FALSE
INVARIANTS
  TypeOK
  ButtonsFollowTheTask
  ShownIsOfLastTask
PROPERTIES
  TimersEnd
