CONSTANTS
  Events = {e1}
  Destinations = {d1}
  Tags = {0, 1, 2}
  Original = 0
  Attempts <- MCAttempts
  MaxStalls = 0
  Workers = {w1}
  NoWorker = NoWorker
  Requests = {r1}
  NoEvent = NoEvent
  NoReplayEvent = NoReplayEvent
  NoJob = NoJob
  Operators = {o1, o2}
  Users = {u1}
  UserOf <- MCUserOf
SYMMETRY Symmetry
VIEW Uncounted
SPECIFICATION SystemSpec
CHECK_DEADLOCK FALSE
INVARIANTS
  SystemTypeOK
  EveryDuplicateExplained
  ReplaysFollowTheOriginal
  ReplayAnswerIsTrue
