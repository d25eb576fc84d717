CONSTANTS
  Events = {e1, e2}
  Destinations = {d1, d2}
  Tags = {t0}
  Original = t0
  Attempts <- MCAttempts
  MaxStalls = 1
  Workers = {w1}
  NoWorker = NoWorker
  Requests = {r1, r2, r3}
  NoEvent = NoEvent
SPECIFICATION IngestFairSpec
CHECK_DEADLOCK FALSE
INVARIANTS
  IngestAloneTypeOK
  AtMostOneInserter
  JobsFollowTheEvent
  CountersBalance
PROPERTIES
  CallsEnd
