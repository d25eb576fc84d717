CONSTANTS
  Events = {e1}
  Destinations = {d1}
  Tags = {t0}
  Original = t0
  Attempts <- MCAttempts
  MaxStalls = 1
  Workers = {w1, w2}
  NoWorker = NoWorker
  Requests = {r1}
  NoEvent = NoEvent
  NoJob = NoJob
SPECIFICATION FairSpec
CHECK_DEADLOCK FALSE
INVARIANTS
  TypeOK
  DeliveredIsTrue
  StartsWithinBudget
  DuplicatesExplained
  AttemptCountBounded
PROPERTIES
  DeliveryTimeKept
  ImplementsContract
  FulfilsContract
