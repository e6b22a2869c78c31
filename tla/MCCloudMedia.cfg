SPECIFICATION LiveSpec
CONSTANTS
  s1 = s1
  h1 = h1
  w1 = w1
  t1 = t1
  None = None
  Tasks = {t1}
  Events = {0}
  TaskOf <- MCTaskOf
  Servers = {s1}
  Handlers = {h1}
  HostOf <- MCHostOf
  Workers = {w1}
  BatchSize = 1
  MaxRetries = 2
  ApiFaults = 1
  PoolFaults = 1
INVARIANTS TypeOK TaskIsInHand CopiesArePaid
PROPERTIES OutboxIsServed PoolIsServed TaskIsFinished
