SPECIFICATION Spec
CONSTANTS
  s1 = s1
  s2 = s2
  h1 = h1
  h2 = h2
  t1 = t1
  t2 = t2
  None = None
  Tasks = {t1, t2}
  Seeded = {t2}
  Events = {0, 1, 2}
  Servers = {s1, s2}
  Handlers = {h1, h2}
  HostOf <- MCHostOf
  BatchSize = 1
  MaxRetries = 2
  MaxFaults = 0
INVARIANTS QueuedHasEvent OneEventPerTask DuplicatesArePaid
