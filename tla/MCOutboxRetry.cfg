SPECIFICATION Spec
CONSTANTS
  s1 = s1
  s2 = s2
  h1 = h1
  h2 = h2
  t1 = t1
  t2 = t2
  None = None
  Tasks = {t1}
  Seeded = {}
  Events = {0}
  Servers = {s1, s2}
  Handlers = {h1}
  HostOf <- MCHostOf
  BatchSize = 1
  MaxRetries = 2
  MaxFaults = 1
PROPERTY FailureIsCounted
