SPECIFICATION Spec
CONSTANTS
  Publishers = {p1, p2}
  MaxTag = 2
  MaxChannels = 1
  None = None
INVARIANT ReturnedIsNotReported
CHECK_DEADLOCK FALSE
