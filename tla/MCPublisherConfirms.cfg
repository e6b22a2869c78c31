SPECIFICATION Spec
CONSTANTS
  Publishers = {p1, p2}
  MaxTag = 2
  MaxChannels = 2
  None = None
SYMMETRY Interchangeable
INVARIANTS TypeOK RegisteredIsOpen ReportedWasAcked WaiterIsRegistered ConfirmInv
CHECK_DEADLOCK FALSE
