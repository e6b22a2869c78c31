SPECIFICATION LiveSpec
CONSTANTS
  w1 = w1
  w2 = w2
  r1 = r1
  r2 = r2
  t1 = t1
  m1 = m1
  m2 = m2
  None = None
  Tasks = {t1}
  Messages = {m1, m2}
  TaskOf <- MCTaskOf
  Workers = {w1, w2}
  Recoverers = {r1}
  MaxCopies = 1
  MaxFaults = 2
INVARIANTS TypeOK WorkersArePaid WaitingHasMessage ProcessingHasWorker GuardInv
PROPERTIES FinalIsFinal TaskSettles
