SPECIFICATION Spec
CONSTANTS
  k1 = k1  k2 = k2  k3 = k3
  th1 = th1  th2 = th2
  None = None
  Task = {k1, k2}
  Thread = {th1, th2}
  Conn = {1, 2, 3, 4, 5}
  MaxCalls = 3
  MaxCloses = 1
  MaxEvents = 1
SYMMETRY Symmetry
\* The tasks stop after MaxCalls operations.
CHECK_DEADLOCK FALSE
INVARIANTS NoConnectionLost TransactionsAreExclusive
