SPECIFICATION Spec
CONSTANTS
  Worker = {w1, w2}
  User = {u1}
  None = None
  Settings <- MCSettings
  MaxStarts = 2
  MaxFaults = 1
SYMMETRY Symmetry
\* Starts are finite: all of them can be spent.
CHECK_DEADLOCK FALSE
INVARIANT NoLoginIsLost
