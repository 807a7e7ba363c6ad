SPECIFICATION FairSpec
CONSTANTS
  w1 = w1  w2 = w2  w3 = w3
  a = a  b = b
  None = None
  Proc = {w1, w2, w3}
  Id = {1, 2}
  Content = {a, b}
  NumStmts = 1
  Ddl = {1}
  Dialect = "sqlite"
  Directories <- Deployments
  MaxCalls = 1
  MaxFaults = 1
\* apply_all is called MaxCalls times at most: a behaviour ends.
CHECK_DEADLOCK FALSE
INVARIANTS ExactlyOnce ReturnMeansRecorded OneApplier WorkersComeUpClean
PROPERTY EveryCallEnds
