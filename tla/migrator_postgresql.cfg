SPECIFICATION Spec
CONSTANTS
  w1 = w1  w2 = w2  w3 = w3
  a = a  b = b
  None = None
  Proc = {w1, w2}
  Id = {1, 2}
  Content = {a, b}
  NumStmts = 2
  Ddl = {1}
  Dialect = "postgresql"
  Directories <- Deployments
  MaxCalls = 2
  MaxFaults = 2
\* apply_all is called MaxCalls times at most: a behaviour ends.
CHECK_DEADLOCK FALSE
INVARIANT ScriptsDoNotOverlap
PROPERTY ImplementsHistory
