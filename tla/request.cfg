SPECIFICATION FairSpec
CONSTANTS
  main = main  spawned = spawned
  x1 = x1  x2 = x2  x3 = x3
  NoTx = NoTx
  Task = {main, spawned}
  Main = main
  Tx = {x1, x2, x3}
  SingleWriter = TRUE
  HasSession = TRUE
  MaxWrites = 2
  MaxFaults = 2
\* A request ends.
CHECK_DEADLOCK FALSE
INVARIANTS SuccessKeepsWrites HandlerLeavesNothingOpen FailureLeavesNothing
PROPERTY TransactionsEnd
