SPECIFICATION ServicesSpec
CONSTANTS
  Worker = {w1, w2}
  User = {u1}
  None = None  Gone = Gone
  Settings <- MCSettings
  MaxStarts = 2
  MaxFaults = 1
  Request = {r1, r2}
  Person = {u1, u2}
  Address <- MCAddress
  Identifier <- MCIdentifier
  Limit = 1
  Calls = {"sign_in"}
  LastWindow = 1
  MaxCount = 2
  MaxBegun = 2
  Token = {t1, t2}
  Scope = {"read"}
  Cap = 1
  RoleName = {n1}
  Permission = {"p"}
  Serial = FALSE
  Browser = {b1, b2}
  Nonce = {n1, n2}
  Identity = {i1}
  Email = {e1, e2}
SYMMETRY Symmetry
\* Tokens, nonces and starts are finite: all of them can be spent.
CHECK_DEADLOCK FALSE
INVARIANTS NoOvershoot DeletedRoleIsEmpty OwnFlowOnly ReachesOnlyVouched SignInLeavesLink ServedMeansSchema AccountsSurvive
PROPERTIES OwnerIsHeard RepeatedStartsAreNoOps ImplementsAllowance
