SPECIFICATION CredentialsSpec
CONSTANTS
  Request = {r1, r2}
  Token = {t1, t2, t3}
  Family = {f1, f2}
  User = {u1}
  None = None
  Session = {s1}
  Link = {f1, f2}
  MaxPasswords = 2
  RequireVerified = TRUE
  Gone = Gone
SYMMETRY Symmetry
\* Tokens, families, sessions and passwords are finite: all of them can be spent.
CHECK_DEADLOCK FALSE
INVARIANTS NoFork SettledMeansDead ChangeIsFinal NewestLinkOnly
PROPERTIES ImplementsChains ImplementsLinks
