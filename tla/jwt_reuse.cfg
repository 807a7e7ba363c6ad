SPECIFICATION Spec
CONSTANTS
  r1 = r1  r2 = r2  r3 = r3
  t1 = t1  t2 = t2  t3 = t3  t4 = t4
  f1 = f1  f2 = f2
  u1 = u1
  None = None
  Request = {r1, r2}
  Token = {t1, t2, t3}
  Family = {f1}
  User = {u1}
\* Token and Family are finite: all of them can be spent.
CHECK_DEADLOCK FALSE
INVARIANT ReuseRevokesFamily
