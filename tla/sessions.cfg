SPECIFICATION Spec
CONSTANTS
    Request = {r1, r2}
    Browser = {b1}
    User = {u1, u2}
    Session = {s1}
    ApiToken = {t1}
    Lifetime = 2
    AbsoluteMax = 3
    Slack = 0
    AccessTtl = 1
    MaxTime = 4
    MaxJwts = 1
    None = None
    Unset = Unset
SYMMETRY Symmetry
INVARIANTS ActsOnlyAsVouched CapIsHard
CHECK_DEADLOCK FALSE
