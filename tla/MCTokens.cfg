CONSTANTS
    p1 = p1  p2 = p2  s1 = s1  s2 = s2  a1 = a1  a2 = a2
    t1 = t1  t2 = t2  t3 = t3  m1 = m1  none = none
    Procs = {p1, p2}
    Sessions = {s1}
    NoSession = none
    Accounts = {a1, a2}
    NoAccount = none
    Tokens = {t1, t2, t3}
    NoToken = none
    Machines = {m1}
    MaxActive = 1
    Ttl = 0
    Lifetimes <- Short
    MaxTime = 1
SPECIFICATION Spec
SYMMETRY Symmetry
INVARIANTS OneTokenPerSession
PROPERTIES BoundToApprover CapKept
CHECK_DEADLOCK FALSE
