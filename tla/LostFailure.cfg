SPECIFICATION Spec
CONSTANTS
  Request = {q1, q2}
  Password = {p1, p2}
  First = p1
  NoSalt = none
  MaxFailed = 2
  Lockout = 1
  MaxNow = 2
SYMMETRY Symmetry
INVARIANTS LockedAtTheLimit
\* every request is made once: the system stops when all have ended
CHECK_DEADLOCK FALSE
