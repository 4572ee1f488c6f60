SPECIFICATION Spec
CONSTANTS
  Request = {q1, q2, q3, q4}
  Password = {p1, p2}
  First = p1
  NoSalt = none
  MaxFailed = 2
  Lockout = 1
  MaxNow = 2
SYMMETRY Symmetry
INVARIANTS TypeOK SequentialCountExact LockKeepsOut PasswordIsLastSet
PROPERTIES NeverDowngraded
\* every request is made once: the system stops when all have ended
CHECK_DEADLOCK FALSE
