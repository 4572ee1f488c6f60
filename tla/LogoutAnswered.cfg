SPECIFICATION Spec
CONSTANTS
  Session = {s1}
  Opened = s1
  Ageing = {s1}
  Request = {q1, q2}
  MaxJti = 4
  Orders = {"respond_first"}
INVARIANTS LogoutIsImmediate
\* every request is made once: the system stops when all have ended
CHECK_DEADLOCK FALSE
