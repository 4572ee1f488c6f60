SPECIFICATION Spec
CONSTANTS
  Session = {s1, s2}
  Opened = s1
  Ageing = {s1}
  Request = {q1, q2, q3}
  MaxJti = 4
  Orders = {"commit_first", "respond_first"}
INVARIANTS TypeOK NoEntryAfterRevocation DisabledStaysOut StaleTokenRefused RefusalIsDurable ReuseMeansSuperseded
PROPERTIES KeepsRegister RequestsFinish
\* every request is made once: the system stops when all have ended
CHECK_DEADLOCK FALSE
