SPECIFICATION Spec
CONSTANTS
  Request = {r1, r2, r3, r4}
  Caller = {r1, r2, r3, r4}
  Client = {c1, c2, c3, c4, c5}
  NoClient = NoClient
  MaxOutages = 1
  Asked <- MCAsked
  r1 = r1
  r2 = r2
  r3 = r3
  r4 = r4
  PoolSize = 2
  AirflowEnabled = TRUE
INVARIANTS TypeOK WaitsEndAtUpstream
PROPERTIES HealsAfterOneRequest RequestsEnd
\* every request is made once: the system stops when all have ended
CHECK_DEADLOCK FALSE
