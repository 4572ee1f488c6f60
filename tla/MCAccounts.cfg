SPECIFICATION Spec
CONSTANTS
  Request = {q1, q2, q3}
  Admin = {ann, bob}
  ann = ann
  bob = bob
  Email = {annLower, annUpper, bobLower}
  annLower = annLower
  annUpper = annUpper
  bobLower = bobLower
  Lower <- MCLower
  Given <- MCGiven
  Role = {"admin", "viewer", "auditors"}
  Nobody = Nobody
  Asked <- MCAsked
INVARIANTS TypeOK NoActionAfterWithdrawal TwinsNeedRaceOrRename OnlyRenamesDeadlock
PROPERTIES AuditIsExact ActionsEnd
\* every request is made once: the system stops when all have ended
CHECK_DEADLOCK FALSE
