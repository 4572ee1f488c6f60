SPECIFICATION CasesSpec
CONSTANTS
  Request = {r1, r2, r3}
  CaseId = {r1, r2, r3}
  AlertId = {}
  DecoderId = {decoder}
  ConfigId = {system}
  Edit = {e1, e2}
  Case = r1
  Config = system
  Decoder = decoder
  status = status
  owner = owner
  New = new
  Column = {status, owner}
  Required = {status}
  Optional = {owner}
  Value = {old, new}
  Fresh = old
  Null = Null
  Tried <- MCTried
INVARIANTS CasesTypeOK NoGap SettledRowIsFound
PROPERTIES IssuedInCommitOrder OnlySentColumnsChange AnswerIsStored CasesEnd
\* every request is made once: the system stops when all have ended
CHECK_DEADLOCK FALSE
