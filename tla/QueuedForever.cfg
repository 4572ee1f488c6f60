SPECIFICATION PipeSpec
CONSTANTS
  Request = {r1}
  Worker = {w1}
  Reader = {}
  Content = {rows, empty}
  Torn = torn
  None = none
  Fault = {}
  MaxRestored = 1
PROPERTIES QueuedIsGenerated
CHECK_DEADLOCK FALSE
