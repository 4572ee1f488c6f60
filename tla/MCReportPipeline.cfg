SPECIFICATION PipeSpec
CONSTANTS
  Request = {r1, r2}
  Worker = {w1, w2}
  Reader = {d1}
  Content = {rows, empty}
  Torn = torn
  None = none
  Fault = {"request_fails", "broker_down", "task_error", "child_killed", "worker_killed", "visibility_timeout"}
  MaxRestored = 1
INVARIANTS PipeTypeOK CertifiedFile FilesAreOwned DownloadCertified
PROPERTIES QueuedSettles PublishesAtomically
\* every request ends and the broker empties: the system then stops
CHECK_DEADLOCK FALSE
