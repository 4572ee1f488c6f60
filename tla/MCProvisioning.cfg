SPECIFICATION Spec
CONSTANTS
  Container = {api1, api2, api3, worker}
  Migrator = {api1, api2, api3}
  Seeder = {api1, api2}
  RoleRow = {analyst, viewer}
  Admin = admin
  Config = system
  OtherRow = {decoder}
  MaxKills = 2
  MaxEdits = 3
INVARIANTS TypeOK ServesProvisioned
PROPERTIES SeedCompletesOnly EveryoneServes
\* once every container serves, nothing need happen
CHECK_DEADLOCK FALSE
