------------------------- MODULE ProvisioningProofs -------------------------
(***************************************************************************)
(* What holds of the start of any number of containers, for every set of   *)
(* rows the seed has and any number of crashes and edits.                  *)
(***************************************************************************)
EXTENDS Provisioning, TLAPS

\* The seed has never been committed: at most a user's GET has added the
\* configuration.  It has: at most the administrator was renamed.
Unseeded == \A k \in Row \ {Config} : row[k] = "absent"
Seeded == \A k \in Row \ {Admin} : row[k] # "absent"
RowsInv == Unseeded \/ Seeded

\* Only the scripts leave the schema behind the stamp.
SchemaInv == IF byHand THEN schema = 1 /\ version = Head ELSE schema = version

\* What a container has found on its way: it migrates only what was not
\* stamped, and while nothing is seeded it still has everything to add.
Stage(c) ==
    /\ proc[c].step \in {"migrate", "ddl"} => ~byHand
    /\ proc[c].step \in {"roles", "flush", "rest", "commit"} => c \in Seeder
    /\ proc[c].step \in {"roles", "flush", "rest", "commit", "up"} /\ c \in Migrator
         => version = Head
    /\ proc[c].step \in {"flush", "rest"} /\ Unseeded => RoleRow \subseteq proc[c].missing
    /\ proc[c].step = "commit" => schema = Head
    /\ proc[c].step = "commit" /\ Unseeded =>
         /\ Row \ {Config} \subseteq proc[c].missing
         /\ Config \in proc[c].missing \/ row[Config] # "absent"
    /\ proc[c].step = "up" /\ c \in Seeder => schema = Head /\ Seeded

ProvisioningInv == TypeOK /\ RowsInv /\ SchemaInv /\ \A c \in Container : Stage(c)

-----------------------------------------------------------------------------
ProcState == [step : Step, from : 0 .. Head, missing : SUBSET Row]

LEMMA DownIsState == Down \in ProcState /\ Down.step = "down"
BY DEF Down, ProcState, Step, Head

\* Roles are no other rows: a seed that was committed shows in them.
LEMMA RowsDiffer ==
  /\ RoleRow # {} /\ Admin # Config
  /\ RoleRow \subseteq Row \ {Admin, Config}
  /\ Admin \in Row /\ Config \in Row /\ Admin \notin RoleRow /\ Config \notin RoleRow
BY ProvisioningAssumption DEF Row

LEMMA SeededShows == RowsInv => (Seeded <=> ~Unseeded)
BY RowsDiffer DEF RowsInv, Seeded, Unseeded

\* Init establishes the invariant.
LEMMA ProvisioningInit == Init => ProvisioningInv
<1> SUFFICES ASSUME Init PROVE ProvisioningInv
  OBVIOUS
<1> USE DEF Init
<1>1. TypeOK
  <2>1. proc \in [Container -> [step : Step, from : 0 .. Head, missing : SUBSET Row]]
    BY DownIsState DEF ProcState
  <2>2. 0 \in 0 .. MaxKills /\ 0 \in 0 .. MaxEdits
    BY ProvisioningAssumption
  <2> QED
    BY <2>1, <2>2 DEF TypeOK, Head
<1>2. RowsInv
  BY RowsDiffer DEF RowsInv, Seeded, Unseeded
<1>3. SchemaInv
  BY DEF SchemaInv
<1>4. \A c \in Container : Stage(c)
  BY DownIsState DEF Stage
<1> QED
  BY <1>1, <1>2, <1>3, <1>4 DEF ProvisioningInv

\* What no step takes back: the scripts, the stamp, the schema, the seed.
Advances ==
    /\ byHand' = byHand
    /\ version = Head => version' = Head
    /\ schema = Head => schema' = Head
    /\ Seeded => Seeded'
    /\ Unseeded' => Unseeded
    /\ row[Config] # "absent" => row'[Config] # "absent"
LEMMA StageKept ==
  ASSUME Advances, NEW c \in Container, Stage(c), proc'[c] = proc[c]
  PROVE  Stage(c)'
BY DEF Advances, Stage

LEMMA StageOfDown ==
  ASSUME NEW c \in Container, proc'[c] = Down
  PROVE  Stage(c)'
BY DownIsState DEF Stage

\* A step of one container: the others stay where they are.
LEMMA ProcStep ==
  ASSUME proc \in [Container -> ProcState], NEW c \in Container, NEW p \in ProcState,
         proc' = [proc EXCEPT ![c] = p]
  PROVE  /\ proc' \in [Container -> ProcState] /\ proc'[c] = p
         /\ \A d \in Container \ {c} : proc'[d] = proc[d]
OBVIOUS

LEMMA StepState ==
  ASSUME NEW p \in ProcState, NEW t \in Step
  PROVE  /\ [p EXCEPT !.step = t] \in ProcState
         /\ [p EXCEPT !.step = t].step = t
         /\ [p EXCEPT !.step = t].missing = p.missing
BY DEF ProcState

\* A step of one container that leaves schema and rows alone.
LEMMA ContainerStep ==
  ASSUME ProvisioningInv, NEW c \in Container, NEW p \in ProcState,
         proc' = [proc EXCEPT ![c] = p],
         UNCHANGED <<schema, version, row, byHand, edits>>, kills' \in 0 .. MaxKills,
         Stage(c)'
  PROVE  ProvisioningInv'
<1> USE DEF ProvisioningInv
<1>1. proc \in [Container -> ProcState]
  BY DEF TypeOK, ProcState
<1>2. /\ proc' \in [Container -> ProcState] /\ proc'[c] = p
      /\ \A d \in Container \ {c} : proc'[d] = proc[d]
  BY <1>1, ProcStep
<1>3. TypeOK'
  BY <1>2 DEF TypeOK, ProcState
<1>4. Advances
  BY DEF Advances, Seeded, Unseeded
<1>5. \A d \in Container : Stage(d)'
  BY <1>2, <1>4, StageKept
<1>6. RowsInv' /\ SchemaInv'
  BY DEF RowsInv, SchemaInv, Seeded, Unseeded
<1> QED
  BY <1>3, <1>5, <1>6

\* A container that fails, or dies, is down and has left nothing.
LEMMA FailStep ==
  ASSUME ProvisioningInv, NEW c \in Container, Fails(c),
         UNCHANGED <<schema, version, row, byHand, edits>>, kills' \in 0 .. MaxKills
  PROVE  ProvisioningInv'
<1>1. proc' = [proc EXCEPT ![c] = Down] /\ Down \in ProcState
  BY DownIsState DEF Fails
<1>2. proc'[c] = Down
  BY <1>1 DEF ProvisioningInv, TypeOK
<1>3. Stage(c)'
  BY <1>2, StageOfDown
<1> QED
  BY <1>1, <1>3, ContainerStep

LEMMA MoveStep ==
  ASSUME ProvisioningInv, NEW c \in Container, NEW t \in Step, Moves(c, t),
         UNCHANGED <<schema, version, row, byHand, edits, kills>>,
         proc'[c].step = t /\ proc'[c].missing = proc[c].missing => Stage(c)'
  PROVE  ProvisioningInv'
<1> DEFINE p == [proc[c] EXCEPT !.step = t]
<1>1. proc \in [Container -> ProcState] /\ proc[c] \in ProcState /\ kills \in 0 .. MaxKills
  BY DEF ProvisioningInv, TypeOK, ProcState
<1>2. p \in ProcState /\ p.step = t /\ p.missing = proc[c].missing
  BY <1>1, StepState
<1>3. proc' = [proc EXCEPT ![c] = p]
  BY DEF Moves
<1>4. proc'[c] = p
  BY <1>1, <1>3
<1> QED
  BY <1>1, <1>2, <1>3, <1>4, ContainerStep

\* The upgrade commits: whoever waits at its side will find the new schema.
LEMMA MigrationStep ==
  ASSUME ProvisioningInv, NEW c \in Container, CommitMigration(c)
  PROVE  ProvisioningInv'
<1> USE DEF ProvisioningInv
<1> DEFINE t == AfterMigration(c)
           p == [proc[c] EXCEPT !.step = t]
<1>1. proc \in [Container -> ProcState] /\ proc[c] \in ProcState
  BY DEF TypeOK, ProcState
<1>2. p \in ProcState /\ p.step = t
  <2>1. t \in Step
    BY DEF AfterMigration, Step
  <2> QED
    BY <1>1, <2>1, StepState
<1>3. /\ proc' = [proc EXCEPT ![c] = p] /\ schema' = Head /\ version' = Head
      /\ row' = row /\ byHand' = byHand /\ kills' = kills /\ edits' = edits
      /\ proc[c].step = "ddl"
  BY DEF CommitMigration, Moves
<1>4. /\ proc' \in [Container -> ProcState] /\ proc'[c] = p
      /\ \A d \in Container \ {c} : proc'[d] = proc[d]
  BY <1>1, <1>2, <1>3, ProcStep
<1>5. ~byHand
  BY <1>3 DEF Stage
<1>6. TypeOK'
  BY <1>3, <1>4 DEF TypeOK, ProcState, Head
<1>7. Advances
  BY <1>3 DEF Advances, Seeded, Unseeded
<1>8. \A d \in Container \ {c} : Stage(d)'
  BY <1>4, <1>7, StageKept
<1>9. Stage(c)'
  BY <1>2, <1>3, <1>4 DEF Stage, AfterMigration
<1>10. RowsInv' /\ SchemaInv'
  BY <1>3, <1>5 DEF RowsInv, SchemaInv, Seeded, Unseeded
<1> QED
  BY <1>6, <1>8, <1>9, <1>10

\* The rows a committed seed leaves: everything, but an administrator who was
\* renamed since this seed looked.
LEMMA SeedCommitRows ==
  ASSUME ProvisioningInv, NEW c \in Container, proc[c].step = "commit",
         proc[c].missing \subseteq Absent(Row),
         row' = [k \in Row |-> IF k \in proc[c].missing THEN "seeded" ELSE row[k]]
  PROVE  /\ Seeded'
         /\ \A k \in Row : row'[k] = "seeded" /\ row[k] # "seeded" =>
               row[k] = "absent" /\ \A j \in Row : row'[j] # "absent"
<1> USE DEF ProvisioningInv
<1>1. Stage(c)
  OBVIOUS
<1>2. \A k \in proc[c].missing : k \in Row /\ row[k] = "absent"
  BY DEF Absent
<1>3. \A k \in Row : row'[k] = IF k \in proc[c].missing THEN "seeded" ELSE row[k]
  OBVIOUS
<1>4. CASE Unseeded
  <2>1. \A k \in Row : k \in proc[c].missing \/ row[k] # "absent"
    BY <1>1, <1>4 DEF Stage
  <2>2. \A k \in Row : row'[k] # "absent"
    BY <1>3, <2>1
  <2> QED
    BY <1>2, <1>3, <2>2 DEF Seeded
<1>5. CASE Seeded
  <2>1. \A k \in proc[c].missing : k = Admin
    BY <1>2, <1>5 DEF Seeded
  <2>2. \A k \in Row \ {Admin} : row'[k] # "absent"
    BY <1>3, <1>5 DEF Seeded
  <2>3. ASSUME NEW k \in Row, row'[k] = "seeded", row[k] # "seeded"
        PROVE  row[k] = "absent" /\ \A j \in Row : row'[j] # "absent"
    <3>1. k \in proc[c].missing /\ k = Admin
      BY <1>3, <2>1, <2>3
    <3> QED
      BY <1>2, <2>2, <2>3, <3>1
  <2> QED
    BY <2>2, <2>3 DEF Seeded
<1> QED
  BY <1>4, <1>5 DEF RowsInv

LEMMA SeedStep ==
  ASSUME ProvisioningInv, NEW c \in Container, CommitSeed(c)
  PROVE  ProvisioningInv'
<1> USE DEF ProvisioningInv
<1>1. /\ proc[c].step = "commit" /\ schema' = schema /\ version' = version
      /\ byHand' = byHand /\ kills' = kills /\ edits' = edits
  BY DEF CommitSeed
<1>2. kills \in 0 .. MaxKills
  BY DEF TypeOK
<1>3. CASE Fails(c) /\ row' = row
  BY <1>1, <1>2, <1>3, FailStep
<1>4. CASE /\ proc[c].missing \subseteq Absent(Row)
           /\ row' = [k \in Row |-> IF k \in proc[c].missing THEN "seeded" ELSE row[k]]
           /\ proc' = [proc EXCEPT ![c] = [Down EXCEPT !.step = "up"]]
  <2> DEFINE p == [Down EXCEPT !.step = "up"]
  <2>1. proc \in [Container -> ProcState]
    BY DEF TypeOK, ProcState
  <2>2. p \in ProcState /\ p.step = "up"
    BY DEF Down, ProcState, Step, Head
  <2>3. /\ proc' \in [Container -> ProcState] /\ proc'[c] = p
        /\ \A d \in Container \ {c} : proc'[d] = proc[d]
    BY <1>4, <2>1, <2>2, ProcStep
  <2>4. Seeded'
    BY <1>1, <1>4, SeedCommitRows
  <2>5. RowsInv' /\ SchemaInv'
    BY <1>1, <2>4 DEF RowsInv, SchemaInv
  <2>6. TypeOK'
    <3>1. row' \in [Row -> {"absent", "seeded", "edited"}]
      BY <1>4 DEF TypeOK
    <3> QED
      BY <1>1, <2>3, <3>1 DEF TypeOK, ProcState
  <2>7. Advances
    <3>1. ~Unseeded'
      BY <2>4, RowsDiffer DEF Seeded, Unseeded
    <3>2. row[Config] # "absent" => row'[Config] # "absent"
      BY <1>4, RowsDiffer
    <3> QED
      BY <1>1, <2>4, <3>1, <3>2 DEF Advances
  <2>8. \A d \in Container \ {c} : Stage(d)'
    BY <2>3, <2>7, StageKept
  <2>9. schema = Head /\ (c \in Migrator => version = Head)
    BY <1>1 DEF Stage
  <2>10. Stage(c)'
    BY <1>1, <2>2, <2>3, <2>4, <2>9 DEF Stage
  <2> QED
    BY <2>5, <2>6, <2>8, <2>10
<1> QED
  BY <1>3, <1>4 DEF CommitSeed

\* An edit keeps every row but the administrator's.
LEMMA EditStep == ProvisioningInv /\ UserEdits => ProvisioningInv'
<1> SUFFICES ASSUME ProvisioningInv, UserEdits PROVE ProvisioningInv'
  OBVIOUS
<1> USE DEF ProvisioningInv
<1>1. /\ schema' = schema /\ version' = version /\ byHand' = byHand /\ proc' = proc
      /\ kills' = kills /\ edits' \in 0 .. MaxEdits
  BY ProvisioningAssumption DEF UserEdits, EditRow, RenameAdmin, AddConfig, Edit, TypeOK
<1>2. PICK k \in Row :
        \/ row[k] # "absent" /\ row' = [row EXCEPT ![k] = "edited"]
        \/ k = Admin /\ row[k] # "absent" /\ row' = [row EXCEPT ![k] = "absent"]
        \/ k = Config /\ row[k] = "absent" /\ row' = [row EXCEPT ![k] = "edited"]
  <2>1. Admin \in Row /\ Config \in Row
    BY DEF Row
  <2> QED
    BY <2>1 DEF UserEdits, EditRow, RenameAdmin, AddConfig, Edit
<1>3. row \in [Row -> {"absent", "seeded", "edited"}]
  BY DEF TypeOK
<1>4. TypeOK'
  <2>1. row' \in [Row -> {"absent", "seeded", "edited"}]
    BY <1>2, <1>3
  <2> QED
    BY <1>1, <2>1 DEF TypeOK
<1>5. \A j \in Row \ {Admin} : row[j] # "absent" => row'[j] # "absent"
  BY <1>2, <1>3
<1>6. Seeded => Seeded'
  BY <1>5 DEF Seeded
<1>7. Unseeded => Unseeded'
  BY <1>2, <1>3 DEF Unseeded
<1>8. Seeded' => ~Unseeded'
  BY RowsDiffer DEF Seeded, Unseeded
<1>9. Advances
  BY <1>1, <1>5, <1>6, <1>8, RowsDiffer DEF Advances, RowsInv
<1>10. \A c \in Container : Stage(c)'
  BY <1>1, <1>9, StageKept
<1>11. RowsInv' /\ SchemaInv'
  BY <1>1, <1>6, <1>7 DEF RowsInv, SchemaInv
<1> QED
  BY <1>4, <1>10, <1>11

\* One step of the system keeps the invariant.
LEMMA ProvisioningStep == ProvisioningInv /\ [Next]_vars => ProvisioningInv'
<1> SUFFICES ASSUME ProvisioningInv, [Next]_vars PROVE ProvisioningInv'
  OBVIOUS
<1>0. /\ proc \in [Container -> ProcState] /\ kills \in 0 .. MaxKills
      /\ version \in 0 .. Head
      /\ \A c \in Container : proc[c] \in ProcState /\ Stage(c)
  BY DEF ProvisioningInv, TypeOK, ProcState
<1>1. ASSUME NEW c \in Container, Start(c) PROVE ProvisioningInv'
  <2> DEFINE t == IF c \in Migrator THEN "read" ELSE AfterMigration(c)
  <2>1. /\ UNCHANGED <<schema, version, row, byHand, edits, kills>> /\ Moves(c, t)
    BY <1>1 DEF Start
  <2>2. t = IF c \in Migrator THEN "read" ELSE "up"
    BY ProvisioningAssumption DEF AfterMigration
  <2>3. t \in Step
    BY <2>2 DEF Step
  <2>4. proc'[c].step = t => Stage(c)'
    BY <2>2, ProvisioningAssumption DEF Stage
  <2> QED
    BY <2>1, <2>3, <2>4, MoveStep
<1>2. ASSUME NEW c \in Container, ReadVersion(c) PROVE ProvisioningInv'
  <2> DEFINE t == IF version = Head THEN AfterMigration(c) ELSE "migrate"
             p == [proc[c] EXCEPT !.step = t, !.from = version]
  <2>1. /\ UNCHANGED <<schema, version, row, byHand, edits, kills>>
        /\ proc' = [proc EXCEPT ![c] = p]
    BY <1>2 DEF ReadVersion
  <2>2. t \in Step
    BY DEF AfterMigration, Step
  <2>3. p \in ProcState /\ p.step = t
    BY <1>0, <2>2 DEF ProcState
  <2>4. proc'[c] = p
    BY <1>0, <2>1
  <2>5. version # Head => ~byHand
    BY DEF ProvisioningInv, SchemaInv
  <2>6. Stage(c)'
    <3> HIDE DEF p
    <3>1. /\ proc'[c].step = "migrate" => ~byHand
          /\ proc'[c].step = "roles" => c \in Seeder /\ version = Head
          /\ proc'[c].step = "up" => c \notin Seeder /\ version = Head
          /\ proc'[c].step \in {"migrate", "roles", "up"}
      BY <2>3, <2>4, <2>5 DEF AfterMigration
    <3> QED
      BY <2>1, <3>1 DEF Stage
  <2> QED
    BY <1>0, <2>1, <2>3, <2>6, ContainerStep
<1>3. ASSUME NEW c \in Container, RunDdl(c) PROVE ProvisioningInv'
  <2>1. /\ UNCHANGED <<schema, version, row, byHand, edits, kills>>
        /\ proc[c].step = "migrate" /\ (Fails(c) \/ Moves(c, "ddl"))
    BY <1>3 DEF RunDdl
  <2>2. CASE Fails(c)
    BY <1>0, <2>1, <2>2, FailStep
  <2>3. CASE Moves(c, "ddl")
    <3>1. proc'[c].step = "ddl" => Stage(c)'
      BY <1>0, <2>1 DEF Stage
    <3>2. "ddl" \in Step
      BY DEF Step
    <3> QED
      BY <2>1, <2>3, <3>1, <3>2, MoveStep
  <2> QED
    BY <2>1, <2>2, <2>3
<1>4. ASSUME NEW c \in Container, SeedRoles(c) PROVE ProvisioningInv'
  <2>1. UNCHANGED <<schema, version, row, byHand, edits, kills>> /\ proc[c].step = "roles"
    BY <1>4 DEF SeedRoles
  <2>2. CASE Fails(c)
    BY <1>0, <2>1, <2>2, FailStep
  <2>3. CASE ~Fails(c)
    <3> DEFINE p == [proc[c] EXCEPT !.step = "flush", !.missing = Absent(RoleRow)]
    <3>1. proc' = [proc EXCEPT ![c] = p]
      BY <1>4, <2>3 DEF SeedRoles
    <3>2. Absent(RoleRow) \in SUBSET Row /\ "flush" \in Step
      BY DEF Absent, Row, Step
    <3>3. p \in ProcState /\ p.step = "flush" /\ p.missing = Absent(RoleRow)
      BY <1>0, <3>2 DEF ProcState
    <3>4. proc'[c] = p
      BY <1>0, <3>1
    <3>5. Unseeded => RoleRow \subseteq Absent(RoleRow)
      BY RowsDiffer DEF Unseeded, Absent
    <3>6. Unseeded' = Unseeded
      BY <2>1 DEF Unseeded
    <3>7. Stage(c)'
      BY <1>0, <2>1, <3>3, <3>4, <3>5, <3>6 DEF Stage
    <3> QED
      BY <1>0, <2>1, <3>1, <3>3, <3>7, ContainerStep
  <2> QED
    BY <2>2, <2>3
<1>5. ASSUME NEW c \in Container, FlushRoles(c) PROVE ProvisioningInv'
  <2>1. /\ UNCHANGED <<schema, version, row, byHand, edits, kills>>
        /\ proc[c].step = "flush" /\ (Fails(c) \/ Moves(c, "rest"))
    BY <1>5 DEF FlushRoles
  <2>2. CASE Fails(c)
    BY <1>0, <2>1, <2>2, FailStep
  <2>3. CASE Moves(c, "rest")
    <3>1. proc'[c].step = "rest" /\ proc'[c].missing = proc[c].missing => Stage(c)'
      BY <1>0, <2>1 DEF Stage, Unseeded
    <3>2. "rest" \in Step
      BY DEF Step
    <3> QED
      BY <2>1, <2>3, <3>1, <3>2, MoveStep
  <2> QED
    BY <2>1, <2>2, <2>3
<1>6. ASSUME NEW c \in Container, SeedRest(c) PROVE ProvisioningInv'
  <2>1. UNCHANGED <<schema, version, row, byHand, edits, kills>> /\ proc[c].step = "rest"
    BY <1>6 DEF SeedRest
  <2>2. CASE Fails(c)
    BY <1>0, <2>1, <2>2, FailStep
  <2>3. CASE ~Fails(c)
    <3> DEFINE m == proc[c].missing \cup Absent(Rest)
               p == [proc[c] EXCEPT !.step = "commit", !.missing = m]
    <3>1. proc' = [proc EXCEPT ![c] = p] /\ schema = Head
      BY <1>6, <2>3 DEF SeedRest
    <3>2. m \in SUBSET Row /\ "commit" \in Step
      BY <1>0 DEF Absent, Rest, Step, ProcState
    <3>3. p \in ProcState /\ p.step = "commit" /\ p.missing = m
      BY <1>0, <3>2 DEF ProcState
    <3>4. proc'[c] = p
      BY <1>0, <3>1
    <3>5. Unseeded => /\ Row \ {Config} \subseteq m
                      /\ Config \in m \/ row[Config] # "absent"
      <4> SUFFICES ASSUME Unseeded
                   PROVE  /\ Row \ {Config} \subseteq m
                          /\ Config \in m \/ row[Config] # "absent"
        OBVIOUS
      <4>1. RoleRow \subseteq m
        BY <1>0, <2>1 DEF Stage
      <4>2. \A k \in Row \ RoleRow : k \in m \/ row[k] # "absent"
        BY DEF Absent, Rest
      <4>3. \A k \in Row \ {Config} : row[k] = "absent"
        BY DEF Unseeded
      <4> QED
        BY <4>1, <4>2, <4>3, RowsDiffer
    <3>6. Unseeded' = Unseeded
      BY <2>1 DEF Unseeded
    <3>7. Stage(c)'
      BY <1>0, <2>1, <3>1, <3>3, <3>4, <3>5, <3>6 DEF Stage
    <3> QED
      BY <1>0, <2>1, <3>1, <3>3, <3>7, ContainerStep
  <2> QED
    BY <2>2, <2>3
<1>7. ASSUME NEW c \in Container, Kill(c) PROVE ProvisioningInv'
  <2>1. /\ UNCHANGED <<schema, version, row, byHand, edits>> /\ Fails(c)
        /\ kills' \in 0 .. MaxKills
    BY <1>0, <1>7, ProvisioningAssumption DEF Kill, Fails
  <2> QED
    BY <2>1, FailStep
<1>8. CASE UNCHANGED vars
  <2>1. /\ TypeOK' /\ RowsInv' /\ SchemaInv' /\ Advances /\ proc' = proc
    BY <1>8 DEF vars, ProvisioningInv, TypeOK, RowsInv, SchemaInv, Seeded, Unseeded, Advances
  <2>2. \A c \in Container : Stage(c)'
    BY <1>0, <2>1, StageKept
  <2> QED
    BY <2>1, <2>2 DEF ProvisioningInv
<1> QED
  BY <1>1, <1>2, <1>3, <1>4, <1>5, <1>6, <1>7, <1>8, MigrationStep, SeedStep, EditStep
     DEF Next, Migrate, Seed

-----------------------------------------------------------------------------
\* The provisioning invariant, for any containers, rows, crashes and edits.
THEOREM ProvisioningInvHolds == Spec => []ProvisioningInv
<1> QED
  BY ProvisioningInit, ProvisioningStep, PTL DEF Spec

\* Type correctness of the schema, the rows and the containers.
THEOREM ProvisioningTypeCorrect == Spec => []TypeOK
<1>1. ProvisioningInv => TypeOK
  BY DEF ProvisioningInv
<1> QED
  BY ProvisioningInvHolds, <1>1, PTL

\* No container that migrates or seeds serves on less than the full schema, and
\* none that seeds without every role, however many start, collide or die.
THEOREM ServesProvisionedHolds == Spec => []ServesProvisioned
<1>1. ProvisioningInv => ServesProvisioned
  <2> SUFFICES ASSUME ProvisioningInv, NEW c \in Container, proc[c].step = "up"
               PROVE  /\ (c \in Migrator /\ ~byHand) => schema = Head
                      /\ c \in Seeder => schema = Head /\ Absent(RoleRow) = {}
    BY DEF ServesProvisioned
  <2>1. Seeded => Absent(RoleRow) = {}
    BY RowsDiffer DEF Seeded, Absent
  <2> QED
    BY <2>1 DEF ProvisioningInv, SchemaInv, Stage
<1> QED
  BY ProvisioningInvHolds, <1>1, PTL

\* A seed adds all the rows that are missing or none, and touches no other.
THEOREM SeedCompletesOnlyHolds == Spec => SeedCompletesOnly
<1>1. ProvisioningInv /\ [Next]_vars =>
        [\A k \in Row : (row'[k] = "seeded" /\ row[k] # "seeded") =>
           row[k] = "absent" /\ \A j \in Row : row'[j] # "absent"]_vars
  <2> SUFFICES ASSUME ProvisioningInv, Next,
                      NEW k \in Row, row'[k] = "seeded", row[k] # "seeded"
               PROVE  row[k] = "absent" /\ \A j \in Row : row'[j] # "absent"
    OBVIOUS
  <2>1. ASSUME NEW c \in Container, CommitSeed(c), row' # row
        PROVE  row[k] = "absent" /\ \A j \in Row : row'[j] # "absent"
    <3>1. /\ proc[c].step = "commit" /\ proc[c].missing \subseteq Absent(Row)
          /\ row' = [r \in Row |-> IF r \in proc[c].missing THEN "seeded" ELSE row[r]]
      BY <2>1 DEF CommitSeed
    <3> QED
      BY <3>1, SeedCommitRows
  <2>2. ASSUME UserEdits PROVE FALSE
    <3>1. row \in [Row -> {"absent", "seeded", "edited"}]
      BY DEF ProvisioningInv, TypeOK
    <3> QED
      BY <2>2, <3>1 DEF UserEdits, EditRow, RenameAdmin, AddConfig, Edit
  <2>3. ASSUME NEW c \in Container,
               Start(c) \/ Migrate(c) \/ SeedRoles(c) \/ FlushRoles(c) \/ SeedRest(c) \/ Kill(c)
        PROVE  row' = row
    BY <2>3 DEF Start, Migrate, ReadVersion, RunDdl, CommitMigration, SeedRoles,
                FlushRoles, SeedRest, Kill
  <2> QED
    BY <2>1, <2>2, <2>3 DEF Next, Seed
<1> QED
  BY ProvisioningInvHolds, <1>1, PTL DEF SeedCompletesOnly, Spec

\* After the scripts and the stamp no container that seeds ever serves: the
\* stamp says 0002, so no upgrade runs, and the seed needs its columns.  The
\* safety half of EveryoneServes.
NoSeederAfterStamp == byHand => [](\A c \in Seeder : proc[c].step # "up")

THEOREM NoSeederAfterStampHolds == Spec => NoSeederAfterStamp
<1>1. ProvisioningInv /\ byHand => \A c \in Seeder : proc[c].step # "up"
  <2> SUFFICES ASSUME ProvisioningInv, byHand, NEW c \in Seeder, proc[c].step = "up"
               PROVE  FALSE
    OBVIOUS
  <2>1. c \in Container
    BY ProvisioningAssumption
  <2>2. schema = Head
    BY <2>1 DEF ProvisioningInv, Stage
  <2>3. schema = 1
    BY DEF ProvisioningInv, SchemaInv
  <2> QED
    BY <2>2, <2>3 DEF Head
<1>2. [Next]_vars /\ byHand => byHand'
  BY DEF Next, vars, Start, Migrate, ReadVersion, RunDdl, CommitMigration, Seed, SeedRoles,
         FlushRoles, SeedRest, CommitSeed, UserEdits, EditRow, RenameAdmin, AddConfig, Edit, Kill
<1> QED
  BY ProvisioningInvHolds, <1>1, <1>2, PTL DEF Spec, NoSeederAfterStamp

\* Nothing is taken back: whatever collides, dies or is edited, the schema stays
\* at the head once it is there, and once the seed has been committed, its rows
\* are there for good, but for an administrator who is renamed.
NothingIsTakenBack == [][Advances]_vars

THEOREM NothingIsTakenBackHolds == Spec => NothingIsTakenBack
<1>1. ProvisioningInv /\ [Next]_vars => [Advances]_vars
  <2> SUFFICES ASSUME ProvisioningInv, Next PROVE Advances
    OBVIOUS
  <2> USE DEF ProvisioningInv
  <2>1. ASSUME NEW c \in Container,
               \/ Start(c) \/ ReadVersion(c) \/ RunDdl(c) \/ CommitMigration(c)
               \/ SeedRoles(c) \/ FlushRoles(c) \/ SeedRest(c) \/ Kill(c)
        PROVE  Advances
    <3>1. /\ row' = row /\ byHand' = byHand
          /\ schema' \in {schema, Head} /\ version' \in {version, Head}
      BY <2>1 DEF Start, ReadVersion, RunDdl, CommitMigration, SeedRoles, FlushRoles,
                  SeedRest, Kill
    <3> QED
      BY <3>1 DEF Advances, Seeded, Unseeded
  <2>2. ASSUME NEW c \in Container, CommitSeed(c) PROVE Advances
    <3>1. /\ schema' = schema /\ version' = version /\ byHand' = byHand
          /\ proc[c].step = "commit"
      BY <2>2 DEF CommitSeed
    <3>2. CASE row' = row
      BY <3>1, <3>2 DEF Advances, Seeded, Unseeded
    <3>3. CASE /\ proc[c].missing \subseteq Absent(Row)
               /\ row' = [k \in Row |-> IF k \in proc[c].missing THEN "seeded" ELSE row[k]]
      <4>1. Seeded'
        BY <3>1, <3>3, SeedCommitRows
      <4>2. ~Unseeded'
        BY <4>1, RowsDiffer DEF Seeded, Unseeded
      <4>3. row[Config] # "absent" => row'[Config] # "absent"
        BY <3>3, RowsDiffer
      <4> QED
        BY <3>1, <4>1, <4>2, <4>3 DEF Advances
    <3> QED
      BY <2>2, <3>2, <3>3 DEF CommitSeed
  <2>3. ASSUME UserEdits PROVE Advances
    <3>1. schema' = schema /\ version' = version /\ byHand' = byHand
      BY <2>3 DEF UserEdits, EditRow, RenameAdmin, AddConfig, Edit
    <3>2. row \in [Row -> {"absent", "seeded", "edited"}]
      BY DEF TypeOK
    <3>3. \A j \in Row \ {Admin} : row[j] # "absent" => row'[j] # "absent"
      BY <2>3, <3>2 DEF UserEdits, EditRow, RenameAdmin, AddConfig, Edit
    <3>4. Seeded => Seeded'
      BY <3>3 DEF Seeded
    <3>5. Seeded' => ~Unseeded'
      BY RowsDiffer DEF Seeded, Unseeded
    <3> QED
      BY <3>1, <3>3, <3>4, <3>5, RowsDiffer DEF Advances, RowsInv
  <2> QED
    BY <2>1, <2>2, <2>3 DEF Next, Migrate, Seed
<1> QED
  BY ProvisioningInvHolds, <1>1, PTL DEF Spec, NothingIsTakenBack
=============================================================================
