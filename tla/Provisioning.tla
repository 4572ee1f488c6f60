---------------------------- MODULE Provisioning ----------------------------
(***************************************************************************)
(* What a container does before it serves (docker-entrypoint.sh): alembic  *)
(* upgrade head, app.seed, exec; set -e ends it at the first failure and   *)
(* restart: unless-stopped starts it again.  Several containers start at   *)
(* once, or next to one that serves and whose users edit what was seeded.  *)
(* The other way to a schema is by hand: scripts/sql/001 and 002 and       *)
(* "alembic stamp head".                                                   *)
(***************************************************************************)
EXTENDS Naturals, FiniteSets

CONSTANTS
    Container,
    Migrator, Seeder,   \* those with RUN_MIGRATIONS and with RUN_SEED
    RoleRow,            \* the rows the seed flushes first: the roles
    Admin, Config,      \* a demo user, found by e-mail; the system configuration
    OtherRow,           \* decoders and alerts
    MaxKills, MaxEdits  \* bounds

Row == RoleRow \cup {Admin, Config} \cup OtherRow
Rest == Row \ RoleRow
Head == 2   \* revisions 0001 and 0002; 0 is an empty schema

\* The rows are of different tables; the seed has roles.
ASSUME ProvisioningAssumption ==
    /\ Migrator \subseteq Container /\ Seeder \subseteq Migrator
    /\ RoleRow # {} /\ Admin # Config /\ {Admin, Config} \cap (RoleRow \cup OtherRow) = {}
    /\ MaxKills \in Nat /\ MaxEdits \in Nat

VARIABLES
    schema,     \* the revision whose tables and columns are there
    version,    \* what alembic_version says
    row,        \* row[k]: absent, as seeded, or as the users made it
    byHand,     \* the scripts made the schema
    proc,       \* proc[c]: where the container is
    kills, edits

vars == <<schema, version, row, byHand, proc, kills, edits>>

Step == {"down", "read", "migrate", "ddl", "roles", "flush", "rest", "commit", "up"}
Down == [step |-> "down", from |-> 0, missing |-> {}]
Absent(K) == {k \in K : row[k] = "absent"}
Moves(c, step) == proc' = [proc EXCEPT ![c].step = step]
AfterMigration(c) == IF c \in Seeder THEN "roles" ELSE "up"

\* Defect: an entrypoint without set -e.
FailsAndGoesOn(c) == Moves(c, "up")
\* Defect: a restart policy that leaves a failed container where it is.
FailsForGood(c) == Moves(c, "exited")
\* The command exits with an error: so does the container, and its transaction.
Fails(c) == proc' = [proc EXCEPT ![c] = Down]

Init ==
    /\ byHand \in BOOLEAN
    /\ schema = IF byHand THEN 1 ELSE 0
    /\ version = IF byHand THEN Head ELSE 0
    /\ row = [k \in Row |-> IF byHand /\ k # Admin THEN "seeded" ELSE "absent"]
    /\ proc = [c \in Container |-> Down]
    /\ kills = 0 /\ edits = 0

-----------------------------------------------------------------------------
\* The wait for the port of the database is over.
Start(c) ==
    /\ proc[c].step = "down"
    /\ Moves(c, IF c \in Migrator THEN "read" ELSE AfterMigration(c))
    /\ UNCHANGED <<schema, version, row, byHand, kills, edits>>

ReadVersion(c) ==
    /\ proc[c].step = "read"
    /\ proc' = [proc EXCEPT ![c].step = IF version = Head THEN AfterMigration(c) ELSE "migrate",
                            ![c].from = version]
    /\ UNCHANGED <<schema, version, row, byHand, kills, edits>>

\* The first DDL waits for another upgrade's transaction; then what it creates
\* is there already, or not.
RunDdl(c) ==
    /\ proc[c].step = "migrate"
    /\ \A d \in Container : proc[d].step # "ddl"
    /\ IF schema # proc[c].from THEN Fails(c) ELSE Moves(c, "ddl")
    /\ UNCHANGED <<schema, version, row, byHand, kills, edits>>

\* Defect: the DDL commits, the revision does not.
CommitMigrationUnstamped(c) ==
    /\ proc[c].step = "ddl"
    /\ schema' = Head
    /\ Moves(c, AfterMigration(c))
    /\ UNCHANGED <<version, row, byHand, kills, edits>>

\* One transaction for all revisions and alembic_version.
CommitMigration(c) ==
    /\ proc[c].step = "ddl"
    /\ schema' = Head /\ version' = Head
    /\ Moves(c, AfterMigration(c))
    /\ UNCHANGED <<row, byHand, kills, edits>>

-----------------------------------------------------------------------------
SeedRoles(c) ==
    /\ proc[c].step = "roles"
    /\ IF schema = 0 THEN Fails(c)
       ELSE proc' = [proc EXCEPT ![c].step = "flush", ![c].missing = Absent(RoleRow)]
    /\ UNCHANGED <<schema, version, row, byHand, kills, edits>>

\* Defect: a session that commits each statement.
FlushRolesAutocommit(c) ==
    /\ proc[c].step = "flush"
    /\ row' = [k \in Row |-> IF k \in proc[c].missing THEN "seeded" ELSE row[k]]
    /\ proc' = [proc EXCEPT ![c].step = "rest", ![c].missing = {}]
    /\ UNCHANGED <<schema, version, byHand, kills, edits>>

\* await db.flush(): the INSERTs wait for another seed's and then collide.
FlushRoles(c) ==
    /\ proc[c].step = "flush"
    /\ \A d \in Container :
           proc[d].step \in {"rest", "commit"} => proc[d].missing \cap proc[c].missing = {}
    /\ IF proc[c].missing \subseteq Absent(Row) THEN Moves(c, "rest") ELSE Fails(c)
    /\ UNCHANGED <<schema, version, row, byHand, kills, edits>>

\* SELECT names every column of users, those of 0002 included.
SeedRest(c) ==
    /\ proc[c].step = "rest"
    /\ IF schema # Head THEN Fails(c)
       ELSE proc' = [proc EXCEPT ![c].step = "commit", ![c].missing = @ \cup Absent(Rest)]
    /\ UNCHANGED <<schema, version, row, byHand, kills, edits>>

\* Defect: the rows are merged into those that are there.
CommitSeedMerging(c) ==
    /\ proc[c].step = "commit"
    /\ row' = [k \in Row |-> IF k \in Rest \cup proc[c].missing THEN "seeded" ELSE row[k]]
    /\ proc' = [proc EXCEPT ![c] = [Down EXCEPT !.step = "up"]]
    /\ UNCHANGED <<schema, version, byHand, kills, edits>>

\* await db.commit() flushes the rest; a row that has appeared since it was
\* looked for ends the seed and takes the roles back.
CommitSeed(c) ==
    /\ proc[c].step = "commit"
    /\ \/ /\ proc[c].missing \subseteq Absent(Row)
          /\ row' = [k \in Row |-> IF k \in proc[c].missing THEN "seeded" ELSE row[k]]
          /\ proc' = [proc EXCEPT ![c] = [Down EXCEPT !.step = "up"]]
       \/ ~(proc[c].missing \subseteq Absent(Row)) /\ Fails(c) /\ UNCHANGED row
    /\ UNCHANGED <<schema, version, byHand, kills, edits>>

-----------------------------------------------------------------------------
\* A user's request to an API container that serves.
Edit(k, value) ==
    /\ edits < MaxEdits /\ edits' = edits + 1
    /\ schema = Head
    /\ \E c \in Migrator : proc[c].step = "up"
    /\ row' = [row EXCEPT ![k] = value]
    /\ UNCHANGED <<schema, version, byHand, proc, kills>>

\* What was seeded is edited (upsert_decoder, as upsert_role, update_user,
\* acknowledge_alert and update_system_config).
EditRow(k) == row[k] # "absent" /\ Edit(k, "edited")

\* The administrator gets another address, and is not found by the old one.
RenameAdmin == row[Admin] # "absent" /\ Edit(Admin, "absent")

\* A GET adds the configuration that is missing.
AddConfig == row[Config] = "absent" /\ Edit(Config, "edited")

UserEdits == (\E k \in Row : EditRow(k)) \/ RenameAdmin \/ AddConfig

\* A crash, a deployment, a lost connection.
Kill(c) ==
    /\ proc[c].step # "down"
    /\ kills < MaxKills /\ kills' = kills + 1
    /\ proc' = [proc EXCEPT ![c] = Down]
    /\ UNCHANGED <<schema, version, row, byHand, edits>>

Migrate(c) == ReadVersion(c) \/ RunDdl(c) \/ CommitMigration(c)
Seed(c) == SeedRoles(c) \/ FlushRoles(c) \/ SeedRest(c) \/ CommitSeed(c)
Next == \/ \E c \in Container : Start(c) \/ Migrate(c) \/ Seed(c) \/ Kill(c)
        \/ UserEdits

\* The entrypoint runs, and the container is restarted.
Fairness == \A c \in Container : WF_vars(Start(c) \/ Migrate(c) \/ Seed(c))

Spec == Init /\ [][Next]_vars /\ Fairness
-----------------------------------------------------------------------------
TypeOK ==
    /\ schema \in 0 .. Head /\ version \in 0 .. Head
    /\ row \in [Row -> {"absent", "seeded", "edited"}]
    /\ byHand \in BOOLEAN
    /\ proc \in [Container -> [step : Step, from : 0 .. Head, missing : SUBSET Row]]
    /\ kills \in 0 .. MaxKills /\ edits \in 0 .. MaxEdits

\* Nothing is served half provisioned, whichever of the containers collide or
\* die: the API container serves on the full schema, and with every role
\* (set -e, the order of the entrypoint).
ServesProvisioned ==
    \A c \in Container : proc[c].step = "up" =>
        /\ (c \in Migrator /\ ~byHand) => schema = Head
        /\ c \in Seeder => schema = Head /\ Absent(RoleRow) = {}

\* "Safe to run repeatedly": a seed adds rows that are missing, never touches
\* one that is there, edited or not, and adds all of them or none.
SeedCompletesOnly ==
    [][\A k \in Row : (row'[k] = "seeded" /\ row[k] # "seeded") =>
           row[k] = "absent" /\ \A j \in Row : row'[j] # "absent"]_vars

\* Containers that collide in the upgrade or the seed, or with a user's first
\* GET of the configuration, all serve in the end.  After the scripts and the
\* stamp none that seeds ever does: the stamp says 0002, the script made 0001.
EveryoneServes ==
    /\ ~byHand => <>[](\A c \in Container : proc[c].step = "up")
    /\ byHand => [](\A c \in Seeder : proc[c].step # "up")
=============================================================================
