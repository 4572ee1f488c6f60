# Verification of the RadonaiX backend

The backend (`src/app`) is a FastAPI service with a PostgreSQL database of its
own, a Celery worker fed through Redis, and read-only clients for ClickHouse,
another PostgreSQL and Airflow. Nearly all its logic is short: read a row,
decide, write it back, let `get_session` commit. What is hard is what happens
when two of these overlap, when one is rolled back or killed half way, and when
the answer, the commit, the broker and the file system disagree about order.
That is what the modules here are about.

## Inventory

| Component | State | Operations | Talks to | What makes it correct |
|---|---|---|---|---|
| Transactions (`core/database.py`, `workers/db.py`, `core/errors.py`) | one session per request or task | commit when the endpoint returns, rollback on an exception, IntegrityError answered with a 4xx | everything | an answer that reports a change is given for a change that lasts |
| References (`reporting`, `assurance` services) | `reports`, `cases`, `saved_queries` | count + 1, insert | database | unique, no gap that blocks later creates, in commit order |
| Report pipeline (`reporting`, `workers`) | `reports` row, broker queue, CSV file | create, task, download | API, Redis, worker, disk, ClickHouse | Completed means a whole file with its checksum; Queued means someone will work on it |
| Sessions (`identity`, `core/deps.py`) | `user_sessions`, tokens held by clients | login, refresh, logout, principal of a call | database | revocation is final and immediate, rotation, reuse detection |
| Login attempts (`identity`, `core/security.py`) | `users`: counter, lock, hash | authenticate, change_password, update_user | database | lockout at the limit, a migrated hash stays, the last password set is the one that works |
| Accounts, RBAC, audit (`identity`, `core/rbac.py`, `core/deps.py`) | `users`, `roles`, `audit_logs` | create, update, upsert, each behind a `require(...)` guard and with an audit entry | database | the guard decides on committed rights, one account per e-mail, one audit entry per committed change |
| Cases, workbench (`assurance`) | `cases`, `case_comments`, `saved_queries` | create, patch, comment | database, ClickHouse | edits merge by column, the answer is the row |
| Operations (`operations`, `meta`, `integrations/airflow.py`) | `pipeline_alerts`, `decoders`, `system_config` | acknowledge, upsert, retry, replay, configuration, views, readiness | database, ClickHouse, Airflow | the singleton is one; no wait closes a circle; slow upstreams are survived |
| ClickHouse client (`integrations/clickhouse.py`) | one shared client | query, ping, close | threads | a failure of one query does not break another |
| Provisioning (`migrations`, `seed.py`, entrypoint, SQL scripts) | schema, reference rows | migrate, seed, start | database | idempotent, also when two start |
| Shell (`main`, middleware, logging, config, schemas, `core/redis.py`) | none that matters | wiring, validation, metrics | | |

The hazards (in `PROJECT.json`, each at its line) come from this table. The
hard behaviours are: READ COMMITTED transactions with reads and writes apart;
ORM objects that are not refreshed; the commit that comes after the endpoint and,
in recent FastAPI versions, after the response; an at-least-once broker; a
task that rewrites a file in place; processes that die between any two steps.

## Modules

| Module | Models |
|---|---|
| `UnitOfWork` | what SQLAlchemy writes at a flush: the columns whose value differs from the one loaded, and nothing else (external library, as the code relies on it) |
| `ReferenceNumbers` | allocation of `RPT-`, `CASE-` and `Q-` references |
| `CertifiedExport` | abstract specification of a report: published in one step |
| `ReportPipeline` | `POST /reports`, broker, `generate_report`, download; extends `ReferenceNumbers` and refines `CertifiedExport` |
| `SessionRegister` | abstract specification of an account's sessions: one good token each, none twice, no way back from a revocation |
| `Sessions` | login, refresh, logout, authenticated calls of one account; refines `SessionRegister` |
| `LoginAttempts` | failure counter, lockout, rehash-on-login and password changes of one account |
| `SharedRows` | the edits of cases, alerts, decoders and the system configuration |
| `Cases` | composes `ReferenceNumbers` (create_case) with `SharedRows` (its edits), and refines the former |
| `Permissions` | the default matrices of `rbac.py` and what each endpoint asks of them |
| `Accounts` | create_user, update_user, upsert_role, update_role_permissions, their guard and their audit entry; extends `Permissions` |
| `ClickHouseClient` | the one client object of a process, its threads and the server's outages |
| `Upstreams` | the handlers that wait for ClickHouse or Airflow, the connection pool; extends `ClickHouseClient` |
| `Provisioning` | containers that migrate, seed and serve |
| `ReferenceNumbersProofs`, `CasesProofs`, `ReportPipelineProofs`, `AccountsProofs`, `SessionsProofs`, `LoginAttemptsProofs`, `UpstreamsProofs`, `ProvisioningProofs` | theorems |
| `MC*` | the instances TLC checks |

How the models read the code:

- **Steps.** A handler is cut at each `await` that reaches the database and at
  each access to something shared (row, file, queue). Between two of them no
  other request of the process runs, and other processes see nothing.
- **Rows** are records of the committed columns the properties can tell apart.
  A request keeps what it `loaded` and the `object` it will write; the commit
  applies `Flush(stored, loaded, object)`. This is where lost updates come
  from, and also what keeps a stale refresh from clearing `revoked_at`.
- **Row locks** (`Locked`, `RowHeld`) and the wait on a unique key
  (`HeldByOther`) block a flush while another transaction that wrote the same
  row, or key, is open. A lock is taken and data becomes visible at
  different steps, as in PostgreSQL.
- **Rollback** is an action (`Abort`, `AbortReport`) that can follow any step of
  an open transaction.
- **Data** is reduced to what is compared. A password is a model value, a hash
  the password it verifies, whether it is current Argon2id, and its salt (two
  hashes of one password differ, which decides what a flush writes). A checksum is the
  content it was computed from; path, size and checksum are written together
  and are one field. A token is the pair (session, jti) or its session.

### ReferenceNumbers

`Count` is `_next_reference` and its twins, `Insert` the flush, `Conflict`
the IntegrityError that is answered with a 4xx. The number is kept as the distance from the
table's base. Nothing deletes reports, cases or saved queries, so the count only
grows. One module stands for all three tables, since the three services
repeat the same statements.

### ReportPipeline

`Enqueue` precedes `CommitReport`, as in the code. `Take`/`TakeMissing` load the
row; `CommitRunning`, `OpenFile` (truncates), `CloseFile`, `Hash` and
`CommitCompleted` are the task; `Raise` and `CommitFailed` its `except` branch.
A failed ClickHouse query is the content `empty`: the task degrades and goes on.
`generate_report` never calls `self.retry`, so `max_retries` has no effect and
there is no retry action; the broker's redelivery is `Restore`. `KillChild`
stands for a pool child that dies (the parent acknowledges, the defaults of
Celery being in force) and for a database that is gone when the `except` branch
needs it: both end the task with the row as it was. `Reader` is a download.

### Sessions

Requests are logins, refreshes, logouts and other authenticated calls, all from
tokens some client really received (`delivered`; an answer may also be lost).
`order` is a constant of a deployment: `commit_first` is FastAPI before 0.118,
`respond_first` since; `pyproject.toml` accepts both. `RevokeAndRaise` is the
explicit commit of the two refusals of `refresh_session`. `SetStatus` is an
administrator's PATCH as one step, which is how other requests see it.
`late`, `barred` and `stale` are history: they record, when a request arrives,
what was already committed about its token or account.
`KeepsRegister` maps the rows to `SessionRegister`: an unrevoked row is open under its
jti, and a jti is used from the commit that stores it. `Waste` is what a refresh that overlaps
a revocation leaves: a jti in a revoked row, which opens nothing.

### LoginAttempts

`Read` is the SELECT with all decisions made on it; `CommitMiss` the explicit
commit of the failure path; `FlushChanges` and `CommitChanges` the success of a
login, a password change or an administrator's reset. The clock reading is
taken before the SELECT (`at`), as in `authenticate`. `misses`, `current`,
`shared` and a request's `barred` are history.

### SharedRows and Cases

`update_case`, `acknowledge_alert`, `upsert_decoder`, `get_or_create_config` and
`update_system_config` have one shape, and one set of actions: `Select` (with the
assignments; it adds the row where the handler does), `FlushEdit` (with the refresh
that follows it under the row lock), `CommitEdit`. What a request sent is a function
on some of the columns; the four `Bodies` say which, and where null may be sent
(`exclude_unset` lets null through, `is not None` does not; a decoder is sent whole, but for
its config, one of the `Optional` columns that it keeps when none is sent). `settled` is
history: the row was committed when the request came in. `Cases` gives the rows
their birth: `CommitCase` is the commit of create_case, and the row is not there
before it.

### Permissions and Accounts

A matrix is the set of pairs it grants. `{}` is the one without entries, which Python
takes for false; one with entries that are all false is true to it, and is `AllFalse`. `Guard` is `get_current_principal` and
`require` in one step: they read account and role in one SELECT. `SelectFor...` are the
service functions up to their flush, `LockRow` and `ClaimKey` the flush as
PostgreSQL runs it, `RecordAudit` the INSERT of the entry, with the lock that its foreign key
takes on the actor's row. `Waits` says who waits for whom. A circle of waits is
ended by `BreakDeadlock`, as PostgreSQL does; the request it picks gets the 500 of the
`Exception` handler. What an actor read of the own row at the guard (`me`, `mine`) is
the object the service edits afterwards, since the session does not refresh it.
`others` says that the UPDATE sets columns the model leaves out (a role's label, a password): it
stores nothing here, but takes the row lock.
`barred`, `raced` and `renamed` are history.

### ClickHouseClient and Upstreams

`Look`, `Build`, `Assign`, `Return` are `_get_client` in a worker thread, without a
lock; `Close` and `Forget` are `close_clickhouse` on the event loop, which has no await, so
that nothing else of the loop runs between them (`LoopFree`) while threads do. A query on
a client that was closed or lived through an outage may succeed or fail, as may one that
shares the client with another query; and the server may reject any query (`Reject`), after which
`close_clickhouse` runs as after a lost connection. An object nobody refers to is
collected and its name free again (`Freed`). In `Upstreams` a request holds its pooled
connection from `Connect` to its answer; the readiness probe gives it back before it
pings. `PoolTimeout` is the pool's 30 s. The kind `view` stands for all handlers
with one query and a fallback. `AirflowActs` may come after the request has given
up on it: what was sent stays sent when the request ends. `alone`, `knew` and `healed` are
history; a query that is rejected ends `alone`.

### Provisioning

A schema is the number of the last migration it is at. A container goes through `ReadVersion`,
`RunDdl`, `CommitMigration`, `SeedRoles`, `FlushRoles`, `SeedRest`, `CommitSeed` and
serves; a failed step ends it (`set -e`) and it is started again (`restart:
unless-stopped`). `Migrator` and `Seeder` are the containers whose `RUN_MIGRATIONS` and
`RUN_SEED` are on. `byHand` is the other documented way: the SQL script, which makes the schema of
revision 0001, and `alembic stamp head`, which records 0002. `UserEdits` is what users do meanwhile: they change seeded rows (`EditRow`), among them
the administrator's e-mail, which to the seed is an administrator that is missing
(`RenameAdmin`), and a GET adds the configuration (`AddConfig`).

## Runs

| Run | Bounds | Shows |
|---|---|---|
| `reference_numbers` | 3 creates, 2 editors of a case, of the configuration and of a decoder, 2 columns | `NoGap`, `IssuedInCommitOrder`, `SettledRowIsFound`, `OnlySentColumnsChange`, `AnswerIsStored`, `CasesEnd` |
| `report_pipeline` | 2 reports, 2 pool slots, 1 download, all faults, 1 redelivery | `CertifiedFile`, `FilesAreOwned`, `DownloadCertified`, `QueuedSettles`, and refinement of `CertifiedExport` (`PublishesAtomically`) |
| `sessions` | 2 sessions, 3 requests, both orders, 4 jtis | `NoEntryAfterRevocation`, `DisabledStaysOut`, `StaleTokenRefused`, `RefusalIsDurable`, `ReuseMeansSuperseded`, `RequestsFinish`, and refinement of `SessionRegister` (`KeepsRegister`) |
| `login_attempts` | 4 requests, 2 passwords, limit 2, a lock of 1 tick, 2 ticks | `SequentialCountExact`, `LockKeepsOut`, `NeverDowngraded`, `PasswordIsLastSet` |
| `accounts` | 2 administrators, 3 requests out of 7 operations, 2 spellings of an address, 3 roles | `NoActionAfterWithdrawal`, `TwinsNeedRaceOrRename`, `OnlyRenamesDeadlock`, `AuditIsExact`, `ActionsEnd` |
| `upstreams` | 4 requests in 9 mixes of kinds, 2 connections, 5 clients, 1 outage, rejected queries | `HealsAfterOneRequest`, `WaitsEndAtUpstream`, `RequestsEnd` |
| `provisioning` | 2 API containers that seed, 1 that does not, 1 worker, 2 kills, 3 edits, both ways to a schema | `ServesProvisioned`, `SeedCompletesOnly`, `EveryoneServes` |
| `queued_forever` | 1 report, 1 slot, no fault | violates `QueuedIsGenerated` |
| `same_token_twice` | 1 session, 2 requests, `commit_first` | violates `SingleUse` |
| `logout_answered` | 1 session, 2 requests, `respond_first` | violates `LogoutIsImmediate` |
| `lost_failure` | 2 requests, limit 2 | violates `LockedAtTheLimit` |
| `rehash_overlap` | 2 requests | violates `RehashIsInvisible` |

Each passing run also checks its module's type invariant.

Why the bounds suffice for the interesting cases. Three creates allow two stale
counts behind one commit, or one with a rollback in between; the theorems cover any number. Two
editors of one row are a reader with a stale row and a writer; requests on different rows do
not meet. Two reports and two slots
allow a redelivered task to run beside the other report's task and beside
itself; one redelivery is enough for a second execution after a Completed, a
Failed or an abandoned one, and `MaxRestored` only bounds how often that
repeats. Three session requests are a race of two with a third that observes
the outcome. `Ageing` limits which sessions may reach their `expires_at`; a second one
adds states, no new case. Four login requests with limit 2 are enough for a lock,
an overlap with it, and a login under it. Three administrative requests make a race of
two creates and a third that meets the result, and a circle of waits with a bystander; `Asked` holds
one operation for each branch that differs, among them a role saved without entries and with
none sent, and one whose entries all become false. Three requests of mixed kinds on two
connections let two drain the pool. `HealsAfterOneRequest` takes four that query:
two that overlap and close, forget or build each other's client, one alone behind them that finds out,
and one more alone that must be served. The process starts healed, and a rejected query is not
an outage, so that two overlapping failures and one request alone are a case of their own. With
five clients a thread always finds an object that is not in use; one outage that may last for ever
gives every order of failures and one recovery. Two containers that seed collide, two kills hit both or one twice, and a third that
migrates only (the defaults of the entrypoint) may serve users before the seed has run, so that a GET adds the
configuration first. Deadlock checking is off in every run
because each request is made once, or every container serves in the end, so the system
stops; that nothing is stuck is checked by `CasesEnd`, `RequestsFinish`, `ActionsEnd`, `RequestsEnd`,
`EveryoneServes` and `QueuedSettles`.

**Conditions inside the properties.** `CertifiedFile`,
`DownloadCertified` and the refinement exclude reports whose task the broker gave
to two workers at once (`overlapped`): the task takes no lock and has no check,
so nothing holds of these, and `CertifiedExport` calls them Spoiled.
`SequentialCountExact` speaks of requests that do not overlap: the overlaps are
the subject of `lost_failure`. `LockKeepsOut` holds while the lock is in the
table; a success that was read before the lock was set may remove it. `PasswordIsLastSet` is for accounts without a legacy
hash; `rehash_overlap` is the other half. `ReuseMeansSuperseded` needs the
commit before the answer; with the other order an honest client can hold a
token whose rotation was rolled back.

`NoActionAfterWithdrawal` is about what was withdrawn before the
request came in: a guard that was passed is not asked again. `TwinsNeedRaceOrRename`
allows two spellings of an address after an overlap or a rename, because the code
does: it says these are the only ways. `HealsAfterOneRequest` is about requests that
have ClickHouse to themselves, since two in one client's session may fail each other. `EveryoneServes` has a
half for each way to a schema (see Findings).

**Fairness.** `WF` of each handler: the event loop resumes a handler whose
statement returned. `WF` of `Deliver(r)` and `Work(w)`: a running worker consumes
its queue and runs its task. `WF` of `BreakDeadlock`: PostgreSQL
looks for deadlocks after a second's wait. `WF` of `Thread(r)`: a thread's query ends, by its rows or its
timeout. `WF` of a container's steps: `restart: unless-stopped`. All liveness rests on these alone. No fault, no time step and no client request is ever obliged to
happen. Fairness is on the disjunction of a handler's steps, so a rollback is
never forced and never relied upon.

## Findings

Five runs expect a violation, each of a sentence of the repository:

1. `queued_forever`: the task is offered before the row is committed; a fast
   worker drops it and the report stays Queued. Nothing enqueues it again.
2. `same_token_twice`: rotation is read-compare-write without a lock; one token
   can be exchanged twice, and no reuse is detected then.
3. `logout_answered`: with FastAPI from 0.118 the answer precedes the commit.
4. `lost_failure`: overlapping failures are counted once.
5. `rehash_overlap`: rehash-on-login can undo a password change.

One more disagreement has a property that holds of the code as it is. `docs/DATABASE.md:102-105` and
`scripts/sql/001_app_schema.sql:235` say to run `alembic stamp head` after the script, and the latter that this
"records revision 0001". The head is 0002, which adds columns the script does not
make; so `python -m app.seed`, the next line of the document, fails, and so
does every login. `EveryoneServes` states it: by hand, no container that seeds ever serves.

## Proofs

`tlapm` checks the proof modules with no assumption but the named `ASSUME`s of
the models.

**ReferenceNumbersProofs**, for any finite set of requests. `NoGap` alone is not
inductive: an insert that commits must bear exactly n+1. `RefInv` adds that a
number counted earlier is at most n+1 (`CountedBehind`: the count only grows),
that an open insert holds n+1 (`OpenHoldsNext`: a smaller number is taken), and that
there is at most one open insert (`OneOpen`: two would hold the same key).
Then a commit extends 1..n to 1..n+1. It yields `RefTypeCorrect`, `NoGapHolds`,
`NoDuplicateHolds` and `CommitOrderHolds`.

**CasesProofs**, for any creates, editors, ids, columns and values. `CasesAllocate` shows that
`Cases` implements `ReferenceNumbers` (an edit is a stutter of the allocation), which brings
`RefInv` along. `CaseHasReference` ties the two halves: a row is there exactly when its
reference is committed, so rows only come into being, and what an editor found stays found. `RowsInv` says
of every request in flight: its row is there or is one it adds (`RowIsThere`), its object
is the loaded row with what was sent (`AssignsSent`), at most one request that writes holds
a row (`OneWriter`), an added key is not taken (`KeyIsNew`), and the answer in hand is what the commit
will leave (`AnswerHolds`, which needs `OneWriter`: nobody else commits in between). `SettledIsLoaded`
carries `settled` through the steps. It yields `CasesTypeCorrect`, `CaseHasReferenceHolds`, `SettledRowIsFoundHolds`,
`OnlySentColumnsChangeHolds` and `AnswerIsStoredHolds`.
Two more rest on `SoundInv`: an object in flight has what was sent, a flushed one has no NULL
where none may be. `SentIsStoredHolds`: no edit is
lost. It excepts a column that was sent with the value it was loaded with; that is no change to the
session, and a value another commit has put there in between stays. `RequiredAreThereHolds`: no
column that must not be NULL is, though no request is checked against the others.

**ReportPipelineProofs**, for any requests, workers, downloads, contents, set of faults and number
of redeliveries. Every step of the pipeline is a step of `ReferenceNumbers` or leaves it alone
(`StepAllocates`), which brings `RefInv` along: the paths of committed reports differ (`PathsApart`).
`PipeInv` says that a task past its first SELECT is about a committed report (`TasksHaveRows`);
that who executes a report outside `overlapped` is alone with it (`OneExecution`), so its row is still
as it was loaded and a flush stores the whole object (`LoadedIsRow`); that the row says
Running from before the file is truncated until the last commit, and the file holds the
query's content from its close on (`WorkIsMarked`), which is what makes `CertifiedFile`
inductive; and that a download in flight finds the file it announced unless an execution was
counted since it read the row (`ReadsCurrent`). It yields `PipeTypeCorrect`, `CertifiedFileHolds`, `FilesAreOwnedHolds`,
`DownloadCertifiedHolds` and the refinement `PublishesAtomicallyHolds`: the commit of a create is the
abstract `Accept`, the commits of a task are `Start`, `Publish` and `Fail`, a second delivery
during an execution is `Spoil`, and all else shows nothing. `PipelineAllocates` states the first
fact as a refinement of its own. Two theorems say what `overlapped` costs: every task is in the
broker or at one worker, never both and never twice (`OneCopy`), unless the visibility timeout
duplicates it; so without that fault there is no second execution (`NeverTwiceAtOnce`), whatever
dies or is delivered again, and `CertifiedFile` has no exception (`CertifiedWithoutTimeout`).
`RunningIsExplainedHolds` holds of overlapping executions too: a row that says Running has a worker
that will end it, a task in the broker, or is one of those a pool child died with (`lost`).

**AccountsProofs**, for any administrators, requests, addresses, roles and any set of validated
payloads (`AccountsAssumption`). `AccountsInv` says what a request holds at each step (`Shapes`), that a
created account is there from its request's commit on (`CreatedInv`), that who is barred is before
the guard (`BarredInv`), that an entry's request is committed (`AuditInv`), that one request at most
holds a row (`RowFree`) and one an address in the UNIQUE index (`KeyFree`), hence committed addresses differ
(`EmailsDiffer`); and, until two requests meet or an address changes, that the one in
flight has seen every address there is (`Alone`, `CreateLooked`), so that no two differ in case only
(`SpelledApart`). `OnlyRenamesDeadlock` needs none of it: without renames a wait
leads from a dirty request to one that locked, from there to one that flushed, and ends. It yields
`AccountsTypeCorrect`, `NoActionAfterWithdrawalHolds`, `TwinsNeedRaceOrRenameHolds`,
`OnlyRenamesDeadlockHolds` and `AuditIsExactHolds`. `VouchInv` adds what a request can vouch for
from its guard to its commit: its actor was active and allowed (`ChangesAreAdmittedHolds`), the role it
gives is in the table (`RolesExistHolds`; no operation takes a role away), and the object it will
write differs from the one it loaded in what was sent and nowhere else. Hence `OnlySentIsSavedHolds` and
`SentIsSavedHolds`, also for an actor's edit of the own row, whose object is the guard's
reading: it reverts nothing, and what it may leave out is a value that equals the one it had loaded.

**SessionsProofs**, for any sessions, requests, bound on jtis and order.
`AccessInv` adds to type correctness: no object in hand was loaded from a revoked
row (`LoadedUnrevoked`, since reads stop there), which with `FlushKeepsRevoked`
makes revocation final; a request that came in late is still before the read
that refuses it (`LateInv`); so is one that came in while the account was
disabled (`BarredInv`); and the announced revocations are in the table
(`DurableInv`). It yields `TypeCorrect`, `RevocationIsFinal`, `LogoutKeepsOut`,
`DisablingKeepsOut`, `RefusalsAreDurable`. `RotationInv` says where each jti is: one drawn
and not yet stored is in no row, was in none, and is no other request's (`FreshInv`, for
which the loaded one must differ, or the flush would not write it); a current one is neither
superseded nor another session's (`CurrentInv`); and where the commit precedes the answer,
what a client holds is or was current (`ClientsInv`). It yields `StaleNeverExchanged` and
`ReuseIsGenuine`. `RegisterInv` follows every revocation from its object to its row. With it
each step is one of `SessionRegister`'s or a stutter in either order of commit and answer
(`KeepsRegisterHolds`): a login and a refresh are `Issue`, a logout and the refusals `Revoke`, a refresh
behind a revocation `Waste`. It also gives the positive half of a finding: where the
commit precedes the answer, `LogoutIsImmediateHolds`.

**LoginAttemptsProofs**, for any requests, passwords, limit, length of the lock
and last tick. `LoginInv` says of every request what it holds between its read
and its commit: it writes the hash back as it was, or a current one with its own
salt (`HashInv`); the salt of a request that has not ended is in no hash anybody read
(`SaltInv`), so a changed hash differs from the one loaded and the flush really
writes it; without a legacy hash a login writes the hash back unchanged and a
change writes the new password (`PasswordInv`); a login that came in under a
lock that is still in the table is before its read, with a clock reading the lock
outlasts (`LockInv`). It yields `TypeCorrect`, `LockKeepsOutHolds`,
`NeverDowngradedHolds` and `PasswordIsLastSetHolds`. `SequenceInv` adds what holds
until two requests meet: at most one is in flight, it loaded the row as it still
is, and its object holds the count its answer tells; `SequentialCountExactHolds` follows.
`RehashIsInvisibleHolds` is the positive half of a finding: without a legacy hash, or until two
requests meet, the stored hash verifies the password that was last set. `LockPassesHolds` bounds
the damage of lost updates (`BoundInv`): the counter stays below the limit, and no lock ends later
than its length from now, so every lock passes.

**UpstreamsProofs**, for any requests, pool, mixes of kinds and number of outages, with
more clients than requests so that `Build` always finds one that is not in use.
`UpstreamsInv` says that a thread works only for a request that waits for it (`CallsInv`);
that a client built and not yet assigned is open, is not the module's, and no other call holds
it (`BuiltInv`); that the module's client is a closed one only while `close_clickhouse` runs
(`ClosedInv`, since it has no await); that a request alone with ClickHouse ends its query on the
module's own client, or leaves none behind (`AloneInv`); and that once such a request has
ended, no client that is in place or about to be assigned is from before the outage
(`HealedInv`). The last two make each other inductive: the first such request either finds that the
client works or closes it. It yields `UpstreamsTypeCorrect` and
`HealsAfterOneRequestHolds`. `PoolInv` adds the two queues inside the process, for a connection
and for the key of the configuration: the pool lends what it has (`PoolIsBoundedHolds`), one request
at most adds the row (`ConfigIsAddedOnceHolds`), and it is past both queues. So no circle of
waits closes (`WaitsEndAtUpstreamHolds`): somebody with a connection waits only for an upstream,
whose answer or timeout comes. This is the argument for `RequestsEnd` that can be proved here.

**ProvisioningProofs**, for any containers, rows of each table, kills and edits, if the seed
has roles and no row is of two tables (`ProvisioningAssumption`). The rows are always in one of two
states (`RowsInv`): nothing was seeded and at most a GET has added the configuration
(`Unseeded`), or all is there and at most the administrator was renamed (`Seeded`). The schema is at
its stamp unless the script made it (`SchemaInv`). `Stage` says what a container has found by the
time it is at a step: while nothing is seeded, a seed in flight still has every row to add, so
its commit makes the rows whole or hits a key and adds none. It yields `ProvisioningTypeCorrect`,
`ServesProvisionedHolds` and `SeedCompletesOnlyHolds`; `NothingIsTakenBackHolds`, whatever dies or
collides; and `NoSeederAfterStampHolds`, the half of `EveryoneServes` that is safety: after the
stamp by hand no container that seeds ever serves.

Only model-checked: liveness (`CasesEnd`, `RequestsFinish`, `QueuedSettles`, `ActionsEnd`, `RequestsEnd`,
`EveryoneServes` but for its second half), which is out of the prover's reach, and the five
violations. Every invariant, every action property and both refinements of a passing run are theorems. The
properties that have a theorem and no run (`SentIsStored`, `OnlySentIsSaved`, `RolesExist` and the others named above) are defined in the proof modules.

## Not modelled

- Token decoding and the expiry of access tokens (refused before any state is
  read), schemas and validation, logging, metrics, CORS, configuration.
- `add_comment`: one INSERT that nothing else reads or writes. Lists, details and statistics are reads;
  the arithmetic of the ClickHouse views and `format_bytes` is formatting.
- The RA PostgreSQL client (only `ping` is called) and the Redis
  cache helpers (nobody calls them).
- Downgrades of the schema; `CLICKHOUSE_ENABLED=false`, which raises before any state is
  touched; the close of the clients at shutdown.
- `role.status`, `is_system`, `must_reset_password`, `password_changed_at`: written, and read for no decision.
- A session row of a deleted user does not occur: no operation deletes users.

## What is left

The state that decides anything is modelled, and its safety proved. A change to the code brings
work where it changes a guard or the order of a commit; `ReportPipeline` (a check
for a second execution, an enqueue after the commit) and `LoginAttempts` (a row lock on the
account) are where one is most likely, and there the violated properties would move to the passing
runs.
