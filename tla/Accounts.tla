------------------------------ MODULE Accounts ------------------------------
(***************************************************************************)
(* The administration of accounts and roles: create_user, update_user,     *)
(* upsert_role, update_role_permissions, each behind its require(...)      *)
(* guard and each followed by record_audit in the same transaction.        *)
(*                                                                         *)
(* PostgreSQL's part, as far as these handlers meet it: the UNIQUE index   *)
(* on users.email compares exactly; an UPDATE locks its row; an UPDATE     *)
(* that changes the column of a unique index also shuts out the KEY SHARE  *)
(* lock of foreign keys, and every audit entry takes that lock on its      *)
(* actor's row; a cycle of waits is ended by aborting a member of it.      *)
(***************************************************************************)
EXTENDS Permissions, FiniteSets, UnitOfWork

CONSTANTS
    Request,    \* administrative requests, each of them made once
    Admin,      \* the accounts there are at first; a created one is named by its request
    Email,      \* addresses as they are spelled
    Lower,      \* Lower[e]: e in lower case
    Given,      \* Given[a]: the address of a at first
    Role,       \* role ids
    Nobody,     \* what a column holds that is not there
    Asked       \* bound: the operations an instance tries

UserId == Admin \cup Request
Status == {"Active", "Inactive"}
User == [email : Email, role : Role, status : Status]
NoUser == [email |-> Nobody, role |-> Nobody, status |-> Nobody]
NoRole == {<<"none", "none">>}
Null == {<<"null", "null">>}    \* permissions: null

\* kind is the endpoint; update_user sends some of the columns of user, and
\* create_user all of them (status has a default).
Kind == {"create_user", "update_user", "upsert_role", "update_role_permissions"}
Body == UNION {[F -> Email \cup Role \cup Status] : F \in SUBSET {"email", "role", "status"}}
WellFormed(op) ==
    /\ "email" \in DOMAIN op.sent => op.sent["email"] \in Email
    /\ "role" \in DOMAIN op.sent => op.sent["role"] \in Role
    /\ "status" \in DOMAIN op.sent => op.sent["status"] \in Status
    /\ op.kind = "create_user" => DOMAIN op.sent = {"email", "role", "status"}
    /\ op.kind = "update_role_permissions" => op.perms # Null
Operation == {op \in [kind : Kind, user : UserId, sent : Body, role : Role,
                      perms : Matrix \cup {Null}] : WellFormed(op)}

ASSUME AccountsAssumption ==
    /\ Lower \in [Email -> Email]
    /\ Given \in [Admin -> Email]
    /\ \A a, b \in Admin : Lower[Given[a]] = Lower[Given[b]] => a = b
    /\ Admin \cap Request = {} /\ Admin # {} /\ Asked # {}
    /\ Nobody \notin Email \cup Role \cup Status
    /\ "admin" \in Role
    /\ Asked \subseteq Operation

VARIABLES
    users,      \* users[u]: the committed columns of an account, or NoUser
    roles,      \* roles[r]: the committed matrix of a role, or NoRole
    audit,      \* the committed audit entries
    req,        \* req[q]: the state of a request
    raced,      \* history: two requests have been in flight at the same time
    renamed     \* history: an e-mail address was changed

vars == <<users, roles, audit, req, raced, renamed>>

Ended == {"committed", "failed"}
Step == {"new", "guard", "select", "dirty", "locked", "flushed", "audited"} \cup Ended
Idle == [step |-> "new", actor |-> CHOOSE a \in Admin : TRUE, op |-> CHOOSE o \in Asked : TRUE,
         me |-> NoUser, mine |-> NoRole, loaded |-> NoUser, object |-> NoUser,
         was |-> NoRole, perms |-> NoRole, others |-> FALSE, barred |-> FALSE]

Ends(q, step) == req' = [req EXCEPT ![q] = [Idle EXCEPT !.step = step]]
Moves(q, step) == req' = [req EXCEPT ![q].step = step]

\* What require sees of an actor: the account and its role, in one SELECT.
Admits(us, rs, u, endpoint) ==
    us[u] # NoUser /\ us[u].status = "Active" /\ Allows(rs[us[u].role], endpoint)

OnUsers(q) == req[q].op.kind \in {"create_user", "update_user"}
Target(q) == IF req[q].op.kind = "create_user" THEN q ELSE req[q].op.user
Inserts(q) == IF OnUsers(q) THEN req[q].loaded = NoUser ELSE req[q].was = NoRole
\* others: the UPDATE sets only columns that are left out here (names, phone,
\* password; a role's name, description, status).
Writes(q) == \/ req[q].others
             \/ IF OnUsers(q) THEN req[q].object # req[q].loaded ELSE req[q].perms # req[q].was
SameRow(p, q) == /\ OnUsers(p) <=> OnUsers(q)
                 /\ IF OnUsers(p) THEN Target(p) = Target(q)
                                  ELSE req[p].op.role = req[q].op.role
\* q's UPDATE changes the address in the row it finds.
Renames(q) == /\ req[q].op.kind = "update_user"
              /\ req[q].object.email \notin {req[q].loaded.email, users[Target(q)].email}
Holds(q) == Writes(q) /\ req[q].step \in {"locked", "flushed", "audited"}

Init ==
    /\ users = [u \in UserId |-> IF u \in Admin
                    THEN [email |-> Given[u], role |-> "admin", status |-> "Active"] ELSE NoUser]
    /\ roles = [r \in Role |-> IF r \in {"admin", "ra_lead", "analyst", "viewer"}
                                 THEN DefaultPermissionsFor(r) ELSE NoRole]
    /\ audit = {}
    /\ req = [q \in Request |-> Idle]
    /\ raced = FALSE
    /\ renamed = FALSE

-----------------------------------------------------------------------------
\* barred is history: the actor lacked the permission when the request came
\* in, in committed state, and has lacked it since.
Arrive(q) ==
    /\ req[q].step = "new"
    /\ \E a \in UserId, op \in Asked :
           /\ users[a] # NoUser
           /\ req' = [req EXCEPT ![q] = [Idle EXCEPT !.step = "guard", !.actor = a, !.op = op,
                          !.barred = ~Admits(users, roles, a, op.kind)]]
    /\ raced' = (raced \/ \E p \in Request : req[p].step \notin Ended \cup {"new"})
    /\ UNCHANGED <<users, roles, audit, renamed>>

\* Defect: the role named in the token, not the one in the table.
GuardByToken(q) ==
    LET u == users[req[q].actor] IN
    /\ req[q].step = "guard"
    /\ IF Allows(roles["admin"], req[q].op.kind)
       THEN req' = [req EXCEPT ![q].step = "select", ![q].me = u, ![q].mine = roles[u.role]]
       ELSE Ends(q, "failed")
    /\ UNCHANGED <<users, roles, audit, raced, renamed>>

\* get_current_principal and require.
Guard(q) ==
    LET u == users[req[q].actor] IN
    /\ req[q].step = "guard"
    /\ IF Admits(users, roles, req[q].actor, req[q].op.kind)
       THEN req' = [req EXCEPT ![q].step = "select", ![q].me = u, ![q].mine = roles[u.role]]
       ELSE Ends(q, "failed")
    /\ UNCHANGED <<users, roles, audit, raced, renamed>>

\* Defect: the address looked up as it is spelled.
TwinsExactly(e) == {u \in UserId : users[u] # NoUser /\ users[u].email = e}

\* func.lower(User.email) == email.lower()
Twins(e) == {u \in UserId : users[u] # NoUser /\ Lower[users[u].email] = Lower[e]}

\* _require_role, then the e-mail: one account with it is a conflict, two make
\* scalar_one_or_none raise.
SelectForCreate(q) ==
    LET sent == req[q].op.sent IN
    /\ req[q].step = "select" /\ req[q].op.kind = "create_user"
    /\ IF roles[sent.role] = NoRole \/ Twins(sent.email) # {}
       THEN Ends(q, "failed")
       ELSE req' = [req EXCEPT ![q].step = "locked",
                ![q].object = [email |-> sent.email, role |-> sent.role, status |-> sent.status]]
    /\ UNCHANGED <<users, roles, audit, raced, renamed>>

\* get_user and the assignments.  The actor's own row is the object that
\* get_current_principal loaded: a later SELECT does not refresh it.
SelectForUpdate(q) ==
    LET op == req[q].op
        row == IF op.user = req[q].actor THEN req[q].me ELSE users[op.user]
        object == [f \in DOMAIN row |-> IF f \in DOMAIN op.sent THEN op.sent[f] ELSE row[f]] IN
    /\ req[q].step = "select" /\ op.kind = "update_user"
    /\ IF row = NoUser \/ roles[object.role] = NoRole
       THEN Ends(q, "failed")
       ELSE \E others \in {FALSE, object = row} : req' = [req EXCEPT ![q] = [req[q] EXCEPT
                !.step = IF object # row \/ others THEN "dirty" ELSE "flushed",
                !.loaded = row, !.object = object, !.others = others]]
    /\ UNCHANGED <<users, roles, audit, raced, renamed>>

\* Defect: a new role stores what was sent.
SavedAsSent(q, was) == IF req[q].op.perms = Null /\ was # NoRole THEN was ELSE req[q].op.perms

\* payload.permissions or default_permissions_for(role_id): a matrix without
\* entries is false.  An existing role keeps its matrix only when none is sent.
Saved(q, was) ==
    CASE was = NoRole /\ req[q].op.perms \in {Null, {}} -> DefaultPermissionsFor(req[q].op.role)
      [] was # NoRole /\ req[q].op.perms = Null -> was
      [] OTHER -> req[q].op.perms

\* upsert_role, which may change the role's label as well, and
\* update_role_permissions.  The actor's own role came with the actor's row.
SelectRole(q) ==
    LET op == req[q].op
        was == IF op.role = req[q].me.role THEN req[q].mine ELSE roles[op.role] IN
    /\ req[q].step = "select" /\ op.kind \in {"upsert_role", "update_role_permissions"}
    /\ IF was = NoRole /\ op.kind = "update_role_permissions"
       THEN Ends(q, "failed")
       ELSE \E others \in {FALSE, op.kind = "upsert_role" /\ Saved(q, was) = was} :
            req' = [req EXCEPT ![q] = [req[q] EXCEPT
                !.step = IF was = NoRole THEN "locked"
                         ELSE IF Saved(q, was) # was \/ others THEN "dirty" ELSE "flushed",
                !.was = was, !.perms = Saved(q, was), !.others = others]]
    /\ UNCHANGED <<users, roles, audit, raced, renamed>>

-----------------------------------------------------------------------------
\* Defect: the locks of a request that was refused are never released.
RowWaitForGood(q, p) ==
    /\ req[q].step = "dirty"
    /\ \/ SameRow(p, q) /\ Holds(p)
       \/ req[p].step = "failed"

\* q waits for p: for the row, which p has updated or, if q changes the
\* address, has an audit entry pointing at; for the key; for the actor's row.
RowWait(q, p) ==
    /\ req[q].step = "dirty"
    /\ \/ SameRow(p, q) /\ Holds(p)
       \/ Renames(q) /\ req[p].step = "audited" /\ req[p].actor = Target(q)
KeyWait(q, p) ==
    /\ req[q].step = "locked"
    /\ IF OnUsers(q)
       THEN /\ OnUsers(p) /\ Holds(p)
            /\ \/ req[p].step # "locked" /\ req[p].object.email = req[q].object.email
               \/ Renames(p) /\ users[Target(p)].email = req[q].object.email
       ELSE SameRow(p, q) /\ Holds(p) /\ req[p].step # "locked"

\* Defect: the audit entry updates its actor's row (a "last seen").
AuditWaitUpdates(q, p) ==
    /\ req[q].step = "flushed"
    /\ \/ req[p].op.kind = "update_user" /\ Holds(p) /\ Target(p) = req[q].actor
       \/ req[p].step = "audited" /\ req[p].actor = req[q].actor

AuditWait(q, p) ==
    /\ req[q].step = "flushed"
    /\ Renames(p) /\ Holds(p) /\ Target(p) = req[q].actor

Waits(q, p) == p # q /\ (RowWait(q, p) \/ KeyWait(q, p) \/ AuditWait(q, p))
Waiting(q) == \E p \in Request : Waits(q, p)
\* q is in a cycle of waits.
Deadlocked(q) ==
    Waiting(q) /\ \E S \in SUBSET Request :
        /\ q \in S
        /\ \A x \in S : (\E y \in S : Waits(x, y)) /\ (\E y \in S : Waits(y, x))

\* The UPDATE gets its row; with a new address it goes on to the index.
LockRow(q) ==
    /\ req[q].step = "dirty"
    /\ ~Waiting(q)
    /\ Moves(q, IF OnUsers(q) /\ Renames(q) THEN "locked" ELSE "flushed")
    /\ UNCHANGED <<users, roles, audit, raced, renamed>>

\* The UNIQUE index and the primary key.
Taken(q) ==
    IF OnUsers(q) THEN \E u \in UserId \ {Target(q)} : users[u].email = req[q].object.email
                  ELSE roles[req[q].op.role] # NoRole
ClaimKey(q) ==
    /\ req[q].step = "locked"
    /\ ~Waiting(q)
    /\ IF Taken(q) THEN Ends(q, "failed") ELSE Moves(q, "flushed")
    /\ UNCHANGED <<users, roles, audit, raced, renamed>>

Entry(q) == [request |-> q, actor |-> req[q].me.email, kind |-> req[q].op.kind,
             target |-> IF OnUsers(q) THEN Target(q) ELSE req[q].op.role]

\* Defect: the audit entry is written in a transaction of its own.
RecordAuditApart(q) ==
    /\ req[q].step = "flushed"
    /\ ~Waiting(q)
    /\ Moves(q, "audited")
    /\ audit' = audit \cup {Entry(q)}
    /\ UNCHANGED <<users, roles, raced, renamed>>

\* record_audit: the INSERT, with its foreign key to the actor.
RecordAudit(q) ==
    /\ req[q].step = "flushed"
    /\ ~Waiting(q)
    /\ Moves(q, "audited")
    /\ UNCHANGED <<users, roles, audit, raced, renamed>>

\* get_session commits the row and its audit entry.
Commit(q) ==
    LET t == Target(q) IN
    /\ req[q].step = "audited"
    /\ users' = IF ~OnUsers(q) THEN users ELSE
           [users EXCEPT ![t] = IF Inserts(q) THEN req[q].object
                                ELSE Flush(users[t], req[q].loaded, req[q].object)]
    /\ roles' = IF OnUsers(q) \/ req[q].perms = req[q].was THEN roles
                ELSE [roles EXCEPT ![req[q].op.role] = req[q].perms]
    /\ audit' = audit \cup {Entry(q)}
    /\ renamed' = (renamed \/ Renames(q))
    /\ req' = [p \in Request |-> IF p = q THEN [Idle EXCEPT !.step = "committed"]
           ELSE [req[p] EXCEPT !.barred = @ /\ ~Admits(users', roles', req[p].actor, req[p].op.kind)]]
    /\ UNCHANGED raced

\* An exception, an entry that does not fit its columns, a lost connection:
\* everything the request did is rolled back.
Abort(q) ==
    /\ req[q].step \notin Ended \cup {"new"}
    /\ Ends(q, "failed")
    /\ UNCHANGED <<users, roles, audit, raced, renamed>>

\* PostgreSQL's deadlock detector aborts a member of the cycle; the handler of
\* Exception answers 500.
BreakDeadlock ==
    /\ \E q \in Request : Deadlocked(q) /\ Ends(q, "failed")
    /\ UNCHANGED <<users, roles, audit, raced, renamed>>

Handle(q) == \/ Guard(q) \/ SelectForCreate(q) \/ SelectForUpdate(q) \/ SelectRole(q)
             \/ LockRow(q) \/ ClaimKey(q) \/ RecordAudit(q) \/ Commit(q)

Next == \/ \E q \in Request : Arrive(q) \/ Handle(q) \/ Abort(q)
        \/ BreakDeadlock

Fairness == WF_vars(BreakDeadlock) /\ \A q \in Request : WF_vars(Handle(q))

Spec == Init /\ [][Next]_vars /\ Fairness
-----------------------------------------------------------------------------
RequestState ==
    [step : Step, actor : UserId, op : Operation, me : User \cup {NoUser},
     mine : Matrix \cup {NoRole}, loaded : User \cup {NoUser}, object : User \cup {NoUser},
     was : Matrix \cup {NoRole}, perms : Matrix \cup {NoRole},
     others : BOOLEAN, barred : BOOLEAN]

TypeOK ==
    /\ users \in [UserId -> User \cup {NoUser}]
    /\ roles \in [Role -> Matrix \cup {NoRole}]
    /\ audit \subseteq [request : Request, actor : Email, kind : Kind, target : UserId \cup Role]
    /\ req \in [Request -> RequestState]
    /\ raced \in BOOLEAN /\ renamed \in BOOLEAN

\* A right that was withdrawn, or an account that was disabled, before the
\* request came in is gone for it, on every endpoint and whatever its token
\* says: it gets past no guard while that lasts (get_current_principal reads
\* the role from the database).
NoActionAfterWithdrawal ==
    \A q \in Request : req[q].barred => req[q].step \in {"guard"} \cup Ended

\* Two accounts whose addresses differ in case only, which leaves both without
\* a login (authenticate raises MultipleResultsFound), come from overlapping
\* requests or from update_user, which does not look: never from create_user
\* alone.  Equal addresses come from nothing.
TwinsNeedRaceOrRename ==
    \A u, v \in {w \in UserId : users[w] # NoUser} :
        (u # v /\ Lower[users[u].email] = Lower[users[v].email])
            => users[u].email # users[v].email /\ (raced \/ renamed)

\* Only a change of an e-mail address can bring two administrators into a
\* deadlock: any other edit of an account leaves its row open to the foreign
\* keys of audit entries.
OnlyRenamesDeadlock ==
    \A q \in Request : Deadlocked(q) => \E p \in Request : OnUsers(p) /\ Renames(p)

\* The audit trail tells the whole truth: what changes an account or a role
\* adds an entry that names it, in the same step, and an entry is added by
\* nothing but the commit of its request, whose actor had passed the guard.
AuditIsExact ==
    [][ /\ \A u \in UserId : users'[u] # users[u] => \E e \in audit' \ audit : e.target = u
        /\ \A r \in Role : roles'[r] # roles[r] => \E e \in audit' \ audit : e.target = r
        /\ \A e \in audit' \ audit :
               req[e.request].step = "audited" /\ req'[e.request].step = "committed" ]_vars

\* Every administrative request ends, those that wait for each other included.
ActionsEnd == <>[](\A q \in Request : req[q].step \in Ended \cup {"new"})
=============================================================================
