--------------------------- MODULE LoginAttempts ----------------------------
(***************************************************************************)
(* The users row of one account under concurrent logins and password       *)
(* changes: authenticate with its failure counter, lockout and             *)
(* rehash-on-login, change_password, and the password branch of            *)
(* update_user.  All of them read the row, decide, and write back later;   *)
(* the UPDATE carries the columns that differ from what was read.          *)
(* The account's status and the session a login opens are in Sessions.     *)
(***************************************************************************)
EXTENDS Naturals, FiniteSets, UnitOfWork

CONSTANTS
    Request,    \* requests about the account, each of them made once
    Password,   \* passwords that are tried or set
    First,      \* the password the account has at first
    NoSalt,     \* the salt of the first hash; a request salts with its own name
    MaxFailed,  \* settings.max_failed_logins
    Lockout,    \* settings.lockout_minutes, in ticks of the clock
    MaxNow      \* bound: the last tick of the clock

ASSUME LoginAssumption ==
    /\ First \in Password
    /\ NoSalt \notin Request
    /\ MaxFailed \in Nat \ {0}
    /\ Lockout \in Nat \ {0}
    /\ MaxNow \in Nat \ {0}

VARIABLES
    now,        \* the clock
    account,    \* the committed columns of the users row
    req,        \* req[q]: the state of a request
    legacy,     \* history: the account's first hash was a legacy one
    current,    \* history: the password last set by a committed change
    misses,     \* history: failed logins answered since the last success or lock
    shared      \* history: two requests have been in flight at the same time

vars == <<now, account, req, legacy, current, misses, shared>>

\* hashed_password: the password it verifies, whether it is an Argon2id hash
\* with the current parameters, and its salt.
Hash == [of : Password, modern : BOOLEAN, salt : Request \cup {NoSalt}]
\* locked_until 0 is NULL.
Account == [failed_login_count : Nat, locked_until : Nat, hashed_password : Hash]

NewHash(p, q) == [of |-> p, modern |-> TRUE, salt |-> q]
Blank == [failed_login_count |-> 0, locked_until |-> 0,
          hashed_password |-> [of |-> First, modern |-> TRUE, salt |-> NoSalt]]

Kind == {"login", "change", "reset"}
Final == {"granted", "refused", "denied", "locked_out", "changed"}
Step == {"new", "reading", "missing", "dirty", "flushed"} \cup Final

NewRequest == [kind |-> "login", step |-> "new", password |-> First, new |-> First,
               at |-> 0, barred |-> FALSE, loaded |-> Blank, object |-> Blank]

IsLocked(a, t) == a.locked_until > t
InFlight(q) == req[q].step \notin Final \cup {"new"}
\* Another request has flushed its UPDATE of the row and has not ended.
RowHeld(q) == \E p \in Request \ {q} : req[p].step = "flushed"

\* A final state keeps the outcome; the lock under which others came in may end here.
Ends(q, step) ==
    req' = [p \in Request |->
        IF p = q THEN [NewRequest EXCEPT !.step = step]
                 ELSE [req[p] EXCEPT !.barred = @ /\ IsLocked(account', now)]]
Changes(q, step, object) ==
    req' = [req EXCEPT ![q].step = step, ![q].loaded = account, ![q].object = object]

Init ==
    /\ now = 1
    /\ legacy \in BOOLEAN
    /\ account = [Blank EXCEPT !.hashed_password =
                                [of |-> First, modern |-> ~legacy, salt |-> NoSalt]]
    /\ req = [q \in Request |-> NewRequest]
    /\ current = First
    /\ misses = 0
    /\ shared = FALSE

-----------------------------------------------------------------------------
\* Defect: every successful login writes a new hash.
NeedsRehashAlways(hash) == hash.of \in Password

NeedsRehash(hash) == ~hash.modern

\* Defects: the limit passed before it locks; attempts left, not attempts made.
AfterMissLate(a, t) ==
    IF a.failed_login_count + 1 > MaxFailed
    THEN [a EXCEPT !.failed_login_count = 0, !.locked_until = t + Lockout]
    ELSE [a EXCEPT !.failed_login_count = @ + 1]
AfterMissCountsDown(a, t) ==
    IF a.failed_login_count - 1 >= MaxFailed
    THEN [a EXCEPT !.failed_login_count = 0, !.locked_until = t + Lockout]
    ELSE [a EXCEPT !.failed_login_count = @ - 1]

\* The account after a wrong password, and after the right one.
AfterMiss(a, t) ==
    IF a.failed_login_count + 1 >= MaxFailed
    THEN [a EXCEPT !.failed_login_count = 0, !.locked_until = t + Lockout]
    ELSE [a EXCEPT !.failed_login_count = @ + 1]
AfterSuccess(a, p, q) ==
    [failed_login_count |-> 0, locked_until |-> 0,
     hashed_password |-> IF NeedsRehash(a.hashed_password) THEN NewHash(p, q)
                                                           ELSE a.hashed_password]

-----------------------------------------------------------------------------
\* A login takes its clock reading before it selects the row.  barred is history:
\* the account was locked, in committed state, when q came in and has been since.
Arrive(q) ==
    /\ req[q].step = "new"
    /\ \E kind \in Kind, p, n \in Password :
           /\ kind = "login" => n = First
           /\ kind = "reset" => p = First
           /\ req' = [req EXCEPT ![q] =
                  [NewRequest EXCEPT !.kind = kind, !.step = "reading", !.password = p,
                                     !.new = n, !.at = now,
                                     !.barred = IsLocked(account, now)]]
    /\ shared' = (shared \/ \E p \in Request \ {q} : InFlight(p))
    /\ UNCHANGED <<now, account, legacy, current, misses>>

\* Defect: authenticate does not look at locked_until.
ReadIgnoringLock(q) ==
    LET a == account
        ok == req[q].password = a.hashed_password.of IN
    /\ req[q].step = "reading"
    /\ UNCHANGED <<now, account, legacy, current, misses, shared>>
    /\ \/ /\ req[q].kind = "login" /\ ~ok
          /\ Changes(q, "missing", AfterMiss(a, req[q].at))
       \/ /\ req[q].kind = "login" /\ ok
          /\ Changes(q, "dirty", AfterSuccess(a, req[q].password, q))
       \/ req[q].kind = "change" /\ ~ok /\ Ends(q, "refused")
       \/ /\ (req[q].kind = "change" /\ ok) \/ req[q].kind = "reset"
          /\ Changes(q, "dirty", [a EXCEPT !.hashed_password = NewHash(req[q].new, q)])

\* select(User), the checks on it, and the new attribute values.
\* change_password sees the row its principal was loaded from.
Read(q) ==
    LET a == account
        ok == req[q].password = a.hashed_password.of IN
    /\ req[q].step = "reading"
    /\ UNCHANGED <<now, account, legacy, current, misses, shared>>
    /\ \/ req[q].kind = "login" /\ IsLocked(a, req[q].at) /\ Ends(q, "refused")
       \/ /\ req[q].kind = "login" /\ ~IsLocked(a, req[q].at) /\ ~ok
          /\ Changes(q, "missing", AfterMiss(a, req[q].at))
       \/ /\ req[q].kind = "login" /\ ~IsLocked(a, req[q].at) /\ ok
          /\ Changes(q, "dirty", AfterSuccess(a, req[q].password, q))
       \/ req[q].kind = "change" /\ ~ok /\ Ends(q, "refused")
       \/ /\ (req[q].kind = "change" /\ ok) \/ req[q].kind = "reset"
          /\ Changes(q, "dirty", [a EXCEPT !.hashed_password = NewHash(req[q].new, q)])

Store(q) == account' = Flush(account, req[q].loaded, req[q].object)

\* await db.commit() on the failure path; then the error is raised.
CommitMiss(q) ==
    LET locks == req[q].loaded.failed_login_count + 1 >= MaxFailed IN
    /\ req[q].step = "missing"
    /\ ~RowHeld(q)
    /\ Store(q)
    /\ Ends(q, IF locks THEN "locked_out" ELSE "denied")
    /\ misses' = IF locks /\ misses + 1 >= MaxFailed THEN 0 ELSE misses + 1
    /\ UNCHANGED <<now, legacy, current, shared>>

\* The flush of _issue_session, change_password or update_user: last_login or
\* updated_at is always in it, so it takes the row lock.
FlushChanges(q) ==
    /\ req[q].step = "dirty"
    /\ ~RowHeld(q)
    /\ req' = [req EXCEPT ![q].step = "flushed"]
    /\ UNCHANGED <<now, account, legacy, current, misses, shared>>

\* get_session commits.
CommitChanges(q) ==
    LET login == req[q].kind = "login" IN
    /\ req[q].step = "flushed"
    /\ Store(q)
    /\ Ends(q, IF login THEN "granted" ELSE "changed")
    /\ misses' = IF login THEN 0 ELSE misses
    /\ current' = IF login THEN current ELSE req[q].new
    /\ UNCHANGED <<now, legacy, shared>>

\* An exception, or the death of the process: the transaction is rolled back.
Abort(q) ==
    /\ InFlight(q)
    /\ UNCHANGED <<now, account, legacy, current, misses, shared>>
    /\ Ends(q, "refused")

Tick ==
    /\ now < MaxNow
    /\ now' = now + 1
    /\ req' = [q \in Request |-> [req[q] EXCEPT !.barred = @ /\ IsLocked(account, now')]]
    /\ UNCHANGED <<account, legacy, current, misses, shared>>

Handle(q) == Read(q) \/ CommitMiss(q) \/ FlushChanges(q) \/ CommitChanges(q)

Next == Tick \/ \E q \in Request : Arrive(q) \/ Handle(q) \/ Abort(q)

Spec == Init /\ [][Next]_vars
-----------------------------------------------------------------------------
RequestState == [kind : Kind, step : Step, password : Password, new : Password,
                 at : Nat, barred : BOOLEAN, loaded : Account, object : Account]

TypeOK ==
    /\ now \in 1 .. MaxNow
    /\ account \in Account
    /\ req \in [Request -> RequestState]
    /\ legacy \in BOOLEAN
    /\ current \in Password
    /\ misses \in Nat
    /\ shared \in BOOLEAN

\* While requests on the account come one after another, the counter is the
\* number of failures answered since the last success or lock, and the lock
\* falls exactly at the limit: no failure is lost to the rollback its own error
\* causes, to an abort, or to a change of the password in between.
SequentialCountExact ==
    ~shared => /\ account.failed_login_count = misses
               /\ misses < MaxFailed

\* A login that comes in while the account is locked gets no answer on its
\* password, right or wrong, as long as that lock is in the table: neither a
\* grant nor a miss that counts.  (A success read before the lock was set
\* may take it away.)
LockKeepsOut ==
    \A q \in Request :
        (req[q].kind = "login" /\ req[q].barred)
            => req[q].step \notin {"missing", "dirty", "flushed"}

\* A migrated hash stays migrated: no request that read the legacy hash puts it
\* back when it writes the counter, the lock or anything else.
NeverDowngraded ==
    [][account.hashed_password.modern => account'.hashed_password.modern]_vars

\* The stored hash verifies the password of the last committed change, through
\* every overlap with logins: a login writes the hash back only to migrate it.
PasswordIsLastSet == ~legacy => account.hashed_password.of = current

-----------------------------------------------------------------------------
\* "after MAX_FAILED_LOGINS failures an account is locked" (SECURITY.md:34):
\* there are never that many answered failures since the last success or lock.
LockedAtTheLimit == misses < MaxFailed

\* "Users notice nothing" (SECURITY.md:16, of rehash-on-login): migrating the
\* hash leaves the password what it was last set to.
RehashIsInvisible == account.hashed_password.of = current
=============================================================================
