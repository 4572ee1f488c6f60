------------------------------ MODULE Sessions ------------------------------
(***************************************************************************)
(* The login sessions of one account (identity/service.py, core/deps.py):  *)
(* login opens a row of user_sessions, refresh rotates its jti and revokes *)
(* the session when an old token comes back, logout revokes it, and every  *)
(* authenticated call reads it.                                            *)
(*                                                                         *)
(* A request is one HTTP request; its steps are the statements between     *)
(* which other requests run.  The database is READ COMMITTED: a read sees  *)
(* the last commit, an UPDATE holds its row's lock until the transaction   *)
(* ends.  A refresh token is the pair (session, jti); an access token is   *)
(* bound to its session (sid).  Tokens that fail to decode, or whose exp   *)
(* has passed, are refused before anything is read and are left out.       *)
(***************************************************************************)
EXTENDS Naturals, FiniteSets, UnitOfWork

CONSTANTS
    Session,    \* ids of sessions, opened or to be opened by a login
    Opened,     \* the session that is open, with its token in a client's hands, at first
    Request,    \* HTTP requests, each of them made once
    Ageing,     \* bound: the sessions whose expires_at may pass during the run
    MaxJti,     \* bound: refresh jtis minted over the whole run
    Orders      \* the orders in which the server may commit and answer

\* get_session commits in the exit code of a dependency with yield.  FastAPI
\* runs that code before the response is sent (0.106 to 0.117) or after it (from
\* 0.118); pyproject.toml accepts both.
ASSUME SessionsAssumption ==
    /\ Opened \in Session
    /\ Ageing \subseteq Session
    /\ MaxJti \in Nat \ {0}
    /\ Orders \subseteq {"commit_first", "respond_first"}

VARIABLES
    order,      \* the order this deployment has, fixed
    row,        \* row[s]: committed columns of user_sessions; jti 0 is no row
    lapsed,     \* sessions whose committed expires_at has passed
    active,     \* is_active of the account
    minted,     \* jtis 1 .. minted have been drawn by uuid4
    delivered,  \* refresh tokens that reached a client
    superseded, \* history: jtis that were current in a committed row and are not
    req         \* req[q]: the state of a request

vars == <<order, row, lapsed, active, minted, delivered, superseded, req>>

Row == [jti : Nat, revoked : BOOLEAN]
NoRow == [jti |-> 0, revoked |-> FALSE]

Kind == {"login", "refresh", "logout", "call"}
\* Where a request stands: about to read the user or the session; about to
\* commit a revocation it has decided (reusing, barring); holding a changed
\* object; flushed, so holding the row lock; answered or committed, when only
\* the other of the two is left.  The others are final.
Final == {"granted", "refused", "reuse", "inactive"}
Step == {"new", "user", "session", "reusing", "barring", "dirty", "flushed",
         "answered", "committed"} \cup Final
\* The steps of a request the server has let in.
Admitted == {"dirty", "flushed", "answered", "committed", "granted"}

NewRequest == [kind |-> "call", step |-> "new", sid |-> Opened, jti |-> 0,
               loaded |-> NoRow, object |-> NoRow,
               late |-> FALSE, barred |-> FALSE, stale |-> FALSE]

Exists(s) == row[s] # NoRow
\* Defect: revocation is not looked at.
ValidUntilLapsed(s) == Exists(s) /\ s \notin lapsed

Valid(s) == Exists(s) /\ ~row[s].revoked /\ s \notin lapsed

\* Defects: any refresh token of the session is good; any account is.
JtiUnchecked(q) == req[q].jti \in Nat
AnyStatus == active \in BOOLEAN

JtiMatches(q) == req[q].jti = row[req[q].sid].jti
IsActive == active

\* Defect: transactions of answered requests stay open.
LockedForGood(s, q) ==
    \E p \in Request \ {q} :
        req[p].sid = s /\ req[p].step \in {"flushed", "answered", "committed", "granted"}

\* Another transaction has flushed an UPDATE of s and has not ended.
Locked(s, q) ==
    \E p \in Request \ {q} : req[p].sid = s /\ req[p].step \in {"flushed", "answered"}

\* Defect: an exception that none of the handlers of errors.py knows.
RefuseUnmapped(q) == req' = [req EXCEPT ![q] = [NewRequest EXCEPT !.step = "unhandled"]]

\* An error answer that leaves nothing behind; a final state that keeps what
\* the properties read; an intermediate step.
Refuse(q) == req' = [req EXCEPT ![q] = [NewRequest EXCEPT !.step = "refused"]]
Ends(q, step) == req' = [req EXCEPT ![q].step = step, ![q].loaded = NoRow, ![q].object = NoRow]
Moves(q, step) == req' = [req EXCEPT ![q].step = step]

Init ==
    /\ order \in Orders
    /\ row = [s \in Session |-> IF s = Opened THEN [jti |-> 1, revoked |-> FALSE] ELSE NoRow]
    /\ lapsed = {}
    /\ active = TRUE
    /\ minted = 1
    /\ delivered = {<<Opened, 1>>}
    /\ superseded = {}
    /\ req = [q \in Request |-> NewRequest]

-----------------------------------------------------------------------------
\* A request arrives.  late, barred and stale are history: what was already
\* true, in committed state, of the token or the account when it came in.
Arrive(q, kind, s, j) ==
    /\ req[q].step = "new"
    /\ req' = [req EXCEPT ![q] =
           [kind |-> kind, step |-> IF kind = "refresh" THEN "session" ELSE "user",
            sid |-> s, jti |-> j, loaded |-> NoRow, object |-> NoRow,
            late |-> row[s].revoked, barred |-> ~active, stale |-> j \in superseded]]
    /\ UNCHANGED <<order, row, lapsed, active, minted, delivered, superseded>>

\* A login draws a fresh session id; the other requests carry a token a client has.
ArriveLogin(q) ==
    \E s \in Session : /\ ~Exists(s)
                       /\ \A p \in Request : req[p].step = "new" \/ req[p].sid # s
                       /\ Arrive(q, "login", s, 0)
ArriveRefresh(q) == \E t \in delivered : Arrive(q, "refresh", t[1], t[2])
ArriveCall(q) ==
    \E t \in delivered, kind \in {"call", "logout"} : Arrive(q, kind, t[1], 0)

-----------------------------------------------------------------------------
\* Reads, and the checks made on what was read.

\* The step after a session row that is good: a call is let in, a logout has
\* something to write, a refresh has its jti compared.
NextStep(q) ==
    CASE req[q].kind = "call" -> "granted"
      [] req[q].kind = "logout" -> "dirty"
      [] req[q].kind = "refresh" /\ ~JtiMatches(q) -> "reusing"
      [] OTHER -> "user"

\* select(UserSession).  logout sets revoked_at on the object its principal
\* loaded: the second SELECT, in revoke_session, does not refresh it.
ReadSession(q) ==
    LET s == req[q].sid
        object == IF req[q].kind = "logout" THEN [row[s] EXCEPT !.revoked = TRUE]
                                            ELSE row[s] IN
    /\ req[q].step = "session"
    /\ \/ ~Valid(s) /\ Refuse(q)
       \/ /\ Valid(s)
          /\ req' = [req EXCEPT ![q] =
                 [@ EXCEPT !.step = NextStep(q), !.loaded = row[s], !.object = object]]
    /\ UNCHANGED <<order, row, lapsed, active, minted, delivered, superseded>>

\* select(User).  A call goes on to its session; login and refresh mint the jti
\* of the token they will answer with.
ReadUser(q) ==
    /\ req[q].step = "user"
    /\ \/ ~IsActive /\ req[q].kind # "refresh" /\ Refuse(q) /\ UNCHANGED minted
       \/ ~IsActive /\ req[q].kind = "refresh" /\ Moves(q, "barring") /\ UNCHANGED minted
       \/ IsActive /\ req[q].kind \in {"call", "logout"} /\ Moves(q, "session") /\ UNCHANGED minted
       \/ /\ IsActive /\ req[q].kind \in {"login", "refresh"} /\ minted < MaxJti
          /\ minted' = minted + 1
          /\ req' = [req EXCEPT ![q] =
                 [@ EXCEPT !.step = "dirty", !.object.jti = minted + 1]]
    /\ UNCHANGED <<order, row, lapsed, active, delivered, superseded>>

-----------------------------------------------------------------------------
\* Writes.

\* await db.flush(): the INSERT of a login, the UPDATE of a refresh or a logout.
FlushChanges(q) ==
    /\ req[q].step = "dirty"
    /\ ~Locked(req[q].sid, q)
    /\ Moves(q, "flushed")
    /\ UNCHANGED <<order, row, lapsed, active, minted, delivered, superseded>>

\* Defect: a refresh answers with a new jti and leaves the old one in the row.
StoreOldJti(q) ==
    LET s == req[q].sid
        object == IF req[q].kind = "refresh" THEN req[q].loaded ELSE req[q].object
        new == Flush(row[s], req[q].loaded, object) IN
    /\ row' = [row EXCEPT ![s] = new]
    /\ superseded' = superseded \cup ({row[s].jti} \ {new.jti, 0})
    /\ lapsed' = IF req[q].kind = "logout" THEN lapsed ELSE lapsed \ {s}

\* The committed effect of q's object on its row; a rotation replaces the jti,
\* and its expires_at, always a new instant, replaces the old one.
Store(q) ==
    LET s == req[q].sid
        new == Flush(row[s], req[q].loaded, req[q].object) IN
    /\ row' = [row EXCEPT ![s] = new]
    /\ superseded' = superseded \cup ({row[s].jti} \ {new.jti, 0})
    /\ lapsed' = IF req[q].kind = "logout" THEN lapsed ELSE lapsed \ {s}

\* The commit of get_session, before or after the answer.
CommitRequest(q) ==
    /\ \/ order = "commit_first" /\ req[q].step = "flushed" /\ Moves(q, "committed")
       \/ order = "respond_first" /\ req[q].step = "answered" /\ Ends(q, "granted")
    /\ Store(q)
    /\ UNCHANGED <<order, active, minted, delivered>>

\* The answer is sent; the token pair of a login or a refresh reaches the
\* client, or the connection is gone.
Respond(q) ==
    /\ \/ order = "commit_first" /\ req[q].step = "committed" /\ Ends(q, "granted")
       \/ order = "respond_first" /\ req[q].step = "flushed" /\ Moves(q, "answered")
    /\ \/ UNCHANGED delivered
       \/ /\ req[q].kind \in {"login", "refresh"}
          /\ delivered' = delivered \cup {<<req[q].sid, req[q].object.jti>>}
    /\ UNCHANGED <<order, row, lapsed, active, minted, superseded>>

\* Defect: the revocation is left to get_session, which rolls back on the error.
RaiseWithoutCommit(q) ==
    /\ req[q].step \in {"reusing", "barring"}
    /\ Ends(q, IF req[q].step = "reusing" THEN "reuse" ELSE "inactive")
    /\ UNCHANGED <<order, row, lapsed, active, minted, delivered, superseded>>

\* session.revoked_at = now; await db.commit(); raise AuthenticationError.
RevokeAndRaise(q) ==
    LET s == req[q].sid IN
    /\ req[q].step \in {"reusing", "barring"}
    /\ ~Locked(s, q)
    /\ row' = [row EXCEPT ![s] =
           Flush(@, req[q].loaded, [req[q].loaded EXCEPT !.revoked = TRUE])]
    /\ Ends(q, IF req[q].step = "reusing" THEN "reuse" ELSE "inactive")
    /\ UNCHANGED <<order, lapsed, active, minted, delivered, superseded>>

\* An exception, a lost connection to the database, the death of the process:
\* the transaction is rolled back.
Abort(q) ==
    /\ req[q].step \in Step \ (Final \cup {"new", "committed"})
    /\ Refuse(q)
    /\ UNCHANGED <<order, row, lapsed, active, minted, delivered, superseded>>

-----------------------------------------------------------------------------
\* The environment: an administrator changes the account's status
\* (PATCH /users/{id}), and time passes a session's expires_at (which makes no
\* difference to a revoked one).

SetStatus ==
    /\ active' = ~active
    /\ req' = [q \in Request |-> [req[q] EXCEPT !.barred = @ /\ active]]
    /\ UNCHANGED <<order, row, lapsed, minted, delivered, superseded>>

Lapse(s) ==
    /\ Valid(s)
    /\ lapsed' = lapsed \cup {s}
    /\ UNCHANGED <<order, row, active, minted, delivered, superseded, req>>

-----------------------------------------------------------------------------
Handle(q) ==
    \/ ReadSession(q) \/ ReadUser(q) \/ FlushChanges(q)
    \/ CommitRequest(q) \/ Respond(q) \/ RevokeAndRaise(q)

Next ==
    \/ \E q \in Request :
           ArriveLogin(q) \/ ArriveRefresh(q) \/ ArriveCall(q) \/ Handle(q) \/ Abort(q)
    \/ SetStatus
    \/ \E s \in Ageing : Lapse(s)

\* The event loop resumes a handler whose statement has returned.
Fairness == \A q \in Request : WF_vars(Handle(q))

SafeSpec == Init /\ [][Next]_vars
Spec == SafeSpec /\ Fairness
-----------------------------------------------------------------------------
Token == Session \X Nat
RequestState == [kind : Kind, step : Step, sid : Session, jti : Nat,
                 loaded : Row, object : Row,
                 late : BOOLEAN, barred : BOOLEAN, stale : BOOLEAN]

TypeOK ==
    /\ order \in Orders
    /\ row \in [Session -> Row]
    /\ lapsed \subseteq Session
    /\ active \in BOOLEAN
    /\ minted \in 0 .. MaxJti
    /\ delivered \subseteq Token
    /\ superseded \subseteq Nat
    /\ req \in [Request -> RequestState]

\* Nothing brings a revoked session back: not even a refresh that read it
\* before the logout and commits after it, since its UPDATE leaves revoked_at
\* out (refresh_session, revoke_session).
RevokedForever == [][\A s \in Session : row[s].revoked => row'[s].revoked]_vars

\* "this makes logout take effect immediately" (deps.py): a request that comes
\* in after the revocation was committed is not let in, on any path.
NoEntryAfterRevocation == \A q \in Request : req[q].late => req[q].step \notin Admitted

\* A disabled account gets nothing: no login, no refresh, no call, from the
\* moment the change is committed until it is enabled again.
DisabledStaysOut == \A q \in Request : req[q].barred => req[q].step \notin Admitted

\* A refresh token that was already replaced when it is presented never yields
\* a new pair.
StaleTokenRefused == \A q \in Request : req[q].stale => req[q].step \notin Admitted

\* The answer "reuse detected, session revoked" and the refusal of an inactive
\* account are given when the session is revoked in the database: the error
\* does not roll the revocation back (refresh_session's explicit commits).
RefusalIsDurable ==
    \A q \in Request : req[q].step \in {"reuse", "inactive"} => row[req[q].sid].revoked

\* Reuse is detected only for tokens that were replaced: an honest client that
\* presents the token it was last given is not taken for a thief.  It needs the
\* commit to precede the answer.
ReuseMeansSuperseded ==
    order = "commit_first" =>
        \A q \in Request :
            req[q].step \in {"reusing", "reuse"} => req[q].jti \in superseded

\* The rows, as the register of sessions shows them.
Register == INSTANCE SessionRegister WITH
    Number <- 1 .. MaxJti,
    NoNumber <- 0,
    First <- 1,
    status <- [s \in Session |-> IF row[s].revoked THEN "revoked"
                                 ELSE IF row[s].jti = 0 THEN "absent" ELSE "open"],
    token <- [s \in Session |-> IF row[s].revoked THEN 0 ELSE row[s].jti],
    used <- superseded \cup ({row[s].jti : s \in Session} \ {0})

\* However logins, refreshes, logouts and refusals of one account overlap, and
\* whichever of them are rolled back, its sessions behave as the register: one
\* good token each, none twice, and no way back from a revocation.
KeepsRegister == Register!Spec

\* Every request ends: no one waits for ever on a row lock.
RequestsFinish ==
    \A q \in Request : req[q].step # "new" ~> req[q].step \in Final

-----------------------------------------------------------------------------
\* "Refresh tokens rotate on every use; replaying a rotated token is treated
\* as reuse" (SECURITY.md:30-31): no token is exchanged twice.
SingleUse ==
    \A p, q \in Request :
        (/\ req[p].kind = "refresh" /\ req[q].kind = "refresh"
         /\ req[p].step = "granted" /\ req[q].step = "granted"
         /\ req[p].sid = req[q].sid /\ req[p].jti = req[q].jti) => p = q

\* "Logout revokes the session immediately" (SECURITY.md:32): once a client has
\* the answer to its logout, the session is revoked.
LogoutIsImmediate ==
    \A q \in Request :
        req[q].kind = "logout" /\ req[q].step \in {"answered", "granted"}
            => row[req[q].sid].revoked
=============================================================================
