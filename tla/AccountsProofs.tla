--------------------------- MODULE AccountsProofs ---------------------------
(***************************************************************************)
(* Accounts, roles and their audit trail under any number of               *)
(* administrators and requests: rights are those in the table, addresses   *)
(* stay distinct, the trail tells what was committed, and no circle of     *)
(* waits closes without a change of an address.                            *)
(***************************************************************************)
EXTENDS Accounts, TLAPS

InFlight(q) == req[q].step \notin Ended \cup {"new"}
Passed(q) == InFlight(q) /\ req[q].step # "guard"
Later(q) == Passed(q) /\ req[q].step # "select"

\* The UPDATE or INSERT of an account that q has made, or will make, and the
\* address that it claims in the index with it.
Wants(q) == OnUsers(q) /\ Writes(q)
Owns(q) == Wants(q) /\ req[q].step \in {"locked", "flushed", "audited"}
Rekeys(q) == req[q].op.kind = "create_user" \/ Renames(q)
Claims(q) == Rekeys(q) /\ req[q].step \in {"flushed", "audited"}
RowIsFree(q) == \A p \in Request \ {q} : Owns(p) => Target(p) # Target(q)
KeyIsFree(q) ==
    /\ \A u \in UserId \ {Target(q)} : users[u].email # req[q].object.email
    /\ \A p \in Request \ {q} : Claims(p) => req[p].object.email # req[q].object.email
NoTwin(q) == \A u \in UserId : users[u] # NoUser =>
                 Lower[users[u].email] # Lower[req[q].object.email]

-----------------------------------------------------------------------------
\* What a request holds, by the step it is at.
Shape(q) ==
    /\ ~Later(q) => req[q].loaded = NoUser
    /\ req[q].step = "dirty" => req[q].op.kind # "create_user"
    /\ Passed(q) => req[q].me \in User /\ users[req[q].actor] # NoUser
    /\ (Later(q) /\ OnUsers(q)) => req[q].object \in User
    /\ (Later(q) /\ req[q].op.kind = "create_user") => req[q].loaded = NoUser
    /\ (Later(q) /\ req[q].op.kind = "update_user") =>
           req[q].loaded \in User /\ users[req[q].op.user] # NoUser
    /\ (Later(q) /\ ~OnUsers(q)) => req[q].perms \in Matrix
Shapes == \A q \in Request : Shape(q)

\* The account that a request creates is there from its commit on.
CreatedInv == \A q \in Request : users[q] # NoUser => req[q].step = "committed"

\* Who is barred is still before the guard, which reads the same table.
Barred(q) == req[q].barred => /\ req[q].step \in {"guard"} \cup Ended
                              /\ req[q].step = "guard" =>
                                     ~Admits(users, roles, req[q].actor, req[q].op.kind)
BarredInv == \A q \in Request : Barred(q)

\* An entry belongs to a request that has committed.
AuditInv == \A e \in audit : req[e.request].step = "committed"

\* Row locks and the unique index: one owner of a row, one claim to an address.
RowFree == \A q \in Request : Owns(q) => RowIsFree(q)
KeyFree == \A q \in Request : Claims(q) => KeyIsFree(q)
EmailsDiffer == \A u, v \in UserId :
    (u # v /\ users[u] # NoUser /\ users[v] # NoUser) => users[u].email # users[v].email

\* Without an overlap a create has looked at the table it commits to.
Alone == ~raced => \A p, q \in Request : (InFlight(p) /\ InFlight(q)) => p = q
CreateLooked == ~raced => \A q \in Request :
    (Later(q) /\ req[q].op.kind = "create_user") => NoTwin(q)
SpelledApart == (~raced /\ ~renamed) => \A u, v \in UserId :
    (u # v /\ users[u] # NoUser /\ users[v] # NoUser) =>
        Lower[users[u].email] # Lower[users[v].email]

AccountsInv == /\ TypeOK /\ Shapes /\ CreatedInv /\ BarredInv /\ AuditInv
               /\ RowFree /\ KeyFree /\ EmailsDiffer
               /\ Alone /\ CreateLooked /\ SpelledApart

-----------------------------------------------------------------------------
\* What stands for a missing account, role or matrix is none.
LEMMA NothingIsNothing == NoUser \notin User /\ NoRole \notin Matrix /\ Null \notin Matrix
<1>1. NoUser \notin User
  BY AccountsAssumption DEF NoUser, User
<1>2. <<"none", "none">> \notin Full /\ <<"null", "null">> \notin Full
  BY DEF Full, PermKey, Action
<1>3. NoRole # AllFalse /\ Null # AllFalse
  <2>1. <<"none", "none">> # <<"all", "false">> /\ <<"null", "null">> # <<"all", "false">>
    OBVIOUS
  <2>2. <<"none", "none">> \notin AllFalse /\ <<"null", "null">> \notin AllFalse
    BY <2>1 DEF AllFalse
  <2>3. <<"none", "none">> \in NoRole /\ <<"null", "null">> \in Null
    BY Zenon DEF NoRole, Null
  <2> QED
    BY <2>2, <2>3, Zenon
<1> QED
  BY <1>1, <1>2, <1>3 DEF NoRole, Null, Matrix

\* The default matrices are matrices.
LEMMA DefaultsAreMatrices == \A r : DefaultPermissionsFor(r) \in Matrix
<1>1. RaLead \in Matrix
  BY DEF RaLead, Matrix, Full, PermKey, Action
<1>2. Analyst \in Matrix
  BY DEF Analyst, Matrix, Full, PermKey, Action
<1>3. Viewer \in Matrix
  BY DEF Viewer, Matrix, Full, PermKey, Action
<1>4. Full \in Matrix
  BY DEF Matrix
<1> QED
  BY <1>1, <1>2, <1>3, <1>4 DEF DefaultPermissionsFor

LEMMA IdleIsState == Idle \in RequestState
<1>1. (CHOOSE a \in Admin : TRUE) \in Admin
  BY AccountsAssumption
<1>2. (CHOOSE o \in Asked : TRUE) \in Operation
  BY AccountsAssumption
<1> QED
  BY <1>1, <1>2 DEF Idle, RequestState, Step, UserId

\* One request changes state.
LEMMA OthersKept ==
  ASSUME TypeOK, NEW q \in Request, NEW x \in RequestState, req' = [req EXCEPT ![q] = x]
  PROVE  /\ req' \in [Request -> RequestState]
         /\ req'[q] = x
         /\ \A p \in Request \ {q} : req'[p] = req[p]
  BY DEF TypeOK

\* What is said of a request that another's step leaves alone stays as it is.
LEMMA OthersSee ==
  ASSUME NEW p, req'[p] = req[p], users' = users, roles' = roles
  PROVE  /\ Owns(p)' = Owns(p) /\ Claims(p)' = Claims(p) /\ Target(p)' = Target(p)
         /\ Shape(p)' = Shape(p) /\ NoTwin(p)' = NoTwin(p) /\ Barred(p)' = Barred(p)
         /\ Later(p)' = Later(p) /\ InFlight(p)' = InFlight(p)
<1>1. OnUsers(p)' = OnUsers(p) /\ Target(p)' = Target(p) /\ Renames(p)' = Renames(p)
  BY DEF OnUsers, Target, Renames
<1>2. Writes(p)' = Writes(p)
  BY <1>1 DEF Writes
<1>3. Owns(p)' = Owns(p) /\ Claims(p)' = Claims(p)
  BY <1>1, <1>2 DEF Owns, Wants, Claims, Rekeys
<1>4. Later(p)' = Later(p) /\ InFlight(p)' = InFlight(p) /\ Passed(p)' = Passed(p)
  BY DEF Later, Passed, InFlight
<1>5. Shape(p)' = Shape(p)
  BY <1>1, <1>4 DEF Shape
<1>6. NoTwin(p)' = NoTwin(p)
  BY DEF NoTwin
<1>7. Barred(p)' = Barred(p)
  BY DEF Barred, Admits
<1> QED
  BY <1>1, <1>3, <1>4, <1>5, <1>6, <1>7

\* A request that goes on inside its transaction: nothing is committed, and it
\* is enough to look at what it holds now.
LEMMA LocalKeeps ==
  ASSUME AccountsInv, NEW q \in Request, InFlight(q), NEW x \in RequestState,
         req' = [req EXCEPT ![q] = x], UNCHANGED <<users, roles, audit, raced, renamed>>,
         x.step \notin {"new", "guard", "committed"}, ~x.barred,
         Shape(q)', Owns(q)' => RowIsFree(q)', Claims(q)' => KeyIsFree(q)',
         (~raced /\ Later(q)' /\ x.op.kind = "create_user") => NoTwin(q)'
  PROVE  AccountsInv'
<1>t. TypeOK
  BY DEF AccountsInv
<1>1. /\ req' \in [Request -> RequestState]
      /\ req'[q] = x
      /\ \A p \in Request \ {q} : req'[p] = req[p]
  BY <1>t, OthersKept
<1>2. \A p \in Request \ {q} :
        /\ Owns(p)' = Owns(p) /\ Claims(p)' = Claims(p) /\ Target(p)' = Target(p)
        /\ Shape(p)' = Shape(p) /\ NoTwin(p)' = NoTwin(p) /\ Barred(p)' = Barred(p)
        /\ Later(p)' = Later(p) /\ InFlight(p)' = InFlight(p)
  BY <1>1, OthersSee
<1>3. TypeOK'
  BY <1>t, <1>1 DEF TypeOK
<1>4. Shapes'
  BY <1>1, <1>2 DEF AccountsInv, Shapes
<1>5. CreatedInv'
  <2>1. req[q].step # "committed"
    BY DEF InFlight, Ended
  <2> QED
    BY <1>1, <2>1 DEF AccountsInv, CreatedInv
<1>6. BarredInv'
  BY <1>1, <1>2 DEF AccountsInv, BarredInv, Barred
<1>7. AuditInv'
  <2>1. \A e \in audit : e.request \in Request /\ e.request # q
    BY <1>t DEF AccountsInv, AuditInv, TypeOK, InFlight, Ended
  <2> QED
    BY <1>1, <2>1 DEF AccountsInv, AuditInv
<1>8. RowFree'
  <2>1. \A p \in Request \ {q} : Owns(p)' => RowIsFree(p)'
    BY <1>2 DEF AccountsInv, RowFree, RowIsFree
  <2> QED
    BY <2>1 DEF RowFree
<1>9. KeyFree'
  <2>1. \A p \in Request \ {q} : Claims(p)' => KeyIsFree(p)'
    BY <1>1, <1>2 DEF AccountsInv, KeyFree, KeyIsFree
  <2> QED
    BY <2>1 DEF KeyFree
<1>10. EmailsDiffer' /\ SpelledApart'
  BY DEF AccountsInv, EmailsDiffer, SpelledApart
<1>11. Alone'
  BY <1>2 DEF AccountsInv, Alone
<1>12. CreateLooked'
  BY <1>1, <1>2 DEF AccountsInv, CreateLooked
<1> QED
  BY <1>3, <1>4, <1>5, <1>6, <1>7, <1>8, <1>9, <1>10, <1>11, <1>12 DEF AccountsInv

\* A request that ends without a commit disturbs nothing.
LEMMA FailKeeps ==
  ASSUME AccountsInv, NEW q \in Request, InFlight(q), Ends(q, "failed"),
         UNCHANGED <<users, roles, audit, raced, renamed>>
  PROVE  AccountsInv'
<1> DEFINE x == [Idle EXCEPT !.step = "failed"]
<1>1. x \in RequestState /\ x.step = "failed" /\ ~x.barred /\ x.loaded = NoUser
  BY IdleIsState DEF RequestState, Step, Ended, Idle
<1>2. req' = [req EXCEPT ![q] = x]
  BY DEF Ends
<1> HIDE DEF x
<1>3. req'[q] = x
  BY <1>1, <1>2, OthersKept DEF AccountsInv
<1>4. ~Passed(q)' /\ ~Later(q)' /\ ~Owns(q)' /\ ~Claims(q)'
  BY <1>1, <1>3 DEF Passed, Later, InFlight, Ended, Owns, Claims
<1>5. Shape(q)'
  BY <1>1, <1>3, <1>4 DEF Shape
<1> QED
  BY <1>1, <1>2, <1>4, <1>5, LocalKeeps

\* A request that has assigned goes on through the flush to its audit entry:
\* what it takes on the way has to be free.
LEMMA MoveKeeps ==
  ASSUME AccountsInv, NEW q \in Request, Later(q),
         NEW s \in {"locked", "flushed", "audited"}, Moves(q, s),
         UNCHANGED <<users, roles, audit, raced, renamed>>,
         Wants(q) => RowIsFree(q),
         (Rekeys(q) /\ s # "locked") => KeyIsFree(q)
  PROVE  AccountsInv'
<1> DEFINE x == [req[q] EXCEPT !.step = s]
<1>t. TypeOK /\ req[q] \in RequestState
  BY DEF AccountsInv, TypeOK
<1>1. /\ x \in RequestState /\ x.step = s /\ x.actor = req[q].actor /\ x.op = req[q].op
      /\ x.me = req[q].me /\ x.loaded = req[q].loaded /\ x.object = req[q].object
      /\ x.was = req[q].was /\ x.perms = req[q].perms /\ x.barred = req[q].barred
      /\ x.others = req[q].others
  BY <1>t DEF RequestState, Step
<1>2. req' = [req EXCEPT ![q] = x]
  BY DEF Moves
<1> HIDE DEF x
<1>3. /\ req'[q] = x
      /\ \A p \in Request \ {q} : req'[p] = req[p]
  BY <1>t, <1>1, <1>2, OthersKept
<1>4. ~x.barred
  BY <1>1 DEF AccountsInv, BarredInv, Barred, Later, Passed, InFlight, Ended
<1>5. /\ OnUsers(q)' = OnUsers(q) /\ Target(q)' = Target(q)
      /\ Renames(q)' = Renames(q) /\ Rekeys(q)' = Rekeys(q)
  <2>1. /\ req'[q].op = req[q].op /\ req'[q].object = req[q].object
        /\ req'[q].loaded = req[q].loaded
    BY <1>1, <1>3
  <2>2. OnUsers(q)' = OnUsers(q) /\ Target(q)' = Target(q)
    BY <2>1 DEF OnUsers, Target
  <2>3. Renames(q)' = Renames(q)
    BY <2>1, <2>2 DEF Renames
  <2> QED
    BY <2>1, <2>2, <2>3 DEF Rekeys
<1>6. Wants(q)' = Wants(q)
  BY <1>1, <1>3, <1>5 DEF Wants, Writes
<1>7. Shape(q)'
  <2>1. Shape(q)
    BY DEF AccountsInv, Shapes
  <2> QED
    BY <1>1, <1>3, <1>5, <2>1 DEF Shape, Later, Passed, InFlight, Ended
<1>8. \A p \in Request \ {q} : /\ Owns(p)' = Owns(p) /\ Claims(p)' = Claims(p)
                                /\ Target(p)' = Target(p)
  BY <1>3 DEF Owns, Wants, Writes, Claims, Rekeys, Renames, OnUsers, Target
<1>9. Owns(q)' => RowIsFree(q)'
  BY <1>5, <1>6, <1>8 DEF Owns, RowIsFree
<1>10. Claims(q)' => KeyIsFree(q)'
  BY <1>1, <1>3, <1>5, <1>8 DEF Claims, KeyIsFree
<1>11. (~raced /\ Later(q)' /\ x.op.kind = "create_user") => NoTwin(q)'
  BY <1>1, <1>3 DEF AccountsInv, CreateLooked, NoTwin
<1>12. InFlight(q) /\ x.step \notin {"new", "guard", "committed"}
  BY <1>1 DEF Later, Passed
<1> QED
  BY <1>1, <1>2, <1>4, <1>7, <1>9, <1>10, <1>11, <1>12, LocalKeeps

-----------------------------------------------------------------------------
\* The guard lets nobody in who is barred.
LEMMA GuardKeeps == ASSUME AccountsInv, NEW q \in Request, Guard(q) PROVE AccountsInv'
<1> DEFINE u == users[req[q].actor]
           x == [req[q] EXCEPT !.step = "select", !.me = u, !.mine = roles[u.role]]
<1>t. TypeOK /\ req[q] \in RequestState /\ InFlight(q)
  BY DEF AccountsInv, TypeOK, Guard, InFlight, Ended
<1>1. CASE Admits(users, roles, req[q].actor, req[q].op.kind)
  <2>1. u \in User /\ roles[u.role] \in Matrix \cup {NoRole}
    <3>1. u \in User
      BY <1>t, <1>1 DEF TypeOK, RequestState, Admits
    <3> QED
      BY <1>t, <3>1 DEF TypeOK, User
  <2>2. /\ x \in RequestState /\ x.step = "select" /\ x.me = u /\ x.actor = req[q].actor
        /\ x.op = req[q].op /\ x.barred = req[q].barred /\ x.loaded = req[q].loaded
    BY <1>t, <2>1 DEF RequestState, Step
  <2>3. req' = [req EXCEPT ![q] = x] /\ UNCHANGED <<users, roles, audit, raced, renamed>>
    BY <1>1 DEF Guard
  <2>4. users[req[q].actor] # NoUser
    BY <1>1 DEF Admits
  <2>5. ~req[q].barred
    BY <1>1 DEF AccountsInv, BarredInv, Barred, Guard
  <2> HIDE DEF x
  <2>6. req'[q] = x
    BY <1>t, <2>2, <2>3, OthersKept
  <2>7. ~Later(q)' /\ ~Owns(q)' /\ ~Claims(q)'
    BY <2>2, <2>6 DEF Later, Owns, Claims
  <2>8. Shape(q)'
    <3>1. req[q].loaded = NoUser
      BY DEF AccountsInv, Shapes, Shape, Later, Passed, Guard
    <3> QED
      BY <2>1, <2>2, <2>3, <2>4, <2>6, <2>7, <3>1 DEF Shape
  <2> QED
    BY <1>t, <2>2, <2>3, <2>5, <2>7, <2>8, LocalKeeps
<1>2. CASE ~Admits(users, roles, req[q].actor, req[q].op.kind)
  BY <1>t, <1>2, FailKeeps DEF Guard
<1> QED
  BY <1>1, <1>2

\* A create has looked for the address in every spelling.
LEMMA CreateKeeps == ASSUME AccountsInv, NEW q \in Request, SelectForCreate(q) PROVE AccountsInv'
<1> DEFINE sent == req[q].op.sent
           object == [email |-> sent.email, role |-> sent.role, status |-> sent.status]
           x == [req[q] EXCEPT !.step = "locked", !.object = object]
<1>t. TypeOK /\ req[q] \in RequestState /\ InFlight(q) /\ req[q].op.kind = "create_user"
  BY DEF AccountsInv, TypeOK, SelectForCreate, InFlight, Ended
<1>u. UNCHANGED <<users, roles, audit, raced, renamed>>
  BY DEF SelectForCreate
<1>1. CASE roles[sent.role] = NoRole \/ Twins(sent.email) # {}
  BY <1>t, <1>u, <1>1, FailKeeps DEF SelectForCreate
<1>2. CASE ~(roles[sent.role] = NoRole \/ Twins(sent.email) # {})
  <2>1. object \in User
    BY <1>t DEF RequestState, Operation, WellFormed, User, Status
  <2>2. req' = [req EXCEPT ![q] = x]
    BY <1>2 DEF SelectForCreate
  <2>3. /\ x \in RequestState /\ x.step = "locked" /\ x.object = object
        /\ x.me = req[q].me /\ x.loaded = req[q].loaded /\ x.actor = req[q].actor
        /\ x.op = req[q].op /\ x.barred = req[q].barred
    BY <1>t, <2>1 DEF RequestState, Step
  <2>4. Twins(object.email) = {}
    BY <1>2
  <2> HIDE DEF x, object
  <2>5. /\ req'[q] = x
        /\ \A p \in Request \ {q} : req'[p] = req[p]
    BY <1>t, <2>2, <2>3, OthersKept
  <2>6. Shape(q)
    BY DEF AccountsInv, Shapes
  <2>7. Passed(q) /\ Passed(q)'
    BY <1>t, <2>3, <2>5 DEF Passed, InFlight, SelectForCreate, Ended
  <2>8. OnUsers(q)' /\ Target(q)' = q /\ ~Claims(q)'
    BY <1>t, <2>3, <2>5 DEF OnUsers, Target, Claims
  <2>n. x.loaded = NoUser
    BY <2>3, <2>6 DEF SelectForCreate, Shape, Later
  <2>9. Shape(q)'
    BY <1>t, <1>u, <2>1, <2>3, <2>5, <2>6, <2>7, <2>8, <2>n DEF Shape
  <2>10. NoTwin(q)'
    BY <1>u, <2>3, <2>4, <2>5 DEF NoTwin, Twins
  <2>11. Owns(q)' => RowIsFree(q)'
    <3>1. users[q] = NoUser
      BY <1>t DEF AccountsInv, CreatedInv, InFlight, Ended
    <3>2. \A p \in Request \ {q} : Owns(p) => Target(p) # q
      <4> SUFFICES ASSUME NEW p \in Request \ {q}, Owns(p), Target(p) = q PROVE FALSE
        OBVIOUS
      <4>1. req[p].op.kind = "update_user" /\ req[p].op.user = q /\ Later(p)
        BY DEF Owns, Wants, OnUsers, Target, Later, Passed, InFlight, Ended
      <4>2. Shape(p)
        BY DEF AccountsInv, Shapes
      <4> QED
        BY <3>1, <4>1, <4>2 DEF Shape
    <3>3. \A p \in Request \ {q} : Owns(p)' = Owns(p) /\ Target(p)' = Target(p)
      BY <2>5 DEF Owns, Wants, Writes, OnUsers, Target
    <3> QED
      BY <2>8, <3>2, <3>3 DEF RowIsFree
  <2>12. ~x.barred
    BY <2>3, <2>7 DEF AccountsInv, BarredInv, Barred, Passed, InFlight
  <2> QED
    BY <1>t, <1>u, <2>2, <2>3, <2>8, <2>9, <2>10, <2>11, <2>12, LocalKeeps
<1> QED
  BY <1>1, <1>2

\* An update works on the row in the table, or on the actor's own as the guard
\* has read it.
LEMMA UpdateKeeps == ASSUME AccountsInv, NEW q \in Request, SelectForUpdate(q) PROVE AccountsInv'
<1> DEFINE op == req[q].op
           old == IF op.user = req[q].actor THEN req[q].me ELSE users[op.user]
           object == [f \in DOMAIN old |-> IF f \in DOMAIN op.sent THEN op.sent[f] ELSE old[f]]
           s(others) == IF object # old \/ others THEN "dirty" ELSE "flushed"
           x(others) == [req[q] EXCEPT !.step = s(others), !.loaded = old,
                                       !.object = object, !.others = others]
<1>t. TypeOK /\ req[q] \in RequestState /\ InFlight(q) /\ req[q].op.kind = "update_user"
  BY DEF AccountsInv, TypeOK, SelectForUpdate, InFlight, Ended
<1>u. UNCHANGED <<users, roles, audit, raced, renamed>>
  BY DEF SelectForUpdate
<1>1. CASE old = NoUser \/ roles[object.role] = NoRole
  BY <1>t, <1>u, <1>1, FailKeeps DEF SelectForUpdate
<1>2. CASE ~(old = NoUser \/ roles[object.role] = NoRole)
  <2>6. Shape(q)
    BY DEF AccountsInv, Shapes
  <2>7. Passed(q)
    BY <1>t DEF Passed, InFlight, SelectForUpdate
  <2>1. old \in User /\ users[op.user] # NoUser
    <3>1. users[op.user] \in User \cup {NoUser}
      BY <1>t DEF TypeOK, RequestState, Operation
    <3> QED
      BY <1>2, <2>6, <2>7, <3>1 DEF Shape
  <2>2. object \in User
    <3>1. op \in Operation
      BY <1>t DEF RequestState
    <3>2. DOMAIN old = {"email", "role", "status"}
      BY <2>1 DEF User
    <3> HIDE DEF old, op
    <3>3. object = [email |-> IF "email" \in DOMAIN op.sent THEN op.sent["email"] ELSE old.email,
                    role |-> IF "role" \in DOMAIN op.sent THEN op.sent["role"] ELSE old.role,
                    status |-> IF "status" \in DOMAIN op.sent THEN op.sent["status"] ELSE old.status]
      BY <3>2
    <3>4. WellFormed(op) /\ old.email \in Email /\ old.role \in Role /\ old.status \in Status
      BY <2>1, <3>1 DEF Operation, User
    <3> HIDE DEF object
    <3>5. /\ (IF "email" \in DOMAIN op.sent THEN op.sent["email"] ELSE old.email) \in Email
          /\ (IF "role" \in DOMAIN op.sent THEN op.sent["role"] ELSE old.role) \in Role
          /\ (IF "status" \in DOMAIN op.sent THEN op.sent["status"] ELSE old.status) \in Status
      BY <3>4 DEF WellFormed
    <3> QED
      BY <3>3, <3>5 DEF User
  <2>3. PICK others \in {FALSE, object = old} : req' = [req EXCEPT ![q] = x(others)]
    BY <1>2 DEF SelectForUpdate
  <2> DEFINE y == x(others)
  <2>4. /\ y \in RequestState /\ y.step \in {"flushed", "dirty"}
        /\ y.step = "flushed" => y.object = y.loaded /\ ~y.others
        /\ y.object = object /\ y.loaded = old
        /\ y.me = req[q].me /\ y.actor = req[q].actor
        /\ y.op = req[q].op /\ y.barred = req[q].barred
    <3> DEFINE t == s(others)
    <3>1. t \in {"flushed", "dirty"} /\ (t = "flushed" => object = old /\ ~others)
      OBVIOUS
    <3>2. others \in BOOLEAN
      OBVIOUS
    <3>3. y = [req[q] EXCEPT !.step = t, !.loaded = old, !.object = object, !.others = others]
      OBVIOUS
    <3> HIDE DEF y, t, s, x, object, old
    <3>4. t \in Step
      BY <3>1 DEF Step
    <3>5. y \in RequestState
      BY <1>t, <2>1, <2>2, <3>2, <3>3, <3>4 DEF RequestState
    <3> QED
      BY <1>t, <3>1, <3>3, <3>5 DEF RequestState
  <2>p. req' = [req EXCEPT ![q] = y]
    BY <2>3
  <2> HIDE DEF x, y, s, object, old
  <2>5. req'[q] = y
    BY <1>t, <2>p, <2>4, OthersKept
  <2>8. Passed(q)' /\ Later(q)'
    BY <2>4, <2>5 DEF Passed, Later, InFlight, Ended
  <2>9. Shape(q)'
    BY <1>t, <1>u, <2>1, <2>2, <2>4, <2>5, <2>6, <2>7, <2>8 DEF Shape, OnUsers
  <2>10. ~Owns(q)' /\ ~Claims(q)'
    BY <1>t, <2>4, <2>5 DEF Owns, Wants, Writes, OnUsers, Claims, Rekeys, Renames
  <2>11. ~y.barred
    BY <2>4, <2>7 DEF AccountsInv, BarredInv, Barred, Passed, InFlight
  <2>12. y.op.kind # "create_user"
    BY <1>t, <2>4
  <2> QED
    BY <1>t, <1>u, <2>p, <2>4, <2>9, <2>10, <2>11, <2>12, LocalKeeps
<1> QED
  BY <1>1, <1>2

\* What is saved of a role is a matrix, null and the empty one included.
LEMMA SavedIsMatrix ==
  ASSUME NEW q \in Request, req[q].op \in Operation, NEW was \in Matrix \cup {NoRole},
         was = NoRole => req[q].op.kind = "upsert_role"
  PROVE  Saved(q, was) \in Matrix
<1>1. req[q].op.perms \in Matrix \cup {Null}
  BY DEF Operation
<1>2. CASE was = NoRole /\ req[q].op.perms \in {Null, {}}
  <2>1. Saved(q, was) = DefaultPermissionsFor(req[q].op.role)
    BY <1>2 DEF Saved
  <2> QED
    BY <2>1, DefaultsAreMatrices
<1>3. CASE was # NoRole /\ req[q].op.perms = Null
  <2>1. Saved(q, was) = was
    BY <1>3 DEF Saved
  <2> QED
    BY <1>3, <2>1
<1>4. CASE req[q].op.perms \in Matrix /\ ~(was = NoRole /\ req[q].op.perms \in {Null, {}})
  <2>1. req[q].op.perms # Null
    BY <1>4, NothingIsNothing
  <2>2. Saved(q, was) = req[q].op.perms
    BY <1>4, <2>1 DEF Saved
  <2> QED
    BY <1>4, <2>2
<1> QED
  BY <1>1, <1>2, <1>3, <1>4

LEMMA RoleKeeps == ASSUME AccountsInv, NEW q \in Request, SelectRole(q) PROVE AccountsInv'
<1> DEFINE op == req[q].op
           old == IF op.role = req[q].me.role THEN req[q].mine ELSE roles[op.role]
           perms == Saved(q, old)
           s(others) == IF old = NoRole THEN "locked"
                        ELSE IF perms # old \/ others THEN "dirty" ELSE "flushed"
           x(others) == [req[q] EXCEPT !.step = s(others), !.was = old, !.perms = perms,
                                       !.others = others]
<1>t. /\ TypeOK /\ req[q] \in RequestState /\ InFlight(q)
      /\ req[q].op.kind \in {"upsert_role", "update_role_permissions"}
  BY DEF AccountsInv, TypeOK, SelectRole, InFlight, Ended
<1>u. UNCHANGED <<users, roles, audit, raced, renamed>>
  BY DEF SelectRole
<1>1. CASE old = NoRole /\ op.kind = "update_role_permissions"
  BY <1>t, <1>u, <1>1, FailKeeps DEF SelectRole
<1>2. CASE ~(old = NoRole /\ op.kind = "update_role_permissions")
  <2>1. old \in Matrix \cup {NoRole}
    BY <1>t DEF TypeOK, RequestState, Operation
  <2>2. perms \in Matrix
    <3>1. op \in Operation
      BY <1>t DEF RequestState
    <3> QED
      BY <1>t, <1>2, <2>1, <3>1, SavedIsMatrix
  <2>3. PICK others \in {FALSE, op.kind = "upsert_role" /\ perms = old} :
            req' = [req EXCEPT ![q] = x(others)]
    BY <1>2 DEF SelectRole
  <2> DEFINE y == x(others)
  <2>4. /\ y \in RequestState /\ y.step \in {"locked", "flushed", "dirty"}
        /\ y.perms = perms /\ y.me = req[q].me /\ y.actor = req[q].actor
        /\ y.op = req[q].op /\ y.barred = req[q].barred
    <3> DEFINE t == s(others)
    <3>1. t \in {"locked", "flushed", "dirty"}
      OBVIOUS
    <3>2. others \in BOOLEAN
      OBVIOUS
    <3>3. y = [req[q] EXCEPT !.step = t, !.was = old, !.perms = perms, !.others = others]
      OBVIOUS
    <3> HIDE DEF y, t, s, x, perms, old
    <3>4. t \in Step
      BY <3>1 DEF Step
    <3>5. y \in RequestState
      BY <1>t, <2>1, <2>2, <3>2, <3>3, <3>4 DEF RequestState
    <3> QED
      BY <1>t, <3>1, <3>3, <3>5 DEF RequestState
  <2>p. req' = [req EXCEPT ![q] = y]
    BY <2>3
  <2> HIDE DEF x, y, s, perms, old
  <2>5. req'[q] = y
    BY <1>t, <2>p, <2>4, OthersKept
  <2>6. Shape(q) /\ Passed(q) /\ Passed(q)' /\ Later(q)'
    BY <1>t, <2>4, <2>5 DEF AccountsInv, Shapes, Passed, Later, InFlight, SelectRole, Ended
  <2>7. ~OnUsers(q)' /\ y.op.kind # "create_user"
    BY <1>t, <2>4, <2>5 DEF OnUsers
  <2>8. Shape(q)'
    BY <1>t, <1>u, <2>2, <2>4, <2>5, <2>6, <2>7 DEF Shape
  <2>9. ~Owns(q)' /\ ~Claims(q)'
    BY <1>t, <2>4, <2>5, <2>7 DEF Owns, Wants, Claims, Rekeys, Renames
  <2>10. ~y.barred
    BY <2>4, <2>6 DEF AccountsInv, BarredInv, Barred, Passed, InFlight
  <2> QED
    BY <1>t, <1>u, <2>p, <2>4, <2>7, <2>8, <2>9, <2>10, LocalKeeps
<1> QED
  BY <1>1, <1>2

-----------------------------------------------------------------------------
\* The flush waits for whoever has the row or the key.
LEMMA LockKeeps == ASSUME AccountsInv, NEW q \in Request, LockRow(q) PROVE AccountsInv'
<1> DEFINE s == IF OnUsers(q) /\ Renames(q) THEN "locked" ELSE "flushed"
<1>1. Later(q) /\ Moves(q, s) /\ UNCHANGED <<users, roles, audit, raced, renamed>>
  BY DEF LockRow, Later, Passed, InFlight, Ended
<1>2. Wants(q) => RowIsFree(q)
  <2> SUFFICES ASSUME Wants(q), NEW p \in Request \ {q}, Owns(p) PROVE Target(p) # Target(q)
    BY DEF RowIsFree
  <2>1. ~RowWait(q, p)
    BY DEF LockRow, Waiting, Waits
  <2>2. Holds(p) /\ OnUsers(p) /\ OnUsers(q)
    BY DEF Owns, Wants, Holds
  <2> QED
    BY <2>1, <2>2 DEF RowWait, SameRow, LockRow
<1>3. s # "locked" => ~Rekeys(q)
  <2>1. Renames(q) => OnUsers(q)
    BY DEF Renames, OnUsers
  <2>2. req[q].op.kind # "create_user"
    BY DEF AccountsInv, Shapes, Shape, LockRow
  <2> QED
    BY <2>1, <2>2 DEF Rekeys
<1> QED
  BY <1>1, <1>2, <1>3, MoveKeeps

LEMMA ClaimKeeps == ASSUME AccountsInv, NEW q \in Request, ClaimKey(q) PROVE AccountsInv'
<1>u. /\ Later(q) /\ req[q].step = "locked"
      /\ UNCHANGED <<users, roles, audit, raced, renamed>>
  BY DEF ClaimKey, Later, Passed, InFlight, Ended
<1>1. CASE Taken(q)
  BY <1>u, <1>1, FailKeeps DEF ClaimKey, Later, Passed
<1>2. CASE ~Taken(q)
  <2>1. Wants(q) => RowIsFree(q)
    BY <1>u DEF AccountsInv, RowFree, Owns
  <2>2. Rekeys(q) => KeyIsFree(q)
    <3> SUFFICES ASSUME Rekeys(q) PROVE KeyIsFree(q)
      OBVIOUS
    <3>1. OnUsers(q)
      BY DEF Rekeys, Renames, OnUsers
    <3>2. \A v \in UserId \ {Target(q)} : users[v].email # req[q].object.email
      BY <1>2, <3>1 DEF Taken
    <3>3. ASSUME NEW p \in Request \ {q}, Claims(p)
          PROVE  req[p].object.email # req[q].object.email
      <4>1. OnUsers(p) /\ Later(p)
        BY <3>3 DEF Claims, Rekeys, Renames, OnUsers, Later, Passed, InFlight, Ended
      <4>2. Shape(p)
        BY DEF AccountsInv, Shapes
      <4>3. req[p].op.kind = "create_user" => Writes(p)
        <5>1. req[p].op.kind = "create_user" =>
                req[p].object \in User /\ req[p].loaded = NoUser
          BY <4>1, <4>2 DEF Shape
        <5> QED
          BY <4>1, <5>1, NothingIsNothing DEF Writes
      <4>4. Renames(p) => Writes(p)
        BY <4>1 DEF Renames, Writes
      <4>5. Writes(p)
        BY <3>3, <4>3, <4>4 DEF Claims, Rekeys
      <4>6. Holds(p) /\ req[p].step # "locked"
        BY <3>3, <4>5 DEF Claims, Holds
      <4>7. ~KeyWait(q, p)
        BY DEF ClaimKey, Waiting, Waits
      <4> QED
        BY <1>u, <3>1, <4>1, <4>6, <4>7 DEF KeyWait
    <3> QED
      BY <3>2, <3>3 DEF KeyIsFree
  <2> QED
    BY <1>u, <1>2, <2>1, <2>2, MoveKeeps DEF ClaimKey
<1> QED
  BY <1>1, <1>2

LEMMA AuditKeeps == ASSUME AccountsInv, NEW q \in Request, RecordAudit(q) PROVE AccountsInv'
<1>1. /\ Later(q) /\ req[q].step = "flushed" /\ Moves(q, "audited")
      /\ UNCHANGED <<users, roles, audit, raced, renamed>>
  BY DEF RecordAudit, Later, Passed, InFlight, Ended
<1>2. Wants(q) => RowIsFree(q)
  BY <1>1 DEF AccountsInv, RowFree, Owns
<1>3. Rekeys(q) => KeyIsFree(q)
  BY <1>1 DEF AccountsInv, KeyFree, Claims
<1> QED
  BY <1>1, <1>2, <1>3, MoveKeeps

LEMMA AbortKeeps == ASSUME AccountsInv, NEW q \in Request, Abort(q) PROVE AccountsInv'
  BY FailKeeps DEF Abort, InFlight

\* Only those that wait are in a circle, and who waits is in flight.
LEMMA BreakKeeps == ASSUME AccountsInv, BreakDeadlock PROVE AccountsInv'
<1>1. PICK q \in Request : Deadlocked(q) /\ Ends(q, "failed")
  BY DEF BreakDeadlock
<1>2. PICK p \in Request : Waits(q, p)
  BY <1>1 DEF Deadlocked, Waiting
<1>3. InFlight(q)
  BY <1>2 DEF Waits, RowWait, KeyWait, AuditWait, InFlight, Ended
<1> QED
  BY <1>1, <1>3, FailKeeps DEF BreakDeadlock

-----------------------------------------------------------------------------
\* A request comes in; from here on it may overlap with others.
LEMMA ArriveKeeps == ASSUME AccountsInv, NEW q \in Request, Arrive(q) PROVE AccountsInv'
<1>1. PICK a \in UserId, op \in Asked :
        req' = [req EXCEPT ![q] = [Idle EXCEPT !.step = "guard", !.actor = a, !.op = op,
                    !.barred = ~Admits(users, roles, a, op.kind)]]
  BY DEF Arrive
<1> DEFINE x == [Idle EXCEPT !.step = "guard", !.actor = a, !.op = op,
                             !.barred = ~Admits(users, roles, a, op.kind)]
<1>t. TypeOK /\ req[q].step = "new"
  BY DEF AccountsInv, Arrive
<1>u. /\ UNCHANGED <<users, roles, audit, renamed>>
      /\ raced' = (raced \/ \E p \in Request : InFlight(p))
  BY DEF Arrive, InFlight
<1>2. op \in Operation /\ Admits(users, roles, a, op.kind) \in BOOLEAN
  BY AccountsAssumption DEF Admits
<1>3. /\ x \in RequestState /\ x.step = "guard" /\ x.actor = a /\ x.op = op
      /\ x.loaded = NoUser
      /\ x.barred = ~Admits(users, roles, a, op.kind)
  BY <1>2, IdleIsState DEF RequestState, Step, Idle
<1>4. req' = [req EXCEPT ![q] = x]
  BY <1>1
<1> HIDE DEF x
<1>5. /\ req' \in [Request -> RequestState]
      /\ req'[q] = x
      /\ \A p \in Request \ {q} : req'[p] = req[p]
  BY <1>t, <1>3, <1>4, OthersKept
<1>6. ~Passed(q)' /\ ~Later(q)' /\ ~Owns(q)' /\ ~Claims(q)'
  BY <1>3, <1>5 DEF Passed, Later, Owns, Claims
<1>7. \A p \in Request \ {q} :
        /\ Owns(p)' = Owns(p) /\ Claims(p)' = Claims(p) /\ Target(p)' = Target(p)
        /\ Shape(p)' = Shape(p) /\ NoTwin(p)' = NoTwin(p) /\ Barred(p)' = Barred(p)
        /\ Later(p)' = Later(p) /\ InFlight(p)' = InFlight(p)
  BY <1>u, <1>5, OthersSee
<1>8. TypeOK'
  BY <1>t, <1>u, <1>5 DEF TypeOK
<1>9. Shapes'
  <2>1. Shape(q)'
    BY <1>3, <1>5, <1>6 DEF Shape
  <2> QED
    BY <1>7, <2>1 DEF AccountsInv, Shapes
<1>10. CreatedInv'
  BY <1>t, <1>u, <1>5 DEF AccountsInv, CreatedInv
<1>11. BarredInv'
  <2>1. Barred(q)'
    BY <1>u, <1>3, <1>5 DEF Barred
  <2> QED
    BY <1>7, <2>1 DEF AccountsInv, BarredInv
<1>12. AuditInv'
  <2>1. \A e \in audit : e.request \in Request /\ e.request # q
    BY <1>t DEF AccountsInv, AuditInv, TypeOK
  <2> QED
    BY <1>u, <1>5, <2>1 DEF AccountsInv, AuditInv
<1>13. RowFree'
  BY <1>6, <1>7 DEF AccountsInv, RowFree, RowIsFree
<1>14. KeyFree'
  BY <1>u, <1>5, <1>6, <1>7 DEF AccountsInv, KeyFree, KeyIsFree
<1>15. EmailsDiffer' /\ SpelledApart'
  BY <1>u DEF AccountsInv, EmailsDiffer, SpelledApart
<1>16. Alone'
  BY <1>u, <1>7 DEF AccountsInv, Alone
<1>17. CreateLooked'
  BY <1>u, <1>5, <1>6, <1>7 DEF AccountsInv, CreateLooked
<1> QED
  BY <1>8, <1>9, <1>10, <1>11, <1>12, <1>13, <1>14, <1>15, <1>16, <1>17 DEF AccountsInv

-----------------------------------------------------------------------------
\* What a commit does to the table of accounts: it adds the one it creates, or
\* writes columns of the one it edits; it removes none.
LEMMA CommitStores ==
  ASSUME AccountsInv, NEW q \in Request, Commit(q)
  PROVE  /\ users' \in [UserId -> User \cup {NoUser}]
         /\ \A u \in UserId : (u # Target(q) \/ ~OnUsers(q)) => users'[u] = users[u]
         /\ \A u \in UserId : users[u] # NoUser => users'[u] # NoUser
         /\ ~Wants(q) => users' = users
         /\ \A u \in UserId : users'[u] # NoUser =>
              \/ users[u] # NoUser /\ users'[u].email = users[u].email
              \/ /\ u = Target(q) /\ Claims(q) /\ users'[u].email = req[q].object.email
                 /\ users[u] = NoUser => u = q /\ req[q].op.kind = "create_user"
<1> DEFINE t == Target(q)
           new == Flush(users[t], req[q].loaded, req[q].object)
<1>t. /\ TypeOK /\ req[q] \in RequestState /\ req[q].step = "audited" /\ Later(q)
  BY DEF AccountsInv, TypeOK, Commit, Later, Passed, InFlight, Ended
<1>s. Shape(q)
  BY DEF AccountsInv, Shapes
<1>1. CASE ~OnUsers(q)
  <2>1. users' = users /\ ~Wants(q)
    BY <1>1 DEF Commit, Wants
  <2> QED
    BY <1>t, <1>1, <2>1 DEF TypeOK
<1>2. CASE req[q].op.kind = "create_user"
  <2>1. /\ t = q /\ OnUsers(q) /\ req[q].loaded = NoUser /\ req[q].object \in User
        /\ q \in UserId
    BY <1>t, <1>s, <1>2 DEF Target, OnUsers, Shape, UserId
  <2>2. users' = [users EXCEPT ![q] = req[q].object]
    BY <2>1 DEF Commit, Inserts
  <2>3. Claims(q) /\ Wants(q)
    BY <1>t, <1>2, <2>1, NothingIsNothing DEF Claims, Rekeys, Wants, Writes
  <2>4. users[q] = NoUser
    BY <1>t DEF AccountsInv, CreatedInv
  <2> HIDE DEF t
  <2> QED
    BY <1>t, <1>2, <2>1, <2>2, <2>3, <2>4, NothingIsNothing DEF TypeOK, t
<1>3. CASE req[q].op.kind = "update_user"
  <2>1. /\ t = req[q].op.user /\ OnUsers(q) /\ req[q].loaded \in User
        /\ req[q].object \in User /\ users[t] # NoUser
    BY <1>t, <1>s, <1>3 DEF Target, OnUsers, Shape
  <2>2. t \in UserId /\ users[t] \in User
    BY <1>t, <2>1 DEF RequestState, Operation, TypeOK
  <2>3. users' = [users EXCEPT ![t] = new]
    BY <2>1, NothingIsNothing DEF Commit, Inserts
  <2>4. new \in User
    <3>1. DOMAIN users[t] = {"email", "role", "status"}
      BY <2>2 DEF User
    <3>2. new = [email |-> IF req[q].object.email # req[q].loaded.email
                           THEN req[q].object.email ELSE users[t].email,
                 role |-> IF req[q].object.role # req[q].loaded.role
                          THEN req[q].object.role ELSE users[t].role,
                 status |-> IF req[q].object.status # req[q].loaded.status
                            THEN req[q].object.status ELSE users[t].status]
      BY <3>1 DEF Flush
    <3>3. /\ req[q].object.email \in Email /\ users[t].email \in Email
          /\ req[q].object.role \in Role /\ users[t].role \in Role
          /\ req[q].object.status \in Status /\ users[t].status \in Status
      BY <2>1, <2>2 DEF User
    <3> HIDE DEF new, t
    <3> QED
      BY <3>2, <3>3 DEF User
  <2>5. new.email = users[t].email \/ (Claims(q) /\ new.email = req[q].object.email)
    <3>1. new.email = IF req[q].object.email # req[q].loaded.email
                      THEN req[q].object.email ELSE users[t].email
      BY <2>2 DEF Flush, User
    <3> QED
      BY <1>t, <1>3, <3>1 DEF Claims, Rekeys, Renames
  <2>6. ~Wants(q) => new = users[t]
    <3> SUFFICES ASSUME ~Wants(q) PROVE new = users[t]
      OBVIOUS
    <3>1. req[q].object = req[q].loaded
      BY <2>1 DEF Wants, Writes
    <3>2. new = [c \in DOMAIN users[t] |-> users[t][c]]
      BY <3>1 DEF Flush
    <3> QED
      BY <2>2, <3>2 DEF User
  <2> HIDE DEF new, t
  <2>7. users' \in [UserId -> User \cup {NoUser}] /\ (~Wants(q) => users' = users)
    BY <1>t, <2>2, <2>3, <2>4, <2>6 DEF TypeOK
  <2>8. /\ users'[t] = new
        /\ \A u \in UserId \ {t} : users'[u] = users[u]
    BY <1>t, <2>2, <2>3 DEF TypeOK
  <2>9. new # NoUser
    BY <2>4, NothingIsNothing
  <2> QED
    BY <2>1, <2>5, <2>7, <2>8, <2>9 DEF t
<1> QED
  BY <1>1, <1>2, <1>3 DEF OnUsers

\* What a commit leaves of the other requests: all but a bar that was lifted.
LEMMA CommitLeaves ==
  ASSUME AccountsInv, NEW q \in Request, Commit(q)
  PROVE  /\ req' \in [Request -> RequestState]
         /\ req'[q] = [Idle EXCEPT !.step = "committed"]
         /\ \A p \in Request \ {q} :
              /\ req'[p].step = req[p].step /\ req'[p].actor = req[p].actor
              /\ req'[p].op = req[p].op /\ req'[p].me = req[p].me /\ req'[p].mine = req[p].mine
              /\ req'[p].loaded = req[p].loaded /\ req'[p].object = req[p].object
              /\ req'[p].was = req[p].was /\ req'[p].perms = req[p].perms
              /\ req'[p].others = req[p].others
              /\ req'[p].barred =
                   (req[p].barred /\ ~Admits(users', roles', req[p].actor, req[p].op.kind))
<1> DEFINE Left(p) == [req[p] EXCEPT !.barred =
                 @ /\ ~Admits(users', roles', req[p].actor, req[p].op.kind)]
           x == [Idle EXCEPT !.step = "committed"]
<1>1. req' = [p \in Request |-> IF p = q THEN x ELSE Left(p)]
  BY DEF Commit
<1>2. x \in RequestState
  BY IdleIsState DEF RequestState, Step, Ended
<1>3. \A p \in Request :
        /\ Left(p) \in RequestState
        /\ Left(p).step = req[p].step /\ Left(p).actor = req[p].actor
        /\ Left(p).op = req[p].op /\ Left(p).me = req[p].me /\ Left(p).mine = req[p].mine
        /\ Left(p).loaded = req[p].loaded /\ Left(p).object = req[p].object
        /\ Left(p).was = req[p].was /\ Left(p).perms = req[p].perms
        /\ Left(p).others = req[p].others
        /\ Left(p).barred =
             (req[p].barred /\ ~Admits(users', roles', req[p].actor, req[p].op.kind))
  <2> SUFFICES ASSUME NEW p \in Request
               PROVE  /\ Left(p) \in RequestState
                      /\ Left(p).step = req[p].step /\ Left(p).actor = req[p].actor
                      /\ Left(p).op = req[p].op /\ Left(p).me = req[p].me /\ Left(p).mine = req[p].mine
                      /\ Left(p).loaded = req[p].loaded /\ Left(p).object = req[p].object
                      /\ Left(p).was = req[p].was /\ Left(p).perms = req[p].perms
                      /\ Left(p).others = req[p].others
                      /\ Left(p).barred =
                           (req[p].barred /\ ~Admits(users', roles', req[p].actor, req[p].op.kind))
    OBVIOUS
  <2>1. req[p] \in RequestState
    BY DEF AccountsInv, TypeOK
  <2>2. (req[p].barred /\ ~Admits(users', roles', req[p].actor, req[p].op.kind)) \in BOOLEAN
    BY DEF Admits
  <2> QED
    BY <2>1, <2>2 DEF RequestState
<1> HIDE DEF Left, x
<1>4. /\ req' \in [Request -> RequestState] /\ req'[q] = x
      /\ \A p \in Request \ {q} : req'[p] = Left(p)
  BY <1>1, <1>2, <1>3
<1> QED
  BY <1>3, <1>4 DEF x

\* The row and its entry, in one step.
LEMMA CommitKeeps == ASSUME AccountsInv, NEW q \in Request, Commit(q) PROVE AccountsInv'
<1>t. /\ TypeOK /\ req[q] \in RequestState /\ req[q].step = "audited" /\ Later(q)
      /\ Passed(q) /\ InFlight(q)
  BY DEF AccountsInv, TypeOK, Commit, Later, Passed, InFlight, Ended
<1>s. Shape(q)
  BY DEF AccountsInv, Shapes
<1>1. /\ users' \in [UserId -> User \cup {NoUser}]
      /\ \A u \in UserId : (u # Target(q) \/ ~OnUsers(q)) => users'[u] = users[u]
      /\ \A u \in UserId : users[u] # NoUser => users'[u] # NoUser
      /\ ~Wants(q) => users' = users
      /\ \A u \in UserId : users'[u] # NoUser =>
           \/ users[u] # NoUser /\ users'[u].email = users[u].email
           \/ /\ u = Target(q) /\ Claims(q) /\ users'[u].email = req[q].object.email
              /\ users[u] = NoUser => u = q /\ req[q].op.kind = "create_user"
  BY CommitStores
<1>2. /\ req' \in [Request -> RequestState]
      /\ req'[q] = [Idle EXCEPT !.step = "committed"]
      /\ \A p \in Request \ {q} :
           /\ req'[p].step = req[p].step /\ req'[p].actor = req[p].actor
           /\ req'[p].op = req[p].op /\ req'[p].me = req[p].me
           /\ req'[p].loaded = req[p].loaded /\ req'[p].object = req[p].object
           /\ req'[p].was = req[p].was /\ req'[p].perms = req[p].perms
           /\ req'[p].others = req[p].others
           /\ req'[p].barred =
                (req[p].barred /\ ~Admits(users', roles', req[p].actor, req[p].op.kind))
  BY CommitLeaves
<1>3. /\ req'[q].step = "committed" /\ req'[q].loaded = NoUser /\ ~req'[q].barred
      /\ ~InFlight(q)' /\ ~Passed(q)' /\ ~Later(q)' /\ ~Owns(q)' /\ ~Claims(q)'
  <2>1. req'[q].step = "committed" /\ req'[q].loaded = NoUser /\ ~req'[q].barred
    BY <1>2, IdleIsState DEF Idle, RequestState
  <2> QED
    BY <2>1 DEF InFlight, Passed, Later, Owns, Claims, Ended
<1>4. \A p \in Request \ {q} :
        /\ OnUsers(p)' = OnUsers(p) /\ Target(p)' = Target(p) /\ Owns(p)' = Owns(p)
        /\ InFlight(p)' = InFlight(p) /\ Passed(p)' = Passed(p) /\ Later(p)' = Later(p)
  <2> SUFFICES ASSUME NEW p \in Request \ {q}
               PROVE  /\ OnUsers(p)' = OnUsers(p) /\ Target(p)' = Target(p)
                      /\ Owns(p)' = Owns(p) /\ InFlight(p)' = InFlight(p)
                      /\ Passed(p)' = Passed(p) /\ Later(p)' = Later(p)
    OBVIOUS
  <2>1. OnUsers(p)' = OnUsers(p) /\ Target(p)' = Target(p)
    BY <1>2 DEF OnUsers, Target
  <2>2. Owns(p)' = Owns(p)
    BY <1>2, <2>1 DEF Owns, Wants, Writes
  <2> QED
    BY <1>2, <2>1, <2>2 DEF InFlight, Passed, Later
<1>5. \A p \in Request \ {q} : Claims(p)' => Claims(p)
  <2> SUFFICES ASSUME NEW p \in Request \ {q}, Claims(p)', ~Renames(p),
                      req[p].op.kind = "update_user"
               PROVE  FALSE
    BY <1>2 DEF Claims, Rekeys, Renames
  <2>1. /\ req[p].object.email # req[p].loaded.email
        /\ req[p].object.email # users'[Target(p)].email
        /\ req[p].step \in {"flushed", "audited"}
    BY <1>2, <1>4 DEF Claims, Rekeys, Renames
  <2>2. users'[Target(p)] # users[Target(p)]
    BY <2>1 DEF Renames
  <2>3. Owns(p)
    BY <2>1 DEF Owns, Wants, Writes, OnUsers
  <2>4. Target(p) \in UserId
    BY <1>t DEF TypeOK, RequestState, Operation, Target
  <2>5. Target(p) = Target(q) /\ Owns(q)
    BY <1>1, <1>t, <2>2, <2>4 DEF Owns
  <2> QED
    BY <2>3, <2>5 DEF AccountsInv, RowFree, RowIsFree
<1>6. TypeOK'
  <2>1. roles' \in [Role -> Matrix \cup {NoRole}]
    <3>1. CASE OnUsers(q) \/ req[q].perms = req[q].was
      BY <1>t, <3>1 DEF Commit, TypeOK
    <3>2. CASE ~(OnUsers(q) \/ req[q].perms = req[q].was)
      <4>1. req[q].perms \in Matrix
        BY <1>t, <1>s, <3>2 DEF Shape
      <4>2. roles' = [roles EXCEPT ![req[q].op.role] = req[q].perms]
        BY <3>2 DEF Commit
      <4> QED
        BY <1>t, <4>1, <4>2 DEF TypeOK
    <3> QED
      BY <3>1, <3>2
  <2>2. Entry(q) \in [request : Request, actor : Email, kind : Kind, target : UserId \cup Role]
    <3>1. req[q].me.email \in Email
      BY <1>t, <1>s DEF Shape, User
    <3>2. req[q].op.kind \in Kind /\ req[q].op.user \in UserId /\ req[q].op.role \in Role
      BY <1>t DEF RequestState, Operation
    <3>3. Target(q) \in UserId
      BY <3>2 DEF Target, UserId
    <3> QED
      BY <3>1, <3>2, <3>3 DEF Entry
  <2>3. renamed' \in BOOLEAN /\ raced' \in BOOLEAN
    BY <1>t DEF Commit, TypeOK, Renames
  <2> QED
    BY <1>t, <1>1, <1>2, <2>1, <2>2, <2>3 DEF TypeOK, Commit
<1>7. Shapes'
  <2>1. Shape(q)'
    BY <1>3 DEF Shape
  <2>2. ASSUME NEW p \in Request \ {q} PROVE Shape(p)'
    <3>1. Shape(p) /\ req[p] \in RequestState
      BY <1>t DEF AccountsInv, Shapes, TypeOK
    <3>2. req[p].actor \in UserId /\ req[p].op.user \in UserId
      BY <3>1 DEF RequestState, Operation
    <3> QED
      BY <1>1, <1>2, <1>4, <3>1, <3>2 DEF Shape
  <2> QED
    BY <2>1, <2>2 DEF Shapes
<1>8. CreatedInv'
  <2>1. \A p \in Request : p \in UserId
    BY DEF UserId
  <2>2. \A p \in Request \ {q} : users'[p] # NoUser => users[p] # NoUser
    BY <1>1, <2>1
  <2>3. \A p \in Request \ {q} : req'[p].step = req[p].step
    BY <1>2
  <2>4. req'[q].step = "committed"
    BY <1>3
  <2> QED
    BY <2>2, <2>3, <2>4 DEF AccountsInv, CreatedInv
<1>9. BarredInv'
  <2>1. Barred(q)'
    BY <1>3 DEF Barred
  <2>2. \A p \in Request \ {q} : Barred(p)'
    BY <1>2 DEF AccountsInv, BarredInv, Barred
  <2> QED
    BY <2>1, <2>2 DEF BarredInv
<1>10. AuditInv'
  <2>1. \A e \in audit : e.request \in Request /\ e.request # q
    BY <1>t DEF AccountsInv, AuditInv, TypeOK
  <2>2. audit' = audit \cup {Entry(q)} /\ Entry(q).request = q
    BY DEF Commit, Entry
  <2> QED
    BY <1>2, <1>3, <2>1, <2>2 DEF AccountsInv, AuditInv
<1>11. RowFree'
  BY <1>3, <1>4 DEF AccountsInv, RowFree, RowIsFree
<1>12. KeyFree'
  <2> SUFFICES ASSUME NEW p \in Request \ {q}, Claims(p)' PROVE KeyIsFree(p)'
    BY <1>3 DEF KeyFree
  <2>1. Claims(p) /\ KeyIsFree(p) /\ Later(p) /\ OnUsers(p)
    BY <1>5 DEF AccountsInv, KeyFree, Claims, Rekeys, Renames, OnUsers, Later, Passed,
                InFlight, Ended
  <2>2. req[p].object.email \in Email
    BY <2>1 DEF AccountsInv, Shapes, Shape, User
  <2>3. \A u \in UserId \ {Target(p)} : users'[u].email # req[p].object.email
    <3> SUFFICES ASSUME NEW u \in UserId \ {Target(p)}
                 PROVE  users'[u].email # req[p].object.email
      OBVIOUS
    <3>1. CASE users'[u] = NoUser
      BY <2>2, <3>1, AccountsAssumption DEF NoUser
    <3>2. CASE users'[u].email = users[u].email
      BY <2>1, <3>2 DEF KeyIsFree
    <3>3. CASE Claims(q) /\ users'[u].email = req[q].object.email
      BY <2>1, <3>3 DEF KeyIsFree
    <3> QED
      BY <1>1, <3>1, <3>2, <3>3
  <2>4. \A r \in Request \ {p} : Claims(r)' => req'[r].object.email # req'[p].object.email
    BY <1>2, <1>3, <1>5, <2>1 DEF KeyIsFree
  <2> QED
    BY <1>2, <1>4, <2>3, <2>4 DEF KeyIsFree
<1>13. EmailsDiffer'
  <2> SUFFICES ASSUME NEW u \in UserId, NEW v \in UserId, u # v,
                      users'[u] # NoUser, users'[v] # NoUser
               PROVE  users'[u].email # users'[v].email
    BY DEF EmailsDiffer
  <2>1. Claims(q) => \A w \in UserId \ {Target(q)} : users[w].email # req[q].object.email
    BY DEF AccountsInv, KeyFree, KeyIsFree
  <2> QED
    BY <1>1, <2>1 DEF AccountsInv, EmailsDiffer
<1>14. Alone'
  BY <1>3, <1>4 DEF AccountsInv, Alone, Commit
<1>15. CreateLooked'
  <2>1. ~raced' => \A p \in Request \ {q} : ~Later(p)'
    BY <1>t, <1>4 DEF AccountsInv, Alone, Commit, Later, Passed
  <2> QED
    BY <1>3, <2>1 DEF CreateLooked
<1>16. SpelledApart'
  <2> SUFFICES ASSUME ~raced', ~renamed',
                      NEW u \in UserId, NEW v \in UserId, u # v,
                      users'[u] # NoUser, users'[v] # NoUser
               PROVE  Lower[users'[u].email] # Lower[users'[v].email]
    BY DEF SpelledApart
  <2>1. ~raced /\ ~renamed /\ ~Renames(q)
    BY DEF Commit
  <2>2. Claims(q) => NoTwin(q)
    BY <1>t, <2>1 DEF AccountsInv, CreateLooked, Claims, Rekeys
  <2>3. Claims(q) => req[q].op.kind = "create_user" /\ Target(q) = q /\ users[q] = NoUser
    BY <1>t, <2>1 DEF AccountsInv, CreatedInv, Claims, Rekeys, Target
  <2> QED
    BY <1>1, <2>1, <2>2, <2>3 DEF AccountsInv, SpelledApart, NoTwin
<1> QED
  BY <1>6, <1>7, <1>8, <1>9, <1>10, <1>11, <1>12, <1>13, <1>14, <1>15, <1>16 DEF AccountsInv

-----------------------------------------------------------------------------
LEMMA InitHolds == Init => AccountsInv
<1> SUFFICES ASSUME Init PROVE AccountsInv
  OBVIOUS
<1>1. TypeOK
  <2>1. users \in [UserId -> User \cup {NoUser}]
    BY AccountsAssumption DEF Init, User, Status
  <2>2. roles \in [Role -> Matrix \cup {NoRole}]
    BY DefaultsAreMatrices DEF Init
  <2>3. req \in [Request -> RequestState]
    BY IdleIsState DEF Init
  <2> QED
    BY <2>1, <2>2, <2>3 DEF Init, TypeOK
<1>2. \A q \in Request : /\ req[q].step = "new" /\ req[q].loaded = NoUser
                          /\ ~req[q].barred
                          /\ ~InFlight(q) /\ ~Passed(q) /\ ~Later(q)
                          /\ ~Owns(q) /\ ~Claims(q)
  <2>1. \A q \in Request : req[q].step = "new" /\ req[q].loaded = NoUser /\ ~req[q].barred
    BY DEF Init, Idle
  <2> QED
    BY <2>1 DEF InFlight, Passed, Later, Owns, Claims
<1>3. \A u \in UserId : users[u] # NoUser => u \in Admin /\ users[u].email = Given[u]
  BY DEF Init
<1>4. Shapes /\ BarredInv /\ AuditInv /\ RowFree /\ KeyFree /\ Alone /\ CreateLooked
  BY <1>2 DEF Init, Shapes, Shape, BarredInv, Barred, AuditInv, RowFree, KeyFree, Alone,
              CreateLooked
<1>5. CreatedInv
  BY <1>3, AccountsAssumption DEF CreatedInv, UserId
<1>6. EmailsDiffer /\ SpelledApart
  BY <1>3, AccountsAssumption DEF EmailsDiffer, SpelledApart
<1> QED
  BY <1>1, <1>4, <1>5, <1>6 DEF AccountsInv

LEMMA NextKeeps == AccountsInv /\ [Next]_vars => AccountsInv'
<1> SUFFICES ASSUME AccountsInv, [Next]_vars PROVE AccountsInv'
  OBVIOUS
<1>1. ASSUME NEW q \in Request, Arrive(q) PROVE AccountsInv'
  BY <1>1, ArriveKeeps
<1>2. ASSUME NEW q \in Request, Handle(q) PROVE AccountsInv'
  <2>1. CASE Guard(q)
    BY <2>1, GuardKeeps
  <2>2. CASE SelectForCreate(q)
    BY <2>2, CreateKeeps
  <2>3. CASE SelectForUpdate(q)
    BY <2>3, UpdateKeeps
  <2>4. CASE SelectRole(q)
    BY <2>4, RoleKeeps
  <2>5. CASE LockRow(q)
    BY <2>5, LockKeeps
  <2>6. CASE ClaimKey(q)
    BY <2>6, ClaimKeeps
  <2>7. CASE RecordAudit(q)
    BY <2>7, AuditKeeps
  <2>8. CASE Commit(q)
    BY <2>8, CommitKeeps
  <2> QED
    BY <1>2, <2>1, <2>2, <2>3, <2>4, <2>5, <2>6, <2>7, <2>8 DEF Handle
<1>3. ASSUME NEW q \in Request, Abort(q) PROVE AccountsInv'
  BY <1>3, AbortKeeps
<1>4. CASE BreakDeadlock
  BY <1>4, BreakKeeps
<1>5. CASE UNCHANGED vars
  <2>1. /\ users' = users /\ roles' = roles /\ audit' = audit /\ req' = req
        /\ raced' = raced /\ renamed' = renamed
    BY <1>5 DEF vars
  <2>2. \A q \in Request :
          /\ Owns(q)' = Owns(q) /\ Claims(q)' = Claims(q) /\ Target(q)' = Target(q)
          /\ Shape(q)' = Shape(q) /\ NoTwin(q)' = NoTwin(q) /\ Barred(q)' = Barred(q)
          /\ Later(q)' = Later(q) /\ InFlight(q)' = InFlight(q)
    BY <2>1, OthersSee
  <2>3. TypeOK'
    BY <2>1 DEF AccountsInv, TypeOK
  <2>4. Shapes' /\ BarredInv' /\ CreatedInv' /\ AuditInv' /\ EmailsDiffer' /\ SpelledApart'
    BY <2>1, <2>2 DEF AccountsInv, Shapes, BarredInv, CreatedInv, AuditInv, EmailsDiffer,
                      SpelledApart
  <2>5. RowFree' /\ KeyFree'
    BY <2>1, <2>2 DEF AccountsInv, RowFree, RowIsFree, KeyFree, KeyIsFree
  <2>6. Alone' /\ CreateLooked'
    BY <2>1, <2>2 DEF AccountsInv, Alone, CreateLooked
  <2> QED
    BY <2>3, <2>4, <2>5, <2>6 DEF AccountsInv
<1> QED
  BY <1>1, <1>2, <1>3, <1>4, <1>5 DEF Next

LEMMA AccountsInvHolds == Spec => []AccountsInv
  BY InitHolds, NextKeeps, PTL DEF Spec

\* Type correctness of the tables, the trail and the requests in flight.
THEOREM AccountsTypeCorrect == Spec => []TypeOK
<1>1. AccountsInv => TypeOK
  BY DEF AccountsInv
<1> QED
  BY <1>1, AccountsInvHolds, PTL

\* However many requests overlap, one that came in without the right it needs
\* gets past no guard while it lacks it (get_current_principal, require).
THEOREM NoActionAfterWithdrawalHolds == Spec => []NoActionAfterWithdrawal
<1>1. AccountsInv => NoActionAfterWithdrawal
  BY DEF AccountsInv, BarredInv, Barred, NoActionAfterWithdrawal
<1> QED
  BY <1>1, AccountsInvHolds, PTL

\* For any addresses and spellings: equal ones never, twins only after an
\* overlap or a change of address (create_user, update_user, users.email).
THEOREM TwinsNeedRaceOrRenameHolds == Spec => []TwinsNeedRaceOrRename
<1>1. AccountsInv => TwinsNeedRaceOrRename
  BY DEF AccountsInv, EmailsDiffer, SpelledApart, TwinsNeedRaceOrRename
<1> QED
  BY <1>1, AccountsInvHolds, PTL

\* Without a rename a wait leads from a request that wants a row to one that
\* has it, from there to one that has its key as well, and no further: no
\* circle of any length closes.
THEOREM OnlyRenamesDeadlockHolds == Spec => []OnlyRenamesDeadlock
<1>1. OnlyRenamesDeadlock
  <2> SUFFICES ASSUME NEW q \in Request, Deadlocked(q),
                      \A p \in Request : ~(OnUsers(p) /\ Renames(p))
               PROVE  FALSE
    BY DEF OnlyRenamesDeadlock
  <2>1. \A p \in Request : ~Renames(p)
    BY DEF Renames, OnUsers
  <2>2. PICK S \in SUBSET Request : q \in S /\ \A x \in S : \E y \in S : Waits(x, y)
    BY DEF Deadlocked
  <2>3. \A x, y \in Request : Waits(x, y) => Holds(y) /\ req[x].step \in {"dirty", "locked"}
    BY <2>1 DEF Waits, RowWait, KeyWait, AuditWait
  <2>4. \A x, y \in Request : (Waits(x, y) /\ req[x].step = "locked") => req[y].step # "locked"
    BY <2>1 DEF Waits, RowWait, KeyWait, AuditWait
  <2>5. \A x \in Request : Holds(x) => req[x].step # "dirty"
    BY DEF Holds
  <2>6. PICK y \in S : Waits(q, y)
    BY <2>2
  <2>7. PICK z \in S : Waits(y, z)
    BY <2>2
  <2>8. PICK w \in S : Waits(z, w)
    BY <2>2
  <2> QED
    BY <2>2, <2>3, <2>4, <2>5, <2>6, <2>7, <2>8
<1> QED
  BY <1>1, PTL

\* Every committed change has its entry and every entry its committed change,
\* rolled back and deadlocked requests included (record_audit, get_session).
THEOREM AuditIsExactHolds == Spec => AuditIsExact
<1> DEFINE Exact ==
      /\ \A u \in UserId : users'[u] # users[u] => \E e \in audit' \ audit : e.target = u
      /\ \A r \in Role : roles'[r] # roles[r] => \E e \in audit' \ audit : e.target = r
      /\ \A e \in audit' \ audit :
             req[e.request].step = "audited" /\ req'[e.request].step = "committed"
<1>1. AccountsInv /\ [Next]_vars => [Exact]_vars
  <2> SUFFICES ASSUME AccountsInv, Next PROVE Exact
    OBVIOUS
  <2>1. CASE users' = users /\ roles' = roles /\ audit' = audit
    BY <2>1
  <2>2. ASSUME NEW q \in Request, Commit(q) PROVE Exact
    <3>1. /\ Entry(q) \notin audit /\ audit' = audit \cup {Entry(q)}
          /\ Entry(q).request = q /\ req[q].step = "audited"
          /\ Entry(q).target = IF OnUsers(q) THEN Target(q) ELSE req[q].op.role
      BY <2>2 DEF AccountsInv, AuditInv, Commit, Entry
    <3>2. req'[q].step = "committed"
      <4>1. req'[q] = [Idle EXCEPT !.step = "committed"]
        BY <2>2, CommitLeaves
      <4> QED
        BY <4>1 DEF Idle
    <3>3. \A u \in UserId : users'[u] # users[u] => OnUsers(q) /\ u = Target(q)
      BY <2>2, CommitStores
    <3>4. \A r \in Role : roles'[r] # roles[r] => ~OnUsers(q) /\ r = req[q].op.role
      BY <2>2 DEF Commit, AccountsInv, TypeOK
    <3> QED
      BY <3>1, <3>2, <3>3, <3>4
  <2>3. ASSUME NEW q \in Request, Arrive(q) \/ Abort(q) PROVE Exact
    BY <2>1, <2>3 DEF Arrive, Abort
  <2>4. ASSUME NEW q \in Request, Handle(q) PROVE Exact
    <3>1. ~Commit(q) => users' = users /\ roles' = roles /\ audit' = audit
      BY <2>4 DEF Handle, Guard, SelectForCreate, SelectForUpdate, SelectRole, LockRow,
                  ClaimKey, RecordAudit
    <3> QED
      BY <2>1, <2>2, <3>1
  <2>5. CASE BreakDeadlock
    BY <2>1, <2>5 DEF BreakDeadlock
  <2> QED
    BY <2>3, <2>4, <2>5 DEF Next
<1> QED
  BY <1>1, AccountsInvHolds, PTL DEF Spec, AuditIsExact

-----------------------------------------------------------------------------
\* What a request that has passed the guard can say for itself: its actor was
\* active and allowed; what it stores of an account is what was loaded but for
\* the columns sent; the role it gives to an account, or edits, is there.
OnAccounts(r) == r.op.kind \in {"create_user", "update_user"}
Vouched(r, rs) ==
    /\ r.step \notin Ended \cup {"new", "guard"} =>
         /\ r.me.status = "Active" /\ Allows(r.mine, r.op.kind)
         /\ r.mine # NoRole => rs[r.me.role] # NoRole
    /\ r.step \notin Ended \cup {"new", "guard", "select"} =>
         /\ r.op.kind = "update_user" => \A f \in DOMAIN r.object : r.object[f] =
                IF f \in DOMAIN r.op.sent THEN r.op.sent[f] ELSE r.loaded[f]
         /\ OnAccounts(r) => rs[r.object.role] # NoRole
         /\ ~OnAccounts(r) => /\ r.step = "dirty" => r.was # NoRole
                              /\ r.was # NoRole => /\ rs[r.op.role] # NoRole
                                                   /\ r.perms \in {r.was, r.op.perms}

\* The primary key of a role: who has inserted it finds it free to the commit.
Adding(r) == ~OnAccounts(r) /\ r.was = NoRole /\ r.step \in {"flushed", "audited"}
RoleFree == \A q \in Request : Adding(req[q]) =>
    /\ roles[req[q].op.role] = NoRole
    /\ \A p \in Request \ {q} : Adding(req[p]) => req[p].op.role # req[q].op.role

\* Every account has a role that is there (_require_role; users.role_id), so
\* the guard always has a matrix to read.
RolesExist == \A u \in UserId : users[u] # NoUser => roles[users[u].role] # NoRole

VouchInv == /\ AccountsInv /\ RoleFree /\ RolesExist
            /\ \A q \in Request : Vouched(req[q], roles)

Commits(q) == req[q].step = "audited" /\ req'[q].step = "committed"

\* Two administrators on one account, or one on their own, revert no column
\* they did not send, and a role takes only the matrix that was sent
\* (update_user, upsert_role, update_role_permissions).
OnlySentIsSaved ==
    [][ /\ \A u \in UserId : users[u] # NoUser => \A f \in DOMAIN users[u] :
             users'[u][f] # users[u][f] => \E q \in Request :
                /\ Commits(q) /\ req[q].op.kind = "update_user" /\ req[q].op.user = u
                /\ f \in DOMAIN req[q].op.sent /\ users'[u][f] = req[q].op.sent[f]
        /\ \A r \in Role : (roles[r] # NoRole /\ roles'[r] # roles[r]) => \E q \in Request :
                Commits(q) /\ ~OnUsers(q) /\ req[q].op.role = r /\ roles'[r] = req[q].op.perms ]_vars

\* What an update sent is in the account its commit leaves, but for what it
\* had loaded already; an actor's own row was loaded by the guard.
SentIsSaved ==
    [][\A q \in Request : (Commits(q) /\ req[q].op.kind = "update_user") =>
        \A f \in DOMAIN req[q].op.sent :
            \/ users'[req[q].op.user][f] = req[q].op.sent[f]
            \/ req[q].op.sent[f] = req[q].loaded[f]]_vars

\* Whatever was committed was asked for by an account that its guard had found
\* active, in a role that allowed this operation; a later withdrawal does not
\* stop the request, an earlier one does (NoActionAfterWithdrawal).
ChangesAreAdmitted ==
    [][\A q \in Request : Commits(q) =>
        req[q].me.status = "Active" /\ Allows(req[q].mine, req[q].op.kind)]_vars

\* What is vouched for stays so while roles are only added.
LEMMA VouchedStays ==
  ASSUME NEW r \in RequestState, NEW s, NEW rs, NEW ss, Vouched(r, rs),
         \A i \in Role : rs[i] # NoRole => ss[i] # NoRole,
         r.step \notin Ended \cup {"new", "guard"} => r.me \in User,
         (r.step \notin Ended \cup {"new", "guard", "select"} /\ OnAccounts(r)) =>
             r.object \in User,
         s.step = r.step, s.op = r.op, s.me = r.me, s.mine = r.mine, s.loaded = r.loaded,
         s.object = r.object, s.was = r.was, s.perms = r.perms
  PROVE  Vouched(s, ss)
<1>1. r.op.role \in Role
  BY DEF RequestState, Operation
<1>2. \A u \in User : u.role \in Role
  BY DEF User
<1> QED
  BY <1>1, <1>2 DEF Vouched, OnAccounts

\* A request that goes on inside its transaction answers for itself alone.
LEMMA LocalVouches ==
  ASSUME VouchInv, NEW q \in Request, NEW x \in RequestState,
         req' = [req EXCEPT ![q] = x], users' = users, roles' = roles, AccountsInv',
         Vouched(x, roles),
         Adding(x) => /\ roles[x.op.role] = NoRole
                      /\ \A p \in Request \ {q} : Adding(req[p]) => req[p].op.role # x.op.role
  PROVE  VouchInv'
<1>1. /\ req'[q] = x
      /\ \A p \in Request \ {q} : req'[p] = req[p]
  BY OthersKept DEF VouchInv, AccountsInv
<1>2. \A p \in Request : Vouched(req'[p], roles')
  BY <1>1 DEF VouchInv
<1>3. RoleFree'
  <2>1. ASSUME NEW p \in Request, Adding(req'[p])
        PROVE  /\ roles'[req'[p].op.role] = NoRole
               /\ \A o \in Request \ {p} : Adding(req'[o]) => req'[o].op.role # req'[p].op.role
    <3>1. CASE p = q
      BY <1>1, <2>1, <3>1
    <3>2. CASE p # q
      <4>1. req'[p] = req[p] /\ roles[req[p].op.role] = NoRole
        BY <1>1, <2>1, <3>2 DEF VouchInv, RoleFree
      <4>2. ASSUME NEW o \in Request \ {p}, Adding(req'[o]) PROVE req'[o].op.role # req[p].op.role
        <5>1. CASE o = q
          BY <1>1, <2>1, <4>1, <4>2, <5>1
        <5>2. CASE o # q
          BY <1>1, <2>1, <4>1, <4>2, <5>2 DEF VouchInv, RoleFree
        <5> QED
          BY <5>1, <5>2
      <4> QED
        BY <4>1, <4>2
    <3> QED
      BY <3>1, <3>2
  <2> QED
    BY <2>1 DEF RoleFree
<1>4. RolesExist'
  BY DEF VouchInv, RolesExist
<1> QED
  BY <1>2, <1>3, <1>4 DEF VouchInv

\* One that fails has nothing left to answer for.
LEMMA FailVouches ==
  ASSUME VouchInv, NEW q \in Request, Ends(q, "failed"), AccountsInv',
         users' = users, roles' = roles
  PROVE  VouchInv'
<1> DEFINE x == [Idle EXCEPT !.step = "failed"]
<1>1. x \in RequestState /\ x.step = "failed" /\ req' = [req EXCEPT ![q] = x]
  BY IdleIsState DEF RequestState, Step, Ended, Idle, Ends
<1> HIDE DEF x
<1>2. Vouched(x, roles) /\ ~Adding(x)
  BY <1>1 DEF Vouched, Adding, Ended
<1> QED
  BY <1>1, <1>2, LocalVouches

\* One that moves on to its audit entry has what it had.
LEMMA MoveVouches ==
  ASSUME VouchInv, NEW q \in Request, Later(q), AccountsInv', users' = users, roles' = roles,
         NEW s \in {"locked", "flushed", "audited"}, Moves(q, s),
         ~OnUsers(q) /\ req[q].was = NoRole /\ s # "locked" =>
             /\ roles[req[q].op.role] = NoRole
             /\ \A p \in Request \ {q} : Adding(req[p]) => req[p].op.role # req[q].op.role
  PROVE  VouchInv'
<1> DEFINE x == [req[q] EXCEPT !.step = s]
<1>1. /\ x \in RequestState /\ x.step = s /\ x.op = req[q].op /\ x.me = req[q].me
      /\ x.mine = req[q].mine /\ x.loaded = req[q].loaded /\ x.object = req[q].object
      /\ x.was = req[q].was /\ x.perms = req[q].perms
  BY DEF VouchInv, AccountsInv, TypeOK, RequestState, Step
<1>2. req' = [req EXCEPT ![q] = x]
  BY DEF Moves
<1> HIDE DEF x
<1>3. Vouched(req[q], roles)
  BY DEF VouchInv
<1>4. Vouched(x, roles)
  BY <1>1, <1>3 DEF Vouched, OnAccounts, Later, Passed, InFlight, Ended
<1>5. Adding(x) => ~OnUsers(q) /\ req[q].was = NoRole /\ s # "locked"
  BY <1>1 DEF Adding, OnAccounts, OnUsers
<1> QED
  BY <1>1, <1>2, <1>4, <1>5, LocalVouches

-----------------------------------------------------------------------------
\* The guard vouches for the actor.
LEMMA GuardVouches ==
  ASSUME VouchInv, NEW q \in Request, Guard(q), AccountsInv'
  PROVE  VouchInv'
<1> DEFINE u == users[req[q].actor]
           x == [req[q] EXCEPT !.step = "select", !.me = u, !.mine = roles[u.role]]
<1>t. /\ TypeOK /\ req[q] \in RequestState /\ users' = users /\ roles' = roles
  BY DEF VouchInv, AccountsInv, TypeOK, Guard
<1>1. CASE Admits(users, roles, req[q].actor, req[q].op.kind)
  <2>1. u \in User /\ u.role \in Role /\ roles[u.role] \in Matrix \cup {NoRole}
    <3>1. u \in User
      BY <1>t, <1>1 DEF TypeOK, RequestState, Admits
    <3> QED
      BY <1>t, <3>1 DEF TypeOK, User
  <2>2. /\ x \in RequestState /\ x.step = "select" /\ x.me = u /\ x.mine = roles[u.role]
        /\ x.op = req[q].op
    BY <1>t, <2>1 DEF RequestState, Step
  <2>3. req' = [req EXCEPT ![q] = x]
    BY <1>1 DEF Guard
  <2>4. u.status = "Active" /\ Allows(roles[u.role], req[q].op.kind)
    BY <1>1 DEF Admits
  <2> HIDE DEF x, u
  <2>5. Vouched(x, roles) /\ ~Adding(x)
    BY <2>2, <2>4 DEF Vouched, Adding
  <2> QED
    BY <1>t, <2>2, <2>3, <2>5, LocalVouches
<1>2. CASE ~Admits(users, roles, req[q].actor, req[q].op.kind)
  BY <1>t, <1>2, FailVouches DEF Guard
<1> QED
  BY <1>1, <1>2

\* _require_role has found the role of a new account.
LEMMA CreateVouches ==
  ASSUME VouchInv, NEW q \in Request, SelectForCreate(q), AccountsInv'
  PROVE  VouchInv'
<1> DEFINE sent == req[q].op.sent
           object == [email |-> sent.email, role |-> sent.role, status |-> sent.status]
           x == [req[q] EXCEPT !.step = "locked", !.object = object]
<1>t. /\ TypeOK /\ req[q] \in RequestState /\ users' = users /\ roles' = roles
      /\ req[q].op.kind = "create_user" /\ req[q].step = "select"
  BY DEF VouchInv, AccountsInv, TypeOK, SelectForCreate
<1>1. CASE roles[sent.role] = NoRole \/ Twins(sent.email) # {}
  BY <1>t, <1>1, FailVouches DEF SelectForCreate
<1>2. CASE ~(roles[sent.role] = NoRole \/ Twins(sent.email) # {})
  <2>1. object \in User /\ roles[object.role] # NoRole
    BY <1>t, <1>2 DEF RequestState, Operation, WellFormed, User, Status
  <2>2. req' = [req EXCEPT ![q] = x]
    BY <1>2 DEF SelectForCreate
  <2> HIDE DEF object
  <2>3. /\ x \in RequestState /\ x.step = "locked" /\ x.object = object /\ x.op = req[q].op
        /\ x.me = req[q].me /\ x.mine = req[q].mine
    BY <1>t, <2>1 DEF RequestState, Step
  <2> HIDE DEF x
  <2>4. Vouched(req[q], roles)
    BY DEF VouchInv
  <2>5. Vouched(x, roles) /\ ~Adding(x)
    BY <1>t, <2>1, <2>3, <2>4 DEF Vouched, Adding, OnAccounts, Ended
  <2> QED
    BY <1>t, <2>2, <2>3, <2>5, LocalVouches
<1> QED
  BY <1>1, <1>2

\* An update assigns what was sent, and nothing else.
LEMMA UpdateVouches ==
  ASSUME VouchInv, NEW q \in Request, SelectForUpdate(q), AccountsInv'
  PROVE  VouchInv'
<1> DEFINE op == req[q].op
           old == IF op.user = req[q].actor THEN req[q].me ELSE users[op.user]
           object == [f \in DOMAIN old |-> IF f \in DOMAIN op.sent THEN op.sent[f] ELSE old[f]]
           s(others) == IF object # old \/ others THEN "dirty" ELSE "flushed"
           x(others) == [req[q] EXCEPT !.step = s(others), !.loaded = old,
                                       !.object = object, !.others = others]
<1>t. /\ TypeOK /\ req[q] \in RequestState /\ users' = users /\ roles' = roles
      /\ req[q].op.kind = "update_user" /\ req[q].step = "select"
  BY DEF VouchInv, AccountsInv, TypeOK, SelectForUpdate
<1>1. CASE old = NoUser \/ roles[object.role] = NoRole
  BY <1>t, <1>1, FailVouches DEF SelectForUpdate
<1>2. CASE ~(old = NoUser \/ roles[object.role] = NoRole)
  <2>1. PICK others \in {FALSE, object = old} : req' = [req EXCEPT ![q] = x(others)]
    BY <1>2 DEF SelectForUpdate
  <2> DEFINE y == x(others)
             t == s(others)
  <2>2. \A f \in DOMAIN object : object[f] = IF f \in DOMAIN op.sent THEN op.sent[f] ELSE old[f]
    OBVIOUS
  <2>3. roles[object.role] # NoRole
    BY <1>2
  <2>4. t \in {"flushed", "dirty"}
    OBVIOUS
  <2>y. y = [req[q] EXCEPT !.step = t, !.loaded = old, !.object = object, !.others = others]
    OBVIOUS
  <2>r. req' = [req EXCEPT ![q] = y]
    BY <2>1
  <2> HIDE DEF x, y, s, t, object, old
  <2>5. /\ y.step = t /\ y.object = object /\ y.loaded = old /\ y.op = op
        /\ y.me = req[q].me /\ y.mine = req[q].mine
    BY <1>t, <2>y DEF RequestState
  <2>6. y \in RequestState
    <3>1. req'[q] = y
      BY <1>t, <2>r DEF TypeOK
    <3> QED
      BY <3>1 DEF AccountsInv, TypeOK
  <2>7. Vouched(req[q], roles)
    BY DEF VouchInv
  <2>8. Vouched(y, roles)
    BY <1>t, <2>2, <2>3, <2>4, <2>5, <2>7 DEF Vouched, OnAccounts, Ended
  <2>9. ~Adding(y)
    BY <1>t, <2>5 DEF Adding, OnAccounts
  <2> QED
    BY <1>t, <2>r, <2>6, <2>8, <2>9, LocalVouches
<1> QED
  BY <1>1, <1>2

\* A role that is there is given the matrix it has or the one that was sent.
LEMMA RoleVouches ==
  ASSUME VouchInv, NEW q \in Request, SelectRole(q), AccountsInv'
  PROVE  VouchInv'
<1> DEFINE op == req[q].op
           old == IF op.role = req[q].me.role THEN req[q].mine ELSE roles[op.role]
           perms == Saved(q, old)
           s(others) == IF old = NoRole THEN "locked"
                        ELSE IF perms # old \/ others THEN "dirty" ELSE "flushed"
           x(others) == [req[q] EXCEPT !.step = s(others), !.was = old, !.perms = perms,
                                       !.others = others]
<1>t. /\ TypeOK /\ req[q] \in RequestState /\ users' = users /\ roles' = roles
      /\ req[q].op.kind \in {"upsert_role", "update_role_permissions"}
      /\ req[q].step = "select"
  BY DEF VouchInv, AccountsInv, TypeOK, SelectRole
<1>1. CASE old = NoRole /\ op.kind = "update_role_permissions"
  BY <1>t, <1>1, FailVouches DEF SelectRole
<1>2. CASE ~(old = NoRole /\ op.kind = "update_role_permissions")
  <2>1. PICK others \in {FALSE, op.kind = "upsert_role" /\ perms = old} :
            req' = [req EXCEPT ![q] = x(others)]
    BY <1>2 DEF SelectRole
  <2> DEFINE y == x(others)
             t == s(others)
  <2>2. t \in {"locked", "flushed", "dirty"} /\ (old = NoRole => t = "locked")
    OBVIOUS
  <2>3. old # NoRole => perms \in {old, op.perms}
    BY DEF Saved
  <2>7. Vouched(req[q], roles)
    BY DEF VouchInv
  <2>4. old # NoRole => roles[op.role] # NoRole
    BY <1>t, <2>7 DEF Vouched, Ended
  <2>y. y = [req[q] EXCEPT !.step = t, !.was = old, !.perms = perms, !.others = others]
    OBVIOUS
  <2>r. req' = [req EXCEPT ![q] = y]
    BY <2>1
  <2> HIDE DEF x, y, s, t, perms, old
  <2>5. /\ y.step = t /\ y.was = old /\ y.perms = perms /\ y.op = op
        /\ y.me = req[q].me /\ y.mine = req[q].mine
    BY <1>t, <2>y DEF RequestState
  <2>6. y \in RequestState
    <3>1. req'[q] = y
      BY <1>t, <2>r DEF TypeOK
    <3> QED
      BY <3>1 DEF AccountsInv, TypeOK
  <2>8. Vouched(y, roles)
    BY <1>t, <2>2, <2>3, <2>4, <2>5, <2>7 DEF Vouched, OnAccounts, Ended
  <2>9. ~Adding(y)
    BY <2>2, <2>5 DEF Adding
  <2> QED
    BY <1>t, <2>r, <2>6, <2>8, <2>9, LocalVouches
<1> QED
  BY <1>1, <1>2

\* A row that is locked is there, so it is not being added.
LEMMA LockVouches ==
  ASSUME VouchInv, NEW q \in Request, LockRow(q), AccountsInv'
  PROVE  VouchInv'
<1> DEFINE s == IF OnUsers(q) /\ Renames(q) THEN "locked" ELSE "flushed"
<1>1. /\ Later(q) /\ Moves(q, s) /\ users' = users /\ roles' = roles
      /\ req[q].step = "dirty" /\ s \in {"locked", "flushed", "audited"}
  BY DEF LockRow, Later, Passed, InFlight, Ended
<1>2. Vouched(req[q], roles)
  BY DEF VouchInv
<1>3. ~OnUsers(q) => req[q].was # NoRole
  BY <1>1, <1>2 DEF Vouched, OnAccounts, OnUsers, Ended
<1> HIDE DEF s
<1> QED
  BY <1>1, <1>3, MoveVouches

\* Who gets the key of a role has waited for whoever had it.
LEMMA ClaimVouches ==
  ASSUME VouchInv, NEW q \in Request, ClaimKey(q), AccountsInv'
  PROVE  VouchInv'
<1>1. /\ Later(q) /\ req[q].step = "locked" /\ users' = users /\ roles' = roles
  BY DEF ClaimKey, Later, Passed, InFlight, Ended
<1>2. CASE Taken(q)
  BY <1>1, <1>2, FailVouches DEF ClaimKey
<1>3. CASE ~Taken(q)
  <2>1. ASSUME ~OnUsers(q) PROVE roles[req[q].op.role] = NoRole
    BY <1>3, <2>1 DEF Taken
  <2>2. ASSUME ~OnUsers(q), NEW p \in Request \ {q}, Adding(req[p])
        PROVE  req[p].op.role # req[q].op.role
    <3>1. ~OnUsers(p) /\ Later(p) /\ req[p].step \in {"flushed", "audited"}
      BY <2>2 DEF Adding, OnAccounts, OnUsers, Later, Passed, InFlight, Ended
    <3>2. req[p].perms \in Matrix
      BY <3>1 DEF VouchInv, AccountsInv, Shapes, Shape
    <3>3. Holds(p)
      BY <2>2, <3>1, <3>2, NothingIsNothing DEF Adding, Holds, Writes
    <3>4. ~KeyWait(q, p)
      BY DEF ClaimKey, Waiting, Waits
    <3> QED
      BY <1>1, <2>2, <3>1, <3>3, <3>4 DEF KeyWait, SameRow
  <2>3. Moves(q, "flushed")
    BY <1>3 DEF ClaimKey
  <2> QED
    BY <1>1, <2>1, <2>2, <2>3, MoveVouches
<1> QED
  BY <1>2, <1>3

LEMMA AuditVouches ==
  ASSUME VouchInv, NEW q \in Request, RecordAudit(q), AccountsInv'
  PROVE  VouchInv'
<1>1. /\ Later(q) /\ req[q].step = "flushed" /\ Moves(q, "audited")
      /\ users' = users /\ roles' = roles
  BY DEF RecordAudit, Later, Passed, InFlight, Ended
<1>2. ~OnUsers(q) /\ req[q].was = NoRole => Adding(req[q])
  BY <1>1 DEF Adding, OnAccounts, OnUsers
<1>3. ~OnUsers(q) /\ req[q].was = NoRole =>
          /\ roles[req[q].op.role] = NoRole
          /\ \A p \in Request \ {q} : Adding(req[p]) => req[p].op.role # req[q].op.role
  BY <1>2 DEF VouchInv, RoleFree
<1> QED
  BY <1>1, <1>3, MoveVouches

LEMMA ArriveVouches ==
  ASSUME VouchInv, NEW q \in Request, Arrive(q), AccountsInv'
  PROVE  VouchInv'
<1>1. PICK a \in UserId, op \in Asked :
        req' = [req EXCEPT ![q] = [Idle EXCEPT !.step = "guard", !.actor = a, !.op = op,
                    !.barred = ~Admits(users, roles, a, op.kind)]]
  BY DEF Arrive
<1> DEFINE x == [Idle EXCEPT !.step = "guard", !.actor = a, !.op = op,
                             !.barred = ~Admits(users, roles, a, op.kind)]
<1>2. x.step = "guard" /\ req' = [req EXCEPT ![q] = x]
  BY <1>1 DEF Idle
<1> HIDE DEF x
<1>3. x \in RequestState
  <2>1. req'[q] = x
    BY <1>2 DEF VouchInv, AccountsInv, TypeOK
  <2> QED
    BY <2>1 DEF AccountsInv, TypeOK
<1>4. Vouched(x, roles) /\ ~Adding(x) /\ users' = users /\ roles' = roles
  BY <1>2 DEF Vouched, Adding, Arrive
<1> QED
  BY <1>2, <1>3, <1>4, LocalVouches

\* The columns of the row that a commit writes.
LEMMA CommitColumns ==
  ASSUME AccountsInv, NEW q \in Request, Commit(q), OnUsers(q)
  PROVE  /\ Target(q) \in UserId
         /\ req[q].op.kind = "create_user" => users'[Target(q)] = req[q].object
         /\ req[q].op.kind = "update_user" =>
              /\ users[Target(q)] \in User
              /\ req[q].loaded \in User
              /\ users'[Target(q)] = Flush(users[Target(q)], req[q].loaded, req[q].object)
         /\ req[q].object \in User
<1>t. TypeOK /\ req[q] \in RequestState /\ req[q].step = "audited" /\ Later(q)
  BY DEF AccountsInv, TypeOK, Commit, Later, Passed, InFlight, Ended
<1>s. Shape(q)
  BY DEF AccountsInv, Shapes
<1>1. Target(q) \in UserId
  BY <1>t DEF Target, UserId, RequestState, Operation
<1>2. req[q].object \in User
  BY <1>t, <1>s DEF Shape
<1>3. CASE req[q].op.kind = "create_user"
  <2>1. Inserts(q)
    BY <1>t, <1>s, <1>3 DEF Shape, Inserts
  <2>2. users' = [users EXCEPT ![Target(q)] = req[q].object]
    BY <2>1 DEF Commit
  <2> QED
    BY <1>t, <1>1, <1>2, <1>3, <2>2 DEF TypeOK
<1>4. CASE req[q].op.kind = "update_user"
  <2>1. req[q].loaded \in User /\ users[Target(q)] # NoUser
    BY <1>t, <1>s, <1>4 DEF Shape, Target
  <2>2. ~Inserts(q)
    BY <2>1, NothingIsNothing DEF Inserts
  <2>3. users' = [users EXCEPT ![Target(q)] =
                      Flush(users[Target(q)], req[q].loaded, req[q].object)]
    BY <2>2 DEF Commit
  <2>4. users[Target(q)] \in User
    BY <1>t, <1>1, <2>1 DEF TypeOK
  <2> QED
    BY <1>t, <1>1, <1>2, <1>4, <2>1, <2>3, <2>4 DEF TypeOK
<1> QED
  BY <1>1, <1>2, <1>3, <1>4 DEF OnUsers

\* A commit adds to the roles or replaces a matrix; it removes no role.
LEMMA CommitKeepsRoles ==
  ASSUME AccountsInv, NEW q \in Request, Commit(q)
  PROVE  /\ \A r \in Role : roles[r] # NoRole => roles'[r] # NoRole
         /\ \A r \in Role : roles'[r] # roles[r] =>
                /\ ~OnUsers(q) /\ req[q].perms # req[q].was
                /\ r = req[q].op.role /\ roles'[r] = req[q].perms
<1>t. TypeOK /\ req[q] \in RequestState /\ Later(q)
  BY DEF AccountsInv, TypeOK, Commit, Later, Passed, InFlight, Ended
<1>1. ~OnUsers(q) => req[q].perms \in Matrix
  BY <1>t DEF AccountsInv, Shapes, Shape
<1>2. \A r \in Role : roles'[r] # roles[r] =>
          /\ ~OnUsers(q) /\ req[q].perms # req[q].was
          /\ r = req[q].op.role /\ roles'[r] = req[q].perms
  BY <1>t DEF Commit, TypeOK
<1> QED
  BY <1>1, <1>2, NothingIsNothing

\* The commit of one request takes no role from under another.
LEMMA CommitVouches ==
  ASSUME VouchInv, NEW q \in Request, Commit(q), AccountsInv'
  PROVE  VouchInv'
<1>t. /\ AccountsInv /\ TypeOK /\ req[q] \in RequestState /\ req[q].step = "audited"
      /\ Later(q)
  BY DEF VouchInv, AccountsInv, TypeOK, Commit, Later, Passed, InFlight, Ended
<1>v. \A p \in Request : Vouched(req[p], roles)
  BY DEF VouchInv
<1>1. /\ req'[q] = [Idle EXCEPT !.step = "committed"]
      /\ \A p \in Request \ {q} :
           /\ req'[p].step = req[p].step /\ req'[p].op = req[p].op
           /\ req'[p].me = req[p].me /\ req'[p].mine = req[p].mine
           /\ req'[p].loaded = req[p].loaded /\ req'[p].object = req[p].object
           /\ req'[p].was = req[p].was /\ req'[p].perms = req[p].perms
  BY <1>t, CommitLeaves
<1>2. req'[q].step = "committed"
  BY <1>1 DEF Idle
<1>3. /\ \A r \in Role : roles[r] # NoRole => roles'[r] # NoRole
      /\ \A r \in Role : roles'[r] # roles[r] =>
             /\ ~OnUsers(q) /\ req[q].perms # req[q].was
             /\ r = req[q].op.role /\ roles'[r] = req[q].perms
  BY <1>t, CommitKeepsRoles
<1>4. \A p \in Request : Vouched(req'[p], roles')
  <2>1. ASSUME NEW p \in Request \ {q} PROVE Vouched(req'[p], roles')
    <3>1. req[p] \in RequestState /\ Shape(p) /\ Vouched(req[p], roles)
      BY <1>t, <1>v DEF AccountsInv, TypeOK, Shapes
    <3>2. /\ req[p].step \notin Ended \cup {"new", "guard"} => req[p].me \in User
          /\ (req[p].step \notin Ended \cup {"new", "guard", "select"} /\ OnAccounts(req[p])) =>
                 req[p].object \in User
      BY <3>1 DEF Shape, Passed, Later, InFlight, OnAccounts, OnUsers
    <3> QED
      BY <1>1, <1>3, <3>1, <3>2, VouchedStays
  <2>2. Vouched(req'[q], roles')
    BY <1>2 DEF Vouched, Ended
  <2> QED
    BY <2>1, <2>2
<1>5. RoleFree'
  <2>1. \A p \in Request : Adding(req'[p]) =>
          p # q /\ Adding(req[p]) /\ req'[p].op = req[p].op
    BY <1>1, <1>2 DEF Adding, OnAccounts
  <2>2. ASSUME NEW p \in Request \ {q}, Adding(req[p]) PROVE roles'[req[p].op.role] = NoRole
    <3>1. req[p].op.role \in Role /\ roles[req[p].op.role] = NoRole
      BY <1>t, <2>2 DEF VouchInv, RoleFree, TypeOK, RequestState, Operation
    <3>2. SUFFICES ASSUME ~OnUsers(q), req[q].op.role = req[p].op.role PROVE FALSE
      BY <1>3, <3>1
    <3>3. req[q].was = NoRole
      BY <1>t, <1>v, <3>1, <3>2 DEF Vouched, OnAccounts, OnUsers, Ended
    <3>4. Adding(req[q])
      BY <1>t, <3>2, <3>3 DEF Adding, OnAccounts, OnUsers
    <3> QED
      BY <2>2, <3>2, <3>4 DEF VouchInv, RoleFree
  <2> QED
    BY <2>1, <2>2 DEF VouchInv, RoleFree
<1>6. RolesExist'
  <2> SUFFICES ASSUME NEW u \in UserId, users'[u] # NoUser PROVE roles'[users'[u].role] # NoRole
    BY DEF RolesExist
  <2>1. \A v \in User : v.role \in Role
    BY DEF User
  <2>2. \A v \in UserId : users[v] # NoUser => users[v].role \in Role /\ roles[users[v].role] # NoRole
    BY <1>t, <2>1 DEF VouchInv, RolesExist, TypeOK
  <2>3. CASE users'[u] = users[u]
    BY <1>3, <2>2, <2>3
  <2>4. CASE users'[u] # users[u]
    <3>1. OnUsers(q) /\ u = Target(q)
      BY <1>t, <2>4, CommitStores
    <3>2. /\ req[q].object \in User
          /\ req[q].op.kind = "create_user" => users'[u] = req[q].object
          /\ req[q].op.kind = "update_user" =>
               users[u] \in User /\ users'[u] = Flush(users[u], req[q].loaded, req[q].object)
      BY <1>t, <3>1, CommitColumns
    <3>3. roles[req[q].object.role] # NoRole /\ req[q].object.role \in Role
      BY <1>t, <1>v, <2>1, <3>1, <3>2 DEF Vouched, OnAccounts, OnUsers, Ended
    <3>4. CASE req[q].op.kind = "create_user"
      BY <1>3, <3>2, <3>3, <3>4
    <3>5. CASE req[q].op.kind = "update_user"
      <4>1. users'[u].role \in {req[q].object.role, users[u].role}
        BY <3>2, <3>5 DEF Flush, User
      <4>2. users[u] # NoUser
        BY <3>2, <3>5, NothingIsNothing
      <4> QED
        BY <1>3, <2>2, <3>3, <4>1, <4>2
    <3> QED
      BY <3>1, <3>4, <3>5 DEF OnUsers
  <2> QED
    BY <2>3, <2>4
<1> QED
  BY <1>4, <1>5, <1>6 DEF VouchInv

LEMMA VouchInit == Init => VouchInv
<1> SUFFICES ASSUME Init PROVE VouchInv
  OBVIOUS
<1>1. \A q \in Request : req[q].step = "new"
  BY DEF Init, Idle
<1>2. RoleFree /\ \A q \in Request : Vouched(req[q], roles)
  BY <1>1 DEF RoleFree, Adding, Vouched
<1>3. roles["admin"] # NoRole
  <2>1. roles["admin"] = DefaultPermissionsFor("admin")
    BY AccountsAssumption DEF Init
  <2> QED
    BY <2>1, DefaultsAreMatrices, NothingIsNothing
<1>4. RolesExist
  BY <1>3 DEF Init, RolesExist
<1> QED
  BY <1>2, <1>4, InitHolds DEF VouchInv

LEMMA VouchStep == VouchInv /\ [Next]_vars => VouchInv'
<1> SUFFICES ASSUME VouchInv, [Next]_vars PROVE VouchInv'
  OBVIOUS
<1>1. AccountsInv'
  BY NextKeeps DEF VouchInv
<1>2. ASSUME NEW q \in Request, Arrive(q) PROVE VouchInv'
  BY <1>1, <1>2, ArriveVouches
<1>3. ASSUME NEW q \in Request, Handle(q) PROVE VouchInv'
  BY <1>1, <1>3, GuardVouches, CreateVouches, UpdateVouches, RoleVouches, LockVouches,
     ClaimVouches, AuditVouches, CommitVouches DEF Handle
<1>4. ASSUME NEW q \in Request, Abort(q) PROVE VouchInv'
  BY <1>1, <1>4, FailVouches DEF Abort
<1>5. CASE BreakDeadlock
  BY <1>1, <1>5, FailVouches DEF BreakDeadlock
<1>6. CASE UNCHANGED vars
  BY <1>1, <1>6 DEF vars, VouchInv, RoleFree, RolesExist
<1> QED
  BY <1>2, <1>3, <1>4, <1>5, <1>6 DEF Next

LEMMA VouchInvHolds == Spec => []VouchInv
  BY VouchInit, VouchStep, PTL DEF Spec

\* However requests overlap, no account is left with a role that is not there.
THEOREM RolesExistHolds == Spec => []RolesExist
<1>1. VouchInv => RolesExist
  BY DEF VouchInv
<1> QED
  BY VouchInvHolds, <1>1, PTL

\* Only a commit step ends in "committed" or touches a table.
LEMMA OnlyCommitsCommit ==
  ASSUME VouchInv, [Next]_vars
  PROVE  /\ \A q \in Request : Commits(q) => Commit(q)
         /\ (users' # users \/ roles' # roles) =>
                \E q \in Request : Commit(q) /\ Commits(q)
<1>t. TypeOK
  BY DEF VouchInv, AccountsInv
<1>e. ASSUME NEW q \in Request, Ends(q, "failed") PROVE \A p \in Request : ~Commits(p)
  BY <1>t, <1>e DEF Ends, Idle, Commits, TypeOK
<1>m. ASSUME NEW q \in Request, NEW s \in {"locked", "flushed", "audited"}, Moves(q, s)
      PROVE  \A p \in Request : ~Commits(p)
  BY <1>t, <1>m DEF Moves, Commits, TypeOK, RequestState
<1>x. ASSUME NEW q \in Request, req[q].step # "audited",
             \A p \in Request \ {q} : req'[p] = req[p]
      PROVE  \A p \in Request : ~Commits(p)
  BY <1>x DEF Commits
<1>1. ASSUME NEW q \in Request, Arrive(q) \/ Guard(q) \/ SelectForCreate(q) \/ SelectForUpdate(q) \/ SelectRole(q)
      PROVE  \A p \in Request : ~Commits(p)
  <2>1. req[q].step # "audited"
    BY <1>1 DEF Arrive, Guard, SelectForCreate, SelectForUpdate, SelectRole
  <2>2. \A p \in Request \ {q} : req'[p] = req[p]
    BY <1>1, <1>t DEF Arrive, Guard, SelectForCreate, SelectForUpdate, SelectRole, Ends, TypeOK
  <2> QED
    BY <1>x, <2>1, <2>2
<1>2. ASSUME NEW q \in Request, LockRow(q) \/ ClaimKey(q) \/ RecordAudit(q)
      PROVE  \A p \in Request : ~Commits(p)
  BY <1>2, <1>e, <1>m DEF LockRow, ClaimKey, RecordAudit
<1>3. ASSUME NEW q \in Request, Commit(q)
      PROVE  Commits(q) /\ \A p \in Request \ {q} : ~Commits(p)
  BY <1>3, CommitLeaves DEF VouchInv, Commit, Commits, Idle
<1>4. ASSUME NEW q \in Request, Abort(q) PROVE \A p \in Request : ~Commits(p)
  BY <1>4, <1>e DEF Abort
<1>5. CASE BreakDeadlock
  BY <1>5, <1>e DEF BreakDeadlock
<1>6. CASE UNCHANGED vars
  BY <1>6 DEF vars, Commits
<1>7. \/ \E q \in Request : Commit(q)
      \/ (\A p \in Request : ~Commits(p)) /\ users' = users /\ roles' = roles
  <2>1. ASSUME NEW q \in Request, Arrive(q) \/ Guard(q) \/ SelectForCreate(q) \/ SelectForUpdate(q) \/ SelectRole(q)
        PROVE  users' = users /\ roles' = roles
    BY <2>1 DEF Arrive, Guard, SelectForCreate, SelectForUpdate, SelectRole
  <2>2. ASSUME NEW q \in Request, LockRow(q) \/ ClaimKey(q) \/ RecordAudit(q) \/ Abort(q)
        PROVE  users' = users /\ roles' = roles
    BY <2>2 DEF LockRow, ClaimKey, RecordAudit, Abort
  <2>3. CASE BreakDeadlock \/ UNCHANGED vars
    BY <1>5, <1>6, <2>3 DEF BreakDeadlock, vars
  <2> QED
    BY <1>1, <1>2, <1>4, <2>1, <2>2, <2>3 DEF Next, Handle
<1> QED
  BY <1>3, <1>7

\* An own-row edit works on what the guard had loaded, and still reverts nobody.
THEOREM OnlySentIsSavedHolds == Spec => OnlySentIsSaved
<1>1. ASSUME VouchInv, [Next]_vars, NEW u \in UserId, users[u] # NoUser,
             NEW f \in DOMAIN users[u], users'[u][f] # users[u][f]
      PROVE  \E q \in Request :
                /\ Commits(q) /\ req[q].op.kind = "update_user" /\ req[q].op.user = u
                /\ f \in DOMAIN req[q].op.sent /\ users'[u][f] = req[q].op.sent[f]
  <2>1. PICK q \in Request : Commit(q) /\ Commits(q)
    BY <1>1, OnlyCommitsCommit
  <2>2. AccountsInv /\ OnUsers(q) /\ u = Target(q)
    BY <1>1, <2>1, CommitStores DEF VouchInv
  <2>3. req[q].op.kind = "update_user"
    <3>1. req[q].op.kind = "create_user" => users[q] = NoUser
      BY <2>1, <2>2 DEF AccountsInv, CreatedInv, Commit
    <3> QED
      BY <1>1, <2>2, <3>1 DEF OnUsers, Target
  <2>4. /\ users[u] \in User /\ req[q].loaded \in User /\ req[q].object \in User
        /\ users'[u] = Flush(users[u], req[q].loaded, req[q].object)
    BY <2>1, <2>2, <2>3, CommitColumns
  <2>5. users'[u][f] = req[q].object[f] /\ req[q].object[f] # req[q].loaded[f]
    BY <1>1, <2>4 DEF Flush
  <2>6. f \in DOMAIN req[q].object
    BY <1>1, <2>4 DEF User
  <2>7. req[q].object[f] =
          IF f \in DOMAIN req[q].op.sent THEN req[q].op.sent[f] ELSE req[q].loaded[f]
    BY <1>1, <2>1, <2>3, <2>6 DEF VouchInv, Vouched, Commit, Ended
  <2> QED
    BY <2>1, <2>2, <2>3, <2>5, <2>7 DEF Target
<1>2. ASSUME VouchInv, [Next]_vars, NEW r \in Role, roles[r] # NoRole, roles'[r] # roles[r]
      PROVE  \E q \in Request :
                Commits(q) /\ ~OnUsers(q) /\ req[q].op.role = r /\ roles'[r] = req[q].op.perms
  <2>1. PICK q \in Request : Commit(q) /\ Commits(q)
    BY <1>2, OnlyCommitsCommit
  <2>2. /\ ~OnUsers(q) /\ req[q].perms # req[q].was
        /\ r = req[q].op.role /\ roles'[r] = req[q].perms
    BY <1>2, <2>1, CommitKeepsRoles DEF VouchInv
  <2>3. req[q].step = "audited" /\ Vouched(req[q], roles) /\ req[q].perms # req[q].was
    BY <1>2, <2>1, <2>2 DEF VouchInv, Commit
  <2>4. req[q].was # NoRole
    BY <1>2, <2>2, <2>3 DEF VouchInv, RoleFree, Adding, OnAccounts, OnUsers
  <2>5. req[q].perms = req[q].op.perms
    BY <2>2, <2>3, <2>4 DEF Vouched, OnAccounts, OnUsers, Ended
  <2> QED
    BY <2>1, <2>2, <2>5
<1>3. VouchInv /\ [Next]_vars =>
    [ /\ \A u \in UserId : users[u] # NoUser => \A f \in DOMAIN users[u] :
             users'[u][f] # users[u][f] => \E q \in Request :
                /\ Commits(q) /\ req[q].op.kind = "update_user" /\ req[q].op.user = u
                /\ f \in DOMAIN req[q].op.sent /\ users'[u][f] = req[q].op.sent[f]
      /\ \A r \in Role : (roles[r] # NoRole /\ roles'[r] # roles[r]) => \E q \in Request :
             Commits(q) /\ ~OnUsers(q) /\ req[q].op.role = r /\ roles'[r] = req[q].op.perms ]_vars
  BY <1>1, <1>2
<1> QED
  BY VouchInvHolds, <1>3, PTL DEF OnlySentIsSaved, Spec

\* No edit of an account is lost, however many overlap.
THEOREM SentIsSavedHolds == Spec => SentIsSaved
<1>1. ASSUME VouchInv, [Next]_vars, NEW q \in Request, Commits(q),
             req[q].op.kind = "update_user", NEW f \in DOMAIN req[q].op.sent
      PROVE  \/ users'[req[q].op.user][f] = req[q].op.sent[f]
             \/ req[q].op.sent[f] = req[q].loaded[f]
  <2>1. Commit(q)
    BY <1>1, OnlyCommitsCommit
  <2>2. OnUsers(q) /\ Target(q) = req[q].op.user
    BY <1>1 DEF OnUsers, Target
  <2>3. /\ users[Target(q)] \in User /\ req[q].loaded \in User /\ req[q].object \in User
        /\ users'[Target(q)] = Flush(users[Target(q)], req[q].loaded, req[q].object)
    BY <1>1, <2>1, <2>2, CommitColumns DEF VouchInv
  <2>4. f \in {"email", "role", "status"}
    <3>1. req[q].op.sent \in Body
      BY <1>1 DEF VouchInv, AccountsInv, TypeOK, RequestState, Operation
    <3>2. \A b \in Body : DOMAIN b \subseteq {"email", "role", "status"}
      BY DEF Body
    <3> QED
      BY <3>1, <3>2
  <2>5. req[q].object[f] = req[q].op.sent[f]
    BY <1>1, <2>1, <2>3, <2>4 DEF VouchInv, Vouched, Commit, Ended, User
  <2> QED
    BY <2>2, <2>3, <2>4, <2>5 DEF Flush, User
<1>2. VouchInv /\ [Next]_vars =>
    [\A q \in Request : (Commits(q) /\ req[q].op.kind = "update_user") =>
        \A f \in DOMAIN req[q].op.sent :
            \/ users'[req[q].op.user][f] = req[q].op.sent[f]
            \/ req[q].op.sent[f] = req[q].loaded[f]]_vars
  BY <1>1
<1> QED
  BY VouchInvHolds, <1>2, PTL DEF SentIsSaved, Spec

\* No change of an account or a role is anybody's but an admitted actor's.
THEOREM ChangesAreAdmittedHolds == Spec => ChangesAreAdmitted
<1>1. VouchInv /\ [Next]_vars =>
    [\A q \in Request : Commits(q) =>
        req[q].me.status = "Active" /\ Allows(req[q].mine, req[q].op.kind)]_vars
  BY DEF VouchInv, Vouched, Commits, Ended
<1> QED
  BY VouchInvHolds, <1>1, PTL DEF ChangesAreAdmitted, Spec
=============================================================================
