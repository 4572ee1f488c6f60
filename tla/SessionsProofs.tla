--------------------------- MODULE SessionsProofs ---------------------------
(***************************************************************************)
(* What holds of the sessions of an account for every set of sessions and  *)
(* requests and every order of commit and answer.                          *)
(***************************************************************************)
EXTENDS Sessions, TLAPS

\* No object in hand was loaded from a revoked row: reads stop there.
LoadedUnrevoked == \A q \in Request : ~req[q].loaded.revoked

\* A request that came in for a revoked session is still before the read that
\* will refuse it, and the session is revoked still.
LateInv ==
    \A q \in Request : req[q].late =>
        /\ row[req[q].sid].revoked
        /\ \/ req[q].step \in {"session", "refused"}
           \/ req[q].step = "user" /\ req[q].kind \in {"call", "logout"}

\* A request that came in while the account was disabled, which it is still,
\* is before the read that will refuse it.
BarredInv ==
    \A q \in Request : req[q].barred =>
        /\ ~active
        /\ req[q].step \notin Admitted
        /\ req[q].step = "session" => req[q].kind = "refresh"

\* The two refusals that revoke have left their mark.
DurableInv ==
    \A q \in Request : req[q].step \in {"reuse", "inactive"} => row[req[q].sid].revoked

AccessInv ==
    /\ TypeOK
    /\ LoadedUnrevoked
    /\ LateInv
    /\ BarredInv
    /\ DurableInv

-----------------------------------------------------------------------------
\* What the UPDATE of one object leaves in its row.
LEMMA FlushRow ==
  ASSUME NEW a \in Row, NEW b \in Row, NEW c \in Row
  PROVE  Flush(a, b, c) = [jti |-> IF c.jti # b.jti THEN c.jti ELSE a.jti,
                           revoked |-> IF c.revoked # b.revoked THEN c.revoked ELSE a.revoked]
BY DEF Flush, Row

LEMMA FlushInRow ==
  ASSUME NEW a \in Row, NEW b \in Row, NEW c \in Row
  PROVE  Flush(a, b, c) \in Row
<1>1. Flush(a, b, c) = [jti |-> IF c.jti # b.jti THEN c.jti ELSE a.jti,
                        revoked |-> IF c.revoked # b.revoked THEN c.revoked ELSE a.revoked]
  BY FlushRow
<1> QED
  BY <1>1 DEF Row

\* A flush of an object that was loaded unrevoked never clears revoked_at.
LEMMA FlushKeepsRevoked ==
  ASSUME NEW a \in Row, NEW b \in Row, NEW c \in Row, ~b.revoked
  PROVE  /\ a.revoked => Flush(a, b, c).revoked
         /\ c.revoked => Flush(a, b, c).revoked
<1>1. Flush(a, b, c) = [jti |-> IF c.jti # b.jti THEN c.jti ELSE a.jti,
                        revoked |-> IF c.revoked # b.revoked THEN c.revoked ELSE a.revoked]
  BY FlushRow
<1> QED
  BY <1>1 DEF Row

\* The state of a request after its step, or its step and its objects, changed.
LEMMA MovedState ==
  ASSUME NEW r \in RequestState, NEW t \in Step
  PROVE  [r EXCEPT !.step = t] \in RequestState
BY DEF RequestState

LEMMA LoadedState ==
  ASSUME NEW r \in RequestState, NEW t \in Step, NEW a \in Row, NEW b \in Row
  PROVE  [r EXCEPT !.step = t, !.loaded = a, !.object = b] \in RequestState
BY DEF RequestState

LEMMA MintedState ==
  ASSUME NEW r \in RequestState, NEW n \in Nat
  PROVE  [r EXCEPT !.step = "dirty", !.object.jti = n] \in RequestState
BY DEF RequestState, Step, Row

LEMMA NoRowIsRow == NoRow \in Row /\ ~NoRow.revoked
BY DEF NoRow, Row

\* Init establishes the invariant.
LEMMA AccessInit == Init => AccessInv
<1> SUFFICES ASSUME Init PROVE AccessInv
  OBVIOUS
<1> USE SessionsAssumption DEF Init
<1>1. TypeOK
  BY DEF TypeOK, Row, NoRow, NewRequest, Token, Kind, Step, Final, RequestState
<1>2. LoadedUnrevoked /\ LateInv /\ BarredInv /\ DurableInv
  BY DEF LoadedUnrevoked, LateInv, BarredInv, DurableInv, NewRequest, NoRow, Admitted
<1> QED
  BY <1>1, <1>2 DEF AccessInv

-----------------------------------------------------------------------------
\* Type correctness is inductive on its own.
LEMMA TypeStep == TypeOK /\ [Next]_vars => TypeOK'
<1> SUFFICES ASSUME TypeOK, [Next]_vars PROVE TypeOK'
  OBVIOUS
<1> USE SessionsAssumption, NoRowIsRow DEF TypeOK
<1>0. NewRequest \in RequestState /\ [NewRequest EXCEPT !.step = "refused"] \in RequestState
  BY DEF NewRequest, RequestState, Kind, Step, Final
<1>1. ASSUME NEW q \in Request, NEW kind \in Kind, NEW s \in Session, NEW j \in Nat,
             Arrive(q, kind, s, j)
      PROVE  TypeOK'
  <2> DEFINE r == [kind |-> kind, step |-> IF kind = "refresh" THEN "session" ELSE "user",
                   sid |-> s, jti |-> j, loaded |-> NoRow, object |-> NoRow,
                   late |-> row[s].revoked, barred |-> ~active, stale |-> j \in superseded]
  <2>1. /\ (IF kind = "refresh" THEN "session" ELSE "user") \in Step
        /\ row[s].revoked \in BOOLEAN
    BY DEF Step, Row
  <2>2. r \in RequestState
    BY <2>1 DEF RequestState
  <2>3. req' = [req EXCEPT ![q] = r]
    BY <1>1 DEF Arrive
  <2>4. req' \in [Request -> RequestState]
    BY <2>2, <2>3
  <2> QED
    BY <1>1, <2>4 DEF Arrive
<1>2. ASSUME NEW q \in Request, ReadSession(q) PROVE TypeOK'
  <2> DEFINE s == req[q].sid
             object == IF req[q].kind = "logout" THEN [row[s] EXCEPT !.revoked = TRUE]
                                                 ELSE row[s]
  <2>1. row[s] \in Row /\ object \in Row
    BY DEF RequestState, Row
  <2>2. NextStep(q) \in Step
    BY DEF NextStep, Step, Final
  <2>3. [req[q] EXCEPT !.step = NextStep(q), !.loaded = row[s], !.object = object]
          \in RequestState
    BY <2>1, <2>2, LoadedState
  <2>4. \E r \in RequestState : req' = [req EXCEPT ![q] = r]
    <3>1. CASE Refuse(q)
      BY <1>0, <3>1 DEF Refuse
    <3>2. CASE ~Refuse(q)
      <4>1. req' = [req EXCEPT ![q] =
                [@ EXCEPT !.step = NextStep(q), !.loaded = row[s], !.object = object]]
        BY <1>2, <3>2 DEF ReadSession
      <4> QED
        BY <2>3, <4>1
    <3> QED
      BY <3>1, <3>2
  <2>5. req' \in [Request -> RequestState]
    BY <2>4
  <2> QED
    BY <1>2, <2>5 DEF ReadSession
<1>3. ASSUME NEW q \in Request, ReadUser(q) PROVE TypeOK'
  <2>1. minted' \in 0 .. MaxJti
    BY <1>3 DEF ReadUser
  <2>2. CASE Refuse(q) \/ Moves(q, "barring") \/ Moves(q, "session")
    <3>1. /\ [req[q] EXCEPT !.step = "barring"] \in RequestState
          /\ [req[q] EXCEPT !.step = "session"] \in RequestState
      BY MovedState DEF Step
    <3>2. \E r \in RequestState : req' = [req EXCEPT ![q] = r]
      BY <1>0, <2>2, <3>1 DEF Refuse, Moves
    <3>3. req' \in [Request -> RequestState]
      BY <3>2
    <3> QED
      BY <1>3, <2>1, <3>3 DEF ReadUser
  <2>3. CASE req' = [req EXCEPT ![q] =
                 [@ EXCEPT !.step = "dirty", !.object.jti = minted + 1]]
    <3>1. req' \in [Request -> RequestState]
      <4>1. minted + 1 \in Nat
        OBVIOUS
      <4>2. [req[q] EXCEPT !.step = "dirty", !.object.jti = minted + 1]
              \in RequestState
        BY <4>1, MintedState
      <4> QED
        BY <2>3, <4>2
    <3> QED
      BY <1>3, <2>1, <3>1 DEF ReadUser
  <2> QED
    BY <1>3, <2>2, <2>3 DEF ReadUser
<1>4. ASSUME NEW q \in Request, FlushChanges(q) PROVE TypeOK'
  BY <1>4 DEF FlushChanges, Moves, Step, Final, RequestState
<1>5. ASSUME NEW q \in Request, CommitRequest(q) PROVE TypeOK'
  <2>1. req' \in [Request -> RequestState]
    <3>1. \A t \in Step : /\ [req[q] EXCEPT !.step = t] \in RequestState
                          /\ [req[q] EXCEPT !.step = t, !.loaded = NoRow, !.object = NoRow]
                               \in RequestState
      BY MovedState, LoadedState
    <3>2. PICK t \in Step : \/ req' = [req EXCEPT ![q] = [req[q] EXCEPT !.step = t]]
                            \/ req' = [req EXCEPT ![q] =
                                  [req[q] EXCEPT !.step = t, !.loaded = NoRow, !.object = NoRow]]
      BY <1>5 DEF CommitRequest, Moves, Ends, Step, Final
    <3> QED
      BY <3>1, <3>2
  <2>2. Flush(row[req[q].sid], req[q].loaded, req[q].object) \in Row
    BY FlushInRow DEF RequestState
  <2> DEFINE s == req[q].sid
             new == Flush(row[s], req[q].loaded, req[q].object)
  <2>a. /\ row' = [row EXCEPT ![s] = new] /\ lapsed' \in {lapsed, lapsed \ {s}}
        /\ superseded' = superseded \cup ({row[s].jti} \ {new.jti, 0})
    BY <1>5 DEF CommitRequest, Store
  <2>b. s \in Session /\ row[s].jti \in Nat
    BY DEF RequestState, Row
  <2>3. row' \in [Session -> Row] /\ lapsed' \subseteq Session /\ superseded' \subseteq Nat
    <3> HIDE DEF new
    <3>1. new \in Row
      BY <2>2 DEF new
    <3> QED
      BY <2>a, <2>b, <3>1
  <2> QED
    BY <1>5, <2>1, <2>3 DEF CommitRequest
<1>6. ASSUME NEW q \in Request, Respond(q) PROVE TypeOK'
  <2>1. req' \in [Request -> RequestState]
    <3>1. \A t \in Step : /\ [req[q] EXCEPT !.step = t] \in RequestState
                          /\ [req[q] EXCEPT !.step = t, !.loaded = NoRow, !.object = NoRow]
                               \in RequestState
      BY MovedState, LoadedState
    <3>2. PICK t \in Step : \/ req' = [req EXCEPT ![q] = [req[q] EXCEPT !.step = t]]
                            \/ req' = [req EXCEPT ![q] =
                                  [req[q] EXCEPT !.step = t, !.loaded = NoRow, !.object = NoRow]]
      BY <1>6 DEF Respond, Moves, Ends, Step, Final
    <3> QED
      BY <3>1, <3>2
  <2>2. <<req[q].sid, req[q].object.jti>> \in Token
    BY DEF Token, RequestState, Row
  <2>3. delivered' \subseteq Token
    BY <1>6, <2>2 DEF Respond
  <2> QED
    BY <1>6, <2>1, <2>3 DEF Respond
<1>7. ASSUME NEW q \in Request, RevokeAndRaise(q) PROVE TypeOK'
  <2> DEFINE s == req[q].sid
             x == [req[q].loaded EXCEPT !.revoked = TRUE]
  <2>1. req' \in [Request -> RequestState]
    <3>1. \A t \in Step : /\ [req[q] EXCEPT !.step = t] \in RequestState
                          /\ [req[q] EXCEPT !.step = t, !.loaded = NoRow, !.object = NoRow]
                               \in RequestState
      BY MovedState, LoadedState
    <3>2. PICK t \in Step : \/ req' = [req EXCEPT ![q] = [req[q] EXCEPT !.step = t]]
                            \/ req' = [req EXCEPT ![q] =
                                  [req[q] EXCEPT !.step = t, !.loaded = NoRow, !.object = NoRow]]
      BY <1>7 DEF RevokeAndRaise, Moves, Ends, Step, Final
    <3> QED
      BY <3>1, <3>2
  <2>2. x \in Row /\ Flush(row[s], req[q].loaded, x) \in Row
    <3>1. x \in Row
      BY DEF RequestState, Row
    <3> QED
      BY <3>1, FlushInRow DEF RequestState
  <2>3. row' \in [Session -> Row]
    BY <1>7, <2>2 DEF RevokeAndRaise
  <2> QED
    BY <1>7, <2>1, <2>3 DEF RevokeAndRaise
<1>8. ASSUME NEW q \in Request, Abort(q) PROVE TypeOK'
  BY <1>0, <1>8 DEF Abort, Refuse
<1>9. CASE SetStatus
  BY <1>9 DEF SetStatus, RequestState
<1>10. ASSUME NEW s \in Ageing, Lapse(s) PROVE TypeOK'
  BY <1>10 DEF Lapse
<1>11. CASE UNCHANGED vars
  BY <1>11 DEF vars
<1> QED
  BY <1>1, <1>2, <1>3, <1>4, <1>5, <1>6, <1>7, <1>8, <1>9, <1>10, <1>11
     DEF Next, Handle, ArriveLogin, ArriveRefresh, ArriveCall, Kind, Token

-----------------------------------------------------------------------------
\* The only two writes of a row keep revoked_at once it is set: the object they
\* flush was loaded without it.
LEMMA RevokedKept ==
  ASSUME TypeOK, LoadedUnrevoked, [Next]_vars
  PROVE  \A s \in Session : row[s].revoked => row'[s].revoked
<1> USE DEF TypeOK
<1>1. ASSUME NEW q \in Request, CommitRequest(q)
      PROVE  \A s \in Session : row[s].revoked => row'[s].revoked
  <2> DEFINE new == Flush(row[req[q].sid], req[q].loaded, req[q].object)
  <2>1. row[req[q].sid].revoked => new.revoked
    BY FlushKeepsRevoked DEF RequestState, LoadedUnrevoked
  <2>2. row' = [row EXCEPT ![req[q].sid] = new]
    BY <1>1 DEF CommitRequest, Store
  <2> QED
    BY <2>1, <2>2
<1>2. ASSUME NEW q \in Request, RevokeAndRaise(q)
      PROVE  \A s \in Session : row[s].revoked => row'[s].revoked
  <2> DEFINE x == [req[q].loaded EXCEPT !.revoked = TRUE]
             new == Flush(row[req[q].sid], req[q].loaded, x)
  <2>1. x \in Row
    BY DEF RequestState, Row
  <2>2. row[req[q].sid].revoked => new.revoked
    BY <2>1, FlushKeepsRevoked DEF RequestState, LoadedUnrevoked
  <2>3. row' = [row EXCEPT ![req[q].sid] = new]
    BY <1>2 DEF RevokeAndRaise
  <2> QED
    BY <2>2, <2>3
<1>3. ASSUME NEW q \in Request,
             ReadSession(q) \/ ReadUser(q) \/ FlushChanges(q) \/ Respond(q) \/ Abort(q)
      PROVE  row' = row
  BY <1>3 DEF ReadSession, ReadUser, FlushChanges, Respond, Abort
<1>4. ASSUME NEW q \in Request, ArriveLogin(q) \/ ArriveRefresh(q) \/ ArriveCall(q)
      PROVE  row' = row
  BY <1>4 DEF ArriveLogin, ArriveRefresh, ArriveCall, Arrive
<1>5. ASSUME SetStatus \/ (\E s \in Ageing : Lapse(s)) \/ UNCHANGED vars
      PROVE  row' = row
  BY <1>5 DEF SetStatus, Lapse, vars
<1> QED
  BY <1>1, <1>2, <1>3, <1>4, <1>5 DEF Next, Handle

\* Requests that do not step keep their state, and what a step of q can make of
\* q's own state, action by action.
LEMMA AccessStep == AccessInv /\ [Next]_vars => AccessInv'
<1> SUFFICES ASSUME AccessInv, [Next]_vars PROVE AccessInv'
  OBVIOUS
<1> USE NoRowIsRow DEF AccessInv
<1>t. TypeOK /\ TypeOK'
  BY TypeStep
<1>r. \A s \in Session : row[s].revoked => row'[s].revoked
  BY RevokedKept
<1>s. \A q \in Request : req[q] \in RequestState /\ req[q].sid \in Session
  BY <1>t DEF TypeOK, RequestState
<1>f. req \in [Request -> RequestState] /\ row \in [Session -> Row]
  BY <1>t DEF TypeOK
<1> DEFINE Rest == LoadedUnrevoked' /\ LateInv' /\ BarredInv' /\ DurableInv'
<1>1. ASSUME NEW q \in Request, NEW kind \in Kind, NEW s \in Session, NEW j \in Nat,
             Arrive(q, kind, s, j), kind = "login" => ~Exists(s)
      PROVE  Rest
  <2>1. /\ \A p \in Request \ {q} : req'[p] = req[p]
        /\ req'[q].loaded = NoRow /\ req'[q].sid = s /\ req'[q].kind = kind
        /\ req'[q].step = (IF kind = "refresh" THEN "session" ELSE "user")
        /\ req'[q].late = row[s].revoked /\ req'[q].barred = ~active
        /\ active' = active
    BY <1>1, <1>f DEF Arrive
  <2>2. kind = "login" => ~row[s].revoked
    BY <1>1 DEF Exists
  <2>3. LoadedUnrevoked'
    BY <2>1 DEF LoadedUnrevoked
  <2>4. LateInv'
    BY <1>r, <1>s, <2>1, <2>2 DEF LateInv, Kind
  <2>5. BarredInv'
    BY <2>1 DEF BarredInv, Admitted
  <2>6. DurableInv'
    BY <1>r, <1>s, <2>1 DEF DurableInv
  <2> QED
    BY <2>3, <2>4, <2>5, <2>6
<1>2. ASSUME NEW q \in Request, ReadSession(q) PROVE Rest
  <2>1. \A p \in Request \ {q} : req'[p] = req[p]
    BY <1>2, <1>f DEF ReadSession, Refuse
  <2>2. active' = active /\ req[q].step = "session"
    BY <1>2 DEF ReadSession
  <2>3. CASE ~Valid(req[q].sid)
    <3>1. req'[q] = [NewRequest EXCEPT !.step = "refused"]
      BY <1>2, <1>f, <2>3 DEF ReadSession, Refuse
    <3> QED
      BY <1>r, <1>s, <2>1, <2>2, <3>1
         DEF LoadedUnrevoked, LateInv, BarredInv, DurableInv, NewRequest
  <2>4. CASE Valid(req[q].sid)
    <3>0. PICK x \in Row : req'[q] = [req[q] EXCEPT !.step = NextStep(q),
                                                  !.loaded = row[req[q].sid], !.object = x]
      <4> DEFINE mark == IF req[q].kind = "logout"
                         THEN [row[req[q].sid] EXCEPT !.revoked = TRUE]
                         ELSE row[req[q].sid]
      <4>1. mark \in Row
        BY <1>f, <1>s DEF Row
      <4>2. req'[q] = [req[q] EXCEPT !.step = NextStep(q),
                                     !.loaded = row[req[q].sid], !.object = mark]
        BY <1>2, <1>f, <2>4 DEF ReadSession
      <4> QED
        BY <4>1, <4>2
    <3>1. /\ req'[q].step = NextStep(q) /\ req'[q].loaded = row[req[q].sid]
          /\ req'[q].sid = req[q].sid /\ req'[q].kind = req[q].kind
          /\ req'[q].late = req[q].late /\ req'[q].barred = req[q].barred
      BY <1>s, <3>0 DEF RequestState
    <3>2. ~row[req[q].sid].revoked
      BY <2>4 DEF Valid
    <3>3. LoadedUnrevoked'
      BY <2>1, <3>1, <3>2 DEF LoadedUnrevoked
    <3>4. LateInv'
      BY <1>r, <1>s, <2>1, <3>1, <3>2 DEF LateInv
    <3>5. req[q].kind = "refresh" => NextStep(q) \in {"reusing", "user"}
      BY DEF NextStep
    <3>6. BarredInv'
      BY <2>1, <2>2, <3>1, <3>5 DEF BarredInv, Admitted
    <3>7. NextStep(q) \notin {"reuse", "inactive"}
      BY DEF NextStep
    <3>8. DurableInv'
      BY <1>r, <1>s, <2>1, <3>1, <3>7 DEF DurableInv
    <3> QED
      BY <3>3, <3>4, <3>6, <3>8
  <2> QED
    BY <2>3, <2>4
<1>3. ASSUME NEW q \in Request, ReadUser(q) PROVE Rest
  <2>1. /\ \A p \in Request \ {q} : req'[p] = req[p]
        /\ active' = active /\ req[q].step = "user"
    BY <1>3, <1>f DEF ReadUser, Refuse, Moves
  <2>2. CASE Refuse(q)
    <3>1. req'[q] = [NewRequest EXCEPT !.step = "refused"]
      BY <1>f, <2>2 DEF Refuse
    <3> QED
      BY <1>r, <1>s, <2>1, <3>1
         DEF LoadedUnrevoked, LateInv, BarredInv, DurableInv, NewRequest
  <2>3. CASE ~Refuse(q)
    <3>1. /\ req'[q].loaded = req[q].loaded
          /\ req'[q].sid = req[q].sid /\ req'[q].kind = req[q].kind
          /\ req'[q].late = req[q].late /\ req'[q].barred = req[q].barred
          /\ \/ ~active /\ req[q].kind = "refresh" /\ req'[q].step = "barring"
             \/ active /\ req[q].kind \in {"call", "logout"} /\ req'[q].step = "session"
             \/ active /\ req[q].kind \in {"login", "refresh"} /\ req'[q].step = "dirty"
      <4>2. CASE ~active
        <5>1. req[q].kind = "refresh" /\ Moves(q, "barring")
          BY <1>3, <2>3, <4>2 DEF ReadUser, IsActive
        <5> QED
          BY <1>f, <4>2, <5>1 DEF Moves, RequestState
      <4>3. CASE active /\ req[q].kind \in {"call", "logout"}
        <5>1. Moves(q, "session")
          BY <1>3, <2>3, <4>3 DEF ReadUser, IsActive
        <5> QED
          BY <1>f, <4>3, <5>1 DEF Moves, RequestState
      <4>4. CASE active /\ req[q].kind \in {"login", "refresh"}
        <5>1. req' = [req EXCEPT ![q] =
                       [@ EXCEPT !.step = "dirty", !.object.jti = minted + 1]]
          BY <1>3, <2>3, <4>4 DEF ReadUser, IsActive
        <5> QED
          BY <1>f, <4>4, <5>1 DEF RequestState
      <4> QED
        BY <1>3, <1>f, <4>2, <4>3, <4>4 DEF RequestState, Kind
    <3>2. LoadedUnrevoked' /\ DurableInv'
      BY <1>r, <1>s, <2>1, <3>1 DEF LoadedUnrevoked, DurableInv
    <3>3. LateInv'
      BY <1>r, <1>s, <2>1, <3>1 DEF LateInv
    <3>4. BarredInv'
      BY <2>1, <3>1 DEF BarredInv, Admitted
    <3> QED
      BY <3>2, <3>3, <3>4
  <2> QED
    BY <2>2, <2>3
<1>4. ASSUME NEW q \in Request, FlushChanges(q) \/ CommitRequest(q) \/ Respond(q)
      PROVE  Rest
  <2>1. req[q].step \in Admitted /\ req'[q].step \in Admitted
    BY <1>4, <1>f DEF FlushChanges, CommitRequest, Respond, Moves, Ends, Admitted, RequestState
  <2>2. /\ \A p \in Request \ {q} : req'[p] = req[p]
        /\ active' = active
        /\ req'[q].late = req[q].late /\ req'[q].barred = req[q].barred
        /\ req'[q].loaded \in {req[q].loaded, NoRow}
    BY <1>4, <1>f DEF FlushChanges, CommitRequest, Respond, Moves, Ends, RequestState
  <2>3. LoadedUnrevoked'
    BY <2>2 DEF LoadedUnrevoked
  <2>4. LateInv'
    BY <1>r, <1>s, <2>1, <2>2 DEF LateInv, Admitted
  <2>5. BarredInv'
    BY <2>1, <2>2 DEF BarredInv
  <2>6. DurableInv'
    BY <1>r, <1>s, <2>1, <2>2 DEF DurableInv, Admitted
  <2> QED
    BY <2>3, <2>4, <2>5, <2>6
<1>5. ASSUME NEW q \in Request, RevokeAndRaise(q) PROVE Rest
  <2> DEFINE s == req[q].sid
             x == [req[q].loaded EXCEPT !.revoked = TRUE]
  <2>1. /\ \A p \in Request \ {q} : req'[p] = req[p]
        /\ active' = active
        /\ req'[q].loaded = NoRow
        /\ req'[q].sid = s /\ req'[q].kind = req[q].kind
        /\ req'[q].late = req[q].late /\ req'[q].barred = req[q].barred
        /\ req[q].step \in {"reusing", "barring"}
        /\ req'[q].step \in {"reuse", "inactive"}
    BY <1>5, <1>f DEF RevokeAndRaise, Ends, RequestState
  <2>2. x \in Row /\ x.revoked
    BY <1>s DEF RequestState, Row
  <2>3. Flush(row[s], req[q].loaded, x).revoked
    BY <1>f, <1>s, <2>2, FlushKeepsRevoked DEF RequestState, LoadedUnrevoked
  <2>4. row'[s].revoked
    BY <1>5, <1>f, <1>s, <2>3 DEF RevokeAndRaise
  <2>5. LoadedUnrevoked'
    BY <2>1 DEF LoadedUnrevoked
  <2>6. LateInv' /\ BarredInv'
    BY <1>r, <1>s, <2>1 DEF LateInv, BarredInv, Admitted
  <2>7. DurableInv'
    BY <1>r, <1>s, <2>1, <2>4 DEF DurableInv
  <2> QED
    BY <2>5, <2>6, <2>7
<1>6. ASSUME NEW q \in Request, Abort(q) PROVE Rest
  <2>1. /\ \A p \in Request \ {q} : req'[p] = req[p]
        /\ active' = active
        /\ req'[q] = [NewRequest EXCEPT !.step = "refused"]
    BY <1>6, <1>f DEF Abort, Refuse
  <2> QED
    BY <1>r, <1>s, <2>1 DEF LoadedUnrevoked, LateInv, BarredInv, DurableInv, NewRequest
<1>7. ASSUME SetStatus PROVE Rest
  <2>1. \A q \in Request :
          /\ req'[q].loaded = req[q].loaded /\ req'[q].step = req[q].step
          /\ req'[q].sid = req[q].sid /\ req'[q].kind = req[q].kind
          /\ req'[q].late = req[q].late
          /\ req'[q].barred = (req[q].barred /\ active)
    BY <1>7, <1>s DEF SetStatus, RequestState
  <2>2. LoadedUnrevoked' /\ LateInv' /\ DurableInv'
    BY <1>r, <1>s, <2>1 DEF LoadedUnrevoked, LateInv, DurableInv
  <2>3. BarredInv'
    BY <2>1 DEF BarredInv
  <2> QED
    BY <2>2, <2>3
<1>8. ASSUME (\E s \in Ageing : Lapse(s)) \/ UNCHANGED vars PROVE Rest
  <2>1. req' = req /\ row' = row /\ active' = active
    BY <1>8 DEF Lapse, vars
  <2> QED
    BY <2>1 DEF LoadedUnrevoked, LateInv, BarredInv, DurableInv
<1>9. ASSUME NEW q \in Request, ArriveLogin(q) \/ ArriveRefresh(q) \/ ArriveCall(q)
      PROVE  Rest
  <2>1. PICK kind \in Kind, s \in Session, j \in Nat :
          Arrive(q, kind, s, j) /\ (kind = "login" => ~Exists(s))
    BY <1>9, <1>t DEF ArriveLogin, ArriveRefresh, ArriveCall, Kind, TypeOK, Token
  <2> QED
    BY <1>1, <2>1
<1> QED
  BY <1>t, <1>2, <1>3, <1>4, <1>5, <1>6, <1>7, <1>8, <1>9 DEF Next, Handle

-----------------------------------------------------------------------------
THEOREM AccessInvHolds == SafeSpec => []AccessInv
<1> QED
  BY AccessInit, AccessStep, PTL DEF SafeSpec

\* Type correctness, for any sessions, requests and deployment order.
THEOREM TypeCorrect == SafeSpec => []TypeOK
<1>1. AccessInv => TypeOK
  BY DEF AccessInv
<1> QED
  BY AccessInvHolds, <1>1, PTL

\* A revoked session stays revoked through every later write of its row, a
\* refresh that was in flight when it was revoked included.
THEOREM RevocationIsFinal == SafeSpec => RevokedForever
<1>1. AccessInv /\ [Next]_vars =>
        [\A s \in Session : row[s].revoked => row'[s].revoked]_vars
  BY RevokedKept DEF AccessInv
<1> QED
  BY AccessInvHolds, <1>1, PTL DEF RevokedForever, SafeSpec

\* Logout takes effect on every request that comes in after it was committed.
THEOREM LogoutKeepsOut == SafeSpec => []NoEntryAfterRevocation
<1>1. AccessInv => NoEntryAfterRevocation
  BY DEF AccessInv, LateInv, NoEntryAfterRevocation, Admitted
<1> QED
  BY AccessInvHolds, <1>1, PTL

\* Disabling the account keeps out every request that comes in afterwards.
THEOREM DisablingKeepsOut == SafeSpec => []DisabledStaysOut
<1>1. AccessInv => DisabledStaysOut
  BY DEF AccessInv, BarredInv, DisabledStaysOut
<1> QED
  BY AccessInvHolds, <1>1, PTL

\* The refusals that announce a revocation are never rolled back.
THEOREM RefusalsAreDurable == SafeSpec => []RefusalIsDurable
<1>1. AccessInv => RefusalIsDurable
  BY DEF AccessInv, DurableInv, RefusalIsDurable
<1> QED
  BY AccessInvHolds, <1>1, PTL

-----------------------------------------------------------------------------
(* Rotation: which jti is where. *)

\* A request that has drawn a jti and not stored it yet.
Minting(q) ==
    req[q].kind \in {"login", "refresh"} /\ req[q].step \in {"dirty", "flushed", "answered"}

\* Every jti in use was drawn; uuid4 draws the next one afresh.
DrawnInv ==
    /\ \A s \in Session : row[s].jti <= minted
    /\ superseded \subseteq 1 .. minted

\* The current jti of a session is no superseded one and no other session's.
CurrentInv ==
    \A s \in Session :
        /\ row[s].jti \notin superseded
        /\ \A t \in Session \ {s} : row[s].jti = row[t].jti => row[s].jti = 0

\* A jti that is not stored yet is in no row, was in none, is no other
\* request's, and differs from the one loaded, so that the flush writes it.
FreshInv ==
    \A q \in Request : Minting(q) =>
        /\ req[q].object.jti \in (1 .. minted) \ superseded
        /\ req[q].object.jti # req[q].loaded.jti
        /\ \A s \in Session : row[s].jti # req[q].object.jti
        /\ \A p \in Request \ {q} : Minting(p) => req[p].object.jti # req[q].object.jti

\* The token of session s with jti j is or was its current one.
Rotated(s, j) == j # 0 /\ (j = row[s].jti \/ j \in superseded)

\* When the commit precedes the answer, clients hold only such tokens.
ClientsInv == order = "commit_first" => \A t \in delivered : Rotated(t[1], t[2])

\* What a request has in hand: one that draws no jti leaves the column alone;
\* a refresh with a superseded token stops at the comparison; with the commit
\* first, a token presented was delivered, one about to be delivered is stored,
\* and one that failed the comparison was superseded.
Sound(q) ==
    /\ req[q].loaded.jti <= minted
    /\ req[q].kind \notin {"login", "refresh"} => req[q].object.jti = req[q].loaded.jti
    /\ req[q].stale => /\ req[q].jti \in superseded /\ req[q].kind = "refresh"
                       /\ req[q].step \in {"session", "reusing", "reuse"}
    /\ order = "commit_first" =>
         /\ req[q].kind = "refresh" /\ req[q].step = "session"
              => <<req[q].sid, req[q].jti>> \in delivered
         /\ req[q].kind \in {"login", "refresh"} /\ req[q].step = "committed"
              => Rotated(req[q].sid, req[q].object.jti)
         /\ req[q].step \in {"reusing", "reuse"} => req[q].jti \in superseded

RotationInv ==
    /\ TypeOK /\ DrawnInv /\ CurrentInv /\ FreshInv /\ ClientsInv
    /\ \A q \in Request : Sound(q)

LEMMA RotationInit == Init => RotationInv
<1> SUFFICES ASSUME Init PROVE RotationInv
  OBVIOUS
<1>1. TypeOK
  BY AccessInit DEF AccessInv
<1> USE SessionsAssumption DEF Init
<1>2. \A s \in Session : row[s].jti = IF s = Opened THEN 1 ELSE 0
  BY DEF NoRow
<1>3. DrawnInv /\ CurrentInv
  BY <1>2 DEF DrawnInv, CurrentInv
<1>4. ClientsInv
  BY <1>2 DEF ClientsInv, Rotated
<1>5. \A q \in Request : ~Minting(q) /\ Sound(q)
  BY DEF Minting, Sound, NewRequest, NoRow
<1> QED
  BY <1>1, <1>3, <1>4, <1>5 DEF RotationInv, FreshInv

\* A request that does not step stays sound while the others do.
Same(p) ==
    /\ req'[p].kind = req[p].kind /\ req'[p].step = req[p].step
    /\ req'[p].sid = req[p].sid /\ req'[p].jti = req[p].jti
    /\ req'[p].loaded = req[p].loaded /\ req'[p].object = req[p].object
    /\ req'[p].stale = req[p].stale
Grows ==
    /\ order' = order /\ minted \in Nat /\ minted' \in Nat /\ minted <= minted'
    /\ superseded \subseteq superseded' /\ delivered \subseteq delivered'
    /\ \A s \in Session, j \in Nat :
           Rotated(s, j) => j # 0 /\ (j = row'[s].jti \/ j \in superseded')
LEMMA SoundKept ==
  ASSUME TypeOK, Grows, NEW p \in Request, Sound(p), Same(p)
  PROVE  Sound(p)' /\ Minting(p)' = Minting(p)
<1>1. req[p].loaded.jti \in Nat /\ req[p].sid \in Session /\ req[p].object.jti \in Nat
  BY DEF TypeOK, RequestState, Row
<1>2. req'[p].loaded.jti <= minted'
  BY <1>1 DEF Sound, Same, Grows
<1>3. Rotated(req[p].sid, req[p].object.jti) =>
        /\ req[p].object.jti # 0
        /\ req[p].object.jti = row'[req[p].sid].jti \/ req[p].object.jti \in superseded'
  BY <1>1 DEF Grows
<1>4. Rotated(req[p].sid, req[p].object.jti) => Rotated(req[p].sid, req[p].object.jti)'
  BY <1>3 DEF Rotated, Same
<1>5. order' = "commit_first" =>
         /\ req'[p].kind = "refresh" /\ req'[p].step = "session"
              => <<req'[p].sid, req'[p].jti>> \in delivered'
         /\ req'[p].kind \in {"login", "refresh"} /\ req'[p].step = "committed"
              => Rotated(req[p].sid, req[p].object.jti)'
         /\ req'[p].step \in {"reusing", "reuse"} => req'[p].jti \in superseded'
  BY <1>4 DEF Sound, Same, Grows
<1>6. Minting(p)' = Minting(p)
  BY DEF Minting, Same
<1> QED
  BY <1>2, <1>5, <1>6 DEF Sound, Same, Grows

\* A step that draws no jti and stores none: what it must keep of each request.
LEMMA QuietStep ==
  ASSUME RotationInv, TypeOK', order' = order, minted' = minted, superseded' = superseded,
         \A s \in Session : row'[s].jti = row[s].jti,
         delivered \subseteq delivered', ClientsInv',
         \A p \in Request : \/ Same(p)
                            \/ /\ Sound(p)'
                               /\ Minting(p)' => /\ Minting(p)
                                                 /\ req'[p].object.jti = req[p].object.jti
                                                 /\ req'[p].loaded.jti = req[p].loaded.jti
  PROVE  RotationInv'
<1> USE DEF RotationInv
<1>1. DrawnInv' /\ CurrentInv'
  BY DEF DrawnInv, CurrentInv
<1>2. Grows
  BY SessionsAssumption DEF Grows, Rotated, TypeOK
<1>3. \A p \in Request :
        /\ Sound(p)'
        /\ Minting(p)' => /\ Minting(p)
                          /\ req'[p].object.jti = req[p].object.jti
                          /\ req'[p].loaded.jti = req[p].loaded.jti
  BY <1>2, SoundKept DEF Same
<1>4. FreshInv'
  BY <1>3 DEF FreshInv
<1> QED
  BY <1>1, <1>3, <1>4

\* The steps that put req[q] aside: an error answer leaves nothing in hand.
LEMMA RefuseSound ==
  ASSUME RotationInv, NEW q \in Request, Refuse(q), minted' = minted
  PROVE  /\ Sound(q)' /\ ~Minting(q)'
         /\ \A p \in Request \ {q} : Same(p)
<1>1. req \in [Request -> RequestState] /\ minted \in Nat
  BY SessionsAssumption DEF RotationInv, TypeOK
<1>2. req'[q] = [NewRequest EXCEPT !.step = "refused"]
  BY <1>1 DEF Refuse
<1>3. \A p \in Request \ {q} : Same(p)
  BY <1>1 DEF Refuse, Same
<1> QED
  BY <1>1, <1>2, <1>3 DEF Sound, Minting, NewRequest, NoRow

\* The fields a request keeps when only its step changes, or when it ends.
LEMMA StepFields ==
  ASSUME TypeOK, NEW q \in Request, NEW t \in Step, Moves(q, t) \/ Ends(q, t)
  PROVE  /\ \A p \in Request \ {q} : Same(p)
         /\ req'[q].step = t
         /\ req'[q].kind = req[q].kind /\ req'[q].sid = req[q].sid
         /\ req'[q].jti = req[q].jti /\ req'[q].stale = req[q].stale
         /\ \/ req'[q].loaded = req[q].loaded /\ req'[q].object = req[q].object
            \/ Ends(q, t) /\ req'[q].loaded = NoRow /\ req'[q].object = NoRow
<1>1. req \in [Request -> RequestState]
  BY DEF TypeOK
<1>2. \A p \in Request \ {q} : Same(p)
  BY <1>1 DEF Moves, Ends, Same
<1>3. CASE Moves(q, t)
  <2>1. req'[q] = [req[q] EXCEPT !.step = t]
    BY <1>1, <1>3 DEF Moves
  <2>2. req[q] \in RequestState
    BY <1>1
  <2> QED
    BY <1>2, <2>1, <2>2 DEF RequestState
<1>4. CASE Ends(q, t)
  <2>1. req'[q] = [req[q] EXCEPT !.step = t, !.loaded = NoRow, !.object = NoRow]
    BY <1>1, <1>4 DEF Ends
  <2>2. req[q] \in RequestState
    BY <1>1
  <2> QED
    BY <1>2, <1>4, <2>1, <2>2 DEF RequestState
<1> QED
  BY <1>3, <1>4

\* What happens around the requests leaves them as they are, barred apart.
LEMMA EnvironmentSame ==
  ASSUME TypeOK, SetStatus \/ (\E s \in Ageing : Lapse(s)) \/ UNCHANGED vars
  PROVE  \A p \in Request : Same(p)
<1>1. CASE SetStatus
  <2> SUFFICES ASSUME NEW p \in Request PROVE Same(p)
    OBVIOUS
  <2> DEFINE r == req[p]
  <2>1. req'[p] = [r EXCEPT !.barred = @ /\ active]
    BY <1>1 DEF SetStatus
  <2>2. r \in RequestState
    BY DEF TypeOK
  <2>3. \A b : /\ [r EXCEPT !.barred = b].kind = r.kind /\ [r EXCEPT !.barred = b].step = r.step
               /\ [r EXCEPT !.barred = b].sid = r.sid /\ [r EXCEPT !.barred = b].jti = r.jti
               /\ [r EXCEPT !.barred = b].loaded = r.loaded
               /\ [r EXCEPT !.barred = b].object = r.object
               /\ [r EXCEPT !.barred = b].stale = r.stale
    BY <2>2 DEF RequestState
  <2> QED
    BY <2>1, <2>3 DEF Same
<1>2. CASE ~SetStatus
  BY <1>2 DEF Same, Lapse, vars
<1> QED
  BY <1>1, <1>2

\* The jti a commit leaves in its row: its own if it drew one.
LEMMA StoredJti ==
  ASSUME RotationInv, NEW q \in Request, CommitRequest(q)
  PROVE  /\ \A s \in Session \ {req[q].sid} : row'[s] = row[s]
         /\ row'[req[q].sid].jti = IF Minting(q) THEN req[q].object.jti ELSE row[req[q].sid].jti
         /\ superseded' = superseded \cup ({row[req[q].sid].jti} \ {row'[req[q].sid].jti, 0})
<1> USE DEF RotationInv
<1> DEFINE s == req[q].sid
           new == Flush(row[s], req[q].loaded, req[q].object)
<1>1. row \in [Session -> Row] /\ req[q] \in RequestState /\ s \in Session
  BY DEF TypeOK, RequestState
<1>2. /\ row' = [row EXCEPT ![s] = new]
      /\ superseded' = superseded \cup ({row[s].jti} \ {new.jti, 0})
  BY DEF CommitRequest, Store
<1>3. new = [jti |-> IF req[q].object.jti # req[q].loaded.jti THEN req[q].object.jti
                                                               ELSE row[s].jti,
             revoked |-> IF req[q].object.revoked # req[q].loaded.revoked
                         THEN req[q].object.revoked ELSE row[s].revoked]
  BY <1>1, FlushRow DEF RequestState
<1>4. row'[s] = new /\ \A t \in Session \ {s} : row'[t] = row[t]
  BY <1>1, <1>2
<1>5. new.jti = IF req[q].object.jti # req[q].loaded.jti THEN req[q].object.jti ELSE row[s].jti
  BY <1>3
<1>6. Minting(q) => req[q].object.jti # req[q].loaded.jti
  BY DEF FreshInv
<1>7. ~Minting(q) => req[q].object.jti = req[q].loaded.jti
  BY DEF Minting, CommitRequest, Sound
<1> QED
  BY <1>2, <1>4, <1>5, <1>6, <1>7

\* A commit that stores a jti supersedes the one it replaces.
LEMMA RotationCommit ==
  ASSUME RotationInv, TypeOK', NEW q \in Request, CommitRequest(q)
  PROVE  RotationInv'
<1> USE DEF RotationInv
<1> DEFINE s == req[q].sid
<1>1. /\ \A t \in Session \ {s} : row'[t] = row[t]
      /\ row'[s].jti = IF Minting(q) THEN req[q].object.jti ELSE row[s].jti
      /\ superseded' = superseded \cup ({row[s].jti} \ {row'[s].jti, 0})
  BY StoredJti
<1>2. order' = order /\ minted' = minted /\ delivered' = delivered /\ minted \in Nat
  BY SessionsAssumption DEF CommitRequest, TypeOK
<1>3. PICK t \in Step : /\ Moves(q, t) \/ Ends(q, t)
                        /\ \/ t = "committed" /\ Moves(q, t) /\ req[q].step = "flushed"
                           \/ t = "granted" /\ order = "respond_first"
  BY DEF CommitRequest, Step, Final
<1>4. /\ \A p \in Request \ {q} : Same(p)
      /\ req'[q].step = t
      /\ req'[q].kind = req[q].kind /\ req'[q].sid = req[q].sid
      /\ req'[q].jti = req[q].jti /\ req'[q].stale = req[q].stale
      /\ \/ req'[q].loaded = req[q].loaded /\ req'[q].object = req[q].object
         \/ t = "granted" /\ req'[q].loaded = NoRow /\ req'[q].object = NoRow
  <2>1. /\ \A p \in Request \ {q} : Same(p)
        /\ req'[q].step = t
        /\ req'[q].kind = req[q].kind /\ req'[q].sid = req[q].sid
        /\ req'[q].jti = req[q].jti /\ req'[q].stale = req[q].stale
        /\ \/ req'[q].loaded = req[q].loaded /\ req'[q].object = req[q].object
           \/ Ends(q, t) /\ req'[q].loaded = NoRow /\ req'[q].object = NoRow
    BY <1>3, StepFields
  <2>2. Moves(q, "committed") =>
            req'[q].loaded = req[q].loaded /\ req'[q].object = req[q].object
    BY DEF Moves, TypeOK, RequestState
  <2> QED
    BY <1>3, <2>1, <2>2
<1>5. req[q].step \in {"flushed", "answered"} /\ ~Minting(q)' /\ ~req[q].stale
  BY <1>3, <1>4 DEF Minting, CommitRequest, Sound
<1>6. /\ s \in Session /\ row[s].jti \in Nat /\ req[q].object.jti \in Nat
      /\ \A p \in Request : req[p].object.jti \in Nat
      /\ \A v \in Session : row[v].jti \in Nat
  BY DEF TypeOK, RequestState, Row
<1>7. CASE ~Minting(q)
  <2>1. row'[s].jti = row[s].jti /\ superseded' = superseded
    BY <1>1, <1>7
  <2>2. \A v \in Session : row'[v].jti = row[v].jti
    BY <1>1, <2>1
  <2>3. req[q].kind \notin {"login", "refresh"}
    BY <1>5, <1>7 DEF Minting
  <2>4. Sound(q)'
    BY <1>2, <1>3, <1>4, <1>5, <2>3 DEF Sound, NoRow
  <2>5. ClientsInv'
    BY <1>2, <2>1, <2>2 DEF ClientsInv, Rotated, TypeOK, Token
  <2> QED
    BY <1>2, <1>4, <1>5, <2>1, <2>2, <2>4, <2>5, QuietStep
<1>8. CASE Minting(q)
  <2> DEFINE n == req[q].object.jti
  <2>1. /\ n \in (1 .. minted) \ superseded
        /\ \A v \in Session : row[v].jti # n
        /\ \A p \in Request \ {q} : Minting(p) => req[p].object.jti # n
    BY <1>8 DEF FreshInv
  <2>2. row'[s].jti = n /\ superseded' = superseded \cup ({row[s].jti} \ {0})
    BY <1>1, <1>6, <1>8, <2>1
  <2>3. DrawnInv'
    <3>1. row[s].jti # 0 => row[s].jti \in 1 .. minted
      BY <1>2, <1>6 DEF DrawnInv
    <3>2. superseded' \subseteq 1 .. minted'
      BY <1>2, <2>2, <3>1 DEF DrawnInv
    <3>3. row'[s].jti <= minted'
      BY <1>2, <2>1, <2>2
    <3>4. \A v \in Session \ {s} : row'[v].jti <= minted'
      BY <1>1, <1>2 DEF DrawnInv
    <3> QED
      BY <3>2, <3>3, <3>4 DEF DrawnInv
  <2>4. CurrentInv'
    <3>1. row'[s].jti \notin superseded'
      BY <1>6, <2>1, <2>2
    <3>2. \A v \in Session \ {s} : row'[v].jti \notin superseded' /\ row'[v].jti # row'[s].jti
      BY <1>1, <1>6, <2>1, <2>2 DEF CurrentInv
    <3>3. \A v, w \in Session \ {s} : v # w /\ row'[v].jti = row'[w].jti => row'[v].jti = 0
      BY <1>1 DEF CurrentInv
    <3> QED
      BY <3>1, <3>2, <3>3 DEF CurrentInv
  <2>5. Grows
    <3>1. \A v \in Session, j \in Nat :
             Rotated(v, j) => j # 0 /\ (j = row'[v].jti \/ j \in superseded')
      BY <1>1, <2>2 DEF Rotated
    <3> QED
      BY <1>2, <2>2, <3>1 DEF Grows
  <2>6. \A p \in Request \ {q} : Sound(p)' /\ Minting(p)' = Minting(p)
    BY <1>4, <2>5, SoundKept
  <2>7. FreshInv'
    <3> SUFFICES ASSUME NEW p \in Request, Minting(p)'
                 PROVE  /\ req'[p].object.jti \in (1 .. minted') \ superseded'
                        /\ req'[p].object.jti # req'[p].loaded.jti
                        /\ \A v \in Session : row'[v].jti # req'[p].object.jti
                        /\ \A u \in Request \ {p} :
                              Minting(u)' => req'[u].object.jti # req'[p].object.jti
      BY DEF FreshInv
    <3>1. p # q /\ Minting(p)
      BY <1>5, <2>6
    <3>2. /\ req[p].object.jti \in (1 .. minted) \ superseded
          /\ req[p].object.jti # req[p].loaded.jti
          /\ \A v \in Session : row[v].jti # req[p].object.jti
          /\ \A u \in Request \ {p} : Minting(u) => req[u].object.jti # req[p].object.jti
      BY <3>1 DEF FreshInv
    <3>3. req'[p].object = req[p].object /\ req'[p].loaded = req[p].loaded
      BY <1>4, <3>1 DEF Same
    <3>4. req[p].object.jti \notin superseded'
      BY <1>6, <2>2, <3>2
    <3>5. \A v \in Session : row'[v].jti # req[p].object.jti
      BY <1>1, <2>1, <2>2, <3>1, <3>2
    <3>6. \A u \in Request \ {p} : Minting(u)' =>
             u # q /\ Minting(u) /\ req'[u].object = req[u].object
      BY <1>4, <1>5, <2>6 DEF Same
    <3> QED
      BY <1>2, <3>2, <3>3, <3>4, <3>5, <3>6
  <2>8. ClientsInv'
    BY <1>2, <2>5 DEF ClientsInv, Grows, Rotated, TypeOK, Token
  <2>9. Sound(q)'
    <3>1. t = "committed" => Rotated(req[q].sid, req[q].object.jti)'
      BY <1>4, <2>1, <2>2 DEF Rotated
    <3> QED
      BY <1>2, <1>3, <1>4, <1>5, <1>8, <3>1 DEF Sound, Minting, NoRow
  <2> QED
    BY <2>3, <2>4, <2>6, <2>7, <2>8, <2>9
<1> QED
  BY <1>7, <1>8

\* A login or a refresh draws the jti it will answer with.
LEMMA RotationMint ==
  ASSUME RotationInv, TypeOK', NEW q \in Request, ReadUser(q),
         req' = [req EXCEPT ![q] = [@ EXCEPT !.step = "dirty", !.object.jti = minted + 1]],
         minted' = minted + 1, req[q].kind \in {"login", "refresh"}
  PROVE  RotationInv'
<1> USE DEF RotationInv
<1>1. /\ order' = order /\ row' = row /\ superseded' = superseded /\ delivered' = delivered
      /\ req[q].step = "user" /\ minted \in Nat /\ minted' \in Nat
  BY SessionsAssumption DEF ReadUser, TypeOK
<1>2. req \in [Request -> RequestState] /\ req[q] \in RequestState
  BY DEF TypeOK
<1>3. /\ req'[q].step = "dirty" /\ req'[q].kind = req[q].kind /\ req'[q].stale = req[q].stale
      /\ req'[q].loaded = req[q].loaded /\ req'[q].object.jti = minted + 1
  BY <1>2 DEF RequestState, Row
<1>4. \A p \in Request \ {q} : Same(p)
  BY <1>2 DEF Same
<1>5. Grows
  BY <1>1 DEF Grows, Rotated
<1>6. \A p \in Request \ {q} : Sound(p)' /\ Minting(p)' = Minting(p)
  BY <1>4, <1>5, SoundKept
<1>7. /\ \A s \in Session : row[s].jti \in Nat /\ row[s].jti <= minted
      /\ \A p \in Request : req[p].loaded.jti \in Nat /\ req[p].loaded.jti <= minted
  BY DEF TypeOK, DrawnInv, Sound, RequestState, Row
<1>8. DrawnInv'
  <2>1. \A s \in Session : row'[s].jti <= minted'
    BY <1>1, <1>7
  <2>2. 1 .. minted \subseteq 1 .. minted'
    BY <1>1
  <2>3. superseded \subseteq 1 .. minted'
    BY <2>2 DEF DrawnInv
  <2> QED
    BY <1>1, <2>1, <2>3 DEF DrawnInv
<1>9. CurrentInv'
  BY <1>1 DEF CurrentInv
<1>10. ClientsInv'
  BY <1>1 DEF ClientsInv, Rotated
<1>11. Sound(q)'
  <2>1. req'[q].loaded.jti <= minted'
    BY <1>1, <1>3, <1>7
  <2>2. ~req[q].stale
    BY <1>1 DEF Sound
  <2> QED
    BY <1>1, <1>3, <2>1, <2>2 DEF Sound
<1>12. FreshInv'
  <2>1. \A p \in Request \ {q} : Minting(p) =>
          /\ req[p].object.jti \in (1 .. minted) \ superseded
          /\ req[p].object.jti # req[p].loaded.jti
          /\ \A s \in Session : row[s].jti # req[p].object.jti
          /\ \A u \in Request \ {p} : Minting(u) => req[u].object.jti # req[p].object.jti
    BY DEF FreshInv
  <2>2. \A p \in Request \ {q} : req'[p].object = req[p].object /\ req'[p].loaded = req[p].loaded
    BY <1>4 DEF Same
  <2>3. minted + 1 \in (1 .. minted') \ superseded
    BY <1>1 DEF DrawnInv
  <2>4. \A s \in Session : row[s].jti # minted + 1
    BY <1>1, <1>7
  <2>5. minted + 1 # req'[q].loaded.jti
    BY <1>1, <1>3, <1>7
  <2>6. \A p \in Request \ {q} : Minting(p) => req[p].object.jti # minted + 1
    BY <1>1, <2>1
  <2>7. /\ req'[q].object.jti \in (1 .. minted') \ superseded'
        /\ req'[q].object.jti # req'[q].loaded.jti
        /\ \A s \in Session : row'[s].jti # req'[q].object.jti
        /\ \A u \in Request \ {q} : Minting(u)' => req'[u].object.jti # req'[q].object.jti
    BY <1>1, <1>3, <1>6, <2>2, <2>3, <2>4, <2>5, <2>6
  <2>8. \A p \in Request \ {q} : Minting(p)' =>
          /\ req'[p].object.jti \in (1 .. minted') \ superseded'
          /\ req'[p].object.jti # req'[p].loaded.jti
          /\ \A s \in Session : row'[s].jti # req'[p].object.jti
          /\ \A u \in Request \ {p} : Minting(u)' => req'[u].object.jti # req'[p].object.jti
    <3> SUFFICES ASSUME NEW p \in Request \ {q}, Minting(p)'
                 PROVE  /\ req'[p].object.jti \in (1 .. minted') \ superseded'
                        /\ req'[p].object.jti # req'[p].loaded.jti
                        /\ \A s \in Session : row'[s].jti # req'[p].object.jti
                        /\ \A u \in Request \ {p} :
                              Minting(u)' => req'[u].object.jti # req'[p].object.jti
      OBVIOUS
    <3>1. Minting(p)
      BY <1>6
    <3>2. \A u \in Request \ {p} : Minting(u)' => req'[u].object.jti # req[p].object.jti
      <4> SUFFICES ASSUME NEW u \in Request \ {p}, Minting(u)'
                   PROVE  req'[u].object.jti # req[p].object.jti
        OBVIOUS
      <4>1. CASE u = q
        BY <1>3, <2>6, <3>1, <4>1
      <4>2. CASE u # q
        BY <1>6, <2>1, <2>2, <3>1, <4>2
      <4> QED
        BY <4>1, <4>2
    <3>3. req[p].object.jti \in (1 .. minted') \ superseded'
      BY <1>1, <2>1, <3>1
    <3> QED
      BY <1>1, <2>1, <2>2, <3>1, <3>2, <3>3
  <2> QED
    BY <2>7, <2>8 DEF FreshInv
<1> QED
  BY <1>6, <1>8, <1>9, <1>10, <1>11, <1>12

\* The row is written without its jti: a revocation.
LEMMA RevokeKeepsJti ==
  ASSUME TypeOK, NEW q \in Request, RevokeAndRaise(q)
  PROVE  \A s \in Session : row'[s].jti = row[s].jti
<1> DEFINE s == req[q].sid
           x == [req[q].loaded EXCEPT !.revoked = TRUE]
<1>1. row \in [Session -> Row] /\ req[q] \in RequestState /\ s \in Session
  BY DEF TypeOK, RequestState
<1>2. x \in Row /\ x.jti = req[q].loaded.jti /\ req[q].loaded \in Row
  BY <1>1 DEF RequestState, Row
<1>3. Flush(row[s], req[q].loaded, x).jti = row[s].jti
  <2> HIDE DEF x
  <2>1. row[s] \in Row
    BY <1>1
  <2>2. Flush(row[s], req[q].loaded, x) =
          [jti |-> IF x.jti # req[q].loaded.jti THEN x.jti ELSE row[s].jti,
           revoked |-> IF x.revoked # req[q].loaded.revoked THEN x.revoked
                                                            ELSE row[s].revoked]
    BY <1>2, <2>1, FlushRow
  <2>3. Flush(row[s], req[q].loaded, x).jti =
          IF x.jti # req[q].loaded.jti THEN x.jti ELSE row[s].jti
    BY <2>2
  <2> QED
    BY <1>2, <2>3
<1>4. row' = [row EXCEPT ![s] = Flush(row[s], req[q].loaded, x)]
  BY DEF RevokeAndRaise
<1> QED
  BY <1>1, <1>3, <1>4

LEMMA RotationStep == RotationInv /\ [Next]_vars => RotationInv'
<1> SUFFICES ASSUME RotationInv, [Next]_vars PROVE RotationInv'
  OBVIOUS
<1> USE DEF RotationInv
<1>t. TypeOK'
  BY TypeStep
<1>f. /\ req \in [Request -> RequestState] /\ row \in [Session -> Row] /\ minted \in Nat
      /\ delivered \subseteq Token
  BY SessionsAssumption DEF TypeOK
<1>1. ASSUME NEW q \in Request, NEW kind \in Kind, NEW s \in Session, NEW j \in Nat,
             Arrive(q, kind, s, j),
             kind = "refresh" => <<s, j>> \in delivered, kind # "refresh" => j = 0
      PROVE  RotationInv'
  <2>1. /\ order' = order /\ row' = row /\ minted' = minted /\ superseded' = superseded
        /\ delivered' = delivered
    BY <1>1 DEF Arrive
  <2>2. /\ req'[q].loaded = NoRow /\ req'[q].object = NoRow
        /\ req'[q].sid = s /\ req'[q].jti = j /\ req'[q].kind = kind
        /\ req'[q].step = (IF kind = "refresh" THEN "session" ELSE "user")
        /\ req'[q].stale = (j \in superseded)
    BY <1>1, <1>f DEF Arrive
  <2>3. \A p \in Request \ {q} : Same(p)
    BY <1>1, <1>f DEF Arrive, Same
  <2>4. 0 \notin superseded
    BY DEF DrawnInv
  <2>5. Sound(q)' /\ ~Minting(q)'
    <3>1. req'[q].stale => kind = "refresh" /\ j \in superseded
      BY <1>1, <2>2, <2>4
    <3>2. req'[q].step \in {"session", "user"} /\ (req'[q].step = "session" <=> kind = "refresh")
      BY <2>2
    <3>3. req'[q].loaded.jti = 0 /\ req'[q].object.jti = 0
      BY <2>2 DEF NoRow
    <3>4. kind = "refresh" => <<req'[q].sid, req'[q].jti>> \in delivered'
      BY <1>1, <2>1, <2>2
    <3>5. req'[q].loaded.jti <= minted'
      BY <1>f, <2>1, <3>3
    <3>6. ~Minting(q)'
      BY <3>2 DEF Minting
    <3> QED
      BY <2>1, <2>2, <3>1, <3>2, <3>3, <3>4, <3>5, <3>6 DEF Sound
  <2>6. ClientsInv'
    BY <2>1 DEF ClientsInv, Rotated
  <2> QED
    BY <1>t, <2>1, <2>3, <2>5, <2>6, QuietStep
<1>2. ASSUME NEW q \in Request, ReadSession(q) PROVE RotationInv'
  <2>1. /\ order' = order /\ row' = row /\ minted' = minted /\ superseded' = superseded
        /\ delivered' = delivered /\ req[q].step = "session"
    BY <1>2 DEF ReadSession
  <2>2. ClientsInv'
    BY <2>1 DEF ClientsInv, Rotated
  <2>3. CASE Refuse(q)
    BY <1>t, <2>1, <2>2, <2>3, RefuseSound, QuietStep
  <2>4. CASE ~Refuse(q)
    <3> DEFINE object == IF req[q].kind = "logout" THEN [row[req[q].sid] EXCEPT !.revoked = TRUE]
                                                   ELSE row[req[q].sid]
    <3>1. req' = [req EXCEPT ![q] = [@ EXCEPT !.step = NextStep(q), !.loaded = row[req[q].sid],
                                              !.object = object]]
      BY <1>2, <2>4 DEF ReadSession
    <3>2. req[q] \in RequestState /\ row[req[q].sid] \in Row /\ req[q].sid \in Session
      BY <1>f DEF RequestState
    <3>3. \A p \in Request \ {q} : Same(p)
      BY <1>f, <3>1 DEF Same
    <3>4. /\ req'[q].step = NextStep(q) /\ req'[q].loaded = row[req[q].sid]
          /\ req'[q].object = object
          /\ req'[q].sid = req[q].sid /\ req'[q].jti = req[q].jti
          /\ req'[q].kind = req[q].kind /\ req'[q].stale = req[q].stale
      BY <1>f, <3>1, <3>2 DEF RequestState
    <3>5. object.jti = row[req[q].sid].jti
      BY <3>2 DEF Row
    <3>6. /\ NextStep(q) \in {"granted", "dirty", "reusing", "user"}
          /\ NextStep(q) = "dirty" => req[q].kind = "logout"
          /\ NextStep(q) = "reusing" <=> req[q].kind = "refresh" /\ req[q].jti # row[req[q].sid].jti
      BY DEF NextStep, JtiMatches
    <3>7. ~Minting(q)'
      BY <3>4, <3>6 DEF Minting
    <3>8. req[q].stale => NextStep(q) = "reusing"
      BY <3>2, <3>6 DEF Sound, CurrentInv
    <3>9. order = "commit_first" /\ NextStep(q) = "reusing" => req[q].jti \in superseded
      <4> SUFFICES ASSUME order = "commit_first", NextStep(q) = "reusing"
                   PROVE  req[q].jti \in superseded
        OBVIOUS
      <4>1. <<req[q].sid, req[q].jti>> \in delivered
        BY <2>1, <3>6 DEF Sound
      <4>2. Rotated(req[q].sid, req[q].jti)
        BY <4>1 DEF ClientsInv
      <4> QED
        BY <3>6, <4>2 DEF Rotated
    <3>10. req'[q].loaded.jti <= minted'
      BY <2>1, <3>2, <3>4 DEF DrawnInv
    <3>11. Sound(q)'
      BY <2>1, <3>4, <3>5, <3>6, <3>8, <3>9, <3>10 DEF Sound
    <3> QED
      BY <1>t, <2>1, <2>2, <3>3, <3>7, <3>11, QuietStep
  <2> QED
    BY <2>3, <2>4
<1>3. ASSUME NEW q \in Request, ReadUser(q) PROVE RotationInv'
  <2>1. /\ order' = order /\ row' = row /\ superseded' = superseded
        /\ delivered' = delivered /\ req[q].step = "user"
    BY <1>3 DEF ReadUser
  <2>2. ClientsInv'
    BY <2>1 DEF ClientsInv, Rotated
  <2>3. CASE Refuse(q) /\ minted' = minted
    BY <1>t, <2>1, <2>2, <2>3, RefuseSound, QuietStep
  <2>4. ASSUME NEW t \in {"barring", "session"}, Moves(q, t), minted' = minted,
               t = "session" => req[q].kind # "refresh"
        PROVE  RotationInv'
    <3>1. t \in Step
      BY DEF Step
    <3>2. /\ \A p \in Request \ {q} : Same(p)
          /\ req'[q].step = t
          /\ req'[q].kind = req[q].kind /\ req'[q].sid = req[q].sid
          /\ req'[q].jti = req[q].jti /\ req'[q].stale = req[q].stale
      BY <2>4, <3>1, StepFields
    <3>3. req'[q].loaded = req[q].loaded /\ req'[q].object = req[q].object
      BY <1>f, <2>4 DEF Moves, RequestState
    <3>4. Sound(q)' /\ ~Minting(q)'
      BY <2>1, <2>4, <3>2, <3>3 DEF Sound, Minting
    <3> QED
      BY <1>t, <2>1, <2>2, <2>4, <3>2, <3>4, QuietStep
  <2>5. CASE /\ minted' = minted + 1 /\ req[q].kind \in {"login", "refresh"}
             /\ req' = [req EXCEPT ![q] =
                  [@ EXCEPT !.step = "dirty", !.object.jti = minted + 1]]
    BY <1>3, <1>t, <2>5, RotationMint
  <2> QED
    BY <1>3, <2>3, <2>4, <2>5 DEF ReadUser
<1>4. ASSUME NEW q \in Request, FlushChanges(q) PROVE RotationInv'
  <2>1. /\ order' = order /\ row' = row /\ minted' = minted /\ superseded' = superseded
        /\ delivered' = delivered /\ req[q].step = "dirty" /\ Moves(q, "flushed")
    BY <1>4 DEF FlushChanges
  <2>2. /\ \A p \in Request \ {q} : Same(p)
        /\ req'[q].step = "flushed"
        /\ req'[q].kind = req[q].kind /\ req'[q].sid = req[q].sid
        /\ req'[q].jti = req[q].jti /\ req'[q].stale = req[q].stale
    BY <2>1, StepFields DEF Step
  <2>3. req'[q].loaded = req[q].loaded /\ req'[q].object = req[q].object
    BY <1>f, <2>1 DEF Moves, RequestState
  <2>4. Sound(q)' /\ Minting(q)' = Minting(q)
    BY <2>1, <2>2, <2>3 DEF Sound, Minting
  <2>5. ClientsInv'
    BY <2>1 DEF ClientsInv, Rotated
  <2> QED
    BY <1>t, <2>1, <2>2, <2>3, <2>4, <2>5, QuietStep
<1>5. ASSUME NEW q \in Request, CommitRequest(q) PROVE RotationInv'
  BY <1>5, <1>t, RotationCommit
<1>6. ASSUME NEW q \in Request, Respond(q) PROVE RotationInv'
  <2>1. /\ order' = order /\ row' = row /\ minted' = minted /\ superseded' = superseded
        /\ delivered \subseteq delivered'
        /\ \A t \in delivered' \ delivered :
             /\ req[q].kind \in {"login", "refresh"}
             /\ t = <<req[q].sid, req[q].object.jti>>
        /\ \/ order = "commit_first" /\ req[q].step = "committed" /\ Ends(q, "granted")
           \/ order = "respond_first" /\ req[q].step = "flushed" /\ Moves(q, "answered")
    BY <1>6 DEF Respond
  <2>2. ClientsInv'
    <3> SUFFICES ASSUME order = "commit_first", NEW t \in delivered' PROVE Rotated(t[1], t[2])'
      BY <2>1 DEF ClientsInv
    <3>1. CASE t \in delivered
      BY <2>1, <3>1 DEF ClientsInv, Rotated
    <3>2. CASE t \notin delivered
      <4>1. Rotated(req[q].sid, req[q].object.jti)
        BY <2>1, <3>2 DEF Sound
      <4>2. t[1] = req[q].sid /\ t[2] = req[q].object.jti
        BY <2>1, <3>2
      <4> QED
        BY <2>1, <4>1, <4>2 DEF Rotated
    <3> QED
      BY <3>1, <3>2
  <2>3. PICK u \in Step : /\ Moves(q, u) \/ Ends(q, u)
                          /\ \/ u = "granted" /\ req[q].step = "committed"
                             \/ u = "answered" /\ req[q].step = "flushed" /\ Moves(q, u)
    BY <2>1 DEF Step, Final
  <2>4. /\ \A p \in Request \ {q} : Same(p)
        /\ req'[q].step = u
        /\ req'[q].kind = req[q].kind /\ req'[q].sid = req[q].sid
        /\ req'[q].jti = req[q].jti /\ req'[q].stale = req[q].stale
        /\ \/ req'[q].loaded = req[q].loaded /\ req'[q].object = req[q].object
           \/ Ends(q, u) /\ req'[q].loaded = NoRow /\ req'[q].object = NoRow
    BY <2>3, StepFields
  <2>5. u = "answered" => req'[q].loaded = req[q].loaded /\ req'[q].object = req[q].object
    BY <1>f, <2>3 DEF Moves, RequestState
  <2>6. Minting(q)' => u = "answered" /\ Minting(q)
    BY <2>3, <2>4 DEF Minting
  <2>7. Sound(q)'
    BY <1>f, <2>1, <2>3, <2>4 DEF Sound, NoRow
  <2> QED
    BY <1>t, <2>1, <2>2, <2>4, <2>5, <2>6, <2>7, QuietStep
<1>7. ASSUME NEW q \in Request, RevokeAndRaise(q) PROVE RotationInv'
  <2>1. /\ order' = order /\ minted' = minted /\ superseded' = superseded
        /\ delivered' = delivered
    BY <1>7 DEF RevokeAndRaise
  <2>2. \A s \in Session : row'[s].jti = row[s].jti
    BY <1>7, RevokeKeepsJti
  <2>3. PICK u \in Step : /\ Ends(q, u)
                          /\ \/ u = "reuse" /\ req[q].step = "reusing"
                             \/ u = "inactive" /\ req[q].step = "barring"
    BY <1>7 DEF RevokeAndRaise, Step, Final
  <2>4. /\ \A p \in Request \ {q} : Same(p)
        /\ req'[q].step = u
        /\ req'[q].kind = req[q].kind /\ req'[q].sid = req[q].sid
        /\ req'[q].jti = req[q].jti /\ req'[q].stale = req[q].stale
        /\ \/ req'[q].loaded = req[q].loaded /\ req'[q].object = req[q].object
           \/ Ends(q, u) /\ req'[q].loaded = NoRow /\ req'[q].object = NoRow
    BY <2>3, StepFields
  <2>5. Sound(q)' /\ ~Minting(q)'
    BY <1>f, <2>1, <2>3, <2>4 DEF Sound, Minting, NoRow
  <2>6. ClientsInv'
    BY <1>f, <2>1, <2>2 DEF ClientsInv, Rotated, Token
  <2> QED
    BY <1>t, <2>1, <2>2, <2>4, <2>5, <2>6, QuietStep
<1>8. ASSUME NEW q \in Request, Abort(q) PROVE RotationInv'
  <2>1. /\ order' = order /\ row' = row /\ minted' = minted /\ superseded' = superseded
        /\ delivered' = delivered /\ Refuse(q)
    BY <1>8 DEF Abort
  <2>2. ClientsInv'
    BY <2>1 DEF ClientsInv, Rotated
  <2> QED
    BY <1>t, <2>1, <2>2, RefuseSound, QuietStep
<1>9. ASSUME SetStatus \/ (\E s \in Ageing : Lapse(s)) \/ UNCHANGED vars
      PROVE  RotationInv'
  <2>1. /\ order' = order /\ row' = row /\ minted' = minted /\ superseded' = superseded
        /\ delivered' = delivered
    BY <1>9 DEF SetStatus, Lapse, vars
  <2>2. \A p \in Request : Same(p)
    BY <1>9, EnvironmentSame
  <2>3. ClientsInv'
    BY <2>1 DEF ClientsInv, Rotated
  <2> QED
    BY <1>t, <2>1, <2>2, <2>3, QuietStep
<1>10. ASSUME NEW q \in Request, ArriveLogin(q) \/ ArriveRefresh(q) \/ ArriveCall(q)
       PROVE  RotationInv'
  <2>1. CASE ArriveLogin(q)
    BY <1>1, <2>1 DEF ArriveLogin, Kind
  <2>2. CASE ArriveRefresh(q)
    <3>1. PICK t \in delivered : Arrive(q, "refresh", t[1], t[2])
      BY <2>2 DEF ArriveRefresh
    <3>2. t[1] \in Session /\ t[2] \in Nat /\ t = <<t[1], t[2]>>
      BY <1>f DEF Token
    <3> QED
      BY <1>1, <3>1, <3>2 DEF Kind
  <2>3. CASE ArriveCall(q)
    <3>1. PICK t \in delivered, kind \in {"call", "logout"} : Arrive(q, kind, t[1], 0)
      BY <2>3 DEF ArriveCall
    <3>2. t[1] \in Session
      BY <1>f DEF Token
    <3> QED
      BY <1>1, <3>1, <3>2 DEF Kind
  <2> QED
    BY <1>10, <2>1, <2>2, <2>3
<1> QED
  BY <1>2, <1>3, <1>4, <1>5, <1>6, <1>7, <1>8, <1>9, <1>10 DEF Next, Handle

\* Where every jti is, for any sessions and requests and either order.
THEOREM RotationInvHolds == SafeSpec => []RotationInv
<1> QED
  BY RotationInit, RotationStep, PTL DEF SafeSpec

\* A refresh token that was superseded when it came in yields no new pair.
THEOREM StaleNeverExchanged == SafeSpec => []StaleTokenRefused
<1>1. RotationInv => StaleTokenRefused
  BY DEF RotationInv, Sound, StaleTokenRefused, Admitted
<1> QED
  BY RotationInvHolds, <1>1, PTL

\* Where the commit precedes the answer, the client that presents the token it
\* was last given is not taken for a thief.
THEOREM ReuseIsGenuine == SafeSpec => []ReuseMeansSuperseded
<1>1. RotationInv => ReuseMeansSuperseded
  BY DEF RotationInv, Sound, ReuseMeansSuperseded
<1> QED
  BY RotationInvHolds, <1>1, PTL

-----------------------------------------------------------------------------
\* The register of sessions.  What a request has in hand is of a row that is
\* there; only a logout has set revoked_at on it; and where the commit precedes
\* the answer, a logout that committed has revoked its session.
Held(q) ==
    /\ req[q].object.revoked => req[q].kind = "logout"
    /\ req[q].loaded.jti # 0 => row[req[q].sid].jti # 0
    /\ req[q].loaded.jti = 0 =>
         /\ req[q].step \notin {"reusing", "barring"}
         /\ req[q].kind = "refresh" => req[q].step # "user"
         /\ req[q].kind = "logout" => req[q].step \notin {"dirty", "flushed", "answered"}
    /\ req[q].kind = "logout" /\ req[q].step \in {"dirty", "flushed", "answered"}
         => req[q].object.revoked
    /\ order = "commit_first" =>
         /\ req[q].step # "answered"
         /\ req[q].kind = "logout" /\ req[q].step \in {"committed", "granted"}
              => row[req[q].sid].revoked

RegisterInv ==
    /\ \A s \in Session : row[s].revoked => row[s].jti # 0
    /\ \A q \in Request : Held(q)

LEMMA RegisterInit == Init => RegisterInv
BY SessionsAssumption DEF Init, RegisterInv, Held, NewRequest, NoRow

\* A commit adds to its row the revocation its object has, and no other.
LEMMA CommitRevokes ==
  ASSUME AccessInv, NEW q \in Request, CommitRequest(q)
  PROVE  row'[req[q].sid].revoked = (row[req[q].sid].revoked \/ req[q].object.revoked)
<1> DEFINE s == req[q].sid
           new == Flush(row[s], req[q].loaded, req[q].object)
<1>1. /\ row \in [Session -> Row] /\ s \in Session /\ row[s] \in Row
      /\ req[q].loaded \in Row /\ req[q].object \in Row /\ ~req[q].loaded.revoked
  BY DEF AccessInv, TypeOK, RequestState, LoadedUnrevoked
<1>2. new.revoked = (row[s].revoked \/ req[q].object.revoked)
  <2>1. new = [jti |-> IF req[q].object.jti # req[q].loaded.jti THEN req[q].object.jti
                                                                ELSE row[s].jti,
               revoked |-> IF req[q].object.revoked # req[q].loaded.revoked
                           THEN req[q].object.revoked ELSE row[s].revoked]
    BY <1>1, FlushRow
  <2>2. new.revoked = IF req[q].object.revoked # req[q].loaded.revoked
                      THEN req[q].object.revoked ELSE row[s].revoked
    BY <2>1
  <2>3. /\ row[s].revoked \in BOOLEAN /\ req[q].loaded.revoked \in BOOLEAN
        /\ req[q].object.revoked \in BOOLEAN
    BY <1>1 DEF Row
  <2> QED
    BY <1>1, <2>2, <2>3
<1>3. row' = [row EXCEPT ![s] = new]
  BY DEF CommitRequest, Store
<1> QED
  BY <1>1, <1>2, <1>3

\* A revocation that is answered with an error sets revoked_at, whatever the row.
LEMMA RaiseRevokes ==
  ASSUME AccessInv, NEW q \in Request, RevokeAndRaise(q)
  PROVE  /\ row'[req[q].sid].revoked
         /\ \A s \in Session \ {req[q].sid} : row'[s] = row[s]
<1> DEFINE s == req[q].sid
           x == [req[q].loaded EXCEPT !.revoked = TRUE]
<1>1. /\ row \in [Session -> Row] /\ s \in Session /\ row[s] \in Row
      /\ req[q].loaded \in Row /\ ~req[q].loaded.revoked
  BY DEF AccessInv, TypeOK, RequestState, LoadedUnrevoked
<1>2. x \in Row /\ x.revoked
  BY <1>1 DEF Row
<1>3. row' = [row EXCEPT ![s] = Flush(row[s], req[q].loaded, x)]
  BY DEF RevokeAndRaise
<1>4. Flush(row[s], req[q].loaded, x).revoked
  <2> HIDE DEF x
  <2> QED
    BY <1>1, <1>2, FlushKeepsRevoked
<1> QED
  BY <1>1, <1>3, <1>4

\* Rows are never taken back: neither their existence nor their revocation.
LEMMA RowsLast ==
  ASSUME AccessInv, RotationInv, [Next]_vars, NEW s \in Session
  PROVE  /\ row[s].revoked => row'[s].revoked
         /\ row[s].jti # 0 => row'[s].jti # 0
<1>1. row[s].revoked => row'[s].revoked
  BY RevokedKept DEF AccessInv
<1>2. ASSUME NEW q \in Request, CommitRequest(q)
      PROVE  row[s].jti # 0 => row'[s].jti # 0
  <2>1. Minting(q) => req[q].object.jti # 0
    BY DEF RotationInv, FreshInv
  <2> QED
    BY <1>2, <2>1, StoredJti
<1>3. ASSUME NEW q \in Request, RevokeAndRaise(q)
      PROVE  row'[s].jti = row[s].jti
  BY <1>3, RevokeKeepsJti DEF AccessInv
<1>4. ASSUME NEW q \in Request,
             ReadSession(q) \/ ReadUser(q) \/ FlushChanges(q) \/ Respond(q) \/ Abort(q)
      PROVE  row' = row
  BY <1>4 DEF ReadSession, ReadUser, FlushChanges, Respond, Abort
<1>5. ASSUME NEW q \in Request, ArriveLogin(q) \/ ArriveRefresh(q) \/ ArriveCall(q)
      PROVE  row' = row
  BY <1>5 DEF ArriveLogin, ArriveRefresh, ArriveCall, Arrive
<1>6. ASSUME SetStatus \/ (\E t \in Ageing : Lapse(t)) \/ UNCHANGED vars
      PROVE  row' = row
  BY <1>6 DEF SetStatus, Lapse, vars
<1> QED
  BY <1>1, <1>2, <1>3, <1>4, <1>5, <1>6 DEF Next, Handle

\* What each step has to show of the request that takes it.
LEMMA HeldStep ==
  ASSUME AccessInv, RotationInv, RegisterInv, [Next]_vars, NEW q \in Request,
         \A p \in Request \ {q} : Same(p),
         \A s \in Session : row'[s].revoked => row'[s].jti # 0,
         Held(q)'
  PROVE  RegisterInv'
<1>1. order' = order
  BY DEF Next, vars, Handle, ArriveLogin, ArriveRefresh, ArriveCall, Arrive, ReadSession,
         ReadUser, FlushChanges, CommitRequest, Respond, RevokeAndRaise, Abort, SetStatus, Lapse
<1>2. ASSUME NEW p \in Request, Same(p) PROVE Held(p)'
  <2>1. req[p].sid \in Session
    BY DEF AccessInv, TypeOK, RequestState
  <2>2. /\ row[req[p].sid].revoked => row'[req[p].sid].revoked
        /\ row[req[p].sid].jti # 0 => row'[req[p].sid].jti # 0
    BY <2>1, RowsLast
  <2> QED
    BY <1>1, <1>2, <2>2 DEF RegisterInv, Held, Same
<1> QED
  BY <1>2 DEF RegisterInv

LEMMA RegisterStep ==
  AccessInv /\ RotationInv /\ RegisterInv /\ [Next]_vars => RegisterInv'
<1> SUFFICES ASSUME AccessInv, RotationInv, RegisterInv, [Next]_vars
             PROVE  RegisterInv'
  OBVIOUS
<1>f. /\ TypeOK /\ req \in [Request -> RequestState] /\ row \in [Session -> Row]
      /\ \A q \in Request : req[q].sid \in Session /\ req[q] \in RequestState
  BY DEF AccessInv, TypeOK, RequestState
<1>1. ASSUME NEW q \in Request, NEW kind \in Kind, NEW s \in Session, NEW j \in Nat,
             Arrive(q, kind, s, j)
      PROVE  RegisterInv'
  <2>1. /\ req'[q].loaded = NoRow /\ req'[q].object = NoRow /\ row' = row
        /\ req'[q].step = (IF kind = "refresh" THEN "session" ELSE "user")
        /\ req'[q].kind = kind
        /\ \A p \in Request \ {q} : Same(p)
    BY <1>1, <1>f DEF Arrive, Same
  <2>2. Held(q)'
    BY <2>1 DEF Held, NoRow
  <2> QED
    BY <2>1, <2>2, HeldStep DEF RegisterInv
<1>2. ASSUME NEW q \in Request, Refuse(q), row' = row PROVE RegisterInv'
  <2>1. req'[q] = [NewRequest EXCEPT !.step = "refused"] /\ \A p \in Request \ {q} : Same(p)
    BY <1>2, <1>f DEF Refuse, Same
  <2>2. Held(q)'
    BY <2>1 DEF Held, NewRequest, NoRow
  <2> QED
    BY <1>2, <2>1, <2>2, HeldStep DEF RegisterInv
<1>3. ASSUME NEW q \in Request, ReadSession(q) PROVE RegisterInv'
  <2>1. row' = row
    BY <1>3 DEF ReadSession
  <2>2. CASE Refuse(q)
    BY <1>2, <2>1, <2>2
  <2>3. CASE ~Refuse(q)
    <3> DEFINE s == req[q].sid
               r == req[q]
               a == row[s]
               t == NextStep(q)
               object == IF r.kind = "logout" THEN [a EXCEPT !.revoked = TRUE] ELSE a
    <3>1. Valid(s) /\ req' = [req EXCEPT ![q] = [r EXCEPT !.step = t, !.loaded = a,
                                                        !.object = object]]
      BY <1>3, <2>3 DEF ReadSession
    <3>2. r \in RequestState /\ a \in Row /\ s \in Session
      BY <1>f
    <3>3. \A p \in Request \ {q} : Same(p)
      BY <1>f, <3>1 DEF Same
    <3>4. /\ req'[q].step = t /\ req'[q].loaded = a /\ req'[q].object = object
          /\ req'[q].sid = s /\ req'[q].kind = r.kind
      <4>1. req'[q] = [r EXCEPT !.step = t, !.loaded = a, !.object = object]
        BY <1>f, <3>1
      <4>2. s = r.sid
        OBVIOUS
      <4> HIDE DEF r, a, t, object, s
      <4> QED
        BY <3>2, <4>1, <4>2 DEF RequestState
    <3>5. a.jti # 0 /\ ~a.revoked
      <4>1. row[s] # NoRow /\ ~row[s].revoked
        BY <3>1 DEF Valid, Exists
      <4> QED
        BY <3>2, <4>1 DEF Row, NoRow
    <3>6. object.revoked <=> r.kind = "logout"
      BY <3>2, <3>5 DEF Row
    <3>7. /\ t \in {"granted", "dirty", "reusing", "user"}
          /\ t = "granted" => r.kind = "call"
      BY <3>2 DEF NextStep, RequestState, Kind
    <3>8. Held(q)'
      <4>1. row'[req'[q].sid].jti # 0
        BY <2>1, <3>4, <3>5
      <4> HIDE DEF r, a, t, object, s
      <4> QED
        BY <3>4, <3>5, <3>6, <3>7, <4>1 DEF Held
    <3> QED
      BY <2>1, <3>3, <3>8, HeldStep DEF RegisterInv
  <2> QED
    BY <2>2, <2>3
\* A step that leaves what the request has in hand, and the row, alone.
<1>4. ASSUME NEW q \in Request, NEW t \in Step, Moves(q, t), row' = row, order' = order,
             req[q].kind = "refresh" /\ t = "barring" => req[q].loaded.jti # 0,
             t = "barring" => req[q].kind = "refresh",
             t = "flushed" => req[q].step = "dirty",
             t = "answered" => req[q].step = "flushed" /\ order = "respond_first",
             t \in {"barring", "session", "flushed", "answered"}
      PROVE  RegisterInv'
  <2>1. /\ \A p \in Request \ {q} : Same(p)
        /\ req'[q].step = t /\ req'[q].kind = req[q].kind /\ req'[q].sid = req[q].sid
    BY <1>4, <1>f, StepFields
  <2>2. req'[q].loaded = req[q].loaded /\ req'[q].object = req[q].object
    BY <1>f, <1>4 DEF Moves, RequestState
  <2>3. Held(q)
    BY DEF RegisterInv
  <2>4. Held(q)'
    BY <1>4, <2>1, <2>2, <2>3 DEF Held
  <2> QED
    BY <1>4, <2>1, <2>4, HeldStep DEF RegisterInv
<1>5. ASSUME NEW q \in Request, ReadUser(q) PROVE RegisterInv'
  <2>1. row' = row /\ order' = order /\ req[q].step = "user" /\ Held(q)
    BY <1>5 DEF ReadUser, RegisterInv
  <2>2. CASE Refuse(q)
    BY <1>2, <2>1, <2>2
  <2>3. CASE req[q].kind = "refresh" /\ Moves(q, "barring")
    <3>1. "barring" \in Step
      BY DEF Step
    <3>2. req[q].loaded.jti # 0
      BY <2>1, <2>3 DEF Held
    <3> HIDE DEF Held
    <3> QED
      BY <1>4, <2>1, <2>3, <3>1, <3>2
  <2>4. CASE req[q].kind \in {"call", "logout"} /\ Moves(q, "session")
    BY <1>4, <2>1, <2>4 DEF Step
  <2>5. CASE /\ req[q].kind \in {"login", "refresh"}
             /\ req' = [req EXCEPT ![q] =
                  [@ EXCEPT !.step = "dirty", !.object.jti = minted + 1]]
    <3> DEFINE r == req[q]
               n == minted + 1
    <3>1. /\ req'[q] = [r EXCEPT !.step = "dirty", !.object.jti = n] /\ r \in RequestState
          /\ \A p \in Request \ {q} : Same(p)
      BY <1>f, <2>5 DEF Same
    <3>2. /\ req'[q].step = "dirty" /\ req'[q].kind = r.kind /\ req'[q].sid = r.sid
          /\ req'[q].loaded = r.loaded /\ req'[q].object.revoked = r.object.revoked
      <4> HIDE DEF r, n
      <4> QED
        BY <3>1 DEF RequestState, Row
    <3>3. Held(q)'
      BY <2>1, <2>5, <3>2 DEF Held
    <3> QED
      BY <2>1, <3>1, <3>3, HeldStep DEF RegisterInv
  <2> QED
    BY <1>5, <2>2, <2>3, <2>4, <2>5 DEF ReadUser
<1>6. ASSUME NEW q \in Request, FlushChanges(q) PROVE RegisterInv'
  BY <1>4, <1>6 DEF FlushChanges, Step
<1>7. ASSUME NEW q \in Request, CommitRequest(q) PROVE RegisterInv'
  <2> DEFINE s == req[q].sid
  <2>1. PICK t \in {"committed", "granted"} :
           /\ Moves(q, t) \/ Ends(q, t)
           /\ t = "granted" => order = "respond_first"
    BY <1>7 DEF CommitRequest
  <2>2. /\ \A p \in Request \ {q} : Same(p)
        /\ req'[q].step = t /\ req'[q].kind = req[q].kind /\ req'[q].sid = req[q].sid
        /\ \/ req'[q].loaded = req[q].loaded /\ req'[q].object = req[q].object
           \/ req'[q].loaded = NoRow /\ req'[q].object = NoRow
    BY <1>f, <2>1, StepFields DEF Step, Final
  <2>3. /\ row'[s].revoked = (row[s].revoked \/ req[q].object.revoked)
        /\ \A u \in Session \ {s} : row'[u] = row[u]
        /\ row[s].jti # 0 => row'[s].jti # 0
        /\ s \in Session
    BY <1>7, <1>f, CommitRevokes, StoredJti, RowsLast
  <2>4. order' = order /\ req[q].step \in {"flushed", "answered"} /\ Held(q)
    BY <1>7 DEF CommitRequest, RegisterInv
  <2>5. Held(q)'
    <3>1. req[q].kind = "logout" => row'[s].revoked
      BY <2>3, <2>4 DEF Held
    <3>2. req[q].loaded.jti # 0 => row'[s].jti # 0
      BY <2>3, <2>4 DEF Held
    <3>3. CASE req'[q].loaded = req[q].loaded /\ req'[q].object = req[q].object
      BY <2>1, <2>2, <2>4, <3>1, <3>2, <3>3 DEF Held
    <3>4. CASE req'[q].loaded = NoRow /\ req'[q].object = NoRow
      BY <2>1, <2>2, <2>4, <3>1, <3>4 DEF Held, NoRow
    <3> QED
      BY <2>2, <3>3, <3>4
  <2>6. \A u \in Session : row'[u].revoked => row'[u].jti # 0
    <3>1. row'[s].revoked => row'[s].jti # 0
      BY <2>3, <2>4 DEF Held, RegisterInv
    <3> QED
      BY <2>3, <3>1 DEF RegisterInv
  <2> QED
    BY <2>2, <2>5, <2>6, HeldStep
<1>8. ASSUME NEW q \in Request, Respond(q) PROVE RegisterInv'
  <2>1. row' = row /\ order' = order
    BY <1>8 DEF Respond
  <2>2. CASE order = "respond_first" /\ req[q].step = "flushed" /\ Moves(q, "answered")
    BY <1>4, <2>1, <2>2 DEF Step
  <2>3. CASE order = "commit_first" /\ req[q].step = "committed" /\ Ends(q, "granted")
    <3>1. /\ \A p \in Request \ {q} : Same(p)
          /\ req'[q].step = "granted" /\ req'[q].kind = req[q].kind
          /\ req'[q].sid = req[q].sid
          /\ req'[q].loaded = NoRow /\ req'[q].object = NoRow
      <4>1. /\ \A p \in Request \ {q} : Same(p)
            /\ req'[q].step = "granted" /\ req'[q].kind = req[q].kind
            /\ req'[q].sid = req[q].sid
        BY <1>f, <2>3, StepFields DEF Step, Final
      <4> QED
        BY <1>f, <2>3, <4>1 DEF Ends, RequestState
    <3>2. Held(q)
      BY DEF RegisterInv
    <3>3. Held(q)'
      BY <2>1, <2>3, <3>1, <3>2 DEF Held, NoRow
    <3> QED
      BY <2>1, <3>1, <3>3, HeldStep DEF RegisterInv
  <2> QED
    BY <1>8, <2>2, <2>3 DEF Respond
<1>9. ASSUME NEW q \in Request, RevokeAndRaise(q) PROVE RegisterInv'
  <2> DEFINE s == req[q].sid
  <2>1. PICK t \in {"reuse", "inactive"} : Ends(q, t)
    BY <1>9 DEF RevokeAndRaise
  <2>2. /\ \A p \in Request \ {q} : Same(p)
        /\ req'[q].step = t /\ req'[q].kind = req[q].kind /\ req'[q].sid = req[q].sid
        /\ req'[q].loaded = NoRow /\ req'[q].object = NoRow
    <3>1. /\ \A p \in Request \ {q} : Same(p)
          /\ req'[q].step = t /\ req'[q].kind = req[q].kind /\ req'[q].sid = req[q].sid
      BY <1>f, <2>1, StepFields DEF Step, Final
    <3> QED
      BY <1>f, <2>1, <3>1 DEF Ends, RequestState
  <2>3. Held(q) /\ req[q].step \in {"reusing", "barring"}
    BY <1>9 DEF RegisterInv, RevokeAndRaise
  <2>4. Held(q)'
    BY <2>2, <2>1 DEF Held, NoRow
  <2>5. \A u \in Session : row'[u].revoked => row'[u].jti # 0
    <3>1. row'[s].jti # 0
      <4>1. row[s].jti # 0
        BY <2>3 DEF Held
      <4>2. row'[s].jti = row[s].jti
        BY <1>9, <1>f, RevokeKeepsJti
      <4> QED
        BY <4>1, <4>2
    <3>2. \A u \in Session \ {s} : row'[u] = row[u]
      BY <1>9, RaiseRevokes
    <3> QED
      BY <3>1, <3>2 DEF RegisterInv
  <2> QED
    BY <2>2, <2>4, <2>5, HeldStep
<1>10. ASSUME NEW q \in Request, Abort(q) PROVE RegisterInv'
  BY <1>2, <1>10 DEF Abort
<1>11. ASSUME SetStatus \/ (\E s \in Ageing : Lapse(s)) \/ UNCHANGED vars
       PROVE  RegisterInv'
  <2>1. \A p \in Request : Same(p)
    BY <1>11, <1>f, EnvironmentSame
  <2>2. row' = row /\ order' = order
    BY <1>11 DEF SetStatus, Lapse, vars
  <2> QED
    BY <2>1, <2>2 DEF RegisterInv, Held, Same
<1>12. ASSUME NEW q \in Request, ArriveLogin(q) \/ ArriveRefresh(q) \/ ArriveCall(q)
       PROVE  RegisterInv'
  BY <1>1, <1>12, <1>f DEF ArriveLogin, ArriveRefresh, ArriveCall, Kind, Token, TypeOK
<1> QED
  BY <1>3, <1>5, <1>6, <1>7, <1>8, <1>9, <1>10, <1>11, <1>12 DEF Next, Handle

\* Where every revocation is, for any sessions and requests and either order.
THEOREM RegisterInvHolds == SafeSpec => []RegisterInv
<1> QED
  BY AccessInvHolds, RotationInvHolds, RegisterInit, RegisterStep, PTL DEF SafeSpec

\* Where the commit precedes the answer, a logout that was answered has revoked
\* its session; the run LogoutAnswered shows that the other order breaks it.
THEOREM LogoutIsImmediateHolds ==
  SafeSpec => [](order = "commit_first" => LogoutIsImmediate)
<1>1. RegisterInv => (order = "commit_first" => LogoutIsImmediate)
  BY DEF RegisterInv, Held, LogoutIsImmediate
<1> QED
  BY RegisterInvHolds, <1>1, PTL

\* What the register shows of one row, and the numbers it calls used.
ShownStatus(s) ==
    IF row[s].revoked THEN "revoked" ELSE IF row[s].jti = 0 THEN "absent" ELSE "open"
ShownToken(s) == IF row[s].revoked THEN 0 ELSE row[s].jti
Known == superseded \cup ({row[s].jti : s \in Session} \ {0})

\* A step that changes the row of one session changes what is shown of it only.
LEMMA ShownRow ==
  ASSUME NEW s \in Session, \A t \in Session \ {s} : row'[t] = row[t]
  PROVE  /\ [t \in Session |-> ShownStatus(t)]' =
              [[t \in Session |-> ShownStatus(t)] EXCEPT ![s] = ShownStatus(s)']
         /\ [t \in Session |-> ShownToken(t)]' =
              [[t \in Session |-> ShownToken(t)] EXCEPT ![s] = ShownToken(s)']
<1>1. \A t \in Session \ {s} : ShownStatus(t)' = ShownStatus(t) /\ ShownToken(t)' = ShownToken(t)
  BY DEF ShownStatus, ShownToken
<1> HIDE DEF ShownStatus, ShownToken
<1> QED
  BY <1>1

LEMMA RegisterSame ==
  ASSUME superseded' = superseded,
         \A s \in Session : row'[s].jti = row[s].jti /\ row'[s].revoked = row[s].revoked
  PROVE  UNCHANGED Register!registerVars
<1>1. \A s \in Session : ShownStatus(s)' = ShownStatus(s) /\ ShownToken(s)' = ShownToken(s)
  BY DEF ShownStatus, ShownToken
<1>2. [s \in Session |-> ShownStatus(s)]' = [s \in Session |-> ShownStatus(s)]
  BY <1>1
<1>3. [s \in Session |-> ShownToken(s)]' = [s \in Session |-> ShownToken(s)]
  BY <1>1
<1>4. {row[s].jti : s \in Session}' = {row[s].jti : s \in Session}
  OBVIOUS
<1> QED
  BY <1>2, <1>3, <1>4 DEF Register!registerVars, ShownStatus, ShownToken

\* A revocation that is written into a row that is there.
LEMMA RegisterRevokes ==
  ASSUME NEW s \in Session, \A t \in Session \ {s} : row'[t] = row[t],
         superseded' = superseded, row'[s].jti = row[s].jti, row[s].jti # 0,
         ~row[s].revoked, row'[s].revoked
  PROVE  Register!Next
<1>1. ShownStatus(s) = "open" /\ ShownStatus(s)' = "revoked" /\ ShownToken(s)' = 0
  BY DEF ShownStatus, ShownToken
<1>2. Known' = Known
  <2>1. \A t \in Session : row'[t].jti = row[t].jti
    OBVIOUS
  <2> QED
    BY <2>1 DEF Known
<1>3. /\ [t \in Session |-> ShownStatus(t)]' =
           [[t \in Session |-> ShownStatus(t)] EXCEPT ![s] = "revoked"]
      /\ [t \in Session |-> ShownToken(t)]' =
           [[t \in Session |-> ShownToken(t)] EXCEPT ![s] = 0]
  BY <1>1, ShownRow
<1>4. [t \in Session |-> ShownStatus(t)][s] = "open"
  BY <1>1
<1>5. Register!Revoke(s)
  BY <1>2, <1>3, <1>4 DEF Register!Revoke, ShownStatus, ShownToken, Known
<1> QED
  BY <1>5 DEF Register!Next

\* A jti that was drawn afresh and is stored.
LEMMA RegisterIssues ==
  ASSUME NEW s \in Session, NEW n \in (1 .. MaxJti) \ Known,
         \A t \in Session \ {s} : row'[t] = row[t],
         superseded' = superseded \cup ({row[s].jti} \ {0}), row'[s].jti = n,
         row'[s].revoked = row[s].revoked
  PROVE  Register!Next
<1>1. n # 0
  BY SessionsAssumption
<1>2. Known' = Known \cup {n}
  BY <1>1 DEF Known
<1>3. /\ [t \in Session |-> ShownStatus(t)]' =
           [[t \in Session |-> ShownStatus(t)] EXCEPT ![s] = ShownStatus(s)']
      /\ [t \in Session |-> ShownToken(t)]' =
           [[t \in Session |-> ShownToken(t)] EXCEPT ![s] = ShownToken(s)']
  BY ShownRow
<1>4. CASE row[s].revoked
  <2>1. /\ [t \in Session |-> ShownStatus(t)][s] = "revoked"
        /\ ShownStatus(s)' = ShownStatus(s) /\ ShownToken(s)' = ShownToken(s)
    BY <1>4 DEF ShownStatus, ShownToken
  <2>2. /\ [t \in Session |-> ShownStatus(t)]' = [t \in Session |-> ShownStatus(t)]
        /\ [t \in Session |-> ShownToken(t)]' = [t \in Session |-> ShownToken(t)]
    <3> HIDE DEF ShownStatus, ShownToken
    <3> QED
      BY <1>3, <2>1
  <2>3. Register!Waste(s)
    BY <1>2, <2>1, <2>2 DEF Register!Waste, ShownStatus, ShownToken, Known
  <2> QED
    BY <2>3 DEF Register!Next
<1>5. CASE ~row[s].revoked
  <2>1. /\ [t \in Session |-> ShownStatus(t)][s] \in {"absent", "open"}
        /\ ShownStatus(s)' = "open" /\ ShownToken(s)' = n
    BY <1>1, <1>5 DEF ShownStatus, ShownToken
  <2>2. /\ [t \in Session |-> ShownStatus(t)]' =
             [[t \in Session |-> ShownStatus(t)] EXCEPT ![s] = "open"]
        /\ [t \in Session |-> ShownToken(t)]' =
             [[t \in Session |-> ShownToken(t)] EXCEPT ![s] = n]
    BY <1>3, <2>1
  <2>3. Register!Issue(s)
    BY <1>2, <2>1, <2>2 DEF Register!Issue, ShownStatus, ShownToken, Known
  <2> QED
    BY <2>3 DEF Register!Next
<1> QED
  BY <1>4, <1>5

LEMMA RegisterFirst == Init => Register!Init
<1> SUFFICES ASSUME Init PROVE Register!Init
  OBVIOUS
<1>1. \A s \in Session : row[s] = IF s = Opened THEN [jti |-> 1, revoked |-> FALSE] ELSE NoRow
  BY DEF Init
<1>2. \A s \in Session : /\ ShownStatus(s) = (IF s = Opened THEN "open" ELSE "absent")
                         /\ ShownToken(s) = (IF s = Opened THEN 1 ELSE 0)
  BY <1>1 DEF ShownStatus, ShownToken, NoRow
<1>3. Known = {1}
  <2>1. \A s \in Session : row[s].jti = IF s = Opened THEN 1 ELSE 0
    BY <1>1 DEF NoRow
  <2> QED
    BY <2>1, SessionsAssumption DEF Known, Init
<1>4. /\ [s \in Session |-> ShownStatus(s)] =
           [s \in Session |-> IF s = Opened THEN "open" ELSE "absent"]
      /\ [s \in Session |-> ShownToken(s)] = [s \in Session |-> IF s = Opened THEN 1 ELSE 0]
  BY <1>2
<1> QED
  BY <1>3, <1>4 DEF Register!Init, ShownStatus, ShownToken, Known

\* Commits and refusals are what the register sees; the rest it does not.
LEMMA RegisterSimulates ==
  AccessInv /\ RotationInv /\ RegisterInv /\ [Next]_vars => [Register!Next]_(Register!registerVars)
<1> SUFFICES ASSUME AccessInv, RotationInv, RegisterInv, [Next]_vars
             PROVE  Register!Next \/ UNCHANGED Register!registerVars
  OBVIOUS
<1>f. TypeOK /\ \A s \in Session : row[s].revoked \in BOOLEAN /\ row[s].jti \in Nat
  BY DEF AccessInv, TypeOK, Row
<1>1. ASSUME NEW q \in Request, CommitRequest(q)
      PROVE  Register!Next \/ UNCHANGED Register!registerVars
  <2> DEFINE s == req[q].sid
             n == req[q].object.jti
  <2>1. s \in Session /\ Held(q)
    BY DEF AccessInv, TypeOK, RequestState, RegisterInv
  <2>2. /\ \A t \in Session \ {s} : row'[t] = row[t]
        /\ row'[s].jti = IF Minting(q) THEN n ELSE row[s].jti
        /\ superseded' = superseded \cup ({row[s].jti} \ {row'[s].jti, 0})
    BY <1>1, StoredJti
  <2>3. row'[s].revoked = (row[s].revoked \/ req[q].object.revoked)
    BY <1>1, CommitRevokes
  <2>4. CASE Minting(q)
    <3>1. /\ n \in (1 .. minted) \ superseded
          /\ \A t \in Session : row[t].jti # n
      BY <2>4 DEF RotationInv, FreshInv
    <3>2. n \in (1 .. MaxJti) \ Known
      <4>1. minted \in Nat /\ minted <= MaxJti
        BY <1>f, SessionsAssumption DEF TypeOK
      <4> QED
        BY <3>1, <4>1, SessionsAssumption DEF Known
    <3>3. row'[s].revoked = row[s].revoked
      <4>1. ~req[q].object.revoked
        BY <2>1, <2>4 DEF Held, Minting
      <4> QED
        BY <1>f, <2>1, <2>3, <4>1
    <3>4. row'[s].jti = n /\ superseded' = superseded \cup ({row[s].jti} \ {0})
      BY <2>1, <2>2, <2>4, <3>1
    <3> QED
      BY <2>1, <2>2, <3>2, <3>3, <3>4, RegisterIssues
  <2>5. CASE ~Minting(q)
    <3>1. row'[s].jti = row[s].jti /\ superseded' = superseded
      BY <2>2, <2>5
    <3>2. CASE row'[s].revoked = row[s].revoked
      BY <2>2, <3>1, <3>2, RegisterSame
    <3>3. CASE row'[s].revoked # row[s].revoked
      <4>1. row'[s].revoked /\ ~row[s].revoked
        BY <1>f, <2>1, <2>3, <3>3
      <4>2. row[s].jti # 0
        BY <2>1, <3>1, <4>1, RegisterStep DEF RegisterInv
      <4> QED
        BY <2>1, <2>2, <3>1, <4>1, <4>2, RegisterRevokes
    <3> QED
      BY <3>2, <3>3
  <2> QED
    BY <2>4, <2>5
<1>2. ASSUME NEW q \in Request, RevokeAndRaise(q)
      PROVE  Register!Next \/ UNCHANGED Register!registerVars
  <2> DEFINE s == req[q].sid
  <2>1. s \in Session /\ Held(q) /\ req[q].step \in {"reusing", "barring"}
    BY <1>2 DEF AccessInv, TypeOK, RequestState, RegisterInv, RevokeAndRaise
  <2>2. /\ row'[s].revoked /\ \A t \in Session \ {s} : row'[t] = row[t]
        /\ row'[s].jti = row[s].jti /\ superseded' = superseded
    BY <1>2, <1>f, <2>1, RaiseRevokes, RevokeKeepsJti DEF RevokeAndRaise
  <2>3. row'[s].revoked = TRUE
    <3>1. TypeOK'
      BY <1>f, TypeStep
    <3> QED
      BY <2>1, <2>2, <3>1 DEF TypeOK, Row
  <2>4. CASE row[s].revoked
    BY <1>f, <2>1, <2>2, <2>3, <2>4, RegisterSame
  <2>5. CASE ~row[s].revoked
    <3>1. row[s].jti # 0
      BY <2>1 DEF Held
    <3> QED
      BY <2>1, <2>2, <2>5, <3>1, RegisterRevokes
  <2> QED
    BY <2>4, <2>5
<1>3. ASSUME row' = row, superseded' = superseded
      PROVE  UNCHANGED Register!registerVars
  BY <1>3, RegisterSame
<1>4. ASSUME NEW q \in Request,
             ReadSession(q) \/ ReadUser(q) \/ FlushChanges(q) \/ Respond(q) \/ Abort(q)
      PROVE  row' = row /\ superseded' = superseded
  BY <1>4 DEF ReadSession, ReadUser, FlushChanges, Respond, Abort
<1>5. ASSUME NEW q \in Request, ArriveLogin(q) \/ ArriveRefresh(q) \/ ArriveCall(q)
      PROVE  row' = row /\ superseded' = superseded
  BY <1>5 DEF ArriveLogin, ArriveRefresh, ArriveCall, Arrive
<1>6. ASSUME SetStatus \/ (\E t \in Ageing : Lapse(t)) \/ UNCHANGED vars
      PROVE  row' = row /\ superseded' = superseded
  BY <1>6 DEF SetStatus, Lapse, vars
<1> QED
  BY <1>1, <1>2, <1>3, <1>4, <1>5, <1>6 DEF Next, Handle

\* However the requests of an account overlap, in either order of commit and
\* answer, its rows implement the register of sessions.
THEOREM KeepsRegisterHolds == SafeSpec => KeepsRegister
<1> QED
  BY AccessInvHolds, RotationInvHolds, RegisterInvHolds, RegisterFirst, RegisterSimulates, PTL
  DEF SafeSpec, KeepsRegister, Register!Spec
=============================================================================
