------------------------ MODULE LoginAttemptsProofs ------------------------
(***************************************************************************)
(* What holds of an account's row for any number of overlapping logins and *)
(* password changes, any limit and any length of the lock.                 *)
(***************************************************************************)
EXTENDS LoginAttempts, TLAPS

\* A request that holds a changed object, the hash it read, the hash it has.
Writing(q) == req[q].step \in {"missing", "dirty", "flushed"}
Old(q) == req[q].loaded.hashed_password
New(q) == req[q].object.hashed_password

\* A login that came in under a lock that is still there has not read the row.
LockInv ==
    \A q \in Request : req[q].barred =>
        /\ IsLocked(account, now)
        /\ req[q].kind = "login" => req[q].step = "reading" /\ req[q].at <= now

\* A request writes the hash back unchanged, or a current one salted by itself.
HashInv ==
    \A q \in Request : Writing(q) => \/ New(q) = Old(q)
                                     \/ New(q).modern /\ New(q).salt = q

\* The salt of a request that has not ended is in no hash that was read: its
\* new hash differs from the one loaded, so the flush writes it.
SaltInv ==
    \A q \in Request : req[q].step \notin Final =>
        /\ account.hashed_password.salt # q
        /\ \A p \in Request : Writing(p) => Old(p).salt # q

\* Without a legacy hash a login leaves the hash alone.
PasswordInv ==
    ~legacy =>
        /\ account.hashed_password.modern
        /\ account.hashed_password.of = current
        /\ \A q \in Request : Writing(q) =>
               /\ Old(q).modern
               /\ IF req[q].kind = "login" THEN New(q) = Old(q)
                                           ELSE New(q) = NewHash(req[q].new, q)

\* Only logins miss.
MissInv == \A q \in Request : req[q].step = "missing" => req[q].kind = "login"

LoginInv == TypeOK /\ LockInv /\ HashInv /\ SaltInv /\ PasswordInv /\ MissInv

-----------------------------------------------------------------------------
LEMMA BlankIsAccount == Blank \in Account /\ NewRequest \in RequestState
<1>1. Blank \in Account
  BY LoginAssumption DEF Blank, Account, Hash
<1> QED
  BY <1>1, LoginAssumption DEF NewRequest, RequestState, Kind, Step, Final

\* What the UPDATE of one object leaves in the account.
LEMMA FlushAccount ==
  ASSUME NEW a \in Account, NEW b \in Account, NEW c \in Account
  PROVE  /\ Flush(a, b, c) \in Account
         /\ Flush(a, b, c).hashed_password =
              IF c.hashed_password # b.hashed_password THEN c.hashed_password
                                                       ELSE a.hashed_password
<1>1. Flush(a, b, c) =
        [failed_login_count |-> IF c.failed_login_count # b.failed_login_count
                                THEN c.failed_login_count ELSE a.failed_login_count,
         locked_until |-> IF c.locked_until # b.locked_until
                          THEN c.locked_until ELSE a.locked_until,
         hashed_password |-> IF c.hashed_password # b.hashed_password
                             THEN c.hashed_password ELSE a.hashed_password]
  BY DEF Flush, Account
<1> QED
  BY <1>1 DEF Account

\* The objects a request may make of the row it read.
LEMMA NewHashType ==
  ASSUME NEW p \in Password, NEW q \in Request
  PROVE  NewHash(p, q) \in Hash /\ NewHash(p, q).modern /\ NewHash(p, q).salt = q
                                /\ NewHash(p, q).of = p
BY DEF NewHash, Hash

LEMMA AfterMissType ==
  ASSUME NEW a \in Account, NEW t \in Nat
  PROVE  /\ AfterMiss(a, t) \in Account
         /\ AfterMiss(a, t).hashed_password = a.hashed_password
<1>1. a.failed_login_count \in Nat
  BY DEF Account
<1>2. t + Lockout \in Nat /\ a.failed_login_count + 1 \in Nat
  BY <1>1, LoginAssumption
<1> DEFINE x == [a EXCEPT !.failed_login_count = 0, !.locked_until = t + Lockout]
           y == [a EXCEPT !.failed_login_count = a.failed_login_count + 1]
<1>4. x \in Account /\ x.hashed_password = a.hashed_password
  BY <1>2 DEF Account
<1>5. y \in Account /\ y.hashed_password = a.hashed_password
  BY <1>2 DEF Account
<1> QED
  BY <1>4, <1>5 DEF AfterMiss

LEMMA AfterSuccessType ==
  ASSUME NEW a \in Account, NEW p \in Password, NEW q \in Request
  PROVE  /\ AfterSuccess(a, p, q) \in Account
         /\ AfterSuccess(a, p, q).hashed_password =
              IF a.hashed_password.modern THEN a.hashed_password ELSE NewHash(p, q)
<1>1. a.hashed_password \in Hash
  BY DEF Account
<1> QED
  BY <1>1, NewHashType DEF AfterSuccess, Account, NeedsRehash

LEMMA ResetType ==
  ASSUME NEW a \in Account, NEW p \in Password, NEW q \in Request
  PROVE  /\ [a EXCEPT !.hashed_password = NewHash(p, q)] \in Account
         /\ [a EXCEPT !.hashed_password = NewHash(p, q)].hashed_password = NewHash(p, q)
BY NewHashType DEF Account

-----------------------------------------------------------------------------
\* The effect on req of ending a request and of changing its object.
LEMMA EndsEffect ==
  ASSUME TypeOK, NEW q \in Request, NEW t \in Final, Ends(q, t)
  PROVE  /\ req' \in [Request -> RequestState]
         /\ req'[q].step = t /\ ~req'[q].barred
         /\ \A p \in Request \ {q} :
                /\ req'[p] = [req[p] EXCEPT !.barred = @ /\ IsLocked(account', now)]
                /\ req'[p].step = req[p].step /\ req'[p].kind = req[p].kind
                /\ req'[p].new = req[p].new /\ req'[p].at = req[p].at
                /\ req'[p].loaded = req[p].loaded /\ req'[p].object = req[p].object
                /\ req'[p].barred = (req[p].barred /\ IsLocked(account', now))
<1>1. [NewRequest EXCEPT !.step = t] \in RequestState
  BY BlankIsAccount DEF RequestState, Step
<1>2. \A p \in Request : req[p] \in RequestState
  BY DEF TypeOK
<1>3. \A p \in Request :
        [req[p] EXCEPT !.barred = @ /\ IsLocked(account', now)] \in RequestState
  BY <1>2 DEF RequestState
<1>4. req'[q] = [NewRequest EXCEPT !.step = t]
  BY DEF Ends
<1>5. \A p \in Request \ {q} :
        req'[p] = [req[p] EXCEPT !.barred = @ /\ IsLocked(account', now)]
  BY DEF Ends
<1>6. req' \in [Request -> RequestState]
  BY <1>1, <1>3 DEF Ends
<1>7. req'[q].step = t /\ ~req'[q].barred
  BY <1>4 DEF NewRequest
<1>8. \A p \in Request \ {q} :
                /\ req'[p].step = req[p].step /\ req'[p].kind = req[p].kind
                /\ req'[p].new = req[p].new /\ req'[p].at = req[p].at
                /\ req'[p].loaded = req[p].loaded /\ req'[p].object = req[p].object
                /\ req'[p].barred = (req[p].barred /\ IsLocked(account', now))
  BY <1>2, <1>5 DEF RequestState
<1> QED
  BY <1>5, <1>6, <1>7, <1>8

LEMMA ChangesEffect ==
  ASSUME TypeOK, NEW q \in Request, NEW t \in Step, NEW x \in Account, Changes(q, t, x)
  PROVE  /\ req' \in [Request -> RequestState]
         /\ req'[q].step = t /\ req'[q].loaded = account /\ req'[q].object = x
         /\ req'[q].kind = req[q].kind /\ req'[q].new = req[q].new
         /\ req'[q].barred = req[q].barred
         /\ \A p \in Request \ {q} : req'[p] = req[p]
<1>1. req[q] \in RequestState /\ account \in Account
  BY DEF TypeOK
<1>2. req' = [req EXCEPT ![q] = [req[q] EXCEPT !.step = t, !.loaded = account, !.object = x]]
  BY DEF Changes, TypeOK
<1>3. [req[q] EXCEPT !.step = t, !.loaded = account, !.object = x] \in RequestState
  BY <1>1 DEF RequestState
<1>4. req'[q] = [req[q] EXCEPT !.step = t, !.loaded = account, !.object = x]
  BY <1>2 DEF TypeOK
<1>5. /\ req'[q].step = t /\ req'[q].loaded = account /\ req'[q].object = x
      /\ req'[q].kind = req[q].kind /\ req'[q].new = req[q].new
      /\ req'[q].barred = req[q].barred
  BY <1>1, <1>4 DEF RequestState
<1> QED
  BY <1>2, <1>3, <1>5 DEF TypeOK

\* What a read decides, as far as the invariants look at it.
LEMMA ReadEffect ==
  ASSUME TypeOK, NEW q \in Request, Read(q)
  PROVE  /\ account' = account /\ now' = now /\ legacy' = legacy
         /\ current' = current /\ misses' = misses /\ shared' = shared
         /\ req[q].step = "reading"
         /\ \/ \E t \in Final : Ends(q, t)
            \/ /\ req[q].kind = "login" => ~IsLocked(account, req[q].at)
               /\ \E t \in {"missing", "dirty"}, x \in Account :
                   /\ Changes(q, t, x)
                   /\ t = "missing" => req[q].kind = "login"
                   /\ IF req[q].kind = "login"
                      THEN \/ x.hashed_password = account.hashed_password
                           \/ /\ ~account.hashed_password.modern
                              /\ x.hashed_password.modern
                              /\ x.hashed_password.salt = q
                      ELSE x.hashed_password = NewHash(req[q].new, q)
<1>1. /\ account \in Account /\ req[q].at \in Nat
      /\ req[q].password \in Password /\ req[q].new \in Password
  BY DEF TypeOK, RequestState
<1>2. AfterMiss(account, req[q].at) \in Account
      /\ AfterMiss(account, req[q].at).hashed_password = account.hashed_password
  BY <1>1, AfterMissType
<1>3. AfterSuccess(account, req[q].password, q) \in Account
      /\ \/ AfterSuccess(account, req[q].password, q).hashed_password = account.hashed_password
         \/ /\ ~account.hashed_password.modern
            /\ AfterSuccess(account, req[q].password, q).hashed_password.modern
            /\ AfterSuccess(account, req[q].password, q).hashed_password.salt = q
  BY <1>1, AfterSuccessType, NewHashType
<1>4. [account EXCEPT !.hashed_password = NewHash(req[q].new, q)] \in Account
      /\ [account EXCEPT !.hashed_password = NewHash(req[q].new, q)].hashed_password
           = NewHash(req[q].new, q)
  BY <1>1, ResetType
<1>5. /\ account' = account /\ now' = now /\ legacy' = legacy
      /\ current' = current /\ misses' = misses /\ shared' = shared
      /\ req[q].step = "reading"
  BY DEF Read
<1>6. CASE Ends(q, "refused")
  BY <1>5, <1>6 DEF Final
<1>7. CASE /\ req[q].kind = "login" /\ ~IsLocked(account, req[q].at)
           /\ Changes(q, "missing", AfterMiss(account, req[q].at))
  BY <1>2, <1>5, <1>7
<1>8. CASE /\ req[q].kind = "login" /\ ~IsLocked(account, req[q].at)
           /\ Changes(q, "dirty", AfterSuccess(account, req[q].password, q))
  BY <1>3, <1>5, <1>8
<1>9. CASE /\ req[q].kind # "login"
           /\ Changes(q, "dirty", [account EXCEPT !.hashed_password = NewHash(req[q].new, q)])
  BY <1>4, <1>5, <1>9
<1> QED
  BY <1>6, <1>7, <1>8, <1>9 DEF Read

-----------------------------------------------------------------------------
LEMMA LoginInit == Init => LoginInv
<1> SUFFICES ASSUME Init PROVE LoginInv
  OBVIOUS
<1> USE LoginAssumption, BlankIsAccount
<1>1. /\ account \in Account /\ account.hashed_password.of = First
      /\ account.hashed_password.salt = NoSalt
      /\ legacy \/ account.hashed_password.modern
  <2>1. PICK m \in BOOLEAN : m = ~legacy
    BY DEF Init
  <2> DEFINE hash == [of |-> First, modern |-> m, salt |-> NoSalt]
  <2>2. account = [Blank EXCEPT !.hashed_password = hash]
    BY <2>1 DEF Init
  <2>3. /\ hash \in Hash /\ hash.of = First /\ hash.salt = NoSalt
        /\ legacy \/ hash.modern
    BY <2>1 DEF Hash
  <2> HIDE DEF hash
  <2>4. account \in Account /\ account.hashed_password = hash
    BY <2>2, <2>3 DEF Account
  <2> QED
    BY <2>3, <2>4
<1>0. /\ now = 1 /\ legacy \in BOOLEAN /\ current = First /\ misses = 0 /\ shared = FALSE
      /\ req = [q \in Request |-> NewRequest]
  BY DEF Init
<1>2. \A q \in Request : req[q] = NewRequest
  BY <1>0
<1>3. NewRequest.step = "new" /\ ~NewRequest.barred
  BY DEF NewRequest
<1>4. TypeOK
  <2>1. req \in [Request -> RequestState]
    BY <1>0
  <2>2. now \in 1 .. MaxNow
    BY <1>0
  <2> QED
    BY <1>0, <1>1, <2>1, <2>2 DEF TypeOK
<1>5. LockInv /\ HashInv /\ MissInv
  BY <1>2, <1>3 DEF LockInv, HashInv, MissInv, Writing
<1>6. SaltInv
  BY <1>1, <1>2, <1>3 DEF SaltInv, Writing
<1>7. PasswordInv
  <2>1. \A q \in Request : ~Writing(q)
    BY <1>2, <1>3 DEF Writing
  <2>2. ~legacy => account.hashed_password.modern /\ account.hashed_password.of = current
    BY <1>0, <1>1
  <2> QED
    BY <2>1, <2>2 DEF PasswordInv
<1> QED
  BY <1>4, <1>5, <1>6, <1>7 DEF LoginInv

\* The effect of an arrival.
LEMMA ArriveEffect ==
  ASSUME TypeOK, NEW q \in Request, Arrive(q)
  PROVE  /\ account' = account /\ now' = now /\ legacy' = legacy
         /\ current' = current /\ misses' = misses /\ shared' \in BOOLEAN
         /\ req[q].step = "new"
         /\ req' \in [Request -> RequestState]
         /\ req'[q].step = "reading" /\ req'[q].at = now
         /\ req'[q].barred = IsLocked(account, now)
         /\ \A p \in Request \ {q} : req'[p] = req[p]
<1>0. IsLocked(account, now) \in BOOLEAN /\ now \in Nat
  BY LoginAssumption DEF TypeOK, IsLocked
<1>1. PICK kind \in Kind, p \in Password, n \in Password :
        req' = [req EXCEPT ![q] =
                  [NewRequest EXCEPT !.kind = kind, !.step = "reading", !.password = p,
                                     !.new = n, !.at = now,
                                     !.barred = IsLocked(account, now)]]
  BY DEF Arrive
<1>2. PICK b \in BOOLEAN : b = IsLocked(account, now)
  BY <1>0
<1> DEFINE x == [NewRequest EXCEPT !.kind = kind, !.step = "reading", !.password = p,
                                   !.new = n, !.at = now, !.barred = b]
<1>3. req' = [req EXCEPT ![q] = x]
  BY <1>1, <1>2
<1>4. x \in RequestState /\ x.step = "reading" /\ x.at = now /\ x.barred = b
  BY <1>0, BlankIsAccount DEF RequestState, Step
<1> HIDE DEF x
<1>5. req' \in [Request -> RequestState] /\ req'[q] = x
  BY <1>3, <1>4 DEF TypeOK
<1>6. \A r \in Request \ {q} : req'[r] = req[r]
  BY <1>3 DEF TypeOK
<1>7. shared' \in BOOLEAN
  BY DEF Arrive, TypeOK
<1> QED
  BY <1>2, <1>4, <1>5, <1>6, <1>7 DEF Arrive

\* The effect of a commit: the row as flushed, the request ended.
LEMMA CommitEffect ==
  ASSUME TypeOK, NEW q \in Request, CommitMiss(q) \/ CommitChanges(q)
  PROVE  /\ account' \in Account /\ misses' \in Nat /\ current' \in Password
         /\ now' = now /\ legacy' = legacy /\ shared' = shared
         /\ account'.hashed_password = IF New(q) # Old(q) THEN New(q)
                                                         ELSE account.hashed_password
         /\ \E t \in Final : Ends(q, t)
         /\ Writing(q)
         /\ current' = IF req[q].step = "missing" \/ req[q].kind = "login" THEN current
                                                                        ELSE req[q].new
<1>1. /\ account \in Account /\ req[q].loaded \in Account /\ req[q].object \in Account
      /\ misses \in Nat /\ current \in Password /\ req[q].new \in Password
  BY DEF TypeOK, RequestState
<1>2. account' = Flush(account, req[q].loaded, req[q].object)
  BY DEF CommitMiss, CommitChanges, Store
<1>3. account' \in Account /\ account'.hashed_password =
        IF New(q) # Old(q) THEN New(q) ELSE account.hashed_password
  BY <1>1, <1>2, FlushAccount DEF New, Old
<1>4. CASE CommitMiss(q)
  BY <1>1, <1>3, <1>4 DEF CommitMiss, Writing, Final
<1>5. CASE CommitChanges(q)
  BY <1>1, <1>3, <1>5 DEF CommitChanges, Writing, Final
<1> QED
  BY <1>4, <1>5

-----------------------------------------------------------------------------
\* Every step keeps the invariant: one lemma for each of its parts that a
\* step can disturb, over the four effects a step can have.
LEMMA ArriveStep == ASSUME LoginInv, NEW q \in Request, Arrive(q) PROVE LoginInv'
<1> USE DEF LoginInv
<1>1. /\ account' = account /\ now' = now /\ legacy' = legacy
      /\ current' = current /\ misses' = misses /\ shared' \in BOOLEAN
      /\ req[q].step = "new"
      /\ req' \in [Request -> RequestState]
      /\ req'[q].step = "reading" /\ req'[q].at = now
      /\ req'[q].barred = IsLocked(account, now)
      /\ \A p \in Request \ {q} : req'[p] = req[p]
  BY ArriveEffect
<1>2. TypeOK'
  BY <1>1 DEF TypeOK
<1>3. LockInv'
  <2>1. now \in Nat
    BY LoginAssumption DEF TypeOK
  <2>2. IsLocked(account, now)' <=> IsLocked(account, now)
    BY <1>1 DEF IsLocked
  <2>3. req'[q].barred => IsLocked(account, now)' /\ req'[q].at <= now'
    BY <1>1, <2>1, <2>2
  <2>4. \A p \in Request \ {q} : req'[p].barred =>
          /\ IsLocked(account, now)'
          /\ req'[p].kind = "login" => req'[p].step = "reading" /\ req'[p].at <= now'
    BY <1>1, <2>2 DEF LockInv
  <2> QED
    BY <1>1, <2>3, <2>4 DEF LockInv
<1>4. ~Writing(q)' /\ \A p \in Request \ {q} : /\ Writing(p)' = Writing(p)
                                               /\ New(p)' = New(p) /\ Old(p)' = Old(p)
  BY <1>1 DEF Writing, New, Old
<1>5. HashInv'
  BY <1>4 DEF HashInv
<1>6. SaltInv'
  BY <1>1, <1>4 DEF SaltInv, Final
<1>7. PasswordInv'
  BY <1>1, <1>4 DEF PasswordInv
<1>8. MissInv'
  BY <1>1 DEF MissInv
<1> QED
  BY <1>2, <1>3, <1>5, <1>6, <1>7, <1>8

\* A request ends and the account's hash is what it was, or what it wrote.
LEMMA EndsStep ==
  ASSUME LoginInv, NEW q \in Request, NEW t \in Final, Ends(q, t),
         now' = now, legacy' = legacy, shared' = shared,
         account' \in Account, misses' \in Nat, current' \in Password,
         \/ /\ account'.hashed_password = account.hashed_password
            /\ current' = current
         \/ /\ Writing(q)
            /\ account'.hashed_password = IF New(q) # Old(q) THEN New(q)
                                                             ELSE account.hashed_password
            /\ current' = IF req[q].step = "missing" \/ req[q].kind = "login" THEN current
                                                                           ELSE req[q].new
  PROVE  LoginInv'
<1>0. TypeOK /\ LockInv /\ HashInv /\ SaltInv /\ PasswordInv /\ MissInv
  BY DEF LoginInv
<1>1. /\ req' \in [Request -> RequestState]
      /\ req'[q].step = t /\ ~req'[q].barred
      /\ \A p \in Request \ {q} :
            /\ req'[p].step = req[p].step /\ req'[p].kind = req[p].kind
            /\ req'[p].new = req[p].new /\ req'[p].at = req[p].at
            /\ req'[p].loaded = req[p].loaded /\ req'[p].object = req[p].object
            /\ req'[p].barred = (req[p].barred /\ IsLocked(account', now))
  <2>1. q \in Request /\ t \in Final /\ Ends(q, t)
    OBVIOUS
  <2> QED
    BY ONLY <1>0, <2>1, EndsEffect
<1> USE DEF LoginInv
<1>2. TypeOK'
  BY <1>1 DEF TypeOK
<1>3. LockInv'
  <2> SUFFICES ASSUME NEW p \in Request, req'[p].barred
               PROVE  /\ IsLocked(account, now)'
                      /\ req'[p].kind = "login" =>
                           req'[p].step = "reading" /\ req'[p].at <= now'
    BY DEF LockInv
  <2>1. p # q
    BY <1>1
  <2>2. req[p].barred /\ IsLocked(account', now)
    BY <1>1, <2>1
  <2>3. req[p].kind = "login" => req[p].step = "reading" /\ req[p].at <= now
    BY <1>0, <2>2 DEF LockInv
  <2> QED
    BY <1>1, <2>1, <2>2, <2>3 DEF IsLocked
<1>4. ~Writing(q)' /\ t \in Final
  BY <1>1 DEF Writing, Final
<1>5. \A p \in Request \ {q} : /\ Writing(p)' = Writing(p)
                               /\ New(p)' = New(p) /\ Old(p)' = Old(p)
  BY <1>1 DEF Writing, New, Old
<1>6. HashInv'
  BY <1>4, <1>5 DEF HashInv
<1>7. \A p \in Request \ {q} : req[p].step \notin Final => account'.hashed_password.salt # p
  <2> SUFFICES ASSUME NEW p \in Request \ {q}, req[p].step \notin Final
               PROVE  account'.hashed_password.salt # p
    OBVIOUS
  <2>1. account.hashed_password.salt # p
    BY DEF SaltInv
  <2>2. Writing(q) => Old(q).salt # p
    BY DEF SaltInv
  <2>3. Writing(q) => New(q) = Old(q) \/ New(q).salt = q
    BY DEF HashInv
  <2> QED
    BY <2>1, <2>2, <2>3
<1>8. SaltInv'
  BY <1>1, <1>4, <1>5, <1>7 DEF SaltInv
<1>9. ~legacy => /\ account'.hashed_password.modern
                 /\ account'.hashed_password.of = current'
  <2> SUFFICES ASSUME ~legacy PROVE /\ account'.hashed_password.modern
                                    /\ account'.hashed_password.of = current'
    OBVIOUS
  <2>1. account.hashed_password.modern /\ account.hashed_password.of = current
    BY DEF PasswordInv
  <2>2. CASE account'.hashed_password = account.hashed_password /\ current' = current
    BY <2>1, <2>2
  <2>3. CASE Writing(q) /\ req[q].kind = "login"
    BY <2>1, <2>3 DEF PasswordInv
  <2>4. CASE Writing(q) /\ req[q].kind # "login"
    <3>1. New(q) = NewHash(req[q].new, q) /\ req[q].step # "missing"
      BY <2>4 DEF PasswordInv, MissInv
    <3>2. req[q].step \notin Final
      BY <2>4 DEF Writing, Final
    <3>3. Old(q).salt # q
      BY <2>4, <3>2 DEF SaltInv
    <3>4. /\ New(q).salt = q /\ New(q).modern /\ New(q).of = req[q].new
      BY <3>1 DEF NewHash
    <3>5. New(q) # Old(q)
      BY <3>3, <3>4
    <3> QED
      BY <2>2, <2>4, <3>1, <3>4, <3>5
  <2> QED
    BY <2>2, <2>3, <2>4
<1>10. PasswordInv'
  BY <1>1, <1>4, <1>5, <1>9 DEF PasswordInv
<1>11. MissInv'
  BY <1>1, <1>4 DEF MissInv, Final
<1> QED
  BY <1>2, <1>3, <1>6, <1>8, <1>10, <1>11

\* A request reads the row and changes its object.
LEMMA ReadStep == ASSUME LoginInv, NEW q \in Request, Read(q) PROVE LoginInv'
<1> USE DEF LoginInv
<1>1. /\ account' = account /\ now' = now /\ legacy' = legacy
      /\ current' = current /\ misses' = misses /\ shared' = shared
      /\ req[q].step = "reading"
  BY ReadEffect
<1>2. CASE \E t \in Final : Ends(q, t)
  BY <1>1, <1>2, EndsStep DEF TypeOK
<1>3. CASE /\ req[q].kind = "login" => ~IsLocked(account, req[q].at)
           /\ \E t \in {"missing", "dirty"}, x \in Account :
                   /\ Changes(q, t, x)
                   /\ t = "missing" => req[q].kind = "login"
                   /\ IF req[q].kind = "login"
                      THEN \/ x.hashed_password = account.hashed_password
                           \/ /\ ~account.hashed_password.modern
                              /\ x.hashed_password.modern
                              /\ x.hashed_password.salt = q
                      ELSE x.hashed_password = NewHash(req[q].new, q)
  <2>1. PICK t \in {"missing", "dirty"}, x \in Account :
                   /\ Changes(q, t, x)
                   /\ t = "missing" => req[q].kind = "login"
                   /\ IF req[q].kind = "login"
                      THEN \/ x.hashed_password = account.hashed_password
                           \/ /\ ~account.hashed_password.modern
                              /\ x.hashed_password.modern
                              /\ x.hashed_password.salt = q
                      ELSE x.hashed_password = NewHash(req[q].new, q)
    BY <1>3
  <2>2. t \in Step /\ t \notin Final
    BY DEF Step, Final
  <2>3. /\ req' \in [Request -> RequestState]
        /\ req'[q].step = t /\ req'[q].loaded = account /\ req'[q].object = x
        /\ req'[q].kind = req[q].kind /\ req'[q].new = req[q].new
        /\ req'[q].barred = req[q].barred
        /\ \A p \in Request \ {q} : req'[p] = req[p]
    BY <2>1, <2>2, ChangesEffect
  <2>4. TypeOK'
    BY <1>1, <2>3 DEF TypeOK
  <2>5. req[q].barred => req[q].kind # "login"
    <3> SUFFICES ASSUME req[q].barred, req[q].kind = "login" PROVE FALSE
      OBVIOUS
    <3>1. IsLocked(account, now) /\ req[q].at <= now
      BY DEF LockInv
    <3>2. now \in Nat /\ req[q].at \in Nat /\ account.locked_until \in Nat
      BY LoginAssumption DEF TypeOK, RequestState, Account
    <3>3. IsLocked(account, req[q].at)
      BY <3>1, <3>2 DEF IsLocked
    <3> QED
      BY <1>3, <3>3
  <2>6. LockInv'
    BY <1>1, <2>3, <2>5 DEF LockInv, IsLocked
  <2>7. /\ Writing(q)' /\ New(q)' = x.hashed_password /\ Old(q)' = account.hashed_password
        /\ \A p \in Request \ {q} : /\ Writing(p)' = Writing(p)
                                    /\ New(p)' = New(p) /\ Old(p)' = Old(p)
    BY <2>3 DEF Writing, New, Old
  <2>8. HashInv'
    BY <2>1, <2>7 DEF HashInv, NewHash
  <2>9. SaltInv'
    BY <1>1, <2>2, <2>3, <2>7 DEF SaltInv, Final
  <2>10. PasswordInv'
    BY <1>1, <2>1, <2>3, <2>7 DEF PasswordInv
  <2>11. MissInv'
    BY <2>1, <2>3 DEF MissInv
  <2> QED
    BY <2>4, <2>6, <2>8, <2>9, <2>10, <2>11
<1> QED
  BY <1>2, <1>3, ReadEffect

\* A step that leaves the row and what the requests will write as they are
\* leaves the bond between the row and the last change as it is.
LEMMA PasswordKept ==
    ASSUME PasswordInv,
           legacy' = legacy, account' = account, current' = current,
           \A p \in Request : /\ Writing(p)' = Writing(p)
                              /\ New(p)' = New(p) /\ Old(p)' = Old(p)
                              /\ req'[p].kind = req[p].kind /\ req'[p].new = req[p].new
    PROVE  PasswordInv'
<1> SUFFICES ASSUME ~legacy
             PROVE  /\ account'.hashed_password.modern
                    /\ account'.hashed_password.of = current'
                    /\ \A q \in Request : Writing(q)' =>
                          /\ Old(q)'.modern
                          /\ IF req'[q].kind = "login" THEN New(q)' = Old(q)'
                             ELSE New(q)' = NewHash(req'[q].new, q)
  BY DEF PasswordInv
<1>1. /\ account.hashed_password.modern /\ account.hashed_password.of = current
  BY DEF PasswordInv
<1>2. ASSUME NEW q \in Request, Writing(q)'
      PROVE  /\ Old(q)'.modern
             /\ IF req'[q].kind = "login" THEN New(q)' = Old(q)'
                ELSE New(q)' = NewHash(req'[q].new, q)
  <2>1. Writing(q)
    BY <1>2
  <2>2. /\ Old(q).modern
        /\ IF req[q].kind = "login" THEN New(q) = Old(q)
           ELSE New(q) = NewHash(req[q].new, q)
    BY <2>1 DEF PasswordInv
  <2>3. /\ New(q)' = New(q) /\ Old(q)' = Old(q)
        /\ req'[q].kind = req[q].kind /\ req'[q].new = req[q].new
    OBVIOUS
  <2> QED
    BY <2>2, <2>3
<1> QED
  BY <1>1, <1>2

\* What a step does, as the invariant sees it.
LEMMA LoginStep == LoginInv /\ [Next]_vars => LoginInv'
<1> SUFFICES ASSUME LoginInv, [Next]_vars PROVE LoginInv'
  OBVIOUS
<1>0. TypeOK
  BY DEF LoginInv
<1>1. CASE Tick
  <2>1. /\ now' = now + 1 /\ now < MaxNow /\ account' = account /\ legacy' = legacy
        /\ current' = current /\ misses' = misses /\ shared' = shared
        /\ req' = [q \in Request |-> [req[q] EXCEPT !.barred = @ /\ IsLocked(account, now')]]
    BY <1>1 DEF Tick
  <2>2. \A q \in Request : req[q] \in RequestState
    BY <1>0 DEF TypeOK
  <2>3. req' \in [Request -> RequestState]
    BY <2>1, <2>2 DEF RequestState
  <2>4. \A p \in Request :
            /\ req'[p].step = req[p].step /\ req'[p].kind = req[p].kind
            /\ req'[p].new = req[p].new /\ req'[p].at = req[p].at
            /\ req'[p].loaded = req[p].loaded /\ req'[p].object = req[p].object
            /\ req'[p].barred = (req[p].barred /\ IsLocked(account, now'))
    BY <2>1, <2>2 DEF RequestState
  <2>5. now' \in 1 .. MaxNow /\ now \in Nat
    BY <1>0, <2>1, LoginAssumption DEF TypeOK
  <2>6. TypeOK'
    BY <1>0, <2>1, <2>3, <2>5 DEF TypeOK
  <2>7. \A p \in Request : req[p].at \in Nat
    BY <2>2 DEF RequestState
  <2>8. LockInv'
    <3> SUFFICES ASSUME NEW p \in Request, req'[p].barred
                 PROVE  /\ IsLocked(account, now)'
                        /\ req'[p].kind = "login" =>
                             req'[p].step = "reading" /\ req'[p].at <= now'
      BY DEF LockInv
    <3>1. req[p].barred /\ IsLocked(account, now')
      BY <2>4
    <3>2. req[p].kind = "login" => req[p].step = "reading" /\ req[p].at <= now
      BY <3>1 DEF LoginInv, LockInv
    <3>3. req[p].at <= now => req[p].at <= now'
      BY <2>1, <2>5, <2>7
    <3> QED
      BY <2>1, <2>4, <3>1, <3>2, <3>3 DEF IsLocked
  <2>9. \A p \in Request : /\ Writing(p)' = Writing(p)
                           /\ New(p)' = New(p) /\ Old(p)' = Old(p)
    BY <2>4 DEF Writing, New, Old
  <2>10. HashInv'
    BY <2>9 DEF LoginInv, HashInv
  <2>11. SaltInv'
    BY <2>1, <2>4, <2>9 DEF LoginInv, SaltInv
  <2>12. \A p \in Request : /\ Writing(p)' = Writing(p)
                            /\ New(p)' = New(p) /\ Old(p)' = Old(p)
                            /\ req'[p].kind = req[p].kind /\ req'[p].new = req[p].new
    BY <2>4, <2>9
  <2>13. PasswordInv
    BY DEF LoginInv
  <2>14. PasswordInv'
    BY <2>1, <2>12, <2>13, PasswordKept
  <2>15. MissInv'
    BY <2>4 DEF LoginInv, MissInv
  <2> QED
    BY <2>6, <2>8, <2>10, <2>11, <2>14, <2>15 DEF LoginInv
<1>2. CASE \E q \in Request : Arrive(q)
  BY <1>2, ArriveStep
<1>3. CASE \E q \in Request : Read(q)
  BY <1>3, ReadStep
<1>4. CASE \E q \in Request : CommitMiss(q) \/ CommitChanges(q)
  <2>1. PICK q \in Request : CommitMiss(q) \/ CommitChanges(q)
    BY <1>4
  <2>2. /\ account' \in Account /\ misses' \in Nat /\ current' \in Password
        /\ now' = now /\ legacy' = legacy /\ shared' = shared
        /\ account'.hashed_password = IF New(q) # Old(q) THEN New(q)
                                                         ELSE account.hashed_password
        /\ Writing(q)
        /\ current' = IF req[q].step = "missing" \/ req[q].kind = "login" THEN current
                                                                        ELSE req[q].new
    BY <1>0, <2>1, CommitEffect
  <2>3. PICK t \in Final : Ends(q, t)
    BY <1>0, <2>1, CommitEffect
  <2> QED
    BY <2>2, <2>3, EndsStep
<1>5. CASE \E q \in Request : FlushChanges(q)
  <2>1. PICK q \in Request : FlushChanges(q)
    BY <1>5
  <2>2. /\ account' = account /\ now' = now /\ legacy' = legacy /\ req[q].step = "dirty"
        /\ current' = current /\ misses' = misses /\ shared' = shared
        /\ req' = [req EXCEPT ![q] = [req[q] EXCEPT !.step = "flushed"]]
    BY <1>0, <2>1 DEF FlushChanges, TypeOK
  <2>3. req[q] \in RequestState /\ [req[q] EXCEPT !.step = "flushed"] \in RequestState
    BY <1>0 DEF TypeOK, RequestState, Step
  <2>4. /\ req' \in [Request -> RequestState]
        /\ req'[q] = [req[q] EXCEPT !.step = "flushed"]
        /\ \A p \in Request \ {q} : req'[p] = req[p]
    BY <1>0, <2>2, <2>3 DEF TypeOK
  <2>5. /\ req'[q].step = "flushed"
        /\ \A p \in Request :
            /\ req'[p].kind = req[p].kind
            /\ req'[p].new = req[p].new /\ req'[p].at = req[p].at
            /\ req'[p].loaded = req[p].loaded /\ req'[p].object = req[p].object
            /\ req'[p].barred = req[p].barred
    BY <2>3, <2>4 DEF RequestState
  <2>6. TypeOK'
    BY <1>0, <2>2, <2>4 DEF TypeOK
  <2>7. LockInv'
    BY <2>2, <2>4, <2>5 DEF LoginInv, LockInv, IsLocked
  <2>8. \A p \in Request : /\ Writing(p)' = Writing(p)
                           /\ New(p)' = New(p) /\ Old(p)' = Old(p)
    BY <2>2, <2>4, <2>5 DEF Writing, New, Old
  <2>9. HashInv'
    BY <2>8 DEF LoginInv, HashInv
  <2>10. \A p \in Request : req'[p].step \notin Final => req[p].step \notin Final
    BY <2>2, <2>4 DEF Final
  <2>11. SaltInv'
    BY <2>2, <2>8, <2>10 DEF LoginInv, SaltInv
  <2>12. \A p \in Request : /\ Writing(p)' = Writing(p)
                            /\ New(p)' = New(p) /\ Old(p)' = Old(p)
                            /\ req'[p].kind = req[p].kind /\ req'[p].new = req[p].new
    BY <2>5, <2>8
  <2>13. PasswordInv
    BY DEF LoginInv
  <2>14. PasswordInv'
    BY <2>2, <2>12, <2>13, PasswordKept
  <2>15. MissInv'
    <3>1. \A p \in Request : req'[p].step = "missing" => req[p].step = "missing"
      BY <2>4, <2>5
    <3>2. \A p \in Request : req'[p].kind = req[p].kind
      BY <2>5
    <3> QED
      BY <3>1, <3>2 DEF LoginInv, MissInv
  <2> QED
    BY <2>6, <2>7, <2>9, <2>11, <2>14, <2>15 DEF LoginInv
<1>6. CASE \E q \in Request : Abort(q)
  BY <1>0, <1>6, EndsStep DEF Abort, Final, TypeOK
<1>7. CASE UNCHANGED vars
  BY <1>7 DEF vars, LoginInv, TypeOK, LockInv, HashInv, SaltInv, PasswordInv, MissInv,
              Writing, New, Old, IsLocked
<1> QED
  BY <1>1, <1>2, <1>3, <1>4, <1>5, <1>6, <1>7 DEF Next, Handle

-----------------------------------------------------------------------------
\* The inductive invariant: what each request in flight holds, and what it
\* will write (authenticate, change_password, update_user).
THEOREM LoginInvHolds == Spec => []LoginInv
BY LoginInit, LoginStep, PTL DEF Spec

\* Every column and every request keeps its type.
THEOREM TypeCorrect == Spec => []TypeOK
<1>1. LoginInv => TypeOK
  BY DEF LoginInv
<1> QED
  BY <1>1, LoginInvHolds, PTL

\* authenticate answers nothing about the password under a lock that is in the
\* table from the request's arrival on, however many requests overlap.
THEOREM LockKeepsOutHolds == Spec => []LockKeepsOut
<1>1. LoginInv => LockKeepsOut
  BY DEF LoginInv, LockInv, LockKeepsOut
<1> QED
  BY <1>1, LoginInvHolds, PTL

\* No write of authenticate, change_password or update_user turns a current
\* hash into a legacy one.
THEOREM NeverDowngradedHolds == Spec => NeverDowngraded
<1>1. LoginInv /\ [Next]_vars =>
        (account.hashed_password.modern => account'.hashed_password.modern)
  <2> SUFFICES ASSUME LoginInv, [Next]_vars, account.hashed_password.modern
               PROVE  account'.hashed_password.modern
    OBVIOUS
  <2>1. CASE account' = account
    BY <2>1
  <2>2. CASE \E q \in Request : CommitMiss(q) \/ CommitChanges(q)
    <3>1. PICK q \in Request : CommitMiss(q) \/ CommitChanges(q)
      BY <2>2
    <3>2. /\ account'.hashed_password = IF New(q) # Old(q) THEN New(q)
                                                           ELSE account.hashed_password
          /\ Writing(q)
      BY <3>1, CommitEffect DEF LoginInv
    <3> QED
      BY <3>2 DEF LoginInv, HashInv
  <2> QED
    BY <2>1, <2>2 DEF Next, Handle, Tick, Arrive, Read, FlushChanges, Abort, vars
<1> QED
  BY <1>1, LoginInvHolds, PTL DEF Spec, NeverDowngraded

\* The last committed change of the password is what the row verifies: no
\* login that read an older row writes its hash back.
THEOREM PasswordIsLastSetHolds == Spec => []PasswordIsLastSet
<1>1. LoginInv => PasswordIsLastSet
  BY DEF LoginInv, PasswordInv, PasswordIsLastSet
<1> QED
  BY <1>1, LoginInvHolds, PTL

-----------------------------------------------------------------------------
\* Until two requests meet, the one in flight holds the row as it is, and what it
\* will write is what its answer tells.
CountAfterMiss(n) == IF n + 1 >= MaxFailed THEN 0 ELSE n + 1
Counts(q) ==
    Writing(q) =>
        /\ req[q].loaded = account
        /\ req[q].object.failed_login_count =
             CASE req[q].step = "missing" -> CountAfterMiss(account.failed_login_count)
               [] req[q].step # "missing" /\ req[q].kind = "login" -> 0
               [] OTHER -> account.failed_login_count
OneAtATime == \A p, q \in Request : InFlight(p) /\ InFlight(q) => p = q
SequenceInv ==
    ~shared => /\ OneAtATime
               /\ account.failed_login_count = misses /\ misses < MaxFailed
               /\ \A q \in Request : Counts(q)

LEMMA FlushCount ==
  ASSUME NEW a \in Account, NEW b \in Account
  PROVE  Flush(a, a, b).failed_login_count = b.failed_login_count
<1>1. Flush(a, a, b) =
        [failed_login_count |-> IF b.failed_login_count # a.failed_login_count
                                THEN b.failed_login_count ELSE a.failed_login_count,
         locked_until |-> IF b.locked_until # a.locked_until
                          THEN b.locked_until ELSE a.locked_until,
         hashed_password |-> IF b.hashed_password # a.hashed_password
                             THEN b.hashed_password ELSE a.hashed_password]
  BY DEF Flush, Account
<1> QED
  BY <1>1

\* What authenticate and the password changes do to the counter.
LEMMA ReadCounts ==
  ASSUME TypeOK, NEW q \in Request, Read(q), Writing(q)'
  PROVE  Counts(q)'
<1>1. account \in Account /\ account' = account /\ req[q] \in RequestState
  BY DEF Read, TypeOK
<1>2. ASSUME NEW t \in Step, NEW x \in Account, Changes(q, t, x)
      PROVE  /\ req'[q].step = t /\ req'[q].loaded = account /\ req'[q].object = x
             /\ req'[q].kind = req[q].kind
  BY <1>2, ChangesEffect
<1>3. "missing" \in Step /\ "dirty" \in Step /\ req[q].at \in Nat
      /\ req[q].password \in Password /\ req[q].new \in Password
  BY <1>1 DEF Step, RequestState
<1>4. CASE Ends(q, "refused")
  <2>1. "refused" \in Final /\ req'[q].step = "refused"
    BY <1>4, EndsEffect DEF Final
  <2> QED
    BY <2>1 DEF Writing
<1>5. CASE req[q].kind = "login" /\ Changes(q, "missing", AfterMiss(account, req[q].at))
  <2>1. AfterMiss(account, req[q].at) \in Account
    BY <1>1, <1>3, AfterMissType
  <2>2. /\ req'[q].step = "missing" /\ req'[q].loaded = account
        /\ req'[q].object = AfterMiss(account, req[q].at)
    BY <1>2, <1>3, <1>5, <2>1
  <2>3. AfterMiss(account, req[q].at).failed_login_count = CountAfterMiss(account.failed_login_count)
    BY <1>1, <1>3 DEF AfterMiss, CountAfterMiss, Account
  <2> QED
    BY <1>1, <2>2, <2>3 DEF Counts
<1>6. CASE req[q].kind = "login" /\ Changes(q, "dirty", AfterSuccess(account, req[q].password, q))
  <2>1. AfterSuccess(account, req[q].password, q) \in Account
    BY <1>1, <1>3, AfterSuccessType
  <2>2. /\ req'[q].step = "dirty" /\ req'[q].loaded = account /\ req'[q].kind = "login"
        /\ req'[q].object = AfterSuccess(account, req[q].password, q)
    BY <1>2, <1>3, <1>6, <2>1
  <2>3. AfterSuccess(account, req[q].password, q).failed_login_count = 0
    BY DEF AfterSuccess
  <2> QED
    BY <1>1, <2>2, <2>3 DEF Counts
<1>7. CASE /\ req[q].kind # "login"
           /\ Changes(q, "dirty", [account EXCEPT !.hashed_password = NewHash(req[q].new, q)])
  <2> DEFINE x == [account EXCEPT !.hashed_password = NewHash(req[q].new, q)]
  <2>1. x \in Account
    BY <1>1, <1>3, ResetType
  <2>2. x.failed_login_count = account.failed_login_count
    BY <1>1 DEF Account
  <2>3. Changes(q, "dirty", x)
    BY <1>7
  <2> HIDE DEF x
  <2>4. /\ req'[q].step = "dirty" /\ req'[q].loaded = account /\ req'[q].kind # "login"
        /\ req'[q].object = x
    BY <1>2, <1>3, <1>7, <2>1, <2>3
  <2> QED
    BY <1>1, <2>2, <2>4 DEF Counts
<1> QED
  BY <1>4, <1>5, <1>6, <1>7 DEF Read

\* Nobody joins, the row stays, and the others write what they held.
LEMMA SequenceKept ==
  ASSUME SequenceInv, UNCHANGED <<account, misses, shared>>,
         \A p \in Request :
            /\ InFlight(p)' => InFlight(p)
            /\ Writing(p)' => \/ Counts(p)'
                              \/ /\ Writing(p) /\ req'[p].kind = req[p].kind
                                 /\ req'[p].loaded = req[p].loaded /\ req'[p].object = req[p].object
                                 /\ req'[p].step = "missing" <=> req[p].step = "missing"
  PROVE  SequenceInv'
<1>1. OneAtATime => OneAtATime'
  BY DEF OneAtATime
<1>2. ASSUME NEW p \in Request, Counts(p) PROVE Counts(p)'
  BY <1>2 DEF Counts, Writing
<1> QED
  BY <1>1, <1>2 DEF SequenceInv
\* A commit of the one request in flight moves counter and history alike.
LEMMA CommitCounts ==
  ASSUME LoginInv, SequenceInv, NEW q \in Request, CommitMiss(q) \/ CommitChanges(q)
  PROVE  SequenceInv'
<1>0. TypeOK /\ account \in Account /\ req[q] \in RequestState /\ req[q].object \in Account
  BY DEF LoginInv, TypeOK, RequestState
<1>1. PICK t \in Final : Ends(q, t)
  BY <1>0, CommitEffect
<1>2. /\ Writing(q) /\ shared' = shared /\ account' = Flush(account, req[q].loaded, req[q].object)
      /\ InFlight(q)
  BY DEF CommitMiss, CommitChanges, Store, Writing, InFlight, Final
<1>3. SUFFICES ASSUME ~shared
               PROVE  /\ OneAtATime'
                      /\ account'.failed_login_count = misses' /\ misses' < MaxFailed
                      /\ \A p \in Request : Counts(p)'
  BY <1>2 DEF SequenceInv
<1>4. /\ req'[q].step \in Final
      /\ \A p \in Request \ {q} : req'[p].step = req[p].step
  BY <1>0, <1>1, EndsEffect
<1>5. \A p \in Request : ~InFlight(p)'
  BY <1>2, <1>3, <1>4 DEF SequenceInv, OneAtATime, InFlight, Final
<1>6. \A p \in Request : ~Writing(p)'
  BY <1>5 DEF InFlight, Writing, Final
<1>7. /\ account'.failed_login_count = req[q].object.failed_login_count
      /\ account.failed_login_count = misses /\ misses < MaxFailed
      /\ misses \in Nat /\ MaxFailed \in Nat \ {0}
      /\ req[q].loaded = account /\ Counts(q)
  BY <1>0, <1>2, <1>3, FlushCount, LoginAssumption DEF SequenceInv, Counts, TypeOK
<1>8. account'.failed_login_count = misses' /\ misses' < MaxFailed
  <2>1. CASE CommitMiss(q)
    <3>1. /\ req[q].step = "missing"
          /\ misses' = IF misses + 1 >= MaxFailed THEN 0 ELSE misses + 1
      BY <1>7, <2>1 DEF CommitMiss
    <3>2. account'.failed_login_count = CountAfterMiss(misses)
      BY <1>2, <1>7, <3>1 DEF Counts
    <3> QED
      BY <1>7, <3>1, <3>2 DEF CountAfterMiss
  <2>2. CASE CommitChanges(q)
    <3>1. /\ req[q].step = "flushed"
          /\ misses' = IF req[q].kind = "login" THEN 0 ELSE misses
      BY <2>2 DEF CommitChanges
    <3>2. account'.failed_login_count = IF req[q].kind = "login" THEN 0 ELSE misses
      BY <1>2, <1>7, <3>1 DEF Counts
    <3> QED
      BY <1>7, <3>1, <3>2
  <2> QED
    BY <2>1, <2>2
<1> QED
  BY <1>5, <1>6, <1>8 DEF OneAtATime, Counts

LEMMA SequenceStep == LoginInv /\ SequenceInv /\ [Next]_vars => SequenceInv'
<1> SUFFICES ASSUME LoginInv, SequenceInv, [Next]_vars PROVE SequenceInv'
  OBVIOUS
<1>0. TypeOK /\ \A p \in Request : req[p] \in RequestState
  BY DEF LoginInv, TypeOK
<1>1. CASE Tick
  <2>1. \A p \in Request : /\ req'[p].step = req[p].step /\ req'[p].kind = req[p].kind
                           /\ req'[p].loaded = req[p].loaded /\ req'[p].object = req[p].object
    BY <1>0, <1>1 DEF Tick, RequestState
  <2>2. \A p \in Request : InFlight(p)' = InFlight(p) /\ Writing(p)' = Writing(p)
    BY <2>1 DEF InFlight, Writing
  <2>3. UNCHANGED <<account, misses, shared>>
    BY <1>1 DEF Tick
  <2> QED
    BY <2>1, <2>2, <2>3, SequenceKept
<1>2. ASSUME NEW q \in Request, Arrive(q) PROVE SequenceInv'
  <2>1. /\ account' = account /\ misses' = misses /\ req'[q].step = "reading"
        /\ \A p \in Request \ {q} : req'[p] = req[p]
    BY <1>0, <1>2, ArriveEffect
  <2>2. ASSUME ~shared' PROVE ~shared /\ \A p \in Request \ {q} : ~InFlight(p)
    BY <1>2, <2>2 DEF Arrive
  <2>3. \A p \in Request \ {q} : InFlight(p)' = InFlight(p) /\ (Counts(p) => Counts(p)')
    BY <2>1 DEF InFlight, Counts, Writing
  <2>4. Counts(q)'
    BY <2>1 DEF Counts, Writing
  <2> QED
    BY <2>1, <2>2, <2>3, <2>4 DEF SequenceInv, OneAtATime
<1>3. ASSUME NEW q \in Request, Read(q) PROVE SequenceInv'
  <2>1. /\ UNCHANGED <<account, misses, shared>> /\ InFlight(q)
    BY <1>0, <1>3, ReadEffect DEF InFlight, Final
  <2>2. \A p \in Request \ {q} : /\ req'[p].step = req[p].step /\ req'[p].kind = req[p].kind
                                 /\ req'[p].loaded = req[p].loaded /\ req'[p].object = req[p].object
    <3>1. CASE \E t \in Final : Ends(q, t)
      BY <1>0, <3>1, EndsEffect
    <3>2. CASE \E t \in {"missing", "dirty"}, x \in Account : Changes(q, t, x)
      <4>1. {"missing", "dirty"} \subseteq Step
        BY DEF Step
      <4> QED
        BY <1>0, <3>2, <4>1, ChangesEffect
    <3> QED
      BY <1>0, <1>3, <3>1, <3>2, ReadEffect
  <2>3. \A p \in Request \ {q} : InFlight(p)' = InFlight(p) /\ Writing(p)' = Writing(p)
    BY <2>2 DEF InFlight, Writing
  <2>4. Writing(q)' => Counts(q)'
    BY <1>0, <1>3, ReadCounts
  <2> QED
    BY <2>1, <2>2, <2>3, <2>4, SequenceKept
<1>4. ASSUME NEW q \in Request, FlushChanges(q) PROVE SequenceInv'
  <2>1. /\ UNCHANGED <<account, misses, shared>> /\ req[q].step = "dirty"
        /\ req'[q].step = "flushed"
        /\ \A p \in Request : /\ req'[p].kind = req[p].kind
                              /\ req'[p].loaded = req[p].loaded /\ req'[p].object = req[p].object
        /\ \A p \in Request \ {q} : req'[p].step = req[p].step
    BY <1>0, <1>4 DEF FlushChanges, TypeOK, RequestState
  <2>2. \A p \in Request : InFlight(p)' = InFlight(p) /\ Writing(p)' = Writing(p)
    BY <2>1 DEF InFlight, Writing, Final
  <2>3. \A p \in Request : req'[p].step = "missing" <=> req[p].step = "missing"
    BY <2>1
  <2> QED
    BY <2>1, <2>2, <2>3, SequenceKept
<1>5. ASSUME NEW q \in Request, Abort(q) PROVE SequenceInv'
  <2>1. UNCHANGED <<account, misses, shared>> /\ Ends(q, "refused") /\ "refused" \in Final
    BY <1>5 DEF Abort, Final
  <2>2. /\ req'[q].step = "refused"
        /\ \A p \in Request \ {q} : /\ req'[p].step = req[p].step /\ req'[p].kind = req[p].kind
                                   /\ req'[p].loaded = req[p].loaded /\ req'[p].object = req[p].object
    BY <1>0, <2>1, EndsEffect
  <2>3. /\ ~InFlight(q)' /\ ~Writing(q)'
        /\ \A p \in Request \ {q} : InFlight(p)' = InFlight(p) /\ Writing(p)' = Writing(p)
    BY <2>2 DEF InFlight, Writing, Final
  <2> QED
    BY <2>1, <2>2, <2>3, SequenceKept
<1>6. CASE UNCHANGED vars
  BY <1>6 DEF vars, SequenceInv, OneAtATime, InFlight, Counts, Writing
<1> QED
  BY <1>1, <1>2, <1>3, <1>4, <1>5, <1>6, CommitCounts DEF Next, Handle

LEMMA SequenceInit == Init => SequenceInv
<1> SUFFICES ASSUME Init PROVE SequenceInv
  OBVIOUS
<1>1. \A q \in Request : req[q].step = "new"
  BY DEF Init, NewRequest
<1>2. account.failed_login_count = 0 /\ misses = 0
  BY DEF Init, Blank
<1> QED
  BY <1>1, <1>2, LoginAssumption DEF SequenceInv, OneAtATime, InFlight, Counts, Writing

\* Of requests that do not overlap no failure is lost, and the lock falls exactly
\* at the limit (authenticate, which commits the miss before it raises).
THEOREM SequentialCountExactHolds == Spec => []SequentialCountExact
<1>1. SequenceInv => SequentialCountExact
  BY DEF SequenceInv, SequentialCountExact
<1> QED
  BY <1>1, LoginInvHolds, SequenceInit, SequenceStep, PTL DEF Spec

-----------------------------------------------------------------------------
\* Until two requests meet, a login that migrates the hash stores the password
\* that was last set, and a change of the password the new one.
SetsPassword(q) ==
    Writing(q) => New(q).of = IF req[q].kind = "login" THEN current ELSE req[q].new
AloneInv ==
    ~shared => account.hashed_password.of = current /\ \A q \in Request : SetsPassword(q)

LEMMA ReadSetsPassword ==
  ASSUME TypeOK, NEW q \in Request, Read(q), account.hashed_password.of = current
  PROVE  SetsPassword(q)'
<1>1. account \in Account /\ current' = current /\ req[q] \in RequestState
  BY DEF Read, TypeOK
<1>2. /\ "missing" \in Step /\ "dirty" \in Step /\ req[q].at \in Nat
      /\ req[q].password \in Password /\ req[q].new \in Password
  BY <1>1 DEF Step, RequestState
<1>3. CASE Ends(q, "refused")
  <2>1. "refused" \in Final /\ req'[q].step = "refused"
    BY <1>3, EndsEffect DEF Final
  <2> QED
    BY <2>1 DEF SetsPassword, Writing
<1>4. CASE req[q].kind = "login" /\ Changes(q, "missing", AfterMiss(account, req[q].at))
  <2>1. /\ AfterMiss(account, req[q].at) \in Account
        /\ AfterMiss(account, req[q].at).hashed_password = account.hashed_password
    BY <1>1, <1>2, AfterMissType
  <2>2. req'[q].object = AfterMiss(account, req[q].at) /\ req'[q].kind = "login"
    BY <1>2, <1>4, <2>1, ChangesEffect
  <2> QED
    BY <1>1, <2>1, <2>2 DEF SetsPassword, New
<1>5. CASE /\ req[q].kind = "login" /\ req[q].password = account.hashed_password.of
           /\ Changes(q, "dirty", AfterSuccess(account, req[q].password, q))
  <2> DEFINE x == AfterSuccess(account, req[q].password, q)
  <2>1. /\ x \in Account
        /\ x.hashed_password = IF account.hashed_password.modern THEN account.hashed_password
                               ELSE NewHash(req[q].password, q)
    BY <1>1, <1>2, AfterSuccessType
  <2>2. x.hashed_password.of = current
    <3>1. NewHash(req[q].password, q).of = req[q].password
      BY DEF NewHash
    <3> QED
      BY <1>5, <2>1, <3>1
  <2>3. req'[q].object = x /\ req'[q].kind = "login"
    BY <1>2, <1>5, <2>1, ChangesEffect
  <2> HIDE DEF x
  <2> QED
    BY <1>1, <2>2, <2>3 DEF SetsPassword, New
<1>6. CASE /\ req[q].kind # "login"
           /\ Changes(q, "dirty", [account EXCEPT !.hashed_password = NewHash(req[q].new, q)])
  <2> DEFINE x == [account EXCEPT !.hashed_password = NewHash(req[q].new, q)]
  <2>1. x \in Account /\ x.hashed_password.of = req[q].new
    <3>1. NewHash(req[q].new, q).of = req[q].new
      BY DEF NewHash
    <3> QED
      BY <1>1, <1>2, <3>1, ResetType
  <2>2. Changes(q, "dirty", x)
    BY <1>6
  <2> HIDE DEF x
  <2>3. req'[q].object = x /\ req'[q].kind = req[q].kind /\ req'[q].new = req[q].new
    BY <1>2, <2>1, <2>2, ChangesEffect
  <2> QED
    BY <1>6, <2>1, <2>3 DEF SetsPassword, New
<1> QED
  BY <1>3, <1>4, <1>5, <1>6 DEF Read

\* What a step leaves of the requests that do not take it.
StaysAs(p) ==
    /\ req'[p].step = req[p].step /\ req'[p].kind = req[p].kind /\ req'[p].new = req[p].new
    /\ req'[p].at = req[p].at
    /\ req'[p].loaded = req[p].loaded /\ req'[p].object = req[p].object

LEMMA OthersStay ==
  ASSUME TypeOK, NEW q \in Request, Arrive(q) \/ Handle(q) \/ Abort(q)
  PROVE  \A p \in Request \ {q} : StaysAs(p)
<1>1. CASE Arrive(q)
  BY <1>1, ArriveEffect DEF StaysAs
<1>2. CASE \E t \in Final : Ends(q, t)
  BY <1>2, EndsEffect DEF StaysAs
<1>3. CASE Read(q)
  <2>1. {"missing", "dirty"} \subseteq Step
    BY DEF Step
  <2>2. CASE \E t \in {"missing", "dirty"}, x \in Account : Changes(q, t, x)
    BY <2>1, <2>2, ChangesEffect DEF StaysAs
  <2> QED
    BY <1>2, <1>3, <2>2, ReadEffect
<1>4. CASE CommitMiss(q) \/ CommitChanges(q)
  BY <1>2, <1>4, CommitEffect
<1>5. CASE FlushChanges(q)
  BY <1>5 DEF FlushChanges, TypeOK, StaysAs
<1>6. CASE Abort(q)
  BY <1>2, <1>6 DEF Abort, Final
<1> QED
  BY <1>1, <1>3, <1>4, <1>5, <1>6 DEF Handle

LEMMA TickStays == ASSUME TypeOK, Tick PROVE \A p \in Request : StaysAs(p)
  BY DEF Tick, TypeOK, RequestState, StaysAs

\* A flush keeps the request's columns and its object.
LEMMA FlushingStays ==
  ASSUME TypeOK, NEW q \in Request, FlushChanges(q)
  PROVE  /\ req[q].step = "dirty" /\ req'[q].step = "flushed"
         /\ req'[q].kind = req[q].kind /\ req'[q].new = req[q].new
         /\ req'[q].loaded = req[q].loaded /\ req'[q].object = req[q].object
<1> DEFINE r == req[q]
<1>1. r \in RequestState /\ req'[q] = [r EXCEPT !.step = "flushed"] /\ r.step = "dirty"
  BY DEF TypeOK, FlushChanges
<1> HIDE DEF r
<1>2. /\ req'[q].step = "flushed" /\ req'[q].kind = r.kind /\ req'[q].new = r.new
      /\ req'[q].loaded = r.loaded /\ req'[q].object = r.object
  BY <1>1 DEF RequestState
<1> QED
  BY <1>1, <1>2 DEF r

LEMMA AloneStep == LoginInv /\ SequenceInv /\ AloneInv /\ [Next]_vars => AloneInv'
<1> SUFFICES ASSUME LoginInv, SequenceInv, AloneInv, [Next]_vars, ~shared'
             PROVE  account'.hashed_password.of = current' /\ \A q \in Request : SetsPassword(q)'
  BY DEF AloneInv
<1>0. TypeOK
  BY DEF LoginInv
<1>s. ~shared
  BY <1>0 DEF Next, Tick, Arrive, Handle, Read, CommitMiss, FlushChanges, CommitChanges, Abort,
              vars, TypeOK
<1>1. ASSUME NEW p \in Request, StaysAs(p), current' = current PROVE SetsPassword(p)'
  <2>1. SetsPassword(p)
    BY <1>s DEF AloneInv
  <2> QED
    BY <1>1, <2>1 DEF SetsPassword, StaysAs, Writing, New
<1>2. ASSUME NEW q \in Request, account' = account, current' = current,
             \A p \in Request \ {q} : StaysAs(p), SetsPassword(q)'
      PROVE  account'.hashed_password.of = current' /\ \A p \in Request : SetsPassword(p)'
  BY <1>1, <1>2, <1>s DEF AloneInv
<1>3. CASE Tick
  BY <1>0, <1>1, <1>3, <1>s, TickStays DEF Tick, AloneInv
<1>4. ASSUME NEW q \in Request, Arrive(q)
      PROVE  account'.hashed_password.of = current' /\ \A p \in Request : SetsPassword(p)'
  <2>1. account' = account /\ current' = current /\ req'[q].step = "reading"
    BY <1>0, <1>4, ArriveEffect
  <2>2. SetsPassword(q)'
    BY <2>1 DEF SetsPassword, Writing
  <2> QED
    BY <1>0, <1>2, <1>4, <2>1, <2>2, OthersStay
<1>5. ASSUME NEW q \in Request, Read(q)
      PROVE  account'.hashed_password.of = current' /\ \A p \in Request : SetsPassword(p)'
  <2>1. account' = account /\ current' = current
    BY <1>5 DEF Read
  <2>2. SetsPassword(q)'
    BY <1>0, <1>5, <1>s, ReadSetsPassword DEF AloneInv
  <2> QED
    BY <1>0, <1>2, <1>5, <2>1, <2>2, OthersStay DEF Handle
<1>6. ASSUME NEW q \in Request, FlushChanges(q)
      PROVE  account'.hashed_password.of = current' /\ \A p \in Request : SetsPassword(p)'
  <2>1. account' = account /\ current' = current
    BY <1>6 DEF FlushChanges
  <2>2. SetsPassword(q)
    BY <1>s DEF AloneInv
  <2>3. SetsPassword(q)'
    BY <1>0, <1>6, <2>1, <2>2, FlushingStays DEF SetsPassword, Writing, New
  <2> QED
    BY <1>0, <1>2, <1>6, <2>1, <2>3, OthersStay DEF Handle
<1>7. ASSUME NEW q \in Request, Abort(q)
      PROVE  account'.hashed_password.of = current' /\ \A p \in Request : SetsPassword(p)'
  <2>1. account' = account /\ current' = current /\ Ends(q, "refused") /\ "refused" \in Final
    BY <1>7 DEF Abort, Final
  <2>2. SetsPassword(q)'
    <3>1. req'[q].step = "refused"
      BY <1>0, <2>1, EndsEffect
    <3> QED
      BY <3>1 DEF SetsPassword, Writing
  <2> QED
    BY <1>0, <1>2, <1>7, <2>1, <2>2, OthersStay
<1>8. ASSUME NEW q \in Request, CommitMiss(q) \/ CommitChanges(q)
      PROVE  account'.hashed_password.of = current' /\ \A p \in Request : SetsPassword(p)'
  <2>1. /\ account'.hashed_password = IF New(q) # Old(q) THEN New(q)
                                                         ELSE account.hashed_password
        /\ Writing(q)
        /\ current' = IF req[q].step = "missing" \/ req[q].kind = "login" THEN current
                                                                        ELSE req[q].new
    BY <1>0, <1>8, CommitEffect
  <2>2. Old(q) = account.hashed_password /\ SetsPassword(q)
    BY <1>s, <2>1 DEF SequenceInv, Counts, Old, AloneInv
  <2>3. account'.hashed_password = New(q)
    BY <2>1, <2>2
  <2>4. req[q].step = "missing" => req[q].kind = "login"
    BY DEF LoginInv, MissInv
  <2>5. account'.hashed_password.of = current'
    BY <2>1, <2>2, <2>3, <2>4 DEF SetsPassword
  <2>6. \A p \in Request : ~Writing(p)'
    <3>1. PICK t \in Final : Ends(q, t)
      BY <1>0, <1>8, CommitEffect
    <3>2. req'[q].step \in Final
      BY <1>0, <3>1, EndsEffect
    <3>3. \A p \in Request \ {q} : ~Writing(p)
      <4>1. InFlight(q) /\ OneAtATime
        BY <1>s, <2>1 DEF Writing, InFlight, Final, SequenceInv
      <4> QED
        BY <4>1 DEF OneAtATime, Writing, InFlight, Final
    <3>4. \A p \in Request \ {q} : StaysAs(p)
      BY <1>0, <1>8, OthersStay DEF Handle
    <3> QED
      BY <3>2, <3>3, <3>4 DEF Writing, StaysAs, Final
  <2> QED
    BY <2>5, <2>6 DEF SetsPassword
<1>9. CASE UNCHANGED vars
  BY <1>9, <1>s DEF vars, AloneInv, SetsPassword, Writing, New
<1> QED
  BY <1>3, <1>4, <1>5, <1>6, <1>7, <1>8, <1>9 DEF Next, Handle

\* Migrating the hash changes no password, unless a legacy hash is migrated while
\* another request is in flight (authenticate; the run rehash_overlap has that case).
THEOREM RehashIsInvisibleHolds == Spec => [](~shared \/ ~legacy => RehashIsInvisible)
<1>1. Init => AloneInv
  BY DEF Init, Blank, NewRequest, AloneInv, SetsPassword, Writing
<1>2. LoginInv /\ AloneInv => (~shared \/ ~legacy => RehashIsInvisible)
  BY DEF LoginInv, PasswordInv, AloneInv, RehashIsInvisible
<1> QED
  BY <1>1, <1>2, LoginInvHolds, SequenceInit, SequenceStep, AloneStep, PTL DEF Spec

-----------------------------------------------------------------------------
\* The counter stays under the limit and a lock ends within its length, for the
\* stored row and for what any request is about to write, stale or not.
Bounded(a) == a.failed_login_count < MaxFailed /\ a.locked_until <= now + Lockout
BoundInv ==
    /\ Bounded(account)
    /\ \A q \in Request :
           /\ req[q].step = "reading" => req[q].at <= now
           /\ Writing(q) => Bounded(req[q].loaded) /\ Bounded(req[q].object)

\* Every lock passes: none is set further ahead than its length, and no row says
\* that the limit was reached without a lock.
LockPasses ==
    /\ account.failed_login_count < MaxFailed
    /\ account.locked_until <= now + Lockout

LEMMA AfterMissBounded ==
  ASSUME TypeOK, NEW a \in Account, NEW t \in Nat, Bounded(a), t <= now
  PROVE  Bounded(AfterMiss(a, t))
<1> DEFINE x == [a EXCEPT !.failed_login_count = 0, !.locked_until = t + Lockout]
           y == [a EXCEPT !.failed_login_count = a.failed_login_count + 1]
<1>1. /\ a.failed_login_count \in Nat /\ now \in Nat
      /\ MaxFailed \in Nat \ {0} /\ Lockout \in Nat \ {0}
  BY LoginAssumption DEF Account, TypeOK
<1>2. x.failed_login_count = 0 /\ x.locked_until = t + Lockout
  BY DEF Account
<1>3. y.failed_login_count = a.failed_login_count + 1 /\ y.locked_until = a.locked_until
  BY DEF Account
<1>4. AfterMiss(a, t) = IF a.failed_login_count + 1 >= MaxFailed THEN x ELSE y
  BY DEF AfterMiss
<1> HIDE DEF x, y
<1>5. CASE a.failed_login_count + 1 >= MaxFailed
  BY <1>1, <1>2, <1>4, <1>5 DEF Bounded
<1>6. CASE ~(a.failed_login_count + 1 >= MaxFailed)
  BY <1>1, <1>3, <1>4, <1>6 DEF Bounded
<1> QED
  BY <1>5, <1>6

LEMMA ReadBounded ==
  ASSUME TypeOK, BoundInv, NEW q \in Request, Read(q), Writing(q)'
  PROVE  Bounded(req'[q].loaded) /\ Bounded(req'[q].object)
<1>1. account \in Account /\ req[q] \in RequestState /\ Bounded(account)
  BY DEF Read, TypeOK, BoundInv
<1>2. /\ "missing" \in Step /\ "dirty" \in Step /\ req[q].at \in Nat /\ req[q].at <= now
      /\ req[q].password \in Password /\ req[q].new \in Password
  BY <1>1 DEF Step, RequestState, Read, BoundInv
<1>3. CASE Ends(q, "refused")
  <2>1. "refused" \in Final /\ req'[q].step = "refused"
    BY <1>3, EndsEffect DEF Final
  <2> QED
    BY <2>1 DEF Writing
<1>4. CASE Changes(q, "missing", AfterMiss(account, req[q].at))
  <2>1. AfterMiss(account, req[q].at) \in Account /\ Bounded(AfterMiss(account, req[q].at))
    BY <1>1, <1>2, AfterMissType, AfterMissBounded
  <2>2. req'[q].object = AfterMiss(account, req[q].at) /\ req'[q].loaded = account
    BY <1>2, <1>4, <2>1, ChangesEffect
  <2> QED
    BY <1>1, <2>1, <2>2
<1>5. CASE Changes(q, "dirty", AfterSuccess(account, req[q].password, q))
  <2> DEFINE x == AfterSuccess(account, req[q].password, q)
  <2>1. x \in Account /\ x.failed_login_count = 0 /\ x.locked_until = 0
    BY <1>1, <1>2, AfterSuccessType DEF AfterSuccess
  <2>2. Bounded(x)
    <3>1. now + Lockout >= 0 /\ MaxFailed > 0
      BY LoginAssumption DEF TypeOK
    <3> QED
      BY <2>1, <3>1 DEF Bounded
  <2>3. req'[q].object = x /\ req'[q].loaded = account
    BY <1>2, <1>5, <2>1, ChangesEffect
  <2> HIDE DEF x
  <2> QED
    BY <1>1, <2>2, <2>3
<1>6. CASE Changes(q, "dirty", [account EXCEPT !.hashed_password = NewHash(req[q].new, q)])
  <2> DEFINE x == [account EXCEPT !.hashed_password = NewHash(req[q].new, q)]
  <2>1. x \in Account
    BY <1>1, <1>2, ResetType
  <2>2. x.failed_login_count = account.failed_login_count /\ x.locked_until = account.locked_until
    BY <1>1 DEF Account
  <2>3. Changes(q, "dirty", x)
    BY <1>6
  <2> HIDE DEF x
  <2>4. req'[q].object = x /\ req'[q].loaded = account
    BY <1>2, <2>1, <2>3, ChangesEffect
  <2> QED
    BY <1>1, <2>2, <2>4 DEF Bounded
<1> QED
  BY <1>3, <1>4, <1>5, <1>6 DEF Read

\* A flush takes each column from the object or from the row.
LEMMA FlushBounded ==
  ASSUME NEW a \in Account, NEW b \in Account, NEW c \in Account, Bounded(a), Bounded(c)
  PROVE  Bounded(Flush(a, b, c))
<1>1. Flush(a, b, c) =
        [failed_login_count |-> IF c.failed_login_count # b.failed_login_count
                                THEN c.failed_login_count ELSE a.failed_login_count,
         locked_until |-> IF c.locked_until # b.locked_until
                          THEN c.locked_until ELSE a.locked_until,
         hashed_password |-> IF c.hashed_password # b.hashed_password
                             THEN c.hashed_password ELSE a.hashed_password]
  BY DEF Flush, Account
<1>2. /\ Flush(a, b, c).failed_login_count \in {a.failed_login_count, c.failed_login_count}
      /\ Flush(a, b, c).locked_until \in {a.locked_until, c.locked_until}
  BY <1>1
<1> QED
  BY <1>2 DEF Bounded

LEMMA BoundStep == LoginInv /\ BoundInv /\ [Next]_vars => BoundInv'
<1> SUFFICES ASSUME LoginInv, BoundInv, [Next]_vars PROVE BoundInv'
  OBVIOUS
<1>0. /\ TypeOK /\ account \in Account /\ now \in Nat /\ Lockout \in Nat
      /\ \A q \in Request : /\ req[q].loaded \in Account /\ req[q].object \in Account
                            /\ req[q].at \in Nat
  BY LoginAssumption DEF LoginInv, TypeOK, RequestState
\* What a step that does not turn the clock keeps of the others.
<1>1. ASSUME NEW q \in Request, now' = now, Bounded(account'),
             \A p \in Request \ {q} : StaysAs(p),
             req'[q].step = "reading" => req'[q].at <= now,
             Writing(q)' => Bounded(req'[q].loaded) /\ Bounded(req'[q].object)
      PROVE  BoundInv'
  BY <1>1 DEF BoundInv, StaysAs, Writing, Bounded
<1>2. CASE Tick
  <2>1. /\ now' = now + 1 /\ account' = account /\ \A p \in Request : StaysAs(p)
    BY <1>0, <1>2, TickStays DEF Tick
  <2>2. ASSUME NEW a \in Account, Bounded(a)
        PROVE  a.failed_login_count < MaxFailed /\ a.locked_until <= now' + Lockout
    <3>1. a.locked_until \in Nat
      BY DEF Account
    <3> QED
      BY <1>0, <2>1, <2>2, <3>1 DEF Bounded
  <2>3. \A p \in Request : req[p].at <= now => req[p].at <= now'
    BY <1>0, <2>1
  <2> QED
    BY <1>0, <2>1, <2>2, <2>3 DEF BoundInv, Bounded, StaysAs, Writing
<1>3. ASSUME NEW q \in Request, Arrive(q) PROVE BoundInv'
  <2>1. account' = account /\ now' = now /\ req'[q].step = "reading" /\ req'[q].at = now
    BY <1>0, <1>3, ArriveEffect
  <2> QED
    BY <1>0, <1>1, <1>3, <2>1, OthersStay DEF Writing, BoundInv
<1>4. ASSUME NEW q \in Request, Read(q) PROVE BoundInv'
  <2>1. account' = account /\ now' = now
    BY <1>4 DEF Read
  <2>2. req'[q].step # "reading"
    <3>1. CASE \E t \in Final : Ends(q, t)
      BY <1>0, <3>1, EndsEffect DEF Final
    <3>2. CASE \E t \in {"missing", "dirty"}, x \in Account : Changes(q, t, x)
      <4>1. {"missing", "dirty"} \subseteq Step
        BY DEF Step
      <4> QED
        BY <1>0, <3>2, <4>1, ChangesEffect
    <3> QED
      BY <1>0, <1>4, <3>1, <3>2, ReadEffect
  <2>3. Writing(q)' => Bounded(req'[q].loaded) /\ Bounded(req'[q].object)
    BY <1>0, <1>4, ReadBounded
  <2> QED
    BY <1>0, <1>1, <1>4, <2>1, <2>2, <2>3, OthersStay DEF Handle, BoundInv
<1>5. ASSUME NEW q \in Request, FlushChanges(q) PROVE BoundInv'
  <2>1. account' = account /\ now' = now
    BY <1>5 DEF FlushChanges
  <2>2. req'[q].step = "flushed" /\ Bounded(req'[q].loaded) /\ Bounded(req'[q].object)
    BY <1>0, <1>5, FlushingStays DEF BoundInv, Writing
  <2> QED
    BY <1>0, <1>1, <1>5, <2>1, <2>2, OthersStay DEF Handle, BoundInv
<1>6. ASSUME NEW q \in Request, Abort(q) PROVE BoundInv'
  <2>1. account' = account /\ now' = now /\ Ends(q, "refused") /\ "refused" \in Final
    BY <1>6 DEF Abort, Final
  <2>2. req'[q].step = "refused"
    BY <1>0, <2>1, EndsEffect
  <2> QED
    BY <1>0, <1>1, <1>6, <2>1, <2>2, OthersStay DEF BoundInv, Writing
<1>7. ASSUME NEW q \in Request, CommitMiss(q) \/ CommitChanges(q) PROVE BoundInv'
  <2>1. /\ now' = now /\ account' = Flush(account, req[q].loaded, req[q].object) /\ Writing(q)
    BY <1>7 DEF CommitMiss, CommitChanges, Store, Writing
  <2>2. Bounded(account')
    BY <1>0, <2>1, FlushBounded DEF BoundInv
  <2>3. req'[q].step \in Final
    BY <1>0, <1>7, CommitEffect, EndsEffect
  <2> QED
    BY <1>0, <1>1, <1>7, <2>1, <2>2, <2>3, OthersStay DEF Handle, Writing, Final
<1>8. CASE UNCHANGED vars
  BY <1>8 DEF vars, BoundInv, Bounded, Writing
<1> QED
  BY <1>2, <1>3, <1>4, <1>5, <1>6, <1>7, <1>8 DEF Next, Handle

\* Lost updates of the counter never push it past the limit, and no request, however
\* stale its row, sets a lock that outlasts lockout_minutes from now (authenticate).
THEOREM LockPassesHolds == Spec => []LockPasses
<1>1. Init => BoundInv
  BY LoginAssumption DEF Init, Blank, NewRequest, BoundInv, Bounded, Writing
<1>2. BoundInv => LockPasses
  BY DEF BoundInv, Bounded, LockPasses
<1> QED
  BY <1>1, <1>2, LoginInvHolds, BoundStep, PTL DEF Spec
=============================================================================
