--------------------------- MODULE SessionsProofs ---------------------------
(***************************************************************************)
(* Proofs about sessions: type correctness, ended sessions stay ended, a   *)
(* session is bound to a device of its own user, no renewal passes the     *)
(* absolute lifetime, and who is out stays out.                            *)
(***************************************************************************)
EXTENDS Sessions, TLAPS

USE NothingAssumption, TimesAssumption, NoSessionAssumption

\* The steps of a request whose session has been read.
Validating == {"clock", "deleteExpired", "user", "device", "deleteRevoked", "renew", "act"}

\* What the steps of a request may rely on: ValidateSession works on a token that was
\* given out and on a row; a login has its user, and the device it named.
CallsOK ==
    \A c \in Calls :
        /\ call[c].step \in Validating => call[c].token \in issued /\ call[c].row \in Session
        /\ call[c].step \in {"loginDevice", "create"} => call[c].user \in Users
        /\ call[c].step = "loginDevice" => call[c].device \in Devices

\* Every session in the table has a token that was given out.
IssuedOK == \A t \in Tokens : sessions[t] # NoSession => t \in issued

TypeInv == TypeOK /\ CallsOK /\ IssuedOK

-----------------------------------------------------------------------------
(***************************************************************************)
(* Lemmas about the operators.                                             *)
(***************************************************************************)

\* A stored time is a time of the same second.
LEMMA StoredBounds ==
    ASSUME NEW x \in Nat
    PROVE  Stored(x) \in Nat /\ Stored(x) <= x /\ x < Stored(x) + TicksPerSecond
<1>1. x \div TicksPerSecond \in Nat
      /\ (x \div TicksPerSecond) * TicksPerSecond \in Nat
      /\ (x \div TicksPerSecond) * TicksPerSecond <= x
      /\ x < (x \div TicksPerSecond) * TicksPerSecond + TicksPerSecond
  BY SMT
<1> QED BY <1>1 DEF Stored

\* The earlier of two times is one of them.
LEMMA EarlierBounds ==
    ASSUME NEW a \in Nat, NEW b \in Nat
    PROVE  Earlier(a, b) \in Nat /\ Earlier(a, b) <= a /\ Earlier(a, b) <= b
BY DEF Earlier

\* What CreateSession inserts is a session, within its lifetime.
LEMMA NewSession ==
    ASSUME NEW time \in Nat, NEW u \in Users, NEW d \in Devices \union {NoDevice}
    PROVE  LET s == [user |-> u, device |-> d, created |-> Stored(time),
                     expires |-> Stored(Earlier(time + TTL, time + MaxLifetime)),
                     absolute |-> Stored(time + MaxLifetime)]
           IN  /\ s \in Session
               /\ s.expires <= s.absolute
               /\ s.absolute < s.created + MaxLifetime + TicksPerSecond
<1>1. Earlier(time + TTL, time + MaxLifetime) = time + TTL
  BY DEF Earlier
<1>2. Stored(time) \in Nat /\ time < Stored(time) + TicksPerSecond
  BY StoredBounds
<1>3. Stored(time + TTL) \in Nat
  BY StoredBounds
<1>4. Stored(time + MaxLifetime) \in Nat /\ Stored(time + MaxLifetime) <= time + MaxLifetime
  BY StoredBounds
<1>5. Stored(time + TTL) <= Stored(time + MaxLifetime)
  <2> DEFINE a == (time + TTL) \div TicksPerSecond
             b == (time + MaxLifetime) \div TicksPerSecond
  <2>1. a \in Nat /\ b \in Nat /\ a <= b
    BY SMT
  <2>2. a * TicksPerSecond <= b * TicksPerSecond
    BY <2>1, SMT
  <2> QED BY <2>2 DEF Stored
<1> QED BY <1>1, <1>2, <1>3, <1>4, <1>5 DEF Session

\* What a renewal writes is a time not past the absolute expiry.
LEMMA RenewedBounds ==
    ASSUME TypeInv, NEW c \in Calls, call[c].step \in Validating
    PROVE  Stored(Renewed(c)) \in Nat /\ Stored(Renewed(c)) <= call[c].row.absolute
<1>1. call[c].now \in Nat /\ call[c].row.absolute \in Nat
  BY DEF TypeInv, TypeOK, CallsOK, Call, Session
<1>2. call[c].now + TTL \in Nat
  BY <1>1
<1>3. Renewed(c) \in Nat /\ Renewed(c) <= call[c].row.absolute
  BY <1>1, <1>2, EarlierBounds DEF Renewed
<1>4. Stored(Renewed(c)) \in Nat /\ Stored(Renewed(c)) <= Renewed(c)
  BY <1>3, StoredBounds
<1> QED BY <1>1, <1>3, <1>4

-----------------------------------------------------------------------------
(***************************************************************************)
(* Type correctness.                                                       *)
(***************************************************************************)
\* A request that is not under way is a well-formed one.
LEMMA NoCallType == NoCall \in Call /\ NoCall.step = "idle"
BY DEF NoCall, Call, Steps

\* The two ways the steps of a request change call.
LEMMA GotoType ==
    ASSUME TypeInv, NEW c \in Calls, NEW step \in Steps,
           call[c].step \in Validating, Goto(c, step), step \in Validating,
           UNCHANGED issued
    PROVE  call' \in [Calls -> Call] /\ CallsOK'
<1>1. call' \in [Calls -> Call]
  BY DEF TypeInv, TypeOK, Goto, Call
<1>2. ASSUME NEW k \in Calls
      PROVE  /\ call'[k].step \in Validating =>
                  call'[k].token \in issued' /\ call'[k].row \in Session
             /\ call'[k].step \in {"loginDevice", "create"} => call'[k].user \in Users
             /\ call'[k].step = "loginDevice" => call'[k].device \in Devices
  <2>1. CASE k = c
    BY <2>1 DEF TypeInv, TypeOK, CallsOK, Goto, Call, Validating
  <2>2. CASE k # c
    BY <2>2 DEF TypeInv, TypeOK, CallsOK, Goto
  <2> QED BY <2>1, <2>2
<1> QED BY <1>1, <1>2 DEF CallsOK

\* Answering a request keeps the state well typed.
LEMMA FinishType ==
    ASSUME TypeInv, NEW c \in Calls, Finish(c), issued \subseteq issued'
    PROVE  call' \in [Calls -> Call] /\ CallsOK'
BY NoCallType DEF TypeInv, TypeOK, CallsOK, Finish, Validating

\* So does deleting a session row (DeleteSessionByToken).
LEMMA DeleteType ==
    ASSUME TypeInv, NEW t, DeleteSession(t)
    PROVE  sessions' \in [Tokens -> Session \union {NoSession}] /\ (issued' = issued => IssuedOK')
BY DEF TypeInv, TypeOK, IssuedOK, DeleteSession

\* The steps of a login keep the state well typed.
LEMMA LoginType ==
    ASSUME TypeInv, NEW c \in Calls, Login(c)
    PROVE  TypeInv'
<1> USE DEF TypeInv
<1>1. ASSUME NEW u \in Users, NEW d \in Devices \union {NoDevice}, BeginLogin(c, u, d)
      PROVE  TypeInv'
  <2>1. call' \in [Calls -> Call] /\ CallsOK'
    BY <1>1, NoCallType DEF BeginLogin, NoCall, Call, Steps, TypeOK, CallsOK, Validating
  <2> QED BY <1>1, <2>1 DEF BeginLogin, TypeOK, IssuedOK
<1>2. CASE CheckLoginDevice(c)
  <2>1. CASE Goto(c, "create")
    <3>1. call' \in [Calls -> Call] /\ CallsOK'
      BY <1>2, <2>1 DEF CheckLoginDevice, At, Goto, Call, Steps, TypeOK, CallsOK, Validating
    <3> QED BY <1>2, <3>1 DEF CheckLoginDevice, TypeOK, IssuedOK
  <2>2. CASE Finish(c)
    BY <1>2, <2>2, FinishType DEF CheckLoginDevice, TypeOK, IssuedOK
  <2> QED BY <1>2, <2>1, <2>2 DEF CheckLoginDevice
<1>3. CASE CreateSession(c)
  <2>1. clock \in Nat /\ call[c].user \in Users /\ call[c].device \in Devices \union {NoDevice}
    BY <1>3 DEF CreateSession, At, TypeOK, CallsOK, Call
  <2>2. PICK t \in Tokens \ issued :
          /\ issued' = issued \union {t}
          /\ sessions' = [sessions EXCEPT ![t] =
               [user |-> call[c].user, device |-> call[c].device, created |-> Stored(clock),
                expires |-> Stored(Earlier(clock + TTL, clock + MaxLifetime)),
                absolute |-> Stored(clock + MaxLifetime)]]
    BY <1>3 DEF CreateSession
  <2>3. sessions' \in [Tokens -> Session \union {NoSession}]
    BY <2>1, <2>2, NewSession DEF TypeOK
  <2> QED BY <1>3, <2>2, <2>3, FinishType DEF CreateSession, TypeOK, IssuedOK
<1> QED BY <1>1, <1>2, <1>3 DEF Login

\* The statements of ValidateSession keep the state well typed.
LEMMA ValidateType ==
    ASSUME TypeInv, NEW c \in Calls, Validate(c)
    PROVE  TypeInv'
<1> USE DEF TypeInv
<1>1. ASSUME NEW t \in Tokens, BeginRequest(c, t)
      PROVE  TypeInv'
  <2>1. sessions[t] \in Session /\ t \in issued
    BY <1>1 DEF BeginRequest, TypeOK, IssuedOK
  <2>2. Revoked(sessions[t].device) \in BOOLEAN
    BY <2>1 DEF Revoked, TypeOK, Session, Device
  <2>3. (~disabled[sessions[t].user]) \in BOOLEAN
    BY <2>1 DEF TypeOK, Session
  <2>4. call' \in [Calls -> Call] /\ CallsOK'
    BY <1>1, <2>1, <2>2, <2>3, NoCallType
       DEF BeginRequest, NoCall, Call, Steps, TypeOK, CallsOK, Validating
  <2> QED BY <1>1, <2>4 DEF BeginRequest, TypeOK, IssuedOK
<1>2. CASE CheckExpiry(c)
  <2>1. call' \in [Calls -> Call] /\ CallsOK'
    BY <1>2 DEF CheckExpiry, At, Call, Steps, TypeOK, CallsOK, Validating
  <2> QED BY <1>2, <2>1 DEF CheckExpiry, TypeOK, IssuedOK
<1>3. CASE DeleteExpired(c)
  BY <1>3, FinishType, DeleteType DEF DeleteExpired, TypeOK
<1>4. CASE ReadUser(c)
  <2>1. CASE Finish(c)
    BY <1>4, <2>1, FinishType DEF ReadUser, TypeOK, IssuedOK
  <2>2. CASE Goto(c, IF call[c].row.device = NoDevice THEN "renew" ELSE "device")
    BY <1>4, <2>2, GotoType DEF ReadUser, At, TypeOK, IssuedOK, Steps, Validating
  <2> QED BY <1>4, <2>1, <2>2 DEF ReadUser
<1>5. CASE ReadDevice(c)
  BY <1>5, GotoType DEF ReadDevice, At, TypeOK, IssuedOK, Steps, Validating
<1>6. CASE DeleteRevoked(c)
  BY <1>6, FinishType, DeleteType DEF DeleteRevoked, TypeOK
<1>7. CASE NoRenewal(c)
  BY <1>7, GotoType DEF NoRenewal, At, TypeOK, IssuedOK, Steps, Validating
<1>8. CASE Renew(c)
  <2>1. CASE sessions[call[c].token] = NoSession
    BY <1>8, <2>1, FinishType DEF Renew, TypeOK, IssuedOK
  <2>2. CASE sessions[call[c].token] # NoSession
    <3>1. call[c].token \in issued /\ issued \subseteq Tokens /\ Stored(Renewed(c)) \in Nat
      BY <1>8, RenewedBounds DEF Renew, At, TypeOK, CallsOK, Validating
    <3>2. sessions' \in [Tokens -> Session \union {NoSession}]
      BY <1>8, <2>2, <3>1 DEF Renew, TypeOK, Session
    <3>3. call' \in [Calls -> Call] /\ CallsOK'
      BY <1>8, <2>2, GotoType DEF Renew, At, Steps, Validating
    <3>4. IssuedOK'
      BY <1>8, <2>2, <3>1 DEF Renew, TypeOK, IssuedOK
    <3> QED BY <1>8, <3>2, <3>3, <3>4 DEF Renew, TypeOK
  <2> QED BY <2>1, <2>2
<1> QED BY <1>1, <1>2, <1>3, <1>4, <1>5, <1>6, <1>7, <1>8 DEF Validate

\* What a validated request does keeps the state well typed.
LEMMA ActType ==
    ASSUME TypeInv, NEW c \in Calls, Act(c)
    PROVE  TypeInv'
<1> USE DEF TypeInv
<1>1. CASE Use(c)
  BY <1>1, FinishType DEF Use, TypeOK, IssuedOK
<1>2. CASE Logout(c)
  BY <1>2, FinishType, DeleteType DEF Logout, TypeOK
<1>3. ASSUME NEW d \in Devices, RegisterDevice(c, d)
      PROVE  TypeInv'
  <2>1. call[c].row \in Session /\ call[c].token \in Tokens /\ call[c].row.user \in Users
    BY <1>3 DEF RegisterDevice, At, TypeOK, CallsOK, Validating, Session
  <2>2. CASE devices[d].owner = NoUser /\ Unbound(call[c].token)
    <3>0. devices' = [devices EXCEPT ![d] = [owner |-> call[c].row.user, revoked |-> FALSE]]
      BY <1>3, <2>2 DEF RegisterDevice
    <3>1. devices' \in [Devices -> Device]
      BY <2>1, <3>0 DEF TypeOK, Device
    <3>2. sessions' \in [Tokens -> Session \union {NoSession}] /\ IssuedOK'
      BY <1>3, <2>1, <2>2 DEF RegisterDevice, Unbound, TypeOK, Session, IssuedOK
    <3> QED BY <1>3, <3>1, <3>2, FinishType DEF RegisterDevice, TypeOK
  <2>3. CASE ~(devices[d].owner = NoUser /\ Unbound(call[c].token))
    BY <1>3, <2>3, FinishType DEF RegisterDevice, TypeOK, IssuedOK
  <2> QED BY <2>2, <2>3
<1>4. ASSUME NEW d \in Devices, RevokeDevice(c, d)
      PROVE  TypeInv'
  <2>1. devices' \in [Devices -> Device]
    BY <1>4 DEF RevokeDevice, TypeOK, Device
  <2> QED BY <1>4, <2>1, FinishType DEF RevokeDevice, TypeOK, IssuedOK
<1> QED BY <1>1, <1>2, <1>3, <1>4 DEF Act

\* The administrator's actions keep the state well typed.
LEMMA AdminType ==
    ASSUME TypeInv, Admin
    PROVE  TypeInv'
<1> USE DEF TypeInv
<1>1. ASSUME NEW c \in Calls, NEW u \in Users, DisableUser(c, u)
      PROVE  TypeInv'
  <2>1. call' \in [Calls -> Call] /\ CallsOK'
    BY <1>1, NoCallType DEF DisableUser, NoCall, Call, Steps, TypeOK, CallsOK, Validating
  <2> QED BY <1>1, <2>1 DEF DisableUser, TypeOK, IssuedOK
<1>2. ASSUME NEW c \in Calls, EndSessions(c)
      PROVE  TypeInv'
  <2>1. sessions' \in [Tokens -> Session \union {NoSession}] /\ IssuedOK'
    BY <1>2 DEF EndSessions, TypeOK, IssuedOK
  <2> QED BY <1>2, <2>1, FinishType DEF EndSessions, TypeOK
<1>3. ASSUME NEW u \in Users, EnableUser(u)
      PROVE  TypeInv'
  <2>1. \A k \in Calls : call'[k] = call[k] \/ call'[k] = [call[k] EXCEPT !.sawEnabled = TRUE]
    BY <1>3 DEF EnableUser
  <2>2. ASSUME NEW k \in Calls
        PROVE  /\ call'[k] \in Call /\ call'[k].step = call[k].step
               /\ call'[k].token = call[k].token /\ call'[k].row = call[k].row
               /\ call'[k].user = call[k].user /\ call'[k].device = call[k].device
    <3>1. call[k] \in Call
      BY DEF TypeOK
    <3>2. CASE call'[k] = call[k]
      BY <3>1, <3>2
    <3>3. CASE call'[k] = [call[k] EXCEPT !.sawEnabled = TRUE]
      BY <3>1, <3>3 DEF Call
    <3> QED BY <2>1, <3>2, <3>3
  <2>3. call' \in [Calls -> Call]
    BY <1>3, <2>2 DEF EnableUser
  <2>4. CallsOK'
    BY <1>3, <2>2 DEF EnableUser, CallsOK
  <2> QED BY <1>3, <2>3, <2>4 DEF EnableUser, TypeOK, IssuedOK
<1>4. ASSUME NEW d \in Devices, AdminRevokeDevice(d)
      PROVE  TypeInv'
  BY <1>4 DEF AdminRevokeDevice, TypeOK, CallsOK, IssuedOK, Device
<1> QED BY <1>1, <1>2, <1>3, <1>4 DEF Admin

\* Every step keeps the state well typed.
LEMMA TypeStep ==
    ASSUME TypeInv, [Next]_vars
    PROVE  TypeInv'
<1>1. CASE Tick
  BY <1>1 DEF Tick, TypeInv, TypeOK, CallsOK, IssuedOK
<1>2. ASSUME NEW c \in Calls, Abort(c)
      PROVE  TypeInv'
  BY <1>2, FinishType DEF Abort, TypeInv, TypeOK, IssuedOK
<1>3. CASE UNCHANGED vars
  BY <1>3 DEF vars, TypeInv, TypeOK, CallsOK, IssuedOK
<1> QED BY <1>1, <1>2, <1>3, LoginType, ValidateType, ActType, AdminType DEF Next

\* The empty database is well typed.
LEMMA TypeInit == Init => TypeInv
BY NoCallType DEF Init, TypeInv, TypeOK, CallsOK, IssuedOK, Device, NoCall, Validating

\* Types, those of the requests under way and the used tokens included, hold always.
LEMMA TypeInvariant == Spec => []TypeInv
BY TypeInit, TypeStep, PTL DEF Spec

\* Every reachable state is well typed, for all users, devices, sessions and
\* requests, any lifetimes and any clock.
THEOREM SessionTypes == Spec => []TypeOK
BY TypeInvariant, PTL DEF TypeInv
-----------------------------------------------------------------------------
(***************************************************************************)
(* What a step does to a session, to the owner of a device and to a        *)
(* request.                                                                *)
(***************************************************************************)

\* The session a request has read is the one in the table, if it is still there: the
\* token was not given out again, and neither user nor absolute expiry ever change.
SameSession ==
    \A c \in Calls :
        call[c].step \in Validating /\ sessions[call[c].token] # NoSession =>
            /\ sessions[call[c].token].user = call[c].row.user
            /\ sessions[call[c].token].absolute = call[c].row.absolute

\* A login that goes on with a device has found it to be its user's.
LoginOwned ==
    \A c \in Calls :
        call[c].step = "create" /\ call[c].device # NoDevice =>
            devices[call[c].device].owner = call[c].user

Capped(s) ==
    /\ s.expires <= s.absolute
    /\ s.absolute < s.created + MaxLifetime + TicksPerSecond

\* A device that has an owner.
Belongs(d, u, devs) == d = NoDevice \/ devs[d].owner = u

\* The session is created, under a token never given out before.
Created(t) ==
    /\ t \notin issued
    /\ sessions'[t] \in Session
    /\ Capped(sessions'[t])
    /\ Belongs(sessions'[t].device, sessions'[t].user, devices')

\* The session is renewed or bound to a device.
Kept(t) ==
    /\ sessions[t] # NoSession
    /\ sessions'[t] \in Session
    /\ sessions'[t].user = sessions[t].user
    /\ sessions'[t].created = sessions[t].created
    /\ sessions'[t].absolute = sessions[t].absolute
    /\ \/ sessions'[t].expires = sessions[t].expires
       \/ sessions'[t].expires <= sessions[t].absolute
    /\ \/ sessions'[t].device = sessions[t].device
       \/ Belongs(sessions'[t].device, sessions'[t].user, devices')

SessionMove(t) ==
    sessions'[t] = sessions[t] \/ sessions'[t] = NoSession \/ Created(t) \/ Kept(t)

\* Nobody loses a device.
OwnersStay ==
    \A d \in Devices : devices[d].owner # NoUser => devices'[d].owner = devices[d].owner

\* A request in ValidateSession, or past it, keeps what it has read, or has just read it.
CallMove(c) ==
    call'[c].step \in Validating =>
        \/ /\ call[c].step \in Validating
           /\ call'[c].token = call[c].token
           /\ call'[c].row = call[c].row
        \/ /\ call'[c].token \in Tokens
           /\ call'[c].row = sessions[call'[c].token]
           /\ UNCHANGED sessions

SessInv == TypeInv /\ SameSession /\ LoginOwned /\ BoundDevicesAreOwned /\ LifetimeIsCapped

\* CreateSession adds a session under an unused token and changes no other.
LEMMA CreateMoves ==
    ASSUME SessInv, NEW c \in Calls, CreateSession(c)
    PROVE  \A t \in Tokens : SessionMove(t)
<1>1. clock \in Nat /\ call[c].user \in Users /\ call[c].device \in Devices \union {NoDevice}
  BY DEF SessInv, TypeInv, CreateSession, At, TypeOK, CallsOK, Call
<1>2. Belongs(call[c].device, call[c].user, devices)
  BY DEF SessInv, LoginOwned, CreateSession, At, Belongs
<1> DEFINE s == [user |-> call[c].user, device |-> call[c].device, created |-> Stored(clock),
                 expires |-> Stored(Earlier(clock + TTL, clock + MaxLifetime)),
                 absolute |-> Stored(clock + MaxLifetime)]
<1>3. s \in Session /\ Capped(s)
  BY <1>1, NewSession DEF Capped
<1>4. PICK t \in Tokens \ issued : sessions' = [sessions EXCEPT ![t] = s]
  BY DEF CreateSession
<1>5. sessions'[t] = s
  BY <1>4 DEF SessInv, TypeInv, TypeOK
<1>6. devices' = devices
  BY DEF CreateSession
<1>7. Created(t)
  BY <1>2, <1>3, <1>4, <1>5, <1>6 DEF Created
<1> QED BY <1>4, <1>7 DEF SessionMove, SessInv, TypeInv, TypeOK

\* A renewal changes only the expiry of a stored session.
LEMMA RenewMoves ==
    ASSUME SessInv, NEW c \in Calls, Renew(c)
    PROVE  \A t \in Tokens : SessionMove(t)
<1> DEFINE t == call[c].token
           e == Stored(Renewed(c))
<1>1. CASE sessions[t] = NoSession
  BY <1>1 DEF Renew, SessionMove
<1>2. CASE sessions[t] # NoSession
  <2>1. t \in Tokens /\ e \in Nat /\ e <= sessions[t].absolute
    BY <1>2, RenewedBounds DEF SessInv, SameSession, Renew, At, Validating, TypeInv, TypeOK, CallsOK
  <2>2. sessions[t] \in Session
    BY <1>2, <2>1 DEF SessInv, TypeInv, TypeOK
  <2>3. sessions' = [sessions EXCEPT ![t].expires = e]
    BY <1>2 DEF Renew
  <2>4. sessions'[t] = [sessions[t] EXCEPT !.expires = e]
    BY <2>1, <2>3 DEF SessInv, TypeInv, TypeOK
  <2>5. Kept(t)
    BY <1>2, <2>1, <2>2, <2>4 DEF Kept, Session
  <2>6. \A q \in Tokens : q # t => sessions'[q] = sessions[q]
    BY <2>3 DEF SessInv, TypeInv, TypeOK
  <2> QED BY <2>5, <2>6 DEF SessionMove
<1> QED BY <1>1, <1>2

\* A registration binds only sessions that were stored unbound.
LEMMA RegisterMoves ==
    ASSUME SessInv, NEW c \in Calls, NEW d \in Devices, RegisterDevice(c, d)
    PROVE  (\A t \in Tokens : SessionMove(t)) /\ OwnersStay
<1> DEFINE t == call[c].token
<1>1. CASE devices[d].owner = NoUser /\ Unbound(t)
  <2>1. /\ devices' = [devices EXCEPT ![d] = [owner |-> call[c].row.user, revoked |-> FALSE]]
        /\ sessions' = [sessions EXCEPT ![t].device = d]
    BY <1>1 DEF RegisterDevice
  <2>2. t \in Tokens /\ sessions[t] \in Session /\ sessions[t].user = call[c].row.user
    BY <1>1 DEF SessInv, SameSession, RegisterDevice, Unbound, At, Validating, TypeInv, TypeOK, CallsOK
  <2>3. sessions'[t] = [sessions[t] EXCEPT !.device = d]
    BY <2>1, <2>2 DEF SessInv, TypeInv, TypeOK
  <2>4. devices'[d].owner = sessions[t].user
    BY <2>1, <2>2 DEF SessInv, TypeInv, TypeOK
  <2>5. Kept(t)
    BY <1>1, <2>2, <2>3, <2>4 DEF Kept, Session, Belongs, Unbound
  <2>6. \A q \in Tokens : q # t => sessions'[q] = sessions[q]
    BY <2>1 DEF SessInv, TypeInv, TypeOK
  <2>7. OwnersStay
    BY <1>1, <2>1 DEF OwnersStay, SessInv, TypeInv, TypeOK
  <2> QED BY <2>5, <2>6, <2>7 DEF SessionMove
<1>2. CASE ~(devices[d].owner = NoUser /\ Unbound(t))
  BY <1>2 DEF RegisterDevice, SessionMove, OwnersStay
<1> QED BY <1>1, <1>2

\* Every step does to each session one of the things SessionMove lists.
LEMMA SessionMoves ==
    ASSUME SessInv, [Next]_vars
    PROVE  (\A t \in Tokens : SessionMove(t)) /\ OwnersStay
<1> USE DEF SessInv, TypeInv, TypeOK
<1>1. CASE UNCHANGED <<sessions, devices>>
  BY <1>1 DEF SessionMove, OwnersStay
<1>2. ASSUME NEW t, DeleteSession(t), UNCHANGED devices
      PROVE  (\A q \in Tokens : SessionMove(q)) /\ OwnersStay
  BY <1>2 DEF DeleteSession, SessionMove, OwnersStay
<1>3. ASSUME NEW c \in Calls, Login(c)
      PROVE  (\A t \in Tokens : SessionMove(t)) /\ OwnersStay
  <2>1. CASE CreateSession(c)
    BY <2>1, CreateMoves DEF CreateSession, OwnersStay
  <2>2. CASE ~CreateSession(c)
    BY <1>1, <1>3, <2>2 DEF Login, BeginLogin, CheckLoginDevice
  <2> QED BY <2>1, <2>2
<1>4. ASSUME NEW c \in Calls, Validate(c)
      PROVE  (\A t \in Tokens : SessionMove(t)) /\ OwnersStay
  <2>1. CASE Renew(c)
    BY <2>1, RenewMoves DEF Renew, OwnersStay
  <2>2. CASE DeleteExpired(c) \/ DeleteRevoked(c)
    BY <2>2, <1>2 DEF DeleteExpired, DeleteRevoked
  <2>3. CASE ~Renew(c) /\ ~DeleteExpired(c) /\ ~DeleteRevoked(c)
    BY <1>1, <1>4, <2>3 DEF Validate, BeginRequest, CheckExpiry, ReadUser, ReadDevice, NoRenewal
  <2> QED BY <2>1, <2>2, <2>3
<1>5. ASSUME NEW c \in Calls, Act(c)
      PROVE  (\A t \in Tokens : SessionMove(t)) /\ OwnersStay
  <2>1. CASE Use(c)
    BY <2>1, <1>1 DEF Use
  <2>2. CASE Logout(c)
    BY <2>2, <1>2 DEF Logout
  <2>3. ASSUME NEW d \in Devices, RegisterDevice(c, d)
        PROVE  (\A t \in Tokens : SessionMove(t)) /\ OwnersStay
    BY <2>3, RegisterMoves
  <2>4. ASSUME NEW d \in Devices, RevokeDevice(c, d)
        PROVE  (\A t \in Tokens : SessionMove(t)) /\ OwnersStay
    BY <2>4 DEF RevokeDevice, SessionMove, OwnersStay, Device
  <2> QED BY <1>5, <2>1, <2>2, <2>3, <2>4 DEF Act
<1>6. CASE Admin
  <2>1. ASSUME NEW c \in Calls, EndSessions(c)
        PROVE  (\A t \in Tokens : SessionMove(t)) /\ OwnersStay
    BY <2>1 DEF EndSessions, SessionMove, OwnersStay
  <2>2. ASSUME NEW d \in Devices, AdminRevokeDevice(d)
        PROVE  (\A t \in Tokens : SessionMove(t)) /\ OwnersStay
    BY <2>2 DEF AdminRevokeDevice, SessionMove, OwnersStay, Device
  <2> QED BY <1>1, <1>6, <2>1, <2>2 DEF Admin, DisableUser, EnableUser
<1> QED BY <1>1, <1>3, <1>4, <1>5, <1>6 DEF Next, Tick, Abort, vars

\* Every step leaves a request with the session row it read, or with one it just read.
LEMMA CallMoves ==
    ASSUME SessInv, [Next]_vars, NEW k \in Calls
    PROVE  CallMove(k)
<1> USE DEF SessInv, TypeInv, TypeOK, CallMove
<1>1. CASE UNCHANGED call
  BY <1>1
<1>2. ASSUME NEW c \in Calls, Finish(c)
      PROVE  CallMove(k)
  BY <1>2, NoCallType DEF Finish, Validating
<1>3. ASSUME NEW c \in Calls, NEW step, Goto(c, step), call[c].step \in Validating
      PROVE  CallMove(k)
  <2>1. CASE k = c
    BY <1>3, <2>1 DEF Goto, Call
  <2>2. CASE k # c
    BY <1>3, <2>2 DEF Goto
  <2> QED BY <2>1, <2>2
<1>4. ASSUME NEW c \in Calls, Login(c)
      PROVE  CallMove(k)
  <2>1. ASSUME NEW u \in Users, NEW d \in Devices \union {NoDevice}, BeginLogin(c, u, d)
        PROVE  CallMove(k)
    BY <2>1 DEF BeginLogin, NoCall, Validating
  <2>2. CASE CheckLoginDevice(c)
    BY <1>2, <2>2 DEF CheckLoginDevice, Goto, Validating, Call
  <2>3. CASE CreateSession(c)
    BY <1>2, <2>3 DEF CreateSession
  <2> QED BY <1>4, <2>1, <2>2, <2>3 DEF Login
<1>5. ASSUME NEW c \in Calls, Validate(c)
      PROVE  CallMove(k)
  <2>1. ASSUME NEW t \in Tokens, BeginRequest(c, t)
        PROVE  CallMove(k)
    BY <2>1 DEF BeginRequest, NoCall
  <2>2. CASE CheckExpiry(c)
    BY <2>2 DEF CheckExpiry, At, Call, Validating
  <2>3. CASE DeleteExpired(c) \/ DeleteRevoked(c)
    BY <1>2, <2>3 DEF DeleteExpired, DeleteRevoked
  <2>4. CASE ReadUser(c)
    BY <1>2, <1>3, <2>4 DEF ReadUser, At, Validating
  <2>5. CASE ReadDevice(c)
    BY <1>3, <2>5 DEF ReadDevice, At, Validating
  <2>6. CASE NoRenewal(c) \/ Renew(c)
    BY <1>2, <1>3, <2>6 DEF NoRenewal, Renew, At, Validating
  <2> QED BY <1>5, <2>1, <2>2, <2>3, <2>4, <2>5, <2>6 DEF Validate
<1>6. ASSUME NEW c \in Calls, Act(c)
      PROVE  CallMove(k)
  BY <1>2, <1>6 DEF Act, Use, Logout, RegisterDevice, RevokeDevice
<1>7. CASE Admin
  <2>1. ASSUME NEW c \in Calls, NEW u \in Users, DisableUser(c, u)
        PROVE  CallMove(k)
    BY <2>1 DEF DisableUser, NoCall, Validating
  <2>2. ASSUME NEW c \in Calls, EndSessions(c)
        PROVE  CallMove(k)
    BY <1>2, <2>2 DEF EndSessions
  <2>3. ASSUME NEW u \in Users, EnableUser(u)
        PROVE  CallMove(k)
    <3>1. call'[k] = call[k] \/ call'[k] = [call[k] EXCEPT !.sawEnabled = TRUE]
      BY <2>3 DEF EnableUser
    <3>2. call[k] \in Call
      OBVIOUS
    <3> QED BY <3>1, <3>2 DEF Call
  <2> QED BY <1>1, <1>7, <2>1, <2>2, <2>3 DEF Admin, AdminRevokeDevice
<1> QED BY <1>1, <1>2, <1>4, <1>5, <1>6, <1>7 DEF Next, Tick, Abort, vars

\* A login only goes on with a device of its user, and nobody loses a device.
LEMMA LoginOwnedStep ==
    ASSUME SessInv, [Next]_vars
    PROVE  LoginOwned'
<1> SUFFICES ASSUME NEW k \in Calls, call'[k].step = "create", call'[k].device # NoDevice
             PROVE  devices'[call'[k].device].owner = call'[k].user
  BY DEF LoginOwned
<1> USE DEF SessInv, TypeInv, TypeOK
<1>0. OwnersStay
  BY SessionMoves
<1>1. CASE call[k].step = "create" /\ call'[k].device = call[k].device /\ call'[k].user = call[k].user
  <2>1. devices[call[k].device].owner = call[k].user
    BY <1>1 DEF LoginOwned
  <2>2. call[k].user \in Users /\ call[k].device \in Devices
    BY <1>1 DEF CallsOK, Call
  <2> QED BY <1>0, <1>1, <2>1, <2>2 DEF OwnersStay
<1>2. CASE CheckLoginDevice(k)
  BY <1>2, NoCallType DEF CheckLoginDevice, Goto, Finish, Call
<1>3. \/ call[k].step = "create" /\ call'[k].device = call[k].device /\ call'[k].user = call[k].user
      \/ CheckLoginDevice(k)
  <2>1. ASSUME NEW c \in Calls, Finish(c)
        PROVE  call'[k] = call[k]
    BY <2>1, NoCallType DEF Finish
  <2>2. ASSUME NEW c \in Calls, Login(c)
        PROVE  call'[k] = call[k] \/ CheckLoginDevice(k)
    <3>1. ASSUME NEW u \in Users, NEW d \in Devices \union {NoDevice}, BeginLogin(c, u, d)
          PROVE  call'[k] = call[k]
      BY <3>1 DEF BeginLogin, NoCall
    <3>2. CASE CheckLoginDevice(c)
      BY <3>2, <2>1 DEF CheckLoginDevice, Goto
    <3> QED BY <2>1, <2>2, <3>1, <3>2 DEF Login, CreateSession
  <2>3. ASSUME NEW c \in Calls, NEW step \in Steps, Goto(c, step), step # "create"
        PROVE  call'[k] = call[k]
    BY <2>3 DEF Goto, Call
  <2>4. ASSUME NEW c \in Calls, Validate(c)
        PROVE  call'[k] = call[k]
    <3>1. ASSUME NEW t \in Tokens, BeginRequest(c, t)
          PROVE  call'[k] = call[k]
      BY <3>1 DEF BeginRequest, NoCall
    <3>2. CASE CheckExpiry(c)
      BY <3>2 DEF CheckExpiry, Call
    <3>3. CASE ReadUser(c) \/ ReadDevice(c) \/ NoRenewal(c) \/ Renew(c)
      BY <2>1, <2>3, <3>3 DEF ReadUser, ReadDevice, NoRenewal, Renew, Steps
    <3> QED BY <2>1, <2>4, <3>1, <3>2, <3>3 DEF Validate, DeleteExpired, DeleteRevoked
  <2>5. ASSUME NEW c \in Calls, Act(c)
        PROVE  call'[k] = call[k]
    BY <2>1, <2>5 DEF Act, Use, Logout, RegisterDevice, RevokeDevice
  <2>6. ASSUME Admin
        PROVE  /\ call'[k].step = call[k].step
               /\ call'[k].device = call[k].device
               /\ call'[k].user = call[k].user
    <3>1. ASSUME NEW c \in Calls, NEW u \in Users, DisableUser(c, u)
          PROVE  call'[k] = call[k]
      BY <3>1 DEF DisableUser, NoCall
    <3>2. ASSUME NEW u \in Users, EnableUser(u)
          PROVE  call'[k].step = call[k].step /\ call'[k].device = call[k].device
                   /\ call'[k].user = call[k].user
      <4>1. call'[k] = call[k] \/ call'[k] = [call[k] EXCEPT !.sawEnabled = TRUE]
        BY <3>2 DEF EnableUser
      <4>2. call[k] \in Call
        OBVIOUS
      <4> QED BY <4>1, <4>2 DEF Call
    <3> QED BY <2>1, <2>6, <3>1, <3>2 DEF Admin, EndSessions, AdminRevokeDevice
  <2> QED BY <2>1, <2>2, <2>4, <2>5, <2>6 DEF Next, Tick, Abort, vars
<1> QED BY <1>1, <1>2, <1>3

\* The inductive step of everything known of sessions.
LEMMA SessStep ==
    ASSUME SessInv, [Next]_vars
    PROVE  SessInv'
<1>1. TypeInv'
  BY TypeStep DEF SessInv
<1>2. (\A t \in Tokens : SessionMove(t)) /\ OwnersStay
  BY SessionMoves
<1>3. SameSession'
  <2> SUFFICES ASSUME NEW c \in Calls, call'[c].step \in Validating,
                      sessions'[call'[c].token] # NoSession
               PROVE  /\ sessions'[call'[c].token].user = call'[c].row.user
                      /\ sessions'[call'[c].token].absolute = call'[c].row.absolute
    BY DEF SameSession
  <2>1. CASE call[c].step \in Validating /\ call'[c].token = call[c].token /\ call'[c].row = call[c].row
    <3>1. call[c].token \in issued /\ call[c].token \in Tokens
      BY <2>1 DEF SessInv, TypeInv, TypeOK, CallsOK
    <3>2. sessions'[call[c].token] = sessions[call[c].token] \/ Kept(call[c].token)
      BY <1>2, <2>1, <3>1 DEF SessionMove, Created
    <3> QED BY <2>1, <3>2 DEF SessInv, SameSession, Kept
  <2>2. CASE call'[c].row = sessions[call'[c].token] /\ UNCHANGED sessions
    BY <2>2
  <2> QED BY <2>1, <2>2, CallMoves DEF CallMove
<1>4. BoundDevicesAreOwned'
  <2> SUFFICES ASSUME NEW t \in Tokens, sessions'[t] # NoSession, sessions'[t].device # NoDevice
               PROVE  devices'[sessions'[t].device].owner = sessions'[t].user
    BY DEF BoundDevicesAreOwned
  <2>1. CASE Belongs(sessions'[t].device, sessions'[t].user, devices')
    BY <2>1 DEF Belongs
  <2>2. CASE /\ sessions[t] # NoSession
             /\ sessions'[t].device = sessions[t].device
             /\ sessions'[t].user = sessions[t].user
    <3>1. devices[sessions[t].device].owner = sessions[t].user
      BY <2>2 DEF SessInv, BoundDevicesAreOwned
    <3>2. sessions[t].device \in Devices /\ sessions[t].user \in Users
      BY <2>2 DEF SessInv, TypeInv, TypeOK, Session
    <3> QED BY <1>2, <2>2, <3>1, <3>2 DEF OwnersStay
  <2> QED BY <1>2, <2>1, <2>2 DEF SessionMove, Created, Kept
<1>5. LifetimeIsCapped'
  <2> SUFFICES ASSUME NEW t \in Tokens, sessions'[t] # NoSession
               PROVE  Capped(sessions'[t])
    BY DEF LifetimeIsCapped, Capped
  <2>1. CASE sessions'[t] = sessions[t]
    BY <2>1 DEF SessInv, LifetimeIsCapped, Capped
  <2>2. CASE Created(t)
    BY <2>2 DEF Created
  <2>3. CASE Kept(t)
    BY <2>3 DEF Kept, SessInv, LifetimeIsCapped, Capped
  <2> QED BY <1>2, <2>1, <2>2, <2>3 DEF SessionMove
<1> QED BY <1>1, <1>3, <1>4, <1>5, LoginOwnedStep DEF SessInv

\* SessInv holds always.
LEMMA SessInvariant == Spec => []SessInv
<1>1. Init => SessInv
  <2> SUFFICES ASSUME Init PROVE SessInv
    OBVIOUS
  <2>1. TypeInv
    BY TypeInit
  <2>2. \A c \in Calls : call[c].step = "idle"
    BY NoCallType DEF Init
  <2>3. \A t \in Tokens : sessions[t] = NoSession
    BY DEF Init
  <2> QED BY <2>1, <2>2, <2>3
        DEF SessInv, SameSession, LoginOwned, BoundDevicesAreOwned, LifetimeIsCapped, Validating
<1> QED BY <1>1, SessStep, PTL DEF Spec

-----------------------------------------------------------------------------
\* A session is bound only to a device of its own user, however logins, registrations
\* and revocations interleave.
THEOREM BoundDevicesAreOwnedAlways == Spec => []BoundDevicesAreOwned
BY SessInvariant, PTL DEF SessInv

\* No chain of renewals carries a session past the lifetime it was created with, for any
\* lifetimes and any resolution of the stored times.
THEOREM LifetimeIsCappedAlways == Spec => []LifetimeIsCapped
BY SessInvariant, PTL DEF SessInv

\* A session that has ended never comes back: no request still under way renews it, binds
\* it or creates it again.
THEOREM EndedSessionsStayEndedAlways == Spec => EndedSessionsStayEnded
<1>1. ASSUME SessInv, [Next]_vars
      PROVE  [\A t \in issued : sessions[t] = NoSession => sessions'[t] = NoSession]_<<sessions, issued>>
  <2> SUFFICES ASSUME NEW t \in issued, sessions[t] = NoSession
               PROVE  sessions'[t] = NoSession
    OBVIOUS
  <2>1. t \in Tokens
    BY <1>1 DEF SessInv, TypeInv, TypeOK
  <2> QED BY <1>1, <2>1, SessionMoves DEF SessionMove, Created, Kept
<1> QED BY <1>1, SessInvariant, PTL DEF Spec, EndedSessionsStayEnded

-----------------------------------------------------------------------------
(***************************************************************************)
(* Who is out stays out.                                                   *)
(***************************************************************************)

\* What ValidateSession has found out at each of its steps.
OutOK(c) ==
    call[c].step \in Validating =>
        /\ call[c].wasRevoked => Revoked(call[c].row.device)
        /\ ~disabled[call[c].row.user] => call[c].sawEnabled
        /\ call[c].step \in {"device", "deleteRevoked", "renew", "act"} => call[c].sawEnabled
        /\ call[c].step \in {"renew", "act"} => ~call[c].wasRevoked

\* Only a device with an owner is revoked; so registering a device revives none.
RevokedOwned == \A d \in Devices : devices[d].revoked => devices[d].owner # NoUser

OutInv == TypeInv /\ RevokedOwned /\ \A c \in Calls : OutOK(c)

\* No step takes a revocation back.
RevocationsStay == \A d \in Devices : devices[d].revoked => devices'[d].revoked

\* Registrations and revocations keep the revoked devices owned and revoked.
LEMMA RevocationStep ==
    ASSUME OutInv, [Next]_vars
    PROVE  RevokedOwned' /\ RevocationsStay
<1> USE DEF OutInv, TypeInv, TypeOK, Device, RevokedOwned, RevocationsStay
<1>1. CASE UNCHANGED devices
  BY <1>1
<1>2. ASSUME NEW c \in Calls, NEW d \in Devices, RegisterDevice(c, d)
      PROVE  RevokedOwned' /\ RevocationsStay
  <2>1. call[c].row.user \in Users
    BY <1>2 DEF RegisterDevice, At, CallsOK, Validating, Session
  <2> QED BY <1>1, <1>2, <2>1 DEF RegisterDevice
<1>3. ASSUME NEW c \in Calls, NEW d \in Devices, RevokeDevice(c, d)
      PROVE  RevokedOwned' /\ RevocationsStay
  <2>1. call[c].row.user \in Users
    BY <1>3 DEF RevokeDevice, At, CallsOK, Validating, Session
  <2> QED BY <1>3, <2>1 DEF RevokeDevice
<1>4. ASSUME NEW d \in Devices, AdminRevokeDevice(d)
      PROVE  RevokedOwned' /\ RevocationsStay
  BY <1>4 DEF AdminRevokeDevice
<1>5. CASE Admin
  BY <1>1, <1>4, <1>5 DEF Admin, DisableUser, EndSessions, EnableUser
<1>6. ASSUME NEW c \in Calls, Login(c)
      PROVE  RevokedOwned' /\ RevocationsStay
  BY <1>1, <1>6 DEF Login, BeginLogin, CheckLoginDevice, CreateSession
<1>7. ASSUME NEW c \in Calls, Validate(c)
      PROVE  RevokedOwned' /\ RevocationsStay
  BY <1>1, <1>7 DEF Validate, BeginRequest, CheckExpiry, DeleteExpired, ReadUser, ReadDevice,
                    DeleteRevoked, NoRenewal, Renew
<1>8. ASSUME NEW c \in Calls, Act(c)
      PROVE  RevokedOwned' /\ RevocationsStay
  BY <1>1, <1>2, <1>3, <1>8 DEF Act, Use, Logout
<1> QED BY <1>1, <1>5, <1>6, <1>7, <1>8 DEF Next, Tick, Abort, vars

\* A request that does not move, while nobody is enabled, has found out what it had.
LEMMA OutKept ==
    ASSUME OutInv, NEW k \in Calls, call'[k] = call[k], RevocationsStay,
           \A u \in Users : disabled[u] => disabled'[u]
    PROVE  OutOK(k)'
<1>1. CASE call[k].step \in Validating
  <2>1. call[k].row.user \in Users
    BY <1>1 DEF OutInv, TypeInv, CallsOK, Session
  <2> QED BY <1>1, <2>1 DEF OutInv, OutOK, Revoked, RevocationsStay
<1>2. CASE call[k].step \notin Validating
  BY <1>2 DEF OutOK
<1> QED BY <1>1, <1>2

\* Every statement of ValidateSession passes on what the ones before it found out.
LEMMA OutValidate ==
    ASSUME OutInv, NEW c \in Calls, Validate(c)
    PROVE  OutOK(c)'
<1> USE DEF OutInv, TypeInv, TypeOK
<1>0. call[c] \in Call /\ (call[c].step \in Validating => call[c].row \in Session)
  BY DEF CallsOK
<1>1. ASSUME NEW t \in Tokens, BeginRequest(c, t)
      PROVE  OutOK(c)'
  BY <1>1 DEF BeginRequest, NoCall, OutOK, Revoked, Session
<1>2. CASE Finish(c)
  BY <1>2, NoCallType DEF Finish, OutOK, Validating
<1>3. CASE CheckExpiry(c)
  BY <1>0, <1>3 DEF CheckExpiry, At, OutOK, Call, Validating, Revoked
<1>4. CASE ReadUser(c)
  <2>1. CASE disabled[call[c].row.user]
    BY <1>2, <1>4, <2>1 DEF ReadUser
  <2>2. CASE ~disabled[call[c].row.user]
    <3>1. Goto(c, IF call[c].row.device = NoDevice THEN "renew" ELSE "device")
            /\ UNCHANGED <<disabled, devices>> /\ call[c].step = "user"
      BY <1>4, <2>2 DEF ReadUser, At
    <3>2. call[c].row.device = NoDevice => ~call[c].wasRevoked
      BY <3>1 DEF OutOK, Validating, Revoked
    <3> QED BY <1>0, <2>2, <3>1, <3>2 DEF Goto, OutOK, Call, Validating, Revoked
  <2> QED BY <2>1, <2>2
<1>5. CASE ReadDevice(c)
  <2>1. call[c].step = "device" /\ UNCHANGED <<disabled, devices>>
    BY <1>5 DEF ReadDevice, At
  <2>2. Goto(c, "deleteRevoked") \/ (Goto(c, "renew") /\ ~devices[call[c].row.device].revoked)
    BY <1>5 DEF ReadDevice
  <2> QED BY <1>0, <2>1, <2>2 DEF Goto, OutOK, Call, Validating, Revoked
<1>6. CASE NoRenewal(c) \/ Renew(c)
  <2>1. call[c].step = "renew" /\ UNCHANGED <<disabled, devices>> /\ (Goto(c, "act") \/ Finish(c))
    BY <1>6 DEF NoRenewal, Renew, At
  <2> QED BY <1>0, <1>2, <2>1 DEF Goto, OutOK, Call, Validating, Revoked
<1>7. CASE DeleteExpired(c) \/ DeleteRevoked(c)
  BY <1>2, <1>7 DEF DeleteExpired, DeleteRevoked
<1> QED BY <1>1, <1>3, <1>4, <1>5, <1>6, <1>7 DEF Validate

\* Every step, of whatever request or of the administrator, keeps OutInv.
LEMMA OutStep ==
    ASSUME OutInv, [Next]_vars
    PROVE  OutInv'
<1>1. TypeInv'
  BY TypeStep DEF OutInv
<1>2. RevokedOwned' /\ RevocationsStay
  BY RevocationStep
<1>3. ASSUME NEW k \in Calls
      PROVE  OutOK(k)'
  <2> USE DEF OutInv, TypeInv, TypeOK
  <2>1. CASE call'[k] = call[k] /\ UNCHANGED disabled
    BY <1>2, <2>1, OutKept
  <2>2. ASSUME NEW c \in Calls, Finish(c), UNCHANGED disabled
        PROVE  OutOK(k)'
    <3>1. CASE k = c
      BY <2>2, <3>1, NoCallType DEF Finish, OutOK, Validating
    <3>2. CASE k # c
      BY <2>1, <2>2, <3>2 DEF Finish
    <3> QED BY <3>1, <3>2
  <2>3. ASSUME NEW c \in Calls, Login(c)
        PROVE  OutOK(k)'
    <3>1. ASSUME NEW u \in Users, NEW d \in Devices \union {NoDevice}, BeginLogin(c, u, d)
          PROVE  OutOK(k)'
      <4>1. CASE k = c
        BY <3>1, <4>1 DEF BeginLogin, NoCall, OutOK, Validating
      <4>2. CASE k # c
        BY <2>1, <3>1, <4>2 DEF BeginLogin
      <4> QED BY <4>1, <4>2
    <3>2. CASE CheckLoginDevice(c)
      <4>1. CASE Finish(c)
        BY <2>2, <3>2, <4>1 DEF CheckLoginDevice
      <4>2. CASE Goto(c, "create") /\ k = c
        BY <4>2 DEF Goto, OutOK, Validating, Call
      <4>3. CASE Goto(c, "create") /\ k # c
        BY <2>1, <3>2, <4>3 DEF CheckLoginDevice, Goto
      <4> QED BY <3>2, <4>1, <4>2, <4>3 DEF CheckLoginDevice
    <3>3. CASE CreateSession(c)
      BY <2>2, <3>3 DEF CreateSession
    <3> QED BY <2>3, <3>1, <3>2, <3>3 DEF Login
  <2>4. ASSUME NEW c \in Calls, Validate(c)
        PROVE  OutOK(k)'
    <3>1. UNCHANGED disabled
      BY <2>4 DEF Validate, BeginRequest, CheckExpiry, DeleteExpired, ReadUser, ReadDevice,
                  DeleteRevoked, NoRenewal, Renew
    <3>2. k # c => call'[k] = call[k]
      BY <2>4 DEF Validate, BeginRequest, CheckExpiry, DeleteExpired, ReadUser, ReadDevice,
                  DeleteRevoked, NoRenewal, Renew, Goto, Finish
    <3> QED BY <2>1, <2>4, <3>1, <3>2, OutValidate
  <2>5. ASSUME NEW c \in Calls, Act(c)
        PROVE  OutOK(k)'
    BY <2>2, <2>5 DEF Act, Use, Logout, RegisterDevice, RevokeDevice
  <2>6. ASSUME NEW c \in Calls, NEW u \in Users, DisableUser(c, u)
        PROVE  OutOK(k)'
    <3>1. CASE k = c
      BY <2>6, <3>1 DEF DisableUser, NoCall, OutOK, Validating
    <3>2. CASE k # c
      BY <1>2, <2>6, <3>2, OutKept DEF DisableUser
    <3> QED BY <3>1, <3>2
  <2>7. ASSUME NEW u \in Users, EnableUser(u)
        PROVE  OutOK(k)'
    <3>1. /\ UNCHANGED devices
          /\ \A v \in Users : v # u => disabled'[v] = disabled[v]
          /\ call'[k] = IF call[k].row # NoSession /\ call[k].row.user = u
                          THEN [call[k] EXCEPT !.sawEnabled = TRUE] ELSE call[k]
      BY <2>7 DEF EnableUser
    <3>2. call[k] \in Call
      OBVIOUS
    <3>3. CASE call[k].step \in Validating
      <4>1. call[k].row \in Session /\ call[k].row # NoSession /\ call[k].row.user \in Users
        BY <3>3 DEF CallsOK, Session
      <4>2. CASE call[k].row.user = u
        BY <3>1, <3>2, <3>3, <4>1, <4>2 DEF OutOK, Call, Revoked
      <4>3. CASE call[k].row.user # u
        BY <3>1, <3>2, <3>3, <4>1, <4>3 DEF OutOK, Revoked
      <4> QED BY <4>2, <4>3
    <3>4. CASE call[k].step \notin Validating
      BY <3>1, <3>2, <3>4 DEF OutOK, Call
    <3> QED BY <3>3, <3>4
  <2>8. CASE Admin
    BY <2>1, <2>2, <2>6, <2>7, <2>8 DEF Admin, EndSessions, AdminRevokeDevice
  <2> QED BY <2>1, <2>2, <2>3, <2>4, <2>5, <2>8 DEF Next, Tick, Abort, vars
<1> QED BY <1>1, <1>2, <1>3 DEF OutInv

\* A request is not served if the device of its session had been revoked before it began,
\* nor if its user was disabled then and has stayed so, however the administrator's
\* actions fall between the statements of ValidateSession.
THEOREM OutStaysOutAlways == Spec => []OutStaysOut
<1>1. Init => OutInv
  <2> SUFFICES ASSUME Init PROVE OutInv
    OBVIOUS
  <2>1. TypeInv
    BY TypeInit
  <2>2. RevokedOwned
    BY DEF Init, RevokedOwned
  <2>3. \A c \in Calls : OutOK(c)
    BY NoCallType DEF Init, OutOK, Validating
  <2> QED BY <2>1, <2>2, <2>3 DEF OutInv
<1>2. OutInv => OutStaysOut
  BY DEF OutInv, OutOK, OutStaysOut, At, Validating
<1> QED BY <1>1, <1>2, OutStep, PTL DEF Spec
=============================================================================
