------------------------------ MODULE Sessions ------------------------------
(***************************************************************************)
(* Sessions, devices and disabled users: auth.Service and the handlers     *)
(* that begin with it.                                                     *)
(*                                                                         *)
(* Every authenticated request runs ValidateSession, which reads the       *)
(* session, the clock, the user and the device and then may renew or       *)
(* delete the session, each in a statement of its own; no transaction      *)
(* spans them, so that logins, logouts, registrations, revocations and the *)
(* administrator come in between.  Only the registration of a device is a  *)
(* transaction.                                                            *)
(*                                                                         *)
(* Passwords are right here, and an administrator is always authorised: a  *)
(* refused password changes nothing.  Users exist from the start.          *)
(***************************************************************************)
EXTENDS Naturals

CONSTANTS
    Users, Devices,
    Tokens,         \* session tokens; generateToken never gives the same one twice
    Calls,          \* requests in progress at the same time
    NoUser, NoDevice, NoSession,
    TTL,            \* sessionTTL
    MaxLifetime,    \* sessionMaxLifetime
    TicksPerSecond, \* resolution of the clock
    MaxTime         \* bound: the clock stops here

ASSUME NothingAssumption == NoUser \notin Users /\ NoDevice \notin Devices

ASSUME TimesAssumption ==
    /\ TTL \in Nat \ {0}
    /\ MaxLifetime \in Nat \ {0}
    /\ TTL <= MaxLifetime
    /\ TicksPerSecond \in Nat \ {0}
    /\ MaxTime \in Nat

VARIABLES
    clock,
    disabled,   \* users.disabled
    devices,    \* table devices; owner = NoUser: no row
    sessions,   \* table sessions, by token
    issued,     \* tokens ever given out
    call        \* the requests in progress

vars == <<clock, disabled, devices, sessions, issued, call>>

Device == [owner : Users \union {NoUser}, revoked : BOOLEAN]

Session == [user : Users, device : Devices \union {NoDevice},
            created : Nat, expires : Nat, absolute : Nat]

ASSUME NoSessionAssumption == NoSession \notin Session

Steps == {"idle", "loginDevice", "create", "clock", "deleteExpired", "user", "device",
          "deleteRevoked", "renew", "act", "endSessions"}

\* user, device: of a login, or the user the administrator disables.
\* token, row: the session as GetSession read it; now: ValidateSession's now.
\* What kind of request it is matters only once its session is valid.
\* wasRevoked, sawEnabled: what an observer knows of the request: whether the
\* device of its session was revoked when it began, and whether its user has been
\* enabled at some moment since.
Call == [step : Steps, user : Users \union {NoUser},
         device : Devices \union {NoDevice}, token : Tokens \union {NoSession},
         row : Session \union {NoSession}, now : Nat,
         wasRevoked : BOOLEAN, sawEnabled : BOOLEAN]

NoCall == [step |-> "idle", user |-> NoUser, device |-> NoDevice,
           token |-> NoSession, row |-> NoSession, now |-> 0,
           wasRevoked |-> FALSE, sawEnabled |-> FALSE]

TypeOK ==
    /\ clock \in Nat
    /\ disabled \in [Users -> BOOLEAN]
    /\ devices \in [Devices -> Device]
    /\ sessions \in [Tokens -> Session \union {NoSession}]
    /\ issued \subseteq Tokens
    /\ call \in [Calls -> Call]

Init ==
    /\ clock = 0
    /\ disabled = [u \in Users |-> FALSE]
    /\ devices = [d \in Devices |-> [owner |-> NoUser, revoked |-> FALSE]]
    /\ sessions = [t \in Tokens |-> NoSession]
    /\ issued = {}
    /\ call = [c \in Calls |-> NoCall]

At(c, step) == call[c].step = step

Goto(c, step) == call' = [call EXCEPT ![c].step = step]

Finish(c) == call' = [call EXCEPT ![c] = NoCall]

\* Times are stored in RFC 3339, to the second.
Stored(time) == (time \div TicksPerSecond) * TicksPerSecond

Earlier(a, b) == IF a <= b THEN a ELSE b

Revoked(d) == d \in Devices /\ devices[d].revoked

DeleteSession(t) == sessions' = [sessions EXCEPT ![t] = NoSession]

-----------------------------------------------------------------------------
Tick ==
    /\ clock < MaxTime
    /\ clock' = clock + 1
    /\ UNCHANGED <<disabled, devices, sessions, issued, call>>

(***************************************************************************)
(* handleLogin and handleAdminLogin: read the user, look at the device the *)
(* request names, create the session.                                      *)
(***************************************************************************)
BeginLogin(c, u, d) ==
    /\ At(c, "idle")
    /\ ~disabled[u]
    /\ call' = [call EXCEPT ![c] =
         [NoCall EXCEPT !.step = IF d = NoDevice THEN "create" ELSE "loginDevice",
                        !.user = u, !.device = d]]
    /\ UNCHANGED <<clock, disabled, devices, sessions, issued>>

\* Mutant: whose device it is goes unchecked.
CheckLoginDeviceAnyOwner(c) ==
    /\ At(c, "loginDevice")
    /\ IF devices[call[c].device].owner # NoUser /\ ~Revoked(call[c].device)
         THEN Goto(c, "create")
         ELSE Finish(c)
    /\ UNCHANGED <<clock, disabled, devices, sessions, issued>>

CheckLoginDevice(c) ==
    /\ At(c, "loginDevice")
    /\ IF devices[call[c].device].owner = call[c].user /\ ~Revoked(call[c].device)
         THEN Goto(c, "create")
         ELSE Finish(c)
    /\ UNCHANGED <<clock, disabled, devices, sessions, issued>>

\* Mutant: a session without a device gets a NULL device_id instead of ''.
CreateSessionNullDevice(c) ==
    /\ At(c, "create")
    /\ \E t \in Tokens \ issued :
        /\ issued' = issued \union {t}
        /\ sessions' = [sessions EXCEPT ![t] =
             [user |-> call[c].user,
              device |-> IF call[c].device = NoDevice THEN NoUser ELSE call[c].device,
              created |-> Stored(clock),
              expires |-> Stored(Earlier(clock + TTL, clock + MaxLifetime)),
              absolute |-> Stored(clock + MaxLifetime)]]
    /\ Finish(c)
    /\ UNCHANGED <<clock, disabled, devices>>

CreateSession(c) ==
    /\ At(c, "create")
    /\ \E t \in Tokens \ issued :
        /\ issued' = issued \union {t}
        /\ sessions' = [sessions EXCEPT ![t] =
             [user |-> call[c].user, device |-> call[c].device, created |-> Stored(clock),
              expires |-> Stored(Earlier(clock + TTL, clock + MaxLifetime)),
              absolute |-> Stored(clock + MaxLifetime)]]
    /\ Finish(c)
    /\ UNCHANGED <<clock, disabled, devices>>

-----------------------------------------------------------------------------
(***************************************************************************)
(* ValidateSession.                                                        *)
(***************************************************************************)

\* GetSession.  (A token without a row is refused, and nothing changes.)
BeginRequest(c, t) ==
    /\ At(c, "idle")
    /\ sessions[t] # NoSession
    /\ call' = [call EXCEPT ![c] =
         [NoCall EXCEPT !.step = "clock", !.token = t, !.row = sessions[t],
                        !.wasRevoked = Revoked(sessions[t].device),
                        !.sawEnabled = ~disabled[sessions[t].user]]]
    /\ UNCHANGED <<clock, disabled, devices, sessions, issued>>

CheckExpiry(c) ==
    /\ At(c, "clock")
    /\ call' = [call EXCEPT ![c].now = clock,
                            ![c].step = IF clock >= call[c].row.expires \/ clock >= call[c].row.absolute
                                          THEN "deleteExpired" ELSE "user"]
    /\ UNCHANGED <<clock, disabled, devices, sessions, issued>>

\* ErrSessionExpired.
DeleteExpired(c) ==
    /\ At(c, "deleteExpired")
    /\ DeleteSession(call[c].token)
    /\ Finish(c)
    /\ UNCHANGED <<clock, disabled, devices, issued>>

\* A disabled user is refused; the session stays.
ReadUser(c) ==
    /\ At(c, "user")
    /\ IF disabled[call[c].row.user]
         THEN Finish(c)
         ELSE Goto(c, IF call[c].row.device = NoDevice THEN "renew" ELSE "device")
    /\ UNCHANGED <<clock, disabled, devices, sessions, issued>>

\* Mutant: a revoked device passes.
ReadDeviceOwnerOnly(c) ==
    /\ At(c, "device")
    /\ LET d == devices[call[c].row.device]
       IN  Goto(c, IF d.owner # call[c].row.user THEN "deleteRevoked" ELSE "renew")
    /\ UNCHANGED <<clock, disabled, devices, sessions, issued>>

ReadDevice(c) ==
    /\ At(c, "device")
    /\ LET d == devices[call[c].row.device]
       IN  Goto(c, IF d.owner # call[c].row.user \/ d.revoked THEN "deleteRevoked" ELSE "renew")
    /\ UNCHANGED <<clock, disabled, devices, sessions, issued>>

\* ErrSessionRevoked.
DeleteRevoked(c) ==
    /\ At(c, "deleteRevoked")
    /\ DeleteSession(call[c].token)
    /\ Finish(c)
    /\ UNCHANGED <<clock, disabled, devices, issued>>

\* The idle expiry is pushed out once half of it is gone, never past the absolute one.
Renewed(c) == Earlier(call[c].now + TTL, call[c].row.absolute)

RenewalDue(c) ==
    /\ call[c].row.expires <= call[c].now + (TTL \div 2)
    /\ Renewed(c) > call[c].row.expires

NoRenewal(c) ==
    /\ At(c, "renew")
    /\ ~RenewalDue(c)
    /\ Goto(c, "act")
    /\ UNCHANGED <<clock, disabled, devices, sessions, issued>>

\* Mutant: the renewal writes the session back as it was read, and so creates it
\* again when it has been deleted.
RenewUpsert(c) ==
    /\ At(c, "renew")
    /\ RenewalDue(c)
    /\ sessions' = [sessions EXCEPT ![call[c].token] =
                      [call[c].row EXCEPT !.expires = Stored(Renewed(c))]]
    /\ Goto(c, "act")
    /\ UNCHANGED <<clock, disabled, devices, issued>>

\* Mutant: the renewal pushes the absolute expiry out as well.
RenewForever(c) ==
    /\ At(c, "renew")
    /\ RenewalDue(c)
    /\ sessions[call[c].token] # NoSession
    /\ sessions' = [sessions EXCEPT ![call[c].token].expires = Stored(call[c].now + TTL)]
    /\ Goto(c, "act")
    /\ UNCHANGED <<clock, disabled, devices, issued>>

\* UPDATE sessions SET expires_at; no row: the request fails.
Renew(c) ==
    /\ At(c, "renew")
    /\ RenewalDue(c)
    /\ IF sessions[call[c].token] = NoSession
         THEN Finish(c) /\ UNCHANGED sessions
         ELSE /\ sessions' = [sessions EXCEPT ![call[c].token].expires = Stored(Renewed(c))]
              /\ Goto(c, "act")
    /\ UNCHANGED <<clock, disabled, devices, issued>>

-----------------------------------------------------------------------------
(***************************************************************************)
(* What the handlers do once the session is valid.                         *)
(***************************************************************************)

\* Any handler that touches neither sessions nor devices.
Use(c) ==
    /\ At(c, "act")
    /\ Finish(c)
    /\ UNCHANGED <<clock, disabled, devices, sessions, issued>>

Logout(c) ==
    /\ At(c, "act")
    /\ DeleteSession(call[c].token)
    /\ Finish(c)
    /\ UNCHANGED <<clock, disabled, devices, issued>>

\* The session as the registration needs it: there, and bound to no device.
Unbound(t) == sessions[t] # NoSession /\ sessions[t].device = NoDevice

\* CreateDeviceAndBindSession: both or neither.
RegisterDevice(c, d) ==
    LET t == call[c].token
    IN  /\ At(c, "act")
        /\ IF devices[d].owner = NoUser /\ Unbound(t)
             THEN /\ devices' = [devices EXCEPT ![d] =
                                   [owner |-> call[c].row.user, revoked |-> FALSE]]
                  /\ sessions' = [sessions EXCEPT ![t].device = d]
             ELSE UNCHANGED <<devices, sessions>>
        /\ Finish(c)
        /\ UNCHANGED <<clock, disabled, issued>>

\* GetDevice and RevokeDevice; the owner of a device never changes in between.
RevokeDevice(c, d) ==
    /\ At(c, "act")
    /\ devices' = [devices EXCEPT ![d].revoked = @ \/ devices[d].owner = call[c].row.user]
    /\ Finish(c)
    /\ UNCHANGED <<clock, disabled, sessions, issued>>

-----------------------------------------------------------------------------
(***************************************************************************)
(* The administrator.                                                      *)
(***************************************************************************)
DisableUser(c, u) ==
    /\ At(c, "idle")
    /\ disabled' = [disabled EXCEPT ![u] = TRUE]
    /\ call' = [call EXCEPT ![c] =
         [NoCall EXCEPT !.step = "endSessions", !.user = u]]
    /\ UNCHANGED <<clock, devices, sessions, issued>>

\* DeleteSessionsByUser.
EndSessions(c) ==
    /\ At(c, "endSessions")
    /\ sessions' = [t \in Tokens |->
          IF sessions[t] # NoSession /\ sessions[t].user = call[c].user
            THEN NoSession ELSE sessions[t]]
    /\ Finish(c)
    /\ UNCHANGED <<clock, disabled, devices, issued>>

EnableUser(u) ==
    /\ disabled' = [disabled EXCEPT ![u] = FALSE]
    /\ call' = [c \in Calls |->
          IF call[c].row # NoSession /\ call[c].row.user = u
            THEN [call[c] EXCEPT !.sawEnabled = TRUE] ELSE call[c]]
    /\ UNCHANGED <<clock, devices, sessions, issued>>

AdminRevokeDevice(d) ==
    /\ devices[d].owner # NoUser
    /\ devices' = [devices EXCEPT ![d].revoked = TRUE]
    /\ UNCHANGED <<clock, disabled, sessions, issued, call>>

\* A statement fails or the request is cancelled: the handler returns where it is.
Abort(c) ==
    /\ ~At(c, "idle")
    /\ Finish(c)
    /\ UNCHANGED <<clock, disabled, devices, sessions, issued>>

-----------------------------------------------------------------------------
Login(c) ==
    \/ \E u \in Users, d \in Devices \union {NoDevice} : BeginLogin(c, u, d)
    \/ CheckLoginDevice(c)
    \/ CreateSession(c)

Validate(c) ==
    \/ \E t \in Tokens : BeginRequest(c, t)
    \/ CheckExpiry(c) \/ DeleteExpired(c) \/ ReadUser(c) \/ ReadDevice(c)
    \/ DeleteRevoked(c) \/ NoRenewal(c) \/ Renew(c)

Act(c) ==
    \/ Use(c) \/ Logout(c)
    \/ \E d \in Devices : RegisterDevice(c, d) \/ RevokeDevice(c, d)

Admin ==
    \/ \E c \in Calls : (\E u \in Users : DisableUser(c, u)) \/ EndSessions(c)
    \/ \E u \in Users : EnableUser(u)
    \/ \E d \in Devices : AdminRevokeDevice(d)

Next ==
    \/ Tick
    \/ Admin
    \/ \E c \in Calls : Login(c) \/ Validate(c) \/ Act(c) \/ Abort(c)

Spec == Init /\ [][Next]_vars

-----------------------------------------------------------------------------
(***************************************************************************)
(* Properties.                                                             *)
(***************************************************************************)

\* A session is bound only to a device of its own user, whichever way it was bound:
\* by a login that named the device, or by registering the device while other
\* requests use, end or bind the same session.
BoundDevicesAreOwned ==
    \A t \in Tokens :
        sessions[t] # NoSession /\ sessions[t].device # NoDevice =>
            devices[sessions[t].device].owner = sessions[t].user

\* No chain of renewals, by however many requests at once, carries a session past the
\* lifetime it was created with (deploy/README.md: an active session is not renewed
\* beyond its absolute limit).
LifetimeIsCapped ==
    \A t \in Tokens : sessions[t] # NoSession =>
        /\ sessions[t].expires <= sessions[t].absolute
        /\ sessions[t].absolute < sessions[t].created + MaxLifetime + TicksPerSecond

\* Who is out when a request begins stays out of it: a request is not served if the
\* device of its session had been revoked before it began (security.md section 5),
\* nor if its user was disabled then and has stayed so.
OutStaysOut ==
    \A c \in Calls : At(c, "act") => ~call[c].wasRevoked /\ call[c].sawEnabled

\* A session that has ended, by logout, expiry, revocation or the administrator, never
\* comes back, although a request that read it earlier may still be about to renew it
\* or to bind it to a device.
EndedSessionsStayEnded ==
    [][\A t \in issued : sessions[t] = NoSession => sessions'[t] = NoSession]_<<sessions, issued>>
=============================================================================
