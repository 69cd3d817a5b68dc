-------------------------------- MODULE Admin --------------------------------
(***************************************************************************)
(* The administrators' page (apps/admin/src/App.tsx) and the part of the   *)
(* server it talks to: the setup of the first administrator, logging in,   *)
(* the list of users, the drawer with a user's devices, and the actions    *)
(* that are confirmed in a dialog.                                         *)
(*                                                                         *)
(* A page sends requests without waiting for earlier ones, and each answer *)
(* is stored in the page when it arrives, whatever the page shows by then. *)
(* What a closure captured when it started is in its request.  The setup   *)
(* counts the users, creates one and creates its session in statements of  *)
(* their own; every other request is served in one step (module Sessions   *)
(* has their steps).  The administrator at a page uses one name.           *)
(*                                                                         *)
(* The drawer's accounts and relations are loaded as its devices are, and  *)
(* nothing is done with them; they, the statistics, the audit entries and  *)
(* the server's health are left out.                                       *)
(***************************************************************************)
EXTENDS Naturals, FiniteSets

CONSTANTS
    Pages,
    Users,
    Nobody,
    Name,           \* the user name an administrator enters at a page
    Devices,
    NoDevice,
    Owner,          \* the user of a device
    MaxTokens,      \* bound: sessions in use at a time
    MaxInFlight,    \* bound: requests of a page in flight, for each page
    Scenarios       \* bound: who has an account already, which pages are opened, how
                    \* often those act on users, log out or reload of their own accord, and
                    \* how many requests or answers are lost, or fail, or sessions expire

Roles == {"none", "user", "admin"}

ASSUME AdminAssumption ==
    /\ Nobody \notin Users /\ NoDevice \notin Devices
    /\ Name \in [Pages -> Users] /\ Owner \in [Devices -> Users]
    /\ MaxTokens \in Nat \ {0} /\ MaxInFlight \in [Pages -> Nat \ {0}]
    /\ Scenarios \subseteq [role : [Users -> Roles], pages : SUBSET Pages, acts : Nat,
                      faults : Nat]

VARIABLES
    account, revoked, session,  \* the server: users, revoked devices, whose a session is
    page,                       \* what a page shows and knows
    request,                    \* the requests of a page
    raced,                      \* history: see DrawerShowsItsUser
    opened,                     \* the pages that are used
    acts, faults                \* what administrators may still do, and what may go wrong

server == <<account, revoked, session>>
bounds == <<opened, acts, faults>>
vars == <<server, page, request, raced, bounds>>

Tokens == 1 .. MaxTokens

Slots(p) == 1 .. MaxInFlight[p]

Account == [role : Roles, disabled : BOOLEAN]

NoAccount == [role |-> "none", disabled |-> FALSE]

Lists == [Users -> {"none", "active", "disabled"}]

NoList == [u \in Users |-> "none"]

Dialog == [kind : {"none", "disable", "enable", "revoke"},
           user : Users \union {Nobody}, device : Devices \union {NoDevice}]

NoDialog == [kind |-> "none", user |-> Nobody, device |-> NoDevice]

\* token is the one apiClient has; it keeps it after a logout.  refused: the
\* administrator has been told that the session is not accepted.
Page == [isLoggedIn : BOOLEAN, needsSetup : BOOLEAN, token : {0} \union Tokens,
         users : Lists, selectedUser : Users \union {Nobody},
         selectedUserDevices : SUBSET Devices, devicesLoading : BOOLEAN,
         confirmAction : Dialog, refused : BOOLEAN]

FreshPage == [isLoggedIn |-> FALSE, needsSetup |-> FALSE, token |-> 0,
              users |-> NoList, selectedUser |-> Nobody,
              selectedUserDevices |-> {}, devicesLoading |-> FALSE,
              confirmAction |-> NoDialog, refused |-> FALSE]

\* heard: the page that sent it is still there.  selected: the selectedUser the closure
\* captured.  late: somebody had an account when it was sent.
Request == [step : {"free", "sent", "counted", "created", "answered"},
            kind : {"status", "setup", "login", "users", "devices", "audit",
                    "disable", "enable", "revoke"},
            heard : BOOLEAN, token : {0} \union Tokens, late : BOOLEAN,
            user : Users \union {Nobody}, device : Devices \union {NoDevice},
            selected : Users \union {Nobody},
            result : {"none", "ok", "conflict", "denied", "refused", "error"},
            needsSetup : BOOLEAN, users : Lists, devices : SUBSET Devices]

NoRequest == [step |-> "free", kind |-> "status", heard |-> TRUE, token |-> 0, late |-> FALSE,
              user |-> Nobody, device |-> NoDevice, selected |-> Nobody, result |-> "none",
              needsSetup |-> FALSE, users |-> NoList, devices |-> {}]

TypeOK ==
    /\ account \in [Users -> Account]
    /\ revoked \subseteq Devices
    /\ session \in [Tokens -> Users \union {Nobody}]
    /\ page \in [Pages -> Page]
    /\ DOMAIN request = Pages /\ \A p \in Pages : request[p] \in [Slots(p) -> Request]
    /\ raced \in [Pages -> BOOLEAN]
    /\ opened \subseteq Pages /\ acts \in Nat /\ faults \in Nat

Exists(u) == account[u].role # "none"

IsAdmin(u) == account[u].role = "admin" /\ ~account[u].disabled

\* bootstrapAdmin may have created an administrator when the server was started.
Init ==
    /\ \E scenario \in Scenarios :
        /\ account = [u \in Users |-> [NoAccount EXCEPT !.role = scenario.role[u]]]
        /\ opened = scenario.pages
        /\ acts = scenario.acts /\ faults = scenario.faults
    /\ revoked = {}
    /\ session = [t \in Tokens |-> Nobody]
    /\ page = [p \in Pages |-> FreshPage]
    /\ request = [p \in Pages |-> [i \in Slots(p) |->
                    IF i = 1 /\ p \in opened THEN [NoRequest EXCEPT !.step = "sent"]
                                                ELSE NoRequest]]
    /\ raced = [p \in Pages |-> FALSE]

\* A token is random; one that neither a page nor a request has is never used again.
FreshTokens ==
    {t \in Tokens : \A p \in Pages : page[p].token # t /\ \A i \in Slots(p) : request[p][i].token # t}

-----------------------------------------------------------------------------
(***************************************************************************)
(* The page.                                                               *)
(***************************************************************************)
Free(rs) == {i \in DOMAIN rs : rs[i].step = "free"}

\* rs with one more request.
With(rs, r) == [rs EXCEPT ![CHOOSE i \in Free(rs) : TRUE] = [r EXCEPT !.step = "sent"]]

\* The server goes on with a request whose page is gone.
Abandoned(rs) ==
    [i \in DOMAIN rs |-> IF rs[i].step \in {"free", "answered"} THEN NoRequest
                         ELSE [rs[i] EXCEPT !.heard = FALSE]]

Ask(kind) == [NoRequest EXCEPT !.kind = kind]

AskAs(p, kind) == [Ask(kind) EXCEPT !.token = page[p].token]

Send(p, r) ==
    /\ Free(request[p]) # {}
    /\ request' = [request EXCEPT ![p] = With(@, r)]

Act ==
    /\ acts > 0
    /\ acts' = acts - 1
    /\ UNCHANGED <<opened, faults>>

\* loginInFlightRef.
LoginInFlight(p) ==
    \E i \in Slots(p) : /\ request[p][i].step # "free" /\ request[p][i].heard
                     /\ request[p][i].kind \in {"login", "setup"}

SubmitLogin(p) ==
    /\ ~page[p].isLoggedIn /\ ~page[p].needsSetup /\ ~LoginInFlight(p)
    /\ Send(p, [Ask("login") EXCEPT !.user = Name[p]])
    /\ UNCHANGED <<server, page, raced, bounds>>

HandleSetup(p) ==
    /\ ~page[p].isLoggedIn /\ page[p].needsSetup /\ ~LoginInFlight(p)
    /\ Send(p, [Ask("setup") EXCEPT !.user = Name[p], !.late = \E u \in Users : Exists(u)])
    /\ UNCHANGED <<server, page, raced, bounds>>

\* handleLogout, and loadSetupStatus because isLoggedIn has changed.  The server is not told.
HandleLogout(p) ==
    /\ page[p].isLoggedIn
    /\ IF page[p].refused THEN UNCHANGED bounds ELSE Act
    /\ Send(p, Ask("status"))
    /\ page' = [page EXCEPT ![p].isLoggedIn = FALSE, ![p].users = NoList, ![p].refused = FALSE,
                            ![p].selectedUser = Nobody, ![p].confirmAction = NoDialog]
    /\ UNCHANGED <<server, raced>>

\* The token is in sessionStorage while the page is logged in.
Reload(p) ==
    /\ Act
    /\ Free(Abandoned(request[p])) # {}
    /\ page' = [page EXCEPT ![p] = [FreshPage EXCEPT
                    !.isLoggedIn = page[p].isLoggedIn,
                    !.token = IF page[p].isLoggedIn THEN page[p].token ELSE 0]]
    /\ request' = [request EXCEPT ![p] =
                    With(Abandoned(@),
                         IF page[p].isLoggedIn THEN AskAs(p, "users") ELSE Ask("status"))]
    /\ raced' = [raced EXCEPT ![p] = FALSE]
    /\ UNCHANGED server

\* The refresh button of the audit log.  When the session is accepted this changes
\* nothing that is modelled, and is left out.
LookAgain(p) ==
    /\ page[p].isLoggedIn /\ ~page[p].refused /\ session[page[p].token] = Nobody
    /\ Send(p, AskAs(p, "audit"))
    /\ UNCHANGED <<server, page, raced, bounds>>

\* Mutant: the devices shown before are left there.
DrawerKeepsDevices(pg, u) ==
    [pg EXCEPT !.selectedUser = u, !.devicesLoading = TRUE]

\* What loadUserDevices shows before an answer arrives.
Drawer(pg, u) ==
    [pg EXCEPT !.selectedUser = u, !.selectedUserDevices = {}, !.devicesLoading = TRUE]

AskDevices(p, u) == [AskAs(p, "devices") EXCEPT !.user = u]

\* Another user's devices are on their way when the drawer of u is opened.
Races(p, u) ==
    \E i \in Slots(p) : LET r == request[p][i] IN
        r.step # "free" /\ r.heard /\ r.kind = "devices" /\ r.user # u

LoadUserDevices(p, u) ==
    /\ page[p].isLoggedIn /\ page[p].users[u] # "none"
    /\ Act
    /\ Send(p, AskDevices(p, u))
    /\ page' = [page EXCEPT ![p] = Drawer(@, u)]
    /\ raced' = [raced EXCEPT ![p] = Races(p, u)]
    /\ UNCHANGED server

\* The buttons of the table and of the drawer: the dialog has what they show.
OpenDialog(p) ==
    LET pg == page[p] IN
    /\ pg.isLoggedIn
    /\ \/ \E u \in Users :
            /\ pg.users[u] # "none"
            /\ page' = [page EXCEPT ![p].confirmAction =
                    [kind |-> IF pg.users[u] = "disabled" THEN "enable" ELSE "disable",
                     user |-> u, device |-> NoDevice]]
       \/ /\ pg.selectedUser # Nobody /\ ~pg.devicesLoading
          /\ \E d \in pg.selectedUserDevices :
                page' = [page EXCEPT ![p].confirmAction =
                    [kind |-> "revoke", user |-> pg.selectedUser, device |-> d]]
    /\ UNCHANGED <<server, request, raced, bounds>>

\* The buttons of the drawer and of the dialog, and Escape.
CloseDrawer(p) ==
    /\ page[p].selectedUser # Nobody
    /\ \E dialog \in {page[p].confirmAction, NoDialog} :
        page' = [page EXCEPT ![p].selectedUser = Nobody, ![p].confirmAction = dialog]
    /\ UNCHANGED <<server, request, raced, bounds>>

CancelDialog(p) ==
    /\ page[p].confirmAction # NoDialog
    /\ page' = [page EXCEPT ![p].confirmAction = NoDialog]
    /\ UNCHANGED <<server, request, raced, bounds>>

\* Bound: one revocation of a page in flight, so that there is room for what follows it.
ExecuteConfirmedAction(p) ==
    LET action == page[p].confirmAction IN
    /\ action # NoDialog
    /\ action.kind = "revoke" => \A i \in Slots(p) : request[p][i].kind # "revoke"
    /\ Act
    /\ Send(p, [AskAs(p, action.kind) EXCEPT !.user = action.user, !.device = action.device,
                                             !.selected = page[p].selectedUser])
    /\ page' = [page EXCEPT ![p].confirmAction = NoDialog]
    /\ UNCHANGED <<server, raced>>

-----------------------------------------------------------------------------
(***************************************************************************)
(* Answers.  The request that was answered makes room, or is followed by   *)
(* another one.                                                            *)
(***************************************************************************)
Arrived(p, i, kinds) ==
    /\ request[p][i].step = "answered"
    /\ request[p][i].kind \in kinds

Followed(p, i, r) == request' = [request EXCEPT ![p][i] = [r EXCEPT !.step = "sent"]]

Done(p, i) == request' = [request EXCEPT ![p][i] = NoRequest]

Show(p, pg) == page' = [page EXCEPT ![p] = pg]

\* Refused: the message of a toast.
Toast(p, i) == [page[p] EXCEPT !.refused = @ \/ request[p][i].result = "refused"]

\* loadSetupStatus: a request that throws counts as no, an error of the server as nothing.
TakeStatus(p, i) ==
    LET r == request[p][i] IN
    /\ Arrived(p, i, {"status"})
    /\ \E known \in IF r.result = "ok" THEN {r.needsSetup} ELSE {FALSE, page[p].needsSetup} :
        Show(p, [page[p] EXCEPT !.needsSetup = known])
    /\ Done(p, i)
    /\ UNCHANGED <<server, raced, bounds>>

\* Mutant: a conflict leaves the setup form on the page.
TakeLoginNoConflict(p, i) ==
    LET r == request[p][i] IN
    /\ Arrived(p, i, {"login", "setup"})
    /\ IF r.result = "ok"
       THEN /\ Show(p, [page[p] EXCEPT !.isLoggedIn = TRUE, !.token = r.token, !.refused = FALSE,
                                       !.needsSetup = @ /\ r.kind = "login"])
            /\ Followed(p, i, [Ask("users") EXCEPT !.token = r.token])
       ELSE Done(p, i) /\ UNCHANGED page
    /\ UNCHANGED <<server, raced, bounds>>

\* submitLogin and handleSetup; with a session follows loadOverviewData.
TakeLogin(p, i) ==
    LET r == request[p][i] IN
    /\ Arrived(p, i, {"login", "setup"})
    /\ IF r.result = "ok"
       THEN /\ Show(p, [page[p] EXCEPT !.isLoggedIn = TRUE, !.token = r.token, !.refused = FALSE,
                                       !.needsSetup = @ /\ r.kind = "login"])
            /\ Followed(p, i, [Ask("users") EXCEPT !.token = r.token])
       ELSE /\ Show(p, [page[p] EXCEPT !.needsSetup = @ /\ r.result # "conflict"])
            /\ Done(p, i)
    /\ UNCHANGED <<server, raced, bounds>>

\* loadUsers; what waits for it opens the drawer it found open, with the devices shown
\* by now.
TakeUsers(p, i) ==
    LET r == request[p][i] IN
    /\ Arrived(p, i, {"users", "audit"})
    /\ Show(p, [Toast(p, i) EXCEPT
            !.users = IF r.kind = "users" /\ r.result = "ok" THEN r.users ELSE @,
            !.selectedUser = IF r.selected # Nobody THEN r.selected ELSE @])
    /\ raced' = [raced EXCEPT ![p] = @ \/ r.selected \notin {Nobody, page[p].selectedUser}]
    /\ Done(p, i)
    /\ UNCHANGED <<server, bounds>>

\* fetchDevices of loadUserDevices.
TakeDevices(p, i) ==
    LET r == request[p][i] IN
    /\ Arrived(p, i, {"devices"})
    /\ Show(p, [Toast(p, i) EXCEPT
            !.selectedUserDevices = IF r.result = "ok" THEN r.devices ELSE @,
            !.devicesLoading = FALSE])
    /\ Done(p, i)
    /\ UNCHANGED <<server, raced, bounds>>

\* The rest of executeConfirmedAction.
TakeAction(p, i) ==
    LET r == request[p][i]
        captured == r.selected
    IN
    /\ Arrived(p, i, {"disable", "enable", "revoke"})
    /\ CASE r.result # "ok" ->
                Show(p, Toast(p, i)) /\ Done(p, i) /\ UNCHANGED raced
         [] r.result = "ok" /\ r.kind = "revoke" /\ captured # Nobody ->
                /\ Free(request[p]) # {}
                /\ Show(p, Drawer(page[p], captured))
                /\ raced' = [raced EXCEPT ![p] = Races(p, captured)]
                /\ request' = [request EXCEPT ![p] = With(
                        [@ EXCEPT ![i] = [AskAs(p, "users") EXCEPT !.step = "sent"]],
                        AskDevices(p, captured))]
         [] OTHER ->
                /\ Followed(p, i, [AskAs(p, "users") EXCEPT
                        !.selected = IF captured = r.user /\ r.kind # "revoke"
                                     THEN captured ELSE Nobody])
                /\ UNCHANGED <<page, raced>>
    /\ UNCHANGED <<server, bounds>>

-----------------------------------------------------------------------------
(***************************************************************************)
(* The server.                                                             *)
(***************************************************************************)
\* An answer nobody waits for is dropped.
Answer(p, i, r) ==
    request' = [request EXCEPT ![p][i] = IF r.heard THEN [r EXCEPT !.step = "answered"]
                                         ELSE NoRequest]

Arrives(p, i, kinds) == request[p][i].step = "sent" /\ request[p][i].kind \in kinds

ServeStatus(p, i) ==
    /\ Arrives(p, i, {"status"})
    /\ Answer(p, i, [request[p][i] EXCEPT !.result = "ok",
                                          !.needsSetup = ~\E u \in Users : Exists(u)])
    /\ UNCHANGED <<server, page, raced, bounds>>

\* Mutant: one user is not counted.
CountUsersOffByOne(p, i) ==
    /\ Arrives(p, i, {"setup"})
    /\ IF Cardinality({u \in Users : Exists(u)}) > 1
       THEN Answer(p, i, [request[p][i] EXCEPT !.result = "conflict"])
       ELSE request' = [request EXCEPT ![p][i].step = "counted"]
    /\ UNCHANGED <<server, page, raced, bounds>>

\* handleAdminSetup counts the users,
CountUsers(p, i) ==
    /\ Arrives(p, i, {"setup"})
    /\ IF \E u \in Users : Exists(u)
       THEN Answer(p, i, [request[p][i] EXCEPT !.result = "conflict"])
       ELSE request' = [request EXCEPT ![p][i].step = "counted"]
    /\ UNCHANGED <<server, page, raced, bounds>>

\* creates one, if the name is free,
CreateUser(p, i) ==
    LET u == request[p][i].user IN
    /\ request[p][i].step = "counted"
    /\ IF Exists(u)
       THEN Answer(p, i, [request[p][i] EXCEPT !.result = "conflict"]) /\ UNCHANGED account
       ELSE /\ account' = [account EXCEPT ![u] = [role |-> "admin", disabled |-> FALSE]]
            /\ request' = [request EXCEPT ![p][i].step = "created"]
    /\ UNCHANGED <<revoked, session, page, raced, bounds>>

NewSession(p, i) ==
    /\ FreshTokens # {}
    /\ LET t == CHOOSE t \in FreshTokens : TRUE IN
       /\ session' = [session EXCEPT ![t] = request[p][i].user]
       /\ Answer(p, i, [request[p][i] EXCEPT !.result = "ok", !.token = t])

\* and creates a session.
CreateSession(p, i) ==
    /\ request[p][i].step = "created"
    /\ NewSession(p, i)
    /\ UNCHANGED <<account, revoked, page, raced, bounds>>

AdminLogin(p, i) ==
    /\ Arrives(p, i, {"login"})
    /\ IF IsAdmin(request[p][i].user) THEN NewSession(p, i)
       ELSE Answer(p, i, [request[p][i] EXCEPT !.result = "denied"]) /\ UNCHANGED session
    /\ UNCHANGED <<account, revoked, page, raced, bounds>>

\* requireAdmin.
Authorized(r) == r.token # 0 /\ session[r.token] # Nobody /\ IsAdmin(session[r.token])

NeedAdmin == {"users", "audit", "devices", "disable", "enable", "revoke"}

Refuse(p, i) ==
    /\ Arrives(p, i, NeedAdmin) /\ ~Authorized(request[p][i])
    /\ Answer(p, i, [request[p][i] EXCEPT !.result = "refused"])
    /\ UNCHANGED <<server, page, raced, bounds>>

\* Mutant: the role is shown for the state.
ListedRole(u) == account[u].role

Listed(u) ==
    IF account[u].disabled THEN "disabled" ELSE IF Exists(u) THEN "active" ELSE "none"

AdminList(p, i) ==
    LET r == request[p][i] IN
    /\ Arrives(p, i, {"users", "audit", "devices"}) /\ Authorized(r)
    /\ Answer(p, i, [r EXCEPT
            !.result = "ok",
            !.users = IF r.kind = "users" THEN [u \in Users |-> Listed(u)] ELSE @,
            !.devices = IF r.kind = "devices"
                        THEN {d \in Devices : Owner[d] = r.user} ELSE @])
    /\ UNCHANGED <<server, page, raced, bounds>>

\* handleAdminDisableUser and handleAdminEnableUser, of themselves too.
SetUserDisabled(p, i) ==
    LET r == request[p][i] IN
    /\ Arrives(p, i, {"disable", "enable"}) /\ Authorized(r)
    /\ account' = [account EXCEPT ![r.user].disabled = r.kind = "disable"]
    /\ session' = IF r.kind = "enable" THEN session
                  ELSE [t \in Tokens |-> IF session[t] = r.user THEN Nobody ELSE session[t]]
    /\ Answer(p, i, [r EXCEPT !.result = "ok"])
    /\ UNCHANGED <<revoked, page, raced, bounds>>

\* Mutant: whoever's device it is.
AdminRevokeAnyDevice(p, i) ==
    LET r == request[p][i] IN
    /\ Arrives(p, i, {"revoke"}) /\ Authorized(r)
    /\ revoked' = revoked \union {r.device}
    /\ Answer(p, i, [r EXCEPT !.result = "ok"])
    /\ UNCHANGED <<account, session, page, raced, bounds>>

AdminRevokeDevice(p, i) ==
    LET r == request[p][i] IN
    /\ Arrives(p, i, {"revoke"}) /\ Authorized(r)
    /\ IF Owner[r.device] = r.user
       THEN /\ revoked' = revoked \union {r.device}
            /\ Answer(p, i, [r EXCEPT !.result = "ok"])
       ELSE /\ Answer(p, i, [r EXCEPT !.result = "error"])
            /\ UNCHANGED revoked
    /\ UNCHANGED <<account, session, page, raced, bounds>>

\* A user's own registration (handleRegister).
Register(u) ==
    /\ ~Exists(u)
    /\ account' = [account EXCEPT ![u].role = "user"]
    /\ UNCHANGED <<revoked, session, page, request, raced, bounds>>

Fault == faults > 0 /\ faults' = faults - 1 /\ UNCHANGED <<opened, acts>>

\* A request or its answer is lost, or the server fails between two statements.
Fails(p, i) ==
    /\ request[p][i].step # "free" /\ request[p][i].result # "error"
    /\ Fault
    /\ Answer(p, i, [NoRequest EXCEPT !.kind = request[p][i].kind, !.heard = request[p][i].heard,
                        !.late = request[p][i].late, !.user = request[p][i].user,
                        !.selected = request[p][i].selected, !.result = "error"])
    /\ UNCHANGED <<server, page, raced>>

SessionExpires(t) ==
    /\ session[t] # Nobody /\ t \notin FreshTokens
    /\ Fault
    /\ session' = [session EXCEPT ![t] = Nobody]
    /\ UNCHANGED <<account, revoked, page, request, raced>>

AdminLogsIn(p) ==
    \/ SubmitLogin(p) \/ HandleSetup(p) \/ LookAgain(p)
    \/ page[p].refused /\ HandleLogout(p)

AdminActs(p) ==
    \/ HandleLogout(p) \/ Reload(p)
    \/ \E u \in Users : LoadUserDevices(p, u)
    \/ OpenDialog(p) \/ CloseDrawer(p) \/ CancelDialog(p) \/ ExecuteConfirmedAction(p)

Takes(p, i) ==
    \/ TakeStatus(p, i) \/ TakeLogin(p, i) \/ TakeUsers(p, i) \/ TakeDevices(p, i)
    \/ TakeAction(p, i)

Serves(p, i) ==
    \/ ServeStatus(p, i) \/ CountUsers(p, i) \/ CreateUser(p, i) \/ CreateSession(p, i)
    \/ AdminLogin(p, i) \/ Refuse(p, i) \/ AdminList(p, i) \/ SetUserDisabled(p, i)
    \/ AdminRevokeDevice(p, i)

Next ==
    \/ \E p \in opened : AdminLogsIn(p) \/ AdminActs(p)
    \/ \E p \in opened : \E i \in Slots(p) : Takes(p, i) \/ Serves(p, i) \/ Fails(p, i)
    \/ \E u \in Users : Register(u)
    \/ \E t \in Tokens : SessionExpires(t)

Spec == Init /\ [][Next]_vars

\* Requests are served, answers arrive, and administrators who want to get in use the
\* form the page shows; logged in, they look at the page again and again, and log out
\* when they are told that their session is not accepted.
FairSpec ==
    /\ Spec
    /\ \A p \in Pages :
        /\ WF_vars(p \in opened /\ AdminLogsIn(p))
        /\ \A i \in Slots(p) : WF_vars(Takes(p, i) \/ Serves(p, i))

-----------------------------------------------------------------------------
(***************************************************************************)
(* Properties.                                                             *)
(***************************************************************************)

\* Once somebody has an account, no setup that is sent makes an administrator, whatever
\* form a page still shows, however it is retried.
SetupIsClosed ==
    \A p \in Pages : \A i \in Slots(p) :
        request[p][i].kind = "setup" /\ request[p][i].late => request[p][i].step # "created"

\* The drawer shows devices of the user it names, also after loading them has failed,
\* after a revocation has opened it again and after a logout; unless the devices of
\* another user were still on their way when it was opened.
DrawerShowsItsUser ==
    \A p \in Pages :
        LET pg == page[p] IN
        pg.isLoggedIn /\ pg.selectedUser # Nobody /\ ~pg.devicesLoading /\ ~raced[p] =>
            \A d \in pg.selectedUserDevices : Owner[d] = pg.selectedUser

\* Even when the drawer shows the devices of another user, only a device of the user the
\* dialog was opened for is revoked.
RevokedInOwnersName ==
    [][\A d \in Devices :
        d \notin revoked /\ d \in revoked' =>
            \E p \in Pages : \E i \in Slots(p) :
                request[p][i].kind = "revoke" /\ request[p][i].user = Owner[d]]_revoked

\* Whatever is lost, whoever sets up first, and though sessions end, every administrator
\* who is enabled gets into the page in the end, with a session the server accepts.
AdminsGetIn ==
    \A p \in Pages :
        <>[](p \in opened /\ IsAdmin(Name[p]) =>
                page[p].isLoggedIn /\ session[page[p].token] = Name[p])
=============================================================================
