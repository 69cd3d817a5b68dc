---------------------------- MODULE AdminProofs ----------------------------
(***************************************************************************)
(* Proofs about the administrators' page: type correctness, that the setup *)
(* is closed once somebody has an account, that the drawer shows the       *)
(* devices of its user, and that a device is revoked in its owner's name.  *)
(***************************************************************************)
EXTENDS Admin, TLAPS

USE AdminAssumption DEF AdminAssumption

-----------------------------------------------------------------------------
(***************************************************************************)
(* The inductive invariant.  The properties are about what a page shows    *)
(* and what the server has; what makes them true is what the requests in   *)
(* flight may still do: a setup that came too late is never past the count *)
(* of users, and no answer that a drawer will show is another user's.      *)
(***************************************************************************)
Somebody == \E u \in Users : Exists(u)

\* What a request has come to.  A setup that was sent late never gets past the count.
RequestOK(r, somebody) ==
    /\ r.step = "answered" => r.heard
    /\ \A d \in r.devices : Owner[d] = r.user
    /\ r.late => somebody
    /\ r.kind = "setup" /\ r.late => r.step \notin {"counted", "created"}
    /\ r.kind = "revoke" /\ r.step = "sent" => r.device \in Devices

\* The answer will show devices of another user than u.
ShowsOther(r, u) == r.step # "free" /\ r.heard /\ r.kind = "devices" /\ r.user # u

\* What the drawer of a page pg with the requests rs shows and will show, logged in or not
\* and loading or not.
DrawerOK(pg, rs, race) ==
    pg.selectedUser # Nobody /\ ~race =>
        /\ \A d \in pg.selectedUserDevices : Owner[d] = pg.selectedUser
        /\ \A i \in DOMAIN rs : ~ShowsOther(rs[i], pg.selectedUser)

\* A dialog that asks for nothing is none, and one that revokes has a device.
DialogOK(pg) ==
    /\ pg.confirmAction.kind = "none" => pg.confirmAction = NoDialog
    /\ pg.confirmAction.kind = "revoke" => pg.confirmAction.device \in Devices

Inv ==
    /\ TypeOK
    /\ \A p \in Pages :
        /\ DialogOK(page[p])
        /\ \A i \in Slots(p) : RequestOK(request[p][i], Somebody)
        /\ DrawerOK(page[p], request[p], raced[p])

-----------------------------------------------------------------------------
(***************************************************************************)
(* Lemmas about the operators.                                             *)
(***************************************************************************)
\* The empty values are well formed.
LEMMA EmptyTypes ==
    /\ NoAccount \in Account /\ NoDialog \in Dialog /\ NoDialog.kind = "none"
    /\ NoList \in Lists
    /\ FreshPage \in Page /\ FreshPage.selectedUser = Nobody /\ FreshPage.confirmAction = NoDialog
    /\ NoRequest \in Request /\ NoRequest.step = "free" /\ NoRequest.heard
    /\ NoRequest.devices = {} /\ ~NoRequest.late
<1>1. NoList \in Lists /\ NoDialog \in Dialog /\ NoDialog.kind = "none"
  BY DEF NoList, Lists, NoDialog, Dialog
<1>2. FreshPage \in Page /\ FreshPage.selectedUser = Nobody /\ FreshPage.confirmAction = NoDialog
  BY <1>1 DEF FreshPage, Page
<1>3. /\ NoRequest \in Request /\ NoRequest.step = "free" /\ NoRequest.heard
      /\ NoRequest.devices = {} /\ ~NoRequest.late
  BY <1>1 DEF NoRequest, Request
<1> QED BY <1>1, <1>2, <1>3 DEF NoAccount, Account, Roles

\* A request as a page sends it.
Plain(r, kind) ==
    r \in Request /\ r.kind = kind /\ r.heard /\ r.devices = {} /\ ~r.late

Kinds == {"status", "setup", "login", "users", "devices", "audit", "disable", "enable", "revoke"}

\* What is asked is a plain request.
LEMMA AskOK ==
    ASSUME NEW kind \in Kinds
    PROVE  Plain(Ask(kind), kind) /\ Ask(kind).user = Nobody /\ Ask(kind).token = 0
<1>1. NoRequest.user = Nobody /\ NoRequest.token = 0
  BY DEF NoRequest
<1> QED BY <1>1, EmptyTypes DEF Ask, Plain, Request, Kinds

\* So is what is asked with the page's token.
LEMMA AskAsOK ==
    ASSUME TypeOK, NEW p \in Pages, NEW kind \in Kinds
    PROVE  Plain(AskAs(p, kind), kind)
<1>1. page[p].token \in {0} \union Tokens
  BY DEF TypeOK, Page
<1> QED BY <1>1, AskOK DEF AskAs, Plain, Request

\* And what asks for somebody's devices.
LEMMA AskDevicesOK ==
    ASSUME TypeOK, NEW p \in Pages, NEW u \in Users
    PROVE  Plain(AskDevices(p, u), "devices") /\ AskDevices(p, u).user = u
<1>1. Plain(AskAs(p, "devices"), "devices")
  BY AskAsOK DEF Kinds
<1> QED BY <1>1 DEF AskDevices, Plain, Request

\* r as it is when it has been sent.
IsSent(sent, r) ==
    /\ sent.step = "sent" /\ sent.kind = r.kind /\ sent.heard = r.heard
    /\ sent.late = r.late /\ sent.user = r.user /\ sent.devices = r.devices
    /\ sent.device = r.device

LEMMA SentOK ==
    ASSUME NEW r \in Request
    PROVE  [r EXCEPT !.step = "sent"] \in Request /\ IsSent([r EXCEPT !.step = "sent"], r)
BY DEF Request, IsSent

\* With adds one request, sent, and keeps the others.
LEMMA WithOK ==
    ASSUME NEW S, NEW rs \in [S -> Request], Free(rs) # {}, NEW r \in Request
    PROVE  /\ With(rs, r) \in [S -> Request]
           /\ \A i \in S : With(rs, r)[i] = rs[i] \/ IsSent(With(rs, r)[i], r)
<1> DEFINE i == CHOOSE i \in Free(rs) : TRUE
           sent == [r EXCEPT !.step = "sent"]
<1>1. i \in S
  BY DEF Free
<1>2. sent \in Request /\ IsSent(sent, r)
  BY SentOK
<1>3. With(rs, r) = [rs EXCEPT ![i] = sent]
  BY DEF With
<1> HIDE DEF i, sent
<1> QED BY <1>1, <1>2, <1>3

\* A request that was just sent has come to nothing wrong.
LEMMA SentRequestOK ==
    ASSUME NEW r \in Request, r.heard, r.devices = {}, NEW somebody, r.late => somebody,
           r.kind = "revoke" => r.device \in Devices, NEW sent, IsSent(sent, r)
    PROVE  RequestOK(sent, somebody) /\ \A u : ShowsOther(sent, u) => ShowsOther(r, u) \/ r.step = "free"
BY DEF RequestOK, IsSent, ShowsOther

\* What has an account keeps it.
LEMMA RequestStaysOK ==
    ASSUME NEW r, NEW before, NEW after, before => after, RequestOK(r, before)
    PROVE  RequestOK(r, after)
BY DEF RequestOK

-----------------------------------------------------------------------------
(***************************************************************************)
(* The shapes that steps have.                                             *)
(***************************************************************************)
\* What the server may do to its own state.
ServerStep ==
    /\ account' \in [Users -> Account] /\ (Somebody => Somebody')
    /\ revoked' \subseteq Devices /\ session' \in [Tokens -> Users \union {Nobody}]

\* What a page is after a step of its own.
PageIs(p, pg) ==
    /\ page' = [page EXCEPT ![p] = pg]
    /\ raced' \in [Pages -> BOOLEAN] /\ \A q \in Pages \ {p} : raced'[q] = raced[q]

\* The requests of the pages after a step of one of them.
RequestsAre(p, rs) ==
    /\ DOMAIN request' = Pages /\ request'[p] = rs
    /\ \A q \in Pages \ {p} : request'[q] = request[q]

BoundsStep == opened' = opened /\ acts' \in Nat /\ faults' \in Nat

LEMMA ServerKept ==
    ASSUME TypeOK, UNCHANGED server
    PROVE  ServerStep
BY DEF TypeOK, server, ServerStep, Somebody, Exists

LEMMA BoundsKept ==
    ASSUME TypeOK, UNCHANGED bounds
    PROVE  BoundsStep
BY DEF TypeOK, bounds, BoundsStep

LEMMA ActStep ==
    ASSUME TypeOK, Act
    PROVE  BoundsStep
BY DEF TypeOK, Act, BoundsStep

LEMMA FaultStep ==
    ASSUME TypeOK, Fault
    PROVE  BoundsStep
BY DEF TypeOK, Fault, BoundsStep

\* A step of one page and the server.
LEMMA PageStep ==
    ASSUME Inv, NEW p \in Pages, ServerStep, BoundsStep,
           NEW pg \in Page, PageIs(p, pg), DialogOK(pg),
           NEW rs \in [Slots(p) -> Request], RequestsAre(p, rs),
           \A i \in Slots(p) : RequestOK(rs[i], Somebody'),
           DrawerOK(pg, rs, raced'[p])
    PROVE  Inv'
<1>1. page' \in [Pages -> Page] /\ page'[p] = pg /\ \A q \in Pages \ {p} : page'[q] = page[q]
  BY DEF Inv, TypeOK, PageIs
<1>2. DOMAIN request' = Pages /\ request'[p] = rs /\ \A q \in Pages \ {p} : request'[q] = request[q]
  BY DEF RequestsAre
<1>3. \A q \in Pages : request'[q] \in [Slots(q) -> Request]
  BY <1>2 DEF Inv, TypeOK
<1>4. TypeOK'
  BY <1>1, <1>2, <1>3 DEF Inv, TypeOK, ServerStep, BoundsStep, PageIs
<1>5. ASSUME NEW q \in Pages \ {p}
      PROVE  /\ \A i \in Slots(q) : RequestOK(request'[q][i], Somebody')
             /\ DrawerOK(page'[q], request'[q], raced'[q])
  <2>1. \A i \in Slots(q) : RequestOK(request[q][i], Somebody')
    BY RequestStaysOK DEF Inv, ServerStep
  <2> QED BY <1>1, <1>2, <2>1 DEF Inv, PageIs
<1> QED BY <1>1, <1>2, <1>4, <1>5 DEF Inv

\* A page sends a request.
LEMMA SendStep ==
    ASSUME Inv, NEW p \in Pages, UNCHANGED server, BoundsStep,
           NEW pg \in Page, PageIs(p, pg), DialogOK(pg),
           NEW r \in Request, Send(p, r), r.heard, r.devices = {}, r.late => Somebody,
           DrawerOK(pg, request[p], raced'[p]),
           pg.selectedUser # Nobody /\ r.kind = "devices" => r.user = pg.selectedUser,
           r.kind = "revoke" => r.device \in Devices
    PROVE  Inv'
<1> DEFINE rs == With(request[p], r)
<1>1. request[p] \in [Slots(p) -> Request] /\ Free(request[p]) # {} /\ request' = [request EXCEPT ![p] = rs]
  BY DEF Inv, TypeOK, Send
<1>2. rs \in [Slots(p) -> Request] /\ \A i \in Slots(p) : rs[i] = request[p][i] \/ IsSent(rs[i], r)
  BY <1>1, WithOK
<1> HIDE DEF rs
<1>6. RequestsAre(p, rs)
  BY <1>1 DEF RequestsAre, Inv, TypeOK
<1>3. ServerStep /\ (Somebody => Somebody')
  BY ServerKept DEF Inv, ServerStep
<1>4. ASSUME NEW i \in Slots(p) PROVE RequestOK(rs[i], Somebody')
  <2>1. RequestOK(request[p][i], Somebody')
    BY <1>3, RequestStaysOK DEF Inv
  <2> QED BY <1>2, <1>3, <2>1, SentRequestOK
<1>5. DrawerOK(pg, rs, raced'[p])
  <2>1. ASSUME NEW i \in Slots(p), pg.selectedUser # Nobody, ShowsOther(rs[i], pg.selectedUser)
        PROVE  ShowsOther(request[p][i], pg.selectedUser)
    BY <1>2, <2>1 DEF IsSent, ShowsOther
  <2> QED BY <1>1, <1>2, <2>1 DEF DrawerOK
<1> QED BY <1>2, <1>3, <1>4, <1>5, <1>6, PageStep

\* One request comes to something, and the page may change.
LEMMA SlotStep ==
    ASSUME Inv, NEW p \in Pages, NEW i \in Slots(p), ServerStep, BoundsStep,
           NEW pg \in Page, PageIs(p, pg), DialogOK(pg),
           NEW r \in Request, request' = [request EXCEPT ![p][i] = r],
           RequestOK(r, Somebody'),
           \A u : ShowsOther(r, u) => ShowsOther(request[p][i], u),
           DrawerOK(pg, request[p], raced'[p])
    PROVE  Inv'
<1> DEFINE rs == [request[p] EXCEPT ![i] = r]
<1>1. request[p] \in [Slots(p) -> Request]
  BY DEF Inv, TypeOK
<1>2. rs \in [Slots(p) -> Request] /\ rs[i] = r /\ \A j \in Slots(p) \ {i} : rs[j] = request[p][j]
  BY <1>1
<1>3. RequestsAre(p, rs)
  BY DEF RequestsAre, Inv, TypeOK
<1> HIDE DEF rs
<1>4. ASSUME NEW j \in Slots(p) PROVE RequestOK(rs[j], Somebody')
  BY <1>2, RequestStaysOK DEF Inv, ServerStep
<1>5. DrawerOK(pg, rs, raced'[p])
  BY <1>1, <1>2 DEF DrawerOK
<1> QED BY <1>2, <1>3, <1>4, <1>5, PageStep

\* A page that does nothing stays as it is.
LEMMA PageKept ==
    ASSUME Inv, NEW p \in Pages, UNCHANGED <<page, raced>>
    PROVE  /\ PageIs(p, page[p]) /\ page[p] \in Page /\ DialogOK(page[p])
           /\ DrawerOK(page[p], request[p], raced'[p])
BY DEF Inv, TypeOK, PageIs

-----------------------------------------------------------------------------
(***************************************************************************)
(* What administrators do.                                                 *)
(***************************************************************************)
LEMMA SubmitLoginKeeps == ASSUME Inv, NEW p \in Pages, SubmitLogin(p) PROVE Inv'
<1> DEFINE r == [Ask("login") EXCEPT !.user = Name[p]]
<1>1. Plain(r, "login")
  BY AskOK DEF Plain, Request, Kinds
<1>2. Send(p, r) /\ UNCHANGED <<server, page, raced, bounds>>
  BY DEF SubmitLogin
<1> HIDE DEF r
<1> QED BY <1>1, <1>2, SendStep, PageKept, BoundsKept DEF Plain, Inv

LEMMA HandleSetupKeeps == ASSUME Inv, NEW p \in Pages, HandleSetup(p) PROVE Inv'
<1>1. PICK b \in BOOLEAN : b <=> Somebody
  <2>1. CASE Somebody
    BY <2>1
  <2>2. CASE ~Somebody
    BY <2>2
  <2> QED BY <2>1, <2>2
<1> DEFINE r == [Ask("setup") EXCEPT !.user = Name[p], !.late = b]
<1>2. r \in Request /\ r.kind = "setup" /\ r.heard /\ r.devices = {} /\ r.late = b
  <2>1. Plain(Ask("setup"), "setup") /\ Name[p] \in Users
    BY AskOK DEF Kinds
  <2> QED BY <2>1 DEF Plain, Request
<1>3. Send(p, r) /\ UNCHANGED <<server, page, raced, bounds>>
  BY <1>1 DEF HandleSetup, Somebody
<1> HIDE DEF r
<1> QED BY <1>1, <1>2, <1>3, SendStep, PageKept, BoundsKept DEF Inv

LEMMA LookAgainKeeps == ASSUME Inv, NEW p \in Pages, LookAgain(p) PROVE Inv'
<1> DEFINE r == AskAs(p, "audit")
<1>1. Plain(r, "audit")
  BY AskAsOK DEF Inv, Kinds
<1>2. Send(p, r) /\ UNCHANGED <<server, page, raced, bounds>>
  BY DEF LookAgain
<1> HIDE DEF r
<1> QED BY <1>1, <1>2, SendStep, PageKept, BoundsKept DEF Plain, Inv

LEMMA HandleLogoutKeeps == ASSUME Inv, NEW p \in Pages, HandleLogout(p) PROVE Inv'
<1> DEFINE r == Ask("status")
           pg == [page[p] EXCEPT !.isLoggedIn = FALSE, !.users = NoList, !.refused = FALSE,
                                 !.selectedUser = Nobody, !.confirmAction = NoDialog]
<1>1. Plain(r, "status")
  BY AskOK DEF Kinds
<1>2. Send(p, r) /\ UNCHANGED <<server, raced>> /\ page' = [page EXCEPT ![p] = pg]
  BY DEF HandleLogout
<1>3. BoundsStep
  BY ActStep, BoundsKept DEF HandleLogout, Inv
<1>4. page[p] \in Page
  BY DEF Inv, TypeOK
<1>5. pg \in Page /\ pg.selectedUser = Nobody /\ DialogOK(pg)
  BY <1>4, EmptyTypes DEF Page, DialogOK
<1> HIDE DEF r, pg
<1>6. PageIs(p, pg) /\ DrawerOK(pg, request[p], raced'[p])
  BY <1>2, <1>5 DEF PageIs, DrawerOK, Inv, TypeOK
<1> QED BY <1>1, <1>2, <1>3, <1>5, <1>6, SendStep DEF Plain, Inv

\* The requests of a page that is gone.
LEMMA AbandonedOK ==
    ASSUME NEW S, NEW rs \in [S -> Request], NEW somebody, \A i \in S : RequestOK(rs[i], somebody)
    PROVE  /\ Abandoned(rs) \in [S -> Request]
           /\ \A i \in S : RequestOK(Abandoned(rs)[i], somebody)
<1>1. ASSUME NEW i \in S PROVE Abandoned(rs)[i] \in Request /\ RequestOK(Abandoned(rs)[i], somebody)
  <2>1. rs[i] \in Request /\ RequestOK(rs[i], somebody)
    OBVIOUS
  <2>2. CASE rs[i].step \in {"free", "answered"}
    BY <2>2, EmptyTypes DEF Abandoned, RequestOK
  <2>3. CASE rs[i].step \notin {"free", "answered"}
    <3> DEFINE new == [rs[i] EXCEPT !.heard = FALSE]
    <3>1. Abandoned(rs)[i] = new
      BY <2>3 DEF Abandoned
    <3>2. /\ new \in Request /\ new.step = rs[i].step /\ new.devices = rs[i].devices
          /\ new.user = rs[i].user /\ new.late = rs[i].late /\ new.kind = rs[i].kind
          /\ new.device = rs[i].device
      BY <2>1 DEF Request
    <3> HIDE DEF new
    <3> QED BY <2>1, <2>3, <3>1, <3>2 DEF RequestOK
  <2> QED BY <2>2, <2>3
<1>2. Abandoned(rs) \in [S -> Request]
  BY <1>1 DEF Abandoned
<1> QED BY <1>1, <1>2

LEMMA ReloadKeeps == ASSUME Inv, NEW p \in Pages, Reload(p) PROVE Inv'
<1> DEFINE pg == [FreshPage EXCEPT !.isLoggedIn = page[p].isLoggedIn,
                                   !.token = IF page[p].isLoggedIn THEN page[p].token ELSE 0]
           ask == IF page[p].isLoggedIn THEN AskAs(p, "users") ELSE Ask("status")
           left == Abandoned(request[p])
           requests == With(left, ask)
<1>1. ask \in Request /\ ask.heard /\ ask.devices = {} /\ ~ask.late /\ ask.kind # "revoke"
  BY AskOK, AskAsOK DEF Plain, Kinds, Inv
<1>2. page[p] \in Page /\ request[p] \in [Slots(p) -> Request]
  BY DEF Inv, TypeOK
<1>3. pg \in Page /\ pg.selectedUser = Nobody /\ DialogOK(pg)
  BY <1>2, EmptyTypes DEF Page, DialogOK
<1>4. left \in [Slots(p) -> Request] /\ \A i \in Slots(p) : RequestOK(left[i], Somebody)
  BY <1>2, AbandonedOK DEF Inv
<1>5. /\ page' = [page EXCEPT ![p] = pg] /\ RequestsAre(p, requests)
      /\ raced' = [raced EXCEPT ![p] = FALSE] /\ UNCHANGED server
  BY DEF Reload, RequestsAre, Inv, TypeOK
<1>9a. Free(left) # {}
  BY DEF Reload
<1> HIDE DEF ask, left, pg
<1>6. requests \in [Slots(p) -> Request]
      /\ \A i \in Slots(p) : requests[i] = left[i] \/ IsSent(requests[i], ask)
  <2>1. left \in [Slots(p) -> Request]
    BY <1>4
  <2>2. ask \in Request
    BY <1>1
  <2>3. With(left, ask) \in [Slots(p) -> Request]
    BY <2>1, <2>2, <1>9a, WithOK
  <2>4. ASSUME NEW i \in Slots(p) PROVE With(left, ask)[i] = left[i] \/ IsSent(With(left, ask)[i], ask)
    BY <2>1, <2>2, <1>9a, WithOK
  <2> QED BY <2>3, <2>4
<1> HIDE DEF requests
<1>7. ServerStep /\ BoundsStep /\ (Somebody => Somebody')
  BY <1>5, ServerKept, ActStep DEF Reload, Inv, ServerStep
<1>8. ASSUME NEW i \in Slots(p) PROVE RequestOK(requests[i], Somebody')
  <2>1. RequestOK(left[i], Somebody')
    BY <1>4, <1>7, RequestStaysOK
  <2> QED BY <1>1, <1>6, <2>1, SentRequestOK
<1>9. PageIs(p, pg) /\ DrawerOK(pg, requests, raced'[p])
  BY <1>3, <1>5 DEF PageIs, DrawerOK, Inv, TypeOK
<1> QED BY <1>3, <1>5, <1>6, <1>7, <1>8, <1>9, PageStep

\* The drawer as it is opened for a user shows nobody's devices.
LEMMA DrawerOpens ==
    ASSUME NEW pg \in Page, NEW u \in Users
    PROVE  /\ Drawer(pg, u) \in Page /\ Drawer(pg, u).selectedUser = u
           /\ Drawer(pg, u).selectedUserDevices = {}
           /\ Drawer(pg, u).confirmAction = pg.confirmAction
BY DEF Drawer, Page

\* When no other user's devices are on their way, it will show its user's.
LEMMA DrawerOpensOK ==
    ASSUME Inv, NEW p \in Pages, NEW pg \in Page, NEW u \in Users, NEW race, race = Races(p, u)
    PROVE  DrawerOK(Drawer(pg, u), request[p], race)
<1>1. DOMAIN request[p] = Slots(p)
  BY DEF Inv, TypeOK
<1> QED BY <1>1, DrawerOpens DEF DrawerOK, Races, ShowsOther

LEMMA LoadUserDevicesKeeps ==
    ASSUME Inv, NEW p \in Pages, NEW u \in Users, LoadUserDevices(p, u) PROVE Inv'
<1> DEFINE r == AskDevices(p, u)
           pg == Drawer(page[p], u)
<1>1. Plain(r, "devices") /\ r.user = u
  BY AskDevicesOK DEF Inv
<1>2. /\ Send(p, r) /\ page' = [page EXCEPT ![p] = pg] /\ UNCHANGED server
      /\ raced' = [raced EXCEPT ![p] = Races(p, u)]
  BY DEF LoadUserDevices
<1>3. pg \in Page /\ pg.selectedUser = u /\ DialogOK(pg)
  <2>1. page[p] \in Page /\ DialogOK(page[p])
    BY DEF Inv, TypeOK
  <2> QED BY <2>1, DrawerOpens DEF DialogOK
<1>4. Races(p, u) \in BOOLEAN
  BY DEF Races
<1>5. DrawerOK(pg, request[p], raced'[p])
  BY <1>2, <1>4, DrawerOpensOK DEF Inv, TypeOK
<1>6. BoundsStep
  BY ActStep DEF LoadUserDevices, Inv
<1> HIDE DEF r, pg
<1>7. PageIs(p, pg)
  BY <1>2, <1>4 DEF PageIs, Inv, TypeOK
<1> QED BY <1>1, <1>2, <1>3, <1>5, <1>6, <1>7, SendStep DEF Plain

\* A step of the page alone that shows no more devices.
LEMMA LookStep ==
    ASSUME Inv, NEW p \in Pages, UNCHANGED <<server, request, raced, bounds>>,
           NEW pg \in Page, page' = [page EXCEPT ![p] = pg], DialogOK(pg),
           pg.selectedUser \in {page[p].selectedUser, Nobody},
           pg.selectedUserDevices = page[p].selectedUserDevices
    PROVE  Inv'
<1>1. request[p] \in [Slots(p) -> Request] /\ RequestsAre(p, request[p])
  BY DEF Inv, TypeOK, RequestsAre
<1>2. PageIs(p, pg) /\ DrawerOK(pg, request[p], raced'[p])
  BY DEF PageIs, DrawerOK, Inv, TypeOK
<1>3. ServerStep /\ BoundsStep
  BY ServerKept, BoundsKept DEF Inv
<1>4. \A i \in Slots(p) : RequestOK(request[p][i], Somebody')
  BY <1>3, RequestStaysOK DEF Inv, ServerStep
<1> QED BY <1>1, <1>2, <1>3, <1>4, PageStep

LEMMA OpenDialogKeeps == ASSUME Inv, NEW p \in Pages, OpenDialog(p) PROVE Inv'
<1>1. page[p] \in Page
  BY DEF Inv, TypeOK
<1>2. PICK dialog \in Dialog :
          /\ dialog.kind # "none" /\ (dialog.kind = "revoke" => dialog.device \in Devices)
          /\ page' = [page EXCEPT ![p].confirmAction = dialog]
  <2>1. CASE \E u \in Users : page' = [page EXCEPT ![p].confirmAction =
                    [kind |-> IF page[p].users[u] = "disabled" THEN "enable" ELSE "disable",
                     user |-> u, device |-> NoDevice]]
    BY <2>1 DEF Dialog
  <2>2. CASE \E d \in page[p].selectedUserDevices : page' = [page EXCEPT ![p].confirmAction =
                    [kind |-> "revoke", user |-> page[p].selectedUser, device |-> d]]
    <3>1. page[p].selectedUser \in Users \union {Nobody} /\ page[p].selectedUserDevices \subseteq Devices
      BY <1>1 DEF Page
    <3> QED BY <2>2, <3>1 DEF Dialog
  <2> QED BY <2>1, <2>2 DEF OpenDialog
<1> DEFINE pg == [page[p] EXCEPT !.confirmAction = dialog]
<1>3. page' = [page EXCEPT ![p] = pg]
  BY <1>2
<1>4. /\ pg \in Page /\ pg.selectedUser = page[p].selectedUser
      /\ pg.selectedUserDevices = page[p].selectedUserDevices /\ DialogOK(pg)
  BY <1>1, <1>2 DEF Page, DialogOK
<1> HIDE DEF pg
<1> QED BY <1>3, <1>4, LookStep DEF OpenDialog

LEMMA CloseDrawerKeeps == ASSUME Inv, NEW p \in Pages, CloseDrawer(p) PROVE Inv'
<1>1. page[p] \in Page
  BY DEF Inv, TypeOK
<1>2. PICK dialog \in {page[p].confirmAction, NoDialog} :
          page' = [page EXCEPT ![p].selectedUser = Nobody, ![p].confirmAction = dialog]
  BY DEF CloseDrawer
<1>3. /\ dialog \in Dialog /\ (dialog.kind = "none" => dialog = NoDialog)
      /\ dialog.kind = "revoke" => dialog.device \in Devices
  <2>1. page[p].confirmAction \in Dialog /\ DialogOK(page[p])
    BY <1>1 DEF Page, Inv
  <2> QED BY <1>2, <2>1, EmptyTypes DEF DialogOK
<1> DEFINE pg == [page[p] EXCEPT !.selectedUser = Nobody, !.confirmAction = dialog]
<1>4. page' = [page EXCEPT ![p] = pg]
  BY <1>2
<1>5. /\ pg \in Page /\ pg.selectedUser = Nobody
      /\ pg.selectedUserDevices = page[p].selectedUserDevices /\ DialogOK(pg)
  BY <1>1, <1>3 DEF Page, DialogOK
<1> HIDE DEF pg
<1> QED BY <1>4, <1>5, LookStep DEF CloseDrawer

LEMMA CancelDialogKeeps == ASSUME Inv, NEW p \in Pages, CancelDialog(p) PROVE Inv'
<1> DEFINE pg == [page[p] EXCEPT !.confirmAction = NoDialog]
<1>1. page[p] \in Page
  BY DEF Inv, TypeOK
<1>2. page' = [page EXCEPT ![p] = pg]
  BY DEF CancelDialog
<1>3. /\ pg \in Page /\ pg.selectedUser = page[p].selectedUser
      /\ pg.selectedUserDevices = page[p].selectedUserDevices /\ DialogOK(pg)
  BY <1>1, EmptyTypes DEF Page, DialogOK
<1> HIDE DEF pg
<1> QED BY <1>2, <1>3, LookStep DEF CancelDialog

LEMMA ExecuteConfirmedActionKeeps ==
    ASSUME Inv, NEW p \in Pages, ExecuteConfirmedAction(p) PROVE Inv'
<1> DEFINE action == page[p].confirmAction
           r == [AskAs(p, action.kind) EXCEPT !.user = action.user, !.device = action.device,
                                              !.selected = page[p].selectedUser]
           pg == [page[p] EXCEPT !.confirmAction = NoDialog]
<1>1. page[p] \in Page /\ action \in Dialog /\ action # NoDialog
  BY DEF Inv, TypeOK, Page, ExecuteConfirmedAction
<1>2. page[p].selectedUser \in Users \union {Nobody}
  BY <1>1 DEF Page
<1>3. Send(p, r) /\ page' = [page EXCEPT ![p] = pg] /\ UNCHANGED <<server, raced>>
  BY DEF ExecuteConfirmedAction
<1>4. BoundsStep
  BY ActStep DEF ExecuteConfirmedAction, Inv
<1>5. /\ pg \in Page /\ pg.selectedUser = page[p].selectedUser
      /\ pg.selectedUserDevices = page[p].selectedUserDevices /\ DialogOK(pg)
  BY <1>1, EmptyTypes DEF Page, DialogOK
<1>6. PageIs(p, pg) /\ DrawerOK(pg, request[p], raced'[p])
  BY <1>3, <1>5 DEF PageIs, DrawerOK, Inv, TypeOK
<1>7. action.kind \in {"disable", "enable", "revoke"}
  BY <1>1 DEF Inv, DialogOK, Dialog
<1>8. /\ r \in Request /\ r.kind = action.kind /\ r.heard /\ r.devices = {} /\ ~r.late
      /\ r.kind = "revoke" => r.device \in Devices
  <2>1. Plain(AskAs(p, action.kind), action.kind)
    BY <1>7, AskAsOK DEF Inv, Kinds
  <2>2. /\ action.user \in Users \union {Nobody} /\ action.device \in Devices \union {NoDevice}
        /\ action.kind = "revoke" => action.device \in Devices
    BY <1>1 DEF Dialog, Inv, DialogOK
  <2> DEFINE asked == AskAs(p, action.kind)
  <2>3. r = [asked EXCEPT !.user = action.user, !.device = action.device,
                          !.selected = page[p].selectedUser]
    OBVIOUS
  <2> HIDE DEF asked, action, r
  <2> QED BY <1>2, <2>1, <2>2, <2>3 DEF Plain, Request, asked
<1> HIDE DEF r, pg, action
<1> QED BY <1>3, <1>4, <1>5, <1>6, <1>7, <1>8, SendStep

-----------------------------------------------------------------------------
(***************************************************************************)
(* What the page does with answers.                                        *)
(***************************************************************************)
\* A request that is done with, or followed by another that asks for no devices.
LEMMA FollowedOK ==
    ASSUME Inv, NEW p \in Pages, NEW i \in Slots(p), NEW kind \in Kinds \ {"devices", "revoke"},
           NEW ask, Plain(ask, kind), NEW r, r \in {NoRequest, [ask EXCEPT !.step = "sent"]}
    PROVE  /\ r \in Request /\ RequestOK(r, Somebody')
           /\ \A u : ~ShowsOther(r, u)
<1>1. CASE r = NoRequest
  BY <1>1, EmptyTypes DEF RequestOK, ShowsOther
<1>2. CASE r = [ask EXCEPT !.step = "sent"]
  BY <1>2, SentOK DEF Plain, RequestOK, IsSent, ShowsOther
<1> QED BY <1>1, <1>2

LEMMA TakeStatusKeeps ==
    ASSUME Inv, NEW p \in Pages, NEW i \in Slots(p), TakeStatus(p, i) PROVE Inv'
<1>1. page[p] \in Page /\ request[p][i] \in Request
  BY DEF Inv, TypeOK
<1>2. PICK known \in BOOLEAN : page' = [page EXCEPT ![p] = [page[p] EXCEPT !.needsSetup = known]]
  BY <1>1 DEF TakeStatus, Show, Page, Request
<1> DEFINE pg == [page[p] EXCEPT !.needsSetup = known]
<1>3. /\ pg \in Page /\ pg.selectedUser = page[p].selectedUser /\ pg.confirmAction = page[p].confirmAction
      /\ pg.selectedUserDevices = page[p].selectedUserDevices
  BY <1>1 DEF Page
<1>4. page' = [page EXCEPT ![p] = pg] /\ UNCHANGED <<server, raced, bounds>>
  BY <1>2 DEF TakeStatus
<1> HIDE DEF pg
<1>5. PageIs(p, pg) /\ DialogOK(pg) /\ DrawerOK(pg, request[p], raced'[p])
  BY <1>3, <1>4 DEF PageIs, DrawerOK, DialogOK, Inv, TypeOK
<1>6. request' = [request EXCEPT ![p][i] = NoRequest]
  BY DEF TakeStatus, Done
<1>7. NoRequest \in Request /\ RequestOK(NoRequest, Somebody') /\ \A u : ~ShowsOther(NoRequest, u)
  BY EmptyTypes DEF RequestOK, ShowsOther
<1> QED BY <1>3, <1>4, <1>5, <1>6, <1>7, SlotStep, ServerKept, BoundsKept DEF Inv

LEMMA TakeLoginKeeps ==
    ASSUME Inv, NEW p \in Pages, NEW i \in Slots(p), TakeLogin(p, i) PROVE Inv'
<1> DEFINE r == request[p][i]
<1>1. page[p] \in Page /\ r \in Request
  BY DEF Inv, TypeOK
<1>2. UNCHANGED <<server, raced, bounds>>
  BY DEF TakeLogin
<1>3. PICK new \in Request, pg \in Page :
          /\ page' = [page EXCEPT ![p] = pg] /\ request' = [request EXCEPT ![p][i] = new]
          /\ RequestOK(new, Somebody') /\ (\A u : ~ShowsOther(new, u))
          /\ pg.selectedUser = page[p].selectedUser /\ pg.confirmAction = page[p].confirmAction
          /\ pg.selectedUserDevices = page[p].selectedUserDevices
  <2>1. CASE r.result = "ok"
    <3> DEFINE ask == [Ask("users") EXCEPT !.token = r.token]
               setup == page[p].needsSetup /\ r.kind = "login"
               pg == [page[p] EXCEPT !.isLoggedIn = TRUE, !.token = r.token, !.refused = FALSE,
                                     !.needsSetup = setup]
               new == [ask EXCEPT !.step = "sent"]
    <3>1. Plain(ask, "users")
      <4>1. Plain(Ask("users"), "users") /\ r.token \in {0} \union Tokens
        BY <1>1, AskOK DEF Kinds, Request
      <4> HIDE DEF r
      <4> QED BY <4>1 DEF Plain, Request
    <3>2. page' = [page EXCEPT ![p] = pg] /\ request' = [request EXCEPT ![p][i] = new]
      BY <2>1 DEF TakeLogin, Show, Followed
    <3> HIDE DEF ask
    <3>3. new \in Request /\ RequestOK(new, Somebody') /\ \A u : ~ShowsOther(new, u)
      BY <3>1, FollowedOK DEF Kinds
    <3>4. setup \in BOOLEAN /\ r.token \in {0} \union Tokens
      BY <1>1 DEF Request
    <3> HIDE DEF setup, r, new
    <3>5. /\ pg \in Page /\ pg.selectedUser = page[p].selectedUser
          /\ pg.confirmAction = page[p].confirmAction
          /\ pg.selectedUserDevices = page[p].selectedUserDevices
      BY <1>1, <3>4 DEF Page
    <3> HIDE DEF pg
    <3> QED BY <3>2, <3>3, <3>5
  <2>2. CASE r.result # "ok"
    <3> DEFINE setup == page[p].needsSetup /\ r.result # "conflict"
               pg == [page[p] EXCEPT !.needsSetup = setup]
    <3>1. page' = [page EXCEPT ![p] = pg] /\ request' = [request EXCEPT ![p][i] = NoRequest]
      BY <2>2 DEF TakeLogin, Show, Done
    <3>2. setup \in BOOLEAN
      BY <1>1 DEF Page
    <3> HIDE DEF setup, r
    <3>3. /\ pg \in Page /\ pg.selectedUser = page[p].selectedUser
          /\ pg.confirmAction = page[p].confirmAction
          /\ pg.selectedUserDevices = page[p].selectedUserDevices
      BY <1>1, <3>2 DEF Page
    <3> HIDE DEF pg
    <3>4. NoRequest \in Request /\ RequestOK(NoRequest, Somebody') /\ \A u : ~ShowsOther(NoRequest, u)
      BY EmptyTypes DEF RequestOK, ShowsOther
    <3> QED BY <3>1, <3>3, <3>4
  <2> QED BY <2>1, <2>2
<1>4. PageIs(p, pg) /\ DialogOK(pg) /\ DrawerOK(pg, request[p], raced'[p])
  BY <1>2, <1>3 DEF PageIs, DrawerOK, DialogOK, Inv, TypeOK
<1> QED BY <1>2, <1>3, <1>4, SlotStep, ServerKept, BoundsKept DEF Inv

\* A toast changes nothing but refused.
LEMMA ToastOK ==
    ASSUME Inv, NEW p \in Pages, NEW i \in Slots(p)
    PROVE  /\ Toast(p, i) \in Page /\ Toast(p, i).selectedUser = page[p].selectedUser
           /\ Toast(p, i).confirmAction = page[p].confirmAction
           /\ Toast(p, i).selectedUserDevices = page[p].selectedUserDevices
<1> DEFINE refused == page[p].refused \/ request[p][i].result = "refused"
<1>1. page[p] \in Page /\ refused \in BOOLEAN
  BY DEF Inv, TypeOK, Page
<1>2. Toast(p, i) = [page[p] EXCEPT !.refused = refused]
  BY DEF Toast
<1> HIDE DEF refused
<1> QED BY <1>1, <1>2 DEF Page

LEMMA TakeUsersKeeps ==
    ASSUME Inv, NEW p \in Pages, NEW i \in Slots(p), TakeUsers(p, i) PROVE Inv'
<1> DEFINE r == request[p][i]
           toast == Toast(p, i)
           users == IF r.kind = "users" /\ r.result = "ok" THEN r.users ELSE toast.users
           user == IF r.selected # Nobody THEN r.selected ELSE toast.selectedUser
           pg == [toast EXCEPT !.users = users, !.selectedUser = user]
<1>1. r \in Request
  BY DEF Inv, TypeOK
<1>2. /\ toast \in Page /\ toast.selectedUser = page[p].selectedUser
      /\ toast.confirmAction = page[p].confirmAction
      /\ toast.selectedUserDevices = page[p].selectedUserDevices
  BY ToastOK
<1>3. /\ page' = [page EXCEPT ![p] = pg] /\ UNCHANGED <<server, bounds>>
      /\ raced' = [raced EXCEPT ![p] = raced[p] \/ r.selected \notin {Nobody, page[p].selectedUser}]
  BY DEF TakeUsers, Show
<1>4. request' = [request EXCEPT ![p][i] = NoRequest]
  BY DEF TakeUsers, Done
<1> HIDE DEF toast
<1>5. users \in Lists /\ user \in Users \union {Nobody}
  BY <1>1, <1>2 DEF Request, Page
<1>6. raced'[p] \/ user = page[p].selectedUser
  BY <1>2, <1>3 DEF Inv, TypeOK
<1>7. raced' \in [Pages -> BOOLEAN] /\ (\A q \in Pages \ {p} : raced'[q] = raced[q]) /\ (raced[p] => raced'[p])
  BY <1>3 DEF Inv, TypeOK
<1> HIDE DEF users, user, r
<1>8. /\ pg \in Page /\ pg.selectedUser = user /\ pg.confirmAction = page[p].confirmAction
      /\ pg.selectedUserDevices = page[p].selectedUserDevices
  BY <1>2, <1>5 DEF Page
<1> HIDE DEF pg
<1>9. PageIs(p, pg) /\ DialogOK(pg) /\ DrawerOK(pg, request[p], raced'[p])
  BY <1>3, <1>6, <1>7, <1>8 DEF PageIs, DrawerOK, DialogOK, Inv
<1>10. NoRequest \in Request /\ RequestOK(NoRequest, Somebody') /\ \A u : ~ShowsOther(NoRequest, u)
  BY EmptyTypes DEF RequestOK, ShowsOther
<1> QED BY <1>3, <1>4, <1>8, <1>9, <1>10, SlotStep, ServerKept, BoundsKept DEF Inv

\* An answer shows devices of the user it was asked for, and who else's would be shown is
\* known when the drawer opens.
LEMMA TakeDevicesKeeps ==
    ASSUME Inv, NEW p \in Pages, NEW i \in Slots(p), TakeDevices(p, i) PROVE Inv'
<1> DEFINE r == request[p][i]
           toast == Toast(p, i)
           devices == IF r.result = "ok" THEN r.devices ELSE toast.selectedUserDevices
           pg == [toast EXCEPT !.selectedUserDevices = devices, !.devicesLoading = FALSE]
<1>1. r \in Request /\ RequestOK(r, Somebody) /\ r.step = "answered" /\ r.kind = "devices"
  BY DEF Inv, TypeOK, TakeDevices, Arrived
<1>2. /\ toast \in Page /\ toast.selectedUser = page[p].selectedUser
      /\ toast.confirmAction = page[p].confirmAction
      /\ toast.selectedUserDevices = page[p].selectedUserDevices
  BY ToastOK
<1>3. /\ page' = [page EXCEPT ![p] = pg] /\ UNCHANGED <<server, raced, bounds>>
      /\ request' = [request EXCEPT ![p][i] = NoRequest]
  BY DEF TakeDevices, Show, Done
<1>4. page[p].selectedUser # Nobody /\ ~raced[p] =>
          \A d \in devices : Owner[d] = page[p].selectedUser
  <2>1. DOMAIN request[p] = Slots(p)
    BY DEF Inv, TypeOK
  <2>2. page[p].selectedUser # Nobody /\ ~raced[p] =>
            /\ \A d \in page[p].selectedUserDevices : Owner[d] = page[p].selectedUser
            /\ ~ShowsOther(r, page[p].selectedUser)
    BY <2>1 DEF Inv, DrawerOK
  <2> HIDE DEF r, toast
  <2> QED BY <1>1, <1>2, <2>2 DEF RequestOK, ShowsOther
<1> HIDE DEF toast
<1>5. devices \subseteq Devices
  BY <1>1, <1>2 DEF Request, Page
<1> HIDE DEF devices, r
<1>6. /\ pg \in Page /\ pg.selectedUser = page[p].selectedUser
      /\ pg.confirmAction = page[p].confirmAction /\ pg.selectedUserDevices = devices
  BY <1>2, <1>5 DEF Page
<1> HIDE DEF pg
<1>7. PageIs(p, pg) /\ DialogOK(pg) /\ DrawerOK(pg, request[p], raced'[p])
  BY <1>3, <1>4, <1>6 DEF PageIs, DrawerOK, DialogOK, Inv, TypeOK
<1>8. NoRequest \in Request /\ RequestOK(NoRequest, Somebody') /\ \A u : ~ShowsOther(NoRequest, u)
  BY EmptyTypes DEF RequestOK, ShowsOther
<1> QED BY <1>3, <1>6, <1>7, <1>8, SlotStep, ServerKept, BoundsKept DEF Inv

\* A revocation opens the drawer again, with two requests.
LEMMA DrawerReopens ==
    ASSUME Inv, NEW p \in Pages, NEW i \in Slots(p), request[p][i].step = "answered",
           NEW u \in Users, Free(request[p]) # {}, UNCHANGED <<server, bounds>>,
           page' = [page EXCEPT ![p] = Drawer(page[p], u)],
           raced' = [raced EXCEPT ![p] = Races(p, u)],
           request' = [request EXCEPT ![p] = With(
                        [request[p] EXCEPT ![i] = [AskAs(p, "users") EXCEPT !.step = "sent"]],
                        AskDevices(p, u))]
    PROVE  Inv'
<1> DEFINE list == [AskAs(p, "users") EXCEPT !.step = "sent"]
           mid == [request[p] EXCEPT ![i] = list]
           load == AskDevices(p, u)
           all == With(mid, load)
           pg == Drawer(page[p], u)
<1>1. request[p] \in [Slots(p) -> Request] /\ page[p] \in Page /\ DialogOK(page[p])
  BY DEF Inv, TypeOK
<1>2. Plain(AskAs(p, "users"), "users") /\ Plain(load, "devices") /\ load.user = u
  BY AskAsOK, AskDevicesOK DEF Kinds, Inv
<1>3. list \in Request /\ IsSent(list, AskAs(p, "users"))
  BY <1>2, SentOK DEF Plain
<1>4. /\ RequestsAre(p, all) /\ page' = [page EXCEPT ![p] = pg]
  BY DEF RequestsAre, Inv, TypeOK
<1>5. ServerStep /\ BoundsStep /\ (Somebody => Somebody')
  BY ServerKept, BoundsKept DEF Inv, ServerStep
<1> HIDE DEF list, load
<1>6. mid \in [Slots(p) -> Request] /\ mid[i] = list /\ \A j \in Slots(p) \ {i} : mid[j] = request[p][j]
  BY <1>1, <1>3
<1>7. Free(mid) # {}
  <2>1. PICK j \in Slots(p) : request[p][j].step = "free"
    BY <1>1 DEF Free
  <2>2. DOMAIN mid = Slots(p) /\ mid[j] = request[p][j]
    BY <1>1, <1>6, <2>1
  <2> HIDE DEF mid
  <2> QED BY <2>1, <2>2 DEF Free
<1> HIDE DEF mid
<1>8. load \in Request
  BY <1>2 DEF Plain
<1>9. all \in [Slots(p) -> Request] /\ \A j \in Slots(p) : all[j] = mid[j] \/ IsSent(all[j], load)
  BY <1>6, <1>7, <1>8, WithOK
<1> HIDE DEF all
<1>10. RequestOK(list, Somebody') /\ ~ShowsOther(list, u)
  BY <1>2, <1>3 DEF Plain, RequestOK, IsSent, ShowsOther
<1>11. ASSUME NEW j \in Slots(p) PROVE RequestOK(all[j], Somebody')
  <2>1. RequestOK(request[p][j], Somebody')
    BY <1>5, RequestStaysOK DEF Inv
  <2>2. CASE IsSent(all[j], load)
    BY <1>2, <1>8, <2>2, SentRequestOK DEF Plain
  <2> QED BY <1>6, <1>9, <1>10, <2>1, <2>2
<1>12. pg \in Page /\ pg.selectedUser = u /\ pg.selectedUserDevices = {} /\ DialogOK(pg)
  BY <1>1, DrawerOpens DEF DialogOK
<1>13. Races(p, u) \in BOOLEAN /\ raced'[p] = Races(p, u)
  BY DEF Races, Inv, TypeOK
<1> HIDE DEF pg
<1>14. DrawerOK(pg, all, raced'[p])
  <2>1. ASSUME NEW j \in Slots(p), ~raced'[p] PROVE ~ShowsOther(all[j], u)
    <3>1. ~ShowsOther(request[p][j], u)
      BY <1>13, <2>1 DEF Races, ShowsOther
    <3>2. CASE IsSent(all[j], load)
      BY <1>2, <3>2 DEF IsSent, ShowsOther
    <3> QED BY <1>6, <1>9, <1>10, <3>1, <3>2
  <2> QED BY <1>9, <1>12, <2>1 DEF DrawerOK
<1>15. PageIs(p, pg)
  BY <1>4, <1>13 DEF PageIs, Inv, TypeOK
<1> QED BY <1>4, <1>5, <1>9, <1>11, <1>12, <1>14, <1>15, PageStep

LEMMA TakeActionKeeps ==
    ASSUME Inv, NEW p \in Pages, NEW i \in Slots(p), TakeAction(p, i) PROVE Inv'
<1> DEFINE r == request[p][i]
<1>1. r \in Request /\ r.step = "answered" /\ r.selected \in Users \union {Nobody}
  BY DEF Inv, TypeOK, TakeAction, Arrived, Request
<1>2. UNCHANGED <<server, bounds>>
  BY DEF TakeAction
<1>3. CASE r.result # "ok"
  <2> DEFINE pg == Toast(p, i)
  <2>1. /\ page' = [page EXCEPT ![p] = pg] /\ request' = [request EXCEPT ![p][i] = NoRequest]
        /\ UNCHANGED raced
    BY <1>3 DEF TakeAction, Show, Done
  <2>2. /\ pg \in Page /\ pg.selectedUser = page[p].selectedUser
        /\ pg.confirmAction = page[p].confirmAction
        /\ pg.selectedUserDevices = page[p].selectedUserDevices
    BY ToastOK
  <2> HIDE DEF pg
  <2>3. PageIs(p, pg) /\ DialogOK(pg) /\ DrawerOK(pg, request[p], raced'[p])
    BY <2>1, <2>2 DEF PageIs, DrawerOK, DialogOK, Inv, TypeOK
  <2>4. NoRequest \in Request /\ RequestOK(NoRequest, Somebody') /\ \A u : ~ShowsOther(NoRequest, u)
    BY EmptyTypes DEF RequestOK, ShowsOther
  <2> QED BY <1>2, <2>1, <2>2, <2>3, <2>4, SlotStep, ServerKept, BoundsKept DEF Inv
<1>4. CASE r.result = "ok" /\ r.kind = "revoke" /\ r.selected # Nobody
  BY <1>1, <1>2, <1>4, DrawerReopens DEF TakeAction, Show
<1>5. CASE r.result = "ok" /\ ~(r.kind = "revoke" /\ r.selected # Nobody)
  <2> DEFINE selected == IF r.selected = r.user /\ r.kind # "revoke" THEN r.selected ELSE Nobody
             ask == [AskAs(p, "users") EXCEPT !.selected = selected]
             new == [ask EXCEPT !.step = "sent"]
  <2>1. request' = [request EXCEPT ![p][i] = new] /\ UNCHANGED <<page, raced>>
    BY <1>5 DEF TakeAction, Followed
  <2>2. selected \in Users \union {Nobody}
    BY <1>1
  <2> HIDE DEF selected
  <2>3. Plain(ask, "users")
    <3>1. Plain(AskAs(p, "users"), "users")
      BY AskAsOK DEF Kinds, Inv
    <3> QED BY <2>2, <3>1 DEF Plain, Request
  <2> HIDE DEF ask
  <2>4. new \in Request /\ RequestOK(new, Somebody') /\ \A u : ~ShowsOther(new, u)
    BY <2>3, FollowedOK DEF Kinds
  <2> HIDE DEF new
  <2> QED BY <1>2, <2>1, <2>4, SlotStep, PageKept, ServerKept, BoundsKept DEF Inv
<1> QED BY <1>3, <1>4, <1>5

-----------------------------------------------------------------------------
(***************************************************************************)
(* What the server does.                                                   *)
(***************************************************************************)
\* A step of the server for one request, which comes to r; the page hears of it later.
LEMMA ServeStep ==
    ASSUME Inv, NEW p \in Pages, NEW i \in Slots(p), ServerStep, BoundsStep,
           UNCHANGED <<page, raced>>,
           NEW r \in Request, r.kind = request[p][i].kind, r.user = request[p][i].user,
           r.heard = request[p][i].heard, r.late = request[p][i].late,
           request[p][i].step # "free",
           \A d \in r.devices : Owner[d] = r.user,
           \/ Answer(p, i, r)
           \/ /\ request' = [request EXCEPT ![p][i] = r]
              /\ r.step \in {"counted", "created"}
              /\ r.kind = "setup" /\ r.late => r.step \notin {"counted", "created"}
    PROVE  Inv'
<1>1. request[p][i] \in Request /\ RequestOK(request[p][i], Somebody')
  BY RequestStaysOK DEF Inv, TypeOK, ServerStep
<1>2. CASE Answer(p, i, r)
  <2> DEFINE new == IF r.heard THEN [r EXCEPT !.step = "answered"] ELSE NoRequest
  <2>1. request' = [request EXCEPT ![p][i] = new]
    BY <1>2 DEF Answer
  <2>2. /\ new \in Request /\ RequestOK(new, Somebody')
        /\ \A u : ShowsOther(new, u) => ShowsOther(request[p][i], u)
    <3>1. CASE r.heard
      <4> DEFINE answered == [r EXCEPT !.step = "answered"]
      <4>1. /\ answered \in Request /\ answered.step = "answered" /\ answered.heard = r.heard
            /\ answered.kind = r.kind /\ answered.user = r.user /\ answered.late = r.late
            /\ answered.devices = r.devices
        BY DEF Request
      <4>2. new = answered
        BY <3>1
      <4> HIDE DEF answered, new
      <4> QED BY <1>1, <3>1, <4>1, <4>2 DEF RequestOK, ShowsOther
    <3>2. CASE ~r.heard
      BY <3>2, EmptyTypes DEF RequestOK, ShowsOther
    <3> QED BY <3>1, <3>2
  <2> HIDE DEF new
  <2> QED BY <2>1, <2>2, SlotStep, PageKept
<1>3. CASE /\ request' = [request EXCEPT ![p][i] = r] /\ r.step \in {"counted", "created"}
           /\ r.kind = "setup" /\ r.late => r.step \notin {"counted", "created"}
  <2>1. RequestOK(r, Somebody') /\ \A u : ShowsOther(r, u) => ShowsOther(request[p][i], u)
    BY <1>1, <1>3 DEF RequestOK, ShowsOther
  <2> QED BY <1>3, <2>1, SlotStep, PageKept
<1> QED BY <1>2, <1>3

\* A request with a result is the same but for that.
LEMMA ResultOK ==
    ASSUME NEW r \in Request,
           NEW result \in {"none", "ok", "conflict", "denied", "refused", "error"}
    PROVE  LET new == [r EXCEPT !.result = result] IN
           /\ new \in Request /\ new.kind = r.kind /\ new.user = r.user /\ new.heard = r.heard
           /\ new.late = r.late /\ new.devices = r.devices /\ new.step = r.step
BY DEF Request

\* So is one that has come further.
LEMMA StepOK ==
    ASSUME NEW r \in Request, NEW step \in {"counted", "created"}
    PROVE  LET new == [r EXCEPT !.step = step] IN
           /\ new \in Request /\ new.kind = r.kind /\ new.user = r.user /\ new.heard = r.heard
           /\ new.late = r.late /\ new.devices = r.devices /\ new.step = step
BY DEF Request

\* What is known of a request that the server works on.
LEMMA ServedOK ==
    ASSUME Inv, NEW p \in Pages, NEW i \in Slots(p)
    PROVE  request[p][i] \in Request /\ RequestOK(request[p][i], Somebody)
BY DEF Inv, TypeOK

LEMMA ServeStatusKeeps ==
    ASSUME Inv, NEW p \in Pages, NEW i \in Slots(p), ServeStatus(p, i) PROVE Inv'
<1> DEFINE r == request[p][i]
<1>1. r \in Request /\ RequestOK(r, Somebody) /\ r.step = "sent"
  BY ServedOK DEF ServeStatus, Arrives
<1>2. PICK needs \in BOOLEAN : needs <=> ~Somebody
  <2>1. CASE Somebody
    BY <2>1
  <2>2. CASE ~Somebody
    BY <2>2
  <2> QED BY <2>1, <2>2
<1> DEFINE new == [r EXCEPT !.result = "ok", !.needsSetup = needs]
<1>3. Answer(p, i, new) /\ UNCHANGED <<server, page, raced, bounds>>
  BY <1>2 DEF ServeStatus, Somebody
<1> HIDE DEF r
<1>4. /\ new \in Request /\ new.kind = r.kind /\ new.user = r.user /\ new.heard = r.heard
      /\ new.late = r.late /\ new.devices = r.devices
  BY <1>1 DEF Request
<1> HIDE DEF new
<1> QED BY <1>1, <1>3, <1>4, ServeStep, ServerKept, BoundsKept DEF Inv, RequestOK, r

LEMMA CountUsersKeeps ==
    ASSUME Inv, NEW p \in Pages, NEW i \in Slots(p), CountUsers(p, i) PROVE Inv'
<1> DEFINE r == request[p][i]
<1>1. r \in Request /\ RequestOK(r, Somebody) /\ r.step = "sent"
  BY ServedOK DEF CountUsers, Arrives
<1>2. UNCHANGED <<server, page, raced, bounds>>
  BY DEF CountUsers
<1>3. CASE Somebody
  <2> DEFINE new == [r EXCEPT !.result = "conflict"]
  <2>1. Answer(p, i, new)
    BY <1>3 DEF CountUsers, Somebody
  <2>2. /\ new \in Request /\ new.kind = r.kind /\ new.user = r.user /\ new.heard = r.heard
        /\ new.late = r.late /\ new.devices = r.devices
    BY <1>1, ResultOK
  <2> HIDE DEF new
  <2> QED BY <1>1, <1>2, <2>1, <2>2, ServeStep, ServerKept, BoundsKept DEF Inv, RequestOK
<1>4. CASE ~Somebody
  <2> DEFINE new == [r EXCEPT !.step = "counted"]
  <2>1. request' = [request EXCEPT ![p][i] = new]
    BY <1>4 DEF CountUsers, Somebody
  <2>2. /\ new \in Request /\ new.kind = r.kind /\ new.user = r.user /\ new.heard = r.heard
        /\ new.late = r.late /\ new.devices = r.devices /\ new.step = "counted"
    BY <1>1, StepOK
  <2>3. ~r.late
    BY <1>1, <1>4 DEF RequestOK
  <2>4. ServerStep /\ BoundsStep /\ UNCHANGED <<page, raced>>
    BY <1>2, ServerKept, BoundsKept DEF Inv
  <2>5. new.step \in {"counted", "created"} /\ ~new.late /\ \A d \in new.devices : Owner[d] = new.user
    BY <1>1, <2>2, <2>3 DEF RequestOK
  <2> HIDE DEF new
  <2> QED BY <1>1, <2>1, <2>2, <2>4, <2>5, ServeStep
<1> QED BY <1>3, <1>4

LEMMA CreateUserKeeps ==
    ASSUME Inv, NEW p \in Pages, NEW i \in Slots(p), CreateUser(p, i) PROVE Inv'
<1> DEFINE r == request[p][i]
           u == r.user
<1>1. r \in Request /\ RequestOK(r, Somebody) /\ r.step = "counted"
  BY ServedOK DEF CreateUser
<1>2. UNCHANGED <<revoked, session, page, raced, bounds>>
  BY DEF CreateUser
<1>3. BoundsStep
  BY <1>2, BoundsKept DEF Inv
<1>4. CASE Exists(u)
  <2> DEFINE new == [r EXCEPT !.result = "conflict"]
  <2>1. Answer(p, i, new) /\ UNCHANGED account
    BY <1>4 DEF CreateUser
  <2>2. /\ new \in Request /\ new.kind = r.kind /\ new.user = r.user /\ new.heard = r.heard
        /\ new.late = r.late /\ new.devices = r.devices
    BY <1>1, ResultOK
  <2>3. ServerStep
    BY <1>2, <2>1, ServerKept DEF Inv, server
  <2> HIDE DEF new
  <2> QED BY <1>1, <1>2, <1>3, <2>1, <2>2, <2>3, ServeStep DEF RequestOK
<1>5. CASE ~Exists(u)
  <2> DEFINE new == [r EXCEPT !.step = "created"]
             admin == [role |-> "admin", disabled |-> FALSE]
  <2>1. request' = [request EXCEPT ![p][i] = new] /\ account' = [account EXCEPT ![u] = admin]
    BY <1>5 DEF CreateUser
  <2>2. /\ new \in Request /\ new.kind = r.kind /\ new.user = r.user /\ new.heard = r.heard
        /\ new.late = r.late /\ new.devices = r.devices /\ new.step = "created"
    BY <1>1, StepOK
  <2>3. ~(r.kind = "setup" /\ r.late)
    BY <1>1 DEF RequestOK
  <2>4. admin \in Account /\ admin.role # "none"
    BY DEF Account, Roles
  <2> HIDE DEF admin, u
  <2>5. account' \in [Users -> Account]
    BY <2>1, <2>4 DEF Inv, TypeOK
  <2>6. \A v \in Users : Exists(v) => Exists(v)'
    BY <2>1, <2>4 DEF Exists, Inv, TypeOK
  <2>7. ServerStep
    BY <1>2, <2>5, <2>6 DEF ServerStep, Somebody, Inv, TypeOK
  <2> HIDE DEF new
  <2> QED BY <1>1, <1>2, <1>3, <2>1, <2>2, <2>3, <2>7, ServeStep DEF RequestOK
<1> QED BY <1>4, <1>5

LEMMA NewSessionKeeps ==
    ASSUME Inv, NEW p \in Pages, NEW i \in Slots(p), request[p][i].step # "free",
           NewSession(p, i), UNCHANGED <<account, revoked, page, raced, bounds>>
    PROVE  Inv'
<1> DEFINE r == request[p][i]
<1>1. r \in Request /\ RequestOK(r, Somebody) /\ r.step # "free"
  BY ServedOK
<1>2. PICK t \in Tokens :
          /\ session' = [session EXCEPT ![t] = r.user]
          /\ Answer(p, i, [r EXCEPT !.result = "ok", !.token = t])
  BY DEF NewSession, FreshTokens
<1> DEFINE new == [r EXCEPT !.result = "ok", !.token = t]
<1>3. /\ new \in Request /\ new.kind = r.kind /\ new.user = r.user /\ new.heard = r.heard
      /\ new.late = r.late /\ new.devices = r.devices
  BY <1>1 DEF Request
<1>4. r.user \in Users \union {Nobody}
  BY <1>1 DEF Request
<1>5. ServerStep /\ BoundsStep
  BY <1>2, <1>4, BoundsKept DEF ServerStep, Somebody, Exists, Inv, TypeOK
<1>6. Answer(p, i, new)
  BY <1>2
<1> HIDE DEF new
<1> QED BY <1>1, <1>3, <1>5, <1>6, ServeStep DEF RequestOK

LEMMA CreateSessionKeeps ==
    ASSUME Inv, NEW p \in Pages, NEW i \in Slots(p), CreateSession(p, i) PROVE Inv'
BY NewSessionKeeps DEF CreateSession

\* A request that is turned down.
LEMMA TurnedDown ==
    ASSUME Inv, NEW p \in Pages, NEW i \in Slots(p), request[p][i].step # "free",
           NEW result \in {"none", "ok", "conflict", "denied", "refused", "error"},
           Answer(p, i, [request[p][i] EXCEPT !.result = result]),
           UNCHANGED <<server, page, raced, bounds>>
    PROVE  Inv'
<1> DEFINE r == request[p][i]
           new == [r EXCEPT !.result = result]
<1>1. r \in Request /\ RequestOK(r, Somebody)
  BY ServedOK
<1>2. /\ new \in Request /\ new.kind = r.kind /\ new.user = r.user /\ new.heard = r.heard
      /\ new.late = r.late /\ new.devices = r.devices
  BY <1>1, ResultOK
<1>3. ServerStep /\ BoundsStep
  BY ServerKept, BoundsKept DEF Inv
<1>4. Answer(p, i, new)
  OBVIOUS
<1> HIDE DEF new
<1> QED BY <1>1, <1>2, <1>3, <1>4, ServeStep DEF RequestOK

LEMMA AdminLoginKeeps ==
    ASSUME Inv, NEW p \in Pages, NEW i \in Slots(p), AdminLogin(p, i) PROVE Inv'
BY NewSessionKeeps, TurnedDown DEF AdminLogin, Arrives, server

LEMMA RefuseKeeps ==
    ASSUME Inv, NEW p \in Pages, NEW i \in Slots(p), Refuse(p, i) PROVE Inv'
BY TurnedDown DEF Refuse, Arrives

LEMMA AdminListKeeps ==
    ASSUME Inv, NEW p \in Pages, NEW i \in Slots(p), AdminList(p, i) PROVE Inv'
<1> DEFINE r == request[p][i]
           users == IF r.kind = "users" THEN [u \in Users |-> Listed(u)] ELSE r.users
           devices == IF r.kind = "devices" THEN {d \in Devices : Owner[d] = r.user} ELSE r.devices
           new == [r EXCEPT !.result = "ok", !.users = users, !.devices = devices]
<1>1. r \in Request /\ RequestOK(r, Somebody) /\ r.step = "sent"
  BY ServedOK DEF AdminList, Arrives
<1>2. Answer(p, i, new) /\ UNCHANGED <<server, page, raced, bounds>>
  BY DEF AdminList
<1>3. users \in Lists
  <2>1. r.users \in Lists
    BY <1>1 DEF Request
  <2>2. [u \in Users |-> Listed(u)] \in Lists
    BY DEF Lists, Listed
  <2> QED BY <2>1, <2>2
<1>4. devices \subseteq Devices /\ \A d \in devices : Owner[d] = r.user
  <2>1. r.devices \subseteq Devices /\ \A d \in r.devices : Owner[d] = r.user
    BY <1>1 DEF Request, RequestOK
  <2> QED BY <2>1
<1>5. ServerStep /\ BoundsStep
  BY <1>2, ServerKept, BoundsKept DEF Inv
<1> HIDE DEF users, devices
<1>6. /\ new \in Request /\ new.kind = r.kind /\ new.user = r.user /\ new.heard = r.heard
      /\ new.late = r.late /\ new.devices = devices
  BY <1>1, <1>3, <1>4 DEF Request
<1> HIDE DEF new
<1> QED BY <1>1, <1>2, <1>4, <1>5, <1>6, ServeStep

LEMMA SetUserDisabledKeeps ==
    ASSUME Inv, NEW p \in Pages, NEW i \in Slots(p), SetUserDisabled(p, i) PROVE Inv'
<1> DEFINE r == request[p][i]
           new == [r EXCEPT !.result = "ok"]
<1>1. r \in Request /\ RequestOK(r, Somebody) /\ r.step = "sent" /\ r.user \in Users \union {Nobody}
  BY ServedOK DEF SetUserDisabled, Arrives, Request
<1>2. /\ account' = [account EXCEPT ![r.user].disabled = r.kind = "disable"]
      /\ Answer(p, i, new) /\ UNCHANGED <<revoked, page, raced, bounds>>
  BY DEF SetUserDisabled
<1>3. session' \in [Tokens -> Users \union {Nobody}]
  BY DEF SetUserDisabled, Inv, TypeOK
<1>4. ASSUME NEW u \in Users PROVE account'[u] \in Account /\ account'[u].role = account[u].role
  <2>1. PICK disabled \in BOOLEAN : disabled <=> r.kind = "disable"
    <3>1. CASE r.kind = "disable"
      BY <3>1
    <3>2. CASE r.kind # "disable"
      BY <3>2
    <3> QED BY <3>1, <3>2
  <2>2. account[u] \in Account /\ account \in [Users -> Account]
    BY DEF Inv, TypeOK
  <2>3. account'[u] = account[u] \/ account'[u] = [account[u] EXCEPT !.disabled = disabled]
    BY <1>2, <2>1, <2>2
  <2> QED BY <2>2, <2>3 DEF Account
<1>5. account' \in [Users -> Account]
  BY <1>2, <1>4 DEF Inv, TypeOK
<1>6. \A u \in Users : Exists(u) => Exists(u)'
  BY <1>4 DEF Exists
<1>7. ServerStep /\ BoundsStep
  BY <1>2, <1>3, <1>5, <1>6, BoundsKept DEF ServerStep, Somebody, Inv, TypeOK
<1>8. /\ new \in Request /\ new.kind = r.kind /\ new.user = r.user /\ new.heard = r.heard
      /\ new.late = r.late /\ new.devices = r.devices
  BY <1>1, ResultOK
<1> HIDE DEF new
<1> QED BY <1>1, <1>2, <1>7, <1>8, ServeStep DEF RequestOK

LEMMA AdminRevokeDeviceKeeps ==
    ASSUME Inv, NEW p \in Pages, NEW i \in Slots(p), AdminRevokeDevice(p, i) PROVE Inv'
<1> DEFINE r == request[p][i]
<1>1. r \in Request /\ r.step = "sent" /\ r.device \in Devices \union {NoDevice}
  BY ServedOK DEF AdminRevokeDevice, Arrives, Request
<1>2. PICK result \in {"ok", "error"} : Answer(p, i, [r EXCEPT !.result = result])
  BY DEF AdminRevokeDevice
<1>3. r.device \in Devices
  BY <1>1, ServedOK DEF AdminRevokeDevice, Arrives, RequestOK
<1>4. revoked' \subseteq Devices /\ UNCHANGED <<account, session, page, raced, bounds>>
  BY <1>3 DEF AdminRevokeDevice, Inv, TypeOK
<1>5. ServerStep /\ BoundsStep
  BY <1>4, BoundsKept DEF ServerStep, Somebody, Exists, Inv, TypeOK
<1> DEFINE new == [r EXCEPT !.result = result]
<1>6. /\ new \in Request /\ new.kind = r.kind /\ new.user = r.user /\ new.heard = r.heard
      /\ new.late = r.late /\ new.devices = r.devices
  <2>1. result \in {"none", "ok", "conflict", "denied", "refused", "error"}
    OBVIOUS
  <2> HIDE DEF r
  <2> QED BY <1>1, <2>1, ResultOK
<1>7. \A d \in r.devices : Owner[d] = r.user
  BY ServedOK DEF RequestOK
<1>8. Answer(p, i, new)
  BY <1>2
<1> HIDE DEF new
<1> QED BY <1>1, <1>4, <1>5, <1>6, <1>7, <1>8, ServeStep

LEMMA RegisterKeeps == ASSUME Inv, NEW u \in Users, Register(u) PROVE Inv'
<1>1. account \in [Users -> Account] /\ account' = [account EXCEPT ![u].role = "user"]
  BY DEF Register, Inv, TypeOK
<1>2. \A v \in Users : account'[v] \in Account /\ (Exists(v) => Exists(v)')
  BY <1>1 DEF Account, Roles, Exists
<1>3. account' \in [Users -> Account] /\ (Somebody => Somebody')
  BY <1>1, <1>2 DEF Somebody
<1>4. UNCHANGED <<revoked, session, page, request, raced, bounds>>
  BY DEF Register
<1>5. TypeOK'
  BY <1>3, <1>4 DEF Inv, TypeOK, bounds
<1>6. ASSUME NEW p \in Pages, NEW i \in Slots(p) PROVE RequestOK(request'[p][i], Somebody')
  BY <1>3, <1>4, RequestStaysOK DEF Inv
<1> QED BY <1>4, <1>5, <1>6 DEF Inv

LEMMA SessionExpiresKeeps == ASSUME Inv, NEW t \in Tokens, SessionExpires(t) PROVE Inv'
<1>1. session' \in [Tokens -> Users \union {Nobody}]
  BY DEF SessionExpires, Inv, TypeOK
<1>2. UNCHANGED <<account, revoked, page, request, raced>>
  BY DEF SessionExpires
<1>3. BoundsStep
  BY FaultStep DEF SessionExpires, Inv
<1>4. TypeOK'
  BY <1>1, <1>2, <1>3 DEF Inv, TypeOK, BoundsStep
<1>5. Somebody' <=> Somebody
  BY <1>2 DEF Somebody, Exists
<1> QED BY <1>2, <1>4, <1>5, RequestStaysOK DEF Inv

LEMMA FailsKeeps ==
    ASSUME Inv, NEW p \in Pages, NEW i \in Slots(p), Fails(p, i) PROVE Inv'
<1> DEFINE r == request[p][i]
           new == [NoRequest EXCEPT !.kind = r.kind, !.heard = r.heard, !.late = r.late,
                                    !.user = r.user, !.selected = r.selected, !.result = "error"]
<1>1. r \in Request /\ r.step # "free"
  BY ServedOK DEF Fails
<1>2. Answer(p, i, new) /\ UNCHANGED <<server, page, raced>>
  BY DEF Fails
<1>3. ServerStep /\ BoundsStep
  BY <1>2, ServerKept, FaultStep DEF Inv, Fails
<1>4. /\ r.kind \in Kinds /\ r.heard \in BOOLEAN /\ r.late \in BOOLEAN
      /\ r.user \in Users \union {Nobody} /\ r.selected \in Users \union {Nobody}
  BY <1>1 DEF Request, Kinds
<1> HIDE DEF r
<1>5. /\ new \in Request /\ new.kind = r.kind /\ new.user = r.user /\ new.heard = r.heard
      /\ new.late = r.late /\ new.devices = {}
  BY <1>4, EmptyTypes DEF Request, Kinds
<1> HIDE DEF new
<1>6. \A d \in new.devices : Owner[d] = new.user
  BY <1>5
<1> QED BY <1>1, <1>2, <1>3, <1>5, <1>6, ServeStep DEF r

-----------------------------------------------------------------------------
(***************************************************************************)
(* The invariant holds of every reachable state.                           *)
(***************************************************************************)
LEMMA InitInv == Init => Inv
<1> SUFFICES ASSUME Init PROVE Inv
  OBVIOUS
<1>1. PICK scenario \in Scenarios :
          /\ account = [u \in Users |-> [NoAccount EXCEPT !.role = scenario.role[u]]]
          /\ opened = scenario.pages /\ acts = scenario.acts /\ faults = scenario.faults
  BY DEF Init
<1>2. /\ scenario.role \in [Users -> Roles] /\ scenario.pages \subseteq Pages
      /\ scenario.acts \in Nat /\ scenario.faults \in Nat
  OBVIOUS
<1>3. account \in [Users -> Account]
  <2>1. ASSUME NEW u \in Users PROVE [NoAccount EXCEPT !.role = scenario.role[u]] \in Account
    BY <1>2, EmptyTypes DEF Account
  <2> QED BY <1>1, <2>1
<1> DEFINE first == [NoRequest EXCEPT !.step = "sent"]
<1>4. /\ first \in Request /\ first.step = "sent" /\ first.devices = {} /\ ~first.late
      /\ first.kind = "status"
  <2>1. NoRequest.kind = "status"
    BY DEF NoRequest
  <2> QED BY <2>1, EmptyTypes, SentOK DEF IsSent
<1>5. /\ request = [p \in Pages |-> [i \in Slots(p) |->
                       IF i = 1 /\ p \in opened THEN first ELSE NoRequest]]
      /\ revoked = {} /\ session = [t \in Tokens |-> Nobody]
      /\ page = [p \in Pages |-> FreshPage] /\ raced = [p \in Pages |-> FALSE]
  BY DEF Init
<1> HIDE DEF first
<1>6. TypeOK
  BY <1>1, <1>2, <1>3, <1>4, <1>5, EmptyTypes DEF TypeOK
<1>7. ASSUME NEW p \in Pages, NEW i \in Slots(p) PROVE RequestOK(request[p][i], Somebody)
  <2>1. request[p][i] \in {first, NoRequest}
    BY <1>5
  <2>2. NoRequest.kind = "status"
    BY DEF NoRequest
  <2> QED BY <1>4, <2>1, <2>2, EmptyTypes DEF RequestOK
<1>8. ASSUME NEW p \in Pages PROVE DialogOK(page[p]) /\ DrawerOK(page[p], request[p], raced[p])
  BY <1>5, EmptyTypes DEF DialogOK, DrawerOK
<1> QED BY <1>6, <1>7, <1>8 DEF Inv

LEMMA NextInv == Inv /\ [Next]_vars => Inv'
<1> SUFFICES ASSUME Inv, [Next]_vars PROVE Inv'
  OBVIOUS
<1>1. opened \subseteq Pages
  BY DEF Inv, TypeOK
<1>2. ASSUME NEW p \in opened, AdminLogsIn(p) PROVE Inv'
  BY <1>1, <1>2, SubmitLoginKeeps, HandleSetupKeeps, LookAgainKeeps, HandleLogoutKeeps
     DEF AdminLogsIn
<1>3. ASSUME NEW p \in opened, AdminActs(p) PROVE Inv'
  BY <1>1, <1>3, HandleLogoutKeeps, ReloadKeeps, LoadUserDevicesKeeps, OpenDialogKeeps,
     CloseDrawerKeeps, CancelDialogKeeps, ExecuteConfirmedActionKeeps DEF AdminActs
<1>4. ASSUME NEW p \in opened, NEW i \in Slots(p), Takes(p, i) PROVE Inv'
  BY <1>1, <1>4, TakeStatusKeeps, TakeLoginKeeps, TakeUsersKeeps, TakeDevicesKeeps,
     TakeActionKeeps DEF Takes
<1>5. ASSUME NEW p \in opened, NEW i \in Slots(p), Serves(p, i) PROVE Inv'
  BY <1>1, <1>5, ServeStatusKeeps, CountUsersKeeps, CreateUserKeeps, CreateSessionKeeps,
     AdminLoginKeeps, RefuseKeeps, AdminListKeeps, SetUserDisabledKeeps, AdminRevokeDeviceKeeps
     DEF Serves
<1>6. CASE UNCHANGED vars
  <2>1. UNCHANGED <<account, revoked, session, page, request, raced, opened, acts, faults>>
    BY <1>6 DEF vars, server, bounds
  <2>2. TypeOK'
    BY <2>1 DEF Inv, TypeOK
  <2>3. Somebody' <=> Somebody
    BY <2>1 DEF Somebody, Exists
  <2> QED BY <2>1, <2>2, <2>3, RequestStaysOK DEF Inv
<1> QED BY <1>1, <1>2, <1>3, <1>4, <1>5, <1>6, FailsKeeps, RegisterKeeps, SessionExpiresKeeps DEF Next

LEMMA InvAlways == Spec => []Inv
BY InitInv, NextInv, PTL DEF Spec

\* Every variable keeps to the values the code gives it: what is asked, answered and shown
\* is well formed however answers overtake each other.
THEOREM TypeCorrect == Spec => []TypeOK
<1>1. Inv => TypeOK
  BY DEF Inv
<1> QED BY <1>1, InvAlways, PTL

\* A setup that was sent when somebody had an account is turned down: accounts stay, and
\* the count comes before the new administrator.
THEOREM SetupStaysClosed == Spec => []SetupIsClosed
<1>1. Inv => SetupIsClosed
  BY DEF Inv, RequestOK, SetupIsClosed
<1> QED BY <1>1, InvAlways, PTL

\* The drawer shows devices of the user it names: what it shows and what is on its way are
\* that user's, from the moment it opens.
THEOREM DrawerAlwaysShowsItsUser == Spec => []DrawerShowsItsUser
<1>1. Inv => DrawerShowsItsUser
  BY DEF Inv, DrawerOK, DrawerShowsItsUser
<1> QED BY <1>1, InvAlways, PTL

\* Only a device of the user the dialog was opened for is revoked.
THEOREM AlwaysRevokedInOwnersName == Spec => RevokedInOwnersName
<1> DEFINE InOwnersName ==
        \A d \in Devices :
            d \notin revoked /\ d \in revoked' =>
                \E p \in Pages : \E i \in Slots(p) :
                    request[p][i].kind = "revoke" /\ request[p][i].user = Owner[d]
<1>1. ASSUME Inv, Next PROVE InOwnersName \/ revoked' = revoked
  <2>1. opened \subseteq Pages
    BY <1>1 DEF Inv, TypeOK
  <2>2. ASSUME NEW p \in opened, NEW i \in Slots(p), AdminRevokeDevice(p, i) PROVE InOwnersName
    BY <2>1, <2>2 DEF AdminRevokeDevice, Arrives
  <2>3. ASSUME NEW p \in opened, AdminLogsIn(p) \/ AdminActs(p) PROVE revoked' = revoked
    <3>1. AdminLogsIn(p) => revoked' = revoked
      BY DEF AdminLogsIn, SubmitLogin, HandleSetup, LookAgain, HandleLogout, server
    <3>2. AdminActs(p) => revoked' = revoked
      BY DEF AdminActs, HandleLogout, Reload, LoadUserDevices, OpenDialog, CloseDrawer,
         CancelDialog, ExecuteConfirmedAction, server
    <3> QED BY <2>3, <3>1, <3>2
  <2>4. ASSUME NEW p \in opened, NEW i \in Slots(p), Takes(p, i) \/ Fails(p, i)
        PROVE  revoked' = revoked
    BY <2>4 DEF Takes, Fails, TakeStatus, TakeLogin, TakeUsers, TakeDevices, TakeAction, server
  <2>5. ASSUME NEW p \in opened, NEW i \in Slots(p), Serves(p, i)
        PROVE  revoked' = revoked \/ AdminRevokeDevice(p, i)
    BY <2>5 DEF Serves, ServeStatus, CountUsers, CreateUser, CreateSession, AdminLogin, Refuse,
       AdminList, SetUserDisabled, server
  <2>6. (\E u \in Users : Register(u)) \/ (\E t \in Tokens : SessionExpires(t)) =>
            revoked' = revoked
    BY DEF Register, SessionExpires
  <2> QED BY <1>1, <2>2, <2>3, <2>4, <2>5, <2>6 DEF Next
<1>2. Inv /\ [Next]_vars => [InOwnersName]_revoked
  BY <1>1 DEF vars, server
<1> QED BY <1>2, InvAlways, PTL DEF Spec, RevokedInOwnersName
=============================================================================
