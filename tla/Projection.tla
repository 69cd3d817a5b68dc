----------------------------- MODULE Projection -----------------------------
(***************************************************************************)
(* The accounts and relations the server shows (to the administrator, too) *)
(* are derived from the items by the devices: runProjection, between the   *)
(* pull and the push of every sync.  An item has the account of its id and *)
(* a relation for each thing it names (a Google account, a phone, a proxy).*)
(*                                                                         *)
(* One item, its account and one relation, on several devices that derive  *)
(* the two each for itself, while users edit, delete and remove the item   *)
(* and syncs stop half way.  Here the syncs of different devices do not    *)
(* overlap, and a page is merged in one step: what overlapping does to a   *)
(* record is in module DeviceSync.                                         *)
(*                                                                         *)
(* Content: which edit it is, and whether it names what the relation is    *)
(* for.  A rev is represented by whether it is the server's.  All items    *)
(* are decrypted and none is of the old format.                            *)
(***************************************************************************)
EXTENDS Naturals

CONSTANTS
    Devices,
    Nobody,
    TicksPerSecond, \* resolution of the clocks
    MaxTime,        \* bound: the clock stops here
    MaxEdits,       \* bound: edits and synchronised deletions
    MaxUpsets       \* bound: "delete on this device only", and syncs that stop half way

ASSUME ProjectionAssumption ==
    /\ Nobody \notin Devices
    /\ TicksPerSecond \in Nat \ {0} /\ MaxTime \in Nat
    /\ MaxEdits \in Nat /\ MaxUpsets \in Nat

VARIABLES
    clock, edits, upsets,
    server,     \* its three records
    new,        \* the devices whose cursor a record of the server is ahead of
    local,      \* the three records in a device's IndexedDB
    form,       \* the form a user has open: is its rev the server's, which date it shows
    syncing,    \* the device whose sync is running,
    step,       \* how far it is,
    listed,     \* the item as it has listed it
    applied,    \* and what the server applied
    guessed,    \* history: a form showed today for want of the item's date
    removed     \* history: an item was removed on one device only

userVars   == <<clock, edits, upsets>>
serverVars == <<server, new>>
syncVars   == <<syncing, step, listed, applied>>
history    == <<guessed, removed>>
vars == <<userVars, serverVars, local, form, syncVars, history>>

Kinds == {"item", "account", "relation"}

NoContent == [edit |-> 0, related |-> FALSE]

Content == [edit : 1 .. MaxEdits, related : BOOLEAN] \union {NoContent}

\* The date the user entered with the first edit, or any other.
Dates == {"entered", "other"}

\* created_at, which items have only on the device they were saved on.
ItemBody == [content : Content, created : Dates \union {"unknown"}]

\* pulled: login_identifier_hash is missing instead of null, and created_at is the
\* server's; first: client_created_at.
AccountBody == [secret : Content, shows : BOOLEAN, first : Dates, pulled : BOOLEAN]

\* pulled: created_at and client_created_at may differ.
RelationBody == [pulled : BOOLEAN]

RowOf(Body) ==
    [state : {"absent", "live", "deleted"}, at : 0 .. MaxTime,
     waiting : BOOLEAN, current : BOOLEAN, body : Body]

NoRow(body) == [state |-> "absent", at |-> 0, waiting |-> FALSE, current |-> FALSE, body |-> body]

NoItem == NoRow([content |-> NoContent, created |-> "unknown"])

NoAccount == NoRow([secret |-> NoContent, shows |-> FALSE, first |-> "other", pulled |-> FALSE])

NoRelation == NoRow([pulled |-> FALSE])

Rows == [item : RowOf(ItemBody), account : RowOf(AccountBody), relation : RowOf(RelationBody)]

NoRows == [item |-> NoItem, account |-> NoAccount, relation |-> NoRelation]

Form == [open : BOOLEAN, current : BOOLEAN, date : Dates]

NoForm == [open |-> FALSE, current |-> FALSE, date |-> "other"]

Steps == {"none", "pulled", "listed", "projected", "pushed"}

TypeOK ==
    /\ clock \in 0 .. MaxTime /\ edits \in 0 .. MaxEdits /\ upsets \in 0 .. MaxUpsets
    /\ server \in Rows /\ new \in [Kinds -> SUBSET Devices]
    /\ local \in [Devices -> Rows]
    /\ form \in [Devices -> Form]
    /\ syncing \in Devices \union {Nobody} /\ step \in Steps
    /\ listed \in RowOf(ItemBody) /\ applied \subseteq Kinds
    /\ guessed \in BOOLEAN /\ removed \in BOOLEAN

Init ==
    /\ clock = 0 /\ edits = 0 /\ upsets = 0
    /\ server = NoRows /\ new = [k \in Kinds |-> {}]
    /\ local = [d \in Devices |-> NoRows]
    /\ form = [d \in Devices |-> NoForm]
    /\ syncing = Nobody /\ step = "none" /\ listed = NoItem /\ applied = {}
    /\ guessed = FALSE /\ removed = FALSE

Absent(row) == row.state = "absent"

At(d, s) == syncing = d /\ step = s

-----------------------------------------------------------------------------
(***************************************************************************)
(* The users.                                                              *)
(***************************************************************************)
Tick ==
    /\ clock < MaxTime
    /\ clock' = clock + 1
    /\ UNCHANGED <<edits, upsets, serverVars, local, form, syncVars, history>>

\* resolveItemTimestamp, for the form; when nothing is known, today is shown.
KnowsDate(rows) ==
    rows.item.body.created # "unknown" \/ rows.account.state = "live"

OfferedDate(rows) ==
    IF rows.item.body.created # "unknown" THEN rows.item.body.created
    ELSE IF rows.account.state = "live" THEN rows.account.body.first
    ELSE "other"

\* A new item, or one that is there.
OpenForm(d) ==
    /\ ~form[d].open
    /\ edits < MaxEdits
    /\ \/ /\ edits = 0 /\ \A e \in Devices : ~form[e].open
          /\ form' = [form EXCEPT ![d] = [open |-> TRUE, current |-> TRUE, date |-> "entered"]]
          /\ UNCHANGED guessed
       \/ /\ local[d].item.state = "live"
          /\ form' = [form EXCEPT ![d] = [open |-> TRUE, current |-> local[d].item.current,
                                          date |-> OfferedDate(local[d])]]
          /\ guessed' = (guessed \/ ~KnowsDate(local[d]))
    /\ UNCHANGED <<userVars, serverVars, local, syncVars, removed>>

SaveItem(d, state, body) ==
    /\ local' = [local EXCEPT ![d].item =
                    [state |-> state, at |-> clock, waiting |-> TRUE,
                     current |-> form[d].current, body |-> body]]
    /\ form' = [form EXCEPT ![d] = NoForm]
    /\ edits' = edits + 1
    /\ UNCHANGED <<clock, upsets, serverVars, syncVars, history>>

HandleSaveItem(d, related) ==
    /\ form[d].open /\ edits < MaxEdits
    /\ SaveItem(d, "live", [content |-> [edit |-> edits + 1, related |-> related],
                            created |-> form[d].date])

\* confirmDeleteItem(true).
DeleteItem(d) ==
    /\ form[d].open /\ edits < MaxEdits /\ ~Absent(local[d].item)
    /\ SaveItem(d, "deleted", [content |-> NoContent, created |-> local[d].item.body.created])

\* confirmDeleteItem(false): the account and the relations stay.
RemoveItem(d) ==
    /\ upsets < MaxUpsets /\ local[d].item.state = "live"
    /\ upsets' = upsets + 1
    /\ local' = [local EXCEPT ![d].item = NoItem]
    /\ removed' = TRUE
    /\ UNCHANGED <<clock, edits, serverVars, form, syncVars, guessed>>

-----------------------------------------------------------------------------
(***************************************************************************)
(* runSync: pull and merge.                                                *)
(***************************************************************************)
TakesRemote(l, r) ==
    CASE r.state = "deleted" -> l.state = "deleted" \/ r.at >= l.at
      [] r.state = "live" /\ l.state = "deleted" -> r.at > l.at
      [] r.state = "live" /\ l.state = "live" -> r.at >= l.at

\* mergeItem, mergeAccount, mergeRelation.
Merge(l, r) ==
    CASE Absent(l) \/ TakesRemote(l, r) -> r
      [] ~Absent(l) /\ ~TakesRemote(l, r) /\ l.state = "deleted" -> l
      [] ~Absent(l) /\ ~TakesRemote(l, r) /\ l.state = "live" ->
            [l EXCEPT !.waiting = FALSE, !.current = TRUE]

Pulled(d, S) ==
    [k \in Kinds |-> IF k \in S /\ d \in new[k] THEN Merge(local[d][k], server[k]) ELSE local[d][k]]

Pull(d) ==
    /\ syncing = Nobody
    /\ syncing' = d /\ step' = "pulled"
    /\ local' = [local EXCEPT ![d] = Pulled(d, Kinds)]
    /\ new' = [k \in Kinds |-> new[k] \ {d}]
    /\ UNCHANGED <<userVars, server, form, listed, applied, history>>

\* The items, or the items and the accounts are saved, the cursor is not.
PullStops(d) ==
    /\ syncing = Nobody
    /\ upsets < MaxUpsets
    /\ upsets' = upsets + 1
    /\ \E S \in {{"item"}, {"item", "account"}} :
        local' = [local EXCEPT ![d] = Pulled(d, S)]
    /\ UNCHANGED <<clock, edits, serverVars, form, syncVars, history>>

ListItems(d) ==
    /\ At(d, "pulled")
    /\ step' = "listed" /\ listed' = local[d].item
    /\ UNCHANGED <<userVars, serverVars, local, form, syncing, applied, history>>

-----------------------------------------------------------------------------
(***************************************************************************)
(* runProjection.                                                          *)
(***************************************************************************)

\* Mutant: the server's created_at goes before the client's.
ResolveClientCreatedAtServer(i, a) ==
    IF i.body.created # "unknown" THEN i.body.created
    ELSE IF ~Absent(a) /\ ~a.body.pulled THEN a.body.first
    ELSE "other"

\* Mutant: only the item is asked.
ResolveClientCreatedAtItem(i, a) == i.body.created

\* The item's own date, else the account's; else the item's updated_at.
ResolveClientCreatedAt(i, a) ==
    IF i.body.created # "unknown" THEN i.body.created
    ELSE IF ~Absent(a) THEN a.body.first
    ELSE "other"

\* The secret is encrypted again only for an item that waits to be pushed.
ProjectedAccount(i, a) ==
    [i EXCEPT
        !.waiting = TRUE,
        !.current = IF Absent(a) THEN Absent(server.account) ELSE a.current,
        !.body = [secret |-> CASE i.state = "deleted" -> NoContent
                               [] i.state = "live" /\ (i.waiting \/ a.body.secret = NoContent) ->
                                    i.body.content
                               [] OTHER -> a.body.secret,
                  shows |-> i.body.content.related,
                  first |-> ResolveClientCreatedAt(i, a),
                  pulled |-> FALSE]]

AccountChanged(i, a) ==
    \/ Absent(a) \/ i.waiting
    \/ a.state # i.state \/ a.body.pulled
    \/ a.body.shows # i.body.content.related
    \/ a.body.first # ResolveClientCreatedAt(i, a)

ActiveRelation(i, r) ==
    [i EXCEPT !.waiting = TRUE, !.body = [pulled |-> FALSE],
              !.current = IF Absent(r) THEN Absent(server.relation) ELSE r.current]

\* Mutant: relations the item no longer has are left alone.
ProjectedRelationKept(i, r) ==
    CASE i.body.content.related /\ (Absent(r) \/ i.waiting \/ r.state = "deleted") ->
            {ActiveRelation(i, r)}
      [] i.body.content.related /\ ~i.waiting /\ r.state = "live" /\ r.body.pulled ->
            {r, ActiveRelation(i, r)}
      [] OTHER -> {r}

\* What may become of the relation.  One the item does not have any more is deleted.
ProjectedRelation(i, r) ==
    CASE i.body.content.related /\ (Absent(r) \/ i.waiting \/ r.state = "deleted") ->
            {ActiveRelation(i, r)}
      [] i.body.content.related /\ ~i.waiting /\ r.state = "live" /\ r.body.pulled ->
            {r, ActiveRelation(i, r)}
      [] ~i.body.content.related /\ r.state = "live" ->
            {[r EXCEPT !.state = "deleted", !.at = i.at, !.waiting = TRUE]}
      [] OTHER -> {r}

RunProjection(d) ==
    LET i == listed
        a == local[d].account
    IN
    /\ At(d, "listed")
    /\ step' = "projected"
    /\ IF Absent(i) THEN UNCHANGED local
       ELSE \E r \in ProjectedRelation(i, local[d].relation) :
                local' = [local EXCEPT
                    ![d].account = IF AccountChanged(i, a) THEN ProjectedAccount(i, a) ELSE a,
                    ![d].relation = r]
    /\ UNCHANGED <<userVars, serverVars, form, syncing, listed, applied, history>>

-----------------------------------------------------------------------------
(***************************************************************************)
(* runSync: push.                                                          *)
(***************************************************************************)
Listed(d) == [local[d] EXCEPT !.item = listed]

Unsynced(d) == {k \in Kinds : Listed(d)[k].waiting}

Idle == syncing' = Nobody /\ step' = "none" /\ listed' = NoItem /\ applied' = {}

Stamp == (clock \div TicksPerSecond) * TicksPerSecond

\* What others get: an item without its created_at, an account and a relation with the
\* server's, and no login_identifier_hash.
Stored(k, row) ==
    [row EXCEPT !.at = Stamp, !.waiting = FALSE, !.current = TRUE,
                !.body = CASE k = "item" -> [@ EXCEPT !.created = "unknown"]
                           [] k \in {"account", "relation"} -> [@ EXCEPT !.pulled = TRUE]]

\* PushRecords: what has the server's rev is applied, and every other copy is then behind.
Push(d) ==
    LET A == {k \in Unsynced(d) : Listed(d)[k].current} IN
    /\ At(d, "projected")
    /\ IF Unsynced(d) = {}
       THEN Idle /\ UNCHANGED <<serverVars, local, form>>
       ELSE /\ server' = [k \in Kinds |-> IF k \in A THEN Stored(k, Listed(d)[k]) ELSE server[k]]
            /\ new' = [k \in Kinds |-> IF k \in A THEN Devices ELSE new[k]]
            /\ local' = [e \in Devices |-> [k \in Kinds |->
                            IF k \in A THEN [local[e][k] EXCEPT !.current = FALSE] ELSE local[e][k]]]
            /\ form' = IF "item" \in A THEN [e \in Devices |-> [form[e] EXCEPT !.current = FALSE]]
                       ELSE form
            /\ step' = "pushed" /\ applied' = A
            /\ UNCHANGED <<syncing, listed>>
    /\ UNCHANGED <<userVars, history>>

\* Applied records are saved as they were listed, the others are merged and wait again;
\* then the cursor.
SaveAnswer(d) ==
    LET row == Listed(d) IN
    /\ At(d, "pushed")
    /\ local' = [local EXCEPT ![d] = [k \in Kinds |->
            CASE k \in applied -> [row[k] EXCEPT !.waiting = FALSE, !.current = TRUE]
              [] k \in Unsynced(d) \ applied -> [Merge(row[k], server[k]) EXCEPT !.waiting = TRUE]
              [] OTHER -> @[k]]]
    /\ new' = [k \in Kinds |-> new[k] \ {d}]
    /\ Idle
    /\ UNCHANGED <<userVars, server, form, history>>

SyncStops ==
    /\ syncing # Nobody
    /\ upsets < MaxUpsets
    /\ upsets' = upsets + 1
    /\ Idle
    /\ UNCHANGED <<clock, edits, serverVars, local, form, history>>

UserActs(d) ==
    \/ OpenForm(d) \/ DeleteItem(d) \/ RemoveItem(d)
    \/ \E related \in BOOLEAN : HandleSaveItem(d, related)

Syncs(d) == Pull(d) \/ ListItems(d) \/ RunProjection(d) \/ Push(d) \/ SaveAnswer(d)

Next ==
    \/ Tick \/ SyncStops
    \/ \E d \in Devices : UserActs(d) \/ Syncs(d) \/ PullStops(d)

Spec == Init /\ [][Next]_vars

\* A sync that has begun goes on, and every device synchronises again and again.
FairSpec == Spec /\ \A d \in Devices : SF_vars(Syncs(d))

-----------------------------------------------------------------------------
(***************************************************************************)
(* Properties.                                                             *)
(***************************************************************************)

\* The date a user entered for an account stays its client_created_at, on every device
\* and on the server, through projections, merges, conflicts and revivals, unless an
\* item was edited where its date was not known.
CreationDateIsKept ==
    ~guessed =>
        \A rows \in {server} \union {local[d] : d \in Devices} :
            /\ rows.item.body.created # "other"
            /\ ~Absent(rows.account) => rows.account.body.first = "entered"

\* Every device has the item as the server has it.
ItemsAgree ==
    /\ ~Absent(server.item)
    /\ \A d \in Devices :
        /\ local[d].item.state = server.item.state
        /\ local[d].item.body.content = server.item.body.content

AccountFollows ==
    /\ server.account.state = server.item.state
    /\ server.account.body.shows = server.item.body.content.related
    /\ ~removed => server.account.body.secret = server.item.body.content
    /\ server.relation.state = "live" <=> server.item.body.content.related

\* Once the devices agree on the item, the account and the relation the server shows are
\* the item's, whichever device derived them from which of its versions.
AccountsFollowItems == <>[]ItemsAgree => <>[]AccountFollows
=============================================================================
