----------------------------- MODULE DeviceSync -----------------------------
(***************************************************************************)
(* Several devices of one user synchronising through the server: the       *)
(* extension's runSync, with users editing and deleting records while it   *)
(* runs, panels closed half way and answers lost.                          *)
(*                                                                         *)
(* runSync awaits every request and every IndexedDB transaction; between   *)
(* two awaits the user's handlers may change the same records.  A device   *)
(* runs one sync at a time (syncInFlightRef).  The server's push is one    *)
(* step here, as module VaultStore shows it may be; a pull is two, because *)
(* the refs and the rows of a page are read at different moments.          *)
(*                                                                         *)
(* Record content: which edit it is, and its updated_at.  A device stamps  *)
(* its own clock, the server the moment of the push, cut to whole seconds  *)
(* (RFC 3339).  The clocks of all machines agree here: what goes wrong     *)
(* below goes wrong without clock skew.                                    *)
(*                                                                         *)
(* The records are items and groups, which the users edit and whose ids    *)
(* are fresh UUIDs.  The accounts and relations runSync projects from the  *)
(* items are records of the same kind to everything but runProjection,     *)
(* which is left out here.                                                 *)
(***************************************************************************)
EXTENDS PushBatch, SequencesExt

CONSTANTS
    Devices,
    PageLimit,      \* the limit of a pull request (100)
    TicksPerSecond, \* resolution of the clocks
    MaxTime,        \* bound: the clock stops here
    MaxEdits,       \* bound: edits, deletions and removals by the users
    MaxRemovals     \* bound: how many may be "delete on this device only"

ASSUME DeviceAssumption ==
    /\ PageLimit \in Nat \ {0}
    /\ TicksPerSecond \in Nat \ {0}
    /\ MaxTime \in Nat /\ MaxEdits \in Nat /\ MaxRemovals \in Nat
    /\ IsFiniteSet(Records)

\* What a body is here: the edit that made the content (0: none, a tombstone) and
\* updated_at.
BodyValues == [edit : 0 .. MaxEdits, at : 0 .. MaxTime]

ASSUME BodiesAssumption == Bodies = BodyValues

VARIABLES
    clock,
    edits, removals,    \* how many there have been
    vaultSeq, rows,     \* the server's vault
    local,              \* the records in a device's IndexedDB; seq = 0: to be pushed
    cursor,             \* lastSyncSeq in a device's chrome.storage
    form,               \* the record a user is editing or about to delete
    pc,                 \* where a device's runSync stands
    mark,               \* lastSyncSeq in the memory of runSync
    page,               \* the pull's answer
    seen,               \* the records as runSync last read them
    answer              \* the push's answer

userVars   == <<clock, edits, removals>>
serverVars == <<vaultSeq, rows>>
storeVars  == <<local, cursor>>
memVars    == <<mark, page, seen, answer>>
vars == <<userVars, serverVars, storeVars, form, pc, memVars>>

Steps == {"idle", "refs", "rows", "merge", "save", "list", "push", "saveAnswer", "storeNext"}

Page == [refs : SUBSET Records, got : Rows, end : Nat, more : BOOLEAN]

NoPage == [refs |-> {}, got |-> NoRows, end |-> 0, more |-> FALSE]

NoAnswer == AnswerOf(BeginPush(0, NoRows))

\* The record a form was opened on: its id and the rev it had then.
Form == [id : Records, rev : Nat]

NoForm == [id |-> "none", rev |-> 0]

TypeOK ==
    /\ clock \in 0 .. MaxTime /\ edits \in 0 .. MaxEdits /\ removals \in 0 .. MaxRemovals
    /\ vaultSeq \in Nat
    /\ rows \in Rows
    /\ local \in [Devices -> Rows]
    /\ cursor \in [Devices -> Nat]
    /\ form \in [Devices -> Form \union {NoForm}]
    /\ pc \in [Devices -> Steps]
    /\ mark \in [Devices -> Nat]
    /\ page \in [Devices -> Page]
    /\ seen \in [Devices -> Rows]
    /\ answer \in [Devices -> Answer]

Init ==
    /\ clock = 0 /\ edits = 0 /\ removals = 0
    /\ vaultSeq = 0
    /\ rows = NoRows
    /\ local = [d \in Devices |-> NoRows]
    /\ cursor = [d \in Devices |-> 0]
    /\ form = [d \in Devices |-> NoForm]
    /\ pc = [d \in Devices |-> "idle"]
    /\ mark = [d \in Devices |-> 0]
    /\ page = [d \in Devices |-> NoPage]
    /\ seen = [d \in Devices |-> NoRows]
    /\ answer = [d \in Devices |-> NoAnswer]

At(d, step) == pc[d] = step

Goto(d, step) == pc' = [pc EXCEPT ![d] = step]

-----------------------------------------------------------------------------
(***************************************************************************)
(* mergeItem, mergeGroup, mergeAccount and mergeRelation, which are alike. *)
(***************************************************************************)

\* Mutant: the times are compared the wrong way round.
TakesRemoteIfOlder(l, r) ==
    CASE r.deleted -> l.deleted \/ r.body.at <= l.body.at
      [] ~r.deleted /\ l.deleted -> r.body.at < l.body.at
      [] ~r.deleted /\ ~l.deleted -> r.body.at <= l.body.at

\* The remote record replaces the local one.
TakesRemote(l, r) ==
    CASE r.deleted -> l.deleted \/ r.body.at >= l.body.at
      [] ~r.deleted /\ l.deleted -> r.body.at > l.body.at
      [] ~r.deleted /\ ~l.deleted -> r.body.at >= l.body.at

\* The local content stays; it takes the remote's rev and seq, except that a local
\* tombstone is returned as it was.
MergeRow(l, r) ==
    CASE TakesRemote(l, r) -> r
      [] ~TakesRemote(l, r) /\ l.deleted -> l
      [] ~TakesRemote(l, r) /\ ~l.deleted -> [l EXCEPT !.rev = r.rev, !.seq = r.seq]

-----------------------------------------------------------------------------
(***************************************************************************)
(* The users.                                                              *)
(***************************************************************************)
Tick ==
    /\ clock < MaxTime
    /\ clock' = clock + 1
    /\ UNCHANGED <<edits, removals, serverVars, storeVars, form, pc, memVars>>

\* crypto.randomUUID: nobody has used the id yet.
Fresh(r) ==
    /\ rows[r] = Absent
    /\ \A d \in Devices : local[d][r] = Absent /\ seen[d][r] = Absent /\ form[d].id # r

\* Open the form of a record (or of a new one), or ask to delete one: the rev the
\* panel shows is the one that will be saved.
OpenForm(d, r) ==
    /\ form[d] = NoForm
    /\ edits < MaxEdits
    /\ local[d][r] # Absent \/ Fresh(r)
    /\ ~local[d][r].deleted
    /\ form' = [form EXCEPT ![d] = [id |-> r, rev |-> local[d][r].rev]]
    /\ UNCHANGED <<userVars, serverVars, storeVars, pc, memVars>>

\* Mutant: the device counts the rev up itself.
EditedNextRev(rev, deleted) ==
    [rev |-> rev + 1, seq |-> 0, deleted |-> deleted,
     body |-> [edit |-> IF deleted THEN 0 ELSE edits + 1, at |-> clock]]

\* Mutant: a new record is stored with rev null instead of 0.
EditedNullRev(rev, deleted) ==
    [rev |-> IF rev = 0 THEN NoRev ELSE rev, seq |-> 0, deleted |-> deleted,
     body |-> [edit |-> IF deleted THEN 0 ELSE edits + 1, at |-> clock]]

Edited(rev, deleted) ==
    [rev |-> rev, seq |-> 0, deleted |-> deleted,
     body |-> [edit |-> IF deleted THEN 0 ELSE edits + 1, at |-> clock]]

\* handleSaveItem, handleSaveGroup, and what handleDeleteGroup saves of each item it
\* moves out of the group.
SaveForm(d) ==
    /\ form[d] # NoForm
    /\ edits < MaxEdits
    /\ local' = [local EXCEPT ![d][form[d].id] = Edited(form[d].rev, FALSE)]
    /\ edits' = edits + 1
    /\ form' = [form EXCEPT ![d] = NoForm]
    /\ UNCHANGED <<clock, removals, serverVars, cursor, pc, memVars>>

\* confirmDeleteItem(true), or handleDeleteGroup for the group and each of its items:
\* the record becomes a tombstone to be pushed.
ConfirmDelete(d) ==
    /\ form[d] # NoForm
    /\ edits < MaxEdits
    /\ local[d][form[d].id] # Absent
    /\ local' = [local EXCEPT ![d][form[d].id] = Edited(form[d].rev, TRUE)]
    /\ edits' = edits + 1
    /\ form' = [form EXCEPT ![d] = NoForm]
    /\ UNCHANGED <<clock, removals, serverVars, cursor, pc, memVars>>

\* confirmDeleteItem(false), or handleDeleteGroup for the group and its items: the
\* record goes from this device only.  Counted as an edit, too.
RemoveLocally(d, r) ==
    /\ removals < MaxRemovals /\ edits < MaxEdits
    /\ local[d][r] # Absent
    /\ local' = [local EXCEPT ![d][r] = Absent]
    /\ removals' = removals + 1 /\ edits' = edits + 1
    /\ UNCHANGED <<clock, serverVars, cursor, form, pc, memVars>>

-----------------------------------------------------------------------------
(***************************************************************************)
(* runSync: the pull loop.                                                 *)
(***************************************************************************)
StartSync(d) ==
    /\ At(d, "idle")
    /\ mark' = [mark EXCEPT ![d] = cursor[d]]
    /\ Goto(d, "refs")
    /\ UNCHANGED <<userVars, serverVars, storeVars, form, page, seen, answer>>

\* The server chooses the records of the page ...
QueryRefs(d) ==
    /\ At(d, "refs")
    /\ \E P \in SUBSET Newer(rows, mark[d]) :
        /\ IsPage(P, rows, mark[d], PageLimit)
        /\ \E n \in {mark[d]} \union {rows[r].seq : r \in P} :
            /\ IsPageEnd(n, P, rows, mark[d])
            /\ page' = [page EXCEPT ![d] = [NoPage EXCEPT !.refs = P, !.end = n]]
    /\ Goto(d, "rows")
    /\ UNCHANGED <<userVars, serverVars, storeVars, form, mark, seen, answer>>

\* ... and reads them, with the vault's seq, as they are then.
FetchRows(d) ==
    /\ At(d, "rows")
    /\ page' = [page EXCEPT
         ![d].got  = [r \in Records |-> IF r \in page[d].refs THEN rows[r] ELSE Absent],
         ![d].more = vaultSeq > page[d].end]
    /\ Goto(d, "merge")
    /\ UNCHANGED <<userVars, serverVars, storeVars, form, mark, seen, answer>>

\* getItems and its likes.
ReadLocal(d) ==
    /\ At(d, "merge")
    /\ seen' = [seen EXCEPT ![d] = local[d]]
    /\ Goto(d, "save")
    /\ UNCHANGED <<userVars, serverVars, storeVars, form, mark, page, answer>>

\* A remote record is merged with the one runSync has read, or taken as it is.
Merged(l, r) == IF l = Absent THEN r ELSE MergeRow(l, r)

\* The device's records once those of S are saved.
AfterMerge(d, S) ==
    [r \in Records |-> IF r \in S \intersect page[d].refs
                         THEN Merged(seen[d][r], page[d].got[r])
                         ELSE local[d][r]]

\* saveItems and its likes; lastSyncSeq := next_seq; again while has_more.
SaveMerged(d) ==
    /\ At(d, "save")
    /\ local' = [local EXCEPT ![d] = AfterMerge(d, Records)]
    /\ mark' = [mark EXCEPT ![d] = page[d].end]
    /\ Goto(d, IF page[d].more THEN "refs" ELSE "list")
    /\ page' = [page EXCEPT ![d] = NoPage]
    /\ seen' = [seen EXCEPT ![d] = NoRows]
    /\ UNCHANGED <<userVars, serverVars, cursor, form, answer>>

-----------------------------------------------------------------------------
(***************************************************************************)
(* runSync: the push.                                                      *)
(***************************************************************************)
Unsynced(store) == {r \in Records : store[r] # Absent /\ store[r].seq = 0}

\* Store the cursor of the pull loop and list the records to be pushed; with none
\* the sync is over.
ListUnsynced(d) ==
    /\ At(d, "list")
    /\ cursor' = [cursor EXCEPT ![d] = mark[d]]
    /\ mark' = [mark EXCEPT ![d] = 0]
    /\ IF Unsynced(local[d]) = {}
         THEN Goto(d, "idle") /\ UNCHANGED seen
         ELSE Goto(d, "push") /\ seen' = [seen EXCEPT ![d] = local[d]]
    /\ UNCHANGED <<userVars, serverVars, local, form, page, answer>>

\* The server's updated_at: now, to the second.
Stamp == (clock \div TicksPerSecond) * TicksPerSecond

InputOf(r, row) ==
    [id |-> r, expected |-> IF row.rev = 0 THEN NoRev ELSE row.rev,
     deleted |-> row.deleted, body |-> [row.body EXCEPT !.at = Stamp]]

\* handlePush.  The batch lists items, groups, accounts and relations, each kind in
\* the order of its store.
Push(d) ==
    /\ At(d, "push")
    /\ \E order \in SetToSeqs(Unsynced(seen[d])) :
        LET batch   == [i \in DOMAIN order |-> InputOf(order[i], seen[d][order[i]])]
            outcome == PushAll(vaultSeq, rows, batch)
        IN  /\ vaultSeq' = outcome.seq
            /\ rows' = outcome.rows
            /\ answer' = [answer EXCEPT ![d] = AnswerOf(outcome)]
    /\ Goto(d, "saveAnswer")
    /\ UNCHANGED <<userVars, storeVars, form, mark, page, seen>>

\* Applied records are saved as they were listed, with their new rev and seq; a
\* conflicting record is merged with the server's and marked to be pushed again.
Answered(d, r) ==
    LET applied   == {a \in Range(answer[d].applied) : a.id = r}
        conflicts == {k \in Range(answer[d].conflicts) : k.id = r /\ k.current # Absent}
    IN  CASE applied # {} ->
               LET a == CHOOSE a \in applied : TRUE
               IN  [seen[d][r] EXCEPT !.rev = a.rev, !.seq = a.seq]
          [] conflicts # {} ->
               LET k == CHOOSE k \in conflicts : TRUE
               IN  [MergeRow(seen[d][r], k.current) EXCEPT !.seq = 0]
          [] OTHER -> local[d][r]

AfterAnswer(d, S) ==
    [r \in Records |-> IF r \in S THEN Answered(d, r) ELSE local[d][r]]

SaveAnswer(d) ==
    /\ At(d, "saveAnswer")
    /\ local' = [local EXCEPT ![d] = AfterAnswer(d, Records)]
    /\ Goto(d, "storeNext")
    /\ UNCHANGED <<userVars, serverVars, cursor, form, memVars>>

\* Mutant: lastSyncSeq := the last seq applied.
StoreNextApplied(d) ==
    /\ At(d, "storeNext")
    /\ cursor' = [cursor EXCEPT ![d] =
          IF answer[d].applied = << >> THEN 0 ELSE answer[d].applied[Len(answer[d].applied)].seq]
    /\ seen' = [seen EXCEPT ![d] = NoRows]
    /\ answer' = [answer EXCEPT ![d] = NoAnswer]
    /\ Goto(d, "idle")
    /\ UNCHANGED <<userVars, serverVars, local, form, mark, page>>

\* lastSyncSeq := next_seq of the push.
StoreNext(d) ==
    /\ At(d, "storeNext")
    /\ cursor' = [cursor EXCEPT ![d] = answer[d].seq]
    /\ seen' = [seen EXCEPT ![d] = NoRows]
    /\ answer' = [answer EXCEPT ![d] = NoAnswer]
    /\ Goto(d, "idle")
    /\ UNCHANGED <<userVars, serverVars, local, form, mark, page>>

\* A request fails, its answer is lost or the panel is closed: runSync ends where
\* it stands, what it has stored stays stored; the kinds of records are saved one
\* after the other, so that some may be saved and others not.
SyncStops(d) ==
    /\ ~At(d, "idle")
    /\ \/ UNCHANGED local
       \/ At(d, "save") /\ \E S \in SUBSET Records :
            local' = [local EXCEPT ![d] = AfterMerge(d, S)]
       \/ At(d, "saveAnswer") /\ \E S \in SUBSET Records :
            local' = [local EXCEPT ![d] = AfterAnswer(d, S)]
    /\ Goto(d, "idle")
    /\ mark' = [mark EXCEPT ![d] = 0]
    /\ page' = [page EXCEPT ![d] = NoPage]
    /\ seen' = [seen EXCEPT ![d] = NoRows]
    /\ answer' = [answer EXCEPT ![d] = NoAnswer]
    /\ UNCHANGED <<userVars, serverVars, cursor, form>>

-----------------------------------------------------------------------------
UserStep(d) ==
    \/ \E r \in Records : OpenForm(d, r) \/ RemoveLocally(d, r)
    \/ SaveForm(d)
    \/ ConfirmDelete(d)

SyncStep(d) ==
    \/ QueryRefs(d) \/ FetchRows(d) \/ ReadLocal(d) \/ SaveMerged(d)
    \/ ListUnsynced(d) \/ Push(d) \/ SaveAnswer(d) \/ StoreNext(d)

Next == Tick \/ \E d \in Devices : UserStep(d) \/ StartSync(d) \/ SyncStep(d) \/ SyncStops(d)

Spec == Init /\ [][Next]_vars

-----------------------------------------------------------------------------
(***************************************************************************)
(* Properties.                                                             *)
(***************************************************************************)

\* rev and seq come from the server (sync-protocol.md section 2: a client must not
\* invent them): no merge, conflict, lost answer or stale form leaves a device with
\* a rev or a seq the server has not given that record.
VersionsComeFromServer ==
    \A d \in Devices, r \in Records :
        /\ local[d][r].rev <= rows[r].rev
        /\ local[d][r].seq <= rows[r].seq
        /\ local[d][r].rev = rows[r].rev => local[d][r].seq \in {0, rows[r].seq}

\* A push that replaces a record replaces it with content whose updated_at is at
\* least that of the record: in particular a live record older than a tombstone never
\* revives it (sync-protocol.md section 7), whatever the order of edits, merges,
\* conflicts and lost answers on the devices.  (By updated_at: the server stamps the
\* moment of the push, not that of the edit.)
NewestWriteWins ==
    [][\A r \in Records : rows'[r] # rows[r] =>
          \E d \in Devices :
            /\ At(d, "push")
            /\ rows[r] # Absent => seen[d][r].body.at >= rows[r].body.at]_rows

\* The stored cursor of a device never moves back.
CursorOnlyAdvances ==
    [][\A d \in Devices : cursor'[d] >= cursor[d]]_cursor

-----------------------------------------------------------------------------
(***************************************************************************)
(* What the documents promise and the code does not keep.                  *)
(***************************************************************************)

\* sync-protocol.md section 5.3: the cursor advances to the next_seq of a batch the
\* client has applied.  So a record the server has numbered up to the cursor is one
\* the device has received.  (For devices that remove nothing on their own.)
CursorCoversReceived ==
    \A d \in Devices, r \in Records :
        (rows[r] # Absent /\ rows[r].seq <= cursor[d]) => local[d][r] # Absent

\* requirements.md, offline use and acceptance 10: a local change waits until it is
\* synchronised, and of concurrent updates neither is silently dropped.  Whatever a sync
\* does while a change is waiting (seq 0), the change waits on, or the server has had it,
\* or content that is not older has replaced it.
EditsAreNotLost ==
    [][\A d \in Devices, r \in Records :
          LET before == local[d][r]
              after  == local'[d][r]
          IN  before # Absent /\ before.seq = 0 /\ edits' = edits =>
                IF after.body.edit = before.body.edit /\ after.deleted = before.deleted
                THEN \/ after.seq = 0
                     \/ rows[r].rev > after.rev
                     \/ rows[r].body.edit = after.body.edit /\ rows[r].deleted = after.deleted
                ELSE after.body.at >= before.body.at]_local
=============================================================================
