-------------------------- MODULE ProjectionProofs --------------------------
(***************************************************************************)
(* Proofs about Projection, for any devices, clocks, edits and upsets.     *)
(*                                                                         *)
(* An item loses its date on the way through the server; what brings it    *)
(* back is the account that was derived before it was pushed.  So the date *)
(* is kept if wherever an item has no date there is an account to ask.     *)
(* That takes the revs: an account that was not pushed with its item had   *)
(* been pushed before by another device.                                   *)
(***************************************************************************)
EXTENDS Projection, TLAPS

USE ProjectionAssumption DEF ProjectionAssumption

-----------------------------------------------------------------------------
(***************************************************************************)
(* The inductive invariant.                                                *)
(***************************************************************************)

\* What waits to be pushed is there.  What is there either waits with the server's rev
\* or was seen on the server, which has it then.
RowOK(row, s) ==
    /\ row.waiting => ~Absent(row)
    /\ ~Absent(row) => (row.waiting /\ row.current) \/ ~Absent(s)

RowsOK(rows, s) ==
    /\ RowOK(rows.item, s.item)
    /\ RowOK(rows.account, s.account)
    /\ RowOK(rows.relation, s.relation)

\* An item without its date has been to the server, and its account with it.
DatedOK(item, s) ==
    ~Absent(item) /\ item.body.created = "unknown" => ~Absent(s.account)

\* An item is not pushed before its account, and a cursor is behind only of what is there.
ServerOK(s, n) ==
    /\ ~Absent(s.item) => ~Absent(s.account)
    /\ n["item"] # {} => ~Absent(s.item)
    /\ n["account"] # {} => ~Absent(s.account)
    /\ n["relation"] # {} => ~Absent(s.relation)

FormOK(f, s) == f.open /\ ~f.current => ~Absent(s.item)

\* A device whose cursor has passed the server's account has one.
AccountPulled(d) ==
    (d \notin new["account"] \/ At(d, "pushed")) /\ ~Absent(server.account)
        => ~Absent(local[d].account)

\* A sync has pulled the account, and when it has projected the item, it has one; the
\* server has what was pushed, as applied now or from before.
SyncOK(d) ==
    /\ At(d, "pulled") \/ At(d, "listed") \/ At(d, "projected") => d \notin new["account"]
    /\ At(d, "projected") => (~Absent(listed) => ~Absent(local[d].account))
    /\ At(d, "pushed") =>
        \A k \in Kinds :
            /\ k \in applied => Listed(d)[k].waiting
            /\ Listed(d)[k].waiting => ~Absent(server[k])

DeviceOK(d) ==
    /\ RowsOK(local[d], server)
    /\ DatedOK(local[d].item, server)
    /\ FormOK(form[d], server)
    /\ AccountPulled(d)
    /\ SyncOK(d)

\* No other date than the one that was entered is anywhere.
DatesOK(rows) ==
    /\ rows.item.body.created # "other"
    /\ ~Absent(rows.account) => rows.account.body.first = "entered"

DatesKept ==
    /\ DatesOK(server)
    /\ listed.body.created # "other"
    /\ \A d \in Devices :
        /\ DatesOK(local[d])
        /\ form[d].open => form[d].date = "entered"

Inv ==
    /\ TypeOK
    /\ ServerOK(server, new)
    /\ RowOK(listed, server.item) /\ DatedOK(listed, server)
    /\ \A d \in Devices : DeviceOK(d)
    /\ ~guessed => DatesKept

-----------------------------------------------------------------------------
(***************************************************************************)
(* Lemmas about the operators.                                             *)
(***************************************************************************)

\* The time the server stamps is within the clock's range.
LEMMA StampInTime ==
    ASSUME clock \in 0 .. MaxTime
    PROVE  Stamp \in 0 .. MaxTime
<1>1. clock \div TicksPerSecond \in Nat
      /\ (clock \div TicksPerSecond) * TicksPerSecond \in Nat
      /\ (clock \div TicksPerSecond) * TicksPerSecond <= clock
  BY SMT
<1> QED BY <1>1 DEF Stamp

\* A merge with a row of the server is that row, or the local one, which was there and
\* now counts as the server's.
LEMMA MergeRows ==
    ASSUME NEW B, NEW l \in RowOf(B), NEW r \in RowOf(B), ~Absent(r)
    PROVE  /\ Merge(l, r) \in RowOf(B)
           /\ ~Absent(Merge(l, r))
           /\ RowOK(Merge(l, r), r)
           /\ Merge(l, r) = r \/ (~Absent(l) /\ Merge(l, r).body = l.body)
<1>1. r.state \in {"live", "deleted"} /\ l.state \in {"absent", "live", "deleted"}
  BY DEF Absent, RowOf
<1>2. CASE Absent(l) \/ TakesRemote(l, r)
  <2>1. Merge(l, r) = r
    BY <1>2 DEF Merge
  <2> QED BY <2>1 DEF RowOK
<1>3. CASE ~Absent(l) /\ ~TakesRemote(l, r) /\ l.state = "deleted"
  <2>1. Merge(l, r) = l
    BY <1>3 DEF Merge
  <2> QED BY <2>1, <1>3 DEF RowOK
<1>4. CASE ~Absent(l) /\ ~TakesRemote(l, r) /\ l.state = "live"
  <2> DEFINE m == [l EXCEPT !.waiting = FALSE, !.current = TRUE]
  <2>1. Merge(l, r) = m
    BY <1>4 DEF Merge
  <2>2. m \in RowOf(B) /\ m.state = l.state /\ m.body = l.body
    BY DEF RowOf
  <2> HIDE DEF m
  <2> QED BY <2>1, <2>2, <1>4 DEF RowOK, Absent
<1> QED BY <1>1, <1>2, <1>3, <1>4 DEF Absent

\* What a sync pushes: the item as it listed it, the rest as it is stored.
LEMMA ListedFields ==
    ASSUME TypeOK, NEW d \in Devices
    PROVE  /\ Listed(d) \in Rows
           /\ Listed(d).item = listed
           /\ Listed(d).account = local[d].account
           /\ Listed(d).relation = local[d].relation
<1>1. local[d] \in Rows /\ listed \in RowOf(ItemBody)
  BY DEF TypeOK
<1> QED BY <1>1 DEF Listed, Rows

\* A function on the kinds whose rows are of the right kinds.
LEMMA RowsByKind ==
    ASSUME NEW f, f = [k \in Kinds |-> f[k]],
           f["item"] \in RowOf(ItemBody), f["account"] \in RowOf(AccountBody),
           f["relation"] \in RowOf(RelationBody)
    PROVE  f \in Rows /\ f.item = f["item"] /\ f.account = f["account"] /\ f.relation = f["relation"]
BY DEF Rows, Kinds

-----------------------------------------------------------------------------
(***************************************************************************)
(* The users.                                                              *)
(***************************************************************************)
LEMMA InitInv == Init => Inv
<1> SUFFICES ASSUME Init PROVE Inv
  OBVIOUS
<1>1. NoItem \in RowOf(ItemBody) /\ NoAccount \in RowOf(AccountBody) /\ NoRelation \in RowOf(RelationBody)
  BY DEF NoItem, NoAccount, NoRelation, NoRow, RowOf, ItemBody, AccountBody, RelationBody,
         Content, NoContent, Dates
<1>2. NoRows \in Rows /\ NoForm \in Form
  BY <1>1 DEF NoRows, Rows, NoForm, Form, Dates
<1>3. TypeOK
  <2>1. clock \in 0 .. MaxTime /\ edits \in 0 .. MaxEdits /\ upsets \in 0 .. MaxUpsets
    BY DEF Init
  <2>2. new \in [Kinds -> SUBSET Devices]
    BY DEF Init
  <2>3. /\ listed \in RowOf(ItemBody) /\ applied \subseteq Kinds
        /\ local \in [Devices -> Rows] /\ form \in [Devices -> Form] /\ server \in Rows
    BY <1>1, <1>2 DEF Init
  <2> QED BY <2>1, <2>2, <2>3 DEF Init, TypeOK, Steps
<1>4. Absent(NoItem) /\ Absent(NoAccount) /\ Absent(NoRelation)
      /\ ~NoItem.waiting /\ ~NoAccount.waiting /\ ~NoRelation.waiting
      /\ NoItem.body.created = "unknown" /\ ~NoForm.open
  BY DEF NoItem, NoAccount, NoRelation, NoRow, Absent, NoForm
<1>5. NoRows.item = NoItem /\ NoRows.account = NoAccount /\ NoRows.relation = NoRelation
  BY DEF NoRows
<1>6. ServerOK(server, new)
  BY <1>4, <1>5 DEF Init, ServerOK, Kinds
<1>7. RowOK(listed, server.item) /\ DatedOK(listed, server)
  BY <1>4, <1>5 DEF Init, RowOK, DatedOK
<1>8. ASSUME NEW d \in Devices
      PROVE  DeviceOK(d)
  BY <1>4, <1>5 DEF Init, DeviceOK, RowsOK, RowOK, DatedOK, FormOK, AccountPulled, SyncOK, At
<1>9. DatesKept
  BY <1>4, <1>5 DEF Init, DatesKept, DatesOK
<1> QED BY <1>3, <1>6, <1>7, <1>8, <1>9 DEF Inv

\* The shape of what a user does: one device's item and form change.
LEMMA UserStep ==
    ASSUME Inv, NEW d \in Devices, NEW i \in RowOf(ItemBody), NEW f \in Form,
           local' \in [Devices -> Rows],
           local'[d].item = i, local'[d].account = local[d].account,
           local'[d].relation = local[d].relation,
           \A e \in Devices \ {d} : local'[e] = local[e],
           form' = [form EXCEPT ![d] = f],
           clock' = clock, UNCHANGED <<serverVars, syncVars>>,
           edits' \in 0 .. MaxEdits, upsets' \in 0 .. MaxUpsets,
           guessed' \in BOOLEAN, removed' \in BOOLEAN,
           RowOK(i, server.item), DatedOK(i, server), FormOK(f, server),
           ~guessed' => ~guessed /\ i.body.created # "other" /\ (f.open => f.date = "entered")
    PROVE  Inv'
<1>1. TypeOK'
  BY DEF Inv, TypeOK, serverVars, syncVars
<1>2. ServerOK(server, new)' /\ RowOK(listed, server.item)' /\ DatedOK(listed, server)'
  BY DEF Inv, serverVars, syncVars
<1>3. form \in [Devices -> Form]
  BY DEF Inv, TypeOK
<1>4. ASSUME NEW e \in Devices
      PROVE  DeviceOK(e)'
  <2>1. DeviceOK(e)
    BY DEF Inv
  <2>2. /\ local'[e].account = local[e].account /\ local'[e].relation = local[e].relation
        /\ local'[e].item = i \/ local'[e].item = local[e].item
        /\ form'[e] = f \/ form'[e] = form[e]
    BY <1>3
  <2>3. RowsOK(local[e], server)' /\ DatedOK(local[e].item, server)' /\ FormOK(form[e], server)'
    BY <2>1, <2>2 DEF DeviceOK, RowsOK, serverVars
  <2>4. AccountPulled(e)'
    BY <2>1, <2>2 DEF DeviceOK, AccountPulled, At, serverVars, syncVars
  <2>5. \A k \in Kinds : Listed(e)'[k] = Listed(e)[k]
    <3>1. local[e] \in Rows /\ local'[e] \in Rows
      BY DEF Inv, TypeOK
    <3> QED BY <2>2, <3>1 DEF Listed, Kinds, Rows, syncVars
  <2>6. SyncOK(e)'
    BY <2>1, <2>2, <2>5 DEF DeviceOK, SyncOK, At, serverVars, syncVars
  <2> QED BY <2>3, <2>4, <2>6 DEF DeviceOK
<1>5. ~guessed' => DatesKept'
  <2> SUFFICES ASSUME ~guessed'
               PROVE  DatesKept'
    OBVIOUS
  <2>1. DatesKept
    BY DEF Inv
  <2>2. ASSUME NEW e \in Devices
        PROVE  DatesOK(local[e])' /\ (form'[e].open => form'[e].date = "entered")
    BY <1>3, <2>1 DEF DatesKept, DatesOK
  <2> QED BY <2>1, <2>2 DEF DatesKept, serverVars, syncVars
<1> QED BY <1>1, <1>2, <1>4, <1>5 DEF Inv

\* The shape of a step that changes no row, no form and nothing of the server.
LEMMA QuietStep ==
    ASSUME Inv, TypeOK', UNCHANGED <<serverVars, local, form, guessed>>,
           RowOK(listed', server.item), DatedOK(listed', server),
           ~guessed => listed'.body.created # "other",
           \A d \in Devices : SyncOK(d)' /\ (At(d, "pushed")' => At(d, "pushed"))
    PROVE  Inv'
<1>1. ServerOK(server, new)' /\ RowOK(listed, server.item)' /\ DatedOK(listed, server)'
  BY DEF Inv, serverVars
<1>2. ASSUME NEW d \in Devices
      PROVE  DeviceOK(d)'
  <2>1. DeviceOK(d)
    BY DEF Inv
  <2>2. RowsOK(local[d], server)' /\ DatedOK(local[d].item, server)' /\ FormOK(form[d], server)'
    BY <2>1 DEF DeviceOK, serverVars
  <2>3. AccountPulled(d)'
    BY <2>1 DEF DeviceOK, AccountPulled, serverVars
  <2> QED BY <2>2, <2>3 DEF DeviceOK
<1>3. ~guessed' => DatesKept'
  BY DEF Inv, DatesKept, serverVars
<1> QED BY <1>1, <1>2, <1>3 DEF Inv

LEMMA TickKeeps == Inv /\ Tick => Inv'
<1> SUFFICES ASSUME Inv, Tick PROVE Inv'
  OBVIOUS
<1>1. TypeOK'
  BY DEF Inv, TypeOK, Tick, serverVars, syncVars, history
<1>2. UNCHANGED <<serverVars, local, form, guessed, syncing, step, listed, applied>>
  BY DEF Tick, syncVars, history
<1>3. ASSUME NEW d \in Devices
      PROVE  SyncOK(d)' /\ (At(d, "pushed")' => At(d, "pushed"))
  BY <1>2 DEF Inv, DeviceOK, SyncOK, At, Listed, serverVars
<1>4. /\ RowOK(listed', server.item) /\ DatedOK(listed', server)
      /\ ~guessed => listed'.body.created # "other"
  BY <1>2 DEF Inv, DatesKept
<1> QED BY <1>1, <1>2, <1>3, <1>4, QuietStep

\* A form with an edit shows the date that was entered, wherever some date is known.
LEMMA OpenFormKeeps == \A d \in Devices : Inv /\ OpenForm(d) => Inv'
<1> SUFFICES ASSUME NEW d \in Devices, Inv, OpenForm(d) PROVE Inv'
  OBVIOUS
<1>1. /\ local[d] \in Rows /\ local[d].item \in RowOf(ItemBody)
      /\ local[d].account \in RowOf(AccountBody) /\ form \in [Devices -> Form]
      /\ guessed \in BOOLEAN /\ removed \in BOOLEAN
      /\ edits \in 0 .. MaxEdits /\ upsets \in 0 .. MaxUpsets
      /\ local \in [Devices -> Rows]
  BY DEF Inv, TypeOK, Rows
<1>2. DeviceOK(d)
  BY DEF Inv
<1>3. RowOK(local[d].item, server.item) /\ DatedOK(local[d].item, server)
  BY <1>2 DEF DeviceOK, RowsOK
<1>4. ~guessed => local[d].item.body.created # "other"
  BY DEF Inv, DatesKept, DatesOK
<1>5. /\ UNCHANGED <<clock, serverVars, syncVars, local>>
      /\ edits' = edits /\ upsets' = upsets /\ removed' = removed
  BY DEF OpenForm, userVars
<1>6. CASE /\ form' = [form EXCEPT ![d] = [open |-> TRUE, current |-> TRUE, date |-> "entered"]]
           /\ UNCHANGED guessed
  <2> DEFINE f == [open |-> TRUE, current |-> TRUE, date |-> "entered"]
  <2>1. f \in Form /\ f.current /\ f.date = "entered"
    BY DEF Form, Dates
  <2>2. FormOK(f, server)
    BY <2>1 DEF FormOK
  <2>3. form' = [form EXCEPT ![d] = f]
    BY <1>6
  <2> HIDE DEF f
  <2> QED BY <1>1, <1>3, <1>4, <1>5, <1>6, <2>1, <2>2, <2>3, UserStep
<1>7. CASE /\ local[d].item.state = "live"
           /\ form' = [form EXCEPT ![d] = [open |-> TRUE, current |-> local[d].item.current,
                                           date |-> OfferedDate(local[d])]]
           /\ guessed' = (guessed \/ ~KnowsDate(local[d]))
  <2> DEFINE f == [open |-> TRUE, current |-> local[d].item.current,
                   date |-> OfferedDate(local[d])]
  <2>1. local[d].item.body.created \in Dates \union {"unknown"}
        /\ local[d].account.body.first \in Dates /\ local[d].item.current \in BOOLEAN
    BY <1>1 DEF RowOf, ItemBody, AccountBody
  <2>2. OfferedDate(local[d]) \in Dates
    BY <2>1 DEF OfferedDate, Dates
  <2>3. f \in Form /\ f.date = OfferedDate(local[d]) /\ f.current = local[d].item.current
    BY <2>1, <2>2 DEF Form
  <2>4. FormOK(f, server)
    BY <1>3, <1>7, <2>3 DEF FormOK, RowOK, Absent
  <2>5. ~guessed' => ~guessed /\ KnowsDate(local[d])
    BY <1>7
  <2>6. ~guessed' => OfferedDate(local[d]) = "entered"
    <3> SUFFICES ASSUME ~guessed'
                 PROVE  OfferedDate(local[d]) = "entered"
      OBVIOUS
    <3>1. DatesOK(local[d])
      BY <2>5 DEF Inv, DatesKept
    <3> QED BY <2>1, <2>5, <3>1 DEF DatesOK, KnowsDate, OfferedDate, Dates, Absent
  <2>7. guessed' \in BOOLEAN
    BY <1>7
  <2>8. form' = [form EXCEPT ![d] = f]
    BY <1>7
  <2> HIDE DEF f
  <2> QED BY <1>1, <1>3, <1>4, <1>5, <2>3, <2>4, <2>5, <2>6, <2>7, <2>8, UserStep
<1> QED BY <1>6, <1>7 DEF OpenForm

\* What an edit or a deletion saves: an item that waits, with the form's rev.
LEMMA SaveItemKeeps ==
    ASSUME Inv, NEW d \in Devices, NEW state \in {"live", "deleted"}, NEW body \in ItemBody,
           form[d].open, edits < MaxEdits, SaveItem(d, state, body),
           body.created = "unknown" => ~Absent(server.account),
           ~guessed => body.created # "other"
    PROVE  Inv'
<1>1. /\ local \in [Devices -> Rows] /\ local[d] \in Rows /\ form[d] \in Form
      /\ guessed \in BOOLEAN /\ removed \in BOOLEAN /\ clock \in 0 .. MaxTime
      /\ edits \in 0 .. MaxEdits /\ upsets \in 0 .. MaxUpsets
  BY DEF Inv, TypeOK
<1> DEFINE i == [state |-> state, at |-> clock, waiting |-> TRUE,
                 current |-> form[d].current, body |-> body]
<1>2. i \in RowOf(ItemBody) /\ i.waiting /\ i.current = form[d].current /\ i.body = body
      /\ i.state = state
  BY <1>1 DEF RowOf, Form
<1>3. RowOK(i, server.item)
  <2>1. FormOK(form[d], server)
    BY DEF Inv, DeviceOK
  <2> QED BY <1>2, <2>1 DEF RowOK, FormOK, Absent
<1>4. DatedOK(i, server) /\ (~guessed => i.body.created # "other")
  BY <1>2 DEF DatedOK
<1>5. local' = [local EXCEPT ![d].item = i]
  BY DEF SaveItem
<1>6. /\ form' = [form EXCEPT ![d] = NoForm] /\ clock' = clock /\ UNCHANGED <<serverVars, syncVars>>
      /\ edits' = edits + 1 /\ upsets' = upsets /\ guessed' = guessed /\ removed' = removed
  BY DEF SaveItem, history
<1>7. edits' \in 0 .. MaxEdits
  BY <1>1, <1>6
<1>8. NoForm \in Form /\ FormOK(NoForm, server) /\ ~NoForm.open
  BY DEF NoForm, Form, FormOK, Dates
<1> HIDE DEF i
<1>9. /\ local' \in [Devices -> Rows]
      /\ local'[d].item = i /\ local'[d].account = local[d].account
      /\ local'[d].relation = local[d].relation
      /\ \A e \in Devices \ {d} : local'[e] = local[e]
  BY <1>1, <1>2, <1>5 DEF Rows
<1> QED BY <1>1, <1>2, <1>3, <1>4, <1>6, <1>7, <1>8, <1>9, UserStep

LEMMA HandleSaveItemKeeps ==
    \A d \in Devices : \A related \in BOOLEAN : Inv /\ HandleSaveItem(d, related) => Inv'
<1> SUFFICES ASSUME NEW d \in Devices, NEW related \in BOOLEAN, Inv, HandleSaveItem(d, related)
             PROVE  Inv'
  OBVIOUS
<1>1. form[d] \in Form /\ edits \in 0 .. MaxEdits /\ form[d].open /\ edits < MaxEdits
  BY DEF Inv, TypeOK, HandleSaveItem
<1> DEFINE body == [content |-> [edit |-> edits + 1, related |-> related], created |-> form[d].date]
<1>2. edits + 1 \in 1 .. MaxEdits
  BY <1>1
<1>3. body \in ItemBody /\ body.created = form[d].date
  BY <1>1, <1>2 DEF ItemBody, Content, Form
<1>4. body.created # "unknown"
  BY <1>1, <1>3 DEF Form, Dates
<1>5. ~guessed => body.created # "other"
  BY <1>1, <1>3 DEF Inv, DatesKept
<1>6. SaveItem(d, "live", body)
  BY DEF HandleSaveItem
<1> HIDE DEF body
<1> QED BY <1>1, <1>3, <1>4, <1>5, <1>6, SaveItemKeeps

LEMMA DeleteItemKeeps == \A d \in Devices : Inv /\ DeleteItem(d) => Inv'
<1> SUFFICES ASSUME NEW d \in Devices, Inv, DeleteItem(d)
             PROVE  Inv'
  OBVIOUS
<1>1. local[d].item \in RowOf(ItemBody)
  BY DEF Inv, TypeOK, Rows
<1> DEFINE body == [content |-> NoContent, created |-> local[d].item.body.created]
<1>2. body \in ItemBody /\ body.created = local[d].item.body.created
  BY <1>1 DEF RowOf, ItemBody, Content
<1>3. body.created = "unknown" => ~Absent(server.account)
  BY <1>2 DEF Inv, DeviceOK, DatedOK, DeleteItem
<1>4. ~guessed => body.created # "other"
  BY <1>2 DEF Inv, DatesKept, DatesOK
<1>5. SaveItem(d, "deleted", body) /\ form[d].open /\ edits < MaxEdits
  BY DEF DeleteItem
<1> HIDE DEF body
<1> QED BY <1>2, <1>3, <1>4, <1>5, SaveItemKeeps

LEMMA RemoveItemKeeps == \A d \in Devices : Inv /\ RemoveItem(d) => Inv'
<1> SUFFICES ASSUME NEW d \in Devices, Inv, RemoveItem(d)
             PROVE  Inv'
  OBVIOUS
<1>1. /\ local \in [Devices -> Rows] /\ local[d] \in Rows /\ form \in [Devices -> Form]
      /\ guessed \in BOOLEAN /\ removed \in BOOLEAN
      /\ edits \in 0 .. MaxEdits /\ upsets \in 0 .. MaxUpsets
  BY DEF Inv, TypeOK
<1>2. NoItem \in RowOf(ItemBody) /\ RowOK(NoItem, server.item) /\ DatedOK(NoItem, server)
      /\ NoItem.body.created = "unknown"
  BY DEF NoItem, NoRow, RowOf, ItemBody, Content, NoContent, Dates, RowOK, DatedOK, Absent
<1>3. local' = [local EXCEPT ![d].item = NoItem]
  BY DEF RemoveItem
<1>4. /\ form' = [form EXCEPT ![d] = form[d]] /\ clock' = clock
      /\ UNCHANGED <<serverVars, syncVars>>
      /\ edits' = edits /\ upsets' = upsets + 1 /\ guessed' = guessed /\ removed' \in BOOLEAN
  BY <1>1 DEF RemoveItem
<1>5. upsets' \in 0 .. MaxUpsets
  BY <1>1, <1>4 DEF RemoveItem
<1>6. form[d] \in Form /\ FormOK(form[d], server)
      /\ (~guessed => (form[d].open => form[d].date = "entered"))
  BY <1>1 DEF Inv, DeviceOK, DatesKept
<1>7. /\ local' \in [Devices -> Rows]
      /\ local'[d].item = NoItem /\ local'[d].account = local[d].account
      /\ local'[d].relation = local[d].relation
      /\ \A e \in Devices \ {d} : local'[e] = local[e]
  BY <1>1, <1>2, <1>3 DEF Rows
<1> QED BY <1>1, <1>2, <1>4, <1>5, <1>6, <1>7, UserStep

-----------------------------------------------------------------------------
(***************************************************************************)
(* The pull.                                                               *)
(***************************************************************************)

\* What one kind of record is after a page was merged: as it was, or merged with the
\* server's, which is there.
LEMMA PulledKind ==
    ASSUME Inv, NEW d \in Devices, NEW S \in SUBSET Kinds, NEW k \in Kinds, NEW B,
           local[d][k] \in RowOf(B), server[k] \in RowOf(B), RowOK(local[d][k], server[k])
    PROVE  /\ Pulled(d, S)[k] \in RowOf(B)
           /\ RowOK(Pulled(d, S)[k], server[k])
           /\ Absent(Pulled(d, S)[k]) => Absent(local[d][k])
           /\ k \in S /\ d \in new[k] => ~Absent(Pulled(d, S)[k])
           /\ \/ Pulled(d, S)[k] = local[d][k]
              \/ Pulled(d, S)[k] = server[k] /\ ~Absent(server[k])
              \/ Pulled(d, S)[k].body = local[d][k].body /\ ~Absent(local[d][k])
<1>1. CASE k \in S /\ d \in new[k]
  <2>1. Pulled(d, S)[k] = Merge(local[d][k], server[k])
    BY <1>1 DEF Pulled
  <2>2. ~Absent(server[k])
    BY <1>1 DEF Inv, ServerOK, Kinds
  <2> QED BY <2>1, <2>2, MergeRows
<1>2. CASE ~(k \in S /\ d \in new[k])
  BY <1>2 DEF Pulled
<1> QED BY <1>1, <1>2

\* A device's records after a page was merged.
LEMMA PulledRows ==
    ASSUME Inv, NEW d \in Devices, NEW S \in SUBSET Kinds
    PROVE  /\ Pulled(d, S) \in Rows
           /\ RowsOK(Pulled(d, S), server)
           /\ DatedOK(Pulled(d, S).item, server)
           /\ ~Absent(local[d].account) => ~Absent(Pulled(d, S).account)
           /\ "account" \in S /\ d \in new["account"] => ~Absent(Pulled(d, S).account)
           /\ ~guessed => DatesOK(Pulled(d, S))
<1> DEFINE P == Pulled(d, S)
<1>1. /\ local[d] \in Rows /\ server \in Rows
      /\ P = [k \in Kinds |-> P[k]]
  BY DEF Inv, TypeOK, Pulled
<1>2. RowsOK(local[d], server) /\ DatedOK(local[d].item, server)
  BY DEF Inv, DeviceOK
<1>3. /\ local[d]["item"] = local[d].item /\ local[d]["account"] = local[d].account
      /\ local[d]["relation"] = local[d].relation
      /\ server["item"] = server.item /\ server["account"] = server.account
      /\ server["relation"] = server.relation
      /\ local[d].item \in RowOf(ItemBody) /\ server.item \in RowOf(ItemBody)
      /\ local[d].account \in RowOf(AccountBody) /\ server.account \in RowOf(AccountBody)
      /\ local[d].relation \in RowOf(RelationBody) /\ server.relation \in RowOf(RelationBody)
  BY <1>1 DEF Rows
<1>4. "item" \in Kinds /\ "account" \in Kinds /\ "relation" \in Kinds
  BY DEF Kinds
<1>5. /\ P["item"] \in RowOf(ItemBody) /\ RowOK(P["item"], server.item)
      /\ \/ P["item"] = local[d].item
         \/ P["item"] = server.item /\ ~Absent(server.item)
         \/ P["item"].body = local[d].item.body /\ ~Absent(local[d].item)
  BY <1>2, <1>3, <1>4, PulledKind DEF RowsOK
<1>6. /\ P["account"] \in RowOf(AccountBody) /\ RowOK(P["account"], server.account)
      /\ Absent(P["account"]) => Absent(local[d].account)
      /\ "account" \in S /\ d \in new["account"] => ~Absent(P["account"])
      /\ \/ P["account"] = local[d].account
         \/ P["account"] = server.account
         \/ P["account"].body = local[d].account.body /\ ~Absent(local[d].account)
  BY <1>2, <1>3, <1>4, PulledKind DEF RowsOK
<1>7. P["relation"] \in RowOf(RelationBody) /\ RowOK(P["relation"], server.relation)
  BY <1>2, <1>3, <1>4, PulledKind DEF RowsOK
<1> HIDE DEF P
<1>8. P \in Rows /\ P.item = P["item"] /\ P.account = P["account"] /\ P.relation = P["relation"]
  BY <1>1, <1>5, <1>6, <1>7, RowsByKind
<1>9. RowsOK(P, server)
  BY <1>5, <1>6, <1>7, <1>8 DEF RowsOK
<1>10. DatedOK(P.item, server)
  <2>1. ~Absent(server.item) => ~Absent(server.account)
    BY DEF Inv, ServerOK
  <2> QED BY <1>2, <1>5, <1>8, <2>1 DEF DatedOK
<1>11. ASSUME ~guessed
       PROVE  DatesOK(P)
  <2>1. DatesOK(server) /\ DatesOK(local[d])
    BY <1>11 DEF Inv, DatesKept
  <2> QED BY <1>5, <1>6, <1>8, <2>1 DEF DatesOK
<1> QED BY <1>6, <1>8, <1>9, <1>10, <1>11 DEF P

\* The shape of a pull: one device's records are merged, no sync is under way.
LEMMA PullStep ==
    ASSUME Inv, NEW d \in Devices, NEW S \in SUBSET Kinds, syncing = Nobody,
           local' = [local EXCEPT ![d] = Pulled(d, S)],
           UNCHANGED <<clock, edits, server, form, listed, applied, history>>,
           upsets' \in 0 .. MaxUpsets,
           \/ UNCHANGED <<new, syncing, step>>
           \/ /\ S = Kinds /\ new' = [k \in Kinds |-> new[k] \ {d}]
              /\ syncing' = d /\ step' = "pulled"
    PROVE  Inv'
<1>1. /\ Pulled(d, S) \in Rows
      /\ RowsOK(Pulled(d, S), server)
      /\ DatedOK(Pulled(d, S).item, server)
      /\ ~Absent(local[d].account) => ~Absent(Pulled(d, S).account)
      /\ "account" \in S /\ d \in new["account"] => ~Absent(Pulled(d, S).account)
      /\ ~guessed => DatesOK(Pulled(d, S))
  BY PulledRows
<1>2. local \in [Devices -> Rows] /\ new \in [Kinds -> SUBSET Devices]
  BY DEF Inv, TypeOK
<1>3. local' \in [Devices -> Rows] /\ local'[d] = Pulled(d, S)
      /\ \A e \in Devices \ {d} : local'[e] = local[e]
  BY <1>1, <1>2
<1>4. /\ new' \in [Kinds -> SUBSET Devices]
      /\ \A k \in Kinds : new'[k] \subseteq new[k]
      /\ \A e \in Devices \ {d} : e \in new["account"] => e \in new'["account"]
      /\ S # Kinds => new' = new
      /\ syncing' = d => d \notin new'["account"]
      /\ syncing' \in {Nobody, d} /\ (syncing' = d => step' = "pulled")
  <2>1. CASE UNCHANGED <<new, syncing, step>>
    BY <1>2, <2>1
  <2>2. CASE S = Kinds /\ new' = [k \in Kinds |-> new[k] \ {d}] /\ syncing' = d /\ step' = "pulled"
    BY <1>2, <2>2 DEF Kinds
  <2> QED BY <2>1, <2>2
<1>5. TypeOK'
  <2>1. syncing' \in Devices \union {Nobody} /\ step' \in Steps
    BY DEF Inv, TypeOK, Steps
  <2> QED BY <1>3, <1>4, <2>1 DEF Inv, TypeOK, history
<1>6. ServerOK(server, new)'
  <2>1. ServerOK(server, new)
    BY DEF Inv
  <2> QED BY <1>4, <2>1 DEF ServerOK, Kinds
<1>7. RowOK(listed, server.item)' /\ DatedOK(listed, server)'
  BY DEF Inv
<1>8. ASSUME NEW e \in Devices
      PROVE  DeviceOK(e)'
  <2>1. DeviceOK(e)
    BY DEF Inv
  <2>2. RowsOK(local[e], server)' /\ DatedOK(local[e].item, server)' /\ FormOK(form[e], server)'
    BY <1>1, <1>3, <2>1 DEF DeviceOK
  <2>3. SyncOK(e)'
    BY <1>4 DEF SyncOK, At
  <2>4. ~At(e, "pushed")'
    BY <1>4 DEF At
  <2>5. AccountPulled(e)'
    <3>1. CASE e # d
      <4>1. e \notin new'["account"] => e \notin new["account"]
        BY <1>4, <3>1
      <4> QED BY <1>3, <2>1, <2>4, <3>1, <4>1 DEF DeviceOK, AccountPulled
    <3>2. CASE e = d
      <4>1. CASE d \notin new["account"]
        BY <1>1, <1>3, <2>1, <3>2, <4>1 DEF DeviceOK, AccountPulled
      <4>2. CASE d \in new["account"] /\ "account" \in S
        BY <1>1, <1>3, <3>2, <4>2 DEF AccountPulled
      <4>3. CASE d \in new["account"] /\ "account" \notin S
        <5>1. d \in new'["account"]
          BY <1>4, <4>3 DEF Kinds
        <5> QED BY <2>4, <3>2, <5>1 DEF AccountPulled
      <4> QED BY <4>1, <4>2, <4>3
    <3> QED BY <3>1, <3>2
  <2> QED BY <2>2, <2>3, <2>5 DEF DeviceOK
<1>9. ~guessed' => DatesKept'
  <2> SUFFICES ASSUME ~guessed
               PROVE  DatesKept'
    BY DEF history
  <2>1. DatesKept
    BY DEF Inv
  <2> QED BY <1>1, <1>3, <2>1 DEF DatesKept
<1> QED BY <1>5, <1>6, <1>7, <1>8, <1>9 DEF Inv

LEMMA PullKeeps == \A d \in Devices : Inv /\ Pull(d) => Inv'
<1> SUFFICES ASSUME NEW d \in Devices, Inv, Pull(d) PROVE Inv'
  OBVIOUS
<1>1. Kinds \in SUBSET Kinds /\ upsets' \in 0 .. MaxUpsets
  BY DEF Pull, Inv, TypeOK, userVars
<1> QED BY <1>1, PullStep DEF Pull, userVars

LEMMA PullStopsKeeps == \A d \in Devices : Inv /\ PullStops(d) => Inv'
<1> SUFFICES ASSUME NEW d \in Devices, Inv, PullStops(d) PROVE Inv'
  OBVIOUS
<1>1. PICK S \in {{"item"}, {"item", "account"}} : local' = [local EXCEPT ![d] = Pulled(d, S)]
  BY DEF PullStops
<1>2. S \in SUBSET Kinds
  BY DEF Kinds
<1>3. upsets' \in 0 .. MaxUpsets
  BY DEF PullStops, Inv, TypeOK
<1> QED BY <1>1, <1>2, <1>3, PullStep DEF PullStops, serverVars, syncVars

LEMMA ListItemsKeeps == \A d \in Devices : Inv /\ ListItems(d) => Inv'
<1> SUFFICES ASSUME NEW d \in Devices, Inv, ListItems(d) PROVE Inv'
  OBVIOUS
<1>1. /\ At(d, "pulled") /\ step' = "listed" /\ listed' = local[d].item
      /\ UNCHANGED <<userVars, serverVars, local, form, syncing, applied, history>>
  BY DEF ListItems
<1>2. local[d].item \in RowOf(ItemBody)
  BY DEF Inv, TypeOK, Rows
<1>3. TypeOK'
  BY <1>1, <1>2 DEF Inv, TypeOK, userVars, serverVars, history, Steps
<1>4. /\ RowOK(listed', server.item) /\ DatedOK(listed', server)
      /\ ~guessed => listed'.body.created # "other"
  BY <1>1 DEF Inv, DeviceOK, RowsOK, DatesKept, DatesOK
<1>5. ASSUME NEW e \in Devices
      PROVE  SyncOK(e)' /\ (At(e, "pushed")' => At(e, "pushed"))
  BY <1>1 DEF Inv, DeviceOK, SyncOK, At, serverVars
<1> QED BY <1>1, <1>3, <1>4, <1>5, QuietStep DEF history

LEMMA SyncStopsKeeps == Inv /\ SyncStops => Inv'
<1> SUFFICES ASSUME Inv, SyncStops PROVE Inv'
  OBVIOUS
<1>1. /\ syncing' = Nobody /\ step' = "none" /\ listed' = NoItem /\ applied' = {}
      /\ upsets < MaxUpsets /\ upsets' = upsets + 1
      /\ UNCHANGED <<clock, edits, serverVars, local, form, history>>
  BY DEF SyncStops, Idle
<1>2. NoItem \in RowOf(ItemBody) /\ RowOK(NoItem, server.item) /\ DatedOK(NoItem, server)
      /\ NoItem.body.created = "unknown"
  BY DEF NoItem, NoRow, RowOf, ItemBody, Content, NoContent, Dates, RowOK, DatedOK, Absent
<1>3. TypeOK'
  BY <1>1, <1>2 DEF Inv, TypeOK, serverVars, history, Steps
<1>4. \A e \in Devices : SyncOK(e)' /\ (At(e, "pushed")' => At(e, "pushed"))
  BY <1>1 DEF SyncOK, At
<1> QED BY <1>1, <1>2, <1>3, <1>4, QuietStep DEF history

-----------------------------------------------------------------------------
(***************************************************************************)
(* runProjection.                                                          *)
(***************************************************************************)

\* The account derived from an item: it is there and waits, with the date that was
\* entered, found in the item or in the account pulled with it.
LEMMA ProjectedAccountOK ==
    ASSUME Inv, NEW d \in Devices, At(d, "listed"), ~Absent(listed)
    PROVE  /\ ProjectedAccount(listed, local[d].account) \in RowOf(AccountBody)
           /\ ~Absent(ProjectedAccount(listed, local[d].account))
           /\ RowOK(ProjectedAccount(listed, local[d].account), server.account)
           /\ ~guessed => ProjectedAccount(listed, local[d].account).body.first = "entered"
<1> DEFINE a == local[d].account
           first == ResolveClientCreatedAt(listed, a)
           secret == CASE listed.state = "deleted" -> NoContent
                       [] listed.state = "live" /\ (listed.waiting \/ a.body.secret = NoContent) ->
                            listed.body.content
                       [] OTHER -> a.body.secret
           body == [secret |-> secret, shows |-> listed.body.content.related,
                    first |-> first, pulled |-> FALSE]
<1>1. listed \in RowOf(ItemBody) /\ a \in RowOf(AccountBody)
  BY DEF Inv, TypeOK, Rows
<1>2. /\ listed.state \in {"live", "deleted"} /\ listed.at \in 0 .. MaxTime
      /\ listed.body.content \in Content /\ listed.body.created \in Dates \union {"unknown"}
      /\ a.body.secret \in Content /\ a.body.first \in Dates /\ a.current \in BOOLEAN
  BY <1>1 DEF RowOf, ItemBody, AccountBody, Absent
<1>3. NoContent \in Content /\ listed.body.content.related \in BOOLEAN
  <2>1. NoContent \in Content /\ NoContent.related = FALSE
    BY DEF Content, NoContent
  <2>2. \A c \in [edit : 1 .. MaxEdits, related : BOOLEAN] : c.related \in BOOLEAN
    OBVIOUS
  <2> QED BY <1>2, <2>1, <2>2 DEF Content
<1>4. secret \in Content
  <2>1. CASE listed.state = "deleted"
    BY <1>3, <2>1
  <2>2. CASE listed.state = "live" /\ (listed.waiting \/ a.body.secret = NoContent)
    BY <1>2, <2>2
  <2>3. CASE listed.state = "live" /\ ~(listed.waiting \/ a.body.secret = NoContent)
    BY <1>2, <2>3
  <2> QED BY <1>2, <2>1, <2>2, <2>3
<1>5. first \in Dates
  BY <1>2 DEF ResolveClientCreatedAt, Dates
<1>6. ~guessed => first = "entered"
  <2> SUFFICES ASSUME ~guessed
               PROVE  first = "entered"
    OBVIOUS
  <2>1. listed.body.created # "other" /\ DatesOK(local[d])
    BY DEF Inv, DatesKept
  <2>2. CASE listed.body.created # "unknown"
    BY <1>2, <2>1, <2>2 DEF ResolveClientCreatedAt, Dates
  <2>3. CASE listed.body.created = "unknown"
    <3>1. ~Absent(server.account)
      BY <2>3 DEF Inv, DatedOK
    <3>2. ~Absent(a)
      BY <3>1 DEF Inv, DeviceOK, SyncOK, AccountPulled
    <3> QED BY <2>1, <2>3, <3>2 DEF ResolveClientCreatedAt, DatesOK
  <2> QED BY <2>2, <2>3
<1>7. PICK c \in BOOLEAN : c <=> IF Absent(a) THEN Absent(server.account) ELSE a.current
  <2>1. CASE IF Absent(a) THEN Absent(server.account) ELSE a.current
    BY <2>1
  <2>2. CASE ~(IF Absent(a) THEN Absent(server.account) ELSE a.current)
    BY <2>2
  <2> QED BY <2>1, <2>2
<1>8. (IF Absent(a) THEN Absent(server.account) ELSE a.current) = c
  BY <1>2, <1>7 DEF Absent
<1>9. body \in AccountBody /\ body.first = first
  BY <1>3, <1>4, <1>5 DEF AccountBody
<1> HIDE DEF secret, first
<1> DEFINE m == [listed EXCEPT !.waiting = TRUE, !.current = c, !.body = body]
<1>10. ProjectedAccount(listed, a) = m
  BY <1>8 DEF ProjectedAccount, secret, first
<1>11. m \in RowOf(AccountBody) /\ m.state = listed.state /\ m.waiting /\ m.current = c
       /\ m.body = body
  <2> HIDE DEF body
  <2> QED BY <1>1, <1>9 DEF RowOf
<1> HIDE DEF m, body
<1>12. RowOK(a, server.account)
  BY DEF Inv, DeviceOK, RowsOK
<1>13. RowOK(m, server.account)
  BY <1>2, <1>7, <1>11, <1>12 DEF RowOK, Absent
<1> QED BY <1>2, <1>6, <1>9, <1>10, <1>11, <1>13 DEF Absent

\* What becomes of the relation is a relation, which waits if it changed.
LEMMA ProjectedRelationOK ==
    ASSUME Inv, NEW d \in Devices, ~Absent(listed),
           NEW r \in ProjectedRelation(listed, local[d].relation)
    PROVE  r \in RowOf(RelationBody) /\ RowOK(r, server.relation)
<1> DEFINE q == local[d].relation
           deleted == [q EXCEPT !.state = "deleted", !.at = listed.at, !.waiting = TRUE]
<1>1. /\ listed \in RowOf(ItemBody) /\ q \in RowOf(RelationBody) /\ RowOK(q, server.relation)
  BY DEF Inv, TypeOK, Rows, DeviceOK, RowsOK
<1>2. q.state \in {"absent", "live", "deleted"} /\ q.current \in BOOLEAN
      /\ listed.state \in {"live", "deleted"} /\ listed.at \in 0 .. MaxTime
  BY <1>1 DEF RowOf, Absent
<1>3. r = q \/ r = ActiveRelation(listed, q) \/ (r = deleted /\ q.state = "live")
  <2>1. CASE listed.body.content.related /\ (Absent(q) \/ listed.waiting \/ q.state = "deleted")
    BY <1>2, <2>1 DEF ProjectedRelation, Absent
  <2>2. CASE listed.body.content.related /\ ~listed.waiting /\ q.state = "live" /\ q.body.pulled
    BY <1>2, <2>2 DEF ProjectedRelation, Absent
  <2>3. CASE ~listed.body.content.related /\ q.state = "live"
    BY <1>2, <2>3 DEF ProjectedRelation, Absent
  <2>4. CASE /\ ~(listed.body.content.related /\ (Absent(q) \/ listed.waiting \/ q.state = "deleted"))
             /\ ~(listed.body.content.related /\ ~listed.waiting /\ q.state = "live" /\ q.body.pulled)
             /\ ~(~listed.body.content.related /\ q.state = "live")
    BY <1>2, <2>4 DEF ProjectedRelation, Absent
  <2> QED BY <2>1, <2>2, <2>3, <2>4
<1>4. CASE r = q
  BY <1>1, <1>4
<1>5. CASE r = ActiveRelation(listed, q)
  <2>1. PICK c \in BOOLEAN : c <=> IF Absent(q) THEN Absent(server.relation) ELSE q.current
    <3>1. CASE IF Absent(q) THEN Absent(server.relation) ELSE q.current
      BY <3>1
    <3>2. CASE ~(IF Absent(q) THEN Absent(server.relation) ELSE q.current)
      BY <3>2
    <3> QED BY <3>1, <3>2
  <2>2. (IF Absent(q) THEN Absent(server.relation) ELSE q.current) = c
    BY <1>2, <2>1 DEF Absent
  <2> DEFINE m == [listed EXCEPT !.waiting = TRUE, !.body = [pulled |-> FALSE], !.current = c]
  <2>3. r = m
    BY <1>5, <2>2 DEF ActiveRelation
  <2>4. [pulled |-> FALSE] \in RelationBody
    BY DEF RelationBody
  <2>5. m \in RowOf(RelationBody) /\ m.state = listed.state /\ m.waiting /\ m.current = c
    BY <1>1, <2>4 DEF RowOf
  <2> HIDE DEF m
  <2> QED BY <1>1, <1>2, <2>1, <2>3, <2>5 DEF RowOK, Absent
<1>6. CASE r = deleted /\ q.state = "live"
  <2>1. deleted \in RowOf(RelationBody) /\ deleted.state = "deleted" /\ deleted.waiting
        /\ deleted.current = q.current
    BY <1>1, <1>2 DEF RowOf
  <2> HIDE DEF deleted
  <2> QED BY <1>1, <1>6, <2>1 DEF RowOK, Absent
<1> QED BY <1>3, <1>4, <1>5, <1>6

LEMMA RunProjectionKeeps == \A d \in Devices : Inv /\ RunProjection(d) => Inv'
<1> SUFFICES ASSUME NEW d \in Devices, Inv, RunProjection(d) PROVE Inv'
  OBVIOUS
<1>1. /\ At(d, "listed") /\ step' = "projected"
      /\ UNCHANGED <<clock, edits, upsets, server, new, form, syncing, listed, applied,
                     guessed, removed>>
  BY DEF RunProjection, userVars, serverVars, history
<1>2. local \in [Devices -> Rows] /\ local[d] \in Rows /\ DeviceOK(d)
      /\ local[d].account \in RowOf(AccountBody) /\ local[d].relation \in RowOf(RelationBody)
  BY DEF Inv, TypeOK, Rows
<1>3. /\ local' \in [Devices -> Rows] /\ local'[d].item = local[d].item
      /\ \A e \in Devices \ {d} : local'[e] = local[e]
      /\ RowOK(local'[d].account, server.account) /\ RowOK(local'[d].relation, server.relation)
      /\ Absent(local'[d].account) => Absent(local[d].account) /\ Absent(listed)
      /\ ~guessed => DatesOK(local'[d])
  <2>1. CASE Absent(listed)
    <3>1. local' = local
      BY <2>1 DEF RunProjection
    <3> QED BY <1>2, <2>1, <3>1 DEF Inv, DeviceOK, RowsOK, DatesKept
  <2>2. CASE ~Absent(listed)
    <3> DEFINE a == IF AccountChanged(listed, local[d].account)
                    THEN ProjectedAccount(listed, local[d].account) ELSE local[d].account
    <3>1. PICK r \in ProjectedRelation(listed, local[d].relation) :
              local' = [local EXCEPT ![d].account = a, ![d].relation = r]
      BY <2>2 DEF RunProjection
    <3>2. r \in RowOf(RelationBody) /\ RowOK(r, server.relation)
      BY <2>2, ProjectedRelationOK
    <3>3. /\ a \in RowOf(AccountBody) /\ RowOK(a, server.account) /\ ~Absent(a)
          /\ ~guessed => a.body.first = "entered"
      <4>1. CASE AccountChanged(listed, local[d].account)
        BY <1>1, <2>2, <4>1, ProjectedAccountOK
      <4>2. CASE ~AccountChanged(listed, local[d].account)
        <5>1. ~Absent(local[d].account)
          BY <4>2 DEF AccountChanged
        <5> QED BY <1>2, <4>2, <5>1 DEF Inv, DeviceOK, RowsOK, DatesKept, DatesOK
      <4> QED BY <4>1, <4>2
    <3> HIDE DEF a
    <3>4. /\ local' \in [Devices -> Rows] /\ local'[d].item = local[d].item
          /\ local'[d].account = a /\ local'[d].relation = r
          /\ \A e \in Devices \ {d} : local'[e] = local[e]
      BY <1>2, <3>1, <3>2, <3>3 DEF Rows
    <3> QED BY <2>2, <3>2, <3>3, <3>4 DEF Inv, DatesKept, DatesOK
  <2> QED BY <2>1, <2>2
<1>4. TypeOK'
  BY <1>1, <1>3 DEF Inv, TypeOK, Steps
<1>5. ServerOK(server, new)' /\ RowOK(listed, server.item)' /\ DatedOK(listed, server)'
  BY <1>1 DEF Inv
<1>6. ASSUME NEW e \in Devices
      PROVE  DeviceOK(e)'
  <2>1. DeviceOK(e)
    BY DEF Inv
  <2>2. RowsOK(local[e], server)' /\ DatedOK(local[e].item, server)' /\ FormOK(form[e], server)'
    BY <1>1, <1>3, <2>1 DEF DeviceOK, RowsOK
  <2>3. AccountPulled(e)'
    BY <1>1, <1>3, <2>1 DEF DeviceOK, AccountPulled, At
  <2>4. SyncOK(e)'
    BY <1>1, <1>3, <2>1 DEF DeviceOK, SyncOK, At
  <2> QED BY <2>2, <2>3, <2>4 DEF DeviceOK
<1>7. ~guessed' => DatesKept'
  BY <1>1, <1>3 DEF Inv, DatesKept
<1> QED BY <1>4, <1>5, <1>6, <1>7 DEF Inv

-----------------------------------------------------------------------------
(***************************************************************************)
(* The push and its answer.                                                *)
(***************************************************************************)

\* What the server stores is there if what was pushed is, for good and without a date
\* of its own if it is an item.
LEMMA StoredItem ==
    ASSUME Inv, NEW row \in RowOf(ItemBody)
    PROVE  /\ Stored("item", row) \in RowOf(ItemBody)
           /\ Absent(Stored("item", row)) <=> Absent(row)
           /\ Stored("item", row).body.created = "unknown"
<1>1. Stamp \in 0 .. MaxTime
  BY StampInTime DEF Inv, TypeOK
<1> DEFINE body == [row.body EXCEPT !.created = "unknown"]
           m == [row EXCEPT !.at = Stamp, !.waiting = FALSE, !.current = TRUE, !.body = body]
<1>2. body \in ItemBody /\ body.created = "unknown"
  BY DEF RowOf, ItemBody
<1>3. Stored("item", row) = m
  BY DEF Stored
<1> HIDE DEF body
<1>4. m \in RowOf(ItemBody) /\ m.state = row.state /\ m.body = body
  BY <1>1, <1>2 DEF RowOf
<1> HIDE DEF m
<1> QED BY <1>2, <1>3, <1>4 DEF Absent

LEMMA StoredAccount ==
    ASSUME Inv, NEW row \in RowOf(AccountBody)
    PROVE  /\ Stored("account", row) \in RowOf(AccountBody)
           /\ Absent(Stored("account", row)) <=> Absent(row)
           /\ Stored("account", row).body.first = row.body.first
<1>1. Stamp \in 0 .. MaxTime
  BY StampInTime DEF Inv, TypeOK
<1> DEFINE body == [row.body EXCEPT !.pulled = TRUE]
           m == [row EXCEPT !.at = Stamp, !.waiting = FALSE, !.current = TRUE, !.body = body]
<1>2. body \in AccountBody /\ body.first = row.body.first
  BY DEF RowOf, AccountBody
<1>3. Stored("account", row) = m
  BY DEF Stored
<1> HIDE DEF body
<1>4. m \in RowOf(AccountBody) /\ m.state = row.state /\ m.body = body
  BY <1>1, <1>2 DEF RowOf
<1> HIDE DEF m
<1> QED BY <1>2, <1>3, <1>4 DEF Absent

LEMMA StoredRelation ==
    ASSUME Inv, NEW row \in RowOf(RelationBody)
    PROVE  /\ Stored("relation", row) \in RowOf(RelationBody)
           /\ Absent(Stored("relation", row)) <=> Absent(row)
<1>1. Stamp \in 0 .. MaxTime
  BY StampInTime DEF Inv, TypeOK
<1> DEFINE body == [row.body EXCEPT !.pulled = TRUE]
           m == [row EXCEPT !.at = Stamp, !.waiting = FALSE, !.current = TRUE, !.body = body]
<1>2. body \in RelationBody
  BY DEF RowOf, RelationBody
<1>3. Stored("relation", row) = m
  BY DEF Stored
<1> HIDE DEF body
<1>4. m \in RowOf(RelationBody) /\ m.state = row.state
  BY <1>1, <1>2 DEF RowOf
<1> HIDE DEF m
<1> QED BY <1>3, <1>4 DEF Absent

\* The answer to a push saved: the rows that are there stay, and count as the server's.
LEMMA AnsweredKind ==
    ASSUME Inv, NEW d \in Devices, At(d, "pushed"), NEW k \in Kinds, NEW B,
           Listed(d)[k] \in RowOf(B), server[k] \in RowOf(B), local[d][k] \in RowOf(B),
           RowOK(local[d][k], server[k]), RowOK(Listed(d)[k], server[k]),
           NEW row,
           row = CASE k \in applied -> [Listed(d)[k] EXCEPT !.waiting = FALSE, !.current = TRUE]
                   [] k \in Unsynced(d) \ applied ->
                        [Merge(Listed(d)[k], server[k]) EXCEPT !.waiting = TRUE]
                   [] OTHER -> local[d][k]
    PROVE  /\ row \in RowOf(B) /\ RowOK(row, server[k])
           /\ Absent(row) => Absent(local[d][k])
           /\ \/ row = local[d][k]
              \/ row.body = server[k].body /\ ~Absent(server[k])
              \/ row.body = Listed(d)[k].body /\ ~Absent(Listed(d)[k])
<1>1. /\ k \in applied => Listed(d)[k].waiting
      /\ Listed(d)[k].waiting => ~Absent(server[k])
      /\ Listed(d)[k].waiting => ~Absent(Listed(d)[k])
  BY DEF Inv, DeviceOK, SyncOK, RowOK
<1>2. CASE k \in applied
  <2> DEFINE m == [Listed(d)[k] EXCEPT !.waiting = FALSE, !.current = TRUE]
  <2>1. row = m
    BY <1>2
  <2>2. m \in RowOf(B) /\ m.state = Listed(d)[k].state /\ m.body = Listed(d)[k].body /\ ~m.waiting
    BY DEF RowOf
  <2> HIDE DEF m
  <2> QED BY <1>1, <1>2, <2>1, <2>2 DEF RowOK, Absent
<1>3. CASE k \in Unsynced(d) \ applied
  <2> DEFINE g == Merge(Listed(d)[k], server[k])
             m == [g EXCEPT !.waiting = TRUE]
  <2>1. ~Absent(server[k])
    BY <1>1, <1>3 DEF Unsynced
  <2>2. /\ g \in RowOf(B) /\ ~Absent(g)
        /\ g = server[k] \/ (~Absent(Listed(d)[k]) /\ g.body = Listed(d)[k].body)
    BY <2>1, MergeRows
  <2>3. row = m
    BY <1>3
  <2> HIDE DEF g
  <2>4. m \in RowOf(B) /\ m.state = g.state /\ m.body = g.body
    BY <2>2 DEF RowOf
  <2> HIDE DEF m
  <2> QED BY <2>1, <2>2, <2>3, <2>4 DEF RowOK, Absent
<1>4. CASE k \notin applied /\ k \notin Unsynced(d) \ applied
  <2>1. row = local[d][k]
    BY <1>4
  <2> QED BY <2>1
<1> QED BY <1>2, <1>3, <1>4

\* The records of a device, the server and what it pushes, kind by kind.
LEMMA KindTypes ==
    ASSUME Inv, NEW d \in Devices
    PROVE  /\ local[d]["item"] = local[d].item /\ local[d].item \in RowOf(ItemBody)
           /\ local[d]["account"] = local[d].account /\ local[d].account \in RowOf(AccountBody)
           /\ local[d]["relation"] = local[d].relation /\ local[d].relation \in RowOf(RelationBody)
           /\ server["item"] = server.item /\ server.item \in RowOf(ItemBody)
           /\ server["account"] = server.account /\ server.account \in RowOf(AccountBody)
           /\ server["relation"] = server.relation /\ server.relation \in RowOf(RelationBody)
           /\ Listed(d)["item"] = listed /\ listed \in RowOf(ItemBody)
           /\ Listed(d)["account"] = local[d].account
           /\ Listed(d)["relation"] = local[d].relation
           /\ "item" \in Kinds /\ "account" \in Kinds /\ "relation" \in Kinds
<1>1. local[d] \in Rows /\ server \in Rows /\ listed \in RowOf(ItemBody) /\ TypeOK
  BY DEF Inv, TypeOK
<1>2. /\ Listed(d) \in Rows /\ Listed(d).item = listed /\ Listed(d).account = local[d].account
      /\ Listed(d).relation = local[d].relation
  BY <1>1, ListedFields
<1>3. \A rows \in Rows :
         /\ rows["item"] = rows.item /\ rows.item \in RowOf(ItemBody)
         /\ rows["account"] = rows.account /\ rows.account \in RowOf(AccountBody)
         /\ rows["relation"] = rows.relation /\ rows.relation \in RowOf(RelationBody)
  BY DEF Rows
<1> QED BY <1>1, <1>2, <1>3 DEF Kinds

\* Nothing to push.
LEMMA PushNothing ==
    ASSUME Inv, NEW d \in Devices, Idle,
           UNCHANGED <<userVars, serverVars, local, form, history>>
    PROVE  Inv'
<1>1. /\ syncing' = Nobody /\ step' = "none" /\ listed' = NoItem /\ applied' = {}
  BY DEF Idle
<1>2. NoItem \in RowOf(ItemBody) /\ RowOK(NoItem, server.item) /\ DatedOK(NoItem, server)
      /\ NoItem.body.created = "unknown"
  BY DEF NoItem, NoRow, RowOf, ItemBody, Content, NoContent, Dates, RowOK, DatedOK, Absent
<1>3. TypeOK'
  BY <1>1, <1>2 DEF Inv, TypeOK, userVars, serverVars, history, Steps
<1>4. \A e \in Devices : SyncOK(e)' /\ (At(e, "pushed")' => At(e, "pushed"))
  BY <1>1 DEF SyncOK, At
<1> QED BY <1>1, <1>2, <1>3, <1>4, QuietStep DEF history

\* A push with something in it.  The account an item was derived with is pushed with it, or
\* the server has one already.
LEMMA PushSomething ==
    ASSUME Inv, NEW d \in Devices, At(d, "projected"), NEW A \in SUBSET Kinds,
           A = {k \in Unsynced(d) : Listed(d)[k].current},
           server' = [k \in Kinds |-> IF k \in A THEN Stored(k, Listed(d)[k]) ELSE server[k]],
           new' = [k \in Kinds |-> IF k \in A THEN Devices ELSE new[k]],
           local' = [e \in Devices |-> [k \in Kinds |->
                        IF k \in A THEN [local[e][k] EXCEPT !.current = FALSE] ELSE local[e][k]]],
           form' = IF "item" \in A THEN [e \in Devices |-> [form[e] EXCEPT !.current = FALSE]]
                   ELSE form,
           step' = "pushed", applied' = A, UNCHANGED <<userVars, syncing, listed, history>>
    PROVE  Inv'
<1>1. /\ new \in [Kinds -> SUBSET Devices] /\ local \in [Devices -> Rows]
      /\ form \in [Devices -> Form] /\ server \in Rows /\ TypeOK
  BY DEF Inv, TypeOK
<1>2. /\ DeviceOK(d) /\ d \notin new["account"] /\ RowOK(listed, server.item)
      /\ RowOK(local[d].account, server.account) /\ RowOK(local[d].relation, server.relation)
      /\ ~Absent(listed) => ~Absent(local[d].account)
  BY DEF Inv, DeviceOK, SyncOK, RowsOK
<1>3. /\ "item" \in A <=> listed.waiting /\ listed.current
      /\ "account" \in A <=> local[d].account.waiting /\ local[d].account.current
      /\ "relation" \in A <=> local[d].relation.waiting /\ local[d].relation.current
  BY KindTypes DEF Unsynced
<1>4. /\ server' \in Rows
      /\ server'.item = IF "item" \in A THEN Stored("item", listed) ELSE server.item
      /\ server'.account = IF "account" \in A THEN Stored("account", local[d].account)
                           ELSE server.account
      /\ server'.relation = IF "relation" \in A THEN Stored("relation", local[d].relation)
                            ELSE server.relation
  <2>1. /\ server'["item"] = IF "item" \in A THEN Stored("item", listed) ELSE server.item
        /\ server'["account"] = IF "account" \in A THEN Stored("account", local[d].account)
                                ELSE server.account
        /\ server'["relation"] = IF "relation" \in A THEN Stored("relation", local[d].relation)
                                 ELSE server.relation
    BY KindTypes
  <2>2. server'["item"] \in RowOf(ItemBody)
    BY <2>1, KindTypes, StoredItem
  <2>3. server'["account"] \in RowOf(AccountBody)
    BY <2>1, KindTypes, StoredAccount
  <2>4. server'["relation"] \in RowOf(RelationBody)
    BY <2>1, KindTypes, StoredRelation
  <2>5. server' = [k \in Kinds |-> server'[k]]
    OBVIOUS
  <2> QED BY <2>1, <2>2, <2>3, <2>4, <2>5, RowsByKind
<1>5. /\ ~Absent(server.item) => ~Absent(server'.item)
      /\ ~Absent(server.account) => ~Absent(server'.account)
      /\ ~Absent(server.relation) => ~Absent(server'.relation)
      /\ "item" \in A => ~Absent(server'.item)
      /\ "account" \in A => ~Absent(server'.account)
      /\ "relation" \in A => ~Absent(server'.relation)
  BY <1>2, <1>3, <1>4, KindTypes, StoredItem, StoredAccount, StoredRelation DEF RowOK
<1>6. /\ local' \in [Devices -> Rows]
      /\ \A e \in Devices :
          /\ local'[e].item = IF "item" \in A THEN [local[e].item EXCEPT !.current = FALSE]
                              ELSE local[e].item
          /\ local'[e].account = IF "account" \in A THEN [local[e].account EXCEPT !.current = FALSE]
                                 ELSE local[e].account
          /\ local'[e].relation = IF "relation" \in A THEN [local[e].relation EXCEPT !.current = FALSE]
                                  ELSE local[e].relation
  <2> SUFFICES ASSUME NEW e \in Devices
               PROVE  /\ local'[e] \in Rows
                      /\ local'[e].item = IF "item" \in A THEN [local[e].item EXCEPT !.current = FALSE]
                                          ELSE local[e].item
                      /\ local'[e].account = IF "account" \in A THEN [local[e].account EXCEPT !.current = FALSE]
                                             ELSE local[e].account
                      /\ local'[e].relation = IF "relation" \in A THEN [local[e].relation EXCEPT !.current = FALSE]
                                              ELSE local[e].relation
    OBVIOUS
  <2> DEFINE f == [k \in Kinds |->
                      IF k \in A THEN [local[e][k] EXCEPT !.current = FALSE] ELSE local[e][k]]
  <2>1. local'[e] = f
    OBVIOUS
  <2>2. \A B : \A row \in RowOf(B) : [row EXCEPT !.current = FALSE] \in RowOf(B)
    BY DEF RowOf
  <2>3. /\ f["item"] = IF "item" \in A THEN [local[e].item EXCEPT !.current = FALSE]
                       ELSE local[e].item
        /\ f["account"] = IF "account" \in A THEN [local[e].account EXCEPT !.current = FALSE]
                          ELSE local[e].account
        /\ f["relation"] = IF "relation" \in A THEN [local[e].relation EXCEPT !.current = FALSE]
                           ELSE local[e].relation
    BY KindTypes
  <2>4. f = [k \in Kinds |-> f[k]]
    OBVIOUS
  <2> HIDE DEF f
  <2>5. f["item"] \in RowOf(ItemBody)
    BY <2>2, <2>3, KindTypes
  <2>6. f["account"] \in RowOf(AccountBody)
    BY <2>2, <2>3, KindTypes
  <2>7. f["relation"] \in RowOf(RelationBody)
    BY <2>2, <2>3, KindTypes
  <2>8. f \in Rows /\ f.item = f["item"] /\ f.account = f["account"] /\ f.relation = f["relation"]
    BY <2>4, <2>5, <2>6, <2>7, RowsByKind
  <2> QED BY <2>1, <2>3, <2>8
<1>7. ASSUME NEW e \in Devices
      PROVE  /\ local'[e].item.state = local[e].item.state
             /\ local'[e].item.body = local[e].item.body
             /\ local'[e].item.waiting = local[e].item.waiting
             /\ "item" \notin A => local'[e].item = local[e].item
             /\ local'[e].account.state = local[e].account.state
             /\ local'[e].account.body = local[e].account.body
             /\ local'[e].account.waiting = local[e].account.waiting
             /\ "account" \notin A => local'[e].account = local[e].account
             /\ local'[e].relation.state = local[e].relation.state
             /\ local'[e].relation.waiting = local[e].relation.waiting
             /\ "relation" \notin A => local'[e].relation = local[e].relation
  <2>1. \A B : \A row \in RowOf(B) :
            LET m == [row EXCEPT !.current = FALSE]
            IN  m.state = row.state /\ m.body = row.body /\ m.waiting = row.waiting
    BY DEF RowOf
  <2>2. /\ local'[e].item.state = local[e].item.state
        /\ local'[e].item.body = local[e].item.body
        /\ local'[e].item.waiting = local[e].item.waiting
    BY <1>6, <2>1, KindTypes
  <2>3. /\ local'[e].account.state = local[e].account.state
        /\ local'[e].account.body = local[e].account.body
        /\ local'[e].account.waiting = local[e].account.waiting
    BY <1>6, <2>1, KindTypes
  <2>4. /\ local'[e].relation.state = local[e].relation.state
        /\ local'[e].relation.waiting = local[e].relation.waiting
    BY <1>6, <2>1, KindTypes
  <2> QED BY <1>6, <2>2, <2>3, <2>4
<1>8. /\ new' \in [Kinds -> SUBSET Devices]
      /\ new'["item"] = (IF "item" \in A THEN Devices ELSE new["item"])
      /\ new'["account"] = (IF "account" \in A THEN Devices ELSE new["account"])
      /\ new'["relation"] = (IF "relation" \in A THEN Devices ELSE new["relation"])
  BY <1>1 DEF Kinds
<1>9. /\ form' \in [Devices -> Form]
      /\ \A e \in Devices : form'[e].open = form[e].open /\ form'[e].date = form[e].date
      /\ "item" \notin A => form' = form
  BY <1>1 DEF Form
<1>10. TypeOK'
  BY <1>1, <1>4, <1>6, <1>8, <1>9 DEF TypeOK, userVars, history, Steps
<1>11. ServerOK(server, new)'
  <2>1. ServerOK(server, new)
    BY DEF Inv
  <2>2. ~Absent(server'.item) => ~Absent(server'.account)
    <3>1. CASE "item" \in A
      <4>1. ~Absent(local[d].account)
        BY <1>2, <1>3, <3>1 DEF RowOK
      <4>2. "account" \in A \/ ~Absent(server.account)
        BY <1>2, <1>3, <4>1 DEF RowOK
      <4> QED BY <1>5, <4>2
    <3>2. CASE "item" \notin A
      BY <1>4, <1>5, <2>1, <3>2 DEF ServerOK
    <3> QED BY <3>1, <3>2
  <2>3. /\ new'["item"] # {} => ~Absent(server'.item)
        /\ new'["account"] # {} => ~Absent(server'.account)
        /\ new'["relation"] # {} => ~Absent(server'.relation)
    BY <1>5, <1>8, <2>1 DEF ServerOK
  <2> QED BY <2>2, <2>3 DEF ServerOK
<1>12. RowOK(listed, server.item)' /\ DatedOK(listed, server)'
  BY <1>2, <1>5 DEF Inv, RowOK, DatedOK
<1>13. ASSUME NEW e \in Devices
       PROVE  DeviceOK(e)'
  <2>1. DeviceOK(e)
    BY DEF Inv
  <2>2. RowsOK(local[e], server)'
    <3>1. RowOK(local[e].item, server.item)'
      BY <1>5, <1>7, <2>1 DEF DeviceOK, RowsOK, RowOK, Absent
    <3>2. RowOK(local[e].account, server.account)'
      BY <1>5, <1>7, <2>1 DEF DeviceOK, RowsOK, RowOK, Absent
    <3>3. RowOK(local[e].relation, server.relation)'
      BY <1>5, <1>7, <2>1 DEF DeviceOK, RowsOK, RowOK, Absent
    <3> QED BY <3>1, <3>2, <3>3 DEF RowsOK
  <2>3. DatedOK(local[e].item, server)'
    BY <1>5, <1>7, <2>1 DEF DeviceOK, DatedOK, Absent
  <2>4. FormOK(form[e], server)'
    BY <1>5, <1>9, <2>1 DEF DeviceOK, FormOK
  <2>5. AccountPulled(e)'
    <3>1. CASE e = d
      <4>1. ~Absent(server'.account) => ~Absent(local[d].account)
        <5>1. CASE "account" \in A
          BY <1>2, <1>3, <5>1 DEF RowOK
        <5>2. CASE "account" \notin A
          BY <1>2, <1>4, <5>2 DEF DeviceOK, AccountPulled
        <5> QED BY <5>1, <5>2
      <4> QED BY <1>7, <3>1, <4>1 DEF AccountPulled, Absent
    <3>2. CASE e # d
      <4>1. ~At(e, "pushed")'
        BY <3>2 DEF At
      <4>2. CASE "account" \in A
        BY <1>8, <4>1, <4>2 DEF AccountPulled
      <4>3. CASE "account" \notin A
        BY <1>4, <1>7, <1>8, <2>1, <4>1, <4>3 DEF DeviceOK, AccountPulled
      <4> QED BY <4>2, <4>3
    <3> QED BY <3>1, <3>2
  <2>6. SyncOK(e)'
    <3>1. CASE e # d
      BY <3>1 DEF SyncOK, At
    <3>2. CASE e = d
      <4> SUFFICES ASSUME NEW k \in Kinds
                   PROVE  /\ k \in A => Listed(d)'[k].waiting
                          /\ Listed(d)'[k].waiting => ~Absent(server'[k])
        BY <3>2 DEF SyncOK, At
      <4>1. local'[d] \in Rows
        BY <1>6
      <4>2. /\ Listed(d)'["item"] = listed
            /\ Listed(d)'["account"] = local'[d].account
            /\ Listed(d)'["relation"] = local'[d].relation
        BY <4>1 DEF Listed, Rows
      <4>3. /\ server'["item"] = server'.item /\ server'["account"] = server'.account
            /\ server'["relation"] = server'.relation
        BY <1>4 DEF Rows
      <4>4. /\ local'[d].account.waiting = local[d].account.waiting
            /\ local'[d].relation.waiting = local[d].relation.waiting
        BY <1>7
      <4>5. /\ listed.waiting => ~Absent(server'.item)
            /\ local[d].account.waiting => ~Absent(server'.account)
            /\ local[d].relation.waiting => ~Absent(server'.relation)
        BY <1>2, <1>3, <1>5 DEF RowOK
      <4>6. CASE k = "item"
        BY <1>3, <4>2, <4>3, <4>5, <4>6
      <4>7. CASE k = "account"
        BY <1>3, <4>2, <4>3, <4>4, <4>5, <4>7
      <4>8. CASE k = "relation"
        BY <1>3, <4>2, <4>3, <4>4, <4>5, <4>8
      <4> QED BY <4>6, <4>7, <4>8 DEF Kinds
    <3> QED BY <3>1, <3>2
  <2> QED BY <2>2, <2>3, <2>4, <2>5, <2>6 DEF DeviceOK
<1>14. ~guessed' => DatesKept'
  <2> SUFFICES ASSUME ~guessed
               PROVE  DatesKept'
    BY DEF history
  <2>1. DatesKept
    BY DEF Inv
  <2>2. DatesOK(server)'
    <3>1. server'.item.body.created # "other"
      BY <1>4, <2>1, KindTypes, StoredItem DEF DatesKept, DatesOK
    <3>2. CASE "account" \in A
      <4>1. ~Absent(local[d].account)
        BY <1>2, <1>3, <3>2 DEF RowOK
      <4>2. server'.account.body.first = local[d].account.body.first
        BY <1>4, <3>2, KindTypes, StoredAccount
      <4> QED BY <2>1, <3>1, <4>1, <4>2 DEF DatesKept, DatesOK
    <3>3. CASE "account" \notin A
      BY <1>4, <2>1, <3>1, <3>3 DEF DatesKept, DatesOK
    <3> QED BY <3>2, <3>3
  <2>3. ASSUME NEW e \in Devices
        PROVE  DatesOK(local[e])' /\ (form'[e].open => form'[e].date = "entered")
    <3>1. DatesOK(local[e]) /\ (form[e].open => form[e].date = "entered")
      BY <2>1 DEF DatesKept
    <3>2. form'[e].open => form'[e].date = "entered"
      BY <1>9, <3>1
    <3>3. DatesOK(local[e])'
      BY <1>7, <3>1 DEF DatesOK, Absent
    <3> QED BY <3>2, <3>3
  <2> QED BY <2>1, <2>2, <2>3 DEF DatesKept
<1> QED BY <1>10, <1>11, <1>12, <1>13, <1>14 DEF Inv

LEMMA PushKeeps == \A d \in Devices : Inv /\ Push(d) => Inv'
<1> SUFFICES ASSUME NEW d \in Devices, Inv, Push(d) PROVE Inv'
  OBVIOUS
<1>1. CASE Unsynced(d) = {}
  BY <1>1, PushNothing DEF Push
<1>2. CASE Unsynced(d) # {}
  <2> DEFINE A == {k \in Unsynced(d) : Listed(d)[k].current}
  <2>1. A \in SUBSET Kinds
    BY DEF Unsynced
  <2>2. /\ At(d, "projected")
        /\ server' = [k \in Kinds |-> IF k \in A THEN Stored(k, Listed(d)[k]) ELSE server[k]]
        /\ new' = [k \in Kinds |-> IF k \in A THEN Devices ELSE new[k]]
        /\ local' = [e \in Devices |-> [k \in Kinds |->
                        IF k \in A THEN [local[e][k] EXCEPT !.current = FALSE] ELSE local[e][k]]]
        /\ form' = IF "item" \in A THEN [e \in Devices |-> [form[e] EXCEPT !.current = FALSE]]
                   ELSE form
        /\ step' = "pushed" /\ applied' = A /\ UNCHANGED <<userVars, syncing, listed, history>>
    BY <1>2 DEF Push
  <2>3. A = {k \in Unsynced(d) : Listed(d)[k].current}
    OBVIOUS
  <2> HIDE DEF A
  <2> QED BY <2>1, <2>2, <2>3, PushSomething
<1> QED BY <1>1, <1>2

LEMMA SaveAnswerKeeps == \A d \in Devices : Inv /\ SaveAnswer(d) => Inv'
<1> SUFFICES ASSUME NEW d \in Devices, Inv, SaveAnswer(d) PROVE Inv'
  OBVIOUS
<1> DEFINE f == [k \in Kinds |->
                    CASE k \in applied -> [Listed(d)[k] EXCEPT !.waiting = FALSE, !.current = TRUE]
                      [] k \in Unsynced(d) \ applied ->
                           [Merge(Listed(d)[k], server[k]) EXCEPT !.waiting = TRUE]
                      [] OTHER -> local[d][k]]
<1>1. /\ At(d, "pushed") /\ syncing' = Nobody /\ step' = "none" /\ listed' = NoItem
      /\ applied' = {} /\ new' = [k \in Kinds |-> new[k] \ {d}]
      /\ UNCHANGED <<clock, edits, upsets, server, form, guessed, removed>>
  BY DEF SaveAnswer, Idle, userVars, history
<1>2. /\ local \in [Devices -> Rows] /\ new \in [Kinds -> SUBSET Devices]
      /\ DeviceOK(d) /\ RowOK(listed, server.item) /\ DatedOK(listed, server)
      /\ ServerOK(server, new)
  BY DEF Inv, TypeOK
<1>3. local' = [local EXCEPT ![d] = f]
  BY <1>2 DEF SaveAnswer
<1>4. /\ RowOK(local[d].item, server.item) /\ RowOK(local[d].account, server.account)
      /\ RowOK(local[d].relation, server.relation)
  BY <1>2 DEF DeviceOK, RowsOK
<1>5. f = [k \in Kinds |-> f[k]]
      /\ \A k \in Kinds :
            f[k] = CASE k \in applied -> [Listed(d)[k] EXCEPT !.waiting = FALSE, !.current = TRUE]
                     [] k \in Unsynced(d) \ applied ->
                          [Merge(Listed(d)[k], server[k]) EXCEPT !.waiting = TRUE]
                     [] OTHER -> local[d][k]
  BY Zenon
<1> HIDE DEF f
<1>5a. ASSUME NEW k \in Kinds, NEW B,
              Listed(d)[k] \in RowOf(B), server[k] \in RowOf(B), local[d][k] \in RowOf(B),
              RowOK(local[d][k], server[k]), RowOK(Listed(d)[k], server[k])
       PROVE  /\ f[k] \in RowOf(B) /\ RowOK(f[k], server[k])
              /\ Absent(f[k]) => Absent(local[d][k])
              /\ \/ f[k] = local[d][k]
                 \/ f[k].body = server[k].body /\ ~Absent(server[k])
                 \/ f[k].body = Listed(d)[k].body /\ ~Absent(Listed(d)[k])
  BY <1>1, <1>5, <1>5a, AnsweredKind
<1>6. /\ f["item"] \in RowOf(ItemBody) /\ RowOK(f["item"], server.item)
      /\ \/ f["item"] = local[d].item
         \/ f["item"].body = server.item.body /\ ~Absent(server.item)
         \/ f["item"].body = listed.body /\ ~Absent(listed)
  <2>1. /\ "item" \in Kinds
        /\ Listed(d)["item"] \in RowOf(ItemBody) /\ server["item"] \in RowOf(ItemBody)
        /\ local[d]["item"] \in RowOf(ItemBody)
        /\ RowOK(local[d]["item"], server["item"]) /\ RowOK(Listed(d)["item"], server["item"])
    BY <1>2, <1>4, KindTypes
  <2>2. /\ f["item"] \in RowOf(ItemBody) /\ RowOK(f["item"], server["item"])
        /\ \/ f["item"] = local[d]["item"]
           \/ f["item"].body = server["item"].body /\ ~Absent(server["item"])
           \/ f["item"].body = Listed(d)["item"].body /\ ~Absent(Listed(d)["item"])
    BY <1>5a, <2>1
  <2> QED BY <2>2, KindTypes
<1>7. /\ f["account"] \in RowOf(AccountBody) /\ RowOK(f["account"], server.account)
      /\ Absent(f["account"]) => Absent(local[d].account)
      /\ \/ f["account"] = local[d].account
         \/ f["account"].body = server.account.body /\ ~Absent(server.account)
         \/ f["account"].body = local[d].account.body /\ ~Absent(local[d].account)
  <2>1. /\ "account" \in Kinds
        /\ Listed(d)["account"] \in RowOf(AccountBody) /\ server["account"] \in RowOf(AccountBody)
        /\ local[d]["account"] \in RowOf(AccountBody)
        /\ RowOK(local[d]["account"], server["account"])
        /\ RowOK(Listed(d)["account"], server["account"])
    BY <1>4, KindTypes
  <2>2. /\ f["account"] \in RowOf(AccountBody) /\ RowOK(f["account"], server["account"])
        /\ Absent(f["account"]) => Absent(local[d]["account"])
        /\ \/ f["account"] = local[d]["account"]
           \/ f["account"].body = server["account"].body /\ ~Absent(server["account"])
           \/ f["account"].body = Listed(d)["account"].body /\ ~Absent(Listed(d)["account"])
    BY <1>5a, <2>1
  <2> QED BY <2>2, KindTypes
<1>8. f["relation"] \in RowOf(RelationBody) /\ RowOK(f["relation"], server.relation)
  BY <1>1, <1>4, <1>5, AnsweredKind, KindTypes
<1>9. f \in Rows /\ f.item = f["item"] /\ f.account = f["account"] /\ f.relation = f["relation"]
  BY <1>5, <1>6, <1>7, <1>8, RowsByKind
<1>10. local' \in [Devices -> Rows] /\ local'[d] = f
       /\ \A e \in Devices \ {d} : local'[e] = local[e]
  BY <1>2, <1>3, <1>9
<1>11. NoItem \in RowOf(ItemBody) /\ RowOK(NoItem, server.item) /\ DatedOK(NoItem, server)
       /\ NoItem.body.created = "unknown"
  BY DEF NoItem, NoRow, RowOf, ItemBody, Content, NoContent, Dates, RowOK, DatedOK, Absent
<1>12. /\ new' \in [Kinds -> SUBSET Devices]
       /\ \A k \in Kinds : new'[k] \subseteq new[k]
       /\ \A e \in Devices \ {d} : e \in new["account"] => e \in new'["account"]
  BY <1>1, <1>2 DEF Kinds
<1>13. TypeOK'
  BY <1>1, <1>10, <1>11, <1>12 DEF Inv, TypeOK, Steps
<1>14. ServerOK(server, new)'
  BY <1>1, <1>2, <1>12 DEF ServerOK, Kinds
<1>15. RowOK(listed, server.item)' /\ DatedOK(listed, server)'
  BY <1>1, <1>11
<1>16. ASSUME NEW e \in Devices
       PROVE  DeviceOK(e)'
  <2>1. DeviceOK(e)
    BY DEF Inv
  <2>2. SyncOK(e)' /\ ~At(e, "pushed")'
    BY <1>1 DEF SyncOK, At
  <2>3. CASE e = d
    <3>1. RowsOK(f, server)
      BY <1>6, <1>7, <1>8, <1>9 DEF RowsOK
    <3>2. DatedOK(f.item, server)
      BY <1>2, <1>6, <1>9 DEF DeviceOK, DatedOK, ServerOK
    <3>3. ~Absent(server.account) => ~Absent(f.account)
      BY <1>1, <1>2, <1>7, <1>9 DEF DeviceOK, AccountPulled
    <3> QED BY <1>1, <1>10, <2>1, <2>2, <2>3, <3>1, <3>2, <3>3 DEF DeviceOK, AccountPulled
  <2>4. CASE e # d
    <3>1. local'[e] = local[e] /\ (e \notin new'["account"] => e \notin new["account"])
      BY <1>10, <1>12, <2>4
    <3> QED BY <1>1, <2>1, <2>2, <3>1 DEF DeviceOK, AccountPulled
  <2> QED BY <2>3, <2>4
<1>17. ~guessed' => DatesKept'
  <2> SUFFICES ASSUME ~guessed
               PROVE  DatesKept'
    BY <1>1
  <2>1. DatesKept
    BY DEF Inv
  <2>2. DatesOK(f)
    <3>1. DatesOK(local[d]) /\ DatesOK(server) /\ listed.body.created # "other"
      BY <2>1 DEF DatesKept
    <3> QED BY <1>6, <1>7, <1>9, <3>1 DEF DatesOK
  <2> QED BY <1>1, <1>10, <1>11, <2>1, <2>2 DEF DatesKept
<1> QED BY <1>13, <1>14, <1>15, <1>16, <1>17 DEF Inv

-----------------------------------------------------------------------------
(***************************************************************************)
(* The theorems.                                                           *)
(***************************************************************************)
LEMMA NextInv == Inv /\ [Next]_vars => Inv'
<1> SUFFICES ASSUME Inv, [Next]_vars PROVE Inv'
  OBVIOUS
<1>1. CASE UNCHANGED vars
  <2>1. TypeOK'
    BY <1>1 DEF Inv, TypeOK, vars, userVars, serverVars, syncVars, history
  <2>2. UNCHANGED <<serverVars, local, form, guessed, syncing, step, listed, applied>>
    BY <1>1 DEF vars, syncVars, history
  <2>3. ASSUME NEW d \in Devices
        PROVE  SyncOK(d)' /\ (At(d, "pushed")' => At(d, "pushed"))
    BY <2>2 DEF Inv, DeviceOK, SyncOK, At, Listed, serverVars
  <2>4. /\ RowOK(listed', server.item) /\ DatedOK(listed', server)
        /\ ~guessed => listed'.body.created # "other"
    BY <2>2 DEF Inv, DatesKept
  <2> QED BY <2>1, <2>2, <2>3, <2>4, QuietStep
<1>2. CASE Next
  BY <1>2, TickKeeps, SyncStopsKeeps, OpenFormKeeps, DeleteItemKeeps, RemoveItemKeeps,
     HandleSaveItemKeeps, PullKeeps, ListItemsKeeps, RunProjectionKeeps, PushKeeps,
     SaveAnswerKeeps, PullStopsKeeps
     DEF Next, UserActs, Syncs
<1> QED BY <1>1, <1>2

LEMMA InvAlways == Spec => []Inv
BY InitInv, NextInv, PTL DEF Spec

\* Every variable keeps to the values the code gives it; in particular a merge never meets
\* a record the server does not have.
THEOREM TypeCorrect == Spec => []TypeOK
<1>1. Inv => TypeOK
  BY DEF Inv
<1> QED BY <1>1, InvAlways, PTL

\* The date the user entered stays, on every device and on the server, although the server
\* drops it from the item: there is an account with it wherever an item lacks it.
THEOREM CreationDateStays == Spec => []CreationDateIsKept
<1>1. Inv => CreationDateIsKept
  BY DEF Inv, DatesKept, DatesOK, CreationDateIsKept
<1> QED BY <1>1, InvAlways, PTL
=============================================================================
