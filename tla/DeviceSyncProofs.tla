-------------------------- MODULE DeviceSyncProofs --------------------------
(***************************************************************************)
(* Proofs about the devices that synchronise: types, that every rev and    *)
(* seq on a device was given by the server, that a push replaces a record  *)
(* with content that is not older, and that a cursor never moves back.     *)
(***************************************************************************)
EXTENDS DeviceSync, PushBatchProofs, FiniteSetTheorems

USE DeviceAssumption, BodiesAssumption, NoRevAssumption

-----------------------------------------------------------------------------
(***************************************************************************)
(* The inductive invariant.  VersionsComeFromServer says nothing of what   *)
(* is on its way: the records a sync has read and will write back, the     *)
(* rows of a page, the rev a form was opened on, the revs and seqs of an   *)
(* answer.  Each of them was true of the server once, and the server only  *)
(* moves on; what is left of it is what the predicates below say.  That    *)
(* the newest write wins needs one more fact of a record that waits to be  *)
(* pushed: on the server's current rev it is not older than the server's.  *)
(***************************************************************************)

\* The bodies the server may have: it stamps no time to come.
Past(now) == {b \in BodyValues : b.at <= now}

\* A device's copy of a record the server has as srow.
CopyOK(row, srow) ==
    /\ row # Absent => row.body \in BodyValues
    /\ row.rev <= srow.rev /\ row.seq <= srow.seq
    /\ row.rev = srow.rev => row.seq \in {0, srow.seq}
    /\ row # Absent /\ row.seq = 0 /\ row.rev # 0 /\ row.rev = srow.rev =>
         row.body.at >= srow.body.at

StoreOK(store, srows) == \A r \in Records : CopyOK(store[r], srows[r])

FormOK(f, srows) == f # NoForm => f.rev <= srows[f.id].rev

\* The page: what it refers to is on the server; what it carries, the server had.
PageOK(step, p, srows) ==
    /\ step = "rows" => \A r \in p.refs : srows[r] # Absent
    /\ step \in {"merge", "save"} =>
         \A r \in p.refs : p.got[r] # Absent /\ StateOf(p.got[r], srows[r], BodyValues)

\* The answer is about records the device listed to be pushed.
ReplyOK(step, a, store, srows) ==
    step = "saveAnswer" =>
        AnswerSound(a.applied, a.conflicts, srows, Unsynced(store), BodyValues)

\* The cursor, and what it will be set to.
CursorOK(step, stored, m, end, next, seq) ==
    /\ stored <= seq
    /\ step \in {"refs", "rows", "merge", "save", "list"} => stored <= m /\ m <= seq
    /\ step \in {"rows", "merge", "save"} => m <= end /\ end <= seq
    /\ step \in {"saveAnswer", "storeNext"} => stored <= next /\ next <= seq

DeviceOK(d) ==
    /\ StoreOK(local[d], rows)
    /\ StoreOK(seen[d], rows)
    /\ FormOK(form[d], rows)
    /\ PageOK(pc[d], page[d], rows)
    /\ ReplyOK(pc[d], answer[d], seen[d], rows)
    /\ CursorOK(pc[d], cursor[d], mark[d], page[d].end, answer[d].seq, vaultSeq)

Inv ==
    /\ TypeOK
    /\ RowsSound(vaultSeq, rows, Past(clock))
    /\ \A d \in Devices : DeviceOK(d)

-----------------------------------------------------------------------------
(***************************************************************************)
(* One record: what happens to a device's copy of it.                      *)
(***************************************************************************)

\* The idle values have their types, and no copy at all is a sound copy.
LEMMA IdleValues ==
    /\ Absent \in Row /\ NoRows \in Rows /\ NoPage \in Page /\ NoAnswer \in Answer
    /\ NoAnswer.seq = 0 /\ NoPage.refs = {} /\ NoPage.end = 0
<1>1. Absent \in Row
  BY DEF Absent, Row
<1>2. NoRows \in Rows
  BY <1>1 DEF NoRows, Rows
<1>3. NoPage \in Page /\ NoPage.refs = {} /\ NoPage.end = 0
  BY <1>2 DEF NoPage, Page
<1>4. NoAnswer \in Answer /\ NoAnswer.seq = 0
  BY DEF NoAnswer, AnswerOf, BeginPush, Answer
<1> QED BY <1>1, <1>2, <1>3, <1>4

LEMMA AbsentCopy ==
    ASSUME NEW srow \in Row
    PROVE  CopyOK(Absent, srow)
BY DEF CopyOK, Absent, Row

\* A copy stays sound while the server moves the record on.
LEMMA CopyStays ==
    ASSUME NEW row \in Row, NEW cur \in Row, NEW next \in Row,
           next # cur => next.rev > cur.rev /\ next.seq >= cur.seq, CopyOK(row, cur)
    PROVE  CopyOK(row, next)
<1>1. /\ row.rev \in Nat /\ row.seq \in Nat /\ cur.rev \in Nat /\ cur.seq \in Nat
      /\ next.rev \in Nat /\ next.seq \in Nat
  BY DEF Row
<1>2. CASE next = cur
  BY <1>2
<1>3. CASE next # cur
  BY <1>1, <1>3 DEF CopyOK
<1> QED BY <1>2, <1>3

\* A record the user has just edited or deleted, on the rev the form was opened on.
LEMMA EditedCopy ==
    ASSUME NEW rev \in Nat, NEW deleted \in BOOLEAN, NEW srow \in Row,
           clock \in 0 .. MaxTime, edits \in 0 .. MaxEdits, edits < MaxEdits,
           rev <= srow.rev, srow # Absent => srow.body \in Past(clock)
    PROVE  Edited(rev, deleted) \in Row /\ CopyOK(Edited(rev, deleted), srow)
<1> DEFINE body == [edit |-> IF deleted THEN 0 ELSE edits + 1, at |-> clock]
           row == Edited(rev, deleted)
<1>1. body \in BodyValues /\ body.at = clock
  BY DEF BodyValues
<1>2. row.rev = rev /\ row.seq = 0 /\ row.deleted = deleted /\ row.body = body
      /\ row = [rev |-> rev, seq |-> 0, deleted |-> deleted, body |-> body]
  BY DEF Edited
<1>3. srow.rev # 0 => srow.body.at <= clock
  BY DEF Absent, Past
<1> HIDE DEF body, row
<1>4. row \in Row
  BY <1>1, <1>2 DEF Row
<1>5. CopyOK(row, srow)
  BY <1>1, <1>2, <1>3 DEF CopyOK, Row
<1> QED BY <1>4, <1>5 DEF row

\* A record of a page takes its place in the merge.
LEMMA MergedCopy ==
    ASSUME NEW l \in Row, NEW r \in Row, NEW srow \in Row, CopyOK(l, srow),
           StateOf(r, srow, BodyValues)
    PROVE  Merged(l, r) \in Row /\ CopyOK(Merged(l, r), srow)
<1>1. /\ l.rev \in Nat /\ l.seq \in Nat /\ r.rev \in Nat /\ r.seq \in Nat
      /\ l.deleted \in BOOLEAN
  BY DEF Row
<1>2. CopyOK(r, srow)
  BY <1>1 DEF CopyOK, StateOf
<1>3. CASE Merged(l, r) = r
  BY <1>2, <1>3
<1>4. CASE Merged(l, r) = l
  BY <1>4
<1>5. CASE l # Absent /\ Merged(l, r) = [l EXCEPT !.rev = r.rev, !.seq = r.seq]
  <2> DEFINE row == [l EXCEPT !.rev = r.rev, !.seq = r.seq]
  <2>1. row \in Row /\ row.rev = r.rev /\ row.seq = r.seq /\ row.body = l.body
    BY <1>1 DEF Row
  <2> HIDE DEF row
  <2>2. CopyOK(row, srow)
    BY <1>1, <1>5, <2>1 DEF CopyOK, StateOf
  <2> QED BY <1>5, <2>1, <2>2 DEF row
<1> QED BY <1>3, <1>4, <1>5 DEF Merged, MergeRow

\* A record that was applied is saved with the version the answer tells.
LEMMA AppliedCopy ==
    ASSUME NEW l \in Row, NEW srow \in Row, NEW a \in Applied, l # Absent, CopyOK(l, srow),
           VersionOf(a, srow)
    PROVE  LET row == [l EXCEPT !.rev = a.rev, !.seq = a.seq]
           IN  row \in Row /\ CopyOK(row, srow)
<1> DEFINE row == [l EXCEPT !.rev = a.rev, !.seq = a.seq]
<1>1. a.rev \in Nat /\ a.seq \in Nat
  BY DEF Applied
<1>2. row \in Row /\ row.rev = a.rev /\ row.seq = a.seq /\ row.body = l.body
  BY <1>1 DEF Row
<1> HIDE DEF row
<1>3. CopyOK(row, srow)
  BY <1>1, <1>2 DEF CopyOK, VersionOf
<1> QED BY <1>2, <1>3 DEF row

\* A record that conflicted is merged and waits again: the local content stays only
\* where it is newer, or on the rev it had.
LEMMA ConflictCopy ==
    ASSUME NEW l \in Row, NEW r \in Row, NEW srow \in Row, l # Absent, l.seq = 0,
           CopyOK(l, srow), StateOf(r, srow, BodyValues)
    PROVE  LET row == [MergeRow(l, r) EXCEPT !.seq = 0]
           IN  row \in Row /\ CopyOK(row, srow)
<1> DEFINE row == [MergeRow(l, r) EXCEPT !.seq = 0]
<1>1. /\ l.rev \in Nat /\ r.rev \in Nat /\ srow.seq \in Nat /\ srow.rev \in Nat
      /\ r.deleted \in BOOLEAN /\ l.deleted \in BOOLEAN
      /\ l.body \in BodyValues /\ r.body \in BodyValues
  BY DEF Row, CopyOK, StateOf
<1>2. l.body.at \in Nat /\ r.body.at \in Nat
  BY <1>1 DEF BodyValues
<1>3. CASE MergeRow(l, r) = r
  <2> DEFINE m == [r EXCEPT !.seq = 0]
  <2>1. m \in Row /\ m.rev = r.rev /\ m.seq = 0 /\ m.body = r.body
    BY DEF Row
  <2> HIDE DEF m
  <2>2. CopyOK(m, srow)
    BY <1>1, <1>2, <2>1 DEF CopyOK, StateOf
  <2> QED BY <1>3, <2>1, <2>2 DEF m
<1>4. CASE MergeRow(l, r) = l
  <2>1. [l EXCEPT !.seq = 0] = l
    BY DEF Row
  <2> QED BY <1>4, <2>1
<1>5. CASE ~TakesRemote(l, r) /\ ~l.deleted
  <2> DEFINE m == [l EXCEPT !.rev = r.rev, !.seq = r.seq]
             n == [m EXCEPT !.seq = 0]
  <2>1. m \in Row /\ m.rev = r.rev /\ m.body = l.body
    BY <1>1 DEF Row
  <2>2. MergeRow(l, r) = m
    BY <1>5 DEF MergeRow
  <2> HIDE DEF m
  <2>3. n \in Row /\ n.rev = r.rev /\ n.seq = 0 /\ n.body = l.body
    BY <2>1 DEF Row
  <2>4. l.body.at >= r.body.at
    <3>1. CASE r.deleted
      <4>1. r.body.at >= l.body.at => TakesRemote(l, r)
        BY <3>1 DEF TakesRemote
      <4> QED BY <1>2, <1>5, <4>1
    <3>2. CASE ~r.deleted
      <4>1. r.body.at >= l.body.at => TakesRemote(l, r)
        BY <1>5, <3>2 DEF TakesRemote
      <4> QED BY <1>2, <1>5, <4>1
    <3> QED BY <3>1, <3>2
  <2> HIDE DEF n
  <2>5. CopyOK(n, srow)
    BY <1>1, <2>3, <2>4 DEF CopyOK, StateOf
  <2> QED BY <2>2, <2>3, <2>5 DEF n
<1> QED BY <1>3, <1>4, <1>5 DEF MergeRow

-----------------------------------------------------------------------------
(***************************************************************************)
(* One device: what others do leaves what it knows sound.                  *)
(***************************************************************************)

LEMMA StoreStays ==
    ASSUME NEW store \in Rows, NEW srows \in Rows, NEW next \in Rows, Forward(srows, next),
           StoreOK(store, srows)
    PROVE  StoreOK(store, next)
<1> SUFFICES ASSUME NEW r \in Records
             PROVE  CopyOK(store[r], next[r])
  BY DEF StoreOK
<1>1. store[r] \in Row /\ srows[r] \in Row /\ next[r] \in Row
  BY DEF Rows
<1>2. next[r] # srows[r] => next[r].rev > srows[r].rev /\ next[r].seq >= srows[r].seq
  BY DEF Forward
<1> QED BY <1>1, <1>2, CopyStays DEF StoreOK

LEMMA FormStays ==
    ASSUME NEW f \in Form \union {NoForm}, NEW srows \in Rows, NEW next \in Rows,
           Forward(srows, next), FormOK(f, srows)
    PROVE  FormOK(f, next)
<1> SUFFICES ASSUME f # NoForm
             PROVE  f.rev <= next[f.id].rev
  BY DEF FormOK
<1>1. f.id \in Records /\ f.rev \in Nat /\ f.rev <= srows[f.id].rev
  BY DEF Form, FormOK
<1>2. srows[f.id].rev \in Nat /\ next[f.id].rev \in Nat
  BY <1>1 DEF Rows, Row
<1>3. next[f.id].rev >= srows[f.id].rev
  BY <1>1, <1>2 DEF Forward
<1> QED BY <1>1, <1>2, <1>3

LEMMA PageStays ==
    ASSUME NEW step, NEW p \in Page, NEW srows \in Rows, NEW next \in Rows,
           Forward(srows, next), PageOK(step, p, srows)
    PROVE  PageOK(step, p, next)
<1>1. p.refs \subseteq Records /\ \A r \in Records : p.got[r] \in Row
  BY DEF Page, Rows
<1>2. \A r \in Records : /\ srows[r] \in Row /\ next[r] \in Row
                         /\ next[r] # srows[r] =>
                              next[r].rev > srows[r].rev /\ next[r].seq >= srows[r].seq
  BY DEF Rows, Forward
<1>3. ASSUME step = "rows", NEW r \in p.refs
      PROVE  next[r] # Absent
  <2>1. srows[r] # Absent
    BY <1>3 DEF PageOK
  <2>2. next[r].rev > srows[r].rev => next[r].rev # 0
    BY <1>1, <1>2 DEF Row
  <2> QED BY <1>1, <1>2, <2>1, <2>2 DEF Absent
<1>4. ASSUME step \in {"merge", "save"}, NEW r \in p.refs
      PROVE  p.got[r] # Absent /\ StateOf(p.got[r], next[r], BodyValues)
  <2>1. p.got[r] # Absent /\ StateOf(p.got[r], srows[r], BodyValues)
    BY <1>4 DEF PageOK
  <2>2. p.got[r].rev \in Nat /\ p.got[r].seq \in Nat
    BY <1>1 DEF Row
  <2> QED BY <1>1, <1>2, <2>1, <2>2, RowMoves
<1> QED BY <1>3, <1>4 DEF PageOK

LEMMA ReplyStays ==
    ASSUME NEW step, NEW a \in Answer, NEW store \in Rows, NEW srows \in Rows, NEW next \in Rows,
           Forward(srows, next), ReplyOK(step, a, store, srows)
    PROVE  ReplyOK(step, a, store, next)
<1>1. a.applied \in Seq(Applied) /\ a.conflicts \in Seq(Conflict)
  BY DEF Answer
<1> QED BY <1>1, AnswerStays DEF ReplyOK

LEMMA CursorStays ==
    ASSUME NEW step, NEW stored \in Nat, NEW m \in Nat, NEW end \in Nat, NEW next \in Nat,
           NEW seq \in Nat, NEW seq2 \in Nat, seq2 >= seq,
           CursorOK(step, stored, m, end, next, seq)
    PROVE  CursorOK(step, stored, m, end, next, seq2)
BY DEF CursorOK

\* The types of one device's variables.
LEMMA DeviceTypes ==
    ASSUME TypeOK, NEW d \in Devices
    PROVE  /\ local[d] \in Rows /\ seen[d] \in Rows /\ cursor[d] \in Nat /\ mark[d] \in Nat
           /\ form[d] \in Form \union {NoForm} /\ pc[d] \in Steps
           /\ page[d] \in Page /\ page[d].end \in Nat /\ page[d].refs \subseteq Records
           /\ answer[d] \in Answer /\ answer[d].seq \in Nat
           /\ vaultSeq \in Nat /\ rows \in Rows /\ clock \in Nat
BY DEF TypeOK, Page, Answer

\* A device that does not move itself.
LEMMA DeviceStays ==
    ASSUME TypeOK, TypeOK', NEW d \in Devices, DeviceOK(d),
           Forward(rows, rows'), vaultSeq' >= vaultSeq,
           UNCHANGED <<local[d], seen[d], cursor[d], mark[d], form[d], pc[d], page[d], answer[d]>>
    PROVE  DeviceOK(d)'
<1>1. /\ local[d] \in Rows /\ seen[d] \in Rows /\ cursor[d] \in Nat /\ mark[d] \in Nat
      /\ form[d] \in Form \union {NoForm}
      /\ page[d] \in Page /\ page[d].end \in Nat
      /\ answer[d] \in Answer /\ answer[d].seq \in Nat
      /\ vaultSeq \in Nat /\ rows \in Rows
  BY DeviceTypes
<1>2. vaultSeq' \in Nat /\ rows' \in Rows
  BY DEF TypeOK
<1>3. StoreOK(local[d], rows') /\ StoreOK(seen[d], rows')
  BY <1>1, <1>2, StoreStays DEF DeviceOK
<1>4. FormOK(form[d], rows')
  BY <1>1, <1>2, FormStays DEF DeviceOK
<1>5. PageOK(pc[d], page[d], rows')
  BY <1>1, <1>2, PageStays DEF DeviceOK
<1>6. ReplyOK(pc[d], answer[d], seen[d], rows')
  BY <1>1, <1>2, ReplyStays DEF DeviceOK
<1>7. CursorOK(pc[d], cursor[d], mark[d], page[d].end, answer[d].seq, vaultSeq')
  BY <1>1, <1>2, CursorStays DEF DeviceOK
<1> QED BY <1>3, <1>4, <1>5, <1>6, <1>7 DEF DeviceOK

\* A device with no sync under way and nothing left of one.
LEMMA NothingRead ==
    ASSUME TypeOK
    PROVE  /\ StoreOK(NoRows, rows)
           /\ \A step : PageOK(step, NoPage, rows)
<1>1. \A r \in Records : rows[r] \in Row /\ NoRows[r] = Absent
  BY DEF TypeOK, Rows, NoRows
<1>2. StoreOK(NoRows, rows)
  BY <1>1, AbsentCopy DEF StoreOK
<1>3. \A step : PageOK(step, NoPage, rows)
  BY IdleValues DEF PageOK
<1> QED BY <1>2, <1>3

-----------------------------------------------------------------------------
(***************************************************************************)
(* The users' steps.                                                       *)
(***************************************************************************)

\* Time passes: the server may stamp more bodies.
LEMMA TickKeeps ==
    ASSUME Inv, Tick
    PROVE  Inv'
<1>1. TypeOK /\ clock \in 0 .. MaxTime /\ clock < MaxTime /\ clock' = clock + 1
      /\ UNCHANGED <<edits, removals, serverVars, storeVars, form, pc, memVars>>
  BY DEF Inv, TypeOK, Tick
<1>2. TypeOK'
  BY <1>1 DEF TypeOK, serverVars, storeVars, memVars
<1>3. RowsSound(vaultSeq, rows, Past(clock))'
  <2>1. Past(clock) \subseteq Past(clock')
    BY <1>1 DEF Past, BodyValues
  <2> QED BY <1>1, <2>1 DEF Inv, RowsSound, serverVars
<1>4. ASSUME NEW d \in Devices
      PROVE  DeviceOK(d)'
  <2>1. DeviceOK(d)
    BY DEF Inv
  <2> QED BY <1>1, <2>1 DEF DeviceOK, serverVars, storeVars, memVars
<1> QED BY <1>2, <1>3, <1>4 DEF Inv

LEMMA OpenFormKeeps ==
    ASSUME Inv, NEW d \in Devices, NEW r \in Records, OpenForm(d, r)
    PROVE  TypeOK' /\ DeviceOK(d)'
<1>1. /\ TypeOK /\ DeviceOK(d) /\ local[d] \in Rows /\ local[d][r] \in Row
  BY DEF Inv, TypeOK, Rows
<1>2. [id |-> r, rev |-> local[d][r].rev] \in Form
  BY <1>1 DEF Form, Row
<1>3. TypeOK'
  BY <1>1, <1>2 DEF TypeOK, OpenForm, userVars, serverVars, storeVars, memVars
<1>4. /\ form'[d] = [id |-> r, rev |-> local[d][r].rev]
      /\ UNCHANGED <<vaultSeq, rows, local, cursor, pc, mark, page, seen, answer>>
  BY <1>1 DEF TypeOK, OpenForm, serverVars, storeVars, memVars
<1>5. FormOK(form'[d], rows)
  BY <1>1, <1>4 DEF FormOK, DeviceOK, StoreOK, CopyOK
<1> QED BY <1>1, <1>3, <1>4, <1>5 DEF DeviceOK

\* Saving a form and deleting a record write one record, on the rev it was opened on.
LEMMA EditKeeps ==
    ASSUME Inv, NEW d \in Devices, SaveForm(d) \/ ConfirmDelete(d)
    PROVE  TypeOK' /\ DeviceOK(d)'
<1>1. /\ TypeOK /\ DeviceOK(d) /\ RowsSound(vaultSeq, rows, Past(clock))
      /\ clock \in 0 .. MaxTime /\ edits \in 0 .. MaxEdits
  BY DEF Inv, TypeOK
<1>2. PICK deleted \in BOOLEAN :
        /\ form[d] # NoForm /\ edits < MaxEdits
        /\ local' = [local EXCEPT ![d][form[d].id] = Edited(form[d].rev, deleted)]
  BY DEF SaveForm, ConfirmDelete
<1>3. /\ form' = [form EXCEPT ![d] = NoForm] /\ edits' = edits + 1
      /\ UNCHANGED <<clock, removals, vaultSeq, rows, cursor, pc, mark, page, seen, answer>>
  BY DEF SaveForm, ConfirmDelete, serverVars, memVars
<1> DEFINE r == form[d].id
           row == Edited(form[d].rev, deleted)
<1>4. r \in Records /\ form[d].rev \in Nat /\ rows[r] \in Row /\ form[d].rev <= rows[r].rev
  <2>1. form[d] \in Form
    BY <1>1, <1>2 DEF TypeOK
  <2> QED BY <1>1, <1>2, <2>1 DEF Form, TypeOK, Rows, DeviceOK, FormOK
<1>5. rows[r] # Absent => rows[r].body \in Past(clock)
  BY <1>1, <1>4 DEF RowsSound
<1> HIDE DEF r
<1>6. row \in Row /\ CopyOK(row, rows[r])
  BY <1>1, <1>2, <1>4, <1>5, EditedCopy
<1> HIDE DEF row
<1>7. local' = [local EXCEPT ![d][r] = row]
  BY <1>2 DEF r, row
<1>8. local' \in [Devices -> Rows] /\ local'[d] = [local[d] EXCEPT ![r] = row]
  BY <1>1, <1>4, <1>6, <1>7 DEF TypeOK, Rows
<1>9. TypeOK'
  <2>1. edits' \in 0 .. MaxEdits
    BY <1>1, <1>2, <1>3
  <2> QED BY <1>1, <1>3, <1>8, <2>1 DEF TypeOK
<1>10. StoreOK(local'[d], rows)
  <2>1. local[d] \in Rows /\ StoreOK(local[d], rows)
    BY <1>1 DEF TypeOK, DeviceOK
  <2> QED BY <1>4, <1>6, <1>8, <2>1 DEF StoreOK, Rows
<1>11. FormOK(form'[d], rows)
  BY <1>1, <1>3 DEF TypeOK, FormOK
<1> QED BY <1>1, <1>3, <1>9, <1>10, <1>11 DEF DeviceOK

LEMMA RemoveKeeps ==
    ASSUME Inv, NEW d \in Devices, NEW r \in Records, RemoveLocally(d, r)
    PROVE  TypeOK' /\ DeviceOK(d)'
<1>1. /\ TypeOK /\ DeviceOK(d) /\ edits \in 0 .. MaxEdits /\ removals \in 0 .. MaxRemovals
  BY DEF Inv, TypeOK
<1>2. /\ local' = [local EXCEPT ![d][r] = Absent]
      /\ removals < MaxRemovals /\ edits < MaxEdits
      /\ removals' = removals + 1 /\ edits' = edits + 1
      /\ UNCHANGED <<clock, vaultSeq, rows, cursor, form, pc, mark, page, seen, answer>>
  BY DEF RemoveLocally, serverVars, memVars
<1>3. local' \in [Devices -> Rows] /\ local'[d] = [local[d] EXCEPT ![r] = Absent]
  BY <1>1, <1>2, IdleValues DEF TypeOK, Rows
<1>4. TypeOK'
  <2>1. edits' \in 0 .. MaxEdits /\ removals' \in 0 .. MaxRemovals
    BY <1>1, <1>2
  <2> QED BY <1>1, <1>2, <1>3, <2>1 DEF TypeOK
<1>5. StoreOK(local'[d], rows)
  <2>1. local[d] \in Rows /\ StoreOK(local[d], rows) /\ rows[r] \in Row
    BY <1>1 DEF TypeOK, DeviceOK, Rows
  <2> QED BY <1>3, <2>1, AbsentCopy DEF StoreOK, Rows
<1> QED BY <1>1, <1>2, <1>4, <1>5 DEF DeviceOK

-----------------------------------------------------------------------------
(***************************************************************************)
(* The steps of runSync.                                                   *)
(***************************************************************************)
LEMMA StartKeeps ==
    ASSUME Inv, NEW d \in Devices, StartSync(d)
    PROVE  TypeOK' /\ DeviceOK(d)'
<1>1. TypeOK /\ DeviceOK(d) /\ pc[d] = "idle"
  BY DEF Inv, StartSync, At
<1>2. /\ mark' = [mark EXCEPT ![d] = cursor[d]] /\ pc' = [pc EXCEPT ![d] = "refs"]
      /\ UNCHANGED <<clock, edits, removals, vaultSeq, rows, local, cursor, form, page, seen, answer>>
  BY DEF StartSync, Goto, userVars, serverVars, storeVars
<1>3. TypeOK'
  BY <1>1, <1>2 DEF TypeOK, Steps
<1>4. pc'[d] = "refs" /\ mark'[d] = cursor[d] /\ cursor[d] \in Nat
  BY <1>1, <1>2 DEF TypeOK
<1>5. CursorOK("refs", cursor[d], cursor[d], page[d].end, answer[d].seq, vaultSeq)
  BY <1>1, <1>4 DEF DeviceOK, CursorOK
<1> QED BY <1>1, <1>2, <1>3, <1>4, <1>5 DEF DeviceOK, PageOK, ReplyOK

LEMMA RefsKeeps ==
    ASSUME Inv, NEW d \in Devices, QueryRefs(d)
    PROVE  TypeOK' /\ DeviceOK(d)'
<1>1. /\ TypeOK /\ DeviceOK(d) /\ pc[d] = "refs" /\ RowsSound(vaultSeq, rows, Past(clock))
      /\ rows \in Rows /\ mark[d] \in Nat /\ vaultSeq \in Nat
  BY DEF Inv, QueryRefs, At, TypeOK
<1>2. PICK P \in SUBSET Newer(rows, mark[d]),
           n \in {mark[d]} \union {rows[r].seq : r \in Records} :
        /\ IsPageEnd(n, P, rows, mark[d])
        /\ page' = [page EXCEPT ![d] = [NoPage EXCEPT !.refs = P, !.end = n]]
  BY DEF QueryRefs, Newer
<1>3. /\ pc' = [pc EXCEPT ![d] = "rows"]
      /\ UNCHANGED <<clock, edits, removals, vaultSeq, rows, local, cursor, form, mark, seen, answer>>
  BY DEF QueryRefs, Goto, userVars, serverVars, storeVars
<1>4. P \subseteq Records /\ \A r \in P : rows[r].seq > mark[d] /\ rows[r] # Absent
  BY <1>1, <1>2 DEF Newer, Rows, Row, Absent
<1>5. n \in Nat /\ mark[d] <= n /\ n <= vaultSeq
  <2>1. n \in Nat
    BY <1>1, <1>2 DEF Rows, Row
  <2>2. CASE P = {}
    BY <1>1, <1>2, <2>1, <2>2 DEF IsPageEnd, DeviceOK, CursorOK
  <2>3. CASE P # {}
    <3>1. PICK r \in P : rows[r].seq = n
      BY <1>2, <2>3 DEF IsPageEnd
    <3> QED BY <1>1, <1>4, <2>1, <3>1 DEF RowsSound
  <2> QED BY <2>2, <2>3
<1> DEFINE new == [NoPage EXCEPT !.refs = P, !.end = n]
<1>6. new \in Page /\ new.refs = P /\ new.end = n
  BY <1>4, <1>5, IdleValues DEF Page
<1> HIDE DEF new
<1>7. page' = [page EXCEPT ![d] = new]
  BY <1>2 DEF new
<1>8. TypeOK'
  BY <1>1, <1>3, <1>6, <1>7 DEF TypeOK, Steps
<1>9. page'[d] = new /\ pc'[d] = "rows"
  BY <1>1, <1>3, <1>7 DEF TypeOK
<1>10. PageOK("rows", new, rows)
  BY <1>4, <1>6 DEF PageOK
<1>11. CursorOK("rows", cursor[d], mark[d], new.end, answer[d].seq, vaultSeq)
  BY <1>1, <1>5, <1>6 DEF DeviceOK, CursorOK
<1> QED BY <1>1, <1>3, <1>8, <1>9, <1>10, <1>11 DEF DeviceOK, ReplyOK

LEMMA RowsKeeps ==
    ASSUME Inv, NEW d \in Devices, FetchRows(d)
    PROVE  TypeOK' /\ DeviceOK(d)'
<1>1. /\ TypeOK /\ DeviceOK(d) /\ pc[d] = "rows" /\ RowsSound(vaultSeq, rows, Past(clock))
      /\ rows \in Rows /\ page[d] \in Page
  BY DEF Inv, FetchRows, At, TypeOK
<1> DEFINE got == [r \in Records |-> IF r \in page[d].refs THEN rows[r] ELSE Absent]
           more == vaultSeq > page[d].end
<1>2. /\ page' = [page EXCEPT ![d].got = got, ![d].more = more]
      /\ pc' = [pc EXCEPT ![d] = "merge"]
      /\ UNCHANGED <<clock, edits, removals, vaultSeq, rows, local, cursor, form, mark, seen, answer>>
  BY DEF FetchRows, Goto, userVars, serverVars, storeVars
<1>3. got \in Rows /\ more \in BOOLEAN
  BY <1>1, IdleValues DEF Rows
<1>4. \A r \in page[d].refs : got[r] = rows[r] /\ r \in Records
  BY <1>1 DEF Page
<1> HIDE DEF got, more
<1>5. page'[d] = [refs |-> page[d].refs, got |-> got, end |-> page[d].end, more |-> more]
  BY <1>1, <1>2 DEF TypeOK, Page
<1>6. page'[d] \in Page /\ page'[d].refs = page[d].refs /\ page'[d].got = got
      /\ page'[d].end = page[d].end
  BY <1>1, <1>3, <1>5 DEF Page
<1>7. page' \in [Devices -> Page]
  BY <1>1, <1>2, <1>6 DEF TypeOK
<1>8. TypeOK'
  BY <1>1, <1>2, <1>7 DEF TypeOK, Steps
<1>9. pc'[d] = "merge"
  BY <1>1, <1>2 DEF TypeOK
<1>10. \A r \in page[d].refs : rows[r] # Absent /\ StateOf(rows[r], rows[r], BodyValues)
  <2> SUFFICES ASSUME NEW r \in page[d].refs
               PROVE  rows[r] # Absent /\ StateOf(rows[r], rows[r], BodyValues)
    OBVIOUS
  <2>1. r \in Records /\ rows[r] \in Row /\ rows[r] # Absent
    BY <1>1, <1>4 DEF DeviceOK, PageOK, Rows
  <2> QED BY <1>1, <2>1 DEF RowsSound, StateOf, Past, Row
<1>11. PageOK("merge", page'[d], rows)
  BY <1>4, <1>6, <1>10 DEF PageOK
<1>12. CursorOK("merge", cursor[d], mark[d], page[d].end, answer[d].seq, vaultSeq)
  BY <1>1 DEF DeviceOK, CursorOK
<1> QED BY <1>1, <1>2, <1>6, <1>8, <1>9, <1>11, <1>12 DEF DeviceOK, ReplyOK

LEMMA ReadKeeps ==
    ASSUME Inv, NEW d \in Devices, ReadLocal(d)
    PROVE  TypeOK' /\ DeviceOK(d)'
<1>1. TypeOK /\ DeviceOK(d) /\ pc[d] = "merge"
  BY DEF Inv, ReadLocal, At
<1>2. /\ seen' = [seen EXCEPT ![d] = local[d]] /\ pc' = [pc EXCEPT ![d] = "save"]
      /\ UNCHANGED <<clock, edits, removals, vaultSeq, rows, local, cursor, form, mark, page, answer>>
  BY DEF ReadLocal, Goto, userVars, serverVars, storeVars
<1>3. TypeOK'
  BY <1>1, <1>2 DEF TypeOK, Steps
<1>4. pc'[d] = "save" /\ seen'[d] = local[d]
  BY <1>1, <1>2 DEF TypeOK
<1>5. PageOK("save", page[d], rows)
  BY <1>1 DEF DeviceOK, PageOK
<1>6. CursorOK("save", cursor[d], mark[d], page[d].end, answer[d].seq, vaultSeq)
  BY <1>1 DEF DeviceOK, CursorOK
<1> QED BY <1>1, <1>2, <1>3, <1>4, <1>5, <1>6 DEF DeviceOK, ReplyOK

\* The device's records once some of a page are saved.
LEMMA AfterMergeOK ==
    ASSUME TypeOK, NEW d \in Devices, DeviceOK(d), pc[d] = "save", NEW S \in SUBSET Records
    PROVE  AfterMerge(d, S) \in Rows /\ StoreOK(AfterMerge(d, S), rows)
<1>1. ASSUME NEW r \in Records
      PROVE  AfterMerge(d, S)[r] \in Row /\ CopyOK(AfterMerge(d, S)[r], rows[r])
  <2>1. /\ seen[d][r] \in Row /\ local[d][r] \in Row /\ rows[r] \in Row
        /\ page[d].got[r] \in Row
    BY DeviceTypes DEF Rows, Page
  <2>2. CopyOK(seen[d][r], rows[r]) /\ CopyOK(local[d][r], rows[r])
    BY DEF DeviceOK, StoreOK
  <2>3. CASE r \in S \intersect page[d].refs
    <3>1. StateOf(page[d].got[r], rows[r], BodyValues)
      BY <2>3 DEF DeviceOK, PageOK
    <3>2. AfterMerge(d, S)[r] = Merged(seen[d][r], page[d].got[r])
      BY <2>3 DEF AfterMerge
    <3> QED BY <2>1, <2>2, <3>1, <3>2, MergedCopy
  <2>4. CASE r \notin S \intersect page[d].refs
    <3>1. AfterMerge(d, S)[r] = local[d][r]
      BY <2>4 DEF AfterMerge
    <3> QED BY <2>1, <2>2, <3>1
  <2> QED BY <2>3, <2>4
<1>2. AfterMerge(d, S) = [r \in Records |-> AfterMerge(d, S)[r]]
  BY DEF AfterMerge
<1> QED BY <1>1, <1>2 DEF Rows, StoreOK

LEMMA SaveKeeps ==
    ASSUME Inv, NEW d \in Devices, SaveMerged(d)
    PROVE  TypeOK' /\ DeviceOK(d)'
<1>1. TypeOK /\ DeviceOK(d) /\ pc[d] = "save"
  BY DEF Inv, SaveMerged, At
<1>2. PICK next \in {"refs", "list"} : pc' = [pc EXCEPT ![d] = next]
  BY DEF SaveMerged, Goto
<1>3. /\ local' = [local EXCEPT ![d] = AfterMerge(d, Records)]
      /\ mark' = [mark EXCEPT ![d] = page[d].end]
      /\ page' = [page EXCEPT ![d] = NoPage] /\ seen' = [seen EXCEPT ![d] = NoRows]
      /\ UNCHANGED <<clock, edits, removals, vaultSeq, rows, cursor, form, answer>>
  BY DEF SaveMerged, userVars, serverVars
<1>4. AfterMerge(d, Records) \in Rows /\ StoreOK(AfterMerge(d, Records), rows)
  BY <1>1, AfterMergeOK
<1>5. page[d].end \in Nat /\ cursor[d] \in Nat /\ mark[d] \in Nat /\ vaultSeq \in Nat
  BY <1>1, DeviceTypes
<1>6. TypeOK'
  BY <1>1, <1>2, <1>3, <1>4, <1>5, IdleValues DEF TypeOK, Steps
<1>7. /\ pc'[d] = next /\ local'[d] = AfterMerge(d, Records) /\ mark'[d] = page[d].end
      /\ page'[d] = NoPage /\ seen'[d] = NoRows
  BY <1>1, <1>2, <1>3 DEF TypeOK
<1>8. CursorOK(next, cursor[d], page[d].end, NoPage.end, answer[d].seq, vaultSeq)
  BY <1>1, <1>5 DEF DeviceOK, CursorOK
<1> QED BY <1>1, <1>3, <1>4, <1>6, <1>7, <1>8, NothingRead DEF DeviceOK, ReplyOK

LEMMA ListKeeps ==
    ASSUME Inv, NEW d \in Devices, ListUnsynced(d)
    PROVE  TypeOK' /\ DeviceOK(d)'
<1>1. TypeOK /\ DeviceOK(d) /\ pc[d] = "list"
  BY DEF Inv, ListUnsynced, At
<1>2. PICK next \in {"idle", "push"} : pc' = [pc EXCEPT ![d] = next]
  BY DEF ListUnsynced, Goto
<1>3. /\ cursor' = [cursor EXCEPT ![d] = mark[d]] /\ mark' = [mark EXCEPT ![d] = 0]
      /\ seen' = seen \/ seen' = [seen EXCEPT ![d] = local[d]]
      /\ UNCHANGED <<clock, edits, removals, vaultSeq, rows, local, form, page, answer>>
  BY DEF ListUnsynced, userVars, serverVars
<1>4. TypeOK'
  BY <1>1, <1>2, <1>3 DEF TypeOK, Steps
<1>5. /\ pc'[d] = next /\ cursor'[d] = mark[d] /\ mark'[d] = 0
      /\ seen'[d] = seen[d] \/ seen'[d] = local[d]
  BY <1>1, <1>2, <1>3 DEF TypeOK
<1>6. CursorOK(next, mark[d], 0, page[d].end, answer[d].seq, vaultSeq)
  BY <1>1 DEF DeviceOK, CursorOK
<1> QED BY <1>1, <1>3, <1>4, <1>5, <1>6 DEF DeviceOK, PageOK, ReplyOK

-----------------------------------------------------------------------------
(***************************************************************************)
(* The push and its answer.                                                *)
(***************************************************************************)

\* The server's stamp is no time to come.
LEMMA StampPast ==
    ASSUME clock \in 0 .. MaxTime
    PROVE  Stamp \in 0 .. MaxTime /\ Stamp <= clock
<1>1. Stamp \in Nat /\ Stamp <= clock
  BY DEF Stamp
<1> QED BY <1>1

\* What a device pushes of a record it has listed.
LEMMA InputOK ==
    ASSUME TypeOK, NEW r \in Records, NEW row \in Row, row # Absent, row.body \in BodyValues
    PROVE  InputOf(r, row) \in Input /\ InputOf(r, row).body \in Past(clock)
<1> DEFINE body == [row.body EXCEPT !.at = Stamp]
<1>1. Stamp \in 0 .. MaxTime /\ Stamp <= clock
  BY StampPast DEF TypeOK
<1>2. body \in BodyValues /\ body.at = Stamp
  BY <1>1 DEF BodyValues
<1> HIDE DEF body
<1>3. InputOf(r, row) = [id |-> r, expected |-> IF row.rev = 0 THEN NoRev ELSE row.rev,
                         deleted |-> row.deleted, body |-> body]
  BY DEF InputOf, body
<1> QED BY <1>1, <1>2, <1>3 DEF Input, Row, Past

\* The outcome of a push, and what it tells the device.
LEMMA PushOutcome ==
    ASSUME Inv, NEW d \in Devices, Push(d)
    PROVE  /\ vaultSeq' \in Nat /\ vaultSeq' >= vaultSeq /\ rows' \in Rows
           /\ Forward(rows, rows') /\ RowsSound(vaultSeq', rows', Past(clock))
           /\ \A r \in Records : rows'[r] # rows[r] =>
                r \in Unsynced(seen[d]) /\ Accepts(rows[r], InputOf(r, seen[d][r]))
           /\ \E a \in Answer :
                /\ answer' = [answer EXCEPT ![d] = a]
                /\ a.seq = vaultSeq'
                /\ AnswerSound(a.applied, a.conflicts, rows', Unsynced(seen[d]), BodyValues)
<1>1. /\ TypeOK /\ DeviceOK(d) /\ RowsSound(vaultSeq, rows, Past(clock))
      /\ vaultSeq \in Nat /\ rows \in Rows /\ seen[d] \in Rows
  BY DEF Inv, TypeOK
<1> DEFINE listed == Unsynced(seen[d])
<1>2. listed \subseteq Records /\ IsFiniteSet(listed)
  BY FS_Subset DEF Unsynced
<1>3. PICK order \in SetToSeqs(listed) :
        LET batch   == [i \in DOMAIN order |-> InputOf(order[i], seen[d][order[i]])]
            outcome == PushAll(vaultSeq, rows, batch)
        IN  /\ vaultSeq' = outcome.seq
            /\ rows' = outcome.rows
            /\ answer' = [answer EXCEPT ![d] = AnswerOf(outcome)]
  BY DEF Push
<1>4. PICK n \in Nat : order \in [1 .. n -> listed]
  <2>1. Cardinality(listed) \in Nat
    BY <1>2, FS_CardinalityType
  <2>2. order \in [1 .. Cardinality(listed) -> listed]
    BY DEF SetToSeqs
  <2> QED BY <2>1, <2>2
<1> DEFINE batch == [i \in 1 .. n |-> InputOf(order[i], seen[d][order[i]])]
           outcome == PushAll(vaultSeq, rows, batch)
<1>5. /\ vaultSeq' = outcome.seq /\ rows' = outcome.rows
      /\ answer' = [answer EXCEPT ![d] = AnswerOf(outcome)]
  BY <1>3, <1>4
<1>6. DOMAIN batch = 1 .. n /\ Len(batch) = n
  <2> HIDE DEF listed
  <2>1. batch \in Seq({batch[i] : i \in 1 .. n})
    OBVIOUS
  <2> QED BY <2>1
<1>7. ASSUME NEW i \in 1 .. n
      PROVE  /\ order[i] \in listed /\ batch[i] = InputOf(order[i], seen[d][order[i]])
             /\ batch[i].id = order[i]
             /\ batch[i] \in Input /\ batch[i].body \in Past(clock)
  <2>1. order[i] \in listed /\ order[i] \in Records /\ seen[d][order[i]] # Absent
    BY <1>2, <1>4 DEF Unsynced
  <2>2. seen[d][order[i]] \in Row /\ seen[d][order[i]].body \in BodyValues
    BY <1>1, <2>1 DEF Rows, DeviceOK, StoreOK, CopyOK
  <2>3. batch[i] = InputOf(order[i], seen[d][order[i]])
    OBVIOUS
  <2>4. batch[i].id = order[i]
    BY <2>3 DEF InputOf
  <2> HIDE DEF batch, listed
  <2> QED BY <1>1, <2>1, <2>2, <2>3, <2>4, InputOK
<1> HIDE DEF batch
<1>8. OnTheWay(outcome, vaultSeq, rows, batch, Past(clock))
  BY <1>1, <1>6, <1>7, PushAllSound
<1> HIDE DEF outcome, listed
<1>9. /\ outcome \in PushState /\ outcome.seq >= vaultSeq /\ Forward(rows, outcome.rows)
      /\ RowsSound(outcome.seq, outcome.rows, Past(clock))
      /\ AnswerSound(outcome.applied, outcome.conflicts, outcome.rows, Ids(batch), Past(clock))
  BY <1>8 DEF OnTheWay
<1>10. /\ outcome.seq \in Nat /\ outcome.rows \in Rows
       /\ outcome.applied \in Seq(Applied) /\ outcome.conflicts \in Seq(Conflict)
  BY <1>9 DEF PushState
<1>11. ASSUME NEW r \in Records, rows'[r] # rows[r]
       PROVE  r \in listed /\ Accepts(rows[r], InputOf(r, seen[d][r]))
  <2>1. PICK i \in 1 .. n : batch[i].id = r /\ Accepts(rows[r], batch[i])
    BY <1>5, <1>6, <1>8, <1>11 DEF OnTheWay
  <2> QED BY <1>7, <2>1
<1> DEFINE a == AnswerOf(outcome)
<1>12. /\ a.seq = outcome.seq /\ a.applied = outcome.applied
       /\ a.conflicts = outcome.conflicts /\ a \in Answer
  BY <1>10 DEF AnswerOf, Answer
<1> HIDE DEF a
<1>13. AnswerSound(a.applied, a.conflicts, outcome.rows, listed, BodyValues)
  <2>1. Ids(batch) \subseteq listed
    BY <1>6, <1>7 DEF Ids
  <2>2. AnswerSound(a.applied, a.conflicts, outcome.rows, Ids(batch), BodyValues)
    <3>1. Past(clock) \subseteq BodyValues /\ Forward(outcome.rows, outcome.rows)
      BY DEF Past, Forward
    <3> QED BY <1>9, <1>10, <1>12, <3>1, AnswerStays
  <2> QED BY <2>1, <2>2 DEF AnswerSound
<1>14. answer' = [answer EXCEPT ![d] = a]
  BY <1>5 DEF a
<1> QED BY <1>5, <1>9, <1>10, <1>11, <1>12, <1>13, <1>14 DEF listed

LEMMA PushKeeps ==
    ASSUME Inv, NEW d \in Devices, Push(d)
    PROVE  TypeOK' /\ DeviceOK(d)'
<1>1. TypeOK /\ DeviceOK(d) /\ pc[d] = "push"
  BY DEF Inv, Push, At
<1>2. /\ pc' = [pc EXCEPT ![d] = "saveAnswer"]
      /\ UNCHANGED <<clock, edits, removals, local, cursor, form, mark, page, seen>>
  BY DEF Push, Goto, userVars, storeVars
<1>3. /\ vaultSeq' \in Nat /\ vaultSeq' >= vaultSeq /\ rows' \in Rows
      /\ Forward(rows, rows')
  BY PushOutcome
<1>4. PICK a \in Answer :
        /\ answer' = [answer EXCEPT ![d] = a]
        /\ a.seq = vaultSeq'
        /\ AnswerSound(a.applied, a.conflicts, rows', Unsynced(seen[d]), BodyValues)
  BY PushOutcome
<1>5. TypeOK'
  BY <1>1, <1>2, <1>3, <1>4 DEF TypeOK, Steps
<1>6. pc'[d] = "saveAnswer" /\ answer'[d] = a
  BY <1>1, <1>2, <1>4 DEF TypeOK
<1>7. /\ local[d] \in Rows /\ seen[d] \in Rows /\ form[d] \in Form \union {NoForm}
      /\ rows \in Rows /\ cursor[d] \in Nat /\ vaultSeq \in Nat
  BY <1>1, DeviceTypes
<1>8. StoreOK(local[d], rows') /\ StoreOK(seen[d], rows') /\ FormOK(form[d], rows')
  BY <1>1, <1>3, <1>7, StoreStays, FormStays DEF DeviceOK
<1>9. CursorOK("saveAnswer", cursor[d], mark[d], page[d].end, a.seq, vaultSeq')
  BY <1>1, <1>3, <1>4, <1>7 DEF DeviceOK, CursorOK
<1> QED BY <1>2, <1>4, <1>5, <1>6, <1>8, <1>9 DEF DeviceOK, PageOK, ReplyOK

\* What a device saves of an answer.
LEMMA AnsweredOK ==
    ASSUME TypeOK, NEW d \in Devices, DeviceOK(d), pc[d] = "saveAnswer", NEW r \in Records
    PROVE  Answered(d, r) \in Row /\ CopyOK(Answered(d, r), rows[r])
<1> DEFINE applied == {a \in Range(answer[d].applied) : a.id = r}
           conflicts == {k \in Range(answer[d].conflicts) : k.id = r /\ k.current # Absent}
<1>1. /\ seen[d][r] \in Row /\ local[d][r] \in Row /\ rows[r] \in Row
      /\ CopyOK(seen[d][r], rows[r]) /\ CopyOK(local[d][r], rows[r])
      /\ answer[d].applied \in Seq(Applied) /\ answer[d].conflicts \in Seq(Conflict)
  BY DeviceTypes DEF Rows, DeviceOK, StoreOK, Answer
<1>2. AnswerSound(answer[d].applied, answer[d].conflicts, rows, Unsynced(seen[d]), BodyValues)
  BY DEF DeviceOK, ReplyOK
<1>3. ASSUME NEW a \in applied
      PROVE  a \in Applied /\ VersionOf(a, rows[r]) /\ seen[d][r] # Absent
  <2>1. PICK i \in DOMAIN answer[d].applied : a = answer[d].applied[i]
    BY DEF Range
  <2> QED BY <1>1, <1>2, <2>1 DEF AnswerSound, Unsynced
<1>4. ASSUME NEW k \in conflicts
      PROVE  /\ k.current \in Row /\ StateOf(k.current, rows[r], BodyValues)
             /\ seen[d][r] # Absent /\ seen[d][r].seq = 0
  <2>1. PICK i \in DOMAIN answer[d].conflicts : k = answer[d].conflicts[i]
    BY DEF Range
  <2>2. k \in Conflict /\ k.id = r
    BY <1>1, <2>1
  <2>3. k.current \in Row
    BY <2>2 DEF Conflict
  <2> QED BY <1>2, <2>1, <2>2, <2>3 DEF AnswerSound, Unsynced
<1>5. Answered(d, r) =
        CASE applied # {} ->
               LET a == CHOOSE a \in applied : TRUE
               IN  [seen[d][r] EXCEPT !.rev = a.rev, !.seq = a.seq]
          [] conflicts # {} ->
               LET k == CHOOSE k \in conflicts : TRUE
               IN  [MergeRow(seen[d][r], k.current) EXCEPT !.seq = 0]
          [] OTHER -> local[d][r]
  BY DEF Answered
<1> HIDE DEF applied, conflicts
<1>6. \/ Answered(d, r) = local[d][r]
      \/ \E a \in applied : Answered(d, r) = [seen[d][r] EXCEPT !.rev = a.rev, !.seq = a.seq]
      \/ \E k \in conflicts :
            Answered(d, r) = [MergeRow(seen[d][r], k.current) EXCEPT !.seq = 0]
  BY <1>5
<1>7. CASE Answered(d, r) = local[d][r]
  BY <1>1, <1>7
<1>8. ASSUME NEW a \in applied,
             Answered(d, r) = [seen[d][r] EXCEPT !.rev = a.rev, !.seq = a.seq]
      PROVE  Answered(d, r) \in Row /\ CopyOK(Answered(d, r), rows[r])
  <2>1. a \in Applied /\ VersionOf(a, rows[r]) /\ seen[d][r] # Absent
    BY <1>3
  <2>2. LET row == [seen[d][r] EXCEPT !.rev = a.rev, !.seq = a.seq]
        IN  row \in Row /\ CopyOK(row, rows[r])
    BY <1>1, <2>1, AppliedCopy
  <2> QED BY <1>8, <2>2
<1>9. ASSUME NEW k \in conflicts,
             Answered(d, r) = [MergeRow(seen[d][r], k.current) EXCEPT !.seq = 0]
      PROVE  Answered(d, r) \in Row /\ CopyOK(Answered(d, r), rows[r])
  <2>1. /\ k.current \in Row /\ StateOf(k.current, rows[r], BodyValues)
        /\ seen[d][r] # Absent /\ seen[d][r].seq = 0
    BY <1>4
  <2> QED BY <1>1, <1>9, <2>1, ConflictCopy
<1> QED BY <1>6, <1>7, <1>8, <1>9

LEMMA AfterAnswerOK ==
    ASSUME TypeOK, NEW d \in Devices, DeviceOK(d), pc[d] = "saveAnswer", NEW S \in SUBSET Records
    PROVE  AfterAnswer(d, S) \in Rows /\ StoreOK(AfterAnswer(d, S), rows)
<1>1. ASSUME NEW r \in Records
      PROVE  AfterAnswer(d, S)[r] \in Row /\ CopyOK(AfterAnswer(d, S)[r], rows[r])
  <2>1. local[d][r] \in Row /\ CopyOK(local[d][r], rows[r])
    BY DeviceTypes DEF Rows, DeviceOK, StoreOK
  <2>2. AfterAnswer(d, S)[r] = Answered(d, r) \/ AfterAnswer(d, S)[r] = local[d][r]
    BY DEF AfterAnswer
  <2> QED BY <2>1, <2>2, AnsweredOK
<1>2. AfterAnswer(d, S) = [r \in Records |-> AfterAnswer(d, S)[r]]
  BY DEF AfterAnswer
<1> QED BY <1>1, <1>2 DEF Rows, StoreOK

LEMMA AnswerKeeps ==
    ASSUME Inv, NEW d \in Devices, SaveAnswer(d)
    PROVE  TypeOK' /\ DeviceOK(d)'
<1>1. TypeOK /\ DeviceOK(d) /\ pc[d] = "saveAnswer"
  BY DEF Inv, SaveAnswer, At
<1>2. /\ local' = [local EXCEPT ![d] = AfterAnswer(d, Records)]
      /\ pc' = [pc EXCEPT ![d] = "storeNext"]
      /\ UNCHANGED <<clock, edits, removals, vaultSeq, rows, cursor, form, mark, page, seen, answer>>
  BY DEF SaveAnswer, Goto, userVars, serverVars, memVars
<1>3. AfterAnswer(d, Records) \in Rows /\ StoreOK(AfterAnswer(d, Records), rows)
  BY <1>1, AfterAnswerOK
<1>4. TypeOK'
  BY <1>1, <1>2, <1>3 DEF TypeOK, Steps
<1>5. pc'[d] = "storeNext" /\ local'[d] = AfterAnswer(d, Records)
  BY <1>1, <1>2 DEF TypeOK
<1>6. CursorOK("storeNext", cursor[d], mark[d], page[d].end, answer[d].seq, vaultSeq)
  BY <1>1 DEF DeviceOK, CursorOK
<1> QED BY <1>1, <1>2, <1>3, <1>4, <1>5, <1>6 DEF DeviceOK, PageOK, ReplyOK

LEMMA NextKeeps ==
    ASSUME Inv, NEW d \in Devices, StoreNext(d)
    PROVE  TypeOK' /\ DeviceOK(d)'
<1>1. TypeOK /\ DeviceOK(d) /\ pc[d] = "storeNext" /\ answer[d].seq \in Nat
  BY DeviceTypes DEF Inv, StoreNext, At
<1>2. /\ cursor' = [cursor EXCEPT ![d] = answer[d].seq]
      /\ seen' = [seen EXCEPT ![d] = NoRows] /\ answer' = [answer EXCEPT ![d] = NoAnswer]
      /\ pc' = [pc EXCEPT ![d] = "idle"]
      /\ UNCHANGED <<clock, edits, removals, vaultSeq, rows, local, form, mark, page>>
  BY DEF StoreNext, Goto, userVars, serverVars
<1>3. TypeOK'
  BY <1>1, <1>2, IdleValues DEF TypeOK, Steps
<1>4. /\ pc'[d] = "idle" /\ cursor'[d] = answer[d].seq /\ seen'[d] = NoRows
      /\ answer'[d] = NoAnswer
  BY <1>1, <1>2 DEF TypeOK
<1>5. CursorOK("idle", answer[d].seq, mark[d], page[d].end, NoAnswer.seq, vaultSeq)
  BY <1>1 DEF DeviceOK, CursorOK
<1> QED BY <1>1, <1>2, <1>3, <1>4, <1>5, NothingRead DEF DeviceOK, PageOK, ReplyOK

\* A sync that stops leaves what it has stored, and nothing else.
LEMMA StopKeeps ==
    ASSUME Inv, NEW d \in Devices, SyncStops(d)
    PROVE  TypeOK' /\ DeviceOK(d)'
<1>1. TypeOK /\ DeviceOK(d)
  BY DEF Inv
<1>2. /\ pc' = [pc EXCEPT ![d] = "idle"] /\ mark' = [mark EXCEPT ![d] = 0]
      /\ page' = [page EXCEPT ![d] = NoPage] /\ seen' = [seen EXCEPT ![d] = NoRows]
      /\ answer' = [answer EXCEPT ![d] = NoAnswer]
      /\ UNCHANGED <<clock, edits, removals, vaultSeq, rows, cursor, form>>
  BY DEF SyncStops, Goto, userVars, serverVars
<1>3. PICK store \in Rows :
        /\ \/ local' = local /\ store = local[d]
           \/ local' = [local EXCEPT ![d] = store]
        /\ StoreOK(store, rows)
  <2>1. CASE UNCHANGED local
    BY <1>1, <2>1, DeviceTypes DEF DeviceOK
  <2>2. ASSUME pc[d] = "save", NEW S \in SUBSET Records,
               local' = [local EXCEPT ![d] = AfterMerge(d, S)]
        PROVE  \E store \in Rows :
                 local' = [local EXCEPT ![d] = store] /\ StoreOK(store, rows)
    BY <1>1, <2>2, AfterMergeOK
  <2>3. ASSUME pc[d] = "saveAnswer", NEW S \in SUBSET Records,
               local' = [local EXCEPT ![d] = AfterAnswer(d, S)]
        PROVE  \E store \in Rows :
                 local' = [local EXCEPT ![d] = store] /\ StoreOK(store, rows)
    BY <1>1, <2>3, AfterAnswerOK
  <2> QED BY <2>1, <2>2, <2>3 DEF SyncStops, At
<1>4. TypeOK'
  BY <1>1, <1>2, <1>3, IdleValues DEF TypeOK, Steps
<1>5. /\ pc'[d] = "idle" /\ local'[d] = store /\ mark'[d] = 0 /\ page'[d] = NoPage
      /\ seen'[d] = NoRows /\ answer'[d] = NoAnswer
  BY <1>1, <1>2, <1>3 DEF TypeOK
<1>6. CursorOK("idle", cursor[d], 0, NoPage.end, NoAnswer.seq, vaultSeq)
  BY <1>1 DEF DeviceOK, CursorOK
<1> QED BY <1>1, <1>2, <1>3, <1>4, <1>5, <1>6, NothingRead DEF DeviceOK, ReplyOK

-----------------------------------------------------------------------------
(***************************************************************************)
(* Every step.                                                             *)
(***************************************************************************)
DeviceStep(d) == UserStep(d) \/ StartSync(d) \/ SyncStep(d) \/ SyncStops(d)

\* What a device's step does to itself.
LEMMA OwnStep ==
    ASSUME Inv, NEW d \in Devices, DeviceStep(d)
    PROVE  TypeOK' /\ DeviceOK(d)'
BY OpenFormKeeps, EditKeeps, RemoveKeeps, StartKeeps, RefsKeeps, RowsKeeps, ReadKeeps,
   SaveKeeps, ListKeeps, PushKeeps, AnswerKeeps, NextKeeps, StopKeeps
   DEF DeviceStep, UserStep, SyncStep

\* What it does to the others: nothing.
LEMMA OthersUntouched ==
    ASSUME TypeOK, NEW d \in Devices, DeviceStep(d), NEW e \in Devices, e # d
    PROVE  UNCHANGED <<local[e], seen[e], cursor[e], mark[e], form[e], pc[e], page[e], answer[e]>>
<1> USE DEF TypeOK, Goto, userVars, serverVars, storeVars, memVars
<1>1. CASE UserStep(d)
  BY <1>1 DEF UserStep, OpenForm, SaveForm, ConfirmDelete, RemoveLocally
<1>2. CASE StartSync(d) \/ SyncStops(d)
  BY <1>2 DEF StartSync, SyncStops
<1>3. CASE QueryRefs(d) \/ FetchRows(d) \/ ReadLocal(d) \/ SaveMerged(d)
  BY <1>3 DEF QueryRefs, FetchRows, ReadLocal, SaveMerged
<1>4. CASE ListUnsynced(d) \/ SaveAnswer(d) \/ StoreNext(d)
  BY <1>4 DEF ListUnsynced, SaveAnswer, StoreNext
<1>5. CASE Push(d)
  BY <1>5 DEF Push
<1> QED BY <1>1, <1>2, <1>3, <1>4, <1>5 DEF DeviceStep, SyncStep

\* Only a push changes the server, and time stands still while a device acts.
LEMMA ServerMoves ==
    ASSUME Inv, NEW d \in Devices, DeviceStep(d)
    PROVE  /\ clock' = clock
           /\ Push(d) \/ UNCHANGED <<vaultSeq, rows>>
           /\ Forward(rows, rows') /\ vaultSeq' >= vaultSeq
           /\ RowsSound(vaultSeq, rows, Past(clock))'
<1>1. clock' = clock /\ (Push(d) \/ UNCHANGED <<vaultSeq, rows>>)
  BY DEF DeviceStep, UserStep, SyncStep, OpenForm, SaveForm, ConfirmDelete, RemoveLocally,
         StartSync, SyncStops, QueryRefs, FetchRows, ReadLocal, SaveMerged, ListUnsynced, Push,
         SaveAnswer, StoreNext, userVars, serverVars
<1>2. CASE Push(d)
  BY <1>1, <1>2, PushOutcome
<1>3. CASE UNCHANGED <<vaultSeq, rows>>
  <2>1. vaultSeq \in Nat /\ RowsSound(vaultSeq, rows, Past(clock))
    BY DEF Inv, TypeOK
  <2> QED BY <1>1, <1>3, <2>1 DEF Forward
<1> QED BY <1>1, <1>2, <1>3

LEMMA InvNext ==
    ASSUME Inv, [Next]_vars
    PROVE  Inv'
<1>1. CASE UNCHANGED vars
  BY <1>1 DEF vars, userVars, serverVars, storeVars, memVars, Inv, TypeOK, DeviceOK
<1>2. CASE Tick
  BY <1>2, TickKeeps
<1>3. ASSUME NEW d \in Devices, DeviceStep(d)
      PROVE  Inv'
  <2>1. TypeOK' /\ DeviceOK(d)'
    BY <1>3, OwnStep
  <2>2. ASSUME NEW e \in Devices, e # d
        PROVE  DeviceOK(e)'
    <3>1. TypeOK /\ DeviceOK(e)
      BY DEF Inv
    <3>2. UNCHANGED <<local[e], seen[e], cursor[e], mark[e], form[e], pc[e], page[e], answer[e]>>
      BY <1>3, <2>2, <3>1, OthersUntouched
    <3> QED BY <1>3, <2>1, <3>1, <3>2, ServerMoves, DeviceStays
  <2> QED BY <1>3, <2>1, <2>2, ServerMoves DEF Inv
<1> QED BY <1>1, <1>2, <1>3 DEF Next, DeviceStep

LEMMA InvInit == Init => Inv
<1> SUFFICES ASSUME Init
             PROVE  Inv
  OBVIOUS
<1>1. TypeOK
  BY IdleValues DEF Init, TypeOK, Steps
<1>2. \A r \in Records : rows[r] = Absent
  BY DEF Init, NoRows
<1>3. RowsSound(vaultSeq, rows, Past(clock))
  <2>1. Absent.seq = 0 /\ vaultSeq = 0
    BY DEF Absent, Init
  <2> QED BY <1>2, <2>1 DEF RowsSound
<1>4. ASSUME NEW d \in Devices
      PROVE  DeviceOK(d)
  <2>1. /\ local[d] = NoRows /\ seen[d] = NoRows /\ form[d] = NoForm /\ pc[d] = "idle"
        /\ cursor[d] = 0 /\ vaultSeq = 0
    BY DEF Init
  <2> QED BY <1>1, <2>1, NothingRead DEF DeviceOK, FormOK, PageOK, ReplyOK, CursorOK
<1> QED BY <1>1, <1>3, <1>4 DEF Inv

LEMMA InvAlways == Spec => []Inv
BY InvInit, InvNext, PTL DEF Spec

-----------------------------------------------------------------------------
(***************************************************************************)
(* The theorems.                                                           *)
(***************************************************************************)

\* Every reachable state of the devices and their server is well typed: in particular
\* no device ever stores a rev that is not a number, or a record without its content.
THEOREM TypeCorrect == Spec => []TypeOK
<1>1. Inv => TypeOK
  BY DEF Inv
<1> QED BY <1>1, InvAlways, PTL

\* No merge, conflict, lost answer or stale form leaves a device with a rev or a seq the
\* server has not given that record.
THEOREM VersionsAlwaysComeFromServer == Spec => []VersionsComeFromServer
<1>1. Inv => VersionsComeFromServer
  BY DEF Inv, DeviceOK, StoreOK, CopyOK, VersionsComeFromServer
<1> QED BY <1>1, InvAlways, PTL

\* A push that replaces a record replaces it with content whose updated_at is at least
\* that of the record.
THEOREM NewestWriteAlwaysWins == Spec => NewestWriteWins
<1> DEFINE A == \A r \in Records : rows'[r] # rows[r] =>
                  \E d \in Devices :
                    /\ At(d, "push")
                    /\ rows[r] # Absent => seen[d][r].body.at >= rows[r].body.at
<1>1. Inv /\ [Next]_vars => [A]_rows
  <2> SUFFICES ASSUME Inv, [Next]_vars, rows' # rows
               PROVE  A
    OBVIOUS
  <2>1. PICK d \in Devices : DeviceStep(d)
    BY DEF Next, DeviceStep, Tick, vars, serverVars
  <2>2. Push(d)
    BY <2>1, ServerMoves
  <2>3. At(d, "push") /\ DeviceOK(d) /\ seen[d] \in Rows /\ rows \in Rows
    BY <2>2, DeviceTypes DEF Push, Inv
  <2>4. ASSUME NEW r \in Records, rows'[r] # rows[r], rows[r] # Absent
        PROVE  seen[d][r].body.at >= rows[r].body.at
    <3>1. r \in Unsynced(seen[d]) /\ Accepts(rows[r], InputOf(r, seen[d][r]))
      BY <2>2, <2>4, PushOutcome
    <3>2. seen[d][r].rev = rows[r].rev /\ seen[d][r].rev # 0
      BY <2>3, <2>4, <3>1 DEF Accepts, InputOf, Rows, Row
    <3>3. seen[d][r] # Absent /\ seen[d][r].seq = 0 /\ CopyOK(seen[d][r], rows[r])
      BY <2>3, <3>1 DEF Unsynced, DeviceOK, StoreOK
    <3> QED BY <3>2, <3>3 DEF CopyOK
  <2> QED BY <2>3, <2>4
<1> QED BY <1>1, InvAlways, PTL DEF Spec, NewestWriteWins

\* The stored cursor of a device never moves back, whether the pull loop or a push has
\* stored it, and wherever a sync stopped before.
THEOREM CursorAlwaysAdvances == Spec => CursorOnlyAdvances
<1> DEFINE A == \A d \in Devices : cursor'[d] >= cursor[d]
<1>1. Inv /\ [Next]_vars => [A]_cursor
  <2> SUFFICES ASSUME Inv, [Next]_vars, cursor' # cursor, NEW e \in Devices
               PROVE  cursor'[e] >= cursor[e]
    OBVIOUS
  <2>1. PICK d \in Devices : DeviceStep(d)
    BY DEF Next, DeviceStep, Tick, vars, storeVars
  <2>2. ListUnsynced(d) \/ StoreNext(d)
    BY <2>1 DEF DeviceStep, UserStep, SyncStep, OpenForm, SaveForm, ConfirmDelete, RemoveLocally,
         StartSync, SyncStops, QueryRefs, FetchRows, ReadLocal, SaveMerged, Push, SaveAnswer,
         storeVars
  <2>3. TypeOK /\ DeviceOK(d) /\ cursor \in [Devices -> Nat] /\ mark[d] \in Nat
        /\ answer[d].seq \in Nat
    BY DeviceTypes DEF Inv, TypeOK
  <2>4. CASE ListUnsynced(d)
    BY <2>3, <2>4 DEF ListUnsynced, At, DeviceOK, CursorOK
  <2>5. CASE StoreNext(d)
    BY <2>3, <2>5 DEF StoreNext, At, DeviceOK, CursorOK
  <2> QED BY <2>2, <2>4, <2>5
<1> QED BY <1>1, InvAlways, PTL DEF Spec, CursorOnlyAdvances
=============================================================================
