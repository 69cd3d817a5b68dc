-------------------------- MODULE PushBatchProofs --------------------------
(***************************************************************************)
(* Facts about a whole push request, PushRecords' loops taken together.    *)
(* They go by induction on how many inputs have been looked at; induction  *)
(* is applied to a set of numbers, so that it needs no operator argument.  *)
(***************************************************************************)
EXTENDS PushBatch, TLAPS, WellFoundedInduction

\* A set that holds 0 and the successor of each of its numbers holds every number.
LEMMA NatSetInduction ==
    ASSUME NEW U, 0 \in U, \A n \in Nat : n \in U => n + 1 \in U
    PROVE  Nat \subseteq U
<1> SUFFICES ASSUME Nat \ U # {}
             PROVE  FALSE
  OBVIOUS
<1>1. PICK n \in Nat \ U : \A m \in Nat \ U : ~ (<<m, n>> \in OpToRel(<, Nat))
  BY NatLessThanWellFounded, WFMin, Nat \ U \subseteq Nat
<1>2. n # 0 /\ n - 1 \in Nat
  OBVIOUS
<1>3. <<n - 1, n>> \in OpToRel(<, Nat)
  BY <1>2 DEF OpToRel
<1>4. n - 1 \in U
  BY <1>1, <1>2, <1>3
<1>5. (n - 1) + 1 = n
  OBVIOUS
<1> QED BY <1>1, <1>2, <1>4, <1>5

\* The states of a transaction as it looks at the first n inputs of a batch.
IsRun(after, n, seq, store, batch) ==
    after = [i \in 0 .. n |-> IF i = 0 THEN BeginPush(seq, store)
                                       ELSE PushOne(after[i - 1], batch[i])]

\* The loops of PushRecords get through every batch: there is such a run.
LEMMA RunExists ==
    ASSUME NEW seq, NEW store, NEW batch, NEW n \in Nat
    PROVE  \E after : IsRun(after, n, seq, store, batch)
<1> DEFINE U == {k \in Nat : \E after : IsRun(after, k, seq, store, batch)}
<1>1. 0 \in U
  <2>1. IsRun([i \in 0 .. 0 |-> BeginPush(seq, store)], 0, seq, store, batch)
    BY DEF IsRun
  <2> QED BY <2>1
<1>2. ASSUME NEW k \in Nat, k \in U
      PROVE  k + 1 \in U
  <2>1. PICK f : IsRun(f, k, seq, store, batch)
    BY <1>2
  <2> DEFINE g == [i \in 0 .. k + 1 |-> IF i = 0 THEN BeginPush(seq, store)
                                                 ELSE PushOne(f[i - 1], batch[i])]
  <2>2. \A i \in 0 .. k : g[i] = f[i]
    BY <2>1 DEF IsRun
  <2>3. \A i \in 1 .. k + 1 : f[i - 1] = g[i - 1]
    BY <2>2
  <2>4. g = [i \in 0 .. k + 1 |-> IF i = 0 THEN BeginPush(seq, store)
                                           ELSE PushOne(g[i - 1], batch[i])]
    <3> DEFINE h == [i \in 0 .. k + 1 |-> IF i = 0 THEN BeginPush(seq, store)
                                                   ELSE PushOne(g[i - 1], batch[i])]
    <3>1. ASSUME NEW i \in 0 .. k + 1
          PROVE  g[i] = h[i]
      <4>1. g[i] = IF i = 0 THEN BeginPush(seq, store) ELSE PushOne(f[i - 1], batch[i])
        OBVIOUS
      <4>2. h[i] = IF i = 0 THEN BeginPush(seq, store) ELSE PushOne(g[i - 1], batch[i])
        OBVIOUS
      <4> HIDE DEF g, h
      <4>3. i # 0 => f[i - 1] = g[i - 1]
        BY <2>3
      <4> QED BY <4>1, <4>2, <4>3
    <3> QED BY <3>1
  <2>5. IsRun(g, k + 1, seq, store, batch)
    <3> HIDE DEF g
    <3> QED BY <2>4 DEF IsRun
  <2> QED BY <2>5
<1>3. Nat \subseteq U
  <2> HIDE DEF U
  <2> QED BY <1>1, <1>2, NatSetInduction
<1> QED BY <1>3

\* What PushRecords' loops do, input by input.
LEMMA PushedSteps ==
    ASSUME NEW seq, NEW store, NEW batch, Len(batch) \in Nat
    PROVE  /\ Pushed(seq, store, batch)[0] = BeginPush(seq, store)
           /\ \A i \in 1 .. Len(batch) :
                Pushed(seq, store, batch)[i] = PushOne(Pushed(seq, store, batch)[i - 1], batch[i])
<1>1. \E after : IsRun(after, Len(batch), seq, store, batch)
  BY RunExists
<1>2. IsRun(Pushed(seq, store, batch), Len(batch), seq, store, batch)
  BY <1>1 DEF IsRun, Pushed
<1> QED BY <1>2 DEF IsRun

\* Whatever holds when the transaction begins, and is kept by each input of the
\* batch, holds after every input of it.
LEMMA PushedKeeps ==
    ASSUME NEW seq, NEW store, NEW batch, Len(batch) \in Nat,
           NEW U, BeginPush(seq, store) \in U,
           \A st \in U, i \in 1 .. Len(batch) : PushOne(st, batch[i]) \in U
    PROVE  \A i \in 0 .. Len(batch) : Pushed(seq, store, batch)[i] \in U
<1> DEFINE after == Pushed(seq, store, batch)
           V == {n \in Nat : n <= Len(batch) => after[n] \in U}
<1>1. 0 \in V
  BY PushedSteps
<1>2. ASSUME NEW n \in Nat, n \in V
      PROVE  n + 1 \in V
  <2> SUFFICES ASSUME n + 1 <= Len(batch)
               PROVE  after[n + 1] \in U
    OBVIOUS
  <2>1. n + 1 \in 1 .. Len(batch) /\ (n + 1) - 1 = n /\ after[n] \in U
    BY <1>2
  <2>2. after[n + 1] = PushOne(after[n], batch[n + 1])
    BY <2>1, PushedSteps
  <2> QED BY <2>1, <2>2
<1>3. Nat \subseteq V
  <2> HIDE DEF V
  <2> QED BY <1>1, <1>2, NatSetInduction
<1> QED BY <1>3

-----------------------------------------------------------------------------
(***************************************************************************)
(* What a push makes of a sound vault: its rows move forward, only inputs  *)
(* that name the current rev replace them, and its answer tells revs and   *)
(* seqs the server has given.                                              *)
(***************************************************************************)

\* Rows as the server keeps them, with bodies of B.
RowsSound(seq, store, B) ==
    \A r \in Records :
        /\ store[r].seq <= seq
        /\ store[r] # Absent => store[r].rev # 0 /\ store[r].seq # 0 /\ store[r].body \in B

\* From store to next, rows only move forward.
Forward(store, next) ==
    \A r \in Records : next[r] # store[r] =>
        next[r].rev > store[r].rev /\ next[r].seq >= store[r].seq

\* row is a state of a record that is now cur, as the server had it.
StateOf(row, cur, B) ==
    /\ row.rev # 0 /\ row.seq # 0 /\ row.body \in B
    /\ row.rev <= cur.rev /\ row.seq <= cur.seq
    /\ row.rev = cur.rev => row = cur

\* a tells a version the server has given a record that is now cur.
VersionOf(a, cur) ==
    /\ a.seq # 0
    /\ a.rev <= cur.rev /\ a.seq <= cur.seq
    /\ a.rev = cur.rev => a.seq = cur.seq

\* An answer about records of ids, on a vault with the rows of store.
AnswerSound(applied, conflicts, store, ids, B) ==
    /\ \A i \in DOMAIN applied :
         applied[i].id \in ids /\ VersionOf(applied[i], store[applied[i].id])
    /\ \A i \in DOMAIN conflicts :
         /\ conflicts[i].id \in ids
         /\ conflicts[i].current # Absent =>
              StateOf(conflicts[i].current, store[conflicts[i].id], B)

Ids(batch) == {batch[i].id : i \in DOMAIN batch}

\* A state of the transaction on the way through a batch.
OnTheWay(st, seq, store, batch, B) ==
    /\ st \in PushState
    /\ st.seq >= seq
    /\ RowsSound(st.seq, st.rows, B)
    /\ Forward(store, st.rows)
    /\ \A r \in Records : st.rows[r] # store[r] =>
         \E i \in DOMAIN batch : batch[i].id = r /\ Accepts(store[r], batch[i])
    /\ AnswerSound(st.applied, st.conflicts, st.rows, Ids(batch), B)

\* What was told of a record stays true of it when its row moves forward.
LEMMA RowMoves ==
    ASSUME NEW cur \in Row, NEW next \in Row,
           next # cur => next.rev > cur.rev /\ next.seq >= cur.seq
    PROVE  /\ \A a : /\ a.rev \in Nat /\ a.seq \in Nat
                     /\ VersionOf(a, cur)
                     => VersionOf(a, next)
           /\ \A row, B, C : /\ row.rev \in Nat /\ row.seq \in Nat /\ B \subseteq C
                             /\ StateOf(row, cur, B)
                             => StateOf(row, next, C)
<1>1. cur.rev \in Nat /\ cur.seq \in Nat /\ next.rev \in Nat /\ next.seq \in Nat
  BY DEF Row
<1>2. CASE next = cur
  BY <1>2 DEF VersionOf, StateOf
<1>3. CASE next # cur
  BY <1>1, <1>3 DEF VersionOf, StateOf
<1> QED BY <1>2, <1>3

\* Rows that move forward leave an answer sound.
LEMMA AnswerStays ==
    ASSUME NEW applied \in Seq(Applied), NEW conflicts \in Seq(Conflict), NEW ids,
           NEW store \in Rows, NEW next \in Rows, Forward(store, next),
           NEW B, NEW C, B \subseteq C,
           AnswerSound(applied, conflicts, store, ids, B)
    PROVE  AnswerSound(applied, conflicts, next, ids, C)
<1>1. \A r \in Records : /\ store[r] \in Row /\ next[r] \in Row
                         /\ next[r] # store[r] =>
                              next[r].rev > store[r].rev /\ next[r].seq >= store[r].seq
  BY DEF Rows, Forward
<1>2. ASSUME NEW i \in DOMAIN applied
      PROVE  applied[i].id \in ids /\ VersionOf(applied[i], next[applied[i].id])
  <2>1. applied[i].id \in Records /\ applied[i].rev \in Nat /\ applied[i].seq \in Nat
    <3>1. applied[i] \in Applied
      OBVIOUS
    <3> QED BY <3>1 DEF Applied
  <2>2. applied[i].id \in ids /\ VersionOf(applied[i], store[applied[i].id])
    BY DEF AnswerSound
  <2> QED BY <1>1, <2>1, <2>2, RowMoves
<1>3. ASSUME NEW i \in DOMAIN conflicts
      PROVE  /\ conflicts[i].id \in ids
             /\ conflicts[i].current # Absent =>
                  StateOf(conflicts[i].current, next[conflicts[i].id], C)
  <2>1. /\ conflicts[i].id \in Records
        /\ conflicts[i].current.rev \in Nat /\ conflicts[i].current.seq \in Nat
    <3>1. conflicts[i] \in Conflict
      OBVIOUS
    <3> QED BY <3>1 DEF Conflict, Row
  <2>2. /\ conflicts[i].id \in ids
        /\ conflicts[i].current # Absent =>
             StateOf(conflicts[i].current, store[conflicts[i].id], B)
    BY DEF AnswerSound
  <2>3. conflicts[i].current # Absent =>
          StateOf(conflicts[i].current, next[conflicts[i].id], C)
    BY <1>1, <2>1, <2>2, RowMoves
  <2> QED BY <2>2, <2>3
<1> QED BY <1>2, <1>3 DEF AnswerSound

\* An input that is applied leads on.
LEMMA ApplyLeadsOn ==
    ASSUME NEW seq \in Nat, NEW store \in Rows, NEW batch, NEW B, NEW st,
           OnTheWay(st, seq, store, batch, B), RowsSound(seq, store, B),
           NEW j \in DOMAIN batch, batch[j] \in Input, batch[j].body \in B,
           Accepts(st.rows[batch[j].id], batch[j])
    PROVE  OnTheWay(ApplyInput(st, batch[j]), seq, store, batch, B)
<1> DEFINE input == batch[j]
           r == input.id
           row == Written(st.rows[r], input, st.seq + 1)
           note == [id |-> r, rev |-> row.rev, seq |-> row.seq]
           next == ApplyInput(st, input)
<1>1. /\ st.seq \in Nat /\ st.rows \in Rows /\ st.applied \in Seq(Applied)
      /\ st.conflicts \in Seq(Conflict) /\ r \in Records /\ st.rows[r] \in Row
      /\ st.seq >= seq
  BY DEF OnTheWay, PushState, Input, Rows
<1>2. /\ row.rev = st.rows[r].rev + 1 /\ row.seq = st.seq + 1 /\ row.body \in B
      /\ row \in Row
  BY <1>1 DEF Written, Row, Input
<1>3. /\ next.seq = st.seq + 1 /\ next.rows = [st.rows EXCEPT ![r] = row]
      /\ next.applied = Append(st.applied, note) /\ next.conflicts = st.conflicts
      /\ next = [seq |-> st.seq + 1, rows |-> [st.rows EXCEPT ![r] = row],
                 applied |-> Append(st.applied, note), conflicts |-> st.conflicts]
  BY DEF ApplyInput
<1>4. note \in Applied /\ note.id = r /\ note.rev = row.rev /\ note.seq = row.seq
  BY <1>1, <1>2 DEF Applied, Row
<1> HIDE DEF row, note, next
<1>5. next.rows \in Rows /\ next.rows[r] = row
      /\ \A q \in Records : q # r => next.rows[q] = st.rows[q]
  BY <1>1, <1>2, <1>3 DEF Rows
<1>6. next \in PushState
  BY <1>1, <1>3, <1>4, <1>5 DEF PushState
<1>7. RowsSound(st.seq, st.rows, B) /\ Forward(store, st.rows)
  BY DEF OnTheWay
<1>8. \A q \in Records : /\ st.rows[q].rev \in Nat /\ st.rows[q].seq \in Nat
                         /\ store[q].rev \in Nat /\ store[q].seq \in Nat
  BY <1>1 DEF Rows, Row
<1>9. RowsSound(next.seq, next.rows, B)
  BY <1>1, <1>2, <1>3, <1>5, <1>7, <1>8 DEF RowsSound
<1>10. Forward(st.rows, next.rows)
  BY <1>1, <1>2, <1>5, <1>7, <1>8 DEF RowsSound, Forward
<1>11. Forward(store, next.rows)
  <2> SUFFICES ASSUME NEW q \in Records, next.rows[q] # store[q]
               PROVE  next.rows[q].rev > store[q].rev /\ next.rows[q].seq >= store[q].seq
    BY DEF Forward
  <2>1. next.rows[q].rev \in Nat /\ next.rows[q].seq \in Nat
    BY <1>5 DEF Rows, Row
  <2>2. \/ st.rows[q] = store[q]
        \/ st.rows[q].rev > store[q].rev /\ st.rows[q].seq >= store[q].seq
    BY <1>7 DEF Forward
  <2>3. \/ next.rows[q] = st.rows[q]
        \/ next.rows[q].rev > st.rows[q].rev /\ next.rows[q].seq >= st.rows[q].seq
    BY <1>10 DEF Forward
  <2> QED BY <1>8, <2>1, <2>2, <2>3
<1>12. ASSUME NEW q \in Records, next.rows[q] # store[q]
       PROVE  \E i \in DOMAIN batch : batch[i].id = q /\ Accepts(store[q], batch[i])
  <2>1. CASE st.rows[q] # store[q]
    BY <2>1 DEF OnTheWay
  <2>2. CASE st.rows[q] = store[q]
    <3>1. q = r
      BY <1>5, <1>12, <2>2
    <3> QED BY <2>2, <3>1
  <2> QED BY <2>1, <2>2
<1>13. AnswerSound(st.applied, st.conflicts, next.rows, Ids(batch), B)
  BY <1>1, <1>5, <1>10, AnswerStays DEF OnTheWay
<1>14. r \in Ids(batch) /\ VersionOf(note, next.rows[r])
  BY <1>1, <1>2, <1>4, <1>5 DEF Ids, VersionOf, Row
<1>15. \A i \in DOMAIN next.applied :
          next.applied[i] = note \/ (i \in DOMAIN st.applied /\ next.applied[i] = st.applied[i])
  BY <1>1, <1>3
<1>16. AnswerSound(next.applied, next.conflicts, next.rows, Ids(batch), B)
  BY <1>3, <1>4, <1>13, <1>14, <1>15 DEF AnswerSound
<1>17. next.seq >= seq
  BY <1>1, <1>3
<1>18. OnTheWay(next, seq, store, batch, B)
  BY <1>6, <1>9, <1>11, <1>12, <1>16, <1>17 DEF OnTheWay
<1> QED BY <1>18 DEF next

\* An input that is rejected leads on.
LEMMA RejectLeadsOn ==
    ASSUME NEW seq \in Nat, NEW store \in Rows, NEW batch, NEW B, NEW st,
           OnTheWay(st, seq, store, batch, B), NEW j \in DOMAIN batch, batch[j] \in Input
    PROVE  OnTheWay(RejectInput(st, batch[j]), seq, store, batch, B)
<1> DEFINE r == batch[j].id
           note == [id |-> r, current |-> st.rows[r]]
           next == RejectInput(st, batch[j])
<1>1. /\ st.seq \in Nat /\ st.rows \in Rows /\ st.applied \in Seq(Applied)
      /\ st.conflicts \in Seq(Conflict) /\ r \in Records /\ st.rows[r] \in Row
  BY DEF OnTheWay, PushState, Input, Rows
<1>2. /\ next.seq = st.seq /\ next.rows = st.rows /\ next.applied = st.applied
      /\ next.conflicts = Append(st.conflicts, note)
      /\ next = [seq |-> st.seq, rows |-> st.rows, applied |-> st.applied,
                 conflicts |-> Append(st.conflicts, note)]
  BY DEF RejectInput
<1>3. note \in Conflict /\ note.id = r /\ note.current = st.rows[r]
  BY <1>1 DEF Conflict
<1> HIDE DEF note, next
<1>4. next \in PushState
  BY <1>1, <1>2, <1>3 DEF PushState
<1>5. r \in Ids(batch)
  BY DEF Ids
<1>6. note.current # Absent => StateOf(note.current, st.rows[r], B)
  BY <1>1, <1>3 DEF StateOf, RowsSound, OnTheWay, Row
<1>7. \A i \in DOMAIN next.conflicts :
          \/ next.conflicts[i] = note
          \/ i \in DOMAIN st.conflicts /\ next.conflicts[i] = st.conflicts[i]
  BY <1>1, <1>2
<1>8. AnswerSound(st.applied, st.conflicts, st.rows, Ids(batch), B)
  BY DEF OnTheWay
<1>9. AnswerSound(next.applied, next.conflicts, next.rows, Ids(batch), B)
  BY <1>2, <1>3, <1>5, <1>6, <1>7, <1>8 DEF AnswerSound
<1>10. OnTheWay(next, seq, store, batch, B)
  BY <1>2, <1>4, <1>9 DEF OnTheWay
<1> QED BY <1>10 DEF next

\* A whole push.
LEMMA PushAllSound ==
    ASSUME NEW seq \in Nat, NEW store \in Rows, NEW batch, NEW B, Len(batch) \in Nat,
           DOMAIN batch = 1 .. Len(batch), RowsSound(seq, store, B),
           \A j \in DOMAIN batch : batch[j] \in Input /\ batch[j].body \in B
    PROVE  OnTheWay(PushAll(seq, store, batch), seq, store, batch, B)
<1> DEFINE U == {st \in PushState : OnTheWay(st, seq, store, batch, B)}
<1>1. BeginPush(seq, store) \in U
  <2> DEFINE st == BeginPush(seq, store)
  <2>1. /\ st.seq = seq /\ st.rows = store /\ st.applied = << >> /\ st.conflicts = << >>
        /\ st \in PushState
    BY DEF BeginPush, PushState
  <2> HIDE DEF st
  <2>2. OnTheWay(st, seq, store, batch, B)
    BY <2>1 DEF OnTheWay, Forward, AnswerSound
  <2> QED BY <2>1, <2>2 DEF st
<1>2. ASSUME NEW st \in U, NEW i \in 1 .. Len(batch)
      PROVE  PushOne(st, batch[i]) \in U
  <2>1. OnTheWay(st, seq, store, batch, B) /\ i \in DOMAIN batch
    OBVIOUS
  <2>2. OnTheWay(PushOne(st, batch[i]), seq, store, batch, B)
    BY <2>1, ApplyLeadsOn, RejectLeadsOn DEF PushOne
  <2> QED BY <2>2 DEF OnTheWay
<1>3. Pushed(seq, store, batch)[Len(batch)] \in U
  <2> HIDE DEF U
  <2> QED BY <1>1, <1>2, PushedKeeps
<1> QED BY <1>3 DEF PushAll
=============================================================================
