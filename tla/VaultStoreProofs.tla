-------------------------- MODULE VaultStoreProofs --------------------------
(***************************************************************************)
(* Proofs about the record store: type correctness, the meaning of seq,    *)
(* that commits only move records forward, that no cursor passes a write   *)
(* its device does not have, that what a push answers is committed, and    *)
(* that a push happens at one moment.                                      *)
(***************************************************************************)
EXTENDS VaultStore, PushBatchProofs

USE CallersAssumption, BoundsAssumption, NoRevAssumption DEF Callers

-----------------------------------------------------------------------------
(***************************************************************************)
(* Lemmas about the operators of VaultRecords.                             *)
(***************************************************************************)

\* The constants of the types have their types: the absent row, the empty store,
\* the idle transaction, the empty answer and the empty page.
LEMMA IdleValues ==
    /\ Absent \in Row
    /\ NoRows \in Rows
    /\ NoPush \in PushState
    /\ NoAnswer \in Answer
    /\ NoPage \in Page
<1>1. Absent \in Row
  BY DEF Absent, Row
<1>2. NoRows \in Rows
  BY <1>1 DEF NoRows, Rows
<1>3. NoPush \in PushState
  BY <1>2 DEF NoPush, BeginPush, PushState
<1>4. NoAnswer \in Answer
  BY DEF NoAnswer, AnswerOf, NoPush, BeginPush, Answer
<1>5. NoPage \in Page
  BY <1>2 DEF NoPage, Page
<1> QED BY <1>1, <1>2, <1>3, <1>4, <1>5

\* Applying or rejecting an input, PushRecords' loop body, keeps the working
\* state of the transaction well typed.
LEMMA PushStateType ==
    ASSUME NEW st \in PushState, NEW input \in Input
    PROVE  /\ ApplyInput(st, input) \in PushState
           /\ RejectInput(st, input) \in PushState
           /\ AnswerOf(st) \in Answer
<1> DEFINE row == Written(st.rows[input.id], input, st.seq + 1)
<1>1. /\ st.seq \in Nat /\ st.rows \in Rows
      /\ st.applied \in Seq(Applied) /\ st.conflicts \in Seq(Conflict)
      /\ st.rows[input.id] \in Row
  BY DEF PushState, Rows, Input
<1>2. row \in Row
  BY <1>1 DEF Written, Row, Input
<1>3. [id |-> input.id, rev |-> row.rev, seq |-> row.seq] \in Applied
  BY <1>2 DEF Row, Applied, Input
<1>4. [id |-> input.id, current |-> st.rows[input.id]] \in Conflict
  BY <1>1 DEF Conflict, Input
<1>5. [st.rows EXCEPT ![input.id] = row] \in Rows
  BY <1>1, <1>2 DEF Rows
<1>6. ApplyInput(st, input) \in PushState
  BY <1>1, <1>3, <1>5 DEF ApplyInput, PushState
<1>7. RejectInput(st, input) \in PushState
  BY <1>1, <1>4 DEF RejectInput, PushState
<1>8. AnswerOf(st) \in Answer
  BY <1>1 DEF AnswerOf, Answer
<1> QED BY <1>6, <1>7, <1>8

\* Every push request the writers send is a sequence of inputs.
LEMMA RequestsAreInputs ==
    ASSUME NEW b \in Requests
    PROVE  b \in Seq(Input)
<1>1. PICK n \in 1 .. MaxBatch : b \in [1 .. n -> Inputs]
  BY DEF Requests
<1>2. b \in Seq(Inputs)
  BY <1>1
<1>3. Inputs \subseteq Input
  BY DEF Inputs, Input
<1> QED BY <1>2, <1>3

\* Merging a page into the replica of its reader stays within the row type.
LEMMA MergedType ==
    ASSUME TypeOK, NEW c \in Readers, NEW S \in SUBSET Records
    PROVE  Merged(c, S) \in Rows
<1>1. page[c] \in Page /\ replica[c] \in Rows
  BY DEF TypeOK
<1> QED BY <1>1 DEF Merged, Rows, Page

-----------------------------------------------------------------------------
(***************************************************************************)
(* Type correctness.                                                       *)
(***************************************************************************)

\* A step of a reader or of GetOrCreateVault keeps the types.
LEMMA ReaderType ==
    ASSUME TypeOK, NEW c \in Callers, EnsureVault(c) \/ (c \in Readers /\ ReaderNext(c))
    PROVE  TypeOK'
<1> USE DEF TypeOK, Goto, serverVars, txVars, writerVars, readerVars
<1>0. vaultSeq > 0 \/ vaultSeq = 0
  OBVIOUS
<1>1. CASE FindVault(c)
  BY <1>1 DEF FindVault, AfterVault, Stages
<1>2. CASE InsertVault(c)
  BY <1>2 DEF InsertVault, Stages
<1>3. CASE FindVaultAgain(c)
  BY <1>3 DEF FindVaultAgain, AfterVault, Stages
<1>4. CASE c \in Readers /\ StartSync(c)
  BY <1>4 DEF StartSync, Stages
<1>5. CASE c \in Readers /\ QueryRefs(c)
  <2>1. PICK P \in SUBSET Newer(rows, mark[c]) :
          \E n \in {mark[c]} \union {rows[r].seq : r \in P} :
            page' = [page EXCEPT ![c] =
                       [refs |-> P, got |-> NoRows, end |-> n, more |-> FALSE]]
    BY <1>5 DEF QueryRefs
  <2>2. PICK n \in {mark[c]} \union {rows[r].seq : r \in P} :
            page' = [page EXCEPT ![c] =
                       [refs |-> P, got |-> NoRows, end |-> n, more |-> FALSE]]
    BY <2>1
  <2>3. P \in SUBSET Records
    BY DEF Newer
  <2>4. n \in Nat
    BY <1>5, <2>3 DEF Rows, Row
  <2>5. page' \in [Readers -> Page]
    BY <2>2, <2>3, <2>4, IdleValues DEF Page
  <2> QED BY <1>5, <2>5 DEF QueryRefs, Stages
<1>6. CASE c \in Readers /\ FetchRecord(c)
  <2>1. PICK r \in page[c].refs :
          page' = [page EXCEPT ![c].refs = @ \ {r}, ![c].got[r] = rows[r]]
    BY <1>6 DEF FetchRecord
  <2>2. page[c] \in Page /\ r \in Records /\ rows[r] \in Row
    BY <1>6 DEF Page, Rows
  <2>3. [page[c].got EXCEPT ![r] = rows[r]] \in Rows
    BY <2>2 DEF Page, Rows
  <2>4. page'[c] = [refs |-> page[c].refs \ {r},
                    got  |-> [page[c].got EXCEPT ![r] = rows[r]],
                    end  |-> page[c].end, more |-> page[c].more]
    BY <1>6, <2>1, <2>2 DEF Page
  <2>5. page'[c] \in Page
    BY <2>2, <2>3, <2>4 DEF Page
  <2>6. page' \in [Readers -> Page]
    BY <1>6, <2>1, <2>5
  <2> QED BY <1>6, <2>6 DEF FetchRecord
<1>7. CASE c \in Readers /\ ReadMore(c)
  <2>1. page[c] \in Page
    BY <1>7
  <2>2. page'[c] = [refs |-> page[c].refs, got |-> page[c].got, end |-> page[c].end,
                    more |-> vaultSeq > page[c].end]
    BY <1>7, <2>1 DEF ReadMore, Page
  <2>3. page'[c] \in Page
    BY <2>1, <2>2 DEF Page
  <2>4. page' \in [Readers -> Page]
    BY <1>7, <2>3 DEF ReadMore
  <2> QED BY <1>7, <2>4 DEF ReadMore, Stages
<1>8. CASE c \in Readers /\ SavePage(c)
  <2>1. replica' \in [Readers -> Rows] /\ page' \in [Readers -> Page]
    BY <1>8, MergedType, IdleValues DEF SavePage
  <2>2. page[c].end \in Nat
    BY <1>8 DEF Page
  <2> QED BY <1>8, <2>1, <2>2 DEF SavePage, Stages
<1>9. CASE c \in Readers /\ SaveLastPage(c)
  <2>1. replica' \in [Readers -> Rows] /\ page' \in [Readers -> Page]
    BY <1>9, MergedType, IdleValues DEF SaveLastPage
  <2>2. page[c].end \in Nat
    BY <1>9 DEF Page
  <2> QED BY <1>9, <2>1, <2>2 DEF SaveLastPage, Stages
<1>10. CASE c \in Readers /\ StopWhileSaving(c)
  <2>1. PICK S \in SUBSET Records : replica' = [replica EXCEPT ![c] = Merged(c, S)]
    BY <1>10 DEF StopWhileSaving
  <2>2. Merged(c, S) \in Rows
    BY <1>10, MergedType
  <2>3. replica' \in [Readers -> Rows] /\ page' \in [Readers -> Page]
    BY <1>10, <2>1, <2>2, IdleValues DEF StopWhileSaving
  <2> QED BY <1>10, <2>3 DEF StopWhileSaving, Stages
<1>11. CASE c \in Readers /\ PullFails(c)
  <2>1. page' \in [Readers -> Page]
    BY <1>11, IdleValues DEF PullFails
  <2> QED BY <1>11, <2>1 DEF PullFails, Stages
<1> QED BY <1>1, <1>2, <1>3, <1>4, <1>5, <1>6, <1>7, <1>8, <1>9, <1>10, <1>11
        DEF EnsureVault, ReaderNext, PullStep, SaveStep

\* A step of a writer keeps the types.
LEMMA WriterType ==
    ASSUME TypeOK, NEW w \in Writers, WriterNext(w)
    PROVE  TypeOK'
<1> USE DEF TypeOK, Goto, serverVars, txVars, writerVars, readerVars
<1>0. /\ tx.seq \in Nat /\ tx.rows \in Rows
      /\ todo # << >> => Head(todo) \in Input /\ Tail(todo) \in Seq(Input)
  BY DEF PushState
<1>1. CASE SendPush(w)
  <2>1. PICK b \in Requests : request' = [request EXCEPT ![w] = b]
    BY <1>1 DEF SendPush
  <2>2. b \in Seq(Input)
    BY RequestsAreInputs
  <2> QED BY <1>1, <2>1, <2>2 DEF SendPush, Stages
<1>2. CASE BeginTx(w)
  <2>1. tx' \in PushState
    BY <1>2 DEF BeginTx, BeginPush, PushState
  <2> QED BY <1>2, <2>1 DEF BeginTx, Stages
<1>3. CASE ApplyNext(w)
  BY <1>0, <1>3, PushStateType DEF ApplyNext
<1>4. CASE RejectNext(w)
  BY <1>0, <1>4, PushStateType DEF RejectNext
<1>5. CASE Commit(w)
  <2>1. AnswerOf(tx) \in Answer
    BY DEF PushState, AnswerOf, Answer
  <2> QED BY <1>0, <1>5, <2>1, IdleValues DEF Commit, Stages
<1>6. CASE Rollback(w)
  BY <1>6, IdleValues DEF Rollback, Stages
<1>7. CASE PushFails(w)
  BY <1>7 DEF PushFails, Stages
<1>8. CASE TakeAnswer(w)
  BY <1>8, IdleValues DEF TakeAnswer, Stages
<1> QED BY <1>1, <1>2, <1>3, <1>4, <1>5, <1>6, <1>7, <1>8 DEF WriterNext, PushStep

\* Every reachable state of the record store is well typed; in particular no pull
\* ever holds the connection across statements.
THEOREM TypeCorrect == Spec => []TypeOK
<1>1. Init => TypeOK
  <2> SUFFICES ASSUME Init PROVE TypeOK
    OBVIOUS
  <2>1. request \in [Writers -> Seq(Input)] /\ todo \in Seq(Input)
    BY DEF Init
  <2>2. stage \in [Callers -> Stages]
    BY DEF Init, Stages
  <2> QED BY <2>1, <2>2, IdleValues DEF Init, TypeOK
<1>2. TypeOK /\ [Next]_vars => TypeOK'
  <2> SUFFICES ASSUME TypeOK, [Next]_vars PROVE TypeOK'
    OBVIOUS
  <2>1. CASE UNCHANGED vars
    BY <2>1 DEF TypeOK, vars, serverVars, txVars, writerVars, readerVars
  <2>2. CASE \E c \in Callers : EnsureVault(c)
    BY <2>2, ReaderType
  <2>3. CASE \E c \in Readers : ReaderNext(c)
    BY <2>3, ReaderType
  <2>4. CASE \E w \in Writers : WriterNext(w)
    BY <2>4, WriterType
  <2> QED BY <2>1, <2>2, <2>3, <2>4 DEF Next
<1> QED BY <1>1, <1>2, PTL DEF Spec

-----------------------------------------------------------------------------
(***************************************************************************)
(* The inductive invariant of the server.  SeqsStampWrites alone is not    *)
(* inductive: a commit installs the rows and the seq of a transaction, so  *)
(* the transaction must be numbered properly too, must have started from   *)
(* the rows it is about to replace (nobody else can commit meanwhile), and *)
(* the vault it counts in must exist, or GetOrCreateVault would start the  *)
(* count again.                                                            *)
(***************************************************************************)
VaultCounted ==
    /\ ~vaultExists => vaultSeq = 0
    /\ \A w \in Writers : stage[w] \in {"begin", "push"} => vaultExists

OneTransaction == \A w \in Writers : stage[w] = "push" <=> conn = w

\* The rows a transaction has written are newer than the committed ones.
Ahead == \A r \in Records :
            tx.rows[r] = rows[r] \/ (tx.rows[r].seq > vaultSeq /\ tx.rows[r].rev > rows[r].rev)

TransactionOK ==
    conn # Nobody =>
        /\ tx.seq >= vaultSeq
        /\ Stamped(tx.seq, tx.rows)
        /\ Ahead

StoreInv ==
    /\ SeqsStampWrites
    /\ VaultCounted
    /\ OneTransaction
    /\ TransactionOK

\* Applying an input, the accepted branch of PushRecords' loop, numbers the write
\* with the next seq and makes only its record newer.
LEMMA ApplyStamps ==
    ASSUME NEW st \in PushState, NEW input \in Input, Stamped(st.seq, st.rows)
    PROVE  LET next == ApplyInput(st, input)
           IN  /\ Stamped(next.seq, next.rows)
               /\ next.seq = st.seq + 1
               /\ next.rows[input.id].seq = next.seq
               /\ next.rows[input.id].rev = st.rows[input.id].rev + 1
               /\ \A r \in Records : r # input.id => next.rows[r] = st.rows[r]
<1> DEFINE next == ApplyInput(st, input)
<1>1. /\ st.seq \in Nat /\ st.rows \in Rows /\ input.id \in Records
      /\ \A r \in Records : st.rows[r] \in Row
  BY DEF PushState, Input, Rows
<1>2. /\ next.seq = st.seq + 1
      /\ next.rows = [st.rows EXCEPT ![input.id] =
                        Written(st.rows[input.id], input, st.seq + 1)]
  BY DEF ApplyInput
<1>3. /\ next.rows[input.id].seq = next.seq
      /\ next.rows[input.id].rev = st.rows[input.id].rev + 1
      /\ \A r \in Records : r # input.id => next.rows[r] = st.rows[r]
  BY <1>1, <1>2 DEF Rows, Written
<1>4. Stamped(next.seq, next.rows)
  <2>1. \A r \in Records : st.rows[r].seq \in Nat
    BY <1>1 DEF Row
  <2>2. \A r \in Records : next.rows[r].seq <= next.seq
    BY <1>1, <1>2, <1>3, <2>1 DEF Stamped
  <2>3. \A r, q \in Records :
          next.rows[r].seq = next.rows[q].seq /\ next.rows[r].seq # 0 => r = q
    BY <1>1, <1>2, <1>3, <2>1 DEF Stamped
  <2>4. \E r \in Records : next.rows[r].seq = next.seq
    BY <1>1, <1>3
  <2> HIDE DEF next
  <2> QED BY <2>2, <2>3, <2>4 DEF Stamped
<1> QED BY <1>2, <1>3, <1>4

\* A step that leaves the vault and the connection alone, and moves no call into
\* or out of a transaction, keeps the invariant.
LEMMA QuietStep ==
    ASSUME TypeOK, StoreInv, UNCHANGED <<serverVars, txVars>>,
           NEW c \in Callers, NEW there \in Stages,
           stage[c] # "push", there # "push",
           c \in Writers /\ there = "begin" => vaultExists,
           Goto(c, there)
    PROVE  StoreInv'
<1> USE DEF serverVars, txVars
<1>1. SeqsStampWrites'
  BY DEF StoreInv, SeqsStampWrites, Stamped
<1>2. VaultCounted'
  BY DEF StoreInv, VaultCounted, Goto, TypeOK
<1>3. OneTransaction'
  BY DEF StoreInv, OneTransaction, Goto, TypeOK
<1>4. TransactionOK'
  BY DEF StoreInv, TransactionOK, Stamped, Ahead
<1> QED BY <1>1, <1>2, <1>3, <1>4 DEF StoreInv

\* Finding or creating the vault never starts the count of seq again.
LEMMA EnsureVaultKeepsStore ==
    ASSUME TypeOK, StoreInv, NEW c \in Callers, EnsureVault(c)
    PROVE  StoreInv' /\ UNCHANGED <<vaultSeq, rows>>
<1>1. CASE FindVault(c)
  <2>1. PICK there \in {"refs", "begin", "insert"} :
          Goto(c, there) /\ (there = "begin" => vaultExists)
    BY <1>1 DEF FindVault, AfterVault
  <2> QED BY <1>1, <2>1, QuietStep DEF FindVault, At, Stages, serverVars
<1>2. CASE InsertVault(c)
  <2>1. vaultSeq' = vaultSeq /\ rows' = rows
    BY <1>2 DEF InsertVault, StoreInv, VaultCounted
  <2>2. SeqsStampWrites'
    BY <2>1 DEF StoreInv, SeqsStampWrites, Stamped
  <2>3. VaultCounted'
    BY <1>2 DEF InsertVault, VaultCounted
  <2>4. OneTransaction'
    BY <1>2 DEF InsertVault, At, Goto, StoreInv, OneTransaction, TypeOK, txVars
  <2>5. TransactionOK'
    BY <1>2, <2>1 DEF InsertVault, ConnectionFree, TransactionOK, txVars
  <2> QED BY <2>1, <2>2, <2>3, <2>4, <2>5 DEF StoreInv
<1>3. CASE FindVaultAgain(c)
  <2>1. PICK there \in {"refs", "begin"} : Goto(c, there)
    BY <1>3 DEF FindVaultAgain, AfterVault
  <2> QED BY <1>3, <2>1, QuietStep DEF FindVaultAgain, At, Stages, serverVars
<1> QED BY <1>1, <1>2, <1>3 DEF EnsureVault

\* Nothing a reader does touches the vault.
LEMMA ReaderKeepsStore ==
    ASSUME TypeOK, StoreInv, NEW c \in Readers, ReaderNext(c)
    PROVE  StoreInv' /\ UNCHANGED <<vaultSeq, rows>>
<1>1. UNCHANGED <<serverVars, txVars>>
  BY DEF ReaderNext, PullStep, SaveStep, StartSync, QueryRefs, FetchRecord, ReadMore,
         SavePage, SaveLastPage, StopWhileSaving, PullFails
<1>2. \/ UNCHANGED stage
      \/ \E there \in {"idle", "lookup", "fetch", "page"} : Goto(c, there)
  BY DEF ReaderNext, PullStep, SaveStep, StartSync, QueryRefs, FetchRecord, ReadMore,
         SavePage, SaveLastPage, StopWhileSaving, PullFails
<1>3. CASE UNCHANGED stage
  BY <1>1, <1>3 DEF StoreInv, SeqsStampWrites, VaultCounted, OneTransaction, TransactionOK,
                    Stamped, Ahead, serverVars, txVars
<1>4. CASE \E there \in {"idle", "lookup", "fetch", "page"} : Goto(c, there)
  <2>1. stage[c] # "push"
    BY DEF ReaderNext, PullStep, SaveStep, StartSync, QueryRefs, FetchRecord, ReadMore,
           SavePage, SaveLastPage, StopWhileSaving, PullFails, At
  <2> QED BY <1>1, <1>4, <2>1, QuietStep DEF Stages, serverVars
<1> QED BY <1>1, <1>2, <1>3, <1>4 DEF serverVars

\* The facts about an open transaction that the steps of a push rely on.
LEMMA OpenTransaction ==
    ASSUME TypeOK, StoreInv, NEW w \in Writers, stage[w] = "push"
    PROVE  /\ conn = w /\ vaultExists
           /\ tx \in PushState /\ tx.seq >= vaultSeq
           /\ Stamped(tx.seq, tx.rows) /\ Ahead
           /\ \A x \in Writers : stage[x] = "push" => x = w
BY DEF StoreInv, OneTransaction, VaultCounted, TransactionOK, TypeOK

\* Looking at one more input of the push leaves the committed vault alone and
\* keeps the transaction ahead of it.
LEMMA PushInputKeepsStore ==
    ASSUME TypeOK, StoreInv, NEW w \in Writers, ApplyNext(w) \/ RejectNext(w)
    PROVE  StoreInv' /\ UNCHANGED <<vaultSeq, rows>>
<1>1. /\ UNCHANGED <<vaultSeq, rows, vaultExists, conn, stage>>
      /\ stage[w] = "push" /\ Head(todo) \in Input
  BY DEF ApplyNext, RejectNext, At, serverVars, TypeOK
<1>2. SeqsStampWrites' /\ VaultCounted' /\ OneTransaction'
  BY <1>1 DEF StoreInv, SeqsStampWrites, Stamped, VaultCounted, OneTransaction
<1>3. TransactionOK'
  <2>1. CASE RejectNext(w)
    <3>1. tx'.seq = tx.seq /\ tx'.rows = tx.rows
      BY <2>1 DEF RejectNext, RejectInput
    <3> QED BY <1>1, <3>1, OpenTransaction DEF TransactionOK, Stamped, Ahead
  <2>2. CASE ApplyNext(w)
    <3> DEFINE input == Head(todo)
    <3>1. tx' = ApplyInput(tx, input) /\ input \in Input /\ input.id \in Records
      BY <1>1, <2>2 DEF ApplyNext, Input
    <3>2. /\ Stamped(tx'.seq, tx'.rows)
          /\ tx'.seq = tx.seq + 1
          /\ tx'.rows[input.id].seq = tx'.seq
          /\ tx'.rows[input.id].rev = tx.rows[input.id].rev + 1
          /\ \A r \in Records : r # input.id => tx'.rows[r] = tx.rows[r]
      BY <1>1, <3>1, OpenTransaction, ApplyStamps
    <3>3. /\ tx.seq \in Nat /\ vaultSeq \in Nat
          /\ \A r \in Records : /\ tx.rows[r].rev \in Nat /\ rows[r].rev \in Nat
      BY DEF TypeOK, PushState, Rows, Row
    <3>4. tx'.seq >= vaultSeq
      BY <1>1, <3>2, <3>3, OpenTransaction
    <3>5. Ahead'
      <4> SUFFICES ASSUME NEW r \in Records
                   PROVE  \/ tx'.rows[r] = rows[r]
                          \/ tx'.rows[r].seq > vaultSeq /\ tx'.rows[r].rev > rows[r].rev
        BY <1>1 DEF Ahead
      <4>1. \/ tx.rows[r] = rows[r]
            \/ tx.rows[r].seq > vaultSeq /\ tx.rows[r].rev > rows[r].rev
        BY <1>1, OpenTransaction DEF Ahead
      <4>2. CASE r # input.id
        BY <3>2, <4>1, <4>2
      <4>3. CASE r = input.id
        <5>1. tx'.rows[r].seq > vaultSeq
          BY <1>1, <3>2, <3>3, <4>3, OpenTransaction
        <5>2. tx'.rows[r].rev > rows[r].rev
          BY <3>2, <3>3, <4>1, <4>3
        <5> QED BY <5>1, <5>2
      <4> QED BY <4>2, <4>3
    <3> QED BY <1>1, <3>2, <3>4, <3>5 DEF TransactionOK
  <2> QED BY <2>1, <2>2
<1> QED BY <1>1, <1>2, <1>3 DEF StoreInv

\* Committing installs exactly the transaction: every record that changes is newer
\* than everything the vault has numbered so far.
LEMMA CommitKeepsStore ==
    ASSUME TypeOK, StoreInv, NEW w \in Writers, Commit(w)
    PROVE  /\ StoreInv'
           /\ vaultSeq' >= vaultSeq
           /\ \A r \in Records : rows'[r] # rows[r] =>
                /\ rows'[r].seq > vaultSeq /\ rows'[r].seq <= vaultSeq'
                /\ rows'[r].rev > rows[r].rev
<1>1. /\ stage[w] = "push" /\ vaultSeq' = tx.seq /\ rows' = tx.rows
      /\ conn' = Nobody /\ Goto(w, "answered") /\ UNCHANGED vaultExists
  BY DEF Commit, At
<1>2. SeqsStampWrites'
  BY <1>1, OpenTransaction DEF SeqsStampWrites, Stamped
<1>3. VaultCounted'
  BY <1>1, OpenTransaction DEF VaultCounted
<1>4. OneTransaction'
  BY <1>1, OpenTransaction DEF OneTransaction, Goto, TypeOK
<1>5. TransactionOK'
  BY <1>1 DEF TransactionOK
<1>6. ASSUME NEW r \in Records, rows'[r] # rows[r]
      PROVE  /\ rows'[r].seq > vaultSeq /\ rows'[r].seq <= vaultSeq'
             /\ rows'[r].rev > rows[r].rev
  BY <1>1, <1>6, OpenTransaction DEF Ahead, Stamped
<1>7. vaultSeq' >= vaultSeq
  BY <1>1, OpenTransaction
<1> QED BY <1>2, <1>3, <1>4, <1>5, <1>6, <1>7 DEF StoreInv

\* The other steps of a writer leave the committed vault alone.
LEMMA WriterKeepsStore ==
    ASSUME TypeOK, StoreInv, NEW w \in Writers,
           SendPush(w) \/ BeginTx(w) \/ Rollback(w) \/ PushFails(w) \/ TakeAnswer(w)
    PROVE  StoreInv' /\ UNCHANGED <<vaultSeq, rows>>
<1>1. CASE SendPush(w)
  BY <1>1, QuietStep DEF SendPush, At, Stages, serverVars
<1>2. CASE PushFails(w)
  BY <1>2, QuietStep DEF PushFails, Stages, serverVars
<1>3. CASE TakeAnswer(w)
  BY <1>3, QuietStep DEF TakeAnswer, At, Stages, serverVars
<1>4. CASE BeginTx(w)
  <2>1. /\ UNCHANGED <<vaultSeq, rows, vaultExists>> /\ stage[w] = "begin"
        /\ conn = Nobody /\ conn' = w /\ Goto(w, "push")
        /\ tx'.seq = vaultSeq /\ tx'.rows = rows
    BY <1>4 DEF BeginTx, At, ConnectionFree, BeginPush, serverVars
  <2>2. SeqsStampWrites' /\ VaultCounted'
    BY <2>1 DEF StoreInv, SeqsStampWrites, Stamped, VaultCounted, Goto, TypeOK
  <2>3. OneTransaction'
    BY <2>1 DEF StoreInv, OneTransaction, Goto, TypeOK
  <2>4. TransactionOK'
    BY <2>1 DEF StoreInv, SeqsStampWrites, TransactionOK, Stamped, Ahead, TypeOK
  <2> QED BY <2>1, <2>2, <2>3, <2>4 DEF StoreInv
<1>5. CASE Rollback(w)
  <2>1. /\ UNCHANGED <<vaultSeq, rows, vaultExists>> /\ stage[w] = "push"
        /\ conn' = Nobody /\ Goto(w, "idle")
    BY <1>5 DEF Rollback, At, serverVars
  <2>2. SeqsStampWrites' /\ VaultCounted'
    BY <2>1 DEF StoreInv, SeqsStampWrites, Stamped, VaultCounted, Goto, TypeOK
  <2>3. OneTransaction'
    BY <2>1, OpenTransaction DEF OneTransaction, Goto, TypeOK
  <2>4. TransactionOK'
    BY <2>1 DEF TransactionOK
  <2> QED BY <2>1, <2>2, <2>3, <2>4 DEF StoreInv
<1> QED BY <1>1, <1>2, <1>3, <1>4, <1>5

\* One step of the system: the server's invariant is kept, and whatever changes in
\* the committed vault is newer than everything numbered before.
LEMMA StoreStep ==
    ASSUME TypeOK, StoreInv, [Next]_vars
    PROVE  /\ StoreInv'
           /\ vaultSeq' >= vaultSeq
           /\ \A r \in Records : rows'[r] # rows[r] =>
                /\ rows'[r].seq > vaultSeq /\ rows'[r].seq <= vaultSeq'
                /\ rows'[r].rev > rows[r].rev
<1>0. vaultSeq \in Nat
  BY DEF TypeOK
<1>1. CASE UNCHANGED vars
  BY <1>0, <1>1 DEF StoreInv, SeqsStampWrites, VaultCounted, OneTransaction, TransactionOK,
                    Stamped, Ahead, vars, serverVars, txVars
<1>2. CASE \E c \in Callers : EnsureVault(c)
  BY <1>0, <1>2, EnsureVaultKeepsStore
<1>3. CASE \E c \in Readers : ReaderNext(c)
  BY <1>0, <1>3, ReaderKeepsStore
<1>4. CASE \E w \in Writers : WriterNext(w)
  BY <1>0, <1>4, PushInputKeepsStore, CommitKeepsStore, WriterKeepsStore
     DEF WriterNext, PushStep
<1> QED BY <1>1, <1>2, <1>3, <1>4 DEF Next

\* StoreInv holds in every reachable state.
LEMMA StoreInvariant == Spec => []StoreInv
<1>1. Init => StoreInv
  BY DEF Init, StoreInv, SeqsStampWrites, VaultCounted, OneTransaction, TransactionOK,
         Stamped, NoRows, Absent
<1>2. TypeOK /\ StoreInv /\ [Next]_vars => StoreInv'
  BY StoreStep
<1> QED BY <1>1, <1>2, TypeCorrect, PTL DEF Spec

\* The seq column identifies the last write of every record, in every reachable
\* state of the record store.
THEOREM SeqsStampWritesAlways == Spec => []SeqsStampWrites
BY StoreInvariant, PTL DEF StoreInv

\* Commits only move records forward: the rev grows, the seq is above every seq
\* handed out before, and no record disappears.
THEOREM RecordsMoveForwardAlways == Spec => RecordsMoveForward
<1>1. TypeOK /\ StoreInv /\ [Next]_vars =>
        [\A r \in Records : rows'[r] # rows[r] =>
           /\ rows'[r].rev > rows[r].rev
           /\ rows'[r].seq > vaultSeq
           /\ rows'[r].seq <= vaultSeq']_<<vaultSeq, rows>>
  BY StoreStep
<1> QED BY <1>1, TypeCorrect, StoreInvariant, PTL DEF Spec, RecordsMoveForward

-----------------------------------------------------------------------------
(***************************************************************************)
(* Cursors.  The stored cursor of a reader is safe because the cursor in   *)
(* memory is, and that one because the page being assembled is: up to its  *)
(* next_seq, a record is still to be fetched, or the page (over the        *)
(* replica) holds it as the server does.  A push that commits meanwhile    *)
(* cannot hurt: what it changes gets a seq above all three.                *)
(***************************************************************************)

\* Up to upto, the records of store are the server's.
UpTo(upto, store) == \A r \in Records : rows[r].seq <= upto => store[r] = rows[r]

Assembled(c, r) == IF page[c].got[r] # Absent THEN page[c].got[r] ELSE replica[c][r]

CursorOK(c) ==
    /\ cursor[c] <= vaultSeq
    /\ UpTo(cursor[c], replica[c])

MarkOK(c) ==
    stage[c] # "idle" =>
        /\ cursor[c] <= mark[c] /\ mark[c] <= vaultSeq
        /\ UpTo(mark[c], replica[c])

PageOK(c) ==
    stage[c] \in {"fetch", "page"} =>
        /\ mark[c] <= page[c].end /\ page[c].end <= vaultSeq
        /\ \A r \in Records : rows[r].seq <= page[c].end =>
              r \in page[c].refs \/ Assembled(c, r) = rows[r]
        /\ stage[c] = "page" => page[c].refs = {}

PullInv == \A c \in Readers : CursorOK(c) /\ MarkOK(c) /\ PageOK(c)

\* The rows and counters of a well-typed state are natural numbers and rows.
LEMMA PullTypes ==
    ASSUME TypeOK, NEW c \in Readers
    PROVE  /\ vaultSeq \in Nat /\ cursor[c] \in Nat /\ mark[c] \in Nat
           /\ page[c].end \in Nat /\ page[c].refs \in SUBSET Records
           /\ \A r \in Records : rows[r] \in Row /\ rows[r].seq \in Nat
           /\ c \in Callers
BY DEF TypeOK, Page, Rows, Row

\* Whatever commits, a reader that does not move keeps its part of the invariant.
LEMMA CommitKeepsPull ==
    ASSUME TypeOK, TypeOK', StoreInv, [Next]_vars, NEW c \in Readers,
           CursorOK(c), MarkOK(c), PageOK(c),
           UNCHANGED <<page[c], mark[c], cursor[c], replica[c]>>,
           stage'[c] = stage[c] \/ (stage[c] # "idle" /\ stage'[c] \notin {"fetch", "page"})
    PROVE  CursorOK(c)' /\ MarkOK(c)' /\ PageOK(c)'
<1>1. vaultSeq' >= vaultSeq /\ vaultSeq' \in Nat
  BY StoreStep DEF TypeOK
<1>2. \A r \in Records : rows'[r] = rows[r] \/ rows'[r].seq > vaultSeq
  BY StoreStep
<1>3. \A r \in Records : rows'[r].seq \in Nat
  BY DEF TypeOK, Rows, Row
<1>4. CursorOK(c)'
  BY <1>1, <1>2, <1>3, PullTypes DEF CursorOK, UpTo
<1>5. MarkOK(c)'
  BY <1>1, <1>2, <1>3, PullTypes DEF MarkOK, UpTo
<1>6. PageOK(c)'
  <2> SUFFICES ASSUME stage[c] \in {"fetch", "page"}, stage'[c] = stage[c] PROVE PageOK(c)'
    BY DEF PageOK
  <2>1. mark[c] <= page'[c].end /\ page'[c].end <= vaultSeq'
    BY <1>1, PullTypes DEF PageOK
  <2>2. ASSUME NEW r \in Records, rows'[r].seq <= page[c].end
        PROVE  r \in page[c].refs \/ Assembled(c, r)' = rows'[r]
    BY <1>1, <1>2, <1>3, <2>2, PullTypes DEF PageOK, Assembled
  <2> QED BY <2>1, <2>2 DEF PageOK
<1> QED BY <1>4, <1>5, <1>6

\* A reader's own steps keep its part of the invariant: the three statements of
\* PullRecords, the saves of runSync, a failed pull and an interrupted save.
LEMMA ReaderKeepsPull ==
    ASSUME TypeOK, TypeOK', StoreInv, NEW c \in Readers, ReaderNext(c),
           CursorOK(c), MarkOK(c), PageOK(c)
    PROVE  CursorOK(c)' /\ MarkOK(c)' /\ PageOK(c)'
<1> USE PullTypes DEF At, Goto
<1>0. /\ UNCHANGED <<vaultSeq, rows>>
      /\ stage \in [Callers -> Stages] /\ page \in [Readers -> Page]
      /\ mark \in [Readers -> Nat] /\ cursor \in [Readers -> Nat]
      /\ replica \in [Readers -> Rows]
  BY ReaderKeepsStore DEF TypeOK
<1>1. CASE StartSync(c)
  BY <1>0, <1>1 DEF StartSync, CursorOK, MarkOK, PageOK, UpTo
<1>2. CASE QueryRefs(c)
  <2>1. PICK P \in SUBSET Newer(rows, mark[c]) :
          /\ IsPage(P, rows, mark[c], PageLimit)
          /\ \E n \in {mark[c]} \union {rows[r].seq : r \in P} :
               /\ IsPageEnd(n, P, rows, mark[c])
               /\ page' = [page EXCEPT ![c] =
                            [refs |-> P, got |-> NoRows, end |-> n, more |-> FALSE]]
    BY <1>2 DEF QueryRefs
  <2>2. PICK n \in {mark[c]} \union {rows[r].seq : r \in P} :
          /\ IsPageEnd(n, P, rows, mark[c])
          /\ page' = [page EXCEPT ![c] =
                         [refs |-> P, got |-> NoRows, end |-> n, more |-> FALSE]]
    BY <2>1
  <2>3. /\ stage[c] = "refs" /\ stage'[c] = "fetch"
        /\ UNCHANGED <<mark, cursor, replica>>
        /\ page'[c] = [refs |-> P, got |-> NoRows, end |-> n, more |-> FALSE]
    BY <1>0, <1>2, <2>2 DEF QueryRefs
  <2>4. /\ P \subseteq Records /\ \A r \in P : rows[r].seq > mark[c]
        /\ n \in Nat
    BY DEF Newer
  <2>5. mark[c] <= n /\ n <= vaultSeq
    BY <2>2, <2>3, <2>4 DEF IsPageEnd, MarkOK, StoreInv, SeqsStampWrites, Stamped
  <2>6. ASSUME NEW r \in Records, rows[r].seq <= n, r \notin P
        PROVE  replica[c][r] = rows[r]
    <3>1. rows[r].seq <= mark[c]
      BY <2>1, <2>2, <2>4, <2>6 DEF IsPageEnd, IsPage, Newer
    <3> QED BY <2>3, <3>1 DEF MarkOK, UpTo
  <2>7. PageOK(c)'
    BY <1>0, <2>3, <2>5, <2>6 DEF PageOK, Assembled, NoRows
  <2>8. CursorOK(c)' /\ MarkOK(c)'
    BY <1>0, <2>3 DEF CursorOK, MarkOK, UpTo
  <2> QED BY <2>7, <2>8
<1>3. CASE FetchRecord(c)
  <2>1. PICK r \in page[c].refs :
          page' = [page EXCEPT ![c].refs = @ \ {r}, ![c].got[r] = rows[r]]
    BY <1>3 DEF FetchRecord
  <2>2. page[c] \in Page /\ page[c].got \in Rows /\ r \in Records
    BY <1>0 DEF Page
  <2>3. /\ page'[c].end = page[c].end /\ page'[c].refs = page[c].refs \ {r}
        /\ page'[c].got[r] = rows[r]
        /\ \A q \in Records : q # r => page'[c].got[q] = page[c].got[q]
    BY <1>0, <2>1, <2>2 DEF Page, Rows
  <2>4. stage[c] = "fetch" /\ UNCHANGED <<stage, mark, cursor, replica>>
    BY <1>3 DEF FetchRecord
  <2>5. Assembled(c, r)' = rows[r]
    <3>1. rows[r] = Absent => rows[r].seq <= mark[c]
      BY <2>2 DEF Absent
    <3> QED BY <2>2, <2>3, <2>4, <3>1 DEF Assembled, MarkOK, UpTo
  <2>6. \A q \in Records : q # r => Assembled(c, q)' = Assembled(c, q)
    BY <2>3, <2>4 DEF Assembled
  <2>7. PageOK(c)'
    BY <1>0, <2>2, <2>3, <2>4, <2>5, <2>6 DEF PageOK
  <2>8. CursorOK(c)' /\ MarkOK(c)'
    BY <1>0, <2>4 DEF CursorOK, MarkOK, UpTo
  <2> QED BY <2>7, <2>8
<1>4. CASE ReadMore(c)
  <2>1. page[c] \in Page
    BY <1>0
  <2>2. /\ page'[c].end = page[c].end /\ page'[c].refs = page[c].refs
        /\ page'[c].got = page[c].got /\ page[c].refs = {}
        /\ stage[c] = "fetch" /\ stage'[c] = "page" /\ UNCHANGED <<mark, cursor, replica>>
    BY <1>0, <1>4, <2>1 DEF ReadMore, Page
  <2>3. CursorOK(c)' /\ MarkOK(c)'
    BY <1>0, <2>2 DEF CursorOK, MarkOK, UpTo
  <2>4. PageOK(c)'
    BY <1>0, <2>2 DEF PageOK, Assembled
  <2> QED BY <2>3, <2>4
<1>5. ASSUME NEW S \in SUBSET Records, stage[c] = "page",
             replica'[c] = Merged(c, S)
      PROVE  /\ UpTo(cursor[c], replica'[c])
             /\ S = Records => UpTo(page[c].end, replica'[c])
  <2>1. \A r \in Records : replica'[c][r] = IF r \in S THEN Assembled(c, r) ELSE replica[c][r]
    BY <1>5 DEF Merged, Assembled
  <2>2. /\ cursor[c] <= page[c].end
        /\ \A r \in Records : rows[r].seq <= page[c].end => Assembled(c, r) = rows[r]
    BY <1>5 DEF PageOK, MarkOK
  <2>3. UpTo(cursor[c], replica'[c])
    BY <2>1, <2>2 DEF UpTo, CursorOK
  <2>4. S = Records => UpTo(page[c].end, replica'[c])
    BY <2>1, <2>2 DEF UpTo
  <2> QED BY <2>3, <2>4
<1>6. CASE SavePage(c)
  <2>1. /\ stage[c] = "page" /\ stage'[c] = "lookup" /\ UNCHANGED cursor
        /\ replica'[c] = Merged(c, Records) /\ mark'[c] = page[c].end
    BY <1>0, <1>6 DEF SavePage
  <2>2. UpTo(cursor[c], replica'[c]) /\ UpTo(page[c].end, replica'[c])
    BY <1>5, <2>1
  <2> QED BY <1>0, <2>1, <2>2 DEF CursorOK, MarkOK, PageOK, UpTo
<1>7. CASE SaveLastPage(c)
  <2>1. /\ stage[c] = "page" /\ stage'[c] = "idle"
        /\ replica'[c] = Merged(c, Records) /\ cursor'[c] = page[c].end
    BY <1>0, <1>7 DEF SaveLastPage
  <2>2. UpTo(page[c].end, replica'[c])
    BY <1>5, <2>1
  <2> QED BY <1>0, <2>1, <2>2 DEF CursorOK, MarkOK, PageOK, UpTo
<1>8. CASE StopWhileSaving(c)
  <2>1. PICK S \in SUBSET Records : replica' = [replica EXCEPT ![c] = Merged(c, S)]
    BY <1>8 DEF StopWhileSaving
  <2>2. /\ stage[c] = "page" /\ stage'[c] = "idle" /\ UNCHANGED cursor
        /\ replica'[c] = Merged(c, S)
    BY <1>0, <1>8, <2>1 DEF StopWhileSaving
  <2>3. UpTo(cursor[c], replica'[c])
    BY <1>5, <2>2
  <2> QED BY <1>0, <2>2, <2>3 DEF CursorOK, MarkOK, PageOK, UpTo
<1>9. CASE PullFails(c)
  BY <1>0, <1>9 DEF PullFails, CursorOK, MarkOK, PageOK, UpTo
<1> QED BY <1>1, <1>2, <1>3, <1>4, <1>6, <1>7, <1>8, <1>9
        DEF ReaderNext, PullStep, SaveStep

\* One step of the system keeps every reader's part of the invariant.
LEMMA PullStepKeeps ==
    ASSUME TypeOK, TypeOK', StoreInv, PullInv, [Next]_vars
    PROVE  PullInv'
<1> SUFFICES ASSUME NEW d \in Readers PROVE CursorOK(d)' /\ MarkOK(d)' /\ PageOK(d)'
  BY DEF PullInv
<1>0. CursorOK(d) /\ MarkOK(d) /\ PageOK(d) /\ d \in Callers
  BY DEF PullInv
<1>1. CASE UNCHANGED vars
  BY <1>0, <1>1, CommitKeepsPull DEF vars, readerVars
<1>2. ASSUME NEW c \in Callers, EnsureVault(c)
      PROVE  CursorOK(d)' /\ MarkOK(d)' /\ PageOK(d)'
  <2>1. /\ UNCHANGED <<page, mark, cursor, replica>>
        /\ stage[c] \in {"lookup", "insert", "relook"}
        /\ \E there \in {"refs", "begin", "insert", "relook"} :
              stage' = [stage EXCEPT ![c] = there]
    BY <1>2 DEF EnsureVault, FindVault, InsertVault, FindVaultAgain, AfterVault, At, Goto,
                readerVars
  <2>2. stage'[d] = stage[d] \/ (stage[d] # "idle" /\ stage'[d] \notin {"fetch", "page"})
    BY <1>0, <2>1 DEF TypeOK
  <2> QED BY <1>0, <2>1, <2>2, CommitKeepsPull
<1>3. ASSUME NEW c \in Readers, ReaderNext(c)
      PROVE  CursorOK(d)' /\ MarkOK(d)' /\ PageOK(d)'
  <2>1. CASE c = d
    BY <1>0, <1>3, <2>1, ReaderKeepsPull
  <2>2. CASE c # d
    <3>1. UNCHANGED <<page[d], mark[d], cursor[d], replica[d], stage[d]>>
      BY <1>0, <1>3, <2>2 DEF ReaderNext, PullStep, SaveStep, StartSync, QueryRefs,
         FetchRecord, ReadMore, SavePage, SaveLastPage, StopWhileSaving, PullFails, Goto, TypeOK
    <3> QED BY <1>0, <3>1, CommitKeepsPull
  <2> QED BY <2>1, <2>2
<1>4. ASSUME NEW w \in Writers, WriterNext(w)
      PROVE  CursorOK(d)' /\ MarkOK(d)' /\ PageOK(d)'
  <2>1. UNCHANGED <<page, mark, cursor, replica, stage[d]>>
    BY <1>0, <1>4 DEF WriterNext, PushStep, SendPush, BeginTx, ApplyNext, RejectNext, Commit,
       Rollback, PushFails, TakeAnswer, Goto, TypeOK, readerVars
  <2> QED BY <1>0, <2>1, CommitKeepsPull
<1> QED BY <1>1, <1>2, <1>3, <1>4 DEF Next

\* A cursor never passes a write its device does not have, whatever the callers,
\* the records, the page limit and the order of their statements.
THEOREM CursorMissesNothingAlways == Spec => []CursorMissesNothing
<1>1. Init => PullInv
  BY DEF Init, PullInv, CursorOK, MarkOK, PageOK, UpTo, NoRows
<1>2. TypeOK /\ TypeOK' /\ StoreInv /\ PullInv /\ [Next]_vars => PullInv'
  BY PullStepKeeps
<1>3. PullInv => CursorMissesNothing
  BY DEF PullInv, CursorOK, UpTo, CursorMissesNothing
<1> QED BY <1>1, <1>2, <1>3, TypeCorrect, StoreInvariant, PTL DEF Spec

-----------------------------------------------------------------------------
(***************************************************************************)
(* Answers.  While a transaction works, what it has noted for its answer   *)
(* is true of its own view of the rows; a commit makes the view the        *)
(* database's, and later commits only move rows past what was noted.       *)
(***************************************************************************)

\* What is noted of an input that was applied, and of one that was rejected.
AppliedTrue(a, store, batch) ==
    /\ store[a.id].rev >= a.rev
    /\ store[a.id].rev = a.rev =>
         /\ store[a.id].seq = a.seq
         /\ \E j \in DOMAIN batch :
               /\ batch[j].id = a.id
               /\ batch[j].body = store[a.id].body
               /\ batch[j].deleted = store[a.id].deleted

ConflictTrue(k, store) ==
    /\ store[k.id].rev >= k.current.rev
    /\ store[k.id].rev = k.current.rev => store[k.id] = k.current

NotesTrue(applied, conflicts, store, batch) ==
    /\ \A i \in DOMAIN applied : AppliedTrue(applied[i], store, batch)
    /\ \A i \in DOMAIN conflicts : ConflictTrue(conflicts[i], store)

\* The inputs a transaction has still to look at are the request's.
Requested(inputs, batch) ==
    \A i \in DOMAIN inputs : \E j \in DOMAIN batch : batch[j] = inputs[i]

WriterOK(w) ==
    /\ stage[w] = "push" =>
         NotesTrue(tx.applied, tx.conflicts, tx.rows, request[w]) /\ Requested(todo, request[w])
    /\ stage[w] = "answered" =>
         /\ answer[w].seq <= vaultSeq
         /\ NotesTrue(answer[w].applied, answer[w].conflicts, rows, request[w])

AnswerInv == \A w \in Writers : WriterOK(w)

\* Rows that only move forward leave true what was noted of them.
LEMMA NotesStay ==
    ASSUME NEW applied \in Seq(Applied), NEW conflicts \in Seq(Conflict),
           NEW store \in Rows, NEW next \in Rows, NEW batch,
           \A r \in Records : next[r] # store[r] => next[r].rev > store[r].rev,
           NotesTrue(applied, conflicts, store, batch)
    PROVE  NotesTrue(applied, conflicts, next, batch)
<1>1. \A r \in Records : store[r].rev \in Nat /\ next[r].rev \in Nat
  BY DEF Rows, Row
<1>2. ASSUME NEW i \in DOMAIN applied
      PROVE  AppliedTrue(applied[i], next, batch)
  <2>1. applied[i].id \in Records /\ applied[i].rev \in Nat
    <3>1. applied[i] \in Applied
      OBVIOUS
    <3> QED BY <3>1 DEF Applied
  <2>2. AppliedTrue(applied[i], store, batch)
    BY DEF NotesTrue
  <2> QED BY <1>1, <2>1, <2>2 DEF AppliedTrue
<1>3. ASSUME NEW i \in DOMAIN conflicts
      PROVE  ConflictTrue(conflicts[i], next)
  <2>1. conflicts[i].id \in Records /\ conflicts[i].current.rev \in Nat
    <3>1. conflicts[i] \in Conflict
      OBVIOUS
    <3> QED BY <3>1 DEF Conflict, Row
  <2>2. ConflictTrue(conflicts[i], store)
    BY DEF NotesTrue
  <2> QED BY <1>1, <2>1, <2>2 DEF ConflictTrue
<1> QED BY <1>2, <1>3 DEF NotesTrue

\* Looking at an input of the request notes what is true of it.
LEMMA NotesGrow ==
    ASSUME NEW st \in PushState, NEW input \in Input, NEW batch,
           Stamped(st.seq, st.rows), \E j \in DOMAIN batch : batch[j] = input,
           NotesTrue(st.applied, st.conflicts, st.rows, batch)
    PROVE  /\ LET next == ApplyInput(st, input)
              IN  NotesTrue(next.applied, next.conflicts, next.rows, batch)
           /\ LET next == RejectInput(st, input)
              IN  NotesTrue(next.applied, next.conflicts, next.rows, batch)
<1>1. /\ st.rows \in Rows /\ st.applied \in Seq(Applied) /\ st.conflicts \in Seq(Conflict)
      /\ input.id \in Records /\ st.rows[input.id] \in Row
  BY DEF PushState, Input, Rows
<1>2. LET next == ApplyInput(st, input)
      IN  NotesTrue(next.applied, next.conflicts, next.rows, batch)
  <2> DEFINE next == ApplyInput(st, input)
             row == Written(st.rows[input.id], input, st.seq + 1)
             note == [id |-> input.id, rev |-> row.rev, seq |-> row.seq]
  <2>1. /\ next \in PushState /\ next.rows \in Rows
        /\ next.applied = Append(st.applied, note) /\ next.conflicts = st.conflicts
        /\ next.rows = [st.rows EXCEPT ![input.id] = row]
    BY PushStateType DEF ApplyInput, PushState
  <2>2. /\ row.rev = st.rows[input.id].rev + 1 /\ row.body = input.body
        /\ row.deleted = input.deleted
    BY DEF Written
  <2>3. /\ next.rows[input.id] = row
        /\ \A r \in Records : next.rows[r] # st.rows[r] => next.rows[r].rev > st.rows[r].rev
    BY <1>1, <2>1, <2>2 DEF Rows, Row
  <2>4. NotesTrue(st.applied, st.conflicts, next.rows, batch)
    <3> HIDE DEF next
    <3> QED BY <1>1, <2>1, <2>3, NotesStay
  <2>5. row \in Row /\ row.rev \in Nat
    BY <1>1, <2>1, <2>3 DEF Rows, Row
  <2>6. note.id = input.id /\ note.rev = row.rev /\ note.seq = row.seq
    OBVIOUS
  <2> HIDE DEF next, row, note
  <2>7. AppliedTrue(note, next.rows, batch)
    BY <2>2, <2>3, <2>5, <2>6 DEF AppliedTrue
  <2>8. \A i \in DOMAIN next.applied :
            next.applied[i] = note \/ (i \in DOMAIN st.applied /\ next.applied[i] = st.applied[i])
    BY <1>1, <2>1
  <2>9. NotesTrue(next.applied, next.conflicts, next.rows, batch)
    BY <2>1, <2>4, <2>7, <2>8 DEF NotesTrue
  <2> QED BY <2>9 DEF next
<1>3. LET next == RejectInput(st, input)
      IN  NotesTrue(next.applied, next.conflicts, next.rows, batch)
  <2> DEFINE next == RejectInput(st, input)
             note == [id |-> input.id, current |-> st.rows[input.id]]
  <2>1. /\ next.applied = st.applied /\ next.conflicts = Append(st.conflicts, note)
        /\ next.rows = st.rows
    BY DEF RejectInput
  <2>2. note.id = input.id /\ note.current = st.rows[input.id]
    OBVIOUS
  <2> HIDE DEF next, note
  <2>3. ConflictTrue(note, st.rows)
    BY <1>1, <2>2 DEF ConflictTrue, Row
  <2>4. \A i \in DOMAIN next.conflicts :
            \/ next.conflicts[i] = note
            \/ i \in DOMAIN st.conflicts /\ next.conflicts[i] = st.conflicts[i]
    BY <1>1, <2>1
  <2>5. NotesTrue(next.applied, next.conflicts, next.rows, batch)
    BY <2>1, <2>3, <2>4 DEF NotesTrue
  <2> QED BY <2>5 DEF next
<1> QED BY <1>2, <1>3

\* A writer that does not move keeps its answer true, whatever others commit.
LEMMA CommitKeepsAnswer ==
    ASSUME TypeOK, TypeOK', StoreInv, [Next]_vars, NEW w \in Writers, WriterOK(w),
           UNCHANGED <<stage[w], request[w], answer[w]>>,
           stage[w] = "push" => UNCHANGED <<tx, todo>>
    PROVE  WriterOK(w)'
<1>1. /\ vaultSeq \in Nat /\ vaultSeq' \in Nat /\ vaultSeq' >= vaultSeq
      /\ rows \in Rows /\ rows' \in Rows
      /\ \A r \in Records : rows'[r] # rows[r] => rows'[r].rev > rows[r].rev
  BY StoreStep DEF TypeOK
<1>2. answer[w].applied \in Seq(Applied) /\ answer[w].conflicts \in Seq(Conflict)
      /\ answer[w].seq \in Nat
  BY DEF TypeOK, Answer
<1>3. CASE stage[w] = "answered"
  <2>1. NotesTrue(answer[w].applied, answer[w].conflicts, rows', request[w])
    BY <1>1, <1>2, <1>3, NotesStay DEF WriterOK
  <2> QED BY <1>1, <1>2, <1>3, <2>1 DEF WriterOK
<1>4. CASE stage[w] # "answered"
  BY <1>4 DEF WriterOK
<1> QED BY <1>3, <1>4

\* A writer's own steps keep it.
LEMMA WriterKeepsAnswer ==
    ASSUME TypeOK, StoreInv, NEW w \in Writers, WriterNext(w), WriterOK(w)
    PROVE  WriterOK(w)'
<1>1. /\ stage \in [Callers -> Stages] /\ request \in [Writers -> Seq(Input)]
      /\ answer \in [Writers -> Answer] /\ w \in Callers /\ todo \in Seq(Input)
      /\ tx \in PushState /\ vaultSeq \in Nat
  BY DEF TypeOK
<1>2. CASE SendPush(w)
  BY <1>1, <1>2 DEF SendPush, Goto, WriterOK
<1>3. CASE BeginTx(w)
  <2>1. /\ stage'[w] = "push" /\ todo' = request[w] /\ request' = request
        /\ tx'.applied = << >> /\ tx'.conflicts = << >>
    BY <1>1, <1>3 DEF BeginTx, Goto, BeginPush, writerVars
  <2>2. NotesTrue(tx'.applied, tx'.conflicts, tx'.rows, request'[w])
    BY <2>1 DEF NotesTrue
  <2>3. Requested(todo', request'[w])
    BY <2>1 DEF Requested
  <2> QED BY <2>1, <2>2, <2>3 DEF WriterOK
<1>4. CASE ApplyNext(w) \/ RejectNext(w)
  <2> DEFINE input == Head(todo)
  <2>1. /\ stage[w] = "push" /\ stage' = stage /\ request' = request /\ todo # << >>
        /\ todo' = Tail(todo)
        /\ tx' = ApplyInput(tx, input) \/ tx' = RejectInput(tx, input)
    BY <1>4 DEF ApplyNext, RejectNext, At, writerVars
  <2>2. input \in Input /\ \E j \in DOMAIN request[w] : request[w][j] = input
    BY <1>1, <2>1 DEF WriterOK, Requested
  <2>3. Stamped(tx.seq, tx.rows) /\ NotesTrue(tx.applied, tx.conflicts, tx.rows, request[w])
    BY <2>1, OpenTransaction DEF WriterOK
  <2> HIDE DEF input
  <2>4. NotesTrue(tx'.applied, tx'.conflicts, tx'.rows, request[w])
    BY <1>1, <2>1, <2>2, <2>3, NotesGrow
  <2>5. Requested(todo', request[w])
    <3>1. Requested(todo, request[w])
      BY <2>1 DEF WriterOK
    <3>2. \A i \in DOMAIN Tail(todo) : i + 1 \in DOMAIN todo /\ Tail(todo)[i] = todo[i + 1]
      BY <1>1, <2>1
    <3> QED BY <2>1, <3>1, <3>2 DEF Requested
  <2> QED BY <2>1, <2>4, <2>5 DEF WriterOK
<1>5. CASE Commit(w)
  <2>1. /\ stage[w] = "push" /\ stage'[w] = "answered" /\ request' = request
        /\ rows' = tx.rows /\ vaultSeq' = tx.seq /\ answer'[w] = AnswerOf(tx)
    BY <1>1, <1>5 DEF Commit, At, Goto
  <2>2. /\ answer'[w].seq = tx.seq /\ answer'[w].applied = tx.applied
        /\ answer'[w].conflicts = tx.conflicts /\ tx.seq \in Nat
    BY <1>1, <2>1 DEF AnswerOf, PushState
  <2> QED BY <2>1, <2>2 DEF WriterOK
<1>6. CASE Rollback(w) \/ PushFails(w) \/ TakeAnswer(w)
  BY <1>1, <1>6 DEF Rollback, PushFails, TakeAnswer, Goto, WriterOK
<1> QED BY <1>2, <1>3, <1>4, <1>5, <1>6 DEF WriterNext, PushStep

LEMMA AnswerStep ==
    ASSUME TypeOK, TypeOK', StoreInv, AnswerInv, [Next]_vars
    PROVE  AnswerInv'
<1> SUFFICES ASSUME NEW w \in Writers
             PROVE  WriterOK(w)'
  BY DEF AnswerInv
<1>1. WriterOK(w) /\ w \in Callers /\ stage \in [Callers -> Stages]
      /\ request \in [Writers -> Seq(Input)] /\ answer \in [Writers -> Answer]
  BY DEF AnswerInv, TypeOK
<1>2. CASE UNCHANGED vars
  BY <1>1, <1>2, CommitKeepsAnswer DEF vars, txVars, writerVars
<1>3. CASE \E c \in Callers : EnsureVault(c)
  <2>1. PICK c \in Callers : EnsureVault(c)
    BY <1>3
  <2>2. UNCHANGED <<txVars, writerVars>> /\ stage[c] \in {"lookup", "insert", "relook"}
        /\ \E there \in {"refs", "begin", "insert", "relook"} : Goto(c, there)
    BY <2>1 DEF EnsureVault, FindVault, InsertVault, FindVaultAgain, AfterVault, At
  <2>3. CASE c = w
    BY <1>1, <2>2, <2>3 DEF Goto, WriterOK
  <2>4. CASE c # w
    <3>1. stage'[w] = stage[w]
      BY <1>1, <2>2, <2>4 DEF Goto
    <3> QED BY <1>1, <2>2, <3>1, CommitKeepsAnswer DEF txVars, writerVars
  <2> QED BY <2>3, <2>4
<1>4. CASE \E c \in Readers : ReaderNext(c)
  <2>1. PICK c \in Readers : ReaderNext(c)
    BY <1>4
  <2>2. c # w
    BY <2>1
  <2>3. UNCHANGED <<txVars, writerVars>> /\ stage'[w] = stage[w]
    BY <1>1, <2>1, <2>2
       DEF ReaderNext, PullStep, SaveStep, StartSync, QueryRefs, FetchRecord, ReadMore,
           SavePage, SaveLastPage, StopWhileSaving, PullFails, Goto
  <2> QED BY <1>1, <2>3, CommitKeepsAnswer DEF txVars, writerVars
<1>5. CASE \E x \in Writers : WriterNext(x)
  <2>1. PICK x \in Writers : WriterNext(x)
    BY <1>5
  <2>2. CASE x = w
    BY <1>1, <2>1, <2>2, WriterKeepsAnswer
  <2>3. CASE x # w
    <3>1. /\ stage'[w] = stage[w] /\ request'[w] = request[w] /\ answer'[w] = answer[w]
      BY <1>1, <2>1, <2>3
         DEF WriterNext, PushStep, SendPush, BeginTx, ApplyNext, RejectNext, Commit, Rollback,
             PushFails, TakeAnswer, Goto, writerVars
    <3>2. stage[w] = "push" => UNCHANGED <<tx, todo>>
      <4> SUFFICES ASSUME stage[w] = "push"
                   PROVE  UNCHANGED <<tx, todo>>
        OBVIOUS
      <4>1. stage[x] # "push" /\ conn = w
        BY <2>3, OpenTransaction
      <4> QED BY <2>1, <4>1
              DEF WriterNext, PushStep, SendPush, BeginTx, ApplyNext, RejectNext, Commit,
                  Rollback, PushFails, TakeAnswer, At, ConnectionFree, txVars
    <3> QED BY <1>1, <3>1, <3>2, CommitKeepsAnswer
  <2> QED BY <2>2, <2>3
<1> QED BY <1>2, <1>3, <1>4, <1>5 DEF Next

\* What a push answers is what the database says, from the commit on: an input reported
\* applied is at the reported rev and seq with the content sent, or has been overwritten
\* since; a conflict carries the record as it was.
THEOREM AnswersAreCommittedAlways == Spec => []AnswersAreCommitted
<1>1. Init => AnswerInv
  BY DEF Init, AnswerInv, WriterOK
<1>2. TypeOK /\ TypeOK' /\ StoreInv /\ AnswerInv /\ [Next]_vars => AnswerInv'
  BY AnswerStep
<1>3. AnswerInv => AnswersAreCommitted
  BY DEF AnswerInv, WriterOK, NotesTrue, AppliedTrue, ConflictTrue, AnswersAreCommitted, At
<1> QED BY <1>1, <1>2, <1>3, TypeCorrect, StoreInvariant, PTL DEF Spec

-----------------------------------------------------------------------------
(***************************************************************************)
(* A push happens at one moment (AtomicVault).  That moment is the commit: *)
(* by then the transaction is in the state PushAll computes from the       *)
(* vault as it is, because nobody else could commit since BeginTx.         *)
(***************************************************************************)

\* A transaction that has looked at k inputs of its request is where Pushed says.
RunsRequest(batch) ==
    \E k \in 0 .. Len(batch) :
        /\ Len(todo) = Len(batch) - k
        /\ \A i \in 1 .. Len(todo) : todo[i] = batch[k + i]
        /\ tx = Pushed(vaultSeq, rows, batch)[k]

CallOK(w) ==
    /\ stage[w] = "idle" <=> request[w] = << >>
    /\ stage[w] # "answered" => answer[w] = NoAnswer
    /\ stage[w] = "push" => RunsRequest(request[w])

RunInv == \A w \in Writers : CallOK(w)

\* Nobody sends a request without inputs.
LEMMA RequestsNotEmpty ==
    ASSUME NEW b \in Requests
    PROVE  b # << >>
<1>1. PICK n \in 1 .. MaxBatch : b \in [1 .. n -> Inputs]
  BY DEF Requests
<1>2. Len(b) = n
  BY <1>1
<1> QED BY <1>2

\* A writer that does not move stays where it is.
LEMMA OthersKeepCall ==
    ASSUME NEW w \in Writers, CallOK(w), UNCHANGED <<stage[w], request[w], answer[w]>>,
           stage[w] = "push" => UNCHANGED <<tx, todo, vaultSeq, rows>>
    PROVE  CallOK(w)'
BY DEF CallOK, RunsRequest

\* The steps of a push keep its transaction on the run of its request.
LEMMA InputKeepsRun ==
    ASSUME TypeOK, NEW w \in Writers, CallOK(w), ApplyNext(w) \/ RejectNext(w)
    PROVE  CallOK(w)'
<1> DEFINE batch == request[w]
<1>1. /\ stage[w] = "push" /\ stage' = stage /\ request' = request /\ answer' = answer
      /\ vaultSeq' = vaultSeq /\ rows' = rows /\ todo # << >> /\ todo' = Tail(todo)
      /\ tx' = PushOne(tx, Head(todo))
  BY DEF ApplyNext, RejectNext, At, writerVars, serverVars, PushOne
<1>2. batch \in Seq(Input) /\ todo \in Seq(Input)
  BY DEF TypeOK
<1>3. PICK k \in 0 .. Len(batch) :
        /\ Len(todo) = Len(batch) - k
        /\ \A i \in 1 .. Len(todo) : todo[i] = batch[k + i]
        /\ tx = Pushed(vaultSeq, rows, batch)[k]
  BY <1>1 DEF CallOK, RunsRequest
<1>4. Len(todo) >= 1 /\ k + 1 \in 1 .. Len(batch) /\ Head(todo) = batch[k + 1]
  BY <1>1, <1>2, <1>3
<1>5. tx' = Pushed(vaultSeq, rows, batch)[k + 1]
  <2>1. Pushed(vaultSeq, rows, batch)[k + 1] =
          PushOne(Pushed(vaultSeq, rows, batch)[(k + 1) - 1], batch[k + 1])
    BY <1>2, <1>4, PushedSteps
  <2>2. (k + 1) - 1 = k
    BY <1>3
  <2> QED BY <1>1, <1>3, <1>4, <2>1, <2>2
<1>6. /\ Len(todo') = Len(batch) - (k + 1)
      /\ \A i \in 1 .. Len(todo') : todo'[i] = batch[(k + 1) + i]
  <2>1. Len(todo') = Len(todo) - 1 /\ \A i \in 1 .. Len(todo') : todo'[i] = todo[i + 1]
    BY <1>1, <1>2, <1>4
  <2>2. ASSUME NEW i \in 1 .. Len(todo')
        PROVE  todo'[i] = batch[(k + 1) + i]
    <3>1. i + 1 \in 1 .. Len(todo) /\ k + (i + 1) = (k + 1) + i
      BY <1>2, <2>1
    <3> QED BY <1>3, <2>1, <3>1
  <2> QED BY <1>2, <1>3, <2>1, <2>2
<1>7. RunsRequest(batch)'
  <2>1. k + 1 \in 0 .. Len(batch)
    BY <1>4
  <2> QED BY <1>1, <1>5, <1>6, <2>1 DEF RunsRequest
<1> QED BY <1>1, <1>7 DEF CallOK

\* A writer's own steps keep its call.
LEMMA WriterKeepsCall ==
    ASSUME TypeOK, NEW w \in Writers, WriterNext(w), CallOK(w)
    PROVE  CallOK(w)'
<1>1. /\ stage \in [Callers -> Stages] /\ request \in [Writers -> Seq(Input)]
      /\ answer \in [Writers -> Answer] /\ w \in Callers
  BY DEF TypeOK
<1>2. CASE SendPush(w)
  <2>1. PICK b \in Requests : request'[w] = b /\ b # << >>
    BY <1>1, <1>2, RequestsNotEmpty DEF SendPush
  <2>2. stage[w] = "idle" /\ stage'[w] = "lookup" /\ answer' = answer
    BY <1>1, <1>2 DEF SendPush, At, Goto
  <2> QED BY <2>1, <2>2 DEF CallOK
<1>3. CASE BeginTx(w)
  <2>1. /\ stage[w] = "begin" /\ stage'[w] = "push" /\ request' = request /\ answer' = answer
        /\ todo' = request[w] /\ vaultSeq' = vaultSeq /\ rows' = rows
        /\ tx' = BeginPush(vaultSeq, rows)
    BY <1>1, <1>3 DEF BeginTx, At, Goto, writerVars, serverVars
  <2>2. request[w] \in Seq(Input) /\ Len(request[w]) \in Nat
    BY <1>1
  <2>3. tx' = Pushed(vaultSeq, rows, request[w])[0]
    BY <2>1, <2>2, PushedSteps
  <2>4. RunsRequest(request[w])'
    <3>1. /\ 0 \in 0 .. Len(request[w]) /\ Len(request[w]) = Len(request[w]) - 0
          /\ \A i \in 1 .. Len(request[w]) : 0 + i = i
      BY <2>2
    <3> QED BY <2>1, <2>3, <3>1 DEF RunsRequest
  <2> QED BY <2>1, <2>4 DEF CallOK
<1>4. CASE ApplyNext(w) \/ RejectNext(w)
  BY <1>4, InputKeepsRun
<1>5. CASE Commit(w)
  BY <1>1, <1>5 DEF Commit, At, Goto, CallOK
<1>6. CASE Rollback(w)
  BY <1>1, <1>6 DEF Rollback, At, Goto, CallOK
<1>7. CASE PushFails(w)
  BY <1>1, <1>7 DEF PushFails, Goto, CallOK
<1>8. CASE TakeAnswer(w)
  BY <1>1, <1>8 DEF TakeAnswer, At, Goto, CallOK
<1> QED BY <1>2, <1>3, <1>4, <1>5, <1>6, <1>7, <1>8 DEF WriterNext, PushStep

\* Looking the vault up or creating it is part of a call that has not begun its
\* transaction, and leaves the vault's seq and rows alone.
LEMMA EnsureVaultMoves ==
    ASSUME TypeOK, NEW c \in Callers, EnsureVault(c)
    PROVE  /\ UNCHANGED <<txVars, writerVars>>
           /\ stage[c] \in {"lookup", "insert", "relook"}
           /\ \E there \in {"refs", "begin", "insert", "relook"} : Goto(c, there)
BY DEF EnsureVault, FindVault, InsertVault, FindVaultAgain, AfterVault, At

\* A reader is never a writer.
LEMMA ReaderMoves ==
    ASSUME TypeOK, NEW c \in Readers, ReaderNext(c), NEW w \in Writers
    PROVE  UNCHANGED <<txVars, writerVars>> /\ stage'[w] = stage[w]
<1>1. c # w /\ c \in Callers /\ w \in Callers /\ stage \in [Callers -> Stages]
  BY DEF TypeOK
<1> QED BY <1>1 DEF ReaderNext, PullStep, SaveStep, StartSync, QueryRefs, FetchRecord,
        ReadMore, SavePage, SaveLastPage, StopWhileSaving, PullFails, Goto

LEMMA RunStep ==
    ASSUME TypeOK, StoreInv, RunInv, [Next]_vars
    PROVE  RunInv'
<1> SUFFICES ASSUME NEW w \in Writers
             PROVE  CallOK(w)'
  BY DEF RunInv
<1>1. CallOK(w) /\ w \in Callers /\ stage \in [Callers -> Stages]
      /\ request \in [Writers -> Seq(Input)] /\ answer \in [Writers -> Answer]
  BY DEF RunInv, TypeOK
<1>2. CASE UNCHANGED vars
  BY <1>1, <1>2, OthersKeepCall DEF vars, serverVars, txVars, writerVars
<1>3. CASE \E c \in Callers : EnsureVault(c)
  <2>1. PICK c \in Callers : EnsureVault(c)
    BY <1>3
  <2>2. UNCHANGED <<txVars, writerVars, vaultSeq, rows>>
    BY <2>1, EnsureVaultMoves, EnsureVaultKeepsStore
  <2>3. PICK there \in {"refs", "begin", "insert", "relook"} : Goto(c, there)
    BY <2>1, EnsureVaultMoves
  <2>4. stage[c] \in {"lookup", "insert", "relook"}
    BY <2>1, EnsureVaultMoves
  <2>5. CASE c = w
    BY <1>1, <2>2, <2>3, <2>4, <2>5 DEF Goto, CallOK, writerVars
  <2>6. CASE c # w
    <3>1. stage'[w] = stage[w]
      BY <1>1, <2>3, <2>6 DEF Goto
    <3> QED BY <1>1, <2>2, <3>1, OthersKeepCall DEF txVars, writerVars
  <2> QED BY <2>5, <2>6
<1>4. CASE \E c \in Readers : ReaderNext(c)
  <2>1. PICK c \in Readers : ReaderNext(c)
    BY <1>4
  <2>2. UNCHANGED <<txVars, writerVars, vaultSeq, rows, stage[w]>>
    BY <2>1, ReaderMoves, ReaderKeepsStore
  <2> QED BY <1>1, <2>2, OthersKeepCall DEF txVars, writerVars
<1>5. CASE \E x \in Writers : WriterNext(x)
  <2>1. PICK x \in Writers : WriterNext(x)
    BY <1>5
  <2>2. CASE x = w
    BY <1>1, <2>1, <2>2, WriterKeepsCall
  <2>3. CASE x # w
    <3>1. /\ stage'[w] = stage[w] /\ request'[w] = request[w] /\ answer'[w] = answer[w]
      BY <1>1, <2>1, <2>3
         DEF WriterNext, PushStep, SendPush, BeginTx, ApplyNext, RejectNext, Commit, Rollback,
             PushFails, TakeAnswer, Goto, writerVars
    <3>2. stage[w] = "push" => UNCHANGED <<tx, todo, vaultSeq, rows>>
      <4> SUFFICES ASSUME stage[w] = "push"
                   PROVE  UNCHANGED <<tx, todo, vaultSeq, rows>>
        OBVIOUS
      <4>1. stage[x] # "push" /\ conn = w /\ conn # Nobody
        BY <2>3, OpenTransaction
      <4> QED BY <2>1, <4>1
              DEF WriterNext, PushStep, SendPush, BeginTx, ApplyNext, RejectNext, Commit,
                  Rollback, PushFails, TakeAnswer, At, ConnectionFree, txVars, serverVars
    <3> QED BY <1>1, <3>1, <3>2, OthersKeepCall
  <2> QED BY <2>2, <2>3
<1> QED BY <1>2, <1>3, <1>4, <1>5 DEF Next

\* AtomicVault's view of a whole push is PushBatch's.
LEMMA SamePush ==
    ASSUME NEW seq, NEW store, NEW batch
    PROVE  /\ Atomic!PushAll(seq, store, batch) = Pushed(seq, store, batch)[Len(batch)]
           /\ \A st : Atomic!AnswerOf(st) = AnswerOf(st)
           /\ Atomic!NoAnswer = NoAnswer /\ Atomic!NoRows = NoRows
<1>1. Atomic!PushAll(seq, store, batch) = Pushed(seq, store, batch)[Len(batch)]
  BY Zenon DEF Atomic!PushAll, Atomic!Pushed, Pushed, Atomic!BeginPush, BeginPush,
         Atomic!PushOne, PushOne, Atomic!Accepts, Accepts, Atomic!ApplyInput, ApplyInput,
         Atomic!RejectInput, RejectInput, Atomic!Written, Written, Atomic!Absent, Absent
<1>2. /\ \A st : Atomic!AnswerOf(st) = AnswerOf(st)
      /\ Atomic!NoAnswer = NoAnswer /\ Atomic!NoRows = NoRows
  BY DEF Atomic!AnswerOf, AnswerOf, Atomic!NoAnswer, NoAnswer, NoPush, Atomic!BeginPush,
         BeginPush, Atomic!NoRows, NoRows, Atomic!Absent, Absent
<1> QED BY <1>1, <1>2

\* The writers' steps are AtomicVault's, or are not seen there.
LEMMA WriterStepMaps ==
    ASSUME TypeOK, StoreInv, RunInv, NEW w \in Writers, WriterNext(w)
    PROVE  Atomic!Next \/ UNCHANGED Atomic!vars
<1>1. /\ CallOK(w) /\ request \in [Writers -> Seq(Input)] /\ answer \in [Writers -> Answer]
      /\ todo \in Seq(Input)
  BY DEF RunInv, TypeOK
<1>2. CASE SendPush(w)
  <2>1. request[w] = << >>
    BY <1>1, <1>2 DEF SendPush, At, CallOK
  <2>2. Atomic!Send(w)
    BY <1>2, <2>1 DEF SendPush, Atomic!Send, serverVars
  <2> QED BY <2>2 DEF Atomic!Next
<1>3. CASE BeginTx(w) \/ ApplyNext(w) \/ RejectNext(w)
  BY <1>3 DEF BeginTx, ApplyNext, RejectNext, Atomic!vars, serverVars, writerVars
<1>4. CASE Commit(w)
  <2> DEFINE batch == request[w]
  <2>1. /\ stage[w] = "push" /\ todo = << >> /\ vaultSeq' = tx.seq /\ rows' = tx.rows
        /\ answer' = [answer EXCEPT ![w] = AnswerOf(tx)] /\ request' = request
    BY <1>4 DEF Commit, At
  <2>2. request[w] # << >> /\ answer[w] = NoAnswer /\ RunsRequest(batch)
    BY <1>1, <2>1 DEF CallOK
  <2>3. tx = Pushed(vaultSeq, rows, batch)[Len(batch)]
    <3>1. PICK k \in 0 .. Len(batch) :
            Len(todo) = Len(batch) - k /\ tx = Pushed(vaultSeq, rows, batch)[k]
      BY <2>2 DEF RunsRequest
    <3>2. batch \in Seq(Input)
      BY <1>1
    <3>3. k = Len(batch)
      BY <2>1, <3>1, <3>2
    <3> QED BY <3>1, <3>3
  <2>4. Atomic!Push(w)
    BY <2>1, <2>2, <2>3, SamePush DEF Atomic!Push
  <2> QED BY <2>4 DEF Atomic!Next
<1>5. CASE Rollback(w) \/ PushFails(w) \/ TakeAnswer(w)
  <2>1. /\ request' = [request EXCEPT ![w] = << >>] /\ vaultSeq' = vaultSeq /\ rows' = rows
        /\ answer' = [answer EXCEPT ![w] = NoAnswer]
    <3>1. CASE Rollback(w) \/ PushFails(w)
      <4>1. answer' = answer /\ answer[w] = NoAnswer
        BY <1>1, <3>1 DEF Rollback, PushFails, At, CallOK
      <4> QED BY <1>1, <3>1, <4>1 DEF Rollback, PushFails, serverVars
    <3>2. CASE TakeAnswer(w)
      BY <3>2 DEF TakeAnswer, serverVars
    <3> QED BY <1>5, <3>1, <3>2
  <2>2. Atomic!Finish(w)
    BY <2>1, SamePush DEF Atomic!Finish
  <2> QED BY <2>2 DEF Atomic!Next
<1> QED BY <1>2, <1>3, <1>4, <1>5 DEF WriterNext, PushStep

\* A push happens at one moment, whole or not at all, and is answered with the outcome
\* of that moment: the record store implements AtomicVault, for any number of callers
\* and of inputs.
THEOREM PushIsAtomicAlways == Spec => PushIsAtomic
<1>1. Init => RunInv
  BY DEF Init, RunInv, CallOK
<1>2. TypeOK /\ StoreInv /\ RunInv /\ [Next]_vars => RunInv'
  BY RunStep
<1>3. Init => Atomic!Init
  BY SamePush DEF Init, Atomic!Init
<1>4. TypeOK /\ StoreInv /\ RunInv /\ [Next]_vars => [Atomic!Next]_(Atomic!vars)
  <2> SUFFICES ASSUME TypeOK, StoreInv, RunInv, [Next]_vars
               PROVE  Atomic!Next \/ UNCHANGED Atomic!vars
    OBVIOUS
  <2>1. CASE UNCHANGED vars
    BY <2>1 DEF vars, serverVars, writerVars, Atomic!vars
  <2>2. CASE \E c \in Callers : EnsureVault(c)
    BY <2>2, EnsureVaultMoves, EnsureVaultKeepsStore DEF writerVars, Atomic!vars
  <2>3. CASE \E c \in Readers : ReaderNext(c)
    <3>1. UNCHANGED <<vaultSeq, rows>>
      BY <2>3, ReaderKeepsStore
    <3>2. UNCHANGED writerVars
      BY <2>3 DEF ReaderNext, PullStep, SaveStep, StartSync, QueryRefs, FetchRecord,
              ReadMore, SavePage, SaveLastPage, StopWhileSaving, PullFails
    <3> QED BY <3>1, <3>2 DEF writerVars, Atomic!vars
  <2>4. CASE \E w \in Writers : WriterNext(w)
    BY <2>4, WriterStepMaps
  <2> QED BY <2>1, <2>2, <2>3, <2>4 DEF Next
<1> QED BY <1>1, <1>2, <1>3, <1>4, TypeCorrect, StoreInvariant, PTL
        DEF Spec, PushIsAtomic, Atomic!Spec
=============================================================================
