----------------------------- MODULE VaultStore -----------------------------
(***************************************************************************)
(* The server's record store under concurrent pulls and pushes.            *)
(*                                                                         *)
(* SQLiteStore opens one connection (SetMaxOpenConns(1)): a statement      *)
(* outside a transaction is atomic, a transaction holds the connection     *)
(* from BeginTx to Commit or Rollback, and everyone else waits.  A push is *)
(* one transaction, stepped through here input by input because it may     *)
(* fail half way; a pull is NOT a transaction: it reads the refs of a      *)
(* page, then each record by id, then the vault's seq, and pushes may      *)
(* commit in between.                                                      *)
(*                                                                         *)
(* The callers are devices of one user.  A writer sends pushes; what it    *)
(* does with the answer is module DeviceSync's concern.  A reader is a     *)
(* device with nothing of its own to push: runSync's pull loop, which      *)
(* saves every page and moves the cursor to the page's next_seq, is        *)
(* modelled together with the two places its cursor lives in, memory and   *)
(* chrome.storage.                                                         *)
(***************************************************************************)
EXTENDS VaultRecords

CONSTANTS
    Readers, Writers,   \* the concurrent callers
    Nobody,             \* no caller holds the connection
    PageLimit,          \* the limit of a pull request
    MaxBatch,           \* bound: inputs in a push request
    MaxSeq              \* bound: pushes that could pass it are not sent

Callers == Readers \union Writers

ASSUME CallersAssumption ==
    /\ Readers \intersect Writers = {}
    /\ Nobody \notin Callers

ASSUME BoundsAssumption ==
    /\ PageLimit \in Nat \ {0}
    /\ MaxBatch \in Nat
    /\ MaxSeq \in Nat

\* The inputs the writers send.  Revs no record can reach add nothing; handlePush
\* refuses a live input without a body, and the devices send tombstones without.
Inputs == {input \in [id : Records, expected : {NoRev} \union 0 .. MaxSeq,
                       deleted : BOOLEAN, body : Bodies \union {NoBody}] :
              input.deleted <=> input.body = NoBody}

Requests == UNION {[1 .. n -> Inputs] : n \in 1 .. MaxBatch}

VARIABLES
    vaultExists,    \* is there a row in vaults for the user
    vaultSeq,       \* vaults.seq
    rows,           \* the committed rows of the four record tables
    conn,           \* who holds the connection across statements
    tx,             \* the open transaction of conn's holder
    todo,           \* the inputs of that push not yet looked at
    stage,          \* where each call stands
    request,        \* the push request of each writer
    answer,         \* what PushRecords returns to each writer
    page,           \* the page each reader's pull is assembling
    mark,           \* lastSyncSeq in the memory of a reader's runSync
    cursor,         \* lastSyncSeq in a reader's chrome.storage
    replica         \* a reader's records

serverVars == <<vaultExists, vaultSeq, rows>>
txVars     == <<conn, tx, todo>>
writerVars == <<request, answer>>
readerVars == <<page, mark, cursor, replica>>
vars == <<serverVars, txVars, stage, writerVars, readerVars>>

Stages == {"idle", "lookup", "insert", "relook", "refs", "fetch", "page",
           "begin", "push", "answered"}

\* refs: records still to be fetched; got: rows fetched so far (Absent: none);
\* end: the page's next_seq; more: has_more.
Page == [refs : SUBSET Records, got : Rows, end : Nat, more : BOOLEAN]

NoPage == [refs |-> {}, got |-> NoRows, end |-> 0, more |-> FALSE]

NoPush == BeginPush(0, NoRows)

NoAnswer == AnswerOf(NoPush)

TypeOK ==
    /\ vaultExists \in BOOLEAN
    /\ vaultSeq \in Nat
    /\ rows \in Rows
    /\ conn \in Writers \union {Nobody}
    /\ tx \in PushState
    /\ todo \in Seq(Input)
    /\ stage \in [Callers -> Stages]
    /\ request \in [Writers -> Seq(Input)]
    /\ answer \in [Writers -> Answer]
    /\ page \in [Readers -> Page]
    /\ mark \in [Readers -> Nat]
    /\ cursor \in [Readers -> Nat]
    /\ replica \in [Readers -> Rows]

Init ==
    /\ vaultExists = FALSE
    /\ vaultSeq = 0
    /\ rows = NoRows
    /\ conn = Nobody
    /\ tx = NoPush
    /\ todo = << >>
    /\ stage = [c \in Callers |-> "idle"]
    /\ request = [w \in Writers |-> << >>]
    /\ answer = [w \in Writers |-> NoAnswer]
    /\ page = [c \in Readers |-> NoPage]
    /\ mark = [c \in Readers |-> 0]
    /\ cursor = [c \in Readers |-> 0]
    /\ replica = [c \in Readers |-> NoRows]

At(c, here) == stage[c] = here

Goto(c, there) == stage' = [stage EXCEPT ![c] = there]

\* A statement outside a transaction waits for the connection.
ConnectionFree == conn = Nobody

\* What a call does once GetOrCreateVault has returned.
AfterVault(c) == IF c \in Readers THEN "refs" ELSE "begin"

-----------------------------------------------------------------------------
(***************************************************************************)
(* GetOrCreateVault: look, insert if absent, look again.                   *)
(***************************************************************************)
FindVault(c) ==
    /\ At(c, "lookup")
    /\ ConnectionFree
    /\ Goto(c, IF vaultExists THEN AfterVault(c) ELSE "insert")
    /\ UNCHANGED <<serverVars, txVars, writerVars, readerVars>>

\* Mutant: INSERT OR REPLACE.
InsertOrReplaceVault(c) ==
    /\ At(c, "insert")
    /\ ConnectionFree
    /\ vaultExists' = TRUE
    /\ vaultSeq' = 0
    /\ Goto(c, "relook")
    /\ UNCHANGED <<rows, txVars, writerVars, readerVars>>

\* INSERT OR IGNORE: the row of a vault another call has created meanwhile stays.
InsertVault(c) ==
    /\ At(c, "insert")
    /\ ConnectionFree
    /\ vaultExists' = TRUE
    /\ vaultSeq' = IF vaultExists THEN vaultSeq ELSE 0
    /\ Goto(c, "relook")
    /\ UNCHANGED <<rows, txVars, writerVars, readerVars>>

FindVaultAgain(c) ==
    /\ At(c, "relook")
    /\ ConnectionFree
    /\ vaultExists
    /\ Goto(c, AfterVault(c))
    /\ UNCHANGED <<serverVars, txVars, writerVars, readerVars>>

-----------------------------------------------------------------------------
(***************************************************************************)
(* handlePull and PullRecords, for a reader c.                             *)
(***************************************************************************)

\* Mutant: the refs' result set is not closed, and keeps the connection.
QueryRefsOpen(c) ==
    /\ At(c, "refs")
    /\ ConnectionFree
    /\ \E P \in SUBSET Newer(rows, mark[c]) :
        /\ IsPage(P, rows, mark[c], PageLimit)
        /\ page' = [page EXCEPT ![c] =
                     [refs |-> P, got |-> NoRows, end |-> mark[c], more |-> FALSE]]
    /\ conn' = c
    /\ Goto(c, "fetch")
    /\ UNCHANGED <<serverVars, tx, todo, writerVars, mark, cursor, replica>>

\* SELECT kind, id, seq ... WHERE seq > since ORDER BY seq LIMIT limit.
QueryRefs(c) ==
    /\ At(c, "refs")
    /\ ConnectionFree
    /\ \E P \in SUBSET Newer(rows, mark[c]) :
        /\ IsPage(P, rows, mark[c], PageLimit)
        /\ \E n \in {mark[c]} \union {rows[r].seq : r \in P} :
            /\ IsPageEnd(n, P, rows, mark[c])
            /\ page' = [page EXCEPT ![c] =
                         [refs |-> P, got |-> NoRows, end |-> n, more |-> FALSE]]
    /\ Goto(c, "fetch")
    /\ UNCHANGED <<serverVars, txVars, writerVars, mark, cursor, replica>>

\* GetItem, GetGroup, GetAccount or GetRelation of one ref, as the row is now.
\* (The code goes through the refs in seq order; any order is allowed here.)
FetchRecord(c) ==
    /\ At(c, "fetch")
    /\ ConnectionFree
    /\ \E r \in page[c].refs :
        page' = [page EXCEPT ![c].refs = @ \ {r}, ![c].got[r] = rows[r]]
    /\ UNCHANGED <<serverVars, txVars, stage, writerVars, mark, cursor, replica>>

\* Mutant: next_seq is the vault's seq, as in the answer to a push.
ReadMoreFromVault(c) ==
    /\ At(c, "fetch")
    /\ page[c].refs = {}
    /\ ConnectionFree
    /\ page' = [page EXCEPT ![c].end = vaultSeq]
    /\ Goto(c, "page")
    /\ UNCHANGED <<serverVars, txVars, writerVars, mark, cursor, replica>>

\* The last statement reads the vault's seq.
ReadMore(c) ==
    /\ At(c, "fetch")
    /\ page[c].refs = {}
    /\ ConnectionFree
    /\ page' = [page EXCEPT ![c].more = vaultSeq > page[c].end]
    /\ Goto(c, "page")
    /\ UNCHANGED <<serverVars, txVars, writerVars, mark, cursor, replica>>

-----------------------------------------------------------------------------
(***************************************************************************)
(* A reader's runSync: its pull loop and the cursor.                       *)
(***************************************************************************)
StartSync(c) ==
    /\ At(c, "idle")
    /\ mark' = [mark EXCEPT ![c] = cursor[c]]
    /\ Goto(c, "lookup")
    /\ UNCHANGED <<serverVars, txVars, writerVars, page, cursor, replica>>

\* The records of a page replace the reader's own; a record the page does not
\* carry is left alone.
Merged(c, S) == [r \in Records |->
                    IF r \in S /\ page[c].got[r] # Absent THEN page[c].got[r]
                                                          ELSE replica[c][r]]

\* Save the page, advance lastSyncSeq in memory; pull again while has_more.
SavePage(c) ==
    /\ At(c, "page")
    /\ page[c].more
    /\ replica' = [replica EXCEPT ![c] = Merged(c, Records)]
    /\ mark' = [mark EXCEPT ![c] = page[c].end]
    /\ page' = [page EXCEPT ![c] = NoPage]
    /\ Goto(c, "lookup")
    /\ UNCHANGED <<serverVars, txVars, writerVars, cursor>>

\* The last page: the loop ends and lastSyncSeq is stored.
SaveLastPage(c) ==
    /\ At(c, "page")
    /\ ~page[c].more
    /\ replica' = [replica EXCEPT ![c] = Merged(c, Records)]
    /\ cursor' = [cursor EXCEPT ![c] = page[c].end]
    /\ mark' = [mark EXCEPT ![c] = 0]
    /\ page' = [page EXCEPT ![c] = NoPage]
    /\ Goto(c, "idle")
    /\ UNCHANGED <<serverVars, txVars, writerVars>>

\* The device stops between two of the page's saves: some records are stored,
\* and lastSyncSeq is not.
StopWhileSaving(c) ==
    /\ At(c, "page")
    /\ \E S \in SUBSET Records :
        replica' = [replica EXCEPT ![c] = Merged(c, S)]
    /\ mark' = [mark EXCEPT ![c] = 0]
    /\ page' = [page EXCEPT ![c] = NoPage]
    /\ Goto(c, "idle")
    /\ UNCHANGED <<serverVars, txVars, writerVars, cursor>>

\* A pull fails before its answer arrives (the request is cancelled, the server
\* or the network goes away): runSync returns an error.
PullFails(c) ==
    /\ stage[c] \in {"lookup", "insert", "relook", "refs", "fetch"}
    /\ c \in Readers
    /\ mark' = [mark EXCEPT ![c] = 0]
    /\ page' = [page EXCEPT ![c] = NoPage]
    /\ Goto(c, "idle")
    /\ UNCHANGED <<serverVars, txVars, writerVars, cursor, replica>>

-----------------------------------------------------------------------------
(***************************************************************************)
(* handlePush and PushRecords, for a writer w.                             *)
(***************************************************************************)
SendPush(w) ==
    /\ At(w, "idle")
    /\ \E b \in Requests :
        /\ vaultSeq + Len(b) <= MaxSeq
        /\ request' = [request EXCEPT ![w] = b]
    /\ Goto(w, "lookup")
    /\ UNCHANGED <<serverVars, txVars, answer, readerVars>>

\* BeginTx, SELECT seq FROM vaults.
BeginTx(w) ==
    /\ At(w, "begin")
    /\ ConnectionFree
    /\ conn' = w
    /\ tx' = BeginPush(vaultSeq, rows)
    /\ todo' = request[w]
    /\ Goto(w, "push")
    /\ UNCHANGED <<serverVars, writerVars, readerVars>>

ApplyNext(w) ==
    /\ At(w, "push")
    /\ todo # << >>
    /\ Accepts(tx.rows[Head(todo).id], Head(todo))
    /\ tx' = ApplyInput(tx, Head(todo))
    /\ todo' = Tail(todo)
    /\ UNCHANGED <<serverVars, conn, stage, writerVars, readerVars>>

RejectNext(w) ==
    /\ At(w, "push")
    /\ todo # << >>
    /\ ~Accepts(tx.rows[Head(todo).id], Head(todo))
    /\ tx' = RejectInput(tx, Head(todo))
    /\ todo' = Tail(todo)
    /\ UNCHANGED <<serverVars, conn, stage, writerVars, readerVars>>

\* UPDATE vaults SET seq, Commit, and the answer with next_seq.
Commit(w) ==
    /\ At(w, "push")
    /\ todo = << >>
    /\ vaultSeq' = tx.seq
    /\ rows' = tx.rows
    /\ answer' = [answer EXCEPT ![w] = AnswerOf(tx)]
    /\ conn' = Nobody
    /\ tx' = NoPush
    /\ Goto(w, "answered")
    /\ UNCHANGED <<vaultExists, todo, request, readerVars>>

\* Mutant: a push that was rolled back is answered as if it had been committed.
RollbackAnswered(w) ==
    /\ At(w, "push")
    /\ conn' = Nobody
    /\ tx' = NoPush
    /\ todo' = << >>
    /\ answer' = [answer EXCEPT ![w] = AnswerOf(tx)]
    /\ Goto(w, "answered")
    /\ UNCHANGED <<serverVars, request, readerVars>>

\* Mutant: the inputs already applied stay.
RollbackPartial(w) ==
    /\ At(w, "push")
    /\ vaultSeq' = tx.seq
    /\ rows' = tx.rows
    /\ conn' = Nobody
    /\ tx' = NoPush
    /\ todo' = << >>
    /\ request' = [request EXCEPT ![w] = << >>]
    /\ Goto(w, "idle")
    /\ UNCHANGED <<vaultExists, answer, readerVars>>

\* Mutant: no deferred Rollback, the connection stays with the transaction.
RollbackMissing(w) ==
    /\ At(w, "push")
    /\ tx' = NoPush
    /\ todo' = << >>
    /\ request' = [request EXCEPT ![w] = << >>]
    /\ Goto(w, "idle")
    /\ UNCHANGED <<serverVars, conn, answer, readerVars>>

\* An error return inside the transaction, or a cancelled request: the deferred
\* Rollback undoes the inputs already applied and releases the connection.
Rollback(w) ==
    /\ At(w, "push")
    /\ conn' = Nobody
    /\ tx' = NoPush
    /\ todo' = << >>
    /\ request' = [request EXCEPT ![w] = << >>]
    /\ Goto(w, "idle")
    /\ UNCHANGED <<serverVars, answer, readerVars>>

\* The push fails before its transaction begins.
PushFails(w) ==
    /\ stage[w] \in {"lookup", "insert", "relook", "begin"}
    /\ w \in Writers
    /\ request' = [request EXCEPT ![w] = << >>]
    /\ Goto(w, "idle")
    /\ UNCHANGED <<serverVars, txVars, answer, readerVars>>

\* The answer reaches the writer, or is lost: the server no longer cares.
TakeAnswer(w) ==
    /\ At(w, "answered")
    /\ request' = [request EXCEPT ![w] = << >>]
    /\ answer' = [answer EXCEPT ![w] = NoAnswer]
    /\ Goto(w, "idle")
    /\ UNCHANGED <<serverVars, txVars, readerVars>>

-----------------------------------------------------------------------------
EnsureVault(c) == FindVault(c) \/ InsertVault(c) \/ FindVaultAgain(c)

\* The steps of a pull that nobody but the scheduler holds up.
PullStep(c) == QueryRefs(c) \/ FetchRecord(c) \/ ReadMore(c)

SaveStep(c) == SavePage(c) \/ SaveLastPage(c)

PushStep(w) == BeginTx(w) \/ ApplyNext(w) \/ RejectNext(w) \/ Commit(w)

ReaderNext(c) ==
    StartSync(c) \/ PullStep(c) \/ SaveStep(c) \/ StopWhileSaving(c) \/ PullFails(c)

WriterNext(w) ==
    SendPush(w) \/ PushStep(w) \/ Rollback(w) \/ PushFails(w) \/ TakeAnswer(w)

Next ==
    \/ \E c \in Callers : EnsureVault(c)
    \/ \E c \in Readers : ReaderNext(c)
    \/ \E w \in Writers : WriterNext(w)

Spec == Init /\ [][Next]_vars

(***************************************************************************)
(* Fairness.  A handler runs on once it can; database/sql serves every     *)
(* waiter for the connection, however often others take it in between,     *)
(* which is strong fairness of the steps that wait.  Nothing forces a      *)
(* device to sync or to push, and nothing forces a call to fail.           *)
(***************************************************************************)
Fairness ==
    /\ \A c \in Callers : SF_vars(EnsureVault(c))
    /\ \A c \in Readers : SF_vars(PullStep(c)) /\ WF_vars(SaveStep(c))
    /\ \A w \in Writers : SF_vars(BeginTx(w)) /\ WF_vars(PushStep(w)) /\ WF_vars(TakeAnswer(w))

FairSpec == Spec /\ Fairness

-----------------------------------------------------------------------------
(***************************************************************************)
(* Properties.                                                             *)
(***************************************************************************)

\* The seq column identifies the last write: no two records carry the same seq,
\* none carries one the vault has not reached, and the vault's seq is the seq of
\* some record (otherwise has_more would stay true on empty pages).  It takes
\* GetOrCreateVault, pushes and rollbacks together to get wrong.
SeqsStampWrites == Stamped(vaultSeq, rows)

\* A cursor never passes a write its device does not have: although a pull reads
\* the refs, each record and the vault's seq in separate statements, with pushes
\* committing between them, and although a device may stop between two saves,
\* every record up to the stored lastSyncSeq is on the device, as it is on the
\* server.
CursorMissesNothing ==
    \A c \in Readers, r \in Records :
        rows[r].seq <= cursor[c] => replica[c][r] = rows[r]

\* What PushRecords answers is what the database says: a record reported applied
\* is at the reported rev and seq, with the content sent, or has been
\* overwritten since; a conflict carries the record as it was or an older state
\* of it, never one the database has not committed.
AnswersAreCommitted ==
    \A w \in Writers : At(w, "answered") =>
        /\ answer[w].seq <= vaultSeq
        /\ \A i \in DOMAIN answer[w].applied :
             LET a == answer[w].applied[i]
             IN  /\ rows[a.id].rev >= a.rev
                 /\ rows[a.id].rev = a.rev =>
                      /\ rows[a.id].seq = a.seq
                      /\ \E j \in DOMAIN request[w] :
                            /\ request[w][j].id = a.id
                            /\ request[w][j].body = rows[a.id].body
                            /\ request[w][j].deleted = rows[a.id].deleted
        /\ \A i \in DOMAIN answer[w].conflicts :
             LET k == answer[w].conflicts[i]
             IN  /\ rows[k.id].rev >= k.current.rev
                 /\ rows[k.id].rev = k.current.rev => rows[k.id] = k.current

\* A commit only moves records forward: a record that changes gets a higher rev
\* and a seq above every seq handed out before, and no record disappears; a
\* deletion leaves its tombstone.
RecordsMoveForward ==
    [][\A r \in Records : rows'[r] # rows[r] =>
          /\ rows'[r].rev > rows[r].rev
          /\ rows'[r].seq > vaultSeq
          /\ rows'[r].seq <= vaultSeq']_<<vaultSeq, rows>>

Atomic == INSTANCE AtomicVault

\* Seen by the devices, a push happens at one moment, whole or not at all, and is
\* answered truthfully: VaultStore, where a transaction works input by input, may
\* be rolled back after any of them and shares the database with other calls,
\* implements AtomicVault.
PushIsAtomic == Atomic!Spec

\* Every request comes to an end: the one connection is handed on by every path
\* through a push, and the pull loop stops (has_more does not stay true) once no
\* new writes arrive.
CallsEnd == \A c \in Callers : stage[c] # "idle" ~> stage[c] = "idle"
=============================================================================
