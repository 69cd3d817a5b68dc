---------------------------- MODULE VaultRecords ----------------------------
(***************************************************************************)
(* The rows one user's vault keeps in the server's SQLite database, and    *)
(* what a push does to them, one input at a time.                          *)
(*                                                                         *)
(* Items, groups, accounts and relations live in four tables with the same *)
(* version columns (id, rev, seq, deleted), and PushRecords treats the     *)
(* four alike; a record here is a row of any of them.  What the server     *)
(* stores without reading it (ciphertext, metadata, updated_at) is the     *)
(* row's body.  Every statement filters on user_id, so that the vaults of  *)
(* two users never meet: one vault is modelled.                            *)
(***************************************************************************)
EXTENDS Naturals, Sequences, FiniteSets

CONSTANTS
    Records,    \* ids of the records, chosen by the clients
    Bodies,     \* what a row carries that the server does not read
    NoBody,     \* the body of a tombstone
    NoRev       \* expected_rev: null, "this must be a new record"

ASSUME NoRevAssumption == NoRev \notin Nat

\* Columns of a row.  rev = 0 stands for "no row with this id".
Row == [rev : Nat, seq : Nat, deleted : BOOLEAN, body : Bodies \union {NoBody}]

Absent == [rev |-> 0, seq |-> 0, deleted |-> FALSE, body |-> NoBody]

Rows == [Records -> Row]

NoRows == [r \in Records |-> Absent]

\* One entry of a push request.
Input == [id : Records, expected : {NoRev} \union Nat,
          deleted : BOOLEAN, body : Bodies \union {NoBody}]

\* A row is replaced only by an input that names its current rev, and created
\* only by an input that names none.
Accepts(row, input) ==
    IF row = Absent THEN input.expected = NoRev ELSE input.expected = row.rev

\* Mutant: a deletion removes the row instead of leaving a tombstone.
WrittenOrRemoved(row, input, seq) ==
    IF input.deleted
      THEN Absent
      ELSE [rev |-> row.rev + 1, seq |-> seq, deleted |-> FALSE, body |-> input.body]

Written(row, input, seq) ==
    [rev |-> row.rev + 1, seq |-> seq,
     deleted |-> input.deleted, body |-> input.body]

-----------------------------------------------------------------------------
(***************************************************************************)
(* The working state of the transaction PushRecords runs: the vault's seq, *)
(* the rows as the transaction sees them and the answer it builds up.      *)
(***************************************************************************)
Applied == [id : Records, rev : Nat, seq : Nat]

Conflict == [id : Records, current : Row]

PushState == [seq : Nat, rows : Rows, applied : Seq(Applied), conflicts : Seq(Conflict)]

BeginPush(seq, rows) ==
    [seq |-> seq, rows |-> rows, applied |-> << >>, conflicts |-> << >>]

\* PushRecords' return value; seq is the response's next_seq.
Answer == [seq : Nat, applied : Seq(Applied), conflicts : Seq(Conflict)]

AnswerOf(st) == [seq |-> st.seq, applied |-> st.applied, conflicts |-> st.conflicts]

ApplyInput(st, input) ==
    LET row == Written(st.rows[input.id], input, st.seq + 1)
    IN  [seq       |-> st.seq + 1,
         rows      |-> [st.rows EXCEPT ![input.id] = row],
         applied   |-> Append(st.applied, [id |-> input.id, rev |-> row.rev, seq |-> row.seq]),
         conflicts |-> st.conflicts]

RejectInput(st, input) ==
    [seq       |-> st.seq,
     rows      |-> st.rows,
     applied   |-> st.applied,
     conflicts |-> Append(st.conflicts, [id |-> input.id, current |-> st.rows[input.id]])]

PushOne(st, input) ==
    IF Accepts(st.rows[input.id], input)
      THEN ApplyInput(st, input)
      ELSE RejectInput(st, input)

-----------------------------------------------------------------------------
(***************************************************************************)
(* PullRecords' first statement: the refs of the records newer than the    *)
(* cursor, in seq order, cut at the limit.                                 *)
(***************************************************************************)
Newer(rows, since) == {r \in Records : rows[r].seq > since}

\* P is the first page of the records newer than since.
IsPage(P, rows, since, limit) ==
    /\ P \subseteq Newer(rows, since)
    /\ \A r \in P, q \in Newer(rows, since) \ P : rows[r].seq < rows[q].seq
    /\ Cardinality(P) <= limit
    /\ Cardinality(P) < limit => P = Newer(rows, since)

\* n is the largest seq among the refs of the page, or since for an empty page.
IsPageEnd(n, P, rows, since) ==
    IF P = {}
      THEN n = since
      ELSE /\ \E r \in P : rows[r].seq = n
           /\ \A r \in P : rows[r].seq <= n

\* seq numbers the writes of store: each record carries the number of its last
\* write, and the newest write of all is still there to be seen.
Stamped(seq, store) ==
    /\ \A r \in Records : store[r].seq <= seq
    /\ \A r, q \in Records : store[r].seq = store[q].seq /\ store[r].seq # 0 => r = q
    /\ seq # 0 => \E r \in Records : store[r].seq = seq
=============================================================================
