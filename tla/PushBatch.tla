----------------------------- MODULE PushBatch -----------------------------
(***************************************************************************)
(* A whole push request: PushRecords' loops as one function of the vault   *)
(* and the batch.  (Module VaultStore takes the transaction input by       *)
(* input; its refinement of AtomicVault says that the two agree.)          *)
(***************************************************************************)
EXTENDS VaultRecords

\* The transaction after each of its inputs.
Pushed(seq, store, batch) ==
    LET after[i \in 0 .. Len(batch)] ==
            IF i = 0 THEN BeginPush(seq, store) ELSE PushOne(after[i - 1], batch[i])
    IN  after

\* The outcome of a batch on a vault, with the answer to it.
PushAll(seq, store, batch) == Pushed(seq, store, batch)[Len(batch)]
=============================================================================
