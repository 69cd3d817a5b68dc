---------------------------- MODULE AtomicVault ----------------------------
(***************************************************************************)
(* What the record store promises the devices that push: a request takes   *)
(* effect at one moment, whole or not at all, and its answer is that of    *)
(* the moment it took effect.  Its inputs are looked at in order, each one *)
(* sees the effect of those before it, those that do not name the record's *)
(* current rev are rejected, and the others take the next seqs.            *)
(***************************************************************************)
EXTENDS PushBatch

CONSTANTS Writers, Requests

VARIABLES vaultSeq, rows, request, answer

vars == <<vaultSeq, rows, request, answer>>

NoAnswer == AnswerOf(BeginPush(0, NoRows))

Init ==
    /\ vaultSeq = 0
    /\ rows = NoRows
    /\ request = [w \in Writers |-> << >>]
    /\ answer = [w \in Writers |-> NoAnswer]

Send(w) ==
    /\ request[w] = << >>
    /\ request' \in {[request EXCEPT ![w] = b] : b \in Requests}
    /\ UNCHANGED <<vaultSeq, rows, answer>>

Push(w) ==
    LET outcome == PushAll(vaultSeq, rows, request[w])
    IN  /\ request[w] # << >>
        /\ answer[w] = NoAnswer
        /\ vaultSeq' = outcome.seq
        /\ rows' = outcome.rows
        /\ answer' = [answer EXCEPT ![w] = AnswerOf(outcome)]
        /\ UNCHANGED request

\* The request is over: answered, or failed without effect.
Finish(w) ==
    /\ request' = [request EXCEPT ![w] = << >>]
    /\ answer' = [answer EXCEPT ![w] = NoAnswer]
    /\ UNCHANGED <<vaultSeq, rows>>

Next == \E w \in Writers : Send(w) \/ Push(w) \/ Finish(w)

Spec == Init /\ [][Next]_vars
=============================================================================
