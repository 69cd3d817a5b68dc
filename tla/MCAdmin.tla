------------------------------- MODULE MCAdmin -------------------------------
(***************************************************************************)
(* Admin with two pages, two users and a device of one of them.            *)
(***************************************************************************)
EXTENDS Admin, TLC

CONSTANTS p1, p2, ana, bo, db

Names == [p \in Pages |-> IF p = p1 THEN ana ELSE bo]

Owners == db :> bo

InFlight == [p \in Pages |-> IF p = p1 THEN 2 ELSE 1]

Nobodies == [u \in Users |-> "none"]

Deployed == ana :> "admin" @@ bo :> "user"

\* A fresh server that two administrators find at a time, and one administrator at work.
Cases ==
    {[role |-> Nobodies, pages |-> {p1, p2}, acts |-> 0, faults |-> 2],
     [role |-> Nobodies, pages |-> {p1, p2}, acts |-> 1, faults |-> 0],
     [role |-> Deployed, pages |-> {p1}, acts |-> 2, faults |-> 1],
     [role |-> Deployed, pages |-> {p1}, acts |-> 3, faults |-> 0]}
=============================================================================
