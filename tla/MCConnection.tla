---------------------------- MODULE MCConnection ----------------------------
(***************************************************************************)
(* Connection on two devices.                                              *)
(***************************************************************************)
EXTENDS Connection, TLC

CONSTANTS w1, w2

\* A device nothing happens to is set up once, and its password may be called w1.
SmallChoices == [d \in Devices |-> IF d \in Troubled THEN {w1, w2} ELSE {w1}]
=============================================================================
