---------------------------- MODULE MCLockState ----------------------------
(***************************************************************************)
(* LockState with a few panels, passwords and messages.                    *)
(***************************************************************************)
EXTENDS LockState, TLC
=============================================================================
