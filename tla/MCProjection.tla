---------------------------- MODULE MCProjection ----------------------------
(***************************************************************************)
(* Projection on two devices.                                              *)
(***************************************************************************)
EXTENDS Projection, TLC
=============================================================================
