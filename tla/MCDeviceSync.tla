---------------------------- MODULE MCDeviceSync ----------------------------
(***************************************************************************)
(* DeviceSync on small sets of devices and records.                        *)
(***************************************************************************)
EXTENDS DeviceSync, TLC

\* Devices and records are interchangeable.
Symmetry == Permutations(Devices) \union Permutations(Records)
=============================================================================
