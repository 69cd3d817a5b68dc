----------------------------- MODULE MCSessions -----------------------------
(***************************************************************************)
(* Sessions on small sets of users, devices, tokens and requests.          *)
(***************************************************************************)
EXTENDS Sessions, TLC

\* Requests, tokens, devices and users are interchangeable.
Symmetry ==
    Permutations(Calls) \union Permutations(Tokens) \union
    Permutations(Devices) \union Permutations(Users)
=============================================================================
