---------------------------- MODULE MCDiscovery ----------------------------
(***************************************************************************)
(* Instances of Discovery for TLC: "me" is this device, "p" another device *)
(* of the same user, "q" a device of another user.                         *)
(***************************************************************************)
EXTENDS Discovery, TLC

MCUser == [p \in Peer |-> IF p = "q" THEN "other" ELSE "user"]
MCDevice == [p \in Peer |-> p]

\* The sync processes are alike.
ClientSymmetry == Permutations(Client)
=============================================================================
