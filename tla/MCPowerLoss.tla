----------------------------- MODULE MCPowerLoss -----------------------------
(***************************************************************************)
(* Instances of PowerLoss for TLC; devices and clients are named as in     *)
(* MCPeerSync, entries are all of "a" and alike.                           *)
(***************************************************************************)
EXTENDS PowerLoss, MCPeerSync, TLC

AllClients == {"a", "a2", "b"}

\* The watch daemon and a background upload on "a", which has power; one
\* client on each of two devices that may lose it; or a single client on
\* either, while "a" prunes too.
MCCrews == {{"a", "a2"}, {"a", "b"}, {"a"}, {"b"}}
MCLossy == [crew_ \in Crews |-> IF "a2" \in crew_ THEN {} ELSE Device]
MCPruning == [crew_ \in Crews |-> IF Cardinality(crew_) = 1 THEN {"a"} ELSE {}]

LossDeviceId == [e \in Entry |-> "a"]
LossTs == [e \in Entry |-> 1]
LossSymmetry == Permutations(Entry)
=============================================================================
