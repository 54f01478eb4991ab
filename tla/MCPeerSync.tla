----------------------------- MODULE MCPeerSync -----------------------------
(***************************************************************************)
(* Instances of PeerSync for TLC.  The devices are "a", "b" and "c"; a     *)
(* client is named after the device it runs on ("a2" is a second process   *)
(* on "a"), an entry after the device that recorded it.                    *)
(***************************************************************************)
EXTENDS PeerSync

TwoDevices == {"a", "b"}
ThreeDevices == {"a", "b", "c"}

\* One client on "a", which does all the work: "b" only serves.
OneClient == {"a"}
\* The watch daemon of "a" and a background upload on "a".
SameHostClients == {"a", "a2"}
\* "a" and "c" both sync with the hub "b", which only serves.
HubClients == {"a", "c"}

MCHost == [c \in Client |-> IF c = "a2" THEN "a" ELSE c]
MCTargets == [c \in Client |-> Device \ {MCHost[c]}]
HubTargets == [c \in Client |-> {"b"}]

TwoEntries == {"a-1", "b-1"}
OwnEntries == {"a-1", "a-2"}
PeerEntries == {"b-1", "b-2"}
ThreeEntries == {"a-1", "a-2", "b-1"}
HubEntries == {"a-1", "a-2", "c-1"}

MCDeviceId == [e \in Entry |-> CASE e \in OwnEntries -> "a"
                                 [] e \in PeerEntries -> "b"
                                 [] e = "c-1" -> "c"]
MCTs == [e \in Entry |-> IF e = "a-2" THEN 2 ELSE 1]
MCSize == [e \in Entry |-> 1]

\* "a-2" is larger than the others.
RunSize == [e \in Entry |-> IF e = "a-2" THEN 2 ELSE 1]
=============================================================================
