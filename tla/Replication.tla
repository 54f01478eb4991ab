---------------------------- MODULE Replication ----------------------------
(***************************************************************************)
(* What synchronisation promises, without cursors, batches or messages: a  *)
(* command is recorded once, on the device it ran on; another device only  *)
(* ever gets it from a device that held it; prune forgets entries locally  *)
(* and nowhere else (an entry may come back from a peer that kept it); and *)
(* if nobody stops copying, every device ends up having stored every       *)
(* entry.                                                                  *)
(***************************************************************************)
EXTENDS Naturals

CONSTANTS Device, Entry, device_id

VARIABLES
    live,   \* live[d]: the entries on device d
    seen    \* seen[d]: the entries that were ever on device d

vars == <<live, seen>>

Init ==
    /\ live = [d \in Device |-> {}]
    /\ seen = [d \in Device |-> {}]

Store(d, S) ==
    /\ live' = [live EXCEPT ![d] = @ \cup S]
    /\ seen' = [seen EXCEPT ![d] = @ \cup S]

Record(d, e) ==
    /\ device_id[e] = d
    /\ \A x \in Device : e \notin seen[x]
    /\ Store(d, {e})

\* A batch may have been read before its sender pruned it.
Copy(d, p, S) ==
    /\ S \subseteq seen[p]
    /\ Store(d, S)

Prune(d, S) ==
    /\ live' = [live EXCEPT ![d] = @ \ S]
    /\ UNCHANGED seen

Next ==
    \/ \E d \in Device, e \in Entry : Record(d, e)
    \/ \E d, p \in Device : \E S \in SUBSET seen[p] : Copy(d, p, S)
    \/ \E d \in Device : \E S \in SUBSET live[d] : Prune(d, S)

Spec == Init /\ [][Next]_vars

\* Device d takes over something of p it never had.
Learn(d, p) == \E S \in SUBSET seen[p] : ~ (S \subseteq seen[d]) /\ Copy(d, p, S)

FairSpec == Spec /\ \A d, p \in Device : WF_seen(Learn(d, p))

=============================================================================
