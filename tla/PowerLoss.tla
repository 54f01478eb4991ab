------------------------------ MODULE PowerLoss ------------------------------
(***************************************************************************)
(* Synchronisation when a device loses power.  The store is opened with    *)
(* journal_mode=WAL and synchronous=NORMAL (src/storage.rs, init_schema):  *)
(* a commit survives the death of the process, which is all PeerSync       *)
(* assumes, but the write-ahead log reaches the disk only at a checkpoint. *)
(* After a power loss the database is what it was at some earlier commit,  *)
(* entries, counter and cursors together; or it is empty, when the file    *)
(* itself is lost and the key file, hence the peer id, is not.             *)
(*                                                                         *)
(* The numbers above the one the store fell back to are given again, while *)
(* the cursors that peers keep for this device are still those of before.  *)
(***************************************************************************)
EXTENDS PeerSync

CONSTANTS
    Crews,           \* sets of clients, one of which runs in a behaviour
    Lossy,           \* bound: Lossy[crew], the devices that may lose power
                     \* while that crew runs
    Pruning          \* bound: Pruning[crew], the devices that prune then

ASSUME CrewAssumption ==
    /\ Crews \subseteq SUBSET Client
    /\ Lossy \in [Crews -> SUBSET Device]
    /\ Pruning \in [Crews -> SUBSET Device]

VARIABLES
    crew,            \* the clients of this behaviour
    synced,          \* synced[d]: the commit d falls back to
    (* History: the entries d stored and lost, the rows whose DELETE was   *)
    (* lost, and the counters it started again from.                       *)
    undone, revived, restarts

historyVars == <<undone, revived, restarts>>
lossVars == <<crew, synced, historyVars>>
allVars == <<vars, lossVars>>

NoRows == [p \in Device |-> 0]
EmptyStore == [entries |-> {}, sqlite_sequence |-> 0, peer_state |-> NoRows,
               peer_push_state |-> NoRows, seen |-> {}]

Contents(d) == [entries |-> entries[d], sqlite_sequence |-> sqlite_sequence[d],
                peer_state |-> peer_state[d],
                peer_push_state |-> peer_push_state[d], seen |-> seen[d]]

-----------------------------------------------------------------------------

\* What is committed by now reaches the disk. Only the last checkpoint before
\* a power loss matters, so there is one for each loss still to come.
Checkpoint(d) ==
    /\ d \in Lossy[crew]
    /\ synced[d] = EmptyStore
    /\ Contents(d) # EmptyStore
    /\ Cardinality({p \in Device : synced[p] # EmptyStore}) + faults
         < MaxFaults
    /\ synced' = [synced EXCEPT ![d] = Contents(d)]
    /\ UNCHANGED <<vars, crew, historyVars>>

\* Mutant of Restore: the cursors are kept in a file of their own, which is
\* synchronised on every write.
Restore_CursorsKept(d, old) ==
    /\ entries' = [entries EXCEPT ![d] = old.entries]
    /\ sqlite_sequence' = [sqlite_sequence EXCEPT ![d] = old.sqlite_sequence]
    /\ seen' = [seen EXCEPT ![d] = old.seen]
    /\ UNCHANGED cursorVars

\* One file holds all tables: they fall back together.
Restore(d, old) ==
    /\ entries' = [entries EXCEPT ![d] = old.entries]
    /\ sqlite_sequence' = [sqlite_sequence EXCEPT ![d] = old.sqlite_sequence]
    /\ seen' = [seen EXCEPT ![d] = old.seen]
    /\ peer_state' = [peer_state EXCEPT ![d] = old.peer_state]
    /\ peer_push_state' = [peer_push_state EXCEPT ![d] = old.peer_push_state]

\* Every process of d ends: its clients, its server with the requests that
\* were on their way to it, its prune.
ProcessesEnd(d) ==
    LET Reset(f, v) == [c \in Client |-> IF host[c] = d THEN v ELSE f[c]]
    IN  /\ pc' = Reset(pc, "idle")
        /\ target' = Reset(target, d)
        /\ cursor' = Reset(cursor, 0)
        /\ batch_limit' = Reset(batch_limit, Limit)
        /\ attempt' = Reset(attempt, 0)
        /\ batch' = Reset(batch, {})
        /\ next_cursor' = Reset(next_cursor, 0)
        /\ sync_pull' = {m \in sync_pull : m.peer # d}
        /\ entries_push' = {m \in entries_push : m.peer # d}
        /\ sync_batch' = {m \in sync_batch : host[m.client] # d}
        /\ push_ack' = {m \in push_ack : host[m.client] # d}
        /\ prune_pc' = [prune_pc EXCEPT ![d] = "idle"]
        /\ keep_floor' = [keep_floor EXCEPT ![d] = NoFloor]
        /\ pushed_floor' = [pushed_floor EXCEPT ![d] = NoFloor]
        /\ floor_peers' = [floor_peers EXCEPT ![d] = {}]
        /\ UNCHANGED <<request_id, prunes>>

LosePower(d) ==
    /\ d \in Lossy[crew]
    /\ Fault
    /\ Restore(d, synced[d])
    /\ ProcessesEnd(d)
    /\ undone' = [undone EXCEPT ![d] = @ \cup (seen[d] \ synced[d].seen)]
    /\ revived' = [revived EXCEPT
                      ![d] = @ \cup (synced[d].entries \ entries[d])]
    /\ restarts' = [restarts EXCEPT ![d] = @ \cup {synced[d].sqlite_sequence}]
    /\ synced' = [synced EXCEPT ![d] = EmptyStore]
    /\ UNCHANGED crew

-----------------------------------------------------------------------------

LossInit ==
    /\ Init
    /\ crew \in Crews
    /\ synced = [d \in Device |-> EmptyStore]
    /\ undone = [d \in Device |-> {}]
    /\ revived = [d \in Device |-> {}]
    /\ restarts = [d \in Device |-> {}]

\* Once no fault is left a snapshot can no longer be read.
Forget == synced' = IF faults' < MaxFaults THEN synced
                    ELSE [d \in Device |-> EmptyStore]

\* The steps of PeerSync. An entry id (uuid v4) that was lost is never
\* drawn again.
SyncStep ==
    /\ \/ \E d \in Device : \E e \in Entry \ undone[d] : Record(d, e)
       \/ \E c \in crew : \E p \in Device : StartSync(c, p)
       \/ \E c \in crew : ClientStep(c) \/ Abort(c) \/ Crash(c)
       \/ ServerStep
       \/ \E m \in Messages : Lose(m)
       \/ \E d \in Pruning[crew] : PruneStep(d)
    /\ Forget
    /\ UNCHANGED <<crew, historyVars>>

LossNext == SyncStep \/ \E d \in Device : Checkpoint(d) \/ LosePower(d)

LossSpec == LossInit /\ [][LossNext]_allVars

-----------------------------------------------------------------------------

\* The rows of p that it numbered after a power loss.
Renumbered(p) ==
    {r \in entries[p] : \E n \in restarts[p] : r.ingest_seq > n}

\* A pull passes over a row only when the peer lost power and either gave the
\* number of the row again or had deleted the row, which is back. The loss of
\* the own store harms no pull: the cursor falls back with the rows.
PullGapOnlyRenumbered ==
    \A d, p \in Device : \A r \in entries[p] :
        r.ingest_seq <= peer_state[d][p]
            => \/ r.entry_id \in seen[d]
               \/ r \in Renumbered(p) \cup revived[p]

\* A push cursor covers a row the peer does not have only when the peer
\* stored it, acknowledged it and lost it. The loss of the own store harms
\* no push.
PushGapOnlyUndone ==
    \A d, p \in Device : \A r \in RowsOf(entries[d], d) :
        r.ingest_seq <= peer_push_state[d][p]
            => r.entry_id \in seen[p] \cup undone[p]

\* After one power loss no own entry is out of reach of both ways: the other
\* device has it, will pull it, or will be sent it. So two devices that each
\* pull and push repair the loss of either store.
OneWayLeft ==
    Cardinality({d \in Device : restarts[d] # {}}) <= 1 =>
        \A d, p \in Device : \A r \in RowsOf(entries[p], p) :
            \/ d = p
            \/ r.entry_id \in seen[d]
            \/ r.ingest_seq > peer_state[d][p]
            \/ r.ingest_seq > peer_push_state[p][d]

=============================================================================
