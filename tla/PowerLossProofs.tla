--------------------------- MODULE PowerLossProofs ---------------------------
(***************************************************************************)
(* Proofs about PowerLoss, for all devices, clients, entries and bounds:   *)
(* what is left of the cursor invariants when stores fall back.            *)
(*                                                                         *)
(* A store that falls back keeps or loses rows but brings none back that   *)
(* a peer could have passed over, except those it had deleted (revived)    *)
(* and those whose numbers it gives again (Renumbered).  So the rows of a  *)
(* device that are neither, its firm rows, only ever become fewer, until   *)
(* its first loss they also grow at the end, and what PeerSyncProofs says  *)
(* of all rows stays true of the firm ones.  What a device ever stored,    *)
(* lost or not (Had), only grows.  The invariant says the same of each     *)
(* snapshot that a loss could still bring back.                            *)
(***************************************************************************)
EXTENDS PowerLoss, PeerSyncProofs

-----------------------------------------------------------------------------
(* Types.                                                                  *)

Snapshot == [entries : SUBSET Row, sqlite_sequence : Nat,
             peer_state : [Device -> Nat], peer_push_state : [Device -> Nat],
             seen : SUBSET Entry]

\* What a loss could bring back is a table that could be there.
SnapshotInv ==
    \A d \in Device : /\ Numbered(synced[d].entries, synced[d].sqlite_sequence)
                      /\ Unique(synced[d].entries)

LossTypeInv ==
    /\ TypeInv
    /\ UniqueInv
    /\ crew \in Crews
    /\ synced \in [Device -> Snapshot]
    /\ undone \in [Device -> SUBSET Entry]
    /\ revived \in [Device -> SUBSET Row]
    /\ restarts \in [Device -> SUBSET Nat]
    /\ SnapshotInv

LEMMA EmptyStoreFacts ==
    /\ EmptyStore \in Snapshot
    /\ EmptyStore.entries = {}
    /\ EmptyStore.sqlite_sequence = 0
    /\ \A p \in Device : /\ EmptyStore.peer_state[p] = 0
                         /\ EmptyStore.peer_push_state[p] = 0
    /\ Numbered(EmptyStore.entries, EmptyStore.sqlite_sequence)
    /\ Unique(EmptyStore.entries)
BY FS_EmptySet DEF EmptyStore, NoRows, Snapshot, Numbered, Unique

\* The steps that are not a loss or a checkpoint are steps of PeerSync.
LEMMA SyncIsNext ==
    ASSUME crew \in Crews, SyncStep
    PROVE  Next
<1>1. crew \subseteq Client /\ Pruning[crew] \subseteq Device
    BY CrewAssumption
<1>2. QED
    BY <1>1 DEF SyncStep, Next

\* After a step a snapshot is the one that was there, the contents of the
\* store, or nothing.
LEMMA SnapshotCases ==
    ASSUME synced \in [Device -> Snapshot], [LossNext]_allVars, NEW d \in Device
    PROVE  \/ synced'[d] = synced[d]
           \/ synced'[d] = EmptyStore
           \/ Checkpoint(d) /\ synced'[d] = Contents(d)
<1>1. CASE SyncStep
    BY <1>1 DEF SyncStep, Forget
<1>2. ASSUME NEW x \in Device, Checkpoint(x)
      PROVE  \/ synced'[d] = synced[d]
             \/ Checkpoint(d) /\ synced'[d] = Contents(d)
    BY <1>2 DEF Checkpoint
<1>3. ASSUME NEW x \in Device, LosePower(x)
      PROVE  synced'[d] = synced[d] \/ synced'[d] = EmptyStore
    BY <1>3 DEF LosePower
<1>4. CASE UNCHANGED allVars
    BY <1>4 DEF allVars, lossVars
<1>5. QED
    BY <1>1, <1>2, <1>3, <1>4 DEF LossNext

LEMMA SnapshotNext ==
    ASSUME LossTypeInv, [LossNext]_allVars, synced' \in [Device -> Snapshot]
    PROVE  SnapshotInv'
<1>1. ASSUME NEW d \in Device
      PROVE  /\ Numbered(synced'[d].entries, synced'[d].sqlite_sequence)
             /\ Unique(synced'[d].entries)
    <2>1. CASE synced'[d] = synced[d]
        BY <2>1 DEF LossTypeInv, SnapshotInv
    <2>2. CASE synced'[d] = EmptyStore
        BY <2>2, EmptyStoreFacts
    <2>3. CASE synced'[d] = Contents(d)
        BY <2>3 DEF Contents, LossTypeInv, TypeInv, StoreInv, UniqueInv
    <2>4. QED
        BY <2>1, <2>2, <2>3, SnapshotCases DEF LossTypeInv
<1>2. QED
    BY <1>1 DEF SnapshotInv

\* The variables PowerLoss adds keep their types.
LEMMA LossVarsNext ==
    ASSUME LossTypeInv, [LossNext]_allVars
    PROVE  /\ crew' = crew
           /\ synced' \in [Device -> Snapshot]
           /\ undone' \in [Device -> SUBSET Entry]
           /\ revived' \in [Device -> SUBSET Row]
           /\ restarts' \in [Device -> SUBSET Nat]
<1>0. /\ synced \in [Device -> Snapshot]
      /\ undone \in [Device -> SUBSET Entry]
      /\ revived \in [Device -> SUBSET Row]
      /\ restarts \in [Device -> SUBSET Nat]
    BY DEF LossTypeInv
<1>1. CASE SyncStep
    <2>1. crew' = crew /\ undone' = undone /\ revived' = revived /\ restarts' = restarts
        BY <1>1 DEF SyncStep, historyVars
    <2>2. synced' \in [Device -> Snapshot]
        BY <1>0, <1>1, EmptyStoreFacts DEF SyncStep, Forget
    <2>3. QED
        BY <1>0, <2>1, <2>2
<1>2. ASSUME NEW d \in Device, Checkpoint(d)
      PROVE  /\ crew' = crew /\ synced' \in [Device -> Snapshot]
             /\ undone' = undone /\ revived' = revived /\ restarts' = restarts
    <2>1. Contents(d) \in Snapshot
        BY DEF Contents, Snapshot, LossTypeInv, TypeInv, TypeOK
    <2>2. QED
        BY <1>0, <1>2, <2>1 DEF Checkpoint, historyVars
<1>3. ASSUME NEW d \in Device, LosePower(d)
      PROVE  /\ crew' = crew
             /\ synced' \in [Device -> Snapshot]
             /\ undone' \in [Device -> SUBSET Entry]
             /\ revived' \in [Device -> SUBSET Row]
             /\ restarts' \in [Device -> SUBSET Nat]
    <2>1. /\ synced[d].entries \in SUBSET Row
          /\ synced[d].sqlite_sequence \in Nat
          /\ seen[d] \in SUBSET Entry
        BY <1>0 DEF Snapshot, LossTypeInv, TypeInv, TypeOK
    <2>2. /\ crew' = crew
          /\ synced' = [synced EXCEPT ![d] = EmptyStore]
          /\ undone' = [undone EXCEPT ![d] = @ \cup (seen[d] \ synced[d].seen)]
          /\ revived' = [revived EXCEPT
                           ![d] = @ \cup (synced[d].entries \ entries[d])]
          /\ restarts' = [restarts EXCEPT
                            ![d] = @ \cup {synced[d].sqlite_sequence}]
        BY <1>3 DEF LosePower
    <2>3. synced' \in [Device -> Snapshot]
        BY <1>0, <2>2, EmptyStoreFacts
    <2>4. QED
        BY <1>0, <2>1, <2>2, <2>3
<1>4. CASE UNCHANGED allVars
    BY <1>0, <1>4 DEF allVars, lossVars, historyVars
<1>5. QED
    BY <1>0, <1>1, <1>2, <1>3, <1>4 DEF LossNext

\* What a loss of power leaves of the device's clients and of the messages.
LEMMA ProcessesGone ==
    ASSUME ClientType, NEW d \in Device, ProcessesEnd(d)
    PROVE  /\ ClientType'
           /\ request_id' = request_id
           /\ sync_pull' \subseteq sync_pull
           /\ sync_batch' \subseteq sync_batch
           /\ entries_push' \subseteq entries_push
           /\ push_ack' \subseteq push_ack
           /\ \A c \in Client : IF host[c] = d
                                THEN pc'[c] = "idle" /\ batch'[c] = {}
                                ELSE SameLocal(c)
<1>1. ClientType'
    BY BoundAssumption DEF ProcessesEnd, ClientType
<1>2. \A c \in Client : host[c] = d => pc'[c] = "idle" /\ batch'[c] = {}
    BY DEF ProcessesEnd, ClientType
<1>3. \A c \in Client : host[c] # d => SameLocal(c)
    BY DEF ProcessesEnd, ClientType, SameLocal
<1>4. QED
    BY <1>1, <1>2, <1>3 DEF ProcessesEnd

\* The store of d is the snapshot, every other store is as it was.
LEMMA RestoredStore ==
    ASSUME LossTypeInv, NEW d \in Device, LosePower(d)
    PROVE  /\ entries'[d] = synced[d].entries
           /\ sqlite_sequence'[d] = synced[d].sqlite_sequence
           /\ seen'[d] = synced[d].seen
           /\ peer_state'[d] = synced[d].peer_state
           /\ peer_push_state'[d] = synced[d].peer_push_state
           /\ \A x \in Device \ {d} :
                /\ entries'[x] = entries[x]
                /\ sqlite_sequence'[x] = sqlite_sequence[x]
                /\ seen'[x] = seen[x]
                /\ peer_state'[x] = peer_state[x]
                /\ peer_push_state'[x] = peer_push_state[x]
           /\ StoreType' /\ CursorType'
<1>1. StoreType /\ CursorType /\ synced[d] \in Snapshot
    BY TypeGroups DEF LossTypeInv, TypeInv
<1>2. Restore(d, synced[d])
    BY DEF LosePower
<1>3. StoreType' /\ CursorType'
    BY <1>1, <1>2 DEF Restore, StoreType, CursorType, Snapshot
<1>4. QED
    BY <1>1, <1>2, <1>3 DEF Restore, StoreType, CursorType

LEMMA LossTypes ==
    ASSUME LossTypeInv, NEW d \in Device, LosePower(d)
    PROVE  TypeInv' /\ UniqueInv'
<1>0. /\ ClientType /\ MessageType /\ PruneType /\ faults \in Nat
      /\ StoreInv /\ BatchInv /\ UniqueInv /\ SnapshotInv
    BY TypeGroups DEF LossTypeInv, TypeInv
<1>1. /\ ClientType'
      /\ sync_pull' \subseteq sync_pull
      /\ sync_batch' \subseteq sync_batch
      /\ entries_push' \subseteq entries_push
      /\ push_ack' \subseteq push_ack
      /\ \A c \in Client : batch'[c] = batch[c] \/ batch'[c] = {}
    BY <1>0, ProcessesGone DEF LosePower, SameLocal
<1>2. MessageType'
    BY <1>0, <1>1 DEF MessageType
<1>3. PruneType'
    BY <1>0 DEF LosePower, ProcessesEnd, PruneType, NoFloor
<1>4. faults' \in Nat
    BY <1>0 DEF LosePower, Fault
<1>5. TypeOK'
    BY <1>1, <1>2, <1>3, <1>4, RestoredStore
       DEF TypeOK, StoreType, CursorType, ClientType, MessageType, PruneType
<1>6. StoreInv'
    BY <1>0, RestoredStore DEF StoreInv, SnapshotInv
<1>7. BatchInv'
    BY <1>0, <1>1, FS_EmptySet DEF BatchInv
<1>8. Unique({})
    BY DEF Unique
<1>9. UniqueInv'
    BY <1>0, <1>1, <1>8, RestoredStore DEF UniqueInv, SnapshotInv
<1>10. QED
    BY <1>5, <1>6, <1>7, <1>9 DEF TypeInv

LEMMA LossTypeInit == LossInit => LossTypeInv
<1> SUFFICES ASSUME LossInit PROVE LossTypeInv
    OBVIOUS
<1>1. TypeInv
    BY TypeInit DEF LossInit
<1>2. UniqueInv
    BY DEF LossInit, Init, UniqueInv, Unique
<1>3. /\ crew \in Crews
      /\ synced \in [Device -> Snapshot]
      /\ \A d \in Device : synced[d] = EmptyStore
    BY EmptyStoreFacts DEF LossInit
<1>4. SnapshotInv
    BY <1>3, EmptyStoreFacts DEF SnapshotInv
<1>5. QED
    BY <1>1, <1>2, <1>3, <1>4 DEF LossInit, LossTypeInv

LEMMA LossTypeNext == LossTypeInv /\ [LossNext]_allVars => LossTypeInv'
<1> SUFFICES ASSUME LossTypeInv, [LossNext]_allVars PROVE LossTypeInv'
    OBVIOUS
<1>1. TypeInv' /\ UniqueInv'
    <2>1. CASE [Next]_vars
        BY <2>1, TypeNext, UniqueNext DEF LossTypeInv
    <2>2. ASSUME NEW d \in Device, LosePower(d) PROVE TypeInv' /\ UniqueInv'
        BY <2>2, LossTypes
    <2>3. ASSUME NEW d \in Device, Checkpoint(d) PROVE [Next]_vars
        BY <2>3 DEF Checkpoint
    <2>4. SyncStep => Next
        BY SyncIsNext DEF LossTypeInv
    <2>5. UNCHANGED allVars => UNCHANGED vars
        BY DEF allVars
    <2>6. QED
        BY <2>1, <2>2, <2>3, <2>4, <2>5 DEF LossNext
<1>2. SnapshotInv'
    BY LossVarsNext, SnapshotNext
<1>3. QED
    BY <1>1, <1>2, LossVarsNext DEF LossTypeInv

\* Every variable of the protocol keeps its type when devices lose power: what
\* comes back is a table of numbered rows with its cursors, and what was in
\* memory or under way is gone or well formed.
THEOREM LossTypeCorrect == LossSpec => []TypeOK
<1>1. LossTypeInv => TypeOK
    BY DEF LossTypeInv, TypeInv
<1>2. QED
    BY LossTypeInit, LossTypeNext, <1>1, PTL DEF LossSpec

\* Also a device that fell back keeps one row per entry and per number: the
\* numbers it gives again are those of rows it no longer has.
THEOREM LossEntriesUnique == LossSpec => []OneRowPerEntry
<1>1. LossTypeInv => OneRowPerEntry
    BY DEF LossTypeInv, UniqueInv, Unique, OneRowPerEntry
<1>2. QED
    BY LossTypeInit, LossTypeNext, <1>1, PTL DEF LossSpec

-----------------------------------------------------------------------------
(* What a device still knows of the others.                                *)

\* The rows of p that a pull which follows the numbers cannot have missed.
Firm(p) == entries[p] \ (Renumbered(p) \cup revived[p])

\* What p ever stored, lost or not.
Had(p) == seen[p] \cup undone[p]

\* Number n was given out, unless p gave out numbers twice.
GivenOut(p, n) == n <= sqlite_sequence[p] \/ restarts[p] # {}

\* Cursor n into the table of p is safe when set S holds every firm row that
\* it has passed.
Covered(p, S, n) ==
    /\ GivenOut(p, n)
    /\ \A r \in Firm(p) : r.ingest_seq <= n => r.entry_id \in S

\* A batch with the entries I and the cursor n carries every firm row of p
\* from cursor from up to n.
FirmBatch(p, from, n, I) ==
    /\ GivenOut(p, n)
    /\ Carries(Firm(p), from, n, I)

\* A device that fell back goes on from one of the counters it restarted at.
RestartInv ==
    \A p \in Device : restarts[p] # {} =>
        \E n \in restarts[p] : n <= sqlite_sequence[p]

\* What one step leaves of the rows of p that others follow.
Endures(p) ==
    /\ Had(p) \subseteq Had(p)'
    /\ restarts[p] # {} => restarts'[p] # {}
    /\ restarts'[p] # {} \/ sqlite_sequence[p] <= sqlite_sequence'[p]
    /\ \A r \in Firm(p)' : \/ r \in Firm(p)
                           \/ restarts[p] = {} /\ r.ingest_seq > sqlite_sequence[p]

\* What one step does to a store that does not fall back.
Grows(d) ==
    /\ seen[d] \subseteq seen'[d]
    /\ LaterTable(RowsOf(entries[d], d), sqlite_sequence[d],
                  RowsOf(entries'[d], d), sqlite_sequence'[d])

LEMMA CoveredLater ==
    ASSUME LossTypeInv, LossTypeInv', NEW p \in Device, Endures(p), NEW n \in Nat,
           NEW S, NEW S2, Covered(p, S, n), S \subseteq S2
    PROVE  /\ GivenOut(p, n)'
           /\ \A r \in Firm(p)' : r.ingest_seq <= n => r.entry_id \in S2
<1>1. /\ sqlite_sequence[p] \in Nat /\ sqlite_sequence'[p] \in Nat
      /\ \A r \in entries'[p] : r.ingest_seq \in Nat
    BY DEF LossTypeInv, TypeInv, TypeOK, Row
<1>2. GivenOut(p, n)'
    BY <1>1 DEF Covered, GivenOut, Endures
<1>3. ASSUME NEW r \in Firm(p)', r.ingest_seq <= n PROVE r \in Firm(p)
    <2>1. r.ingest_seq \in Nat
        BY <1>1 DEF Firm
    <2>2. QED
        BY <1>1, <1>3, <2>1 DEF Covered, GivenOut, Endures
<1>4. QED
    BY <1>2, <1>3 DEF Covered

LEMMA FirmBatchLater ==
    ASSUME LossTypeInv, LossTypeInv', NEW p \in Device, Endures(p),
           NEW from \in Nat, NEW n \in Nat, NEW I, FirmBatch(p, from, n, I)
    PROVE  /\ GivenOut(p, n)'
           /\ \A r \in Firm(p)' : r.ingest_seq > from /\ r.ingest_seq <= n =>
                                     r.entry_id \in I
<1>1. /\ sqlite_sequence[p] \in Nat /\ sqlite_sequence'[p] \in Nat
      /\ \A r \in entries'[p] : r.ingest_seq \in Nat
    BY DEF LossTypeInv, TypeInv, TypeOK, Row
<1>2. GivenOut(p, n)'
    BY <1>1 DEF FirmBatch, GivenOut, Endures
<1>3. ASSUME NEW r \in Firm(p)', r.ingest_seq <= n PROVE r \in Firm(p)
    <2>1. r.ingest_seq \in Nat
        BY <1>1 DEF Firm
    <2>2. QED
        BY <1>1, <1>3, <2>1 DEF FirmBatch, GivenOut, Endures
<1>4. QED
    BY <1>2, <1>3 DEF FirmBatch, Carries

\* A step of the protocol adds rows at the end; once a device has fallen back
\* they count as renumbered.
LEMMA SyncEndures ==
    ASSUME LossTypeInv, LossTypeInv', RestartInv, StoresGrow,
           UNCHANGED historyVars, NEW p \in Device
    PROVE  Endures(p) /\ Grows(p)
<1>1. /\ sqlite_sequence[p] \in Nat /\ sqlite_sequence'[p] \in Nat
      /\ restarts[p] \in SUBSET Nat
      /\ \A r \in entries'[p] : r.ingest_seq \in Nat
    BY DEF LossTypeInv, TypeInv, TypeOK, Row
<1>2. /\ undone' = undone /\ revived' = revived /\ restarts' = restarts
    BY DEF historyVars
<1>3. /\ seen[p] \subseteq seen'[p]
      /\ sqlite_sequence[p] <= sqlite_sequence'[p]
      /\ \A r \in entries'[p] : r \in entries[p] \/ r.ingest_seq > sqlite_sequence[p]
    BY DEF StoresGrow, LaterTable
<1>4. ASSUME NEW r \in Firm(p)', r \notin Firm(p)
      PROVE  restarts[p] = {} /\ r.ingest_seq > sqlite_sequence[p]
    <2>1. /\ r \in entries'[p] /\ r \notin revived[p]
          /\ \A n \in restarts[p] : ~ (r.ingest_seq > n)
        BY <1>2, <1>4 DEF Firm, Renumbered
    <2>2. r \notin entries[p]
        BY <1>4, <2>1 DEF Firm, Renumbered
    <2>3. r.ingest_seq > sqlite_sequence[p] /\ r.ingest_seq \in Nat
        BY <1>1, <1>3, <2>1, <2>2
    <2>4. \A n \in restarts[p] : ~ (n <= sqlite_sequence[p])
        BY <1>1, <2>1, <2>3
    <2>5. QED
        BY <2>3, <2>4 DEF RestartInv
<1>5. Endures(p)
    BY <1>2, <1>3, <1>4 DEF Endures, Had
<1>6. QED
    BY <1>5, LaterOwnRows DEF Grows, StoresGrow

\* A loss of power brings back no firm row, and what is lost is remembered.
LEMMA LossEndures ==
    ASSUME LossTypeInv, NEW d \in Device, LosePower(d), NEW p \in Device
    PROVE  Endures(p) /\ (p # d => Grows(p))
<1>1. /\ sqlite_sequence[p] \in Nat
      /\ synced[d] \in Snapshot
      /\ undone \in [Device -> SUBSET Entry]
      /\ revived \in [Device -> SUBSET Row]
      /\ restarts \in [Device -> SUBSET Nat]
      /\ Numbered(synced[d].entries, synced[d].sqlite_sequence)
    BY DEF LossTypeInv, SnapshotInv, TypeInv, TypeOK
<1>2. /\ undone' = [undone EXCEPT ![d] = @ \cup (seen[d] \ synced[d].seen)]
      /\ revived' = [revived EXCEPT
                       ![d] = @ \cup (synced[d].entries \ entries[d])]
      /\ restarts' = [restarts EXCEPT ![d] = @ \cup {synced[d].sqlite_sequence}]
    BY DEF LosePower
<1>3. CASE p = d
    <2>1. /\ entries'[p] = synced[d].entries
          /\ seen'[p] = synced[d].seen
          /\ undone'[p] = undone[p] \cup (seen[p] \ synced[d].seen)
          /\ revived'[p] = revived[p] \cup (synced[d].entries \ entries[p])
          /\ restarts'[p] = restarts[p] \cup {synced[d].sqlite_sequence}
        BY <1>1, <1>2, <1>3, RestoredStore
    <2>2. Firm(p)' \subseteq Firm(p)
        BY <2>1 DEF Firm, Renumbered
    <2>3. QED
        BY <1>3, <2>1, <2>2 DEF Endures, Had
<1>4. CASE p # d
    <2>1. /\ entries'[p] = entries[p] /\ seen'[p] = seen[p]
          /\ sqlite_sequence'[p] = sqlite_sequence[p]
          /\ undone'[p] = undone[p] /\ revived'[p] = revived[p]
          /\ restarts'[p] = restarts[p]
        BY <1>1, <1>2, <1>4, RestoredStore
    <2>2. Firm(p)' = Firm(p)
        BY <2>1 DEF Firm, Renumbered
    <2>3. QED
        BY <1>1, <2>1, <2>2 DEF Endures, Had, Grows, LaterTable
<1>5. QED
    BY <1>3, <1>4

LEMMA RestartNext ==
    ASSUME LossTypeInv, LossTypeInv', RestartInv, [LossNext]_allVars
    PROVE  RestartInv'
<1>0. /\ restarts \in [Device -> SUBSET Nat] /\ restarts' \in [Device -> SUBSET Nat]
      /\ \A d \in Device : sqlite_sequence[d] \in Nat /\ sqlite_sequence'[d] \in Nat
    BY DEF LossTypeInv, TypeInv, TypeOK
<1>1. CASE restarts' = restarts /\ StoresGrow
    BY <1>0, <1>1 DEF RestartInv, StoresGrow, LaterTable
<1>2. ASSUME NEW d \in Device, LosePower(d) PROVE RestartInv'
    <2>1. \A p \in Device : restarts'[p] = IF p = d
              THEN restarts[p] \cup {synced[d].sqlite_sequence} ELSE restarts[p]
        BY <1>0, <1>2 DEF LosePower
    <2>2. sqlite_sequence'[d] = synced[d].sqlite_sequence
        BY <1>2, RestoredStore
    <2>3. \A p \in Device \ {d} : sqlite_sequence'[p] = sqlite_sequence[p]
        BY <1>2, RestoredStore
    <2>4. QED
        BY <1>0, <2>1, <2>2, <2>3 DEF RestartInv
<1>3. SyncStep => restarts' = restarts /\ StoresGrow
    BY SyncIsNext, StoreNext DEF SyncStep, historyVars, LossTypeInv
<1>4. ASSUME NEW d \in Device, Checkpoint(d)
      PROVE  restarts' = restarts /\ StoresGrow
    BY <1>4, StoreNext DEF Checkpoint, historyVars, LossTypeInv
<1>5. UNCHANGED allVars => restarts' = restarts /\ StoresGrow
    BY StoreNext DEF allVars, lossVars, historyVars, LossTypeInv
<1>6. QED
    BY <1>1, <1>2, <1>3, <1>4, <1>5 DEF LossNext

-----------------------------------------------------------------------------
(* The invariant.                                                          *)

\* Every saved cursor is safe as far as losses allow.
LossCursors ==
    \A d, p \in Device :
        /\ Covered(p, seen[d], peer_state[d][p])
        /\ Stored(RowsOf(entries[d], d), sqlite_sequence[d], Had(p),
                  peer_push_state[d][p])

\* The same of what a loss would bring back. A snapshot of d is older than its
\* store, but the others only have more by now.
LossSnapshots ==
    \A d, p \in Device :
        /\ Covered(p, synced[d].seen, synced[d].peer_state[p])
        /\ Stored(RowsOf(synced[d].entries, d), synced[d].sqlite_sequence,
                  Had(p), synced[d].peer_push_state[p])

\* LocalInv for the firm rows of the peer and for all it ever stored.
LossLocal(c) ==
    LET own == RowsOf(entries[host[c]], host[c])
    IN  /\ pc[c] \in {"pull_wait", "pull_save"} =>
             Covered(target[c], seen[host[c]], cursor[c])
        /\ pc[c] = "pull_save" =>
             Covered(target[c], seen[host[c]], next_cursor[c])
        /\ pc[c] \in {"push_read", "push_wait", "push_save"} =>
             Stored(own, sqlite_sequence[host[c]], Had(target[c]), cursor[c])
        /\ pc[c] \in {"push_wait", "push_save"} =>
             /\ Carries(own, cursor[c], next_cursor[c], Ids(batch[c]))
             /\ next_cursor[c] <= sqlite_sequence[host[c]]
        /\ pc[c] = "push_save" => Ids(batch[c]) \subseteq Had(target[c])

\* And MailInv.
LossPullMail(c) ==
    /\ \A m \in sync_pull : Answer(c, m) =>
         m.peer = target[c] /\ m.cursor = cursor[c]
    /\ \A m \in sync_batch : Answer(c, m) =>
         FirmBatch(target[c], cursor[c], m.next_cursor, Ids(m.entries))

LossPushMail(c) ==
    /\ \A m \in entries_push : Answer(c, m) =>
         m.peer = target[c] /\ m.entries = batch[c]
    /\ \A m \in push_ack : Answer(c, m) /\ m.ok =>
         Ids(batch[c]) \subseteq Had(target[c])

LossMail(c) ==
    /\ pc[c] = "pull_wait" => LossPullMail(c)
    /\ pc[c] = "push_wait" => LossPushMail(c)

LossInv ==
    /\ LossTypeInv
    /\ RestartInv
    /\ LossCursors
    /\ LossSnapshots
    /\ \A c \in Client : LossLocal(c) /\ LossMail(c)

LEMMA LossFacts ==
    ASSUME LossTypeInv
    PROVE  /\ \A d \in Device : /\ entries[d] \in SUBSET Row
                                /\ RowsOf(entries[d], d) \in SUBSET Row
                                /\ Firm(d) \in SUBSET Row
                                /\ sqlite_sequence[d] \in Nat
           /\ \A c \in Client : /\ host[c] \in Device
                                /\ target[c] \in Device
                                /\ cursor[c] \in Nat
                                /\ next_cursor[c] \in Nat
           /\ \A d, p \in Device : /\ peer_state[d][p] \in Nat
                                   /\ peer_push_state[d][p] \in Nat
<1>1. TypeInv
    BY DEF LossTypeInv
<1>2. QED
    BY <1>1, StoreFacts DEF Firm

LEMMA LossLocalFrame ==
    ASSUME LossTypeInv, LossTypeInv', NEW c \in Client, LossLocal(c),
           SameLocal(c), Grows(host[c]), \A p \in Device : Endures(p)
    PROVE  LossLocal(c)'
<1> DEFINE h == host[c]
<1>0. PICK t \in Device : t = target[c]
    BY LossFacts
<1>1. /\ h \in Device
      /\ cursor[c] \in Nat /\ next_cursor[c] \in Nat
      /\ sqlite_sequence[h] \in Nat /\ sqlite_sequence'[h] \in Nat
      /\ RowsOf(entries'[h], h) \in SUBSET Row
    BY LossFacts DEF LossTypeInv, TypeInv, TypeOK, RowsOf
<1>2. /\ seen[h] \subseteq seen'[h]
      /\ Had(t) \subseteq Had(t)'
      /\ LaterTable(RowsOf(entries[h], h), sqlite_sequence[h],
                    RowsOf(entries'[h], h), sqlite_sequence'[h])
    BY <1>1 DEF Grows, Endures
<1>3. \A n \in Nat : Covered(t, seen[h], n) =>
        /\ GivenOut(t, n)'
        /\ \A r \in Firm(t)' : r.ingest_seq <= n => r.entry_id \in seen'[h]
    BY <1>1, <1>2, CoveredLater
<1>4. \A n \in Nat :
        Stored(RowsOf(entries[h], h), sqlite_sequence[h], Had(t), n) =>
          Stored(RowsOf(entries'[h], h), sqlite_sequence'[h], Had(t)', n)
    BY <1>1, <1>2, StoredLater
<1>5. ASSUME Carries(RowsOf(entries[h], h), cursor[c], next_cursor[c],
                     Ids(batch[c])),
             next_cursor[c] <= sqlite_sequence[h]
      PROVE  /\ Carries(RowsOf(entries'[h], h), cursor[c], next_cursor[c],
                        Ids(batch[c]))
             /\ next_cursor[c] <= sqlite_sequence'[h]
    BY <1>1, <1>2, <1>5, CarriesLater
<1>6. /\ pc'[c] = pc[c] /\ target'[c] = t /\ cursor'[c] = cursor[c]
      /\ batch'[c] = batch[c] /\ next_cursor'[c] = next_cursor[c]
      /\ Ids(batch'[c]) = Ids(batch[c])
    BY <1>0 DEF SameLocal
<1>7. LossLocal(c)' <=>
        /\ pc[c] \in {"pull_wait", "pull_save"} => Covered(t, seen[h], cursor[c])'
        /\ pc[c] = "pull_save" => Covered(t, seen[h], next_cursor[c])'
        /\ pc[c] \in {"push_read", "push_wait", "push_save"} =>
             Stored(RowsOf(entries'[h], h), sqlite_sequence'[h], Had(t)', cursor[c])
        /\ pc[c] \in {"push_wait", "push_save"} =>
             /\ Carries(RowsOf(entries'[h], h), cursor[c], next_cursor[c],
                        Ids(batch[c]))
             /\ next_cursor[c] <= sqlite_sequence'[h]
        /\ pc[c] = "push_save" => Ids(batch[c]) \subseteq Had(t)'
    BY <1>6 DEF LossLocal
<1>8. ASSUME NEW n \in Nat, Covered(t, seen[h], n)
      PROVE  Covered(t, seen[h], n)'
    BY <1>3, <1>8 DEF Covered
<1>9. QED
    BY <1>0, <1>1, <1>2, <1>4, <1>5, <1>6, <1>7, <1>8 DEF LossLocal

\* Answers that are not new say the same of firm rows that have endured.
LEMMA LossPullFrame ==
    ASSUME LossTypeInv, LossTypeInv', NEW c \in Client, LossPullMail(c),
           SameLocal(c), request_id'[c] = request_id[c],
           \A m \in sync_pull' : m.client = c => m \in sync_pull,
           \A m \in sync_batch' : m.client = c => m \in sync_batch,
           \A p \in Device : Endures(p)
    PROVE  LossPullMail(c)'
<1>0. PICK t \in Device : t = target[c]
    BY LossFacts
<1>1. cursor[c] \in Nat
    BY LossFacts
<1>2. /\ target'[c] = t /\ cursor'[c] = cursor[c]
      /\ \A m : Answer(c, m)' <=> Answer(c, m)
    BY <1>0 DEF SameLocal, Answer
<1>3. \A m \in sync_pull' : Answer(c, m) => m.peer = t /\ m.cursor = cursor[c]
    BY <1>0 DEF LossPullMail, Answer
<1>4. ASSUME NEW m \in sync_batch', Answer(c, m)
      PROVE  /\ GivenOut(t, m.next_cursor)'
             /\ \A r \in Firm(t)' :
                  r.ingest_seq > cursor[c] /\ r.ingest_seq <= m.next_cursor
                    => r.entry_id \in Ids(m.entries)
    <2>1. m \in sync_batch /\ m.next_cursor \in Nat
        BY <1>4 DEF Answer, LossTypeInv, TypeInv, TypeOK, SyncBatch
    <2>2. FirmBatch(t, cursor[c], m.next_cursor, Ids(m.entries))
        BY <1>0, <1>4, <2>1 DEF LossPullMail
    <2>3. QED
        BY <1>1, <2>1, <2>2, FirmBatchLater
<1>5. \A m \in sync_batch' : Answer(c, m) =>
        FirmBatch(t, cursor[c], m.next_cursor, Ids(m.entries))'
    BY <1>2, <1>4 DEF FirmBatch, Carries
<1>6. QED
    BY <1>2, <1>3, <1>5 DEF LossPullMail

LEMMA LossMailFrame ==
    ASSUME LossTypeInv, LossTypeInv', NEW c \in Client, LossMail(c),
           SameLocal(c), request_id'[c] = request_id[c], LessMail(c),
           \A p \in Device : Endures(p)
    PROVE  LossMail(c)'
<1>0. pc'[c] = pc[c]
    BY DEF SameLocal
<1>1. LossPullMail(c) => LossPullMail(c)'
    BY LossPullFrame DEF LessMail
<1>2. ASSUME LossPushMail(c) PROVE LossPushMail(c)'
    <2>0. PICK t \in Device : t = target[c]
        BY LossFacts
    <2>1. /\ target'[c] = t /\ batch'[c] = batch[c]
          /\ \A m : Answer(c, m)' <=> Answer(c, m)
          /\ Ids(batch'[c]) = Ids(batch[c])
          /\ Had(t) \subseteq Had(t)'
        BY <2>0 DEF SameLocal, Answer, Endures
    <2>2. \A m \in entries_push' : Answer(c, m) =>
            m.peer = t /\ m.entries = batch[c]
        BY <1>2, <2>0 DEF LossPushMail, LessMail, Answer
    <2>3. \A m \in push_ack' : Answer(c, m) /\ m.ok =>
            Ids(batch[c]) \subseteq Had(t)'
        BY <1>2, <2>0, <2>1 DEF LossPushMail, LessMail, Answer
    <2>4. QED
        BY <2>1, <2>2, <2>3 DEF LossPushMail
<1>3. QED
    BY <1>0, <1>1, <1>2 DEF LossMail

\* Inserting the batch of an answer makes the cursor that came with it safe.
LEMMA LossPullInsert ==
    ASSUME LossInv, LossTypeInv', NEW c \in Client, PullInsert(c), ~ EndPull(c),
           \A p \in Device : Endures(p) /\ Grows(p)
    PROVE  LossLocal(c)'
<1> DEFINE h == host[c]
<1>0. PICK t \in Device : t = target[c]
    BY LossFacts DEF LossInv
<1>1. PICK m \in sync_batch :
        /\ Answer(c, m)
        /\ Insert(h, m.entries)
        /\ pc[c] = "pull_wait"
        /\ pc' = [pc EXCEPT ![c] = "pull_save"]
        /\ next_cursor' = [next_cursor EXCEPT ![c] = m.next_cursor]
        /\ UNCHANGED <<target, cursor>>
    BY DEF PullInsert
<1>2. PICK from \in Nat : from = cursor[c]
    BY LossFacts DEF LossInv
<1>3. /\ h \in Device /\ m.next_cursor \in Nat
      /\ \A r \in Firm(t)' : r.ingest_seq \in Nat
    BY LossFacts DEF LossInv, LossTypeInv, TypeInv, TypeOK, SyncBatch, Row, Firm
<1>4. /\ pc'[c] = "pull_save"
      /\ target'[c] = t
      /\ cursor'[c] = from
      /\ next_cursor'[c] = m.next_cursor
    BY <1>0, <1>1, <1>2 DEF LossInv, LossTypeInv, TypeInv, TypeOK
<1>5. /\ Covered(t, seen[h], from)
      /\ FirmBatch(t, from, m.next_cursor, Ids(m.entries))
    BY <1>0, <1>1, <1>2 DEF LossInv, LossLocal, LossMail, LossPullMail
<1>6. /\ seen[h] \subseteq seen'[h]
      /\ Ids(m.entries) \subseteq seen'[h]
    BY <1>1, <1>3 DEF Grows, Insert, LossInv, LossTypeInv, TypeInv, TypeOK
<1>7. /\ GivenOut(t, from)'
      /\ \A r \in Firm(t)' : r.ingest_seq <= from => r.entry_id \in seen'[h]
    BY <1>5, <1>6, CoveredLater DEF LossInv
<1>8. /\ GivenOut(t, m.next_cursor)'
      /\ \A r \in Firm(t)' :
           r.ingest_seq > from /\ r.ingest_seq <= m.next_cursor =>
             r.entry_id \in Ids(m.entries)
    BY <1>3, <1>5, FirmBatchLater DEF LossInv
<1>9. \A r \in Firm(t)' : r.ingest_seq <= m.next_cursor => r.entry_id \in seen'[h]
    BY <1>3, <1>6, <1>7, <1>8
<1>10. Covered(t, seen[h], from)'
    BY <1>7 DEF Covered
<1>11. Covered(t, seen[h], m.next_cursor)'
    BY <1>8, <1>9 DEF Covered
<1>12. QED
    BY <1>4, <1>10, <1>11 DEF LossLocal

\* A step that leaves the stores and the history alone.
LEMMA SameCovered ==
    ASSUME UNCHANGED storeVars, UNCHANGED historyVars
    PROVE  /\ \A p, d, n : Covered(p, seen[d], n)' <=> Covered(p, seen[d], n)
           /\ \A p : Had(p)' = Had(p)
           /\ \A d : RowsOf(entries'[d], d) = RowsOf(entries[d], d)
           /\ sqlite_sequence' = sqlite_sequence
           /\ \A p, from, n, I :
                FirmBatch(p, from, n, I)' <=> FirmBatch(p, from, n, I)
BY DEF storeVars, historyVars, Covered, GivenOut, Firm, Renumbered, Had,
       FirmBatch, Carries

\* Every step of the protocol keeps the local invariant of every client.
LEMMA LossLocalNext ==
    ASSUME LossInv, LossTypeInv', [Next]_vars, UNCHANGED historyVars,
           \A p \in Device : Endures(p) /\ Grows(p), NEW c \in Client
    PROVE  LossLocal(c)'
<1>0. /\ LossTypeInv /\ TypeInv /\ LossCursors /\ LossLocal(c) /\ LossMail(c)
      /\ ClientType /\ host[c] \in Device
    BY TypeGroups, ClientAssumption DEF LossInv, LossTypeInv, TypeInv
<1> DEFINE h == host[c]
<1>1. PICK t \in Device, from \in Nat, to \in Nat :
         t = target[c] /\ from = cursor[c] /\ to = next_cursor[c]
    BY <1>0, LossFacts
<1>2. CASE SameLocal(c)
    BY <1>0, <1>2, LossLocalFrame
<1>3. CASE pc'[c] \in {"idle", "push_begin"}
    BY <1>3 DEF LossLocal
<1>4. ASSUME NEW p \in Device, StartSync(c, p) PROVE LossLocal(c)'
    <2>1. PICK n \in Nat : n = peer_state[h][p]
        BY <1>0, LossFacts
    <2>2. /\ pc'[c] = "pull_wait" /\ target'[c] = p
          /\ cursor'[c] = n
          /\ UNCHANGED storeVars
        BY <1>0, <1>4, <2>1 DEF StartSync, ClientType, get_last_cursor
    <2>3. Covered(p, seen[h], n)
        BY <1>0, <2>1 DEF LossCursors
    <2>4. Covered(p, seen[h], n)'
        BY <2>2, <2>3, SameCovered
    <2>5. QED
        BY <2>2, <2>4 DEF LossLocal
<1>5. CASE PullInsert(c) /\ ~ EndPull(c)
    BY <1>5, LossPullInsert
<1>6. CASE SaveCursor(c)
    <2>1. /\ pc[c] = "pull_save" /\ pc'[c] = "pull_wait"
          /\ target'[c] = t
          /\ cursor'[c] = to
          /\ UNCHANGED storeVars
        BY <1>0, <1>1, <1>6 DEF SaveCursor, ClientType
    <2>2. Covered(t, seen[h], to)
        BY <1>0, <1>1, <2>1 DEF LossLocal
    <2>3. Covered(t, seen[h], to)'
        BY <2>1, <2>2, SameCovered
    <2>4. QED
        BY <2>1, <2>3 DEF LossLocal
<1>7. CASE PushBegin(c)
    <2>1. /\ pc'[c] = "push_read"
          /\ target'[c] = t
          /\ cursor'[c] = peer_push_state[h][t]
          /\ UNCHANGED storeVars
        BY <1>0, <1>1, <1>7 DEF PushBegin, ClientType, get_last_pushed_seq
    <2>2. Stored(RowsOf(entries[h], h), sqlite_sequence[h], Had(t),
                 peer_push_state[h][t])
        BY <1>0 DEF LossCursors
    <2>3. QED
        BY <2>1, <2>2, SameCovered DEF LossLocal
<1>8. CASE PushSend(c)
    <2>1. /\ pc[c] = "push_read" /\ pc'[c] = "push_wait"
          /\ target'[c] = t /\ cursor'[c] = from
          /\ batch'[c] = PushBatch(c)
          /\ next_cursor'[c] = next_cursor_of(PushBatch(c))
          /\ UNCHANGED storeVars
        BY <1>0, <1>1, <1>8 DEF PushSend, ClientType
    <2>2. /\ next_cursor_of(PushBatch(c)) <= sqlite_sequence[h]
          /\ Carries(RowsOf(entries[h], h), from,
                     next_cursor_of(PushBatch(c)), Ids(PushBatch(c)))
        BY <1>0, <1>1, PushBatchRows
    <2>3. Stored(RowsOf(entries[h], h), sqlite_sequence[h], Had(t), from)
        BY <1>0, <1>1, <2>1 DEF LossLocal
    <2>4. QED
        BY <2>1, <2>2, <2>3, SameCovered DEF LossLocal
<1>9. CASE PushAcked(c) /\ ~ EndSync(c)
    <2>1. /\ pc[c] = "push_wait"
          /\ \E m \in push_ack : Answer(c, m) /\ m.ok
          /\ pc'[c] = "push_save"
          /\ target'[c] = t
          /\ UNCHANGED <<cursor, batch, next_cursor>>
          /\ UNCHANGED storeVars
        BY <1>0, <1>1, <1>9 DEF PushAcked, ClientType
    <2>2. Ids(batch[c]) \subseteq Had(t)
        BY <1>0, <1>1, <2>1 DEF LossMail, LossPushMail
    <2>3. /\ Stored(RowsOf(entries[h], h), sqlite_sequence[h], Had(t), cursor[c])
          /\ Carries(RowsOf(entries[h], h), cursor[c], next_cursor[c],
                     Ids(batch[c]))
          /\ next_cursor[c] <= sqlite_sequence[h]
        BY <1>0, <1>1, <2>1 DEF LossLocal
    <2>4. QED
        BY <2>1, <2>2, <2>3, SameCovered DEF LossLocal
<1>10. CASE SavePushed(c) /\ ~ EndSync(c)
    <2>1. /\ pc[c] = "push_save" /\ pc'[c] = "push_read"
          /\ target'[c] = t /\ cursor'[c] = to
          /\ UNCHANGED storeVars
        BY <1>0, <1>1, <1>10 DEF SavePushed, ClientType
    <2>2. Stored(RowsOf(entries[h], h), sqlite_sequence[h], Had(t), to)
        BY <1>0, <1>1, <2>1, StoredByBatch, LossFacts DEF LossLocal
    <2>3. QED
        BY <2>1, <2>2, SameCovered DEF LossLocal
<1>11. QED
    BY <1>0, <1>2, <1>3, <1>4, <1>5, <1>6, <1>7, <1>8, <1>9, <1>10, LocalCases

\* A new request is the only mail of its client that counts.
LEMMA LossPullSent ==
    ASSUME TypeInv, NEW c \in Client, NEW p, NEW from, NEW limit,
           SendPull(c, p, from, limit), sync_batch' = sync_batch,
           pc'[c] = "pull_wait", target'[c] = p, cursor'[c] = from
    PROVE  LossMail(c)'
<1> DEFINE new == [client |-> c, request_id |-> NewRequestId(c), peer |-> p,
                   cursor |-> from, limit |-> limit]
<1>1. /\ request_id'[c] = NewRequestId(c)
      /\ sync_pull' = sync_pull \cup {new}
      /\ \A m \in Messages : m.client = c => m.request_id # NewRequestId(c)
    BY FreshRequest DEF SendPull, TypeInv, TypeOK
<1>2. \A m \in sync_pull' : Answer(c, m)' => m = new
    BY <1>1 DEF Answer, Messages
<1>3. \A m \in sync_batch' : ~ Answer(c, m)'
    BY <1>1 DEF Answer, Messages
<1>4. LossPullMail(c)'
    BY <1>2, <1>3 DEF LossPullMail
<1>5. QED
    BY <1>4 DEF LossMail

LEMMA LossPushSent ==
    ASSUME TypeInv, NEW c \in Client, NEW p, NEW B,
           SendPush(c, p, B), push_ack' = push_ack,
           pc'[c] = "push_wait", target'[c] = p, batch'[c] = B
    PROVE  LossMail(c)'
<1> DEFINE new == [client |-> c, request_id |-> NewRequestId(c), peer |-> p,
                   entries |-> B]
<1>1. /\ request_id'[c] = NewRequestId(c)
      /\ entries_push' = entries_push \cup {new}
      /\ \A m \in Messages : m.client = c => m.request_id # NewRequestId(c)
    BY FreshRequest DEF SendPush, TypeInv, TypeOK
<1>2. \A m \in entries_push' : Answer(c, m)' => m = new
    BY <1>1 DEF Answer, Messages
<1>3. \A m \in push_ack' : ~ Answer(c, m)'
    BY <1>1 DEF Answer, Messages
<1>4. LossPushMail(c)'
    BY <1>2, <1>3 DEF LossPushMail
<1>5. QED
    BY <1>4 DEF LossMail

\* The answer to a pull carries every row of the peer, firm or not.
LEMMA LossServedPull ==
    ASSUME LossInv, UNCHANGED historyVars, NEW c \in Client,
           NEW m \in sync_pull, m.client = c, ServePull(m)
    PROVE  LossMail(c)'
<1> DEFINE rows == pull_since_cursor(entries[m.peer], m.cursor, m.limit)
           answer == [client |-> m.client, request_id |-> m.request_id,
                      entries |-> rows, next_cursor |-> next_cursor_of(rows)]
<1>0. TypeInv /\ LossMail(c)
    BY DEF LossInv, LossTypeInv
<1>1. /\ UNCHANGED storeVars /\ UNCHANGED clientVars /\ UNCHANGED pushVars
      /\ sync_pull' \subseteq sync_pull
      /\ sync_batch' \subseteq sync_batch \cup {answer}
    BY DEF ServePull
<1>2. FirmBatch(m.peer, m.cursor, next_cursor_of(rows), Ids(rows))
    BY <1>0, PullBatchRows DEF FirmBatch, GivenOut, Carries, Firm
<1> HIDE DEF rows
<1>3. CASE pc[c] = "pull_wait"
    <2>1. LossPullMail(c)
        BY <1>0, <1>3 DEF LossMail
    <2>2. Answer(c, answer) =>
            FirmBatch(target[c], cursor[c], answer.next_cursor,
                      Ids(answer.entries))
        BY <1>2, <2>1 DEF LossPullMail, Answer
    <2> HIDE DEF answer
    <2>3. \A x \in sync_batch' : Answer(c, x) =>
            FirmBatch(target[c], cursor[c], x.next_cursor, Ids(x.entries))
        BY <1>1, <2>1, <2>2 DEF LossPullMail
    <2>4. PICK t \in Device, from \in Nat : t = target[c] /\ from = cursor[c]
        BY LossFacts DEF LossInv
    <2>5. t = target'[c] /\ from = cursor'[c]
        BY <1>1, <2>4 DEF clientVars
    <2>6. \A x \in sync_batch' : Answer(c, x) =>
            FirmBatch(t, from, x.next_cursor, Ids(x.entries))'
        BY <1>1, <2>3, <2>4, SameCovered
    <2>7. LossPullMail(c)'
        BY <1>1, <2>1, <2>4, <2>5, <2>6 DEF LossPullMail, Answer, clientVars
    <2>8. QED
        BY <1>1, <1>3, <2>7 DEF LossMail, clientVars
<1>4. CASE pc[c] = "push_wait"
    <2>1. LossPushMail(c)'
        BY <1>0, <1>1, <1>4, SameCovered
           DEF LossMail, LossPushMail, Answer, clientVars, pushVars
    <2>2. QED
        BY <1>1, <1>4, <2>1 DEF LossMail, clientVars
<1>5. QED
    BY <1>1, <1>3, <1>4 DEF LossMail, clientVars

\* The answer to a push is true of the peer's store.
LEMMA LossServedPush ==
    ASSUME LossInv, LossTypeInv', NEW c \in Client,
           \A p \in Device : Endures(p) /\ Grows(p),
           NEW m \in entries_push, m.client = c, ServePush(m)
    PROVE  LossMail(c)'
<1>0. LossTypeInv /\ TypeInv /\ LossMail(c)
    BY DEF LossInv, LossTypeInv
<1>1. /\ UNCHANGED clientVars /\ UNCHANGED pullVars
      /\ entries_push' \subseteq entries_push
      /\ push_ack' = push_ack \cup {[client |-> m.client,
                                     request_id |-> m.request_id,
                                     ok |-> TRUE]}
      /\ Insert(m.peer, m.entries)
    BY DEF ServePush, Acknowledge
<1>2. CASE pc[c] = "push_wait"
    <2>1. LossPushMail(c)
        BY <1>0, <1>2 DEF LossMail
    <2>2. PICK t \in Device : t = target[c]
        BY <1>0, LossFacts
    <2>3. Had(t) \subseteq Had(t)'
        BY DEF Endures
    <2>4. Answer(c, m) => Ids(batch[c]) \subseteq Had(t)'
        BY <1>0, <1>1, <2>1, <2>2 DEF LossPushMail, Had, Insert, TypeInv, TypeOK
    <2>5. \A x \in push_ack' : Answer(c, x) /\ x.ok =>
            Ids(batch[c]) \subseteq Had(t)'
        BY <1>1, <2>1, <2>2, <2>3, <2>4 DEF LossPushMail, Answer
    <2>6. LossPushMail(c)'
        BY <1>1, <2>1, <2>2, <2>5 DEF LossPushMail, Answer, clientVars
    <2>7. QED
        BY <1>1, <1>2, <2>6 DEF LossMail, clientVars
<1>3. CASE pc[c] # "push_wait"
    <2>1. SameLocal(c) /\ request_id'[c] = request_id[c]
        BY <1>1 DEF SameLocal, clientVars
    <2>2. LossPullMail(c) => LossPullMail(c)'
        BY <1>0, <1>1, <2>1, LossPullFrame DEF pullVars
    <2>3. QED
        BY <1>0, <1>1, <1>3, <2>2 DEF LossMail, clientVars
<1>4. QED
    BY <1>2, <1>3

\* Every step of the protocol keeps the mail of every client true.
LEMMA LossMailNext ==
    ASSUME LossInv, LossTypeInv', [Next]_vars, UNCHANGED historyVars,
           \A p \in Device : Endures(p) /\ Grows(p), NEW c \in Client
    PROVE  LossMail(c)'
<1>0. LossTypeInv /\ TypeInv /\ ClientType /\ LossMail(c)
    BY TypeGroups DEF LossInv, LossTypeInv, TypeInv
<1>1. CASE SameLocal(c) /\ request_id'[c] = request_id[c] /\ LessMail(c)
    BY <1>0, <1>1, LossMailFrame
<1>2. CASE pc'[c] \notin {"pull_wait", "push_wait"}
    BY <1>2 DEF LossMail
<1>3. ASSUME NEW m \in sync_pull, m.client = c, ServePull(m)
      PROVE  LossMail(c)'
    BY <1>3, LossServedPull
<1>4. ASSUME NEW m \in entries_push, m.client = c, ServePush(m)
      PROVE  LossMail(c)'
    BY <1>4, LossServedPush
<1>5. ASSUME NEW m \in entries_push, m.client = c, ServePushError(m)
      PROVE  LossMail(c)'
    <2>1. /\ UNCHANGED storeVars /\ UNCHANGED clientVars /\ UNCHANGED pullVars
          /\ entries_push' \subseteq entries_push
          /\ push_ack' = push_ack \cup {[client |-> m.client,
                                         request_id |-> m.request_id,
                                         ok |-> FALSE]}
        BY <1>5 DEF ServePushError, Acknowledge
    <2>2. SameLocal(c) /\ request_id'[c] = request_id[c]
        BY <2>1 DEF SameLocal, clientVars
    <2>3. LossPullMail(c) => LossPullMail(c)'
        BY <1>0, <2>1, <2>2, LossPullFrame DEF pullVars
    <2>4. LossPushMail(c) => LossPushMail(c)'
        BY <2>1, SameCovered DEF LossPushMail, Answer, clientVars
    <2>5. QED
        BY <1>0, <2>1, <2>3, <2>4 DEF LossMail, clientVars
<1>6. ASSUME NEW p \in Device, StartSync(c, p) PROVE LossMail(c)'
    <2>1. /\ SendPull(c, p, get_last_cursor(host[c], p), batch_limit[c])
          /\ sync_batch' = sync_batch
          /\ pc'[c] = "pull_wait" /\ target'[c] = p
          /\ cursor'[c] = get_last_cursor(host[c], p)
        BY <1>0, <1>6 DEF StartSync, ClientType
    <2>2. QED
        BY <1>0, <2>1, LossPullSent
<1>7. CASE SaveCursor(c) \/ RetryPull(c)
    <2>1. \E from : /\ SendPull(c, target[c], from, batch_limit[c])
                    /\ sync_batch' = sync_batch
                    /\ pc'[c] = "pull_wait" /\ target'[c] = target[c]
                    /\ cursor'[c] = from
        BY <1>0, <1>7 DEF SaveCursor, RetryPull, ClientType
    <2>2. QED
        BY <1>0, <2>1, LossPullSent
<1>8. CASE PushSend(c) \/ RetryPush(c)
    <2>1. \E B : /\ SendPush(c, target[c], B)
                 /\ push_ack' = push_ack
                 /\ pc'[c] = "push_wait" /\ target'[c] = target[c]
                 /\ batch'[c] = B
        BY <1>0, <1>8 DEF PushSend, RetryPush, ClientType
    <2>2. QED
        BY <1>0, <2>1, LossPushSent
<1>9. QED
    BY <1>0, <1>1, <1>2, <1>3, <1>4, <1>5, <1>6, <1>7, <1>8, MailCases

\* A saved cursor that stays where it was.
LEMMA LossCursorFrame ==
    ASSUME LossTypeInv, LossTypeInv', LossCursors, NEW d \in Device, NEW p \in Device,
           Endures(p), Grows(d)
    PROVE  /\ peer_state'[d][p] = peer_state[d][p] =>
                Covered(p, seen[d], peer_state[d][p])'
           /\ peer_push_state'[d][p] = peer_push_state[d][p] =>
                Stored(RowsOf(entries'[d], d), sqlite_sequence'[d], Had(p)',
                       peer_push_state'[d][p])
<1>1. PICK n \in Nat, k \in Nat : n = peer_state[d][p] /\ k = peer_push_state[d][p]
    BY LossFacts
<1>2. /\ seen[d] \subseteq seen'[d]
      /\ Had(p) \subseteq Had(p)'
      /\ LaterTable(RowsOf(entries[d], d), sqlite_sequence[d],
                    RowsOf(entries'[d], d), sqlite_sequence'[d])
    BY DEF Grows, Endures
<1>3. /\ sqlite_sequence[d] \in Nat /\ sqlite_sequence'[d] \in Nat
      /\ RowsOf(entries'[d], d) \in SUBSET Row
    BY DEF LossTypeInv, TypeInv, TypeOK, RowsOf
<1>4. /\ Covered(p, seen[d], n)
      /\ Stored(RowsOf(entries[d], d), sqlite_sequence[d], Had(p), k)
    BY <1>1 DEF LossCursors
<1>5. /\ GivenOut(p, n)'
      /\ \A r \in Firm(p)' : r.ingest_seq <= n => r.entry_id \in seen'[d]
    BY <1>2, <1>4, CoveredLater
<1>6. Covered(p, seen[d], n)'
    BY <1>5 DEF Covered
<1>7. Stored(RowsOf(entries'[d], d), sqlite_sequence'[d], Had(p)', k)
    BY <1>2, <1>3, <1>4, StoredLater
<1>8. QED
    BY <1>1, <1>6, <1>7

\* In a step of the protocol a cursor is saved by a client that made it safe.
LEMMA LossCursorSync ==
    ASSUME LossInv, LossTypeInv', [Next]_vars, UNCHANGED historyVars,
           \A p \in Device : Endures(p) /\ Grows(p)
    PROVE  LossCursors'
<1>0. /\ LossTypeInv /\ TypeInv /\ CursorType /\ LossCursors
      /\ \A c \in Client : LossLocal(c)
    BY TypeGroups DEF LossInv, LossTypeInv, TypeInv
<1>1. SUFFICES ASSUME NEW d \in Device, NEW p \in Device
               PROVE  /\ Covered(p, seen[d], peer_state[d][p])'
                      /\ Stored(RowsOf(entries'[d], d), sqlite_sequence'[d],
                                Had(p)', peer_push_state'[d][p])
    BY DEF LossCursors
<1>2. CASE peer_state'[d][p] = peer_state[d][p]
           /\ peer_push_state'[d][p] = peer_push_state[d][p]
    BY <1>0, <1>2, LossCursorFrame
<1>3. ASSUME NEW c \in Client, host[c] = d, SaveCursor(c), target[c] = p
      PROVE  /\ Covered(p, seen[d], peer_state[d][p])'
             /\ peer_push_state'[d][p] = peer_push_state[d][p]
    <2>1. PICK n \in Nat : n = next_cursor[c]
        BY <1>0, LossFacts
    <2>2. /\ UNCHANGED storeVars /\ peer_push_state' = peer_push_state
          /\ peer_state'[d][p] = n
          /\ pc[c] = "pull_save"
        BY <1>0, <1>3, <2>1 DEF SaveCursor, set_last_cursor, CursorType
    <2>3. Covered(p, seen[d], n)
        BY <1>0, <1>3, <2>1, <2>2 DEF LossLocal
    <2>4. Covered(p, seen[d], n)'
        BY <2>2, <2>3, SameCovered
    <2>5. QED
        BY <2>2, <2>4
<1>4. ASSUME NEW c \in Client, host[c] = d, SavePushed(c), target[c] = p,
             ~ (next_cursor[c] <= cursor[c])
      PROVE  /\ Stored(RowsOf(entries'[d], d), sqlite_sequence'[d], Had(p)',
                       peer_push_state'[d][p])
             /\ peer_state'[d][p] = peer_state[d][p]
    <2>1. /\ UNCHANGED storeVars /\ peer_state' = peer_state
          /\ peer_push_state'[d][p] = next_cursor[c]
          /\ pc[c] = "push_save"
        BY <1>0, <1>4 DEF SavePushed, set_last_pushed_seq, CursorType
    <2>2. Stored(RowsOf(entries[d], d), sqlite_sequence[d], Had(p), next_cursor[c])
        BY <1>0, <1>4, <2>1, StoredByBatch, LossFacts DEF LossLocal
    <2>3. QED
        BY <2>1, <2>2, SameCovered
<1>5. ASSUME NEW c \in Client, host[c] = d, SaveCursor(c), target[c] # p
      PROVE  /\ peer_state'[d][p] = peer_state[d][p]
             /\ peer_push_state'[d][p] = peer_push_state[d][p]
    BY <1>0, <1>5 DEF SaveCursor, set_last_cursor, CursorType
<1>6. ASSUME NEW c \in Client, host[c] = d, SavePushed(c), target[c] # p,
             ~ (next_cursor[c] <= cursor[c])
      PROVE  /\ peer_state'[d][p] = peer_state[d][p]
             /\ peer_push_state'[d][p] = peer_push_state[d][p]
    BY <1>0, <1>6 DEF SavePushed, set_last_pushed_seq, CursorType
<1>7. SameCursors(d) => /\ peer_state'[d][p] = peer_state[d][p]
                        /\ peer_push_state'[d][p] = peer_push_state[d][p]
    BY DEF SameCursors
<1>8. CASE \E c \in Client : host[c] = d /\ SaveCursor(c)
    BY <1>0, <1>2, <1>3, <1>5, <1>8, LossCursorFrame
<1>9. CASE \E c \in Client : /\ host[c] = d /\ SavePushed(c)
                             /\ ~ (next_cursor[c] <= cursor[c])
    BY <1>0, <1>2, <1>4, <1>6, <1>9, LossCursorFrame
<1>10. QED
    BY <1>0, <1>2, <1>7, <1>8, <1>9, CursorCases

\* Snapshots that stay are as safe as before; a new one is the store, and no
\* snapshot is an empty store.
LEMMA LossSnapshotNext ==
    ASSUME LossInv, LossTypeInv', [LossNext]_allVars,
           \A p \in Device : Endures(p)
    PROVE  LossSnapshots'
<1>0. LossTypeInv /\ LossCursors /\ LossSnapshots
    BY DEF LossInv
<1>1. SUFFICES ASSUME NEW d \in Device, NEW p \in Device
               PROVE  /\ Covered(p, synced[d].seen, synced[d].peer_state[p])'
                      /\ Stored(RowsOf(synced'[d].entries, d),
                                synced'[d].sqlite_sequence, Had(p)',
                                synced'[d].peer_push_state[p])
    BY DEF LossSnapshots
<1>2. Had(p) \subseteq Had(p)'
    BY DEF Endures
<1>3. ASSUME NEW n \in Nat, NEW S, Covered(p, S, n)
      PROVE  Covered(p, S, n)'
    BY <1>0, <1>3, CoveredLater DEF Covered
<1>4. ASSUME NEW T, NEW last, NEW n, Stored(T, last, Had(p), n)
      PROVE  Stored(T, last, Had(p)', n)
    BY <1>2, <1>4 DEF Stored
<1>5. CASE synced'[d] = synced[d]
    <2>1. PICK n \in Nat, S \in SUBSET Entry : n = synced[d].peer_state[p] /\ S = synced[d].seen
        BY <1>0 DEF LossTypeInv, Snapshot
    <2>2. Covered(p, S, n)'
        BY <1>0, <1>3, <2>1 DEF LossSnapshots
    <2>3. Stored(RowsOf(synced[d].entries, d), synced[d].sqlite_sequence, Had(p)',
                 synced[d].peer_push_state[p])
        BY <1>0, <1>4 DEF LossSnapshots
    <2>4. QED
        BY <1>5, <2>1, <2>2, <2>3
<1>6. CASE synced'[d] = EmptyStore
    <2>1. /\ sqlite_sequence'[p] \in Nat
          /\ \A r \in Firm(p)' : r.ingest_seq \in Nat \ {0}
        BY DEF LossTypeInv, TypeInv, TypeOK, Firm, Row
    <2>2. \A S : Covered(p, S, 0)'
        BY <2>1 DEF Covered, GivenOut
    <2>3. QED
        BY <1>6, <2>2, EmptyStoreFacts DEF Stored, RowsOf
<1>7. CASE Checkpoint(d) /\ synced'[d] = Contents(d)
    <2>1. PICK n \in Nat, S \in SUBSET Entry : n = peer_state[d][p] /\ S = seen[d]
        BY <1>0, LossFacts DEF LossTypeInv, TypeInv, TypeOK
    <2>2. /\ Covered(p, S, n)'
          /\ Stored(RowsOf(entries[d], d), sqlite_sequence[d], Had(p)',
                    peer_push_state[d][p])
        BY <1>0, <1>3, <1>4, <2>1 DEF LossCursors
    <2>3. QED
        BY <1>7, <2>1, <2>2 DEF Contents
<1>8. QED
    BY <1>0, <1>5, <1>6, <1>7, SnapshotCases DEF LossTypeInv

\* The cursors of the device that fell back are those of its snapshot.
LEMMA LossCursorLoss ==
    ASSUME LossInv, LossTypeInv', NEW x \in Device, LosePower(x),
           \A p \in Device : Endures(p) /\ (p # x => Grows(p))
    PROVE  LossCursors'
<1>0. LossTypeInv /\ LossCursors /\ LossSnapshots
    BY DEF LossInv
<1>1. SUFFICES ASSUME NEW d \in Device, NEW p \in Device
               PROVE  /\ Covered(p, seen[d], peer_state[d][p])'
                      /\ Stored(RowsOf(entries'[d], d), sqlite_sequence'[d],
                                Had(p)', peer_push_state'[d][p])
    BY DEF LossCursors
<1>2. CASE d = x
    <2>1. /\ entries'[d] = synced[d].entries
          /\ sqlite_sequence'[d] = synced[d].sqlite_sequence
          /\ seen'[d] = synced[d].seen
          /\ peer_state'[d] = synced[d].peer_state
          /\ peer_push_state'[d] = synced[d].peer_push_state
        BY <1>0, <1>2, RestoredStore
    <2>2. PICK n \in Nat, S \in SUBSET Entry : n = synced[d].peer_state[p] /\ S = synced[d].seen
        BY <1>0 DEF LossTypeInv, Snapshot
    <2>3. Covered(p, S, n)
        BY <1>0, <2>2 DEF LossSnapshots
    <2>4. Covered(p, S, n)'
        BY <1>0, <2>3, CoveredLater DEF Covered
    <2>5. Had(p) \subseteq Had(p)'
        BY DEF Endures
    <2>6. Stored(RowsOf(synced[d].entries, d), synced[d].sqlite_sequence, Had(p)',
                 synced[d].peer_push_state[p])
        BY <1>0, <2>5 DEF LossSnapshots, Stored
    <2>7. QED
        BY <2>1, <2>2, <2>4, <2>6
<1>3. CASE d # x
    BY <1>0, <1>3, LossCursorFrame, RestoredStore
<1>4. QED
    BY <1>2, <1>3

\* The clients of that device are gone. The others go on with what they
\* remember, and answers of its old server that are still under way hold.
LEMMA LossClientLoss ==
    ASSUME LossInv, LossTypeInv', NEW x \in Device, LosePower(x),
           \A p \in Device : Endures(p) /\ (p # x => Grows(p)),
           NEW c \in Client
    PROVE  LossLocal(c)' /\ LossMail(c)'
<1>0. LossTypeInv /\ LossLocal(c) /\ LossMail(c) /\ ClientType /\ host[c] \in Device
    BY TypeGroups, ClientAssumption DEF LossInv, LossTypeInv, TypeInv
<1>1. ProcessesEnd(x)
    BY DEF LosePower
<1>2. CASE host[c] = x
    <2>1. pc'[c] = "idle"
        BY <1>0, <1>1, <1>2, ProcessesGone
    <2>2. QED
        BY <2>1 DEF LossLocal, LossMail
<1>3. CASE host[c] # x
    <2>1. /\ SameLocal(c) /\ request_id'[c] = request_id[c] /\ LessMail(c)
          /\ Grows(host[c])
        BY <1>0, <1>1, <1>3, ProcessesGone DEF LessMail
    <2>2. QED
        BY <1>0, <2>1, LossLocalFrame, LossMailFrame
<1>4. QED
    BY <1>2, <1>3

LEMMA LossInvInit == LossInit => LossInv
<1> SUFFICES ASSUME LossInit PROVE LossInv
    OBVIOUS
<1>1. LossTypeInv /\ Init
    BY LossTypeInit DEF LossInit
<1>2. RestartInv
    BY DEF LossInit, RestartInv
<1>3. \A p \in Device : sqlite_sequence[p] = 0 /\ entries[p] = {}
    BY <1>1 DEF Init
<1>4. \A p \in Device : \A S : Covered(p, S, 0)
    BY <1>3 DEF Covered, GivenOut, Firm
<1>5. LossCursors
    BY <1>1, <1>3, <1>4 DEF Init, LossCursors, Stored, RowsOf
<1>6. LossSnapshots
    BY <1>4, EmptyStoreFacts DEF LossInit, LossSnapshots, Stored, RowsOf
<1>7. \A c \in Client : LossLocal(c) /\ LossMail(c)
    BY <1>1 DEF Init, LossLocal, LossMail
<1>8. QED
    BY <1>1, <1>2, <1>5, <1>6, <1>7 DEF LossInv

LEMMA LossInvNext == LossInv /\ [LossNext]_allVars => LossInv'
<1> SUFFICES ASSUME LossInv, [LossNext]_allVars PROVE LossInv'
    OBVIOUS
<1>0. LossTypeInv /\ TypeInv /\ RestartInv
    BY DEF LossInv, LossTypeInv
<1>1. LossTypeInv' /\ RestartInv'
    BY <1>0, LossTypeNext, RestartNext
<1>2. CASE [Next]_vars /\ UNCHANGED historyVars
    <2>1. \A p \in Device : Endures(p) /\ Grows(p)
        BY <1>0, <1>1, <1>2, StoreNext, SyncEndures
    <2>2. LossCursors' /\ \A c \in Client : LossLocal(c)' /\ LossMail(c)'
        BY <1>1, <1>2, <2>1, LossCursorSync, LossLocalNext, LossMailNext
    <2>3. LossSnapshots'
        BY <1>1, <2>1, LossSnapshotNext
    <2>4. QED
        BY <1>1, <2>2, <2>3 DEF LossInv
<1>3. ASSUME NEW x \in Device, LosePower(x) PROVE LossInv'
    <2>1. \A p \in Device : Endures(p) /\ (p # x => Grows(p))
        BY <1>0, <1>3, LossEndures
    <2>2. LossCursors' /\ \A c \in Client : LossLocal(c)' /\ LossMail(c)'
        BY <1>1, <1>3, <2>1, LossCursorLoss, LossClientLoss
    <2>3. LossSnapshots'
        BY <1>1, <2>1, LossSnapshotNext
    <2>4. QED
        BY <1>1, <2>2, <2>3 DEF LossInv
<1>4. SyncStep => Next /\ UNCHANGED historyVars
    BY <1>0, SyncIsNext DEF SyncStep, historyVars, LossTypeInv
<1>5. ASSUME NEW d \in Device, Checkpoint(d)
      PROVE  UNCHANGED vars /\ UNCHANGED historyVars
    BY <1>5 DEF Checkpoint, historyVars
<1>6. UNCHANGED allVars => UNCHANGED vars /\ UNCHANGED historyVars
    BY DEF allVars, lossVars, historyVars
<1>7. QED
    BY <1>2, <1>3, <1>4, <1>5, <1>6 DEF LossNext

\* Whatever commit each device falls back to, and as often as it does: the
\* rows a pull passes over are the ones the peer numbered again or had deleted
\* and got back. A loss of the own store never opens a gap.
THEOREM PullGapCause == LossSpec => []PullGapOnlyRenumbered
<1>1. LossInv => PullGapOnlyRenumbered
    BY DEF LossInv, LossCursors, Covered, Firm, PullGapOnlyRenumbered
<1>2. QED
    BY LossInvInit, LossInvNext, <1>1, PTL DEF LossSpec

\* And the own rows a push cursor passes over are the ones the peer had
\* acknowledged and lost.
THEOREM PushGapCause == LossSpec => []PushGapOnlyUndone
<1>1. LossInv => PushGapOnlyUndone
    BY DEF LossInv, LossCursors, Stored, Had, PushGapOnlyUndone
<1>2. QED
    BY LossInvInit, LossInvNext, <1>1, PTL DEF LossSpec

-----------------------------------------------------------------------------
(* One loss.                                                               *)

\* Only finitely many devices have fallen back, and only those have rows that
\* were lost or came back.
FewLost ==
    /\ IsFiniteSet({d \in Device : restarts[d] # {}})
    /\ \A d \in Device :
         undone[d] # {} \/ revived[d] # {} => restarts[d] # {}

LEMMA FewLostNext ==
    ASSUME LossTypeInv, FewLost, [LossNext]_allVars
    PROVE  FewLost'
<1>0. /\ undone \in [Device -> SUBSET Entry]
      /\ revived \in [Device -> SUBSET Row]
      /\ restarts \in [Device -> SUBSET Nat]
    BY DEF LossTypeInv
<1>1. CASE UNCHANGED historyVars
    BY <1>1 DEF FewLost, historyVars
<1>2. ASSUME NEW x \in Device, LosePower(x) PROVE FewLost'
    <2> DEFINE Lost == {d \in Device : restarts[d] # {}}
    <2>1. /\ undone' = [undone EXCEPT ![x] = @ \cup (seen[x] \ synced[x].seen)]
          /\ revived' = [revived EXCEPT
                           ![x] = @ \cup (synced[x].entries \ entries[x])]
          /\ restarts' = [restarts EXCEPT
                            ![x] = @ \cup {synced[x].sqlite_sequence}]
        BY <1>2 DEF LosePower
    <2>2. {d \in Device : restarts'[d] # {}} = Lost \cup {x}
        BY <1>0, <2>1
    <2>3. IsFiniteSet(Lost \cup {x})
        BY FS_AddElement DEF FewLost
    <2>4. \A d \in Device : d # x => /\ undone'[d] = undone[d]
                                     /\ revived'[d] = revived[d]
                                     /\ restarts'[d] = restarts[d]
        BY <1>0, <2>1
    <2>5. restarts'[x] # {}
        BY <1>0, <2>1
    <2>6. \A d \in Device : undone'[d] # {} \/ revived'[d] # {} => restarts'[d] # {}
        BY <2>4, <2>5 DEF FewLost
    <2>7. QED
        BY <2>2, <2>3, <2>6 DEF FewLost
<1>3. SyncStep => UNCHANGED historyVars
    BY DEF SyncStep, historyVars
<1>4. ASSUME NEW d \in Device, Checkpoint(d) PROVE UNCHANGED historyVars
    BY <1>4 DEF Checkpoint, historyVars
<1>5. UNCHANGED allVars => UNCHANGED historyVars
    BY DEF allVars, lossVars, historyVars
<1>6. QED
    BY <1>1, <1>2, <1>3, <1>4, <1>5 DEF LossNext

\* Where both ways miss a row, both devices have fallen back.
LEMMA BothLost ==
    ASSUME LossInv, FewLost, NEW d \in Device, NEW p \in Device,
           NEW r \in RowsOf(entries[p], p), r.entry_id \notin seen[d],
           r.ingest_seq <= peer_state[d][p], r.ingest_seq <= peer_push_state[p][d]
    PROVE  restarts[d] # {} /\ restarts[p] # {}
<1>1. r \in entries[p]
    BY DEF RowsOf
<1>2. r \in Renumbered(p) \cup revived[p]
    BY <1>1 DEF LossInv, LossCursors, Covered, Firm
<1>3. restarts[p] # {}
    BY <1>2 DEF Renumbered, FewLost
<1>4. r.entry_id \in undone[d]
    BY DEF LossInv, LossCursors, Stored, Had
<1>5. QED
    BY <1>3, <1>4 DEF FewLost

\* As long as a single device has fallen back, one of the two ways reaches
\* every own entry: what a pull passes over is pushed, what a push takes for
\* delivered is pulled.
THEOREM OneWayIsLeft == LossSpec => []OneWayLeft
<1>1. LossInit => FewLost
    <2>1. ASSUME LossInit PROVE {d \in Device : restarts[d] # {}} = {}
        BY <2>1 DEF LossInit
    <2>2. QED
        BY <2>1, FS_EmptySet DEF LossInit, FewLost
<1>2. LossInv /\ FewLost => OneWayLeft
    <2>1. SUFFICES ASSUME LossInv, FewLost,
                          Cardinality({d \in Device : restarts[d] # {}}) <= 1,
                          NEW d \in Device, NEW p \in Device,
                          NEW r \in RowsOf(entries[p], p),
                          d # p, r.entry_id \notin seen[d],
                          ~ (r.ingest_seq > peer_state[d][p]),
                          ~ (r.ingest_seq > peer_push_state[p][d])
                   PROVE  FALSE
        BY DEF OneWayLeft
    <2>2. r.ingest_seq \in Nat
        BY <2>1, LossFacts DEF LossInv, RowsOf, Row
    <2>3. peer_state[d][p] \in Nat /\ peer_push_state[p][d] \in Nat
        BY <2>1, LossFacts DEF LossInv
    <2>4. restarts[d] # {} /\ restarts[p] # {}
        BY <2>1, <2>2, <2>3, BothLost
    <2>5. {d, p} \subseteq {x \in Device : restarts[x] # {}}
        BY <2>4
    <2>6. Cardinality({d, p}) = 2
        <3>1. IsFiniteSet({d}) /\ Cardinality({d}) = 1 /\ p \notin {d}
            BY <2>1, FS_Singleton
        <3>2. Cardinality({d} \cup {p}) = Cardinality({d}) + 1
            BY <3>1, FS_AddElement
        <3>3. {d} \cup {p} = {d, p}
            OBVIOUS
        <3>4. QED
            BY <3>1, <3>2, <3>3
    <2>7. IsFiniteSet({x \in Device : restarts[x] # {}})
        BY <2>1 DEF FewLost
    <2>8. /\ Cardinality({d, p}) <= Cardinality({x \in Device : restarts[x] # {}})
          /\ Cardinality({x \in Device : restarts[x] # {}}) \in Nat
        BY <2>5, <2>7, FS_Subset, FS_CardinalityType
    <2>9. QED
        BY <2>1, <2>6, <2>8
<1>3. LossInv /\ FewLost /\ [LossNext]_allVars => FewLost'
    BY FewLostNext DEF LossInv
<1>4. QED
    BY LossInvInit, LossInvNext, <1>1, <1>2, <1>3, PTL DEF LossSpec

=============================================================================
