----------------------------- MODULE LocalStore -----------------------------
(***************************************************************************)
(* The SQLite store of one device (src/storage.rs), as operators on the    *)
(* contents of its tables.  The table `entries` is a set of rows; a row    *)
(* keeps the two columns synchronisation depends on, its primary key       *)
(* ingest_seq and the UNIQUE entry_id.  The columns device_id and ts are   *)
(* functions of the entry: they are written once, by the device that       *)
(* recorded it, and copied verbatim.                                       *)
(*                                                                         *)
(* A batch (Vec<Entry> on the wire) is the set of rows it was read from.   *)
(* Rows are read ORDER BY ingest_seq ASC, so the order of the vector is    *)
(* the order of the sender's ingest_seq; nothing else of that number       *)
(* reaches the receiver.                                                   *)
(***************************************************************************)
EXTENDS Naturals, FiniteSets, FiniteSetsExt

CONSTANTS
    Entry,       \* entry ids: uuid v4 of a record, uuid v5 of an import
    device_id,   \* device_id[e]: the device that recorded e
    ts           \* ts[e]: when it was recorded

Row == [ingest_seq : Nat \ {0}, entry_id : Entry]

Ids(T) == {r.entry_id : r \in T}
Seqs(T) == {r.ingest_seq : r \in T}
RowsOf(T, d) == {r \in T : device_id[r.entry_id] = d}
RowsAfter(T, c) == {r \in T : r.ingest_seq > c}

\* Position of row r, counted from 1, in T ORDER BY ingest_seq ASC.
Rank(T, r) == Cardinality({x \in T : x.ingest_seq <= r.ingest_seq})

-----------------------------------------------------------------------------
(* INSERT OR IGNORE, one statement per entry, in one transaction.          *)

\* Mutant of AutoIncrement: a plain INTEGER PRIMARY KEY takes the largest
\* rowid in the table, so numbers of deleted rows come back.
AutoIncrement_Rowid(T, last) == IF T = {} THEN 0 ELSE Max(Seqs(T))

\* The number the next rowid follows. AUTOINCREMENT: sqlite_sequence, which
\* a DELETE never lowers.
AutoIncrement(T, last) == last

\* Mutant of Fresh: no UNIQUE constraint on entry_id.
Fresh_NoUnique(T, batch) == batch

\* The entries of the batch that are not ignored: their entry_id is neither
\* in the table nor earlier in the batch.
Fresh(T, batch) ==
    {b \in batch : /\ b.entry_id \notin Ids(T)
                   /\ \A x \in batch : x.entry_id = b.entry_id
                                          => b.ingest_seq <= x.ingest_seq}

\* Mutant of insert_entries: INSERT OR REPLACE.
insert_entries_Replace(T, last, batch) ==
    {r \in T : r.entry_id \notin Ids(batch)}
      \cup {[ingest_seq |-> AutoIncrement(T, last) + Rank(batch, b),
             entry_id |-> b.entry_id] : b \in batch}

\* The table after the transaction. A row that is ignored still uses up the
\* rowid it was given, so the i-th entry of the batch gets the i-th number.
insert_entries(T, last, batch) ==
    T \cup {[ingest_seq |-> AutoIncrement(T, last) + Rank(batch, b),
             entry_id |-> b.entry_id] : b \in Fresh(T, batch)}

\* sqlite_sequence after the transaction.
sequence_after_insert(T, last, batch) ==
    AutoIncrement(T, last) + Cardinality(batch)

-----------------------------------------------------------------------------
(* Reading batches by cursor.                                              *)

\* Mutant of pull_since_cursor: the newest rows first.
pull_since_cursor_Newest(T, cursor, limit) ==
    LET after == RowsAfter(T, cursor)
    IN  {r \in after : Cardinality(after) - Rank(after, r) < limit}

\* SELECT ... WHERE ingest_seq > cursor ORDER BY ingest_seq ASC LIMIT limit
pull_since_cursor(T, cursor, limit) ==
    LET after == RowsAfter(T, cursor)
    IN  {r \in after : Rank(after, r) <= limit}

\* The same with AND device_id = d.
pull_since_cursor_for_device(T, cursor, limit, d) ==
    pull_since_cursor(RowsOf(T, d), cursor, limit)

\* Mutant of next_cursor_of: the cursor of a query WHERE ingest_seq >= ?.
next_cursor_of_PastEnd(batch) ==
    IF batch = {} THEN 0 ELSE Max(Seqs(batch)) + 1

\* The ingest_seq of the last row of the batch; 0 stands for None.
next_cursor_of(batch) == IF batch = {} THEN 0 ELSE Max(Seqs(batch))

-----------------------------------------------------------------------------
(* prune_entries_older_than.                                               *)

\* Option::None for a floor. ingest_seq starts at 1 and a stored push cursor
\* is an ingest_seq, so 0 is never a floor.
NoFloor == 0

\* Smallest ingest_seq of the keep_recent newest rows.
prune_keep_floor_seq(T, keep_recent) ==
    LET newest == {r \in T :
                    Cardinality({x \in T : x.ingest_seq >= r.ingest_seq})
                        <= keep_recent}
    IN  IF newest = {} THEN NoFloor ELSE Min(Seqs(newest))

\* Mutant of prune_pushed_floor_seq: the fastest peer decides.
prune_pushed_floor_seq_Max(pushed) ==
    LET stored == {pushed[p] : p \in DOMAIN pushed} \ {0}
    IN  IF stored = {} THEN NoFloor ELSE Max(stored)

\* SELECT MIN(last_pushed_seq) FROM peer_push_state. A peer with value 0 has
\* no row: every value ever stored is the ingest_seq of a pushed row.
prune_pushed_floor_seq(pushed) ==
    LET stored == {pushed[p] : p \in DOMAIN pushed} \ {0}
    IN  IF stored = {} THEN NoFloor ELSE Min(stored)

\* The rows the DELETE matches.
PruneCandidates(T, cutoff, keep_floor, pushed_floor) ==
    {r \in T : /\ ts[r.entry_id] < cutoff
               /\ keep_floor # NoFloor => r.ingest_seq < keep_floor
               /\ pushed_floor # NoFloor => r.ingest_seq <= pushed_floor}

=============================================================================
