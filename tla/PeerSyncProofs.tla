--------------------------- MODULE PeerSyncProofs ---------------------------
(***************************************************************************)
(* Proofs about LocalStore and PeerSync, for all devices, clients,         *)
(* entries, limits and bounds: what the statements on a table return,      *)
(* types, the two cursor invariants, one row per entry, what prune may     *)
(* delete, the refinement of Replication and, with one process per device, *)
(* that cursors never move back and, without faults and prunes, that       *)
(* echoes die out.                                                         *)
(*                                                                         *)
(* The inductive invariant has three layers.  TypeInv: types, tables that  *)
(* are finite and numbered up to sqlite_sequence, batches that are finite. *)
(* CursorInv: saved cursors are safe (Stored).  LocalInv and MailInv: what *)
(* client c remembers and what the answer to its current request says add  *)
(* up to a safe cursor when it is saved.  For the echoes, CalmInv says     *)
(* that a batch holds only rows its cursor has not passed, and NumberInv   *)
(* that a number is given out for such a row or for an own entry.          *)
(***************************************************************************)
EXTENDS PeerSync, Integers, TLAPS, FiniteSetTheorems, WellFoundedInduction

-----------------------------------------------------------------------------
(* The operators of LocalStore, for every table, batch and limit.          *)

\* The rows of T numbered above from and up to to have their ids in S.
Carries(T, from, to, S) ==
    \A r \in T : r.ingest_seq > from /\ r.ingest_seq <= to
                    => r.entry_id \in S

\* T is a finite table whose numbers AUTOINCREMENT has all given out.
Numbered(T, last) ==
    /\ T \in SUBSET Row
    /\ IsFiniteSet(T)
    /\ \A r \in T : r.ingest_seq <= last

\* One row per entry and one row per number.
Unique(T) ==
    \A r, s \in T :
        r.entry_id = s.entry_id \/ r.ingest_seq = s.ingest_seq => r = s

\* A batch in memory or on the wire.
Batch(B) == B \in SUBSET Row /\ IsFiniteSet(B)

-----------------------------------------------------------------------------

\* FiniteSetsExt!Min finds the least element, which MIN(...) needs.
LEMMA MinNat ==
    ASSUME NEW S \in SUBSET Nat, S # {}
    PROVE  Min(S) \in S /\ \A y \in S : Min(S) <= y
<1> DEFINE below == {0..x : x \in S}
<1>1. below \subseteq FiniteSubsetsOf(Nat) /\ below # {}
    <2>1. \A x \in S : IsFiniteSet(0..x) /\ 0..x \subseteq Nat
        BY FS_Interval
    <2>2. \A x \in S : 0..x \in FiniteSubsetsOf(Nat)
        BY <2>1 DEF FiniteSubsetsOf
    <2>3. QED
        BY <2>2
<1>2. PICK u \in below : \A v \in below : <<v, u>> \notin StrictSubsetOrdering(Nat)
    BY <1>1, FS_StrictSubsetOrderingWellFounded, WFMin
<1>3. PICK x \in S : u = 0..x
    BY <1>2
<1>4. ASSUME NEW y \in S PROVE x <= y
    <2>1. SUFFICES ASSUME y < x PROVE FALSE
        OBVIOUS
    <2>2. 0..y \subseteq 0..x /\ 0..y # 0..x
        BY <2>1
    <2>3. 0..y \in SUBSET Nat /\ 0..x \in SUBSET Nat
        OBVIOUS
    <2>4. <<0..y, 0..x>> \in StrictSubsetOrdering(Nat)
        BY <2>2, <2>3 DEF StrictSubsetOrdering
    <2>5. QED
        BY <1>2, <1>3, <2>4
<1>5. QED
    BY <1>4 DEF Min

\* A bounded set of numbers has a largest one.
LEMMA MaxNat ==
    ASSUME NEW S \in SUBSET Nat, S # {}, NEW n \in Nat, \A y \in S : y <= n
    PROVE  Max(S) \in S /\ \A y \in S : y <= Max(S)
<1> DEFINE U == {u \in Nat : \A y \in S : y <= u}
<1>1. PICK u \in U : \A v \in U : u <= v
    BY MinNat
<1>2. u \in S
    <2>1. SUFFICES ASSUME u \notin S PROVE FALSE
        OBVIOUS
    <2>2. \A y \in S : y < u
        BY <2>1
    <2>3. u \in Nat /\ \E y \in S : y \in Nat /\ y < u
        BY <2>2
    <2>4. u - 1 \in U
        BY <2>2, <2>3
    <2>5. QED
        BY <1>1, <2>4
<1>3. \E x \in S : \A y \in S : x >= y
    BY <1>1, <1>2
<1>4. QED
    BY <1>3 DEF Max

\* Later rows rank higher, and ranks count from 1 to the size of the table.
LEMMA RankMonotone ==
    ASSUME NEW T, Batch(T), NEW r \in T, NEW s \in T
    PROVE  /\ Rank(T, r) \in 1..Cardinality(T)
           /\ r.ingest_seq <= s.ingest_seq => Rank(T, r) <= Rank(T, s)
           /\ r.ingest_seq < s.ingest_seq => Rank(T, r) < Rank(T, s)
<1> DEFINE Upto(x) == {y \in T : y.ingest_seq <= x.ingest_seq}
<1>1. \A x \in T : x.ingest_seq \in Nat
    BY DEF Batch, Row
<1>2. \A x \in T : Upto(x) \in SUBSET T
    OBVIOUS
<1>3. IsFiniteSet(T) /\ Cardinality(T) \in Nat
    BY FS_CardinalityType DEF Batch
<1>4. ASSUME NEW x \in T
      PROVE  /\ IsFiniteSet(Upto(x))
             /\ Cardinality(Upto(x)) \in Nat
             /\ Cardinality(Upto(x)) <= Cardinality(T)
             /\ Cardinality(Upto(x)) # 0
    <2>1. IsFiniteSet(Upto(x)) /\ Cardinality(Upto(x)) <= Cardinality(T)
        BY <1>2, <1>3, FS_Subset
    <2>2. Cardinality(Upto(x)) \in Nat
        BY <2>1, FS_CardinalityType
    <2>3. x \in Upto(x)
        BY <1>1
    <2>4. Cardinality(Upto(x)) # 0
        BY <2>1, <2>3, FS_EmptySet
    <2>5. QED
        BY <2>1, <2>2, <2>4
<1>5. Rank(T, r) = Cardinality(Upto(r)) /\ Rank(T, s) = Cardinality(Upto(s))
    BY DEF Rank
<1>6. ASSUME r.ingest_seq <= s.ingest_seq
      PROVE  Cardinality(Upto(r)) <= Cardinality(Upto(s))
    <2>1. Upto(r) \in SUBSET Upto(s)
        BY <1>1, <1>6
    <2>2. QED
        BY <1>4, <2>1, FS_Subset
<1>7. ASSUME r.ingest_seq < s.ingest_seq
      PROVE  Cardinality(Upto(r)) < Cardinality(Upto(s))
    <2>1. Upto(r) \in SUBSET Upto(s)
        BY <1>1, <1>7
    <2>2. s \in Upto(s) /\ s \notin Upto(r)
        BY <1>1, <1>7
    <2>3. /\ Cardinality(Upto(r)) <= Cardinality(Upto(s))
          /\ Cardinality(Upto(r)) # Cardinality(Upto(s))
        BY <1>4, <2>1, <2>2, FS_Subset
    <2>4. QED
        BY <1>4, <2>3
<1>8. QED
    BY <1>3, <1>4, <1>5, <1>6, <1>7

\* The lemma every cursor rests on: pull_since_cursor returns a gapless run
\* of the table. A row after the cursor and not after a returned row is
\* returned as well.
LEMMA PullIsGapless ==
    ASSUME NEW T, Batch(T), NEW from \in Nat, NEW limit \in Nat,
           NEW s \in pull_since_cursor(T, from, limit), NEW r \in T,
           r.ingest_seq > from, r.ingest_seq <= s.ingest_seq
    PROVE  r \in pull_since_cursor(T, from, limit)
<1> DEFINE after == RowsAfter(T, from)
<1>1. after \in SUBSET T
    BY DEF RowsAfter
<1>2. Batch(after)
    BY <1>1, FS_Subset DEF Batch
<1>3. r \in after /\ s \in after /\ Rank(after, s) <= limit
    BY DEF pull_since_cursor, RowsAfter
<1>4. /\ Rank(after, r) \in Nat
      /\ Rank(after, s) \in Nat
      /\ Rank(after, r) <= Rank(after, s)
    <2>1. Cardinality(after) \in Nat
        BY <1>2, FS_CardinalityType DEF Batch
    <2>2. /\ Rank(after, r) \in 1..Cardinality(after)
          /\ Rank(after, s) \in 1..Cardinality(after)
          /\ Rank(after, r) <= Rank(after, s)
        BY <1>2, <1>3, RankMonotone
    <2>3. QED
        BY <2>1, <2>2
<1>5. Rank(after, r) <= limit
    BY <1>3, <1>4
<1>6. QED
    BY <1>3, <1>5 DEF pull_since_cursor

\* An empty batch says that no row is left after the cursor.
LEMMA PullExhausts ==
    ASSUME NEW T, Batch(T), Unique(T), NEW from \in Nat, NEW limit \in Nat,
           limit >= 1, pull_since_cursor(T, from, limit) = {}
    PROVE  \A r \in T : r.ingest_seq <= from
<1> DEFINE after == RowsAfter(T, from)
<1>0. \A r \in T : r.ingest_seq \in Nat
    BY DEF Batch, Row
<1>1. SUFFICES ASSUME after # {} PROVE FALSE
    BY <1>0 DEF RowsAfter
<1>2. after \subseteq T
    BY DEF RowsAfter
<1>3. Min(Seqs(after)) \in Seqs(after) /\ \A n \in Seqs(after) : Min(Seqs(after)) <= n
    <2>1. Seqs(after) \in SUBSET Nat /\ Seqs(after) # {}
        BY <1>0, <1>1, <1>2 DEF Seqs
    <2>2. QED
        BY <2>1, MinNat
<1>4. PICK r \in after : \A x \in after : r.ingest_seq <= x.ingest_seq
    BY <1>3 DEF Seqs
<1>5. {x \in after : x.ingest_seq <= r.ingest_seq} = {r}
    <2>1. ASSUME NEW x \in after, x.ingest_seq <= r.ingest_seq PROVE x = r
        <3>1. x.ingest_seq = r.ingest_seq
            BY <1>0, <1>2, <1>4, <2>1
        <3>2. QED
            BY <1>2, <1>4, <3>1 DEF Unique
    <2>2. r.ingest_seq <= r.ingest_seq
        BY <1>0, <1>2, <1>4
    <2>3. QED
        BY <1>4, <2>1, <2>2
<1>6. Rank(after, r) = 1
    BY <1>5, FS_Singleton DEF Rank
<1>7. QED
    BY <1>4, <1>6 DEF pull_since_cursor

\* The cursor of a batch is the number of its last row.
LEMMA NextCursorLast ==
    ASSUME NEW B, Batch(B), NEW n \in Nat, \A r \in B : r.ingest_seq <= n
    PROVE  /\ next_cursor_of(B) \in Nat
           /\ next_cursor_of(B) <= n
           /\ B # {} => \E s \in B : s.ingest_seq = next_cursor_of(B)
<1>1. CASE B = {}
    BY <1>1 DEF next_cursor_of
<1>2. CASE B # {}
    <2>1. /\ Seqs(B) \in SUBSET Nat
          /\ Seqs(B) # {}
          /\ \A y \in Seqs(B) : y <= n
        BY <1>2 DEF Seqs, Batch, Row
    <2>2. Max(Seqs(B)) \in Seqs(B)
        BY <2>1, MaxNat
    <2>3. next_cursor_of(B) = Max(Seqs(B))
        BY <1>2 DEF next_cursor_of
    <2>4. QED
        BY <2>1, <2>2, <2>3 DEF Seqs
<1>3. QED
    BY <1>1, <1>2

\* What a server sends or a client pushes: a finite part of the table, with a
\* cursor that was given out, and with every row the cursor passes.
LEMMA PullCarries ==
    ASSUME NEW T, NEW last \in Nat, Numbered(T, last),
           NEW from \in Nat, NEW limit \in Nat
    PROVE  LET B == pull_since_cursor(T, from, limit)
           IN  /\ B \in SUBSET T
               /\ Batch(B)
               /\ next_cursor_of(B) \in Nat
               /\ next_cursor_of(B) <= last
               /\ Carries(T, from, next_cursor_of(B), Ids(B))
<1> DEFINE B == pull_since_cursor(T, from, limit)
<1>1. Batch(T)
    BY DEF Batch, Numbered
<1>2. B \in SUBSET T
    BY DEF pull_since_cursor, RowsAfter
<1>3. Batch(B)
    BY <1>1, <1>2, FS_Subset DEF Batch
<1>4. \A r \in B : r.ingest_seq <= last
    BY <1>2 DEF Numbered
<1>5. /\ next_cursor_of(B) \in Nat
      /\ next_cursor_of(B) <= last
      /\ B # {} => \E s \in B : s.ingest_seq = next_cursor_of(B)
    BY <1>3, <1>4, NextCursorLast
<1>6. ASSUME NEW r \in T, r.ingest_seq > from,
             r.ingest_seq <= next_cursor_of(B)
      PROVE  r \in B
    <2>1. r.ingest_seq \in Nat
        BY <1>1 DEF Batch, Row
    <2>2. B # {}
        BY <1>6, <2>1 DEF next_cursor_of
    <2>3. PICK s \in B : s.ingest_seq = next_cursor_of(B)
        BY <1>5, <2>2
    <2>4. QED
        BY <1>1, <1>6, <2>3, PullIsGapless
<1>7. Carries(T, from, next_cursor_of(B), Ids(B))
    BY <1>6 DEF Carries, Ids
<1>8. QED
    BY <1>2, <1>3, <1>5, <1>7

\* The rows of one device are a table of their own.
LEMMA RowsOfNumbered ==
    ASSUME NEW T, NEW last \in Nat, Numbered(T, last), NEW d
    PROVE  Numbered(RowsOf(T, d), last) /\ RowsOf(T, d) \subseteq T
<1>1. RowsOf(T, d) \in SUBSET T
    BY DEF RowsOf
<1>2. IsFiniteSet(RowsOf(T, d))
    BY <1>1, FS_Subset DEF Numbered
<1>3. QED
    BY <1>1, <1>2 DEF Numbered

-----------------------------------------------------------------------------

\* The row a fresh entry b of batch B becomes.
NewRow(last, B, b) ==
    [ingest_seq |-> last + Rank(B, b), entry_id |-> b.entry_id]

\* insert_entries in those terms.
LEMMA InsertRows ==
    ASSUME NEW T, NEW last, NEW B
    PROVE  insert_entries(T, last, B) = T \cup {NewRow(last, B, b) : b \in Fresh(T, B)}
BY DEF insert_entries, AutoIncrement, NewRow

\* An insert numbers its rows above everything given out before, up to the
\* new value of sqlite_sequence, and stores nothing but entries of the batch.
LEMMA InsertNumbered ==
    ASSUME NEW T, NEW last \in Nat, Numbered(T, last), NEW B, Batch(B)
    PROVE  LET N == insert_entries(T, last, B)
               n == sequence_after_insert(T, last, B)
           IN  /\ n \in Nat
               /\ last <= n
               /\ Numbered(N, n)
               /\ T \subseteq N
               /\ \A r \in N \ T : /\ r.ingest_seq > last
                                   /\ r.entry_id \in Ids(B)
<1> DEFINE N == insert_entries(T, last, B)
           n == sequence_after_insert(T, last, B)
           new == {NewRow(last, B, b) : b \in Fresh(T, B)}
<1>1. N = T \cup new
    BY InsertRows
<1>2. Fresh(T, B) \in SUBSET B /\ IsFiniteSet(Fresh(T, B))
    BY FS_Subset DEF Fresh, Batch
<1>3. Cardinality(B) \in Nat /\ n = last + Cardinality(B)
    BY FS_CardinalityType DEF sequence_after_insert, AutoIncrement, Batch
<1>4. n \in Nat /\ last <= n
    BY <1>3
<1>5. IsFiniteSet(new)
    <2>1. [b \in Fresh(T, B) |-> NewRow(last, B, b)]
              \in Surjection(Fresh(T, B), new)
        BY DEF Surjection
    <2>2. QED
        BY <1>2, <2>1, FS_Surjection
<1>6. ASSUME NEW b \in Fresh(T, B)
      PROVE  /\ NewRow(last, B, b) \in Row
             /\ NewRow(last, B, b).ingest_seq > last
             /\ NewRow(last, B, b).ingest_seq <= n
             /\ NewRow(last, B, b).entry_id \in Ids(B)
    <2>1. b \in B /\ Rank(B, b) \in 1..Cardinality(B)
        BY <1>2, RankMonotone
    <2>2. b.entry_id \in Entry
        BY <2>1 DEF Batch, Row
    <2>3. b.entry_id \in Ids(B)
        BY <2>1 DEF Ids
    <2>4. /\ last + Rank(B, b) \in Nat \ {0}
          /\ last + Rank(B, b) > last
          /\ last + Rank(B, b) <= n
        BY <1>3, <2>1
    <2>5. QED
        BY <2>2, <2>3, <2>4 DEF NewRow, Row
<1>7. /\ new \in SUBSET Row
      /\ \A r \in new : /\ r.ingest_seq > last
                        /\ r.ingest_seq <= n
                        /\ r.entry_id \in Ids(B)
    BY <1>6
<1>8. Numbered(N, n)
    <2>1. IsFiniteSet(N)
        BY <1>1, <1>5, FS_Union DEF Numbered
    <2>2. \A r \in T : r.ingest_seq <= n
        <3>1. \A r \in T : r.ingest_seq \in Nat /\ r.ingest_seq <= last
            BY DEF Numbered, Row
        <3>2. QED
            BY <1>4, <3>1
    <2>3. QED
        BY <1>1, <1>7, <2>1, <2>2 DEF Numbered
<1>9. QED
    BY <1>1, <1>4, <1>7, <1>8

\* After the insert the table holds every entry of the batch.
LEMMA InsertIds ==
    ASSUME NEW T, NEW last \in Nat, NEW B, Batch(B)
    PROVE  Ids(insert_entries(T, last, B)) = Ids(T) \cup Ids(B)
<1> DEFINE new == {NewRow(last, B, b) : b \in Fresh(T, B)}
<1>1. insert_entries(T, last, B) = T \cup new
    BY InsertRows
<1>2. Ids(new) \subseteq Ids(B)
    BY DEF Ids, NewRow, Fresh
<1>3. ASSUME NEW b \in B, b.entry_id \notin Ids(T)
      PROVE  b.entry_id \in Ids(new)
    <2> DEFINE S == {x.ingest_seq : x \in {y \in B : y.entry_id = b.entry_id}}
    <2>1. S \in SUBSET Nat /\ S # {}
        BY DEF Batch, Row
    <2>2. PICK m \in S : \A y \in S : m <= y
        BY <2>1, MinNat
    <2>3. PICK x \in B : x.entry_id = b.entry_id /\ x.ingest_seq = m
        BY <2>2
    <2>4. x \in Fresh(T, B)
        BY <1>3, <2>2, <2>3 DEF Fresh
    <2>5. NewRow(last, B, x) \in new /\ NewRow(last, B, x).entry_id = b.entry_id
        BY <2>3, <2>4 DEF NewRow
    <2>6. QED
        BY <2>5 DEF Ids
<1>4. Ids(B) \subseteq Ids(T) \cup Ids(new)
    BY <1>3 DEF Ids
<1>5. Ids(T \cup new) = Ids(T) \cup Ids(new)
    BY DEF Ids
<1>6. QED
    BY <1>1, <1>2, <1>4, <1>5

\* INSERT OR IGNORE keeps entries and numbers unique, however often an entry
\* is offered.
LEMMA InsertUnique ==
    ASSUME NEW T, NEW last \in Nat, Numbered(T, last), Unique(T),
           NEW B, Batch(B), Unique(B)
    PROVE  Unique(insert_entries(T, last, B))
<1> DEFINE F == Fresh(T, B)
           new == {NewRow(last, B, b) : b \in F}
<1>1. insert_entries(T, last, B) = T \cup new
    BY InsertRows
<1>2. F \subseteq B /\ \A b \in F : b.entry_id \notin Ids(T)
    BY DEF Fresh
<1>3. \A b \in F : Rank(B, b) \in Nat /\ Rank(B, b) > 0
    <2>1. Cardinality(B) \in Nat
        BY FS_CardinalityType DEF Batch
    <2>2. \A b \in B : Rank(B, b) \in 1..Cardinality(B)
        BY RankMonotone
    <2>3. QED
        BY <1>2, <2>1, <2>2
<1>4. ASSUME NEW a \in F, NEW b \in F, Rank(B, a) = Rank(B, b)
      PROVE  a = b
    <2>1. a.ingest_seq \in Nat /\ b.ingest_seq \in Nat
        BY <1>2 DEF Batch, Row
    <2>2. /\ a.ingest_seq < b.ingest_seq => Rank(B, a) < Rank(B, b)
          /\ b.ingest_seq < a.ingest_seq => Rank(B, b) < Rank(B, a)
        BY <1>2, RankMonotone
    <2>3. a.ingest_seq = b.ingest_seq
        BY <1>3, <1>4, <2>1, <2>2
    <2>4. QED
        BY <1>2, <2>3 DEF Unique
<1>5. \A r \in new : \A s \in new :
        r.entry_id = s.entry_id \/ r.ingest_seq = s.ingest_seq => r = s
    <2>1. SUFFICES ASSUME NEW a \in F, NEW b \in F,
                          \/ a.entry_id = b.entry_id
                          \/ last + Rank(B, a) = last + Rank(B, b)
                   PROVE  a = b
        BY DEF NewRow
    <2>2. CASE a.entry_id = b.entry_id
        BY <1>2, <2>2 DEF Unique
    <2>3. CASE last + Rank(B, a) = last + Rank(B, b)
        BY <1>3, <1>4, <2>3
    <2>4. QED
        BY <2>1, <2>2, <2>3
<1>6. \A r \in T : \A s \in new :
        r.entry_id # s.entry_id /\ r.ingest_seq # s.ingest_seq
    <2>1. SUFFICES ASSUME NEW r \in T, NEW b \in F
                   PROVE  /\ r.entry_id # b.entry_id
                          /\ r.ingest_seq # last + Rank(B, b)
        BY DEF NewRow
    <2>2. r.entry_id # b.entry_id
        BY <1>2 DEF Ids
    <2>3. r.ingest_seq \in Nat /\ r.ingest_seq <= last
        BY DEF Numbered, Row
    <2>4. QED
        BY <1>3, <2>2, <2>3
<1>7. QED
    BY <1>1, <1>5, <1>6 DEF Unique

-----------------------------------------------------------------------------

\* A cursor n into table T, whose numbers up to last are given out, is safe
\* when set S holds every entry of T that it has passed.
Stored(T, last, S, n) ==
    /\ n <= last
    /\ \A r \in T : r.ingest_seq <= n => r.entry_id \in S

\* T2 is a later version of table T: what came in since has a new number.
LaterTable(T, last, T2, last2) ==
    /\ last <= last2
    /\ \A r \in T2 : r \in T \/ r.ingest_seq > last

\* A safe cursor stays safe: new rows are numbered above it, whatever is
\* recorded, received or pruned on either side.
LEMMA StoredLater ==
    ASSUME NEW T, NEW T2 \in SUBSET Row, NEW last \in Nat, NEW last2 \in Nat,
           NEW S, NEW S2, NEW n \in Nat,
           Stored(T, last, S, n), LaterTable(T, last, T2, last2), S \subseteq S2
    PROVE  Stored(T2, last2, S2, n)
<1>1. n <= last2
    BY DEF Stored, LaterTable
<1>2. ASSUME NEW r \in T2, r.ingest_seq <= n PROVE r.entry_id \in S2
    <2>1. r.ingest_seq \in Nat
        BY DEF Row
    <2>2. r \in T
        BY <1>2, <2>1 DEF Stored, LaterTable
    <2>3. QED
        BY <1>2, <2>2 DEF Stored
<1>3. QED
    BY <1>1, <1>2 DEF Stored

\* A batch that carries every row up to a number already given out still does
\* later on.
LEMMA CarriesLater ==
    ASSUME NEW T, NEW T2 \in SUBSET Row, NEW last \in Nat, NEW last2 \in Nat,
           NEW from \in Nat, NEW to \in Nat, NEW S,
           Carries(T, from, to, S), to <= last, LaterTable(T, last, T2, last2)
    PROVE  Carries(T2, from, to, S) /\ to <= last2
<1>1. \A r \in T2 : r.ingest_seq \in Nat
    BY DEF Row
<1>2. to <= last2
    BY DEF LaterTable
<1>3. QED
    BY <1>1, <1>2 DEF Carries, LaterTable

\* Storing such a batch makes its cursor safe.
LEMMA StoredByBatch ==
    ASSUME NEW T \in SUBSET Row, NEW last \in Nat, NEW from \in Nat,
           NEW to \in Nat, NEW S, NEW I,
           Stored(T, last, S, from), Carries(T, from, to, I), to <= last,
           I \subseteq S
    PROVE  Stored(T, last, S, to)
<1>1. \A r \in T : r.ingest_seq \in Nat
    BY DEF Row
<1>2. QED
    BY <1>1 DEF Stored, Carries

\* The floor for pushed rows is not above any stored push cursor, and there
\* is one as soon as a peer has a push cursor.
LEMMA PushedFloor ==
    ASSUME NEW D, NEW pushed \in [D -> Nat]
    PROVE  /\ prune_pushed_floor_seq(pushed) \in Nat
           /\ \A p \in D : pushed[p] # 0 =>
                /\ prune_pushed_floor_seq(pushed) # NoFloor
                /\ prune_pushed_floor_seq(pushed) <= pushed[p]
<1> DEFINE stored == {pushed[p] : p \in DOMAIN pushed} \ {0}
<1>1. stored \in SUBSET Nat /\ 0 \notin stored
    OBVIOUS
<1>2. CASE stored = {}
    BY <1>2 DEF prune_pushed_floor_seq, NoFloor
<1>3. CASE stored # {}
    <2>1. Min(stored) \in stored /\ \A y \in stored : Min(stored) <= y
        BY <1>1, <1>3, MinNat
    <2>2. prune_pushed_floor_seq(pushed) = Min(stored)
        BY <1>3 DEF prune_pushed_floor_seq
    <2>3. QED
        BY <1>1, <2>1, <2>2 DEF NoFloor
<1>4. QED
    BY <1>2, <1>3

\* The keep floor is a number.
LEMMA KeepFloorType ==
    ASSUME NEW T \in SUBSET Row, NEW k
    PROVE  prune_keep_floor_seq(T, k) \in Nat
<1> DEFINE newest == {r \in T :
                        Cardinality({x \in T : x.ingest_seq >= r.ingest_seq}) <= k}
<1>1. CASE newest = {}
    BY <1>1 DEF prune_keep_floor_seq, NoFloor
<1>2. CASE newest # {}
    <2>1. Seqs(newest) \in SUBSET Nat /\ Seqs(newest) # {}
        BY <1>2 DEF Seqs, Row
    <2>2. Min(Seqs(newest)) \in Nat
        BY <2>1, MinNat
    <2>3. QED
        BY <1>2, <2>2 DEF prune_keep_floor_seq
<1>3. QED
    BY <1>1, <1>2

-----------------------------------------------------------------------------
(* The protocol.                                                           *)

StoreInv == \A d \in Device : Numbered(entries[d], sqlite_sequence[d])

BatchInv ==
    /\ \A c \in Client : IsFiniteSet(batch[c])
    /\ \A m \in sync_batch : IsFiniteSet(m.entries)
    /\ \A m \in entries_push : IsFiniteSet(m.entries)

TypeInv == TypeOK /\ StoreInv /\ BatchInv

\* What one step does to the stores: cursors into them stay meaningful.
StoresGrow ==
    \A d \in Device :
        /\ seen[d] \subseteq seen'[d]
        /\ LaterTable(entries[d], sqlite_sequence[d],
                      entries'[d], sqlite_sequence'[d])

-----------------------------------------------------------------------------
(* Types.                                                                  *)

StoreType ==
    /\ entries \in [Device -> SUBSET Row]
    /\ sqlite_sequence \in [Device -> Nat]
    /\ seen \in [Device -> SUBSET Entry]

CursorType ==
    /\ peer_state \in [Device -> [Device -> Nat]]
    /\ peer_push_state \in [Device -> [Device -> Nat]]

ClientType ==
    /\ pc \in [Client -> {"idle", "pull_wait", "pull_save", "push_begin",
                          "push_read", "push_wait", "push_save"}]
    /\ target \in [Client -> Device]
    /\ cursor \in [Client -> Nat]
    /\ batch_limit \in [Client -> Nat]
    /\ attempt \in [Client -> Nat]
    /\ request_id \in [Client -> RequestId]
    /\ batch \in [Client -> SUBSET Row]
    /\ next_cursor \in [Client -> Nat]

MessageType ==
    /\ sync_pull \subseteq SyncPull
    /\ sync_batch \subseteq SyncBatch
    /\ entries_push \subseteq EntriesPush
    /\ push_ack \subseteq PushAck

PruneType ==
    /\ prune_pc \in [Device -> {"idle", "pushed_floor", "delete"}]
    /\ keep_floor \in [Device -> Nat]
    /\ pushed_floor \in [Device -> Nat]
    /\ floor_peers \in [Device -> SUBSET Device]
    /\ prunes \in Nat

\* TypeOK by the groups of variables that change together.
LEMMA TypeGroups ==
    TypeOK <=> /\ StoreType /\ CursorType /\ ClientType
               /\ MessageType /\ PruneType /\ faults \in Nat
BY DEF TypeOK, StoreType, CursorType, ClientType, MessageType, PruneType

\* The effect of a transaction that inserts a batch, or nothing.
LEMMA InsertStep ==
    ASSUME StoreType, StoreInv, NEW d \in Device, NEW B, Batch(B), Insert(d, B)
    PROVE  StoreType' /\ StoreInv' /\ StoresGrow
<1> DEFINE N == insert_entries(entries[d], sqlite_sequence[d], B)
           n == sequence_after_insert(entries[d], sqlite_sequence[d], B)
<1>1. Numbered(entries[d], sqlite_sequence[d]) /\ sqlite_sequence[d] \in Nat
    BY DEF StoreInv, StoreType
<1>2. /\ n \in Nat
      /\ sqlite_sequence[d] <= n
      /\ Numbered(N, n)
      /\ \A r \in N \ entries[d] : /\ r.ingest_seq > sqlite_sequence[d]
                                   /\ r.entry_id \in Ids(B)
    BY <1>1, InsertNumbered
<1>3. Ids(B) \subseteq Entry
    BY DEF Ids, Batch, Row
<1>4. /\ entries' = [entries EXCEPT ![d] = N]
      /\ sqlite_sequence' = [sqlite_sequence EXCEPT ![d] = n]
      /\ seen' = [seen EXCEPT ![d] = @ \cup Ids(B)]
    BY DEF Insert
<1> HIDE DEF N, n
<1>5. StoreType'
    BY <1>2, <1>3, <1>4 DEF StoreType, Numbered
<1>6. StoreInv'
    BY <1>2, <1>4 DEF StoreType, StoreInv
<1>7. StoresGrow
    <2>1. SUFFICES ASSUME NEW x \in Device
                   PROVE  /\ seen[x] \subseteq seen'[x]
                          /\ LaterTable(entries[x], sqlite_sequence[x],
                                        entries'[x], sqlite_sequence'[x])
        BY DEF StoresGrow
    <2>2. CASE x = d
        BY <1>2, <1>4, <2>2 DEF StoreType, LaterTable
    <2>3. CASE x # d
        BY <1>4, <2>3 DEF StoreType, LaterTable
    <2>4. QED
        BY <2>2, <2>3
<1>8. QED
    BY <1>5, <1>6, <1>7

LEMMA UnchangedStore ==
    ASSUME StoreType, StoreInv, UNCHANGED storeVars
    PROVE  StoreType' /\ StoreInv' /\ StoresGrow
BY DEF StoreType, StoreInv, StoresGrow, storeVars, LaterTable

LEMMA DeleteStep ==
    ASSUME StoreType, StoreInv, NEW d \in Device, PruneDelete(d)
    PROVE  StoreType' /\ StoreInv' /\ StoresGrow
<1>1. PICK K \in SUBSET entries[d] : entries' = [entries EXCEPT ![d] = K]
    BY DEF PruneDelete, StoreType
<1>2. sqlite_sequence' = sqlite_sequence /\ seen' = seen
    BY DEF PruneDelete
<1>3. StoreType'
    BY <1>1, <1>2 DEF StoreType
<1>4. StoreInv'
    <2>1. Numbered(K, sqlite_sequence[d])
        BY FS_Subset DEF StoreInv, Numbered
    <2>2. QED
        BY <1>1, <1>2, <2>1 DEF StoreInv, StoreType
<1>5. StoresGrow
    BY <1>1, <1>2 DEF StoresGrow, StoreType, LaterTable
<1>6. QED
    BY <1>3, <1>4, <1>5

\* The steps that touch the stores.
LEMMA StoreCases ==
    ASSUME [Next]_vars
    PROVE  \/ UNCHANGED storeVars
           \/ \E d \in Device, e \in Entry : Record(d, e)
           \/ \E c \in Client : PullInsert(c)
           \/ \E m \in entries_push : ServePush(m)
           \/ \E d \in Device : PruneDelete(d)
<1>1. ASSUME UNCHANGED vars PROVE UNCHANGED storeVars
    BY <1>1 DEF vars
<1>2. ASSUME NEW c \in Client, NEW p \in Device, StartSync(c, p)
      PROVE  UNCHANGED storeVars
    BY <1>2 DEF StartSync
<1>3. ASSUME NEW c \in Client, \/ PullDone(c) \/ SaveCursor(c) \/ PushBegin(c)
                               \/ PushDone(c) \/ PushSend(c) \/ PushTooLarge(c)
                               \/ PushAcked(c) \/ SavePushed(c)
      PROVE  UNCHANGED storeVars
    BY <1>3 DEF PullDone, SaveCursor, PushBegin, PushDone, PushSend,
                PushTooLarge, PushAcked, SavePushed
<1>4. ASSUME NEW c \in Client, \/ SkipResponse(c) \/ RetryPull(c) \/ RetryPush(c)
                               \/ GiveUp(c) \/ Abort(c) \/ Crash(c)
      PROVE  UNCHANGED storeVars
    BY <1>4 DEF SkipResponse, RetryPull, RetryPush, GiveUp, Abort, Crash
<1>5. ASSUME NEW m, ServePull(m) \/ ServePushError(m) \/ Lose(m)
      PROVE  UNCHANGED storeVars
    BY <1>5 DEF ServePull, ServePushError, Lose
<1>6. ASSUME NEW d \in Device, PruneKeepFloor(d) \/ PrunePushedFloor(d)
      PROVE  UNCHANGED storeVars
    BY <1>6 DEF PruneKeepFloor, PrunePushedFloor
<1>7. QED
    BY <1>1, <1>2, <1>3, <1>4, <1>5, <1>6
       DEF Next, ClientStep, ServerStep, PruneStep

\* A recorded entry is a batch of one row.
LEMMA RecordedBatch ==
    ASSUME NEW e \in Entry
    PROVE  Batch({[ingest_seq |-> 1, entry_id |-> e]})
<1>1. [ingest_seq |-> 1, entry_id |-> e] \in Row
    BY DEF Row
<1>2. IsFiniteSet({[ingest_seq |-> 1, entry_id |-> e]})
    BY FS_Singleton
<1>3. QED
    BY <1>1, <1>2 DEF Batch

\* Every step keeps the tables finite and numbered, and only ever numbers
\* upwards.
LEMMA StoreNext ==
    ASSUME TypeInv, [Next]_vars
    PROVE  StoreType' /\ StoreInv' /\ StoresGrow
<1>0. StoreType /\ StoreInv /\ MessageType
    BY TypeGroups DEF TypeInv
<1>1. ASSUME NEW d \in Device, NEW e \in Entry, Record(d, e)
      PROVE  \E B : Batch(B) /\ Insert(d, B)
    BY <1>1, RecordedBatch DEF Record
<1>2. ASSUME NEW c \in Client, PullInsert(c)
      PROVE  host[c] \in Device /\ \E B : Batch(B) /\ Insert(host[c], B)
    <2>1. PICK m \in sync_batch : Insert(host[c], m.entries)
        BY <1>2 DEF PullInsert
    <2>2. Batch(m.entries)
        BY <1>0 DEF TypeInv, BatchInv, MessageType, SyncBatch, Batch
    <2>3. QED
        BY <2>1, <2>2, ClientAssumption
<1>3. ASSUME NEW m \in entries_push, ServePush(m)
      PROVE  m.peer \in Device /\ \E B : Batch(B) /\ Insert(m.peer, B)
    <2>1. m.peer \in Device /\ Batch(m.entries)
        BY <1>0 DEF TypeInv, BatchInv, MessageType, EntriesPush, Batch
    <2>2. QED
        BY <1>3, <2>1 DEF ServePush
<1>4. \/ UNCHANGED storeVars
      \/ \E d \in Device : PruneDelete(d)
      \/ \E d \in Device : \E B : Batch(B) /\ Insert(d, B)
    BY <1>1, <1>2, <1>3, StoreCases
<1>5. QED
    BY <1>0, <1>4, UnchangedStore, DeleteStep, InsertStep

\* A request gets an id that no message of its client carries.
LEMMA FreshRequest ==
    ASSUME NEW c \in Client, RequestId \ UsedIds(c) # {}
    PROVE  /\ NewRequestId(c) \in RequestId
           /\ \A m \in Messages : m.client = c => m.request_id # NewRequestId(c)
BY DEF NewRequestId, UsedIds

LEMMA PhaseType ==
    ASSUME ClientType, NEW c \in Client, request_id' = request_id,
           EndPull(c) \/ EndSync(c) \/ FailPhase(c)
    PROVE  ClientType' /\ batch'[c] = {} /\ pc'[c] \in {"idle", "push_begin"}
<1>1. \E p \in Device, phase \in {"idle", "push_begin"} : EnterPhase(c, phase, p)
    BY ClientAssumption DEF EndPull, EndSync, FailPhase, ClientType
<1>2. QED
    BY <1>1, BoundAssumption DEF EnterPhase, ClientType

\* The batch a client reads to push it.
LEMMA PushBatchRows ==
    ASSUME TypeInv, NEW c \in Client
    PROVE  LET own == RowsOf(entries[host[c]], host[c])
           IN  /\ Batch(PushBatch(c))
               /\ next_cursor_of(PushBatch(c)) \in Nat
               /\ next_cursor_of(PushBatch(c)) <= sqlite_sequence[host[c]]
               /\ Carries(own, cursor[c], next_cursor_of(PushBatch(c)),
                          Ids(PushBatch(c)))
<1> DEFINE own == RowsOf(entries[host[c]], host[c])
<1>1. /\ host[c] \in Device
      /\ sqlite_sequence[host[c]] \in Nat
      /\ cursor[c] \in Nat
      /\ batch_limit[c] \in Nat
    BY ClientAssumption DEF TypeInv, TypeOK
<1>2. Numbered(own, sqlite_sequence[host[c]])
    BY <1>1, RowsOfNumbered DEF TypeInv, StoreInv
<1>3. PushBatch(c) = pull_since_cursor(own, cursor[c], batch_limit[c])
    BY DEF PushBatch, pull_since_cursor_for_device
<1> HIDE DEF own
<1>4. QED
    BY <1>1, <1>2, <1>3, PullCarries DEF own

\* The answer a server reads for a pull.
LEMMA PullBatchRows ==
    ASSUME TypeInv, NEW m \in sync_pull
    PROVE  LET rows == pull_since_cursor(entries[m.peer], m.cursor, m.limit)
           IN  /\ Batch(rows)
               /\ next_cursor_of(rows) \in Nat
               /\ next_cursor_of(rows) <= sqlite_sequence[m.peer]
               /\ Carries(entries[m.peer], m.cursor, next_cursor_of(rows),
                          Ids(rows))
<1>1. /\ m.peer \in Device
      /\ m.cursor \in Nat
      /\ m.limit \in Nat
    BY DEF TypeInv, TypeOK, SyncPull
<1>2. /\ sqlite_sequence[m.peer] \in Nat
      /\ Numbered(entries[m.peer], sqlite_sequence[m.peer])
    BY <1>1 DEF TypeInv, TypeOK, StoreInv
<1>3. QED
    BY <1>1, <1>2, PullCarries

PullAnswer(m) ==
    LET rows == pull_since_cursor(entries[m.peer], m.cursor, m.limit)
    IN  [client |-> m.client, request_id |-> m.request_id, entries |-> rows,
         next_cursor |-> next_cursor_of(rows)]

LEMMA PullAnswerType ==
    ASSUME TypeInv, NEW m \in sync_pull
    PROVE  PullAnswer(m) \in SyncBatch /\ IsFiniteSet(PullAnswer(m).entries)
<1> DEFINE rows == pull_since_cursor(entries[m.peer], m.cursor, m.limit)
<1>1. Batch(rows) /\ next_cursor_of(rows) \in Nat
    BY PullBatchRows
<1>2. m.client \in Client /\ m.request_id \in RequestId
    BY DEF TypeInv, TypeOK, SyncPull
<1>3. QED
    BY <1>1, <1>2 DEF PullAnswer, SyncBatch, Batch

\* Every step keeps the types of the variables of the clients.
LEMMA ClientNext ==
    ASSUME TypeInv, [Next]_vars
    PROVE  ClientType' /\ \A c \in Client : IsFiniteSet(batch[c])'
<1> USE BoundAssumption
<1>0. ClientType /\ \A c \in Client : IsFiniteSet(batch[c])
    BY TypeGroups DEF TypeInv, BatchInv
<1> DEFINE Goal == ClientType' /\ \A c \in Client : IsFiniteSet(batch[c])'
<1>1. ASSUME UNCHANGED clientVars PROVE Goal
    BY <1>0, <1>1 DEF ClientType, clientVars
<1>2. ASSUME NEW c \in Client, NEW p \in Device, StartSync(c, p) PROVE Goal
    <2>1. get_last_cursor(host[c], p) \in Nat
        BY ClientAssumption DEF get_last_cursor, TypeInv, TypeOK
    <2>2. NewRequestId(c) \in RequestId
        BY <1>2, FreshRequest DEF StartSync, SendPull
    <2>3. QED
        BY <1>0, <1>2, <2>1, <2>2 DEF StartSync, SendPull, ClientType
<1>3. ASSUME NEW c \in Client, request_id' = request_id,
             EndPull(c) \/ EndSync(c) \/ FailPhase(c)
      PROVE  Goal
    <2>1. ClientType' /\ batch'[c] = {}
        BY <1>0, <1>3, PhaseType
    <2>2. \A x \in Client : x # c => batch'[x] = batch[x]
        BY <1>0, <1>3 DEF EndPull, EndSync, FailPhase, EnterPhase, ClientType
    <2>3. QED
        BY <1>0, <2>1, <2>2, FS_EmptySet
<1>4. ASSUME NEW c \in Client, PullInsert(c) PROVE Goal
    <2>1. PICK m \in sync_batch :
            \/ EndPull(c)
            \/ /\ pc' = [pc EXCEPT ![c] = "pull_save"]
               /\ next_cursor' = [next_cursor EXCEPT ![c] = m.next_cursor]
               /\ UNCHANGED <<target, cursor, batch_limit, attempt, batch>>
        BY <1>4 DEF PullInsert
    <2>2. m.next_cursor \in Nat
        BY DEF TypeInv, TypeOK, SyncBatch
    <2>3. request_id' = request_id
        BY <1>4 DEF PullInsert
    <2>4. QED
        BY <1>0, <1>3, <2>1, <2>2, <2>3 DEF ClientType
<1>5. ASSUME NEW c \in Client, SaveCursor(c) PROVE Goal
    <2>1. NewRequestId(c) \in RequestId
        BY <1>5, FreshRequest DEF SaveCursor, SendPull
    <2>2. QED
        BY <1>0, <1>5, <2>1 DEF SaveCursor, SendPull, ClientType
<1>6. ASSUME NEW c \in Client, PushBegin(c) PROVE Goal
    <2>1. get_last_pushed_seq(host[c], target[c]) \in Nat
        BY ClientAssumption DEF get_last_pushed_seq, TypeInv, TypeOK
    <2>2. QED
        BY <1>0, <1>6, <2>1 DEF PushBegin, ClientType
<1>7. ASSUME NEW c \in Client, PushSend(c) PROVE Goal
    <2>1. NewRequestId(c) \in RequestId
        BY <1>7, FreshRequest DEF PushSend, SendPush
    <2>2. Batch(PushBatch(c)) /\ next_cursor_of(PushBatch(c)) \in Nat
        BY PushBatchRows
    <2> HIDE BoundAssumption
    <2>3. /\ pc' = [pc EXCEPT ![c] = "push_wait"]
          /\ batch' = [batch EXCEPT ![c] = PushBatch(c)]
          /\ next_cursor' = [next_cursor EXCEPT
                               ![c] = next_cursor_of(PushBatch(c))]
          /\ request_id' = [request_id EXCEPT ![c] = NewRequestId(c)]
          /\ UNCHANGED <<target, cursor, batch_limit, attempt>>
        BY <1>7 DEF PushSend, SendPush
    <2>4. QED
        BY <1>0, <2>1, <2>2, <2>3 DEF ClientType, Batch
<1>8. ASSUME NEW c \in Client, PushTooLarge(c) PROVE Goal
    <2>1. batch_limit[c] \div 2 \in Nat
        BY <1>0 DEF ClientType
    <2>2. CASE EndSync(c)
        BY <1>3, <1>8, <2>2 DEF PushTooLarge
    <2>3. CASE /\ batch_limit' = [batch_limit EXCEPT ![c] = @ \div 2]
               /\ UNCHANGED <<pc, target, cursor, attempt, batch, next_cursor>>
        BY <1>0, <1>8, <2>1, <2>3 DEF PushTooLarge, ClientType
    <2>4. QED
        BY <1>8, <2>2, <2>3 DEF PushTooLarge
<1>9. ASSUME NEW c \in Client, PushAcked(c) PROVE Goal
    <2>1. request_id' = request_id
        BY <1>9 DEF PushAcked
    <2>2. CASE EndSync(c)
        BY <1>3, <2>1, <2>2
    <2>3. CASE /\ pc' = [pc EXCEPT ![c] = "push_save"]
               /\ UNCHANGED <<target, cursor, batch_limit, attempt, batch,
                              next_cursor>>
        BY <1>0, <2>1, <2>3 DEF ClientType
    <2>4. QED
        BY <1>9, <2>2, <2>3 DEF PushAcked
<1>10. ASSUME NEW c \in Client, SavePushed(c) PROVE Goal
    <2>1. request_id' = request_id
        BY <1>10 DEF SavePushed
    <2>2. CASE next_cursor[c] <= cursor[c]
        BY <1>3, <1>10, <2>1, <2>2 DEF SavePushed
    <2>3. CASE ~ (next_cursor[c] <= cursor[c])
        <3>1. /\ pc' = [pc EXCEPT ![c] = "push_read"]
              /\ cursor' = [cursor EXCEPT ![c] = next_cursor[c]]
              /\ attempt' = [attempt EXCEPT ![c] = 0]
              /\ batch' = [batch EXCEPT ![c] = {}]
              /\ next_cursor' = [next_cursor EXCEPT ![c] = 0]
              /\ UNCHANGED <<target, batch_limit>>
            BY <1>10, <2>3 DEF SavePushed
        <3>2. ClientType'
            BY <1>0, <2>1, <3>1 DEF ClientType
        <3>3. \A x \in Client : batch'[x] = {} \/ batch'[x] = batch[x]
            BY <1>0, <3>1 DEF ClientType
        <3>4. QED
            BY <1>0, <3>2, <3>3, FS_EmptySet
    <2>4. QED
        BY <2>2, <2>3
<1>11. ASSUME NEW c \in Client, RetryPull(c) \/ RetryPush(c) PROVE Goal
    <2>1. NewRequestId(c) \in RequestId
        BY <1>11, FreshRequest DEF RetryPull, RetryPush, SendPull, SendPush
    <2>2. QED
        BY <1>0, <1>11, <2>1 DEF RetryPull, RetryPush, SendPull, SendPush, ClientType
<1>12. ASSUME NEW c \in Client,
              PullDone(c) \/ PushDone(c) \/ GiveUp(c) \/ Abort(c) \/ Crash(c)
       PROVE  Goal
    BY <1>3, <1>12 DEF PullDone, PushDone, GiveUp, Abort, Crash
<1>13. ASSUME NEW d, NEW e, Record(d, e) \/ PruneStep(d) PROVE Goal
    BY <1>1, <1>13 DEF Record, PruneStep, PruneKeepFloor, PrunePushedFloor,
                       PruneDelete
<1>14. ASSUME NEW m, ServePull(m) \/ ServePush(m) \/ ServePushError(m) \/ Lose(m)
       PROVE  Goal
    BY <1>1, <1>14 DEF ServePull, ServePush, ServePushError, Lose
<1>15. ASSUME NEW c \in Client, SkipResponse(c) PROVE Goal
    BY <1>1, <1>15 DEF SkipResponse
<1>16. CASE UNCHANGED vars
    BY <1>1, <1>16 DEF vars
<1>17. QED
    BY <1>2, <1>4, <1>5, <1>6, <1>7, <1>8, <1>9, <1>10, <1>11, <1>12, <1>13,
       <1>14, <1>15, <1>16
       DEF Next, ClientStep, ServerStep

\* Every step keeps the types of the messages, and their batches finite.
LEMMA MessageNext ==
    ASSUME TypeInv, [Next]_vars
    PROVE  /\ MessageType'
           /\ \A m \in sync_batch' : IsFiniteSet(m.entries)
           /\ \A m \in entries_push' : IsFiniteSet(m.entries)
<1> DEFINE Goal == /\ MessageType'
                   /\ \A m \in sync_batch' : IsFiniteSet(m.entries)
                   /\ \A m \in entries_push' : IsFiniteSet(m.entries)
<1>0. /\ StoreType /\ CursorType /\ ClientType /\ MessageType
      /\ \A m \in sync_batch : IsFiniteSet(m.entries)
      /\ \A m \in entries_push : IsFiniteSet(m.entries)
      /\ \A c \in Client : IsFiniteSet(batch[c])
      /\ \A c \in Client : host[c] \in Device
    BY TypeGroups, ClientAssumption DEF TypeInv, BatchInv
<1>1. ASSUME /\ sync_pull' \subseteq sync_pull
             /\ sync_batch' \subseteq sync_batch
             /\ entries_push' \subseteq entries_push
             /\ push_ack' \subseteq push_ack
      PROVE  Goal
    BY <1>0, <1>1 DEF MessageType
<1>2. ASSUME NEW c \in Client, NEW p \in Device, NEW from \in Nat,
             NEW limit \in Nat, SendPull(c, p, from, limit),
             UNCHANGED <<sync_batch, pushVars>>
      PROVE  Goal
    <2>1. NewRequestId(c) \in RequestId
        BY <1>2, FreshRequest DEF SendPull
    <2>2. [client |-> c, request_id |-> NewRequestId(c), peer |-> p,
           cursor |-> from, limit |-> limit] \in SyncPull
        BY <2>1 DEF SyncPull
    <2>3. QED
        BY <1>0, <1>2, <2>2 DEF SendPull, MessageType, pushVars
<1>3. ASSUME NEW c \in Client, NEW p \in Device, NEW B, Batch(B),
             SendPush(c, p, B), UNCHANGED <<pullVars, push_ack>>
      PROVE  Goal
    <2>1. NewRequestId(c) \in RequestId
        BY <1>3, FreshRequest DEF SendPush
    <2>2. [client |-> c, request_id |-> NewRequestId(c), peer |-> p,
           entries |-> B] \in EntriesPush
        BY <1>3, <2>1 DEF EntriesPush, Batch
    <2>3. QED
        BY <1>0, <1>3, <2>2 DEF SendPush, MessageType, pullVars, Batch
<1>4. ASSUME NEW c \in Client, NEW p \in Device, StartSync(c, p) PROVE Goal
    <2>1. get_last_cursor(host[c], p) \in Nat /\ batch_limit[c] \in Nat
        BY <1>0 DEF get_last_cursor, CursorType, ClientType
    <2>2. QED
        BY <1>2, <1>4, <2>1 DEF StartSync
<1>5. ASSUME NEW c \in Client, SaveCursor(c) \/ RetryPull(c) PROVE Goal
    <2>1. /\ target[c] \in Device /\ next_cursor[c] \in Nat
          /\ cursor[c] \in Nat /\ batch_limit[c] \in Nat
        BY <1>0 DEF ClientType
    <2>2. QED
        BY <1>2, <1>5, <2>1 DEF SaveCursor, RetryPull
<1>6. ASSUME NEW c \in Client, PushSend(c) PROVE Goal
    <2>1. target[c] \in Device /\ Batch(PushBatch(c))
        BY <1>0, PushBatchRows DEF ClientType
    <2>2. QED
        BY <1>3, <1>6, <2>1 DEF PushSend
<1>7. ASSUME NEW c \in Client, RetryPush(c) PROVE Goal
    <2>1. target[c] \in Device /\ Batch(batch[c])
        BY <1>0 DEF ClientType, Batch
    <2>2. QED
        BY <1>3, <1>7, <2>1 DEF RetryPush
<1>8. ASSUME NEW m \in sync_pull, ServePull(m) PROVE Goal
    <2>1. /\ sync_pull' \subseteq sync_pull
          /\ sync_batch' \subseteq sync_batch \cup {PullAnswer(m)}
          /\ entries_push' = entries_push
          /\ push_ack' = push_ack
        BY <1>8 DEF ServePull, PullAnswer, pushVars
    <2>2. QED
        BY <1>0, <2>1, PullAnswerType DEF MessageType
<1>9. ASSUME NEW m \in entries_push, ServePush(m) \/ ServePushError(m) PROVE Goal
    <2>1. \A ok \in BOOLEAN : [client |-> m.client, request_id |-> m.request_id,
                               ok |-> ok] \in PushAck
        BY <1>0 DEF MessageType, EntriesPush, PushAck
    <2>2. /\ \E ok \in BOOLEAN : Acknowledge(m, ok)
          /\ entries_push' \subseteq entries_push
          /\ UNCHANGED pullVars
        BY <1>9 DEF ServePush, ServePushError
    <2>3. QED
        BY <1>0, <2>1, <2>2 DEF Acknowledge, MessageType, pullVars
<1>10. ASSUME NEW c \in Client,
              \/ PullDone(c) \/ PullInsert(c) \/ PushBegin(c) \/ PushDone(c)
              \/ PushTooLarge(c) \/ PushAcked(c) \/ SavePushed(c)
       PROVE  Goal
    BY <1>1, <1>10 DEF PullDone, PullInsert, PushBegin, PushDone, PushTooLarge,
                       PushAcked, SavePushed, pullVars, pushVars
<1>11. ASSUME NEW c \in Client,
              SkipResponse(c) \/ GiveUp(c) \/ Abort(c) \/ Crash(c)
       PROVE  Goal
    BY <1>1, <1>11 DEF SkipResponse, GiveUp, Abort, Crash, pullVars, pushVars
<1>12. ASSUME NEW m, Lose(m) PROVE Goal
    BY <1>1, <1>12 DEF Lose
<1>13. ASSUME NEW d, NEW e, Record(d, e) \/ PruneStep(d) PROVE Goal
    BY <1>1, <1>13 DEF Record, PruneStep, PruneKeepFloor, PrunePushedFloor,
                       PruneDelete, pullVars, pushVars
<1>14. CASE UNCHANGED vars
    BY <1>1, <1>14 DEF vars, pullVars, pushVars
<1>15. QED
    BY <1>4, <1>5, <1>6, <1>7, <1>8, <1>9, <1>10, <1>11, <1>12, <1>13, <1>14
       DEF Next, ClientStep, ServerStep

\* Every step keeps the types of the saved cursors, of prune and of the
\* counters of the bounds.
LEMMA CursorPruneNext ==
    ASSUME TypeInv, [Next]_vars
    PROVE  CursorType' /\ PruneType' /\ faults' \in Nat
<1> DEFINE Goal == CursorType' /\ PruneType' /\ faults' \in Nat
<1>0. /\ StoreType /\ CursorType /\ ClientType /\ PruneType /\ faults \in Nat
      /\ \A c \in Client : host[c] \in Device
    BY TypeGroups, ClientAssumption DEF TypeInv
<1>1. ASSUME UNCHANGED cursorVars, UNCHANGED pruneVars, Fault \/ UNCHANGED faults
      PROVE  Goal
    BY <1>0, <1>1 DEF CursorType, PruneType, Fault, cursorVars, pruneVars
<1>2. ASSUME NEW c \in Client, SaveCursor(c) \/ SavePushed(c) PROVE Goal
    <2>1. next_cursor[c] \in Nat /\ target[c] \in Device
        BY <1>0 DEF ClientType
    <2>2. /\ UNCHANGED pruneVars /\ UNCHANGED faults
          /\ \/ UNCHANGED cursorVars
             \/ /\ set_last_cursor(host[c], target[c], next_cursor[c])
                /\ UNCHANGED peer_push_state
             \/ /\ set_last_pushed_seq(host[c], target[c], next_cursor[c])
                /\ UNCHANGED peer_state
        BY <1>2 DEF SaveCursor, SavePushed, cursorVars
    <2>3. CursorType'
        <3>1. CASE UNCHANGED cursorVars
            BY <1>0, <3>1 DEF CursorType, cursorVars
        <3>2. CASE /\ set_last_cursor(host[c], target[c], next_cursor[c])
                   /\ UNCHANGED peer_push_state
            BY <1>0, <2>1, <3>2 DEF CursorType, set_last_cursor
        <3>3. CASE /\ set_last_pushed_seq(host[c], target[c], next_cursor[c])
                   /\ UNCHANGED peer_state
            BY <1>0, <2>1, <3>3 DEF CursorType, set_last_pushed_seq
        <3>4. QED
            BY <2>2, <3>1, <3>2, <3>3
    <2>4. QED
        BY <1>0, <2>2, <2>3 DEF PruneType, pruneVars
<1>3. ASSUME NEW d \in Device, PruneKeepFloor(d) PROVE Goal
    <2>1. \A k : prune_keep_floor_seq(entries[d], k) \in Nat
        BY <1>0, KeepFloorType DEF StoreType
    <2>2. QED
        BY <1>0, <1>3, <2>1 DEF PruneKeepFloor, PruneType, CursorType, cursorVars
<1>4. ASSUME NEW d \in Device, PrunePushedFloor(d) PROVE Goal
    <2>1. prune_pushed_floor_seq(peer_push_state[d]) \in Nat
        BY <1>0, PushedFloor DEF CursorType
    <2>2. QED
        BY <1>0, <1>4, <2>1 DEF PrunePushedFloor, PruneType, CursorType, cursorVars
<1>5. ASSUME NEW d \in Device, PruneDelete(d) PROVE Goal
    BY <1>0, <1>5 DEF PruneDelete, PruneType, CursorType, NoFloor, cursorVars
<1>6. ASSUME NEW c \in Client, \/ PullDone(c) \/ PullInsert(c) \/ PushBegin(c)
                               \/ PushDone(c) \/ PushSend(c) \/ PushTooLarge(c)
                               \/ PushAcked(c) \/ SkipResponse(c)
      PROVE  Goal
    BY <1>1, <1>6 DEF PullDone, PullInsert, PushBegin, PushDone, PushSend,
                      PushTooLarge, PushAcked, SkipResponse
<1>7. ASSUME NEW c \in Client, \/ RetryPull(c) \/ RetryPush(c) \/ GiveUp(c)
                               \/ Abort(c) \/ Crash(c)
      PROVE  Goal
    BY <1>1, <1>7 DEF RetryPull, RetryPush, GiveUp, Abort, Crash, RequestFailed
<1>8. ASSUME NEW m, ServePull(m) \/ ServePush(m) \/ ServePushError(m) \/ Lose(m)
      PROVE  Goal
    BY <1>1, <1>8 DEF ServePull, ServePush, ServePushError, Lose
<1>9. ASSUME NEW a, NEW b, Record(a, b) \/ StartSync(a, b) PROVE Goal
    BY <1>1, <1>9 DEF Record, StartSync
<1>10. CASE UNCHANGED vars
    BY <1>1, <1>10 DEF vars
<1>11. QED
    BY <1>2, <1>3, <1>4, <1>5, <1>6, <1>7, <1>8, <1>9, <1>10
       DEF Next, ClientStep, ServerStep, PruneStep

\* The first layer of the invariant.
LEMMA TypeInit == Init => TypeInv
<1> SUFFICES ASSUME Init PROVE TypeInv
    OBVIOUS
<1>1. (CHOOSE r \in RequestId : TRUE) \in RequestId
    BY BoundAssumption
<1>2. TypeOK
    BY <1>1, ClientAssumption, BoundAssumption DEF Init, TypeOK, NoFloor
<1>3. StoreInv
    BY FS_EmptySet DEF Init, StoreInv, Numbered
<1>4. BatchInv
    BY FS_EmptySet DEF Init, BatchInv
<1>5. QED
    BY <1>2, <1>3, <1>4 DEF TypeInv

LEMMA TypeNext == TypeInv /\ [Next]_vars => TypeInv'
<1> SUFFICES ASSUME TypeInv, [Next]_vars PROVE TypeInv'
    OBVIOUS
<1>1. /\ StoreType' /\ StoreInv' /\ CursorType' /\ ClientType'
      /\ MessageType' /\ PruneType' /\ faults' \in Nat
    BY StoreNext, ClientNext, MessageNext, CursorPruneNext
<1>2. BatchInv'
    BY ClientNext, MessageNext DEF BatchInv
<1>3. QED
    BY <1>1, <1>2 DEF TypeInv, TypeOK, StoreType, CursorType, ClientType,
                      MessageType, PruneType

\* Every variable keeps its type: tables stay sets of numbered rows, every
\* batch and message is well formed and request ids are ids, whatever is
\* retried, lost or restarted.
THEOREM TypeCorrect == Spec => []TypeOK
<1>1. TypeInv => TypeOK
    BY DEF TypeInv
<1>2. QED
    BY TypeInit, TypeNext, <1>1, PTL DEF Spec

-----------------------------------------------------------------------------
(* The second and third layer.                                             *)

\* Every saved cursor is safe.
CursorInv ==
    \A d, p \in Device :
        /\ Stored(entries[p], sqlite_sequence[p], seen[d], peer_state[d][p])
        /\ Stored(RowsOf(entries[d], d), sqlite_sequence[d], seen[p],
                  peer_push_state[d][p])

\* What client c remembers. In a pull its cursor is safe, and so is the one it
\* is about to save. In a push its cursor is safe, its batch carries every own
\* row up to the next one, and once the peer has acknowledged the batch the
\* peer has stored it.
LocalInv(c) ==
    LET own == RowsOf(entries[host[c]], host[c])
    IN  /\ pc[c] \in {"pull_wait", "pull_save"} =>
             Stored(entries[target[c]], sqlite_sequence[target[c]],
                    seen[host[c]], cursor[c])
        /\ pc[c] = "pull_save" =>
             Stored(entries[target[c]], sqlite_sequence[target[c]],
                    seen[host[c]], next_cursor[c])
        /\ pc[c] \in {"push_read", "push_wait", "push_save"} =>
             Stored(own, sqlite_sequence[host[c]], seen[target[c]], cursor[c])
        /\ pc[c] \in {"push_wait", "push_save"} =>
             /\ Carries(own, cursor[c], next_cursor[c], Ids(batch[c]))
             /\ next_cursor[c] <= sqlite_sequence[host[c]]
        /\ pc[c] = "push_save" => Ids(batch[c]) \subseteq seen[target[c]]

\* What the messages of client c's current request say. Messages of earlier
\* requests, which carry another id, may say anything.
PullMail(c) ==
    /\ \A m \in sync_pull : Answer(c, m) =>
         m.peer = target[c] /\ m.cursor = cursor[c]
    /\ \A m \in sync_batch : Answer(c, m) =>
         /\ Carries(entries[target[c]], cursor[c], m.next_cursor, Ids(m.entries))
         /\ m.next_cursor <= sqlite_sequence[target[c]]

PushMail(c) ==
    /\ \A m \in entries_push : Answer(c, m) =>
         m.peer = target[c] /\ m.entries = batch[c]
    /\ \A m \in push_ack : Answer(c, m) /\ m.ok =>
         Ids(batch[c]) \subseteq seen[target[c]]

MailInv(c) ==
    /\ pc[c] = "pull_wait" => PullMail(c)
    /\ pc[c] = "push_wait" => PushMail(c)

SafeInv ==
    /\ TypeInv
    /\ CursorInv
    /\ \A c \in Client : LocalInv(c) /\ MailInv(c)

LEMMA LaterOwnRows ==
    ASSUME StoresGrow, NEW d \in Device
    PROVE  LaterTable(RowsOf(entries[d], d), sqlite_sequence[d],
                      RowsOf(entries'[d], d), sqlite_sequence'[d])
BY DEF StoresGrow, LaterTable, RowsOf

\* The facts about the stores that the steps below use.
LEMMA StoreFacts ==
    ASSUME TypeInv
    PROVE  /\ \A d \in Device : /\ entries[d] \in SUBSET Row
                                /\ RowsOf(entries[d], d) \in SUBSET Row
                                /\ sqlite_sequence[d] \in Nat
           /\ \A c \in Client : /\ host[c] \in Device
                                /\ target[c] \in Device
                                /\ cursor[c] \in Nat
                                /\ next_cursor[c] \in Nat
           /\ \A d, p \in Device : /\ peer_state[d][p] \in Nat
                                   /\ peer_push_state[d][p] \in Nat
BY ClientAssumption DEF TypeInv, TypeOK, RowsOf

\* The process of client c is where it was; it may have sent again.
SameLocal(c) ==
    /\ pc'[c] = pc[c]
    /\ target'[c] = target[c]
    /\ cursor'[c] = cursor[c]
    /\ batch'[c] = batch[c]
    /\ next_cursor'[c] = next_cursor[c]

\* Nothing new for client c is under way.
LessMail(c) ==
    /\ \A m \in sync_pull' : m.client = c => m \in sync_pull
    /\ \A m \in sync_batch' : m.client = c => m \in sync_batch
    /\ \A m \in entries_push' : m.client = c => m \in entries_push
    /\ \A m \in push_ack' : m.client = c => m \in push_ack

\* A step as one client sees it.
LEMMA LocalCases ==
    ASSUME TypeInv, [Next]_vars, NEW c \in Client
    PROVE  \/ SameLocal(c)
           \/ pc'[c] \in {"idle", "push_begin"}
           \/ \E p \in Device : StartSync(c, p)
           \/ PullInsert(c) /\ ~ EndPull(c)
           \/ SaveCursor(c) \/ PushBegin(c) \/ PushSend(c)
           \/ PushAcked(c) /\ ~ EndSync(c)
           \/ SavePushed(c) /\ ~ EndSync(c)
<1> DEFINE Goal == \/ SameLocal(c)
                   \/ pc'[c] \in {"idle", "push_begin"}
                   \/ \E p \in Device : StartSync(c, p)
                   \/ PullInsert(c) /\ ~ EndPull(c)
                   \/ SaveCursor(c) \/ PushBegin(c) \/ PushSend(c)
                   \/ PushAcked(c) /\ ~ EndSync(c)
                   \/ SavePushed(c) /\ ~ EndSync(c)
<1>0. ClientType
    BY TypeGroups DEF TypeInv
<1>1. ASSUME UNCHANGED <<pc, target, cursor, batch, next_cursor>>
      PROVE  SameLocal(c)
    BY <1>1 DEF SameLocal
<1>2. ASSUME NEW x \in Client, EndPull(x) \/ EndSync(x) \/ FailPhase(x)
      PROVE  SameLocal(c) \/ pc'[c] \in {"idle", "push_begin"}
    <2>1. \E p \in Device, phase \in {"idle", "push_begin"} :
            EnterPhase(x, phase, p)
        BY <1>0, <1>2, ClientAssumption DEF EndPull, EndSync, FailPhase, ClientType
    <2>2. QED
        BY <1>0, <2>1 DEF EnterPhase, ClientType, SameLocal
<1>3. ASSUME NEW x \in Client, x # c,
             \/ \E p \in Device : StartSync(x, p)
             \/ PullInsert(x) /\ ~ EndPull(x)
             \/ SaveCursor(x) \/ PushBegin(x) \/ PushSend(x)
             \/ PushAcked(x) /\ ~ EndSync(x)
             \/ SavePushed(x) /\ ~ EndSync(x)
      PROVE  SameLocal(c)
    <2>1. CASE \E p \in Device : StartSync(x, p)
        BY <1>0, <1>3, <2>1 DEF StartSync, ClientType, SameLocal
    <2>2. CASE PullInsert(x) /\ ~ EndPull(x)
        BY <1>0, <1>3, <2>2 DEF PullInsert, ClientType, SameLocal
    <2>3. CASE SaveCursor(x) \/ PushBegin(x) \/ PushSend(x)
        BY <1>0, <1>3, <2>3 DEF SaveCursor, PushBegin, PushSend, ClientType,
                                SameLocal
    <2>4. CASE PushAcked(x) /\ ~ EndSync(x)
        BY <1>0, <1>3, <2>4 DEF PushAcked, ClientType, SameLocal
    <2>5. CASE SavePushed(x) /\ ~ EndSync(x)
        BY <1>0, <1>3, <2>5 DEF SavePushed, ClientType, SameLocal
    <2>6. QED
        BY <1>3, <2>1, <2>2, <2>3, <2>4, <2>5
<1>4. ASSUME NEW x \in Client,
             PullDone(x) \/ PushDone(x) \/ GiveUp(x) \/ Abort(x) \/ Crash(x)
      PROVE  Goal
    BY <1>2, <1>4 DEF PullDone, PushDone, GiveUp, Abort, Crash
<1>5. ASSUME NEW x \in Client, PullInsert(x) \/ PushAcked(x) \/ SavePushed(x)
      PROVE  Goal
    BY <1>2, <1>3, <1>5
<1>6. ASSUME NEW x \in Client, \/ \E p \in Device : StartSync(x, p)
                               \/ SaveCursor(x) \/ PushBegin(x) \/ PushSend(x)
      PROVE  Goal
    BY <1>3, <1>6
<1>7. ASSUME NEW x \in Client, PushTooLarge(x) PROVE Goal
    BY <1>1, <1>2, <1>7 DEF PushTooLarge
<1>8. ASSUME NEW x \in Client, SkipResponse(x) \/ RetryPull(x) \/ RetryPush(x)
      PROVE  Goal
    BY <1>1, <1>8 DEF SkipResponse, RetryPull, RetryPush, clientVars
<1>9. ASSUME NEW m, ServePull(m) \/ ServePush(m) \/ ServePushError(m) \/ Lose(m)
      PROVE  Goal
    BY <1>1, <1>9 DEF ServePull, ServePush, ServePushError, Lose, clientVars
<1>10. ASSUME NEW d, NEW e, Record(d, e) \/ PruneStep(d) PROVE Goal
    BY <1>1, <1>10 DEF Record, PruneStep, PruneKeepFloor, PrunePushedFloor,
                       PruneDelete, clientVars
<1>11. CASE UNCHANGED vars
    BY <1>1, <1>11 DEF vars, clientVars
<1>12. QED
    BY <1>4, <1>5, <1>6, <1>7, <1>8, <1>9, <1>10, <1>11
       DEF Next, ClientStep, ServerStep

\* What the local invariant says of a process that does not move stays true
\* whatever happens to the stores.
LEMMA LocalFrame ==
    ASSUME TypeInv, TypeInv', StoresGrow, NEW c \in Client, LocalInv(c),
           SameLocal(c)
    PROVE  LocalInv(c)'
<1> DEFINE h == host[c]
           t == target[c]
<1>1. /\ h \in Device /\ t \in Device
      /\ cursor[c] \in Nat /\ next_cursor[c] \in Nat
      /\ sqlite_sequence[h] \in Nat /\ sqlite_sequence'[h] \in Nat
      /\ sqlite_sequence[t] \in Nat /\ sqlite_sequence'[t] \in Nat
      /\ entries'[t] \in SUBSET Row /\ RowsOf(entries'[h], h) \in SUBSET Row
    BY ClientAssumption DEF TypeInv, TypeOK, RowsOf
<1>2. /\ seen[h] \subseteq seen'[h]
      /\ seen[t] \subseteq seen'[t]
      /\ LaterTable(entries[t], sqlite_sequence[t],
                    entries'[t], sqlite_sequence'[t])
      /\ LaterTable(RowsOf(entries[h], h), sqlite_sequence[h],
                    RowsOf(entries'[h], h), sqlite_sequence'[h])
    BY <1>1, LaterOwnRows DEF StoresGrow
<1>3. \A n \in Nat :
        /\ Stored(entries[t], sqlite_sequence[t], seen[h], n) =>
             Stored(entries'[t], sqlite_sequence'[t], seen'[h], n)
        /\ Stored(RowsOf(entries[h], h), sqlite_sequence[h], seen[t], n) =>
             Stored(RowsOf(entries'[h], h), sqlite_sequence'[h], seen'[t], n)
    BY <1>1, <1>2, StoredLater
<1>4. ASSUME Carries(RowsOf(entries[h], h), cursor[c], next_cursor[c],
                     Ids(batch[c])),
             next_cursor[c] <= sqlite_sequence[h]
      PROVE  /\ Carries(RowsOf(entries'[h], h), cursor[c], next_cursor[c],
                        Ids(batch[c]))
             /\ next_cursor[c] <= sqlite_sequence'[h]
    BY <1>1, <1>2, <1>4, CarriesLater
<1>5. /\ pc'[c] = pc[c] /\ target'[c] = t /\ cursor'[c] = cursor[c]
      /\ batch'[c] = batch[c] /\ next_cursor'[c] = next_cursor[c]
    BY DEF SameLocal
<1>6. Ids(batch'[c]) = Ids(batch[c])
    BY <1>5
<1>7. QED
    BY <1>1, <1>2, <1>3, <1>4, <1>5, <1>6 DEF LocalInv

\* Inserting the batch of an answer makes the cursor that came with it safe.
LEMMA PullInsertStep ==
    ASSUME SafeInv, TypeInv', StoresGrow, NEW c \in Client, PullInsert(c),
           ~ EndPull(c)
    PROVE  LocalInv(c)'
<1> DEFINE h == host[c]
           t == target[c]
<1>1. PICK m \in sync_batch :
        /\ Answer(c, m)
        /\ Insert(h, m.entries)
        /\ pc[c] = "pull_wait"
        /\ pc' = [pc EXCEPT ![c] = "pull_save"]
        /\ next_cursor' = [next_cursor EXCEPT ![c] = m.next_cursor]
        /\ UNCHANGED <<target, cursor>>
    BY DEF PullInsert
<1>2. /\ h \in Device /\ t \in Device
      /\ cursor[c] \in Nat /\ m.next_cursor \in Nat
      /\ sqlite_sequence[t] \in Nat /\ sqlite_sequence'[t] \in Nat
      /\ entries[t] \in SUBSET Row /\ entries'[t] \in SUBSET Row
    BY ClientAssumption DEF SafeInv, TypeInv, TypeOK, SyncBatch
<1>3. /\ pc'[c] = "pull_save"
      /\ target'[c] = t
      /\ cursor'[c] = cursor[c]
      /\ next_cursor'[c] = m.next_cursor
    BY <1>1 DEF SafeInv, TypeInv, TypeOK
<1>4. /\ Stored(entries[t], sqlite_sequence[t], seen[h], cursor[c])
      /\ Carries(entries[t], cursor[c], m.next_cursor, Ids(m.entries))
      /\ m.next_cursor <= sqlite_sequence[t]
    BY <1>1 DEF SafeInv, LocalInv, MailInv, PullMail
<1>5. /\ seen[h] \subseteq seen'[h]
      /\ LaterTable(entries[t], sqlite_sequence[t],
                    entries'[t], sqlite_sequence'[t])
    BY <1>2 DEF StoresGrow
<1>6. Ids(m.entries) \subseteq seen'[h]
    BY <1>1, <1>2 DEF Insert, SafeInv, TypeInv, TypeOK
<1>7. Stored(entries'[t], sqlite_sequence'[t], seen'[h], cursor[c])
    BY <1>2, <1>4, <1>5, StoredLater
<1>8. /\ Carries(entries'[t], cursor[c], m.next_cursor, Ids(m.entries))
      /\ m.next_cursor <= sqlite_sequence'[t]
    BY <1>2, <1>4, <1>5, CarriesLater
<1>9. Stored(entries'[t], sqlite_sequence'[t], seen'[h], m.next_cursor)
    BY <1>2, <1>6, <1>7, <1>8, StoredByBatch
<1>10. QED
    BY <1>3, <1>7, <1>9 DEF LocalInv

\* Every step keeps the local invariant of every client.
LEMMA LocalNext ==
    ASSUME SafeInv, TypeInv', [Next]_vars, NEW c \in Client
    PROVE  LocalInv(c)'
<1>0. TypeInv /\ StoresGrow /\ CursorInv /\ LocalInv(c) /\ MailInv(c)
    BY StoreNext DEF SafeInv
<1>1. ClientType /\ StoreType
    BY <1>0, TypeGroups DEF TypeInv
<1>2. CASE SameLocal(c)
    BY <1>0, <1>2, LocalFrame
<1>3. CASE pc'[c] \in {"idle", "push_begin"}
    BY <1>3 DEF LocalInv
<1>4. ASSUME NEW p \in Device, StartSync(c, p) PROVE LocalInv(c)'
    <2>1. /\ pc'[c] = "pull_wait" /\ target'[c] = p
          /\ cursor'[c] = peer_state[host[c]][p]
          /\ UNCHANGED storeVars
        BY <1>1, <1>4 DEF StartSync, ClientType, get_last_cursor
    <2>2. host[c] \in Device
        BY ClientAssumption
    <2>3. QED
        BY <1>0, <2>1, <2>2 DEF CursorInv, LocalInv, storeVars
<1>5. CASE PullInsert(c) /\ ~ EndPull(c)
    BY <1>0, <1>5, PullInsertStep
<1>6. CASE SaveCursor(c)
    <2>1. /\ pc[c] = "pull_save" /\ pc'[c] = "pull_wait"
          /\ target'[c] = target[c]
          /\ cursor'[c] = next_cursor[c]
          /\ UNCHANGED storeVars
        BY <1>1, <1>6 DEF SaveCursor, ClientType
    <2>2. QED
        BY <1>0, <2>1 DEF LocalInv, storeVars
<1>7. CASE PushBegin(c)
    <2>1. /\ pc'[c] = "push_read"
          /\ target'[c] = target[c]
          /\ cursor'[c] = peer_push_state[host[c]][target[c]]
          /\ UNCHANGED storeVars
        BY <1>1, <1>7 DEF PushBegin, ClientType, get_last_pushed_seq
    <2>2. host[c] \in Device /\ target[c] \in Device
        BY <1>0, StoreFacts
    <2>3. QED
        BY <1>0, <2>1, <2>2 DEF CursorInv, LocalInv, storeVars
<1>8. CASE PushSend(c)
    <2>1. /\ pc[c] = "push_read" /\ pc'[c] = "push_wait"
          /\ target'[c] = target[c] /\ cursor'[c] = cursor[c]
          /\ batch'[c] = PushBatch(c)
          /\ next_cursor'[c] = next_cursor_of(PushBatch(c))
          /\ UNCHANGED storeVars
        BY <1>1, <1>8 DEF PushSend, ClientType
    <2>2. /\ next_cursor_of(PushBatch(c)) <= sqlite_sequence[host[c]]
          /\ Carries(RowsOf(entries[host[c]], host[c]), cursor[c],
                     next_cursor_of(PushBatch(c)), Ids(PushBatch(c)))
        BY <1>0, PushBatchRows
    <2>3. QED
        BY <1>0, <2>1, <2>2 DEF LocalInv, storeVars
<1>9. CASE PushAcked(c) /\ ~ EndSync(c)
    <2>1. /\ pc[c] = "push_wait"
          /\ \E m \in push_ack : Answer(c, m) /\ m.ok
          /\ pc'[c] = "push_save"
          /\ UNCHANGED <<target, cursor, batch, next_cursor>>
          /\ UNCHANGED storeVars
        BY <1>1, <1>9 DEF PushAcked, ClientType
    <2>2. Ids(batch[c]) \subseteq seen[target[c]]
        BY <1>0, <2>1 DEF MailInv, PushMail
    <2>3. QED
        BY <1>0, <2>1, <2>2 DEF LocalInv, storeVars
<1>10. CASE SavePushed(c) /\ ~ EndSync(c)
    <2>1. /\ pc[c] = "push_save" /\ pc'[c] = "push_read"
          /\ target'[c] = target[c] /\ cursor'[c] = next_cursor[c]
          /\ UNCHANGED storeVars
        BY <1>1, <1>10 DEF SavePushed, ClientType
    <2>2. Stored(RowsOf(entries[host[c]], host[c]), sqlite_sequence[host[c]],
                 seen[target[c]], next_cursor[c])
        BY <1>0, <2>1, StoredByBatch, StoreFacts DEF LocalInv
    <2>3. QED
        BY <2>1, <2>2 DEF LocalInv, storeVars
<1>11. QED
    BY <1>0, <1>2, <1>3, <1>4, <1>5, <1>6, <1>7, <1>8, <1>9, <1>10, LocalCases

\* The same for the mail of a client.
LEMMA MailCases ==
    ASSUME TypeInv, [Next]_vars, NEW c \in Client
    PROVE  \/ SameLocal(c) /\ request_id'[c] = request_id[c] /\ LessMail(c)
           \/ pc'[c] \notin {"pull_wait", "push_wait"}
           \/ \E m \in sync_pull : m.client = c /\ ServePull(m)
           \/ \E m \in entries_push : m.client = c /\ ServePush(m)
           \/ \E m \in entries_push : m.client = c /\ ServePushError(m)
           \/ \E p \in Device : StartSync(c, p)
           \/ SaveCursor(c) \/ RetryPull(c) \/ PushSend(c) \/ RetryPush(c)
<1> DEFINE Same == SameLocal(c) /\ request_id'[c] = request_id[c] /\ LessMail(c)
           Goal == \/ Same
                   \/ pc'[c] \notin {"pull_wait", "push_wait"}
                   \/ \E m \in sync_pull : m.client = c /\ ServePull(m)
                   \/ \E m \in entries_push : m.client = c /\ ServePush(m)
                   \/ \E m \in entries_push : m.client = c /\ ServePushError(m)
                   \/ \E p \in Device : StartSync(c, p)
                   \/ SaveCursor(c) \/ RetryPull(c) \/ PushSend(c) \/ RetryPush(c)
<1>0. ClientType
    BY TypeGroups DEF TypeInv
<1>1. ASSUME UNCHANGED clientVars,
             /\ sync_pull' \subseteq sync_pull
             /\ sync_batch' \subseteq sync_batch
             /\ entries_push' \subseteq entries_push
             /\ push_ack' \subseteq push_ack
      PROVE  Goal
    BY <1>1 DEF clientVars, SameLocal, LessMail
<1>2. ASSUME NEW x \in Client, EndPull(x) \/ EndSync(x) \/ FailPhase(x),
             request_id' = request_id,
             /\ sync_pull' \subseteq sync_pull
             /\ sync_batch' \subseteq sync_batch
             /\ entries_push' \subseteq entries_push
             /\ push_ack' \subseteq push_ack
      PROVE  Goal
    <2>1. \E p \in Device, phase \in {"idle", "push_begin"} :
            EnterPhase(x, phase, p)
        BY <1>0, <1>2, ClientAssumption DEF EndPull, EndSync, FailPhase, ClientType
    <2>2. LessMail(c)
        BY <1>2 DEF LessMail
    <2>3. CASE x = c
        BY <1>0, <2>1, <2>3 DEF EnterPhase, ClientType
    <2>4. CASE x # c
        <3>1. SameLocal(c)
            BY <1>0, <2>1, <2>4 DEF EnterPhase, ClientType, SameLocal
        <3>2. QED
            BY <1>2, <2>2, <3>1
    <2>5. QED
        BY <2>3, <2>4
<1>3. ASSUME NEW x \in Client,
             PullDone(x) \/ PushDone(x) \/ GiveUp(x) \/ Abort(x) \/ Crash(x)
      PROVE  Goal
    BY <1>2, <1>3 DEF PullDone, PushDone, GiveUp, Abort, Crash, pullVars, pushVars
<1>4. ASSUME NEW x \in Client, PullInsert(x) PROVE Goal
    <2>1. CASE EndPull(x)
        BY <1>2, <1>4, <2>1 DEF PullInsert, pushVars
    <2>2. CASE ~ EndPull(x)
        <3>1. LessMail(c) /\ request_id' = request_id
            BY <1>4 DEF PullInsert, pushVars, LessMail
        <3>2. x # c => SameLocal(c)
            BY <1>0, <1>4, <2>2 DEF PullInsert, ClientType, SameLocal
        <3>3. x = c => pc'[c] = "pull_save"
            BY <1>0, <1>4, <2>2 DEF PullInsert, ClientType
        <3>4. QED
            BY <3>1, <3>2, <3>3
    <2>3. QED
        BY <2>1, <2>2
<1>5. ASSUME NEW x \in Client, PushBegin(x) PROVE Goal
    <2>1. LessMail(c) /\ request_id' = request_id
        BY <1>5 DEF PushBegin, pullVars, pushVars, LessMail
    <2>2. x # c => SameLocal(c)
        BY <1>0, <1>5 DEF PushBegin, ClientType, SameLocal
    <2>3. x = c => pc'[c] = "push_read"
        BY <1>0, <1>5 DEF PushBegin, ClientType
    <2>4. QED
        BY <2>1, <2>2, <2>3
<1>6. ASSUME NEW x \in Client, PushTooLarge(x) PROVE Goal
    <2>1. CASE EndSync(x)
        BY <1>2, <1>6, <2>1 DEF PushTooLarge, pullVars, pushVars
    <2>2. CASE ~ EndSync(x)
        <3>1. LessMail(c) /\ request_id' = request_id
            BY <1>6 DEF PushTooLarge, pullVars, pushVars, LessMail
        <3>2. SameLocal(c)
            BY <1>6, <2>2 DEF PushTooLarge, SameLocal
        <3>3. QED
            BY <3>1, <3>2
    <2>3. QED
        BY <2>1, <2>2
<1>7. ASSUME NEW x \in Client, PushAcked(x) PROVE Goal
    <2>1. CASE EndSync(x)
        BY <1>2, <1>7, <2>1 DEF PushAcked, pullVars
    <2>2. CASE ~ EndSync(x)
        <3>1. LessMail(c) /\ request_id' = request_id
            BY <1>7 DEF PushAcked, pullVars, LessMail
        <3>2. x # c => SameLocal(c)
            BY <1>0, <1>7, <2>2 DEF PushAcked, ClientType, SameLocal
        <3>3. x = c => pc'[c] = "push_save"
            BY <1>0, <1>7, <2>2 DEF PushAcked, ClientType
        <3>4. QED
            BY <3>1, <3>2, <3>3
    <2>3. QED
        BY <2>1, <2>2
<1>8. ASSUME NEW x \in Client, SavePushed(x) PROVE Goal
    <2>1. CASE EndSync(x)
        BY <1>2, <1>8, <2>1 DEF SavePushed, pullVars, pushVars
    <2>2. CASE ~ EndSync(x)
        <3>1. LessMail(c) /\ request_id' = request_id
            BY <1>8 DEF SavePushed, pullVars, pushVars, LessMail
        <3>2. x # c => SameLocal(c)
            BY <1>0, <1>8, <2>2 DEF SavePushed, ClientType, SameLocal
        <3>3. x = c => pc'[c] = "push_read"
            BY <1>0, <1>8, <2>2 DEF SavePushed, ClientType
        <3>4. QED
            BY <3>1, <3>2, <3>3
    <2>3. QED
        BY <2>1, <2>2
<1>9. ASSUME NEW x \in Client, \/ \E p \in Device : StartSync(x, p)
                               \/ SaveCursor(x) \/ RetryPull(x)
      PROVE  Goal
    <2>1. CASE x = c
        BY <1>9, <2>1
    <2>2. CASE x # c
        <3>1. LessMail(c)
            BY <1>9, <2>2 DEF StartSync, SaveCursor, RetryPull, SendPull,
                              pushVars, LessMail
        <3>2. SameLocal(c) /\ request_id'[c] = request_id[c]
            BY <1>0, <1>9, <2>2 DEF StartSync, SaveCursor, RetryPull, SendPull,
                                    ClientType, SameLocal
        <3>3. QED
            BY <3>1, <3>2
    <2>3. QED
        BY <2>1, <2>2
<1>10. ASSUME NEW x \in Client, PushSend(x) \/ RetryPush(x) PROVE Goal
    <2>1. CASE x = c
        BY <1>10, <2>1
    <2>2. CASE x # c
        <3>1. LessMail(c)
            BY <1>10, <2>2 DEF PushSend, RetryPush, SendPush, pullVars, LessMail
        <3>2. SameLocal(c) /\ request_id'[c] = request_id[c]
            BY <1>0, <1>10, <2>2 DEF PushSend, RetryPush, SendPush, ClientType,
                                     SameLocal
        <3>3. QED
            BY <3>1, <3>2
    <2>3. QED
        BY <2>1, <2>2
<1>11. ASSUME NEW m \in sync_pull, ServePull(m) PROVE Goal
    <2>1. CASE m.client = c
        BY <1>11, <2>1
    <2>2. CASE m.client # c
        <3>1. LessMail(c)
            BY <1>11, <2>2 DEF ServePull, pushVars, LessMail
        <3>2. QED
            BY <1>11, <3>1 DEF ServePull, clientVars, SameLocal
    <2>3. QED
        BY <2>1, <2>2
<1>12. ASSUME NEW m \in entries_push, ServePush(m) \/ ServePushError(m)
       PROVE  Goal
    <2>1. CASE m.client = c
        BY <1>12, <2>1
    <2>2. CASE m.client # c
        <3>1. LessMail(c)
            BY <1>12, <2>2 DEF ServePush, ServePushError, Acknowledge, pullVars,
                               LessMail
        <3>2. QED
            BY <1>12, <3>1 DEF ServePush, ServePushError, clientVars, SameLocal
    <2>3. QED
        BY <2>1, <2>2
<1>13. ASSUME NEW x \in Client, SkipResponse(x) PROVE Goal
    BY <1>1, <1>13 DEF SkipResponse
<1>14. ASSUME NEW m, Lose(m) PROVE Goal
    BY <1>1, <1>14 DEF Lose
<1>15. ASSUME NEW d, NEW e, Record(d, e) \/ PruneStep(d) PROVE Goal
    BY <1>1, <1>15 DEF Record, PruneStep, PruneKeepFloor, PrunePushedFloor,
                       PruneDelete, pullVars, pushVars
<1>16. CASE UNCHANGED vars
    BY <1>1, <1>16 DEF vars, pullVars, pushVars
<1>17. QED
    BY <1>3, <1>4, <1>5, <1>6, <1>7, <1>8, <1>9, <1>10, <1>11, <1>12, <1>13,
       <1>14, <1>15, <1>16
       DEF Next, ClientStep, ServerStep

\* Mail that is not new says the same of stores that have grown.
LEMMA MailFrame ==
    ASSUME TypeInv, TypeInv', StoresGrow, NEW c \in Client, MailInv(c),
           SameLocal(c), request_id'[c] = request_id[c], LessMail(c)
    PROVE  MailInv(c)'
<1> DEFINE t == target[c]
<1>1. /\ t \in Device /\ cursor[c] \in Nat
      /\ sqlite_sequence[t] \in Nat /\ sqlite_sequence'[t] \in Nat
      /\ entries'[t] \in SUBSET Row
      /\ LaterTable(entries[t], sqlite_sequence[t],
                    entries'[t], sqlite_sequence'[t])
      /\ seen[t] \subseteq seen'[t]
    BY DEF TypeInv, TypeOK, StoresGrow
<1>2. /\ pc'[c] = pc[c] /\ target'[c] = t /\ cursor'[c] = cursor[c]
      /\ batch'[c] = batch[c]
      /\ \A m : Answer(c, m)' <=> Answer(c, m)
      /\ Ids(batch'[c]) = Ids(batch[c])
    BY DEF SameLocal, Answer
<1>3. CASE pc[c] = "pull_wait"
    <2>1. PullMail(c)
        BY <1>3 DEF MailInv
    <2>2. \A m \in sync_pull' : Answer(c, m) =>
            m.peer = t /\ m.cursor = cursor[c]
        BY <2>1 DEF PullMail, LessMail, Answer
    <2>3. ASSUME NEW m \in sync_batch', Answer(c, m)
          PROVE  /\ Carries(entries'[t], cursor[c], m.next_cursor, Ids(m.entries))
                 /\ m.next_cursor <= sqlite_sequence'[t]
        <3>1. /\ m \in sync_batch
              /\ m.next_cursor \in Nat
            BY <2>3 DEF LessMail, Answer, TypeInv, TypeOK, SyncBatch
        <3>2. /\ Carries(entries[t], cursor[c], m.next_cursor, Ids(m.entries))
              /\ m.next_cursor <= sqlite_sequence[t]
            BY <2>1, <2>3, <3>1 DEF PullMail
        <3>3. QED
            BY <1>1, <3>1, <3>2, CarriesLater
    <2>4. PullMail(c)'
        BY <1>2, <2>2, <2>3 DEF PullMail
    <2>5. QED
        BY <1>2, <1>3, <2>4 DEF MailInv
<1>4. CASE pc[c] = "push_wait"
    <2>1. PushMail(c)
        BY <1>4 DEF MailInv
    <2>2. \A m \in entries_push' : Answer(c, m) =>
            m.peer = t /\ m.entries = batch[c]
        BY <2>1 DEF PushMail, LessMail, Answer
    <2>3. \A m \in push_ack' : Answer(c, m) /\ m.ok =>
            Ids(batch[c]) \subseteq seen'[t]
        BY <1>1, <2>1 DEF PushMail, LessMail, Answer
    <2>4. PushMail(c)'
        BY <1>2, <2>2, <2>3 DEF PushMail
    <2>5. QED
        BY <1>2, <1>4, <2>4 DEF MailInv
<1>5. CASE pc[c] \notin {"pull_wait", "push_wait"}
    BY <1>2, <1>5 DEF MailInv
<1>6. QED
    BY <1>3, <1>4, <1>5

\* A new request has an id of its own, so that it is the only mail of its
\* client that counts.
LEMMA PullSent ==
    ASSUME TypeInv, NEW c \in Client, NEW p, NEW from, NEW limit,
           SendPull(c, p, from, limit), sync_batch' = sync_batch,
           pc'[c] = "pull_wait", target'[c] = p, cursor'[c] = from
    PROVE  MailInv(c)'
<1> DEFINE new == [client |-> c, request_id |-> NewRequestId(c), peer |-> p,
                   cursor |-> from, limit |-> limit]
<1>1. /\ request_id'[c] = NewRequestId(c)
      /\ sync_pull' = sync_pull \cup {new}
      /\ \A m \in Messages : m.client = c => m.request_id # NewRequestId(c)
    BY FreshRequest DEF SendPull, TypeInv, TypeOK
<1>2. \A m \in sync_pull' : Answer(c, m)' => m = new
    BY <1>1 DEF Answer, Messages
<1>3. \A m \in sync_batch' : ~ Answer(c, m)'
    BY <1>1 DEF Answer, Messages
<1>4. PullMail(c)'
    BY <1>2, <1>3 DEF PullMail
<1>5. QED
    BY <1>4 DEF MailInv

LEMMA PushSent ==
    ASSUME TypeInv, NEW c \in Client, NEW p, NEW B,
           SendPush(c, p, B), push_ack' = push_ack,
           pc'[c] = "push_wait", target'[c] = p, batch'[c] = B
    PROVE  MailInv(c)'
<1> DEFINE new == [client |-> c, request_id |-> NewRequestId(c), peer |-> p,
                   entries |-> B]
<1>1. /\ request_id'[c] = NewRequestId(c)
      /\ entries_push' = entries_push \cup {new}
      /\ \A m \in Messages : m.client = c => m.request_id # NewRequestId(c)
    BY FreshRequest DEF SendPush, TypeInv, TypeOK
<1>2. \A m \in entries_push' : Answer(c, m)' => m = new
    BY <1>1 DEF Answer, Messages
<1>3. \A m \in push_ack' : ~ Answer(c, m)'
    BY <1>1 DEF Answer, Messages
<1>4. PushMail(c)'
    BY <1>2, <1>3 DEF PushMail
<1>5. QED
    BY <1>4 DEF MailInv

\* A pull is answered.
LEMMA PullServed ==
    ASSUME TypeInv, NEW c \in Client, MailInv(c), NEW m \in sync_pull,
           m.client = c, UNCHANGED <<storeVars, clientVars, pushVars>>,
           sync_pull' \subseteq sync_pull,
           sync_batch' \subseteq sync_batch \cup {PullAnswer(m)}
    PROVE  MailInv(c)'
<1> DEFINE rows == pull_since_cursor(entries[m.peer], m.cursor, m.limit)
<1>1. UNCHANGED storeVars /\ UNCHANGED clientVars /\ UNCHANGED pushVars
    OBVIOUS
<1>2. /\ Carries(entries[m.peer], m.cursor, next_cursor_of(rows), Ids(rows))
      /\ next_cursor_of(rows) <= sqlite_sequence[m.peer]
    BY PullBatchRows
<1>3. CASE pc[c] = "pull_wait"
    <2>1. PullMail(c)
        BY <1>3 DEF MailInv
    <2>2. Answer(c, PullAnswer(m)) =>
            /\ Carries(entries[target[c]], cursor[c], PullAnswer(m).next_cursor,
                       Ids(PullAnswer(m).entries))
            /\ PullAnswer(m).next_cursor <= sqlite_sequence[target[c]]
        BY <1>2, <2>1 DEF PullMail, Answer, PullAnswer
    <2>3. PullMail(c)'
        BY <1>1, <2>1, <2>2 DEF PullMail, Answer, storeVars, clientVars
    <2>4. QED
        BY <1>1, <1>3, <2>3 DEF MailInv, clientVars
<1>4. CASE pc[c] = "push_wait"
    <2>1. PushMail(c)'
        BY <1>1, <1>4 DEF MailInv, PushMail, Answer, storeVars, clientVars,
                          pushVars
    <2>2. QED
        BY <1>1, <1>4, <2>1 DEF MailInv, clientVars
<1>5. QED
    BY <1>1, <1>3, <1>4 DEF MailInv, clientVars

\* A push is answered without having been stored.
LEMMA PushRefused ==
    ASSUME NEW c \in Client, MailInv(c), NEW m \in entries_push,
           UNCHANGED <<storeVars, clientVars, pullVars>>,
           entries_push' \subseteq entries_push, Acknowledge(m, FALSE)
    PROVE  MailInv(c)'
<1>1. /\ UNCHANGED storeVars /\ UNCHANGED clientVars /\ UNCHANGED pullVars
      /\ push_ack' = push_ack \cup {[client |-> m.client,
                                     request_id |-> m.request_id,
                                     ok |-> FALSE]}
    BY DEF Acknowledge
<1>2. PullMail(c)' <=> PullMail(c)
    BY <1>1 DEF PullMail, Answer, storeVars, clientVars, pullVars
<1>3. PushMail(c) => PushMail(c)'
    BY <1>1 DEF PushMail, Answer, storeVars, clientVars
<1>4. QED
    BY <1>1, <1>2, <1>3 DEF MailInv, clientVars

\* Every step keeps the mail of every client true.
LEMMA MailNext ==
    ASSUME SafeInv, TypeInv', [Next]_vars, NEW c \in Client
    PROVE  MailInv(c)'
<1>0. TypeInv /\ ClientType /\ StoresGrow /\ MailInv(c)
    BY StoreNext, TypeGroups DEF SafeInv, TypeInv
<1>1. CASE SameLocal(c) /\ request_id'[c] = request_id[c] /\ LessMail(c)
    BY <1>0, <1>1, MailFrame
<1>2. CASE pc'[c] \notin {"pull_wait", "push_wait"}
    BY <1>2 DEF MailInv
<1>3. ASSUME NEW m \in sync_pull, m.client = c, ServePull(m)
      PROVE  MailInv(c)'
    BY <1>0, <1>3, PullServed DEF ServePull, PullAnswer
<1>4. ASSUME NEW m \in entries_push, m.client = c, ServePush(m)
      PROVE  MailInv(c)'
    <2>1. /\ UNCHANGED clientVars /\ UNCHANGED pullVars
          /\ entries_push' \subseteq entries_push
          /\ push_ack' = push_ack \cup {[client |-> m.client,
                                         request_id |-> m.request_id,
                                         ok |-> TRUE]}
          /\ Insert(m.peer, m.entries)
        BY <1>4 DEF ServePush, Acknowledge
    <2>2. CASE pc[c] = "push_wait"
        <3>1. PushMail(c)
            BY <1>0, <2>2 DEF MailInv
        <3>2. target[c] \in Device /\ seen[target[c]] \subseteq seen'[target[c]]
            BY <1>0 DEF ClientType, StoresGrow
        <3>3. Answer(c, m) => Ids(batch[c]) \subseteq seen'[target[c]]
            BY <2>1, <3>1, <3>2 DEF PushMail, Insert, TypeInv, TypeOK, SafeInv
        <3>4. PushMail(c)'
            BY <1>4, <2>1, <3>1, <3>2, <3>3 DEF PushMail, Answer, clientVars
        <3>5. QED
            BY <2>1, <2>2, <3>4 DEF MailInv, clientVars
    <2>3. CASE pc[c] # "push_wait"
        <3>1. SameLocal(c) /\ request_id'[c] = request_id[c]
            BY <2>1 DEF SameLocal, clientVars
        <3>2. MailInv(c)' <=> (pc[c] = "pull_wait" => PullMail(c)')
            BY <2>1, <2>3 DEF MailInv, clientVars
        <3>3. SUFFICES ASSUME pc[c] = "pull_wait" PROVE PullMail(c)'
            BY <3>2
        <3>4. PullMail(c)
            BY <1>0, <3>3 DEF MailInv
        <3>5. /\ target[c] \in Device /\ cursor[c] \in Nat
              /\ sqlite_sequence[target[c]] \in Nat
              /\ sqlite_sequence'[target[c]] \in Nat
              /\ entries'[target[c]] \in SUBSET Row
              /\ LaterTable(entries[target[c]], sqlite_sequence[target[c]],
                            entries'[target[c]], sqlite_sequence'[target[c]])
              /\ \A x \in sync_batch : x.next_cursor \in Nat
            BY <1>0 DEF SafeInv, TypeInv, TypeOK, StoresGrow, SyncBatch
        <3>6. \A x \in sync_batch : Answer(c, x) =>
                /\ Carries(entries'[target[c]], cursor[c], x.next_cursor,
                           Ids(x.entries))
                /\ x.next_cursor <= sqlite_sequence'[target[c]]
            BY <3>4, <3>5, CarriesLater DEF PullMail
        <3>7. QED
            BY <2>1, <3>4, <3>6 DEF PullMail, Answer, clientVars, pullVars
    <2>4. QED
        BY <2>2, <2>3
<1>5. ASSUME NEW m \in entries_push, m.client = c, ServePushError(m)
      PROVE  MailInv(c)'
    BY <1>0, <1>5, PushRefused DEF ServePushError
<1>6. ASSUME NEW p \in Device, StartSync(c, p) PROVE MailInv(c)'
    <2>1. /\ SendPull(c, p, get_last_cursor(host[c], p), batch_limit[c])
          /\ sync_batch' = sync_batch
          /\ pc'[c] = "pull_wait" /\ target'[c] = p
          /\ cursor'[c] = get_last_cursor(host[c], p)
        BY <1>0, <1>6 DEF StartSync, ClientType
    <2>2. QED
        BY <1>0, <2>1, PullSent
<1>7. CASE SaveCursor(c)
    <2>1. /\ SendPull(c, target[c], next_cursor[c], batch_limit[c])
          /\ sync_batch' = sync_batch
          /\ pc'[c] = "pull_wait" /\ target'[c] = target[c]
          /\ cursor'[c] = next_cursor[c]
        BY <1>0, <1>7 DEF SaveCursor, ClientType
    <2>2. QED
        BY <1>0, <2>1, PullSent
<1>8. CASE RetryPull(c)
    <2>1. /\ SendPull(c, target[c], cursor[c], batch_limit[c])
          /\ sync_batch' = sync_batch
          /\ pc'[c] = "pull_wait" /\ target'[c] = target[c]
          /\ cursor'[c] = cursor[c]
        BY <1>0, <1>8 DEF RetryPull, ClientType
    <2>2. QED
        BY <1>0, <2>1, PullSent
<1>9. CASE PushSend(c)
    <2>1. /\ SendPush(c, target[c], PushBatch(c))
          /\ push_ack' = push_ack
          /\ pc'[c] = "push_wait" /\ target'[c] = target[c]
          /\ batch'[c] = PushBatch(c)
        BY <1>0, <1>9 DEF PushSend, ClientType
    <2>2. QED
        BY <1>0, <2>1, PushSent
<1>10. CASE RetryPush(c)
    <2>1. /\ SendPush(c, target[c], batch[c])
          /\ push_ack' = push_ack
          /\ pc'[c] = "push_wait" /\ target'[c] = target[c]
          /\ batch'[c] = batch[c]
        BY <1>0, <1>10 DEF RetryPush, ClientType
    <2>2. QED
        BY <1>0, <2>1, PushSent
<1>11. QED
    BY <1>0, <1>1, <1>2, <1>3, <1>4, <1>5, <1>6, <1>7, <1>8, <1>9, <1>10,
       MailCases

\* Only two steps save a cursor; each saves one that its client has made safe.
LEMMA CursorNext ==
    ASSUME SafeInv, TypeInv', [Next]_vars
    PROVE  CursorInv'
<1>0. /\ TypeInv /\ StoresGrow /\ CursorInv /\ CursorType
      /\ \A c \in Client : LocalInv(c)
    BY StoreNext, TypeGroups DEF SafeInv, TypeInv
<1>1. CASE UNCHANGED cursorVars
    <2>1. SUFFICES ASSUME NEW d \in Device, NEW p \in Device
                   PROVE  /\ Stored(entries'[p], sqlite_sequence'[p], seen'[d],
                                    peer_state[d][p])
                          /\ Stored(RowsOf(entries'[d], d), sqlite_sequence'[d],
                                    seen'[p], peer_push_state[d][p])
        BY <1>1 DEF CursorInv, cursorVars
    <2>2. /\ peer_state[d][p] \in Nat /\ peer_push_state[d][p] \in Nat
          /\ sqlite_sequence[p] \in Nat /\ sqlite_sequence'[p] \in Nat
          /\ sqlite_sequence[d] \in Nat /\ sqlite_sequence'[d] \in Nat
          /\ entries'[p] \in SUBSET Row /\ RowsOf(entries'[d], d) \in SUBSET Row
        BY <1>0 DEF TypeInv, TypeOK, RowsOf
    <2>3. /\ Stored(entries[p], sqlite_sequence[p], seen[d], peer_state[d][p])
          /\ Stored(RowsOf(entries[d], d), sqlite_sequence[d], seen[p],
                    peer_push_state[d][p])
        BY <1>0 DEF CursorInv
    <2>4. /\ seen[d] \subseteq seen'[d] /\ seen[p] \subseteq seen'[p]
          /\ LaterTable(entries[p], sqlite_sequence[p],
                        entries'[p], sqlite_sequence'[p])
          /\ LaterTable(RowsOf(entries[d], d), sqlite_sequence[d],
                        RowsOf(entries'[d], d), sqlite_sequence'[d])
        BY <1>0, LaterOwnRows DEF StoresGrow
    <2>5. QED
        BY <2>2, <2>3, <2>4, StoredLater
<1>2. ASSUME NEW c \in Client, SaveCursor(c) PROVE CursorInv'
    <2>1. host[c] \in Device /\ target[c] \in Device
        BY <1>0, StoreFacts
    <2>2. /\ UNCHANGED storeVars /\ peer_push_state' = peer_push_state
          /\ peer_state' = [peer_state EXCEPT
                              ![host[c]][target[c]] = next_cursor[c]]
          /\ pc[c] = "pull_save"
        BY <1>2 DEF SaveCursor, set_last_cursor
    <2>3. Stored(entries[target[c]], sqlite_sequence[target[c]],
                 seen[host[c]], next_cursor[c])
        BY <1>0, <2>2 DEF LocalInv
    <2>4. \A d, p \in Device :
            \/ peer_state'[d][p] = peer_state[d][p]
            \/ d = host[c] /\ p = target[c] /\ peer_state'[d][p] = next_cursor[c]
        BY <1>0, <2>1, <2>2 DEF CursorType
    <2>5. QED
        BY <1>0, <2>2, <2>3, <2>4 DEF CursorInv, storeVars
<1>3. ASSUME NEW c \in Client, SavePushed(c) PROVE CursorInv'
    <2>1. host[c] \in Device /\ target[c] \in Device
        BY <1>0, StoreFacts
    <2>2. CASE UNCHANGED peer_push_state
        BY <1>1, <1>3, <2>2 DEF SavePushed, cursorVars
    <2>3. CASE ~ UNCHANGED peer_push_state
        <3>1. /\ UNCHANGED storeVars /\ peer_state' = peer_state
              /\ peer_push_state' = [peer_push_state EXCEPT
                                       ![host[c]][target[c]] = next_cursor[c]]
              /\ pc[c] = "push_save"
            BY <1>3, <2>3 DEF SavePushed, set_last_pushed_seq
        <3>2. Stored(RowsOf(entries[host[c]], host[c]), sqlite_sequence[host[c]],
                     seen[target[c]], next_cursor[c])
            BY <1>0, <3>1, StoredByBatch, StoreFacts DEF LocalInv
        <3>3. \A d, p \in Device :
                \/ peer_push_state'[d][p] = peer_push_state[d][p]
                \/ /\ d = host[c] /\ p = target[c]
                   /\ peer_push_state'[d][p] = next_cursor[c]
            BY <1>0, <2>1, <3>1 DEF CursorType
        <3>4. QED
            BY <1>0, <3>1, <3>2, <3>3 DEF CursorInv, storeVars
    <2>4. QED
        BY <2>2, <2>3
<1>4. ASSUME NEW c \in Client, \/ PullDone(c) \/ PullInsert(c) \/ PushBegin(c)
                               \/ PushDone(c) \/ PushSend(c) \/ PushTooLarge(c)
                               \/ PushAcked(c) \/ SkipResponse(c)
      PROVE  UNCHANGED cursorVars
    BY <1>4 DEF PullDone, PullInsert, PushBegin, PushDone, PushSend,
                PushTooLarge, PushAcked, SkipResponse
<1>5. ASSUME NEW c \in Client, \/ RetryPull(c) \/ RetryPush(c) \/ GiveUp(c)
                               \/ Abort(c) \/ Crash(c)
      PROVE  UNCHANGED cursorVars
    BY <1>5 DEF RetryPull, RetryPush, GiveUp, Abort, Crash
<1>6. ASSUME NEW m, ServePull(m) \/ ServePush(m) \/ ServePushError(m) \/ Lose(m)
      PROVE  UNCHANGED cursorVars
    BY <1>6 DEF ServePull, ServePush, ServePushError, Lose
<1>7. ASSUME NEW a, NEW b, Record(a, b) \/ StartSync(a, b) \/ PruneStep(a)
      PROVE  UNCHANGED cursorVars
    BY <1>7 DEF Record, StartSync, PruneStep, PruneKeepFloor, PrunePushedFloor,
                PruneDelete
<1>8. ASSUME UNCHANGED vars PROVE UNCHANGED cursorVars
    BY <1>8 DEF vars
<1>9. QED
    BY <1>1, <1>2, <1>3, <1>4, <1>5, <1>6, <1>7, <1>8
       DEF Next, ClientStep, ServerStep

LEMMA SafeInit == Init => SafeInv
<1> SUFFICES ASSUME Init PROVE SafeInv
    OBVIOUS
<1>1. CursorInv
    BY DEF Init, CursorInv, Stored, RowsOf
<1>2. \A c \in Client : LocalInv(c) /\ MailInv(c)
    BY DEF Init, LocalInv, MailInv
<1>3. QED
    BY <1>1, <1>2, TypeInit DEF SafeInv

LEMMA SafeNext == SafeInv /\ [Next]_vars => SafeInv'
<1> SUFFICES ASSUME SafeInv, [Next]_vars PROVE SafeInv'
    OBVIOUS
<1>1. TypeInv'
    BY TypeNext DEF SafeInv
<1>2. CursorInv'
    BY <1>1, CursorNext
<1>3. \A c \in Client : LocalInv(c)' /\ MailInv(c)'
    BY <1>1, LocalNext, MailNext
<1>4. QED
    BY <1>1, <1>2, <1>3 DEF SafeInv

\* No pull cursor ever passes a row its device has not stored, for any number
\* of devices and clients, any batch limit, and however messages are lost,
\* delayed or answered twice, processes die and tables are pruned meanwhile.
THEOREM PullCursorSafe == Spec => []PullCursorNoGap
<1>1. SafeInv => PullCursorNoGap
    BY DEF SafeInv, CursorInv, Stored, PullCursorNoGap
<1>2. QED
    BY SafeInit, SafeNext, <1>1, PTL DEF Spec

\* No push cursor ever passes an own row the peer has not stored: an ack that
\* is late, repeated or meant for another request is never mistaken for the
\* ack of the current batch.
THEOREM PushCursorSafe == Spec => []PushCursorNoGap
<1>1. SafeInv => PushCursorNoGap
    BY DEF SafeInv, CursorInv, Stored, PushCursorNoGap
<1>2. QED
    BY SafeInit, SafeNext, <1>1, PTL DEF Spec

-----------------------------------------------------------------------------
(* Where the batches in memory and on the wire come from.                  *)

PullRows(r) == pull_since_cursor(entries[r.peer], r.cursor, r.limit)

\* After every step a batch is one that was there before, one just read from
\* a store, or empty.
BatchOrigin ==
    /\ \A m \in sync_batch' :
         m \in sync_batch \/ \E r \in sync_pull : m.entries = PullRows(r)
    /\ \A m \in entries_push' :
         m \in entries_push \/ \E c \in Client : m.entries \in {PushBatch(c), batch[c]}
    /\ \A c \in Client : batch'[c] \in {batch[c], {}, PushBatch(c)}

LEMMA BatchCases ==
    ASSUME TypeInv, [Next]_vars
    PROVE  BatchOrigin
<1>0. batch \in [Client -> SUBSET Row]
    BY DEF TypeInv, TypeOK
<1> DEFINE Wire == /\ sync_batch' \subseteq sync_batch
                   /\ entries_push' \subseteq entries_push
<1>1. ASSUME Wire, UNCHANGED batch PROVE BatchOrigin
    BY <1>1 DEF BatchOrigin
<1>2. ASSUME NEW x \in Client, Wire, EndPull(x) \/ EndSync(x) \/ FailPhase(x)
      PROVE  BatchOrigin
    <2>1. batch' = [batch EXCEPT ![x] = {}]
        BY <1>2 DEF EndPull, EndSync, FailPhase, EnterPhase
    <2>2. QED
        BY <1>0, <1>2, <2>1 DEF BatchOrigin
<1>3. ASSUME NEW x \in Client,
             PullDone(x) \/ PushDone(x) \/ GiveUp(x) \/ Abort(x) \/ Crash(x)
      PROVE  BatchOrigin
    BY <1>2, <1>3 DEF PullDone, PushDone, GiveUp, Abort, Crash, pullVars, pushVars
<1>4. ASSUME NEW x \in Client,
             PullInsert(x) \/ PushTooLarge(x) \/ PushAcked(x)
      PROVE  BatchOrigin
    <2>1. Wire
        BY <1>4 DEF PullInsert, PushTooLarge, PushAcked, pullVars, pushVars
    <2>2. EndPull(x) \/ EndSync(x) \/ UNCHANGED batch
        BY <1>4 DEF PullInsert, PushTooLarge, PushAcked
    <2>3. QED
        BY <1>1, <1>2, <2>1, <2>2
<1>5. ASSUME NEW x \in Client, SavePushed(x) PROVE BatchOrigin
    <2>1. Wire
        BY <1>5 DEF SavePushed, pullVars, pushVars
    <2>2. EndSync(x) \/ batch' = [batch EXCEPT ![x] = {}]
        BY <1>5 DEF SavePushed
    <2>3. CASE batch' = [batch EXCEPT ![x] = {}]
        BY <1>0, <2>1, <2>3 DEF BatchOrigin
    <2>4. QED
        BY <1>2, <2>1, <2>2, <2>3
<1>6. ASSUME NEW x \in Client, \/ \E p \in Device : StartSync(x, p)
                               \/ SaveCursor(x) \/ RetryPull(x)
                               \/ PushBegin(x) \/ SkipResponse(x)
      PROVE  BatchOrigin
    BY <1>1, <1>6 DEF StartSync, SaveCursor, RetryPull, PushBegin, SkipResponse,
                      clientVars, pullVars, pushVars
<1>7. ASSUME NEW x \in Client, PushSend(x) PROVE BatchOrigin
    <2>1. /\ sync_batch' = sync_batch
          /\ batch' = [batch EXCEPT ![x] = PushBatch(x)]
          /\ \A m \in entries_push' :
               m \in entries_push \/ m.entries = PushBatch(x)
        BY <1>7 DEF PushSend, SendPush, pullVars
    <2>2. QED
        BY <1>0, <2>1 DEF BatchOrigin
<1>8. ASSUME NEW x \in Client, RetryPush(x) PROVE BatchOrigin
    <2>1. /\ sync_batch' = sync_batch /\ batch' = batch
          /\ \A m \in entries_push' :
               m \in entries_push \/ m.entries = batch[x]
        BY <1>8 DEF RetryPush, SendPush, pullVars
    <2>2. QED
        BY <2>1 DEF BatchOrigin
<1>9. ASSUME NEW r \in sync_pull, ServePull(r) PROVE BatchOrigin
    <2>1. /\ entries_push' = entries_push /\ batch' = batch
          /\ \A m \in sync_batch' : m \in sync_batch \/ m.entries = PullRows(r)
        BY <1>9 DEF ServePull, PullRows, pushVars, clientVars
    <2>2. QED
        BY <2>1 DEF BatchOrigin
<1>10. ASSUME NEW m, ServePush(m) \/ ServePushError(m) \/ Lose(m)
       PROVE  BatchOrigin
    BY <1>1, <1>10 DEF ServePush, ServePushError, Lose, clientVars, pullVars
<1>11. ASSUME NEW d, NEW e, Record(d, e) \/ PruneStep(d) PROVE BatchOrigin
    BY <1>1, <1>11 DEF Record, PruneStep, PruneKeepFloor, PrunePushedFloor,
                       PruneDelete, clientVars, pullVars, pushVars
<1>12. CASE UNCHANGED vars
    BY <1>1, <1>12 DEF vars, clientVars, pullVars, pushVars
<1>13. QED
    BY <1>3, <1>4, <1>5, <1>6, <1>7, <1>8, <1>9, <1>10, <1>11, <1>12
       DEF Next, ClientStep, ServerStep

\* Reading a batch never adds a row.
LEMMA PullRowsSubset ==
    /\ \A r : PullRows(r) \subseteq entries[r.peer]
    /\ \A c : PushBatch(c) \subseteq entries[host[c]]
BY DEF PullRows, PushBatch, pull_since_cursor_for_device, pull_since_cursor,
       RowsAfter, RowsOf

-----------------------------------------------------------------------------
(* One row per entry.                                                      *)

\* Tables and batches hold one row per entry and per number. A batch must,
\* because the numbers of the inserted rows follow from its order.
UniqueInv ==
    /\ \A d \in Device : Unique(entries[d])
    /\ \A c \in Client : Unique(batch[c])
    /\ \A m \in sync_batch \cup entries_push : Unique(m.entries)

LEMMA UniqueSubset ==
    ASSUME NEW T, Unique(T), NEW S, S \subseteq T
    PROVE  Unique(S)
BY DEF Unique

LEMMA UniqueInsert ==
    ASSUME TypeInv, UniqueInv, NEW d \in Device, NEW B, Batch(B), Unique(B),
           Insert(d, B)
    PROVE  \A x \in Device : Unique(entries'[x])
<1>1. /\ Numbered(entries[d], sqlite_sequence[d])
      /\ sqlite_sequence[d] \in Nat
      /\ Unique(entries[d])
    BY DEF TypeInv, TypeOK, StoreInv, UniqueInv
<1>2. Unique(insert_entries(entries[d], sqlite_sequence[d], B))
    BY <1>1, InsertUnique
<1>3. entries' = [entries EXCEPT
                    ![d] = insert_entries(entries[d], sqlite_sequence[d], B)]
    BY DEF Insert
<1>4. \A x \in Device : x # d => entries'[x] = entries[x]
    BY <1>3 DEF TypeInv, TypeOK
<1>5. entries'[d] = insert_entries(entries[d], sqlite_sequence[d], B)
    BY <1>3 DEF TypeInv, TypeOK
<1>6. QED
    BY <1>2, <1>4, <1>5 DEF UniqueInv

\* Batches are unique because the tables they were read from are.
LEMMA UniqueBatches ==
    ASSUME TypeInv, UniqueInv, BatchOrigin
    PROVE  /\ \A c \in Client : Unique(batch'[c])
           /\ \A m \in sync_batch' \cup entries_push' : Unique(m.entries)
<1>1. /\ \A r \in sync_pull : Unique(PullRows(r))
      /\ \A c \in Client : Unique(PushBatch(c))
    <2>1. /\ \A r \in sync_pull : r.peer \in Device
          /\ \A c \in Client : host[c] \in Device
        BY ClientAssumption DEF TypeInv, TypeOK, SyncPull
    <2>2. QED
        BY <2>1, PullRowsSubset, UniqueSubset DEF UniqueInv
<1>2. Unique({})
    BY DEF Unique
<1>3. QED
    BY <1>1, <1>2 DEF BatchOrigin, UniqueInv

LEMMA UniqueNext == TypeInv /\ UniqueInv /\ [Next]_vars => UniqueInv'
<1> SUFFICES ASSUME TypeInv, UniqueInv, [Next]_vars PROVE UniqueInv'
    OBVIOUS
<1>1. \A d \in Device : Unique(entries'[d])
    <2>1. ASSUME NEW d \in Device, NEW e \in Entry, Record(d, e)
          PROVE  \A x \in Device : Unique(entries'[x])
        <3>1. Unique({[ingest_seq |-> 1, entry_id |-> e]})
            BY DEF Unique
        <3>2. QED
            BY <2>1, <3>1, RecordedBatch, UniqueInsert DEF Record
    <2>2. ASSUME NEW c \in Client, PullInsert(c)
          PROVE  \A x \in Device : Unique(entries'[x])
        <3>1. PICK m \in sync_batch : Insert(host[c], m.entries)
            BY <2>2 DEF PullInsert
        <3>2. Batch(m.entries) /\ Unique(m.entries) /\ host[c] \in Device
            BY ClientAssumption
               DEF TypeInv, TypeOK, BatchInv, SyncBatch, Batch, UniqueInv
        <3>3. QED
            BY <3>1, <3>2, UniqueInsert
    <2>3. ASSUME NEW m \in entries_push, ServePush(m)
          PROVE  \A x \in Device : Unique(entries'[x])
        <3>1. Batch(m.entries) /\ Unique(m.entries) /\ m.peer \in Device
            BY DEF TypeInv, TypeOK, BatchInv, EntriesPush, Batch, UniqueInv
        <3>2. QED
            BY <2>3, <3>1, UniqueInsert DEF ServePush
    <2>4. ASSUME NEW d \in Device, PruneDelete(d)
          PROVE  \A x \in Device : Unique(entries'[x])
        <3>1. \A x \in Device : entries'[x] \subseteq entries[x]
            BY <2>4 DEF PruneDelete, TypeInv, TypeOK
        <3>2. QED
            BY <3>1, UniqueSubset DEF UniqueInv
    <2>5. QED
        BY <2>1, <2>2, <2>3, <2>4, StoreCases DEF UniqueInv, storeVars
<1>2. QED
    BY <1>1, BatchCases, UniqueBatches DEF UniqueInv

\* However often an entry arrives, by retries, echoes through other devices or
\* two processes on one database, a device keeps one row of it, and no number
\* is given twice.
THEOREM EntriesUnique == Spec => []OneRowPerEntry
<1>1. Init => UniqueInv
    BY DEF Init, UniqueInv, Unique
<1>2. UniqueInv => OneRowPerEntry
    BY DEF UniqueInv, Unique, OneRowPerEntry
<1>3. QED
    BY TypeInit, TypeNext, <1>1, UniqueNext, <1>2, PTL DEF Spec

-----------------------------------------------------------------------------
(* What prune deletes.                                                     *)

\* From the moment prune has read the floor until it deletes, the floor is a
\* safe push cursor for every peer it accounts for.
FloorInv ==
    \A d \in Device : prune_pc[d] = "delete" =>
        \A p \in floor_peers[d] :
            /\ pushed_floor[d] # NoFloor
            /\ Stored(RowsOf(entries[d], d), sqlite_sequence[d], seen[p],
                      pushed_floor[d])

LEMMA FloorFrame ==
    ASSUME TypeInv, TypeInv', StoresGrow, FloorInv, NEW d \in Device,
           prune_pc'[d] = "delete" => /\ prune_pc[d] = "delete"
                                      /\ pushed_floor'[d] = pushed_floor[d]
                                      /\ floor_peers'[d] = floor_peers[d]
    PROVE  prune_pc'[d] = "delete" =>
             \A p \in floor_peers'[d] :
               /\ pushed_floor'[d] # NoFloor
               /\ Stored(RowsOf(entries'[d], d), sqlite_sequence'[d], seen'[p],
                         pushed_floor'[d])
<1> SUFFICES ASSUME prune_pc'[d] = "delete", NEW p \in floor_peers[d]
             PROVE  /\ pushed_floor[d] # NoFloor
                    /\ Stored(RowsOf(entries'[d], d), sqlite_sequence'[d],
                              seen'[p], pushed_floor[d])
    OBVIOUS
<1>1. /\ p \in Device /\ pushed_floor[d] \in Nat
      /\ sqlite_sequence[d] \in Nat /\ sqlite_sequence'[d] \in Nat
      /\ RowsOf(entries'[d], d) \in SUBSET Row
    BY DEF TypeInv, TypeOK, RowsOf
<1>2. /\ pushed_floor[d] # NoFloor
      /\ Stored(RowsOf(entries[d], d), sqlite_sequence[d], seen[p],
                pushed_floor[d])
    BY DEF FloorInv
<1>3. /\ seen[p] \subseteq seen'[p]
      /\ LaterTable(RowsOf(entries[d], d), sqlite_sequence[d],
                    RowsOf(entries'[d], d), sqlite_sequence'[d])
    BY <1>1, LaterOwnRows DEF StoresGrow
<1>4. QED
    BY <1>1, <1>2, <1>3, StoredLater

\* The floor prune reads is not above the push cursor of any peer it counts.
LEMMA FloorRead ==
    ASSUME SafeInv, NEW d \in Device, PrunePushedFloor(d), NEW p \in floor_peers'[d]
    PROVE  /\ pushed_floor'[d] # NoFloor
           /\ Stored(RowsOf(entries'[d], d), sqlite_sequence'[d], seen'[p],
                     pushed_floor'[d])
<1> DEFINE floor == prune_pushed_floor_seq(peer_push_state[d])
           own == RowsOf(entries[d], d)
<1>1. /\ pushed_floor'[d] = floor
      /\ p \in Device /\ peer_push_state[d][p] # 0
      /\ UNCHANGED storeVars
    BY DEF PrunePushedFloor, SafeInv, TypeInv, TypeOK
<1>2. /\ peer_push_state[d] \in [Device -> Nat]
      /\ sqlite_sequence[d] \in Nat
      /\ own \in SUBSET Row
    BY DEF SafeInv, TypeInv, TypeOK, RowsOf
<1>3. floor \in Nat /\ floor # NoFloor /\ floor <= peer_push_state[d][p]
    BY <1>1, <1>2, PushedFloor
<1>4. Stored(own, sqlite_sequence[d], seen[p], peer_push_state[d][p])
    BY <1>1 DEF SafeInv, CursorInv
<1> HIDE DEF floor, own
<1>5. /\ peer_push_state[d][p] \in Nat
      /\ \A r \in own : r.ingest_seq \in Nat
    BY <1>1, <1>2 DEF Row
<1>6. Stored(own, sqlite_sequence[d], seen[p], floor)
    BY <1>2, <1>3, <1>4, <1>5 DEF Stored
<1>7. QED
    BY <1>1, <1>3, <1>6 DEF storeVars, own

LEMMA FloorNext ==
    ASSUME SafeInv, TypeInv', FloorInv, [Next]_vars
    PROVE  FloorInv'
<1>0. TypeInv /\ StoresGrow /\ PruneType
    BY StoreNext, TypeGroups DEF SafeInv, TypeInv
<1>1. SUFFICES ASSUME NEW d \in Device
               PROVE  prune_pc'[d] = "delete" =>
                        \A p \in floor_peers'[d] :
                          /\ pushed_floor'[d] # NoFloor
                          /\ Stored(RowsOf(entries'[d], d), sqlite_sequence'[d],
                                    seen'[p], pushed_floor'[d])
    BY DEF FloorInv
<1> DEFINE Same == prune_pc'[d] = "delete" =>
                     /\ prune_pc[d] = "delete"
                     /\ pushed_floor'[d] = pushed_floor[d]
                     /\ floor_peers'[d] = floor_peers[d]
<1>2. ASSUME UNCHANGED pruneVars PROVE Same
    BY <1>2 DEF pruneVars
<1>3. ASSUME NEW x \in Device, PruneKeepFloor(x) \/ PruneDelete(x) PROVE Same
    BY <1>0, <1>3 DEF PruneKeepFloor, PruneDelete, PruneType
<1>4. ASSUME NEW x \in Device, x # d, PrunePushedFloor(x) PROVE Same
    BY <1>0, <1>4 DEF PrunePushedFloor, PruneType
<1>5. ASSUME NEW c \in Client, \/ PullDone(c) \/ PullInsert(c) \/ SaveCursor(c)
                               \/ PushBegin(c) \/ PushDone(c) \/ PushSend(c)
                               \/ PushTooLarge(c) \/ PushAcked(c)
                               \/ SavePushed(c) \/ SkipResponse(c)
      PROVE  Same
    BY <1>2, <1>5 DEF PullDone, PullInsert, SaveCursor, PushBegin, PushDone,
                      PushSend, PushTooLarge, PushAcked, SavePushed, SkipResponse
<1>6. ASSUME NEW c \in Client, \/ RetryPull(c) \/ RetryPush(c) \/ GiveUp(c)
                               \/ Abort(c) \/ Crash(c)
      PROVE  Same
    BY <1>2, <1>6 DEF RetryPull, RetryPush, GiveUp, Abort, Crash
<1>7. ASSUME NEW m, ServePull(m) \/ ServePush(m) \/ ServePushError(m) \/ Lose(m)
      PROVE  Same
    BY <1>2, <1>7 DEF ServePull, ServePush, ServePushError, Lose
<1>8. ASSUME NEW a, NEW b, Record(a, b) \/ StartSync(a, b) PROVE Same
    BY <1>2, <1>8 DEF Record, StartSync
<1>9. ASSUME UNCHANGED vars PROVE Same
    BY <1>2, <1>9 DEF vars
<1>10. Same \/ PrunePushedFloor(d)
    BY <1>3, <1>4, <1>5, <1>6, <1>7, <1>8, <1>9
       DEF Next, ClientStep, ServerStep, PruneStep
<1>11. CASE Same
    BY <1>0, <1>11, FloorFrame
<1>12. CASE PrunePushedFloor(d)
    BY <1>12, FloorRead
<1>13. QED
    BY <1>10, <1>11, <1>12

\* The action property, one step at a time.
LEMMA PruneStepSpares ==
    ASSUME SafeInv, FloorInv, [Next]_vars
    PROVE  \A d \in Device : \A r \in RowsOf(entries[d], d) \ entries'[d] :
             \A p \in floor_peers[d] : r.entry_id \in seen[p]
<1> SUFFICES ASSUME NEW d \in Device, NEW r \in RowsOf(entries[d], d),
                    r \notin entries'[d], NEW p \in floor_peers[d]
             PROVE  r.entry_id \in seen[p]
    OBVIOUS
<1>1. r \in entries[d] /\ entries \in [Device -> SUBSET Row]
    BY DEF RowsOf, SafeInv, TypeInv, TypeOK
<1>2. PruneDelete(d)
    <2>1. ASSUME NEW x \in Device, NEW B, Insert(x, B) PROVE FALSE
        BY <1>1, <2>1 DEF Insert, insert_entries
    <2>2. host \in [Client -> Device] /\ \A m \in entries_push : m.peer \in Device
        BY ClientAssumption DEF SafeInv, TypeInv, TypeOK, EntriesPush
    <2>3. ~ UNCHANGED storeVars
        BY <1>1 DEF storeVars
    <2>4. \E x \in Device : PruneDelete(x)
        BY <2>1, <2>2, <2>3, StoreCases DEF Record, PullInsert, ServePush
    <2>5. PICK x \in Device : PruneDelete(x)
        BY <2>4
    <2>6. x = d
        BY <1>1, <2>5 DEF PruneDelete
    <2>7. QED
        BY <2>5, <2>6
<1>3. r.ingest_seq <= pushed_floor[d] \/ pushed_floor[d] = NoFloor
    BY <1>1, <1>2 DEF PruneDelete, PruneCandidates
<1>4. /\ pushed_floor[d] # NoFloor
      /\ Stored(RowsOf(entries[d], d), sqlite_sequence[d], seen[p],
                pushed_floor[d])
    BY <1>2 DEF FloorInv, PruneDelete
<1>5. QED
    BY <1>3, <1>4 DEF Stored

\* Prune spares every own entry that a peer known to it has not stored, even
\* though push cursors move, back too, between its statements.
THEOREM PruneSafe == Spec => PruneRespectsPushFloor
<1> DEFINE Spares == \A d \in Device : \A r \in RowsOf(entries[d], d) \ entries'[d] :
                       \A p \in floor_peers[d] : r.entry_id \in seen[p]
<1>1. Init => FloorInv
    BY DEF Init, FloorInv
<1>2. SafeInv /\ FloorInv /\ [Next]_vars => FloorInv'
    BY SafeNext, FloorNext DEF SafeInv
<1>3. SafeInv /\ FloorInv /\ [Next]_vars => [Spares]_vars
    BY PruneStepSpares
<1>4. QED
    BY SafeInit, SafeNext, <1>1, <1>2, <1>3, PTL DEF Spec, PruneRespectsPushFloor

-----------------------------------------------------------------------------
(* The refinement of Replication.                                          *)

\* Everything of batch B has been on one device.
Held(B) == \E p \in Device : Ids(B) \subseteq seen[p]

\* Nothing comes from nowhere: what is in a table, in a batch or was ever seen
\* has been on the device that recorded it or on the one it was read from.
OriginInv ==
    /\ \A d \in Device : Ids(entries[d]) \subseteq seen[d]
    /\ \A d \in Device : \A e \in seen[d] : e \in seen[device_id[e]]
    /\ \A c \in Client : Held(batch[c])
    /\ \A m \in sync_batch \cup entries_push : Held(m.entries)

LEMMA InsertSeen ==
    ASSUME TypeInv, NEW d \in Device, NEW B, Insert(d, B), Batch(B)
    PROVE  /\ seen' = [seen EXCEPT ![d] = @ \cup Ids(B)]
           /\ entries \in [Device -> SUBSET Row]
           /\ \A x \in Device : seen[x] \subseteq seen'[x]
           /\ \A x \in Device : Ids(entries'[x]) = IF x = d
                                                   THEN Ids(entries[d]) \cup Ids(B)
                                                   ELSE Ids(entries[x])
<1>1. /\ entries \in [Device -> SUBSET Row]
      /\ seen \in [Device -> SUBSET Entry]
      /\ sqlite_sequence[d] \in Nat
    BY DEF TypeInv, TypeOK
<1>2. /\ entries' = [entries EXCEPT
                       ![d] = insert_entries(entries[d], sqlite_sequence[d], B)]
      /\ seen' = [seen EXCEPT ![d] = @ \cup Ids(B)]
    BY DEF Insert
<1>3. Ids(insert_entries(entries[d], sqlite_sequence[d], B))
          = Ids(entries[d]) \cup Ids(B)
    BY <1>1, InsertIds
<1>4. \A x \in Device : entries'[x] = IF x = d
            THEN insert_entries(entries[d], sqlite_sequence[d], B)
            ELSE entries[x]
    BY <1>1, <1>2
<1>5. QED
    BY <1>1, <1>2, <1>3, <1>4

\* The batch a step inserts, if it inserts one that was received.
LEMMA ReceivedHeld ==
    ASSUME TypeInv, OriginInv
    PROVE  /\ \A c \in Client : PullInsert(c) =>
                /\ host[c] \in Device
                /\ \E B : Batch(B) /\ Held(B) /\ Insert(host[c], B)
           /\ \A m \in entries_push : ServePush(m) =>
                /\ m.peer \in Device
                /\ \E B : Batch(B) /\ Held(B) /\ Insert(m.peer, B)
<1>1. \A m \in sync_batch \cup entries_push : Batch(m.entries) /\ Held(m.entries)
    BY DEF TypeInv, TypeOK, BatchInv, SyncBatch, EntriesPush, Batch, OriginInv
<1>2. (\A c \in Client : host[c] \in Device) /\ \A m \in entries_push : m.peer \in Device
    BY ClientAssumption DEF TypeInv, TypeOK, EntriesPush
<1>3. QED
    BY <1>1, <1>2 DEF PullInsert, ServePush

LEMMA RecordIds == \A e : Ids({[ingest_seq |-> 1, entry_id |-> e]}) = {e}
BY DEF Ids

LEMMA OriginNext == TypeInv /\ OriginInv /\ [Next]_vars => OriginInv'
<1> SUFFICES ASSUME TypeInv, OriginInv, [Next]_vars PROVE OriginInv'
    OBVIOUS
<1>0. /\ entries \in [Device -> SUBSET Row] /\ seen \in [Device -> SUBSET Entry]
      /\ device_id \in [Entry -> Device]
    BY EntryAssumption DEF TypeInv, TypeOK
<1> DEFINE Goal == /\ \A d \in Device : Ids(entries'[d]) \subseteq seen'[d]
                   /\ \A d \in Device : \A e \in seen'[d] : e \in seen'[device_id[e]]
<1>1. ASSUME NEW d \in Device, NEW B, Batch(B), Insert(d, B),
             \A e \in Ids(B) : device_id[e] = d \/ e \in seen[device_id[e]]
      PROVE  Goal
    <2>1. /\ seen' = [seen EXCEPT ![d] = @ \cup Ids(B)]
          /\ \A x \in Device : seen[x] \subseteq seen'[x]
          /\ \A x \in Device : Ids(entries'[x]) = IF x = d
                                                  THEN Ids(entries[d]) \cup Ids(B)
                                                  ELSE Ids(entries[x])
        BY <1>1, InsertSeen
    <2>2. seen'[d] = seen[d] \cup Ids(B) /\ \A x \in Device : x # d => seen'[x] = seen[x]
        BY <1>0, <2>1
    <2>3. \A x \in Device : Ids(entries'[x]) \subseteq seen'[x]
        BY <2>1, <2>2 DEF OriginInv
    <2>4. ASSUME NEW x \in Device, NEW e \in seen'[x]
          PROVE  e \in seen'[device_id[e]]
        <3>1. e \in Entry /\ device_id[e] \in Device
            BY <1>0, <1>1, <2>2, <2>4 DEF Ids, Batch, Row
        <3>2. CASE e \in seen[x]
            BY <2>1, <3>1, <3>2 DEF OriginInv
        <3>3. CASE e \in Ids(B)
            BY <1>1, <2>1, <2>2, <3>1, <3>3
        <3>4. QED
            BY <2>2, <2>4, <3>2, <3>3
    <2>5. QED
        BY <2>3, <2>4
<1>2. ASSUME NEW B, Batch(B), Held(B)
      PROVE  \A e \in Ids(B) : e \in seen[device_id[e]]
    BY <1>2 DEF Held, OriginInv
<1>3. ASSUME NEW d \in Device, NEW e \in Entry, Record(d, e) PROVE Goal
    BY <1>1, <1>3, RecordedBatch, RecordIds DEF Record
<1>4. ASSUME NEW d \in Device, PruneDelete(d) PROVE Goal
    <2>1. seen' = seen /\ \A x \in Device : entries'[x] \subseteq entries[x]
        BY <1>0, <1>4 DEF PruneDelete
    <2>2. QED
        BY <2>1 DEF OriginInv, Ids
<1>5. ASSUME UNCHANGED storeVars PROVE Goal
    BY <1>5 DEF OriginInv, storeVars
<1>6. Goal
    BY <1>1, <1>2, <1>3, <1>4, <1>5, ReceivedHeld, StoreCases
<1>7. \A d \in Device : seen[d] \subseteq seen'[d]
    BY StoreNext DEF StoresGrow
<1>8. ASSUME NEW B, Held(B) PROVE Held(B)'
    BY <1>7, <1>8 DEF Held
<1>9. /\ \A r \in sync_pull : Held(PullRows(r))
      /\ \A c \in Client : Held(PushBatch(c))
      /\ \A c \in Client : Held({})
    <2>1. /\ \A r \in sync_pull : r.peer \in Device
          /\ \A c \in Client : host[c] \in Device
        BY ClientAssumption DEF TypeInv, TypeOK, SyncPull
    <2>2. /\ \A r : Ids(PullRows(r)) \subseteq Ids(entries[r.peer])
          /\ \A c : Ids(PushBatch(c)) \subseteq Ids(entries[host[c]])
        BY PullRowsSubset DEF Ids
    <2>3. Ids({}) = {}
        BY DEF Ids
    <2>4. QED
        BY <2>1, <2>2, <2>3 DEF OriginInv, Held
<1>10. \A c \in Client : \E B : Held(B) /\ B = batch'[c]
    BY <1>9, BatchCases DEF BatchOrigin, OriginInv
<1>11. \A m \in sync_batch' \cup entries_push' : \E B : Held(B) /\ B = m.entries
    BY <1>9, BatchCases DEF BatchOrigin, OriginInv
<1>12. QED
    BY <1>6, <1>8, <1>10, <1>11 DEF OriginInv, Held

\* The tables as the abstract specification sees them.
live == [d \in Device |-> Ids(entries[d])]

LEMMA InsertIsStore ==
    ASSUME TypeInv, NEW d \in Device, NEW B, Batch(B), Insert(d, B)
    PROVE  Abstract!Store(d, Ids(B))
<1>1. /\ seen' = [seen EXCEPT ![d] = @ \cup Ids(B)]
      /\ \A x \in Device : Ids(entries'[x]) = IF x = d
                                              THEN Ids(entries[d]) \cup Ids(B)
                                              ELSE Ids(entries[x])
    BY InsertSeen
<1>2. live' = [live EXCEPT ![d] = @ \cup Ids(B)]
    BY <1>1 DEF live
<1>3. QED
    BY <1>1, <1>2 DEF Abstract!Store, live

\* Every step of the protocol is a step of the abstract specification or
\* leaves its variables alone.
LEMMA AbstractStep ==
    ASSUME TypeInv, OriginInv, [Next]_vars
    PROVE  [Abstract!Next]_(Abstract!vars)
<1>0. /\ entries \in [Device -> SUBSET Row] /\ seen \in [Device -> SUBSET Entry]
      /\ device_id \in [Entry -> Device]
    BY EntryAssumption DEF TypeInv, TypeOK
<1>1. CASE UNCHANGED storeVars
    BY <1>1 DEF storeVars, Abstract!vars
<1>2. ASSUME NEW d \in Device, NEW e \in Entry, Record(d, e)
      PROVE  Abstract!Next
    <2>1. Abstract!Store(d, {e})
        BY <1>2, RecordedBatch, RecordIds, InsertIsStore DEF Record
    <2>2. device_id[e] = d /\ \A x \in Device : e \notin seen[x]
        BY <1>2 DEF Record, OriginInv
    <2>3. Abstract!Record(d, e)
        BY <2>1, <2>2 DEF Abstract!Record
    <2>4. QED
        BY <2>3 DEF Abstract!Next
<1>3. ASSUME NEW d \in Device, NEW B, Batch(B), Held(B), Insert(d, B)
      PROVE  Abstract!Next
    <2>1. PICK p \in Device : Ids(B) \subseteq seen[p]
        BY <1>3 DEF Held
    <2>2. Abstract!Copy(d, p, Ids(B))
        BY <1>3, <2>1, InsertIsStore DEF Abstract!Copy
    <2>3. QED
        BY <2>1, <2>2 DEF Abstract!Next
<1>4. ASSUME NEW d \in Device, PruneDelete(d)
      PROVE  Abstract!Next
    <2>1. PICK K \in SUBSET entries[d] : entries' = [entries EXCEPT ![d] = K]
        BY <1>0, <1>4 DEF PruneDelete
    <2> DEFINE S == Ids(entries[d]) \ Ids(K)
    <2>2. Ids(K) = Ids(entries[d]) \ S
        BY DEF Ids
    <2>3. live' = [live EXCEPT ![d] = @ \ S]
        BY <1>0, <2>1, <2>2 DEF live
    <2>4. seen' = seen
        BY <1>4 DEF PruneDelete
    <2>5. Abstract!Prune(d, S)
        BY <2>3, <2>4 DEF Abstract!Prune, live
    <2>6. S \in SUBSET live[d]
        BY DEF live
    <2>7. QED
        BY <2>5, <2>6 DEF Abstract!Next, live
<1>5. QED
    BY <1>1, <1>2, <1>3, <1>4, ReceivedHeld, StoreCases

\* The protocol, with its cursors, batches, retries and failures, implements
\* Replication: recording, copying from a device that held the entries, and
\* local pruning are all it ever does to the stores.
THEOREM Refinement == Spec => ImplementsReplication
<1>1. Init => OriginInv
    BY ClientAssumption DEF Init, OriginInv, Held, Ids
<1>2. Init => Abstract!Init
    BY DEF Init, Abstract!Init, Ids
<1>3. QED
    BY TypeInit, TypeNext, <1>1, OriginNext, <1>2, AbstractStep, PTL
       DEF Spec, ImplementsReplication, Abstract!Spec

-----------------------------------------------------------------------------
(* One sync process per device.                                            *)

OneProcess == \A c, x \in Client : host[c] = host[x] => c = x

\* The cursor client c works with is the saved one, and the one it is about
\* to save is larger.
InStep(c) ==
    /\ pc[c] \in {"pull_wait", "pull_save"} =>
         cursor[c] = peer_state[host[c]][target[c]]
    /\ pc[c] = "pull_save" => next_cursor[c] > cursor[c]
    /\ pc[c] \in {"push_read", "push_wait", "push_save"} =>
         cursor[c] = peer_push_state[host[c]][target[c]]

\* The cursors of device d stay.
SameCursors(d) == /\ peer_state'[d] = peer_state[d]
                  /\ peer_push_state'[d] = peer_push_state[d]

\* Only the clients of a device write its cursors.
LEMMA CursorCases ==
    ASSUME TypeInv, [Next]_vars, NEW d \in Device
    PROVE  \/ SameCursors(d)
           \/ \E c \in Client : host[c] = d /\ SaveCursor(c)
           \/ \E c \in Client : /\ host[c] = d /\ SavePushed(c)
                                /\ ~ (next_cursor[c] <= cursor[c])
<1>0. CursorType /\ host \in [Client -> Device]
    BY TypeGroups, ClientAssumption DEF TypeInv
<1>1. ASSUME UNCHANGED cursorVars PROVE SameCursors(d)
    BY <1>1 DEF cursorVars, SameCursors
<1>2. ASSUME NEW c \in Client, SaveCursor(c), host[c] # d
      PROVE  SameCursors(d)
    BY <1>0, <1>2 DEF SaveCursor, set_last_cursor, SameCursors, CursorType
<1>3. ASSUME NEW c \in Client, SavePushed(c),
             host[c] # d \/ next_cursor[c] <= cursor[c]
      PROVE  SameCursors(d)
    BY <1>0, <1>3 DEF SavePushed, set_last_pushed_seq, SameCursors, CursorType
<1>4. ASSUME NEW c \in Client, \/ PullDone(c) \/ PullInsert(c) \/ PushBegin(c)
                               \/ PushDone(c) \/ PushSend(c) \/ PushTooLarge(c)
                               \/ PushAcked(c) \/ SkipResponse(c)
      PROVE  UNCHANGED cursorVars
    BY <1>4 DEF PullDone, PullInsert, PushBegin, PushDone, PushSend,
                PushTooLarge, PushAcked, SkipResponse
<1>5. ASSUME NEW c \in Client, \/ RetryPull(c) \/ RetryPush(c) \/ GiveUp(c)
                               \/ Abort(c) \/ Crash(c)
      PROVE  UNCHANGED cursorVars
    BY <1>5 DEF RetryPull, RetryPush, GiveUp, Abort, Crash
<1>6. ASSUME NEW m, ServePull(m) \/ ServePush(m) \/ ServePushError(m) \/ Lose(m)
      PROVE  UNCHANGED cursorVars
    BY <1>6 DEF ServePull, ServePush, ServePushError, Lose
<1>7. ASSUME NEW a, NEW b, Record(a, b) \/ StartSync(a, b) \/ PruneStep(a)
      PROVE  UNCHANGED cursorVars
    BY <1>7 DEF Record, StartSync, PruneStep, PruneKeepFloor, PrunePushedFloor,
                PruneDelete
<1>8. ASSUME UNCHANGED vars PROVE UNCHANGED cursorVars
    BY <1>8 DEF vars
<1>9. QED
    BY <1>1, <1>2, <1>3, <1>4, <1>5, <1>6, <1>7, <1>8
       DEF Next, ClientStep, ServerStep

LEMMA SaveInStep ==
    ASSUME TypeInv, NEW c \in Client, InStep(c), SaveCursor(c)
    PROVE  /\ InStep(c)'
           /\ \A p \in Device :
                /\ peer_state[host[c]][p] <= peer_state'[host[c]][p]
                /\ peer_push_state'[host[c]][p] = peer_push_state[host[c]][p]
<1>0. /\ CursorType /\ ClientType /\ host[c] \in Device /\ target[c] \in Device
      /\ cursor[c] \in Nat /\ next_cursor[c] \in Nat
    BY TypeGroups, StoreFacts DEF TypeInv
<1>1. /\ pc[c] = "pull_save" /\ pc'[c] = "pull_wait"
      /\ target'[c] = target[c] /\ cursor'[c] = next_cursor[c]
      /\ peer_push_state' = peer_push_state
    BY <1>0 DEF SaveCursor, ClientType
<1>2. \A p \in Device : peer_state'[host[c]][p] =
         IF p = target[c] THEN next_cursor[c] ELSE peer_state[host[c]][p]
    BY <1>0 DEF SaveCursor, set_last_cursor, CursorType
<1>3. /\ cursor[c] = peer_state[host[c]][target[c]]
      /\ next_cursor[c] > cursor[c]
    BY <1>1 DEF InStep
<1>4. InStep(c)'
    BY <1>0, <1>1, <1>2 DEF InStep
<1>5. \A p \in Device : peer_state[host[c]][p] \in Nat
    BY <1>0 DEF CursorType
<1>6. QED
    BY <1>0, <1>1, <1>2, <1>3, <1>4, <1>5

LEMMA PushedInStep ==
    ASSUME TypeInv, NEW c \in Client, InStep(c), SavePushed(c),
           ~ (next_cursor[c] <= cursor[c])
    PROVE  /\ InStep(c)'
           /\ \A p \in Device :
                /\ peer_state'[host[c]][p] = peer_state[host[c]][p]
                /\ peer_push_state[host[c]][p] <= peer_push_state'[host[c]][p]
<1>0. /\ CursorType /\ ClientType /\ host[c] \in Device /\ target[c] \in Device
      /\ cursor[c] \in Nat /\ next_cursor[c] \in Nat
    BY TypeGroups, StoreFacts DEF TypeInv
<1>1. /\ pc[c] = "push_save" /\ pc'[c] = "push_read"
      /\ target'[c] = target[c] /\ cursor'[c] = next_cursor[c]
      /\ peer_state' = peer_state
    BY <1>0 DEF SavePushed, ClientType
<1>2. \A p \in Device : peer_push_state'[host[c]][p] =
         IF p = target[c] THEN next_cursor[c] ELSE peer_push_state[host[c]][p]
    BY <1>0 DEF SavePushed, set_last_pushed_seq, CursorType
<1>3. cursor[c] = peer_push_state[host[c]][target[c]]
    BY <1>1 DEF InStep
<1>4. InStep(c)'
    BY <1>0, <1>1, <1>2 DEF InStep
<1>5. \A p \in Device : peer_push_state[host[c]][p] \in Nat
    BY <1>0 DEF CursorType
<1>6. QED
    BY <1>0, <1>1, <1>2, <1>3, <1>4, <1>5

\* Any other step leaves the cursors of the device of c alone, or fails.
LEMMA OtherInStep ==
    ASSUME TypeInv, [Next]_vars, NEW c \in Client, InStep(c),
           SameCursors(host[c])
    PROVE  InStep(c)'
<1>0. ClientType /\ host[c] \in Device /\ target[c] \in Device
    BY TypeGroups, StoreFacts DEF TypeInv
<1>1. CASE SameLocal(c)
    BY <1>1 DEF SameLocal, SameCursors, InStep
<1>2. CASE pc'[c] \in {"idle", "push_begin"}
    BY <1>2 DEF InStep
<1>3. ASSUME NEW p \in Device, StartSync(c, p)
      PROVE  InStep(c)'
    <2>1. /\ pc'[c] = "pull_wait" /\ target'[c] = p
          /\ cursor'[c] = peer_state[host[c]][p]
        BY <1>0, <1>3 DEF StartSync, get_last_cursor, ClientType
    <2>2. QED
        BY <2>1 DEF InStep, SameCursors
<1>4. CASE PullInsert(c) /\ ~ EndPull(c)
    <2>1. PICK m \in sync_batch :
             /\ ~ (m.next_cursor <= cursor[c])
             /\ pc' = [pc EXCEPT ![c] = "pull_save"]
             /\ next_cursor' = [next_cursor EXCEPT ![c] = m.next_cursor]
             /\ UNCHANGED <<target, cursor>>
        BY <1>4 DEF PullInsert
    <2>2. m.next_cursor \in Nat /\ cursor[c] \in Nat
        BY <1>0 DEF TypeInv, TypeOK, SyncBatch, ClientType
    <2>3. /\ pc[c] = "pull_wait" /\ pc'[c] = "pull_save"
          /\ target'[c] = target[c] /\ cursor'[c] = cursor[c]
          /\ next_cursor'[c] = m.next_cursor
        BY <1>0, <1>4, <2>1 DEF PullInsert, ClientType
    <2>4. QED
        BY <2>1, <2>2, <2>3 DEF InStep, SameCursors
<1>5. CASE SaveCursor(c)
    BY <1>5, SaveInStep
<1>6. CASE PushBegin(c)
    <2>1. /\ pc'[c] = "push_read" /\ target'[c] = target[c]
          /\ cursor'[c] = peer_push_state[host[c]][target[c]]
        BY <1>0, <1>6 DEF PushBegin, get_last_pushed_seq, ClientType
    <2>2. QED
        BY <2>1 DEF InStep, SameCursors
<1>7. CASE PushSend(c) \/ (PushAcked(c) /\ ~ EndSync(c))
    <2>1. /\ pc[c] \in {"push_read", "push_wait"}
          /\ pc'[c] \in {"push_wait", "push_save"}
          /\ target'[c] = target[c] /\ cursor'[c] = cursor[c]
        BY <1>0, <1>7 DEF PushSend, PushAcked, ClientType
    <2>2. QED
        BY <2>1 DEF InStep, SameCursors
<1>8. CASE SavePushed(c) /\ ~ EndSync(c)
    BY <1>8, PushedInStep DEF SavePushed
<1>9. QED
    BY <1>1, <1>2, <1>3, <1>4, <1>5, <1>6, <1>7, <1>8, LocalCases

LEMMA InStepNext ==
    ASSUME OneProcess, TypeInv, [Next]_vars, \A c \in Client : InStep(c)
    PROVE  /\ \A c \in Client : InStep(c)'
           /\ \A d, p \in Device :
                /\ peer_state[d][p] <= peer_state'[d][p]
                /\ peer_push_state[d][p] <= peer_push_state'[d][p]
<1>1. ASSUME NEW c \in Client
      PROVE  InStep(c)'
    <2>1. \A x \in Client : host[x] = host[c] => x = c
        BY DEF OneProcess
    <2>2. host[c] \in Device
        BY ClientAssumption
    <2>3. \/ SameCursors(host[c])
          \/ SaveCursor(c)
          \/ SavePushed(c) /\ ~ (next_cursor[c] <= cursor[c])
        BY <2>1, <2>2, CursorCases
    <2>4. QED
        BY <2>3, OtherInStep, SaveInStep, PushedInStep
<1>2. ASSUME NEW d \in Device, NEW p \in Device
      PROVE  /\ peer_state[d][p] <= peer_state'[d][p]
             /\ peer_push_state[d][p] <= peer_push_state'[d][p]
    <2>1. peer_state[d][p] \in Nat /\ peer_push_state[d][p] \in Nat
        BY StoreFacts
    <2>2. CASE SameCursors(d)
        BY <2>1, <2>2 DEF SameCursors
    <2>3. ASSUME NEW c \in Client, host[c] = d, SaveCursor(c)
          PROVE  /\ peer_state[d][p] <= peer_state'[d][p]
                 /\ peer_push_state[d][p] <= peer_push_state'[d][p]
        BY <2>1, <2>3, SaveInStep
    <2>4. ASSUME NEW c \in Client, host[c] = d, SavePushed(c),
                 ~ (next_cursor[c] <= cursor[c])
          PROVE  /\ peer_state[d][p] <= peer_state'[d][p]
                 /\ peer_push_state[d][p] <= peer_push_state'[d][p]
        BY <2>1, <2>4, PushedInStep
    <2>5. QED
        BY <2>2, <2>3, <2>4, CursorCases
<1>3. QED
    BY <1>1, <1>2

\* With one sync process per device no saved cursor moves back, although it
\* is overwritten without a look at the old one: the process began with the
\* saved cursor and nobody else saves. PeerSync_prune shows it for one client.
THEOREM CursorsAdvance ==
    ASSUME OneProcess
    PROVE  Spec => CursorsNeverRegress
<1> DEFINE Inv == TypeInv /\ \A c \in Client : InStep(c)
           Forward == \A d, p \in Device :
                        /\ peer_state[d][p] <= peer_state'[d][p]
                        /\ peer_push_state[d][p] <= peer_push_state'[d][p]
<1>1. Init => Inv
    BY TypeInit DEF Init, InStep
<1>2. Inv /\ [Next]_vars => Inv'
    BY TypeNext, InStepNext
<1>3. Inv /\ [Next]_vars => [Forward]_vars
    BY InStepNext
<1>4. QED
    BY <1>1, <1>2, <1>3, PTL DEF Spec, CursorsNeverRegress

-----------------------------------------------------------------------------
(* Echoes, when nothing goes wrong and nothing is pruned.                  *)

\* No device prunes, every push was stored, and a device has stored a finite
\* number of entries.
NoMishap ==
    /\ \A d \in Device : prune_pc[d] = "idle" /\ IsFiniteSet(seen[d])
    /\ \A a \in push_ack : a.ok

\* Client c works on a target of its own, and pushes only if it was told to.
Aim(c) ==
    /\ pc[c] # "idle" => target[c] \in targets[c]
    /\ pc[c] \in {"push_begin", "push_read", "push_wait", "push_save"}
         => c \in PushClient

\* An answer brings rows the peer holds, numbered after the cursor and not
\* after the next one.
PullFresh(c) ==
    pc[c] = "pull_wait" =>
        \A m \in sync_batch : Answer(c, m) =>
            \A r \in m.entries : /\ r \in entries[target[c]]
                                 /\ r.ingest_seq > cursor[c]
                                 /\ r.ingest_seq <= m.next_cursor

\* And so does a batch that is being pushed, of the own rows.
PushFresh(c) ==
    pc[c] \in {"push_wait", "push_save"} =>
        /\ next_cursor[c] > cursor[c]
        /\ \A r \in batch[c] : /\ r \in RowsOf(entries[host[c]], host[c])
                               /\ r.ingest_seq > cursor[c]
                               /\ r.ingest_seq <= next_cursor[c]

\* A push of client c under way is the one it waits for, and not answered.
OnePush(c) ==
    \A m \in entries_push : m.client = c =>
        /\ pc[c] = "push_wait"
        /\ Answer(c, m)
        /\ \A a \in push_ack : ~ Answer(c, a)

\* What holds besides while nothing fails and nothing is deleted.
CalmInv ==
    /\ SafeInv
    /\ NoMishap
    /\ \A c \in Client : /\ InStep(c) /\ Aim(c) /\ OnePush(c)
                         /\ PullFresh(c) /\ PushFresh(c)

\* What the theorem assumes of the bounds and the processes.
Calm == OneProcess /\ MaxFaults = 0 /\ MaxPrunes = 0

\* Without a budget for faults none happens.
LEMMA NeverFault ==
    ASSUME MaxFaults = 0, TypeInv
    PROVE  ~ Fault
BY DEF Fault, TypeInv, TypeOK

\* Client c is where it was, got no new mail and kept the ack it waits for.
Still(c) ==
    /\ SameLocal(c)
    /\ request_id'[c] = request_id[c]
    /\ LessMail(c)
    /\ pc[c] = "push_wait" =>
         \A a \in push_ack : Answer(c, a) => a \in push_ack'

\* A step without a fault as client c sees it.
LEMMA CalmCases ==
    ASSUME MaxFaults = 0, TypeInv, [Next]_vars, NEW c \in Client
    PROVE  \/ Still(c)
           \/ \E m \in sync_pull : m.client = c /\ ServePull(m)
           \/ \E m \in entries_push : m.client = c /\ ServePush(m)
           \/ \E p \in Device : StartSync(c, p)
           \/ ClientStep(c)
<1> DEFINE Goal == \/ Still(c)
                   \/ \E m \in sync_pull : m.client = c /\ ServePull(m)
                   \/ \E m \in entries_push : m.client = c /\ ServePush(m)
                   \/ \E p \in Device : StartSync(c, p)
                   \/ ClientStep(c)
<1>0. ClientType /\ ~ Fault
    BY TypeGroups, NeverFault DEF TypeInv
<1>1. ASSUME SameLocal(c), request_id'[c] = request_id[c], LessMail(c),
             \A a \in push_ack : a.client = c => a \in push_ack'
      PROVE  Goal
    BY <1>1 DEF Still, Answer
<1>2. ASSUME NEW x \in Client, x # c, EndPull(x) \/ EndSync(x) \/ FailPhase(x),
             request_id' = request_id, LessMail(c),
             \A a \in push_ack : a.client = c => a \in push_ack'
      PROVE  Goal
    <2>1. \E p \in Device, phase \in {"idle", "push_begin"} :
            EnterPhase(x, phase, p)
        BY <1>0, <1>2, ClientAssumption DEF EndPull, EndSync, FailPhase, ClientType
    <2>2. SameLocal(c)
        BY <1>0, <1>2, <2>1 DEF EnterPhase, ClientType, SameLocal
    <2>3. QED
        BY <1>1, <1>2, <2>2
<1>3. ASSUME NEW x \in Client, x # c, PullDone(x) \/ PushDone(x) \/ GiveUp(x)
      PROVE  Goal
    <2>1. /\ request_id' = request_id
          /\ LessMail(c)
          /\ \A a \in push_ack : a.client = c => a \in push_ack'
        BY <1>3 DEF PullDone, PushDone, GiveUp, pullVars, pushVars, LessMail
    <2>2. EndPull(x) \/ EndSync(x) \/ FailPhase(x)
        BY <1>3 DEF PullDone, PushDone, GiveUp
    <2>3. QED
        BY <1>2, <1>3, <2>1, <2>2
<1>4. ASSUME NEW x \in Client, x # c, PullInsert(x) PROVE Goal
    <2>1. /\ request_id' = request_id
          /\ LessMail(c)
          /\ push_ack' = push_ack
        BY <1>4 DEF PullInsert, pushVars, LessMail
    <2>2. CASE EndPull(x)
        BY <1>2, <1>4, <2>1, <2>2
    <2>3. CASE ~ EndPull(x)
        <3>1. SameLocal(c)
            BY <1>0, <1>4, <2>3 DEF PullInsert, ClientType, SameLocal
        <3>2. QED
            BY <1>1, <2>1, <3>1
    <2>4. QED
        BY <2>2, <2>3
<1>5. ASSUME NEW x \in Client, x # c, PushTooLarge(x) PROVE Goal
    <2>1. /\ request_id' = request_id
          /\ LessMail(c)
          /\ push_ack' = push_ack
        BY <1>5 DEF PushTooLarge, pullVars, pushVars, LessMail
    <2>2. CASE EndSync(x)
        BY <1>2, <1>5, <2>1, <2>2
    <2>3. CASE ~ EndSync(x)
        <3>1. SameLocal(c)
            BY <1>5, <2>3 DEF PushTooLarge, SameLocal
        <3>2. QED
            BY <1>1, <2>1, <3>1
    <2>4. QED
        BY <2>2, <2>3
<1>6. ASSUME NEW x \in Client, x # c, PushAcked(x) PROVE Goal
    <2>1. /\ request_id' = request_id
          /\ LessMail(c)
          /\ \A a \in push_ack : a.client = c => a \in push_ack'
        BY <1>6 DEF PushAcked, pullVars, LessMail, Answer
    <2>2. CASE EndSync(x)
        BY <1>2, <1>6, <2>1, <2>2
    <2>3. CASE ~ EndSync(x)
        <3>1. SameLocal(c)
            BY <1>0, <1>6, <2>3 DEF PushAcked, ClientType, SameLocal
        <3>2. QED
            BY <1>1, <2>1, <3>1
    <2>4. QED
        BY <2>2, <2>3
<1>7. ASSUME NEW x \in Client, x # c, SavePushed(x) PROVE Goal
    <2>1. /\ request_id' = request_id
          /\ LessMail(c)
          /\ push_ack' = push_ack
        BY <1>7 DEF SavePushed, pullVars, pushVars, LessMail
    <2>2. CASE EndSync(x)
        BY <1>2, <1>7, <2>1, <2>2
    <2>3. CASE ~ EndSync(x)
        <3>1. SameLocal(c)
            BY <1>0, <1>7, <2>3 DEF SavePushed, ClientType, SameLocal
        <3>2. QED
            BY <1>1, <2>1, <3>1
    <2>4. QED
        BY <2>2, <2>3
<1>8. ASSUME NEW x \in Client, x # c, PushBegin(x) PROVE Goal
    <2>1. /\ request_id' = request_id
          /\ LessMail(c)
          /\ push_ack' = push_ack
        BY <1>8 DEF PushBegin, pullVars, pushVars, LessMail
    <2>2. SameLocal(c)
        BY <1>0, <1>8 DEF PushBegin, ClientType, SameLocal
    <2>3. QED
        BY <1>1, <2>1, <2>2
<1>9. ASSUME NEW x \in Client, x # c, \/ \E p \in Device : StartSync(x, p)
                                      \/ SaveCursor(x) \/ RetryPull(x)
      PROVE  Goal
    <2>1. LessMail(c) /\ push_ack' = push_ack
        BY <1>9 DEF StartSync, SaveCursor, RetryPull, SendPull, pushVars,
                    LessMail
    <2>2. SameLocal(c) /\ request_id'[c] = request_id[c]
        BY <1>0, <1>9 DEF StartSync, SaveCursor, RetryPull, SendPull,
                          ClientType, SameLocal
    <2>3. QED
        BY <1>1, <2>1, <2>2
<1>10. ASSUME NEW x \in Client, x # c, PushSend(x) \/ RetryPush(x) PROVE Goal
    <2>1. LessMail(c) /\ push_ack' = push_ack
        BY <1>10 DEF PushSend, RetryPush, SendPush, pullVars, LessMail
    <2>2. SameLocal(c) /\ request_id'[c] = request_id[c]
        BY <1>0, <1>10 DEF PushSend, RetryPush, SendPush, ClientType, SameLocal
    <2>3. QED
        BY <1>1, <2>1, <2>2
<1>11. ASSUME NEW x \in Client, x # c, SkipResponse(x) PROVE Goal
    <2>1. /\ UNCHANGED clientVars
          /\ LessMail(c)
          /\ \A a \in push_ack : a.client = c => a \in push_ack'
        BY <1>11 DEF SkipResponse, LessMail
    <2>2. QED
        BY <1>1, <2>1 DEF clientVars, SameLocal
<1>12. ASSUME NEW m \in sync_pull, ServePull(m), m.client # c PROVE Goal
    <2>1. LessMail(c) /\ push_ack' = push_ack
        BY <1>12 DEF ServePull, pushVars, LessMail
    <2>2. QED
        BY <1>1, <1>12, <2>1 DEF ServePull, clientVars, SameLocal
<1>13. ASSUME NEW m \in entries_push, ServePush(m), m.client # c PROVE Goal
    <2>1. LessMail(c) /\ push_ack \subseteq push_ack'
        BY <1>13 DEF ServePush, Acknowledge, pullVars, LessMail
    <2>2. QED
        BY <1>1, <1>13, <2>1 DEF ServePush, clientVars, SameLocal
<1>14. ASSUME UNCHANGED clientVars, UNCHANGED pullVars, UNCHANGED pushVars
       PROVE  Goal
    BY <1>1, <1>14 DEF clientVars, pullVars, pushVars, SameLocal, LessMail
<1>15. ASSUME NEW d, NEW e, Record(d, e) \/ PruneStep(d) PROVE Goal
    BY <1>14, <1>15 DEF Record, PruneStep, PruneKeepFloor, PrunePushedFloor,
                        PruneDelete
<1>16. ASSUME NEW x, \/ Abort(x) \/ Crash(x) \/ Lose(x) \/ ServePushError(x)
       PROVE  Goal
    BY <1>0, <1>16 DEF Abort, Crash, Lose, ServePushError
<1>17. CASE UNCHANGED vars
    BY <1>14, <1>17 DEF vars
<1>18. ASSUME NEW x \in Client, ClientStep(x) PROVE Goal
    BY <1>3, <1>4, <1>5, <1>6, <1>7, <1>8, <1>9, <1>10, <1>11, <1>18
       DEF ClientStep
<1>19. QED
    BY <1>9, <1>12, <1>13, <1>15, <1>16, <1>17, <1>18 DEF Next, ServerStep

\* The rows a query returns lie between its cursor and the next one.
LEMMA PullBounds ==
    ASSUME NEW T, NEW last \in Nat, Numbered(T, last), NEW from \in Nat,
           NEW limit \in Nat, NEW r \in pull_since_cursor(T, from, limit)
    PROVE  LET B == pull_since_cursor(T, from, limit)
           IN  /\ r \in T
               /\ r.ingest_seq > from
               /\ r.ingest_seq <= next_cursor_of(B)
               /\ next_cursor_of(B) > from
<1> DEFINE B == pull_since_cursor(T, from, limit)
<1>1. B \in SUBSET T /\ r \in B /\ r.ingest_seq > from
    BY DEF pull_since_cursor, RowsAfter
<1>2. /\ Seqs(B) \in SUBSET Nat
      /\ r.ingest_seq \in Seqs(B)
      /\ \A n \in Seqs(B) : n <= last
    BY <1>1 DEF Seqs, Numbered, Row
<1>3. Max(Seqs(B)) \in Nat /\ r.ingest_seq <= Max(Seqs(B))
    BY <1>2, MaxNat
<1>4. next_cursor_of(B) = Max(Seqs(B))
    BY <1>1 DEF next_cursor_of
<1>5. r.ingest_seq \in Nat
    BY <1>2
<1>6. QED
    BY <1>1, <1>3, <1>4, <1>5

\* Nothing is pruned, so the only steps that touch a store insert a batch.
LEMMA CalmStore ==
    ASSUME MaxPrunes = 0, TypeInv, NoMishap, [Next]_vars
    PROVE  /\ prune_pc' = prune_pc
           /\ \/ UNCHANGED storeVars
              \/ \E d \in Device, e \in Entry : Record(d, e)
              \/ \E c \in Client : PullInsert(c)
              \/ \E m \in entries_push : ServePush(m)
<1>1. \A d \in Device : ~ PruneStep(d)
    BY DEF NoMishap, TypeInv, TypeOK, PruneStep, PruneKeepFloor,
           PrunePushedFloor, PruneDelete
<1>2. \A d \in Device : ~ PruneDelete(d)
    BY <1>1 DEF PruneStep
<1>3. ASSUME NEW c \in Client, \/ \E p \in Device : StartSync(c, p)
                               \/ ClientStep(c) \/ Abort(c) \/ Crash(c)
      PROVE  UNCHANGED pruneVars
    BY <1>3 DEF StartSync, Abort, Crash, ClientStep, PullDone, PullInsert,
                SaveCursor, PushBegin, PushDone, PushSend, PushTooLarge,
                PushAcked, SavePushed, SkipResponse, RetryPull, RetryPush, GiveUp
<1>4. ASSUME NEW x, \/ ServePull(x) \/ ServePush(x) \/ ServePushError(x)
                    \/ Lose(x) \/ \E e \in Entry : Record(x, e)
      PROVE  UNCHANGED pruneVars
    BY <1>4 DEF ServePull, ServePush, ServePushError, Lose, Record
<1>5. ASSUME UNCHANGED vars PROVE UNCHANGED pruneVars
    BY <1>5 DEF vars
<1>6. prune_pc' = prune_pc
    BY <1>1, <1>3, <1>4, <1>5 DEF Next, ServerStep, pruneVars
<1>7. QED
    BY <1>2, <1>6, StoreCases

\* What an insert into device d does to the tables.
LEMMA InsertEffect ==
    ASSUME TypeInv, NEW d \in Device, NEW B, Batch(B), Insert(d, B)
    PROVE  /\ sqlite_sequence'[d] = sqlite_sequence[d] + Cardinality(B)
           /\ \A x \in Device : /\ entries[x] \subseteq entries'[x]
                                /\ x # d => UNCHANGED <<sqlite_sequence[x], seen[x]>>
           /\ seen'[d] = seen[d] \cup Ids(B)
<1>1. Numbered(entries[d], sqlite_sequence[d]) /\ sqlite_sequence[d] \in Nat
    BY DEF TypeInv, TypeOK, StoreInv
<1>2. entries[d] \subseteq insert_entries(entries[d], sqlite_sequence[d], B)
    BY <1>1, InsertNumbered
<1>3. \A x \in Device : entries[x] \subseteq entries'[x]
    BY <1>2 DEF Insert, TypeInv, TypeOK
<1>4. QED
    BY <1>3 DEF Insert, TypeInv, TypeOK, sequence_after_insert, AutoIncrement

LEMMA IdsFinite ==
    ASSUME NEW B, Batch(B)
    PROVE  IsFiniteSet(Ids(B))
<1>1. [b \in B |-> b.entry_id] \in Surjection(B, Ids(B))
    BY DEF Surjection, Ids
<1>2. QED
    BY <1>1, FS_Surjection DEF Batch

\* Tables only grow, and what was ever stored stays finite.
LEMMA CalmGrow ==
    ASSUME MaxPrunes = 0, TypeInv, NoMishap, [Next]_vars
    PROVE  \A d \in Device : /\ entries[d] \subseteq entries'[d]
                             /\ RowsOf(entries[d], d) \subseteq RowsOf(entries'[d], d)
                             /\ seen[d] \subseteq seen'[d]
                             /\ IsFiniteSet(seen'[d])
<1>0. \A d \in Device : IsFiniteSet(seen[d])
    BY DEF NoMishap
<1>1. \/ UNCHANGED storeVars
      \/ \E d \in Device : \E B : Batch(B) /\ Insert(d, B)
    <2>1. ASSUME NEW d \in Device, NEW e \in Entry, Record(d, e)
          PROVE  \E B : Batch(B) /\ Insert(d, B)
        BY <2>1, RecordedBatch DEF Record
    <2>2. ASSUME NEW c \in Client, PullInsert(c)
          PROVE  host[c] \in Device /\ \E B : Batch(B) /\ Insert(host[c], B)
        <3>1. PICK m \in sync_batch : Insert(host[c], m.entries)
            BY <2>2 DEF PullInsert
        <3>2. Batch(m.entries)
            BY DEF TypeInv, TypeOK, BatchInv, SyncBatch, Batch
        <3>3. QED
            BY <3>1, <3>2, ClientAssumption
    <2>3. ASSUME NEW m \in entries_push, ServePush(m)
          PROVE  m.peer \in Device /\ \E B : Batch(B) /\ Insert(m.peer, B)
        <3>1. m.peer \in Device /\ Batch(m.entries)
            BY DEF TypeInv, TypeOK, BatchInv, EntriesPush, Batch
        <3>2. QED
            BY <2>3, <3>1 DEF ServePush
    <2>4. QED
        BY <2>1, <2>2, <2>3, CalmStore
<1>2. ASSUME NEW x \in Device, NEW B, Batch(B), Insert(x, B), NEW d \in Device
      PROVE  /\ entries[d] \subseteq entries'[d]
             /\ seen[d] \subseteq seen'[d]
             /\ IsFiniteSet(seen'[d])
    <2>1. entries[d] \subseteq entries'[d]
        BY <1>2, InsertEffect
    <2>2. CASE d = x
        <3>1. seen'[d] = seen[d] \cup Ids(B)
            BY <1>2, <2>2, InsertEffect
        <3>2. IsFiniteSet(seen[d]) /\ IsFiniteSet(Ids(B))
            BY <1>0, <1>2, IdsFinite
        <3>3. IsFiniteSet(seen[d] \cup Ids(B))
            BY <3>2, FS_Union
        <3>4. QED
            BY <2>1, <3>1, <3>3
    <2>3. CASE d # x
        <3>1. seen'[d] = seen[d]
            BY <1>2, <2>3, InsertEffect
        <3>2. QED
            BY <1>0, <2>1, <3>1
    <2>4. QED
        BY <2>2, <2>3
<1>3. \A d \in Device : /\ entries[d] \subseteq entries'[d]
                        /\ seen[d] \subseteq seen'[d]
                        /\ IsFiniteSet(seen'[d])
    BY <1>0, <1>1, <1>2 DEF storeVars
<1>4. QED
    BY <1>3 DEF RowsOf

\* No push is refused.
LEMMA CalmAcks ==
    ASSUME MaxFaults = 0, TypeInv, NoMishap, [Next]_vars
    PROVE  \A a \in push_ack' : a.ok
<1>0. ~ Fault /\ \A a \in push_ack : a.ok
    BY NeverFault DEF NoMishap
<1>1. ASSUME NEW c \in Client,
             ClientStep(c) \/ \E p \in Device : StartSync(c, p)
      PROVE  push_ack' \subseteq push_ack
    BY <1>1 DEF StartSync, ClientStep, PullDone, PullInsert,
                SaveCursor, PushBegin, PushDone, PushSend, PushTooLarge,
                PushAcked, SavePushed, SkipResponse, RetryPull, RetryPush, GiveUp,
                pushVars
<1>2. ASSUME NEW m, ServePush(m)
      PROVE  \A a \in push_ack' : a.ok
    BY <1>0, <1>2 DEF ServePush, Acknowledge
<1>3. ASSUME NEW x, \/ ServePull(x) \/ PruneStep(x)
                    \/ \E e \in Entry : Record(x, e)
      PROVE  push_ack' \subseteq push_ack
    BY <1>3 DEF ServePull, Record, PruneStep, PruneKeepFloor, PrunePushedFloor,
                PruneDelete, pushVars
<1>4. ASSUME NEW x, Abort(x) \/ Crash(x) \/ Lose(x) \/ ServePushError(x)
      PROVE  FALSE
    BY <1>0, <1>4 DEF Abort, Crash, Lose, ServePushError
<1>5. ASSUME UNCHANGED vars PROVE push_ack' \subseteq push_ack
    BY <1>5 DEF vars, pushVars
<1>6. QED
    BY <1>0, <1>1, <1>2, <1>3, <1>4, <1>5 DEF Next, ServerStep

LEMMA NoMishapNext ==
    ASSUME MaxFaults = 0, MaxPrunes = 0, TypeInv, NoMishap, [Next]_vars
    PROVE  NoMishap'
BY CalmStore, CalmGrow, CalmAcks DEF NoMishap

\* A client that retries or gives up has nothing under way.
LEMMA FailedRequest ==
    ASSUME MaxFaults = 0, TypeInv, NEW c \in Client,
           RetryPull(c) \/ RetryPush(c) \/ GiveUp(c)
    PROVE  /\ pc[c] \in {"pull_wait", "push_wait"}
           /\ ~ Outstanding(c)
           /\ \A m \in Messages : ~ Answer(c, m)
<1>1. RequestFailed(c) /\ ~ Fault
    BY NeverFault DEF RetryPull, RetryPush, GiveUp
<1>2. pc[c] \in {"pull_wait", "push_wait"} /\ ~ Outstanding(c)
    BY <1>1 DEF RequestFailed
<1>3. QED
    BY <1>2 DEF Outstanding, UsedIds, Answer

LEMMA AimNext ==
    ASSUME MaxFaults = 0, TypeInv, [Next]_vars, NEW c \in Client, Aim(c)
    PROVE  Aim(c)'
<1>0. ClientType /\ host[c] \in Device
    BY TypeGroups, ClientAssumption DEF TypeInv
<1>1. ASSUME SameLocal(c) PROVE Aim(c)'
    BY <1>1 DEF SameLocal, Aim
<1>2. ASSUME NEW m, ServePull(m) \/ ServePush(m) PROVE Aim(c)'
    BY <1>1, <1>2 DEF ServePull, ServePush, clientVars, SameLocal
<1>3. ASSUME NEW p \in Device, StartSync(c, p) PROVE Aim(c)'
    <2>1. pc'[c] = "pull_wait" /\ target'[c] = p /\ p \in targets[c]
        BY <1>0, <1>3 DEF StartSync, ClientType
    <2>2. QED
        BY <2>1 DEF Aim
<1>4. ASSUME EndSync(c) PROVE Aim(c)'
    <2>1. pc'[c] = "idle"
        BY <1>0, <1>4 DEF EndSync, EnterPhase, ClientType
    <2>2. QED
        BY <2>1 DEF Aim
<1>5. ASSUME EndPull(c), pc[c] # "idle" PROVE Aim(c)'
    <2>1. CASE c \in PushClient
        <3>1. pc'[c] = "push_begin" /\ target'[c] = target[c]
            BY <1>0, <1>5, <2>1 DEF EndPull, EnterPhase, ClientType
        <3>2. QED
            BY <1>5, <2>1, <3>1 DEF Aim
    <2>2. CASE c \notin PushClient
        BY <1>4, <1>5, <2>2 DEF EndPull
    <2>3. QED
        BY <2>1, <2>2
<1>6. ASSUME PullDone(c) \/ PushDone(c) \/ GiveUp(c) PROVE Aim(c)'
    BY <1>4, <1>5, <1>6 DEF PullDone, PushDone, GiveUp, FailPhase, RequestFailed
<1>7. ASSUME PullInsert(c) PROVE Aim(c)'
    <2>1. CASE EndPull(c)
        BY <1>5, <1>7, <2>1 DEF PullInsert
    <2>2. CASE ~ EndPull(c)
        <3>1. /\ pc[c] = "pull_wait" /\ pc'[c] = "pull_save"
              /\ target'[c] = target[c]
            BY <1>0, <1>7, <2>2 DEF PullInsert, ClientType
        <3>2. QED
            BY <3>1 DEF Aim
    <2>3. QED
        BY <2>1, <2>2
<1>8. ASSUME SaveCursor(c) \/ RetryPull(c) PROVE Aim(c)'
    <2>1. /\ pc[c] # "idle" /\ pc'[c] = "pull_wait"
          /\ target'[c] = target[c]
        BY <1>0, <1>8 DEF SaveCursor, RetryPull, ClientType
    <2>2. QED
        BY <2>1 DEF Aim
<1>9. ASSUME PushBegin(c) \/ PushSend(c) \/ RetryPush(c) PROVE Aim(c)'
    <2>1. /\ pc[c] \in {"push_begin", "push_read", "push_wait"}
          /\ target'[c] = target[c]
        BY <1>9 DEF PushBegin, PushSend, RetryPush
    <2>2. QED
        BY <2>1 DEF Aim
<1>10. ASSUME PushTooLarge(c) \/ PushAcked(c) \/ SavePushed(c) PROVE Aim(c)'
    <2>1. CASE EndSync(c)
        BY <1>4, <2>1
    <2>2. CASE ~ EndSync(c)
        <3>1. /\ pc[c] \in {"push_read", "push_wait", "push_save"}
              /\ target'[c] = target[c]
            BY <1>10, <2>2 DEF PushTooLarge, PushAcked, SavePushed
        <3>2. QED
            BY <3>1 DEF Aim
    <2>3. QED
        BY <2>1, <2>2
<1>11. ASSUME SkipResponse(c) PROVE Aim(c)'
    BY <1>1, <1>11 DEF SkipResponse, clientVars, SameLocal
<1>12. QED
    BY <1>1, <1>2, <1>3, <1>6, <1>7, <1>8, <1>9, <1>10, <1>11, CalmCases
       DEF Still, ClientStep

\* After a new request no old answer counts.
LEMMA NoOldAnswer ==
    ASSUME TypeInv, NEW c \in Client, RequestId \ UsedIds(c) # {},
           request_id' = [request_id EXCEPT ![c] = NewRequestId(c)]
    PROVE  \A m \in Messages : ~ Answer(c, m)'
<1>1. \A m \in Messages : m.client = c => m.request_id # NewRequestId(c)
    BY FreshRequest
<1>2. request_id'[c] = NewRequestId(c)
    BY DEF TypeInv, TypeOK
<1>3. QED
    BY <1>1, <1>2 DEF Answer

LEMMA PullFreshNext ==
    ASSUME MaxFaults = 0, MaxPrunes = 0, CalmInv, [Next]_vars, NEW c \in Client
    PROVE  PullFresh(c)'
<1>0. /\ TypeInv /\ ClientType /\ NoMishap /\ PullFresh(c) /\ MailInv(c)
      /\ target[c] \in Device
    BY TypeGroups, StoreFacts DEF CalmInv, SafeInv, TypeInv
<1>1. entries[target[c]] \subseteq entries'[target[c]]
    BY <1>0, CalmGrow
<1>2. CASE Still(c)
    <2>1. /\ pc'[c] = pc[c] /\ target'[c] = target[c] /\ cursor'[c] = cursor[c]
          /\ \A m : Answer(c, m)' <=> Answer(c, m)
          /\ \A m \in sync_batch' : Answer(c, m) => m \in sync_batch
        BY <1>2 DEF Still, SameLocal, LessMail, Answer
    <2>2. QED
        BY <1>0, <1>1, <2>1 DEF PullFresh
<1>3. ASSUME NEW m \in sync_pull, m.client = c, ServePull(m)
      PROVE  PullFresh(c)'
    <2> DEFINE rows == pull_since_cursor(entries[m.peer], m.cursor, m.limit)
    <2>1. /\ UNCHANGED storeVars /\ UNCHANGED clientVars
          /\ sync_batch' \subseteq sync_batch \cup {PullAnswer(m)}
        BY <1>3 DEF ServePull, PullAnswer
    <2>2. SUFFICES ASSUME pc[c] = "pull_wait", NEW b \in sync_batch',
                          Answer(c, b), NEW r \in b.entries
                   PROVE  /\ r \in entries[target[c]]
                          /\ r.ingest_seq > cursor[c]
                          /\ r.ingest_seq <= b.next_cursor
        BY <2>1 DEF PullFresh, Answer, storeVars, clientVars
    <2>3. CASE b \in sync_batch
        BY <1>0, <2>2, <2>3 DEF PullFresh
    <2>4. CASE b = PullAnswer(m)
        <3>1. b.entries = rows /\ b.next_cursor = next_cursor_of(rows)
            BY <2>4 DEF PullAnswer
        <3>2. Answer(c, m)
            BY <2>2, <2>4 DEF Answer, PullAnswer
        <3>3. m.peer = target[c] /\ m.cursor = cursor[c]
            BY <1>0, <2>2, <3>2 DEF MailInv, PullMail
        <3>4. /\ m.peer \in Device /\ m.cursor \in Nat /\ m.limit \in Nat
              /\ sqlite_sequence[m.peer] \in Nat
              /\ Numbered(entries[m.peer], sqlite_sequence[m.peer])
            BY <1>0 DEF TypeInv, TypeOK, StoreInv, SyncPull
        <3>5. /\ r \in entries[m.peer] /\ r.ingest_seq > m.cursor
              /\ r.ingest_seq <= next_cursor_of(rows)
            BY <2>2, <3>1, <3>4, PullBounds
        <3>6. QED
            BY <3>1, <3>3, <3>5
    <2>5. QED
        BY <2>1, <2>3, <2>4
<1>4. ASSUME NEW m, ServePush(m) PROVE PullFresh(c)'
    BY <1>0, <1>1, <1>4 DEF ServePush, PullFresh, Answer, clientVars, pullVars
<1>5. CASE pc'[c] # "pull_wait"
    BY <1>5 DEF PullFresh
<1>6. CASE \/ \E p \in Device : StartSync(c, p)
           \/ SaveCursor(c) \/ RetryPull(c)
    <2>1. /\ RequestId \ UsedIds(c) # {}
          /\ request_id' = [request_id EXCEPT ![c] = NewRequestId(c)]
          /\ sync_batch' = sync_batch
        BY <1>6 DEF StartSync, SaveCursor, RetryPull, SendPull
    <2>2. \A m \in sync_batch' : ~ Answer(c, m)'
        BY <1>0, <2>1, NoOldAnswer DEF Messages
    <2>3. QED
        BY <2>2 DEF PullFresh
<1>7. ASSUME EndPull(c) \/ EndSync(c) \/ FailPhase(c) PROVE pc'[c] # "pull_wait"
    <2>1. \E p \in Device, phase \in {"idle", "push_begin"} : EnterPhase(c, phase, p)
        BY <1>0, <1>7, ClientAssumption DEF EndPull, EndSync, FailPhase, ClientType
    <2>2. QED
        BY <1>0, <2>1 DEF EnterPhase, ClientType
<1>8. ASSUME PullDone(c) \/ PullInsert(c) \/ PushBegin(c) \/ PushDone(c) \/ GiveUp(c)
      PROVE  pc'[c] # "pull_wait"
    BY <1>0, <1>7, <1>8 DEF PullDone, PullInsert, PushBegin, PushDone, GiveUp,
                            ClientType
<1>9. ASSUME PushSend(c) \/ PushTooLarge(c) \/ PushAcked(c) \/ SavePushed(c)
             \/ RetryPush(c)
      PROVE  pc'[c] # "pull_wait"
    BY <1>0, <1>7, <1>9 DEF PushSend, PushTooLarge, PushAcked, SavePushed,
                            RetryPush, ClientType
<1>10. CASE SkipResponse(c)
    BY <1>0, <1>10 DEF SkipResponse, PullFresh, Answer, clientVars, storeVars
<1>11. QED
    BY <1>0, <1>2, <1>3, <1>4, <1>5, <1>6, <1>8, <1>9, <1>10, CalmCases
       DEF ClientStep

\* The phase is over.
LEMMA PhaseOver ==
    ASSUME TypeInv, NEW c \in Client, EndPull(c) \/ EndSync(c) \/ FailPhase(c)
    PROVE  pc'[c] \in {"idle", "push_begin"}
<1>0. ClientType
    BY TypeGroups DEF TypeInv
<1>1. \E p \in Device, phase \in {"idle", "push_begin"} : EnterPhase(c, phase, p)
    BY <1>0, ClientAssumption DEF EndPull, EndSync, FailPhase, ClientType
<1>2. QED
    BY <1>0, <1>1 DEF EnterPhase, ClientType

LEMMA PushFreshNext ==
    ASSUME MaxFaults = 0, MaxPrunes = 0, CalmInv, [Next]_vars, NEW c \in Client
    PROVE  PushFresh(c)'
<1>0. /\ TypeInv /\ ClientType /\ NoMishap /\ PushFresh(c)
      /\ host[c] \in Device
    BY TypeGroups, ClientAssumption DEF CalmInv, SafeInv, TypeInv
<1>1. RowsOf(entries[host[c]], host[c]) \subseteq RowsOf(entries'[host[c]], host[c])
    BY <1>0, CalmGrow
<1>2. ASSUME pc'[c] = pc[c] \/ (pc[c] = "push_wait" /\ pc'[c] = "push_save"),
             cursor'[c] = cursor[c], next_cursor'[c] = next_cursor[c],
             batch'[c] = batch[c]
      PROVE  PushFresh(c)'
    BY <1>0, <1>1, <1>2 DEF PushFresh
<1>3. ASSUME UNCHANGED clientVars PROVE PushFresh(c)'
    BY <1>2, <1>3 DEF clientVars
<1>4. CASE pc'[c] \notin {"push_wait", "push_save"}
    BY <1>4 DEF PushFresh
<1>5. ASSUME \/ \E p \in Device : StartSync(c, p)
             \/ PullInsert(c) \/ SaveCursor(c) \/ RetryPull(c)
             \/ PushBegin(c)
      PROVE  pc'[c] \notin {"push_wait", "push_save"}
    BY <1>0, <1>5, PhaseOver DEF StartSync, PullInsert, SaveCursor, RetryPull,
                                 PushBegin, ClientType
<1>6. ASSUME PullDone(c) \/ PushDone(c) \/ GiveUp(c) \/ PushTooLarge(c) \/ SavePushed(c)
      PROVE  pc'[c] \notin {"push_wait", "push_save"}
    BY <1>0, <1>6, PhaseOver DEF PullDone, PushDone, GiveUp, PushTooLarge,
                                 SavePushed, ClientType
<1>7. CASE PushSend(c)
    <2> DEFINE own == RowsOf(entries[host[c]], host[c])
    <2>1. /\ pc'[c] = "push_wait" /\ cursor'[c] = cursor[c]
          /\ batch'[c] = PushBatch(c) /\ PushBatch(c) # {}
          /\ next_cursor'[c] = next_cursor_of(PushBatch(c))
        BY <1>0, <1>7 DEF PushSend, ClientType
    <2>2. /\ sqlite_sequence[host[c]] \in Nat /\ cursor[c] \in Nat
          /\ batch_limit[c] \in Nat
          /\ Numbered(own, sqlite_sequence[host[c]])
        BY <1>0, RowsOfNumbered DEF TypeInv, TypeOK, StoreInv
    <2>3. PushBatch(c) = pull_since_cursor(own, cursor[c], batch_limit[c])
        BY DEF PushBatch, pull_since_cursor_for_device
    <2> HIDE DEF own
    <2>4. \A r \in PushBatch(c) : /\ r \in own
                                  /\ r.ingest_seq > cursor[c]
                                  /\ r.ingest_seq <= next_cursor_of(PushBatch(c))
                                  /\ next_cursor_of(PushBatch(c)) > cursor[c]
        BY <2>2, <2>3, PullBounds
    <2>5. own \subseteq RowsOf(entries'[host[c]], host[c])
        BY <1>1 DEF own
    <2>6. QED
        BY <2>1, <2>4, <2>5 DEF PushFresh
<1>8. CASE PushAcked(c)
    <2>1. CASE EndSync(c)
        BY <1>0, <1>4, <2>1, PhaseOver
    <2>2. CASE ~ EndSync(c)
        BY <1>0, <1>2, <1>8, <2>2 DEF PushAcked, ClientType
    <2>3. QED
        BY <2>1, <2>2
<1>9. CASE RetryPush(c)
    BY <1>2, <1>9 DEF RetryPush
<1>10. CASE Still(c)
    BY <1>2, <1>10 DEF Still, SameLocal
<1>11. ASSUME NEW m, ServePull(m) \/ ServePush(m) PROVE PushFresh(c)'
    BY <1>3, <1>11 DEF ServePull, ServePush
<1>12. CASE SkipResponse(c)
    BY <1>3, <1>12 DEF SkipResponse
<1>13. QED
    BY <1>0, <1>4, <1>5, <1>6, <1>7, <1>8, <1>9, <1>10, <1>11, <1>12, CalmCases
       DEF ClientStep

\* Two pushes of a client under way would be the same message.
LEMMA PushIsOne ==
    ASSUME CalmInv, NEW c \in Client, NEW m \in entries_push,
           NEW n \in entries_push, m.client = c, n.client = c
    PROVE  m = n
<1>1. /\ pc[c] = "push_wait" /\ Answer(c, m) /\ Answer(c, n)
    BY DEF CalmInv, OnePush
<1>2. PushMail(c)
    BY <1>1 DEF CalmInv, SafeInv, MailInv
<1>3. /\ m.peer = n.peer /\ m.entries = n.entries
      /\ m.client = n.client /\ m.request_id = n.request_id
    BY <1>1, <1>2 DEF PushMail, Answer
<1>4. m \in EntriesPush /\ n \in EntriesPush
    BY DEF CalmInv, SafeInv, TypeInv, TypeOK
<1>5. QED
    BY <1>3, <1>4 DEF EntriesPush

LEMMA OnePushNext ==
    ASSUME MaxFaults = 0, MaxPrunes = 0, CalmInv, [Next]_vars, NEW c \in Client
    PROVE  OnePush(c)'
<1>0. TypeInv /\ ClientType /\ OnePush(c)
    BY TypeGroups DEF CalmInv, SafeInv, TypeInv
<1>1. ASSUME \A m \in entries_push' : m.client # c
      PROVE  OnePush(c)'
    BY <1>1 DEF OnePush
<1>2. ASSUME pc[c] # "push_wait" \/ (\A m \in entries_push : ~ Answer(c, m))
                                 \/ (\E a \in push_ack : Answer(c, a)),
             entries_push' = entries_push
      PROVE  OnePush(c)'
    <2>1. \A m \in entries_push : m.client # c
        BY <1>0, <1>2 DEF OnePush
    <2>2. QED
        BY <1>1, <1>2, <2>1
<1>3. CASE Still(c)
    <2>1. /\ pc'[c] = pc[c]
          /\ \A m : Answer(c, m)' <=> Answer(c, m)
          /\ \A m \in entries_push' : m.client = c => m \in entries_push
          /\ \A a \in push_ack' : Answer(c, a) => a \in push_ack
        BY <1>3 DEF Still, SameLocal, LessMail, Answer
    <2>2. QED
        BY <1>0, <2>1 DEF OnePush
<1>4. ASSUME NEW m, ServePull(m) PROVE OnePush(c)'
    BY <1>0, <1>4 DEF ServePull, OnePush, Answer, clientVars, pushVars
<1>5. ASSUME NEW m \in entries_push, m.client = c, ServePush(m)
      PROVE  OnePush(c)'
    <2>1. entries_push' = entries_push \ {m}
        BY <1>5 DEF ServePush
    <2>2. QED
        BY <1>1, <1>5, <2>1, PushIsOne
<1>6. CASE \/ \E p \in Device : StartSync(c, p)
           \/ PullDone(c) \/ PullInsert(c) \/ SaveCursor(c)
           \/ PushBegin(c) \/ PushDone(c) \/ PushTooLarge(c) \/ SavePushed(c)
    BY <1>2, <1>6 DEF StartSync, PullDone, PullInsert, SaveCursor, PushBegin,
                      PushDone, PushTooLarge, SavePushed, pushVars
<1>7. CASE PushAcked(c)
    BY <1>2, <1>7 DEF PushAcked
<1>8. CASE GiveUp(c) \/ RetryPull(c)
    <2>1. \A m \in entries_push : ~ Answer(c, m)
        BY <1>0, <1>8, FailedRequest DEF Messages
    <2>2. QED
        BY <1>2, <1>8, <2>1 DEF GiveUp, RetryPull, pushVars
<1>9. CASE SkipResponse(c)
    BY <1>0, <1>9 DEF SkipResponse, OnePush, Answer, clientVars
<1>10. CASE PushSend(c) \/ RetryPush(c)
    <2>1. /\ pc'[c] = "push_wait"
          /\ push_ack' = push_ack
          /\ \E p, B : SendPush(c, p, B)
        BY <1>0, <1>10 DEF PushSend, RetryPush, ClientType
    <2>2. \A m \in entries_push : m.client # c
        <3>1. CASE PushSend(c)
            BY <1>0, <3>1 DEF PushSend, OnePush
        <3>2. CASE RetryPush(c)
            <4>1. \A m \in entries_push : ~ Answer(c, m)
                BY <1>0, <3>2, FailedRequest DEF Messages
            <4>2. QED
                BY <1>0, <4>1 DEF OnePush
        <3>3. QED
            BY <1>10, <3>1, <3>2
    <2>3. PICK p, B : SendPush(c, p, B)
        BY <2>1
    <2> DEFINE new == [client |-> c, request_id |-> NewRequestId(c),
                       peer |-> p, entries |-> B]
    <2>4. /\ RequestId \ UsedIds(c) # {}
          /\ request_id' = [request_id EXCEPT ![c] = NewRequestId(c)]
          /\ entries_push' = entries_push \cup {new}
        BY <2>3 DEF SendPush
    <2>5. \A a \in push_ack' : ~ Answer(c, a)'
        BY <1>0, <2>1, <2>4, NoOldAnswer DEF Messages
    <2>6. \A m \in entries_push' : m.client = c => Answer(c, m)'
        BY <1>0, <2>2, <2>4 DEF Answer, ClientType
    <2>7. QED
        BY <2>1, <2>5, <2>6 DEF OnePush
<1>11. QED
    BY <1>0, <1>3, <1>4, <1>5, <1>6, <1>7, <1>8, <1>9, <1>10, CalmCases
       DEF ClientStep

\* Device d has numbered row n of peer p: its cursor is past it, or is about
\* to be saved.
PullGot(d, p, n) ==
    \/ n <= peer_state[d][p]
    \/ \E c \in Client : /\ host[c] = d /\ target[c] = p
                         /\ pc[c] = "pull_save"
                         /\ n <= next_cursor[c]

\* The peer has stored the batch client c pushes.
PushStored(c) ==
    \/ pc[c] = "push_save"
    \/ pc[c] = "push_wait" /\ \E a \in push_ack : Answer(c, a)

\* Row n of the device of client c has been stored by device d.
PushGot(c, d, n) ==
    \/ n <= peer_push_state[host[c]][d]
    \/ target[c] = d /\ PushStored(c) /\ n <= next_cursor[c]

\* The rows on offer that device d has numbered.
PullTaken(d) == {x \in Pulled(d) : PullGot(d, x[1], x[2].ingest_seq)}
PushTaken(d) == {x \in Pushed(d) : PushGot(x[1], d, x[2].ingest_seq)}

\* A device gives out no number but for one of them or an entry of its own.
NumberInv ==
    \A d \in Device :
        sqlite_sequence[d] <= Cardinality(Recorded(d))
              + Cardinality(PullTaken(d)) + Cardinality(PushTaken(d))

\* What Pulled and Pushed contain, row by row.
LEMMA PulledRows ==
    ASSUME NEW d
    PROVE  \A x : x \in Pulled(d) <=>
             \E c \in Client : /\ host[c] = d
                               /\ \E p \in targets[c] : \E r \in entries[p] :
                                    x = <<p, r>>
<1>1. ASSUME NEW x, NEW c \in Client, host[c] = d, NEW p \in targets[c],
             NEW r \in entries[p], x = <<p, r>>
      PROVE  x \in Pulled(d)
    BY <1>1 DEF Pulled
<1>2. ASSUME NEW x \in Pulled(d)
      PROVE  \E c \in Client : /\ host[c] = d
                               /\ \E p \in targets[c] : \E r \in entries[p] :
                                    x = <<p, r>>
    BY DEF Pulled
<1>3. QED
    BY <1>1, <1>2

LEMMA PushedRows ==
    ASSUME NEW d
    PROVE  \A x : x \in Pushed(d) <=>
             \E c \in PushClient : /\ d \in targets[c]
                                   /\ \E r \in RowsOf(entries[host[c]], host[c]) :
                                        x = <<c, r>>
<1>1. ASSUME NEW x, NEW c \in PushClient, d \in targets[c],
             NEW r \in RowsOf(entries[host[c]], host[c]), x = <<c, r>>
      PROVE  x \in Pushed(d)
    BY <1>1 DEF Pushed
<1>2. ASSUME NEW x \in Pushed(d)
      PROVE  \E c \in PushClient : /\ d \in targets[c]
                                   /\ \E r \in RowsOf(entries[host[c]], host[c]) :
                                        x = <<c, r>>
    BY DEF Pushed
<1>3. QED
    BY <1>1, <1>2

\* What is on offer is finite.
Finite == IsFiniteSet(Device) /\ IsFiniteSet(Client)

OfferFinite ==
    \A d \in Device : /\ IsFiniteSet(Recorded(d))
                      /\ IsFiniteSet(Pulled(d))
                      /\ IsFiniteSet(Pushed(d))

LEMMA OfferIsFinite == Finite /\ TypeInv /\ NoMishap => OfferFinite
<1> SUFFICES ASSUME Finite, TypeInv, NoMishap, NEW d \in Device
             PROVE  /\ IsFiniteSet(Recorded(d))
                    /\ IsFiniteSet(Pulled(d))
                    /\ IsFiniteSet(Pushed(d))
    BY DEF OfferFinite
<1> DEFINE Tables == {entries[p] : p \in Device}
<1>1. IsFiniteSet(Tables)
    <2>1. [p \in Device |-> entries[p]] \in Surjection(Device, Tables)
        BY DEF Surjection
    <2>2. QED
        BY <2>1, FS_Surjection DEF Finite
<1>2. \A T \in Tables : IsFiniteSet(T)
    BY DEF TypeInv, StoreInv, Numbered
<1> HIDE DEF Tables
<1>3. IsFiniteSet(UNION Tables)
    BY <1>1, <1>2, FS_UNION
<1>4. IsFiniteSet(Device \X UNION Tables) /\ IsFiniteSet(Client \X UNION Tables)
    BY <1>3, FS_Product DEF Finite
<1>5. \A p \in Device : \A r \in entries[p] : r \in UNION Tables
    BY DEF Tables
<1>6. Pulled(d) \in SUBSET (Device \X UNION Tables)
    BY <1>5, PulledRows, ClientAssumption
<1>7. Pushed(d) \in SUBSET (Client \X UNION Tables)
    BY <1>5, PushedRows, ClientAssumption DEF RowsOf
<1>8. Recorded(d) \in SUBSET seen[d] /\ IsFiniteSet(seen[d])
    BY DEF Recorded, NoMishap
<1>9. QED
    BY <1>4, <1>6, <1>7, <1>8, FS_Subset

\* A finite set that keeps its elements and gains a copy of another.
LEMMA GainedCopy ==
    ASSUME NEW S, NEW S2, IsFiniteSet(S2), NEW B, IsFiniteSet(B), NEW p,
           S \subseteq S2, \A b \in B : <<p, b>> \in S2 /\ <<p, b>> \notin S
    PROVE  /\ Cardinality(S) \in Nat /\ Cardinality(B) \in Nat
           /\ Cardinality(S2) \in Nat
           /\ Cardinality(S) + Cardinality(B) <= Cardinality(S2)
<1> DEFINE C == {<<p, b>> : b \in B}
<1>1. IsFiniteSet(C) /\ Cardinality(C) = Cardinality(B)
    <2>1. [b \in B |-> <<p, b>>] \in Bijection(B, C)
        BY DEF Bijection, Injection, Surjection, IsInjective
    <2>2. ExistsBijection(B, C)
        BY <2>1 DEF ExistsBijection
    <2>3. QED
        BY <2>2, FS_Bijection
<1>2. C \subseteq S2 /\ S \cap C = {}
    OBVIOUS
<1> HIDE DEF C
<1>3. IsFiniteSet(S)
    BY FS_Subset
<1>4. Cardinality(S \cup C) = Cardinality(S) + Cardinality(C)
    <2>1. Cardinality(S \cup C)
            = Cardinality(S) + Cardinality(C) - Cardinality(S \cap C)
        BY <1>1, <1>3, FS_Union
    <2>2. Cardinality(S \cap C) = 0
        BY <1>2, FS_EmptySet
    <2>3. Cardinality(S) \in Nat /\ Cardinality(C) \in Nat
        BY <1>1, <1>3, FS_CardinalityType
    <2>4. QED
        BY <2>1, <2>2, <2>3
<1>5. Cardinality(S \cup C) <= Cardinality(S2)
    BY <1>2, FS_Subset
<1>6. QED
    BY <1>1, <1>3, <1>4, <1>5, FS_CardinalityType

\* What was numbered stays so: a saved cursor does not move back, and one that
\* is about to be saved is saved.
LEMMA PullGotLater ==
    ASSUME Calm, CalmInv, [Next]_vars, NEW d \in Device, NEW p \in Device,
           NEW n \in Nat, PullGot(d, p, n)
    PROVE  PullGot(d, p, n)'
<1>0. TypeInv /\ CursorType /\ ClientType
    BY TypeGroups DEF CalmInv, SafeInv, TypeInv
<1>1. CASE n <= peer_state[d][p]
    <2>1. peer_state[d][p] <= peer_state'[d][p]
        BY <1>0, InStepNext DEF Calm, CalmInv
    <2>2. peer_state[d][p] \in Nat /\ peer_state'[d][p] \in Nat
        <3>1. CursorType'
            BY <1>0, CursorPruneNext
        <3>2. QED
            BY <1>0, <3>1 DEF CursorType
    <2>3. QED
        BY <1>1, <2>1, <2>2 DEF PullGot
<1>2. ASSUME NEW c \in Client, host[c] = d, target[c] = p,
             pc[c] = "pull_save", n <= next_cursor[c]
      PROVE  PullGot(d, p, n)'
    <2>1. ASSUME SameLocal(c) PROVE PullGot(d, p, n)'
        BY <1>2, <2>1 DEF SameLocal, PullGot
    <2>2. CASE SaveCursor(c)
        <3>1. peer_state'[d][p] = next_cursor[c]
            BY <1>0, <1>2, <2>2 DEF SaveCursor, set_last_cursor, CursorType
        <3>2. QED
            BY <1>2, <3>1 DEF PullGot
    <2>3. CASE SkipResponse(c)
        BY <2>1, <2>3 DEF SkipResponse, clientVars, SameLocal
    <2>4. ASSUME NEW m, ServePull(m) \/ ServePush(m)
          PROVE  PullGot(d, p, n)'
        BY <2>1, <2>4 DEF ServePull, ServePush, clientVars, SameLocal
    <2>5. /\ \A x \in Device : ~ StartSync(c, x)
          /\ ClientStep(c) => SaveCursor(c) \/ SkipResponse(c)
        BY <1>2 DEF StartSync, ClientStep, PullDone, PullInsert, PushBegin,
                    PushDone, PushSend, PushTooLarge, PushAcked, SavePushed,
                    RetryPull, RetryPush, GiveUp, RequestFailed
    <2>6. QED
        BY <1>0, <2>1, <2>2, <2>3, <2>4, <2>5, CalmCases DEF Still, Calm
<1>3. QED
    BY <1>1, <1>2 DEF PullGot

LEMMA PushGotLater ==
    ASSUME Calm, CalmInv, [Next]_vars, NEW d \in Device, NEW c \in Client,
           NEW n \in Nat, PushGot(c, d, n)
    PROVE  PushGot(c, d, n)'
<1>0. /\ TypeInv /\ CursorType /\ ClientType /\ host[c] \in Device
      /\ \A a \in push_ack : a.ok
    BY TypeGroups, ClientAssumption DEF CalmInv, SafeInv, TypeInv, NoMishap
<1>1. CASE n <= peer_push_state[host[c]][d]
    <2>1. peer_push_state[host[c]][d] <= peer_push_state'[host[c]][d]
        BY <1>0, InStepNext DEF Calm, CalmInv
    <2>2. /\ peer_push_state[host[c]][d] \in Nat
          /\ peer_push_state'[host[c]][d] \in Nat
        <3>1. CursorType'
            BY <1>0, CursorPruneNext
        <3>2. QED
            BY <1>0, <3>1 DEF CursorType
    <2>3. QED
        BY <1>1, <2>1, <2>2 DEF PushGot
<1>2. CASE target[c] = d /\ PushStored(c) /\ n <= next_cursor[c]
    <2>1. ASSUME target'[c] = target[c], next_cursor'[c] = next_cursor[c],
                 PushStored(c)'
          PROVE  PushGot(c, d, n)'
        BY <1>2, <2>1 DEF PushGot
    <2>2. ASSUME SameLocal(c), request_id'[c] = request_id[c],
                 pc[c] = "push_wait" =>
                   \A a \in push_ack : Answer(c, a) => a \in push_ack'
          PROVE  PushGot(c, d, n)'
        <3>1. PushStored(c)'
            BY <1>2, <2>2 DEF PushStored, SameLocal, Answer
        <3>2. QED
            BY <2>1, <2>2, <3>1 DEF SameLocal
    <2>3. CASE Still(c)
        BY <2>2, <2>3 DEF Still
    <2>4. ASSUME NEW m, ServePull(m) \/ ServePush(m)
          PROVE  PushGot(c, d, n)'
        BY <2>2, <2>4 DEF ServePull, ServePush, Acknowledge, clientVars, pushVars,
                          SameLocal
    <2>5. CASE SkipResponse(c)
        <3>1. UNCHANGED clientVars
            BY <2>5 DEF SkipResponse
        <3>2. pc[c] = "push_wait" =>
                \A a \in push_ack : Answer(c, a) => a \in push_ack'
            BY <2>5 DEF SkipResponse
        <3>3. QED
            BY <2>2, <3>1, <3>2 DEF clientVars, SameLocal
    <2>6. CASE PushAcked(c)
        <3>1. /\ pc' = [pc EXCEPT ![c] = "push_save"]
              /\ UNCHANGED <<target, next_cursor>>
            BY <1>0, <2>6 DEF PushAcked
        <3>2. PushStored(c)'
            BY <1>0, <3>1 DEF PushStored, ClientType
        <3>3. QED
            BY <2>1, <3>1, <3>2
    <2>7. CASE SavePushed(c)
        <3>1. pc[c] = "push_save" /\ next_cursor[c] > cursor[c]
            BY <2>7 DEF SavePushed, CalmInv, PushFresh
        <3>2. next_cursor[c] \in Nat /\ cursor[c] \in Nat
            BY <1>0 DEF ClientType
        <3>3. set_last_pushed_seq(host[c], target[c], next_cursor[c])
            BY <2>7, <3>1, <3>2 DEF SavePushed
        <3>4. peer_push_state'[host[c]][d] = next_cursor[c]
            BY <1>0, <1>2, <3>3 DEF set_last_pushed_seq, CursorType
        <3>5. QED
            BY <1>2, <3>4 DEF PushGot
    <2>8. ~ RetryPull(c) /\ ~ RetryPush(c) /\ ~ GiveUp(c)
        <3>1. SUFFICES ASSUME RetryPull(c) \/ RetryPush(c) \/ GiveUp(c)
                       PROVE  FALSE
            OBVIOUS
        <3>2. /\ pc[c] \in {"pull_wait", "push_wait"}
              /\ \A m \in Messages : ~ Answer(c, m)
            BY <1>0, <3>1, FailedRequest DEF Calm
        <3>3. QED
            BY <1>2, <3>2 DEF PushStored, Messages
    <2>9. /\ \A x \in Device : ~ StartSync(c, x)
          /\ ClientStep(c) => PushAcked(c) \/ SavePushed(c) \/ SkipResponse(c)
        BY <1>2, <2>8 DEF PushStored, StartSync, ClientStep, PullDone, PullInsert,
                          SaveCursor, PushBegin, PushDone, PushSend, PushTooLarge
    <2>10. QED
        BY <1>0, <2>3, <2>4, <2>5, <2>6, <2>7, <2>9, CalmCases DEF Calm
<1>3. QED
    BY <1>1, <1>2 DEF PushGot

LEMMA TakenGrows ==
    ASSUME Calm, CalmInv, [Next]_vars, NEW d \in Device
    PROVE  /\ PullTaken(d) \subseteq PullTaken(d)'
           /\ PushTaken(d) \subseteq PushTaken(d)'
<1>0. /\ TypeInv
      /\ \A p \in Device : /\ entries[p] \subseteq entries'[p]
                           /\ RowsOf(entries[p], p) \subseteq RowsOf(entries'[p], p)
                           /\ \A r \in entries[p] : r.ingest_seq \in Nat
    BY CalmGrow DEF CalmInv, SafeInv, Calm, TypeInv, TypeOK, Row
<1>1. ASSUME NEW x \in PullTaken(d) PROVE x \in PullTaken(d)'
    <2>0. PICK c \in Client : /\ host[c] = d
                              /\ \E p \in targets[c] : \E r \in entries[p] :
                                   x = <<p, r>>
        BY PulledRows DEF PullTaken
    <2>1. PICK p \in targets[c] : \E r \in entries[p] : x = <<p, r>>
        BY <2>0
    <2> PICK r \in entries[p] : x = <<p, r>>
        BY <2>1
    <2>2. p \in Device /\ r.ingest_seq \in Nat /\ r \in entries'[p]
        BY <1>0, ClientAssumption
    <2>3. PullGot(d, p, r.ingest_seq)
        BY DEF PullTaken
    <2>4. PullGot(d, p, r.ingest_seq)'
        BY <2>2, <2>3, PullGotLater
    <2>5. x \in Pulled(d)'
        BY <2>0, <2>2 DEF Pulled
    <2>6. QED
        BY <2>4, <2>5 DEF PullTaken
<1>2. ASSUME NEW x \in PushTaken(d) PROVE x \in PushTaken(d)'
    <2>1. PICK c \in PushClient :
            /\ d \in targets[c]
            /\ \E r \in RowsOf(entries[host[c]], host[c]) : x = <<c, r>>
        BY PushedRows DEF PushTaken
    <2> PICK r \in RowsOf(entries[host[c]], host[c]) : x = <<c, r>>
        BY <2>1
    <2>2. /\ c \in Client /\ host[c] \in Device /\ r.ingest_seq \in Nat
          /\ r \in RowsOf(entries'[host[c]], host[c])
        BY <1>0, ClientAssumption DEF RowsOf
    <2>3. PushGot(c, d, r.ingest_seq)
        BY DEF PushTaken
    <2>4. PushGot(c, d, r.ingest_seq)'
        BY <2>2, <2>3, PushGotLater
    <2>5. x \in Pushed(d)'
        BY <2>1, <2>2 DEF Pushed
    <2>6. QED
        BY <2>4, <2>5 DEF PushTaken
<1>3. QED
    BY <1>1, <1>2

\* The rows of an answer were not numbered before, and are when it has been
\* inserted.
LEMMA PullGain ==
    ASSUME Calm, CalmInv, [Next]_vars, NEW c \in Client, PullInsert(c)
    PROVE  \E B : /\ Batch(B)
                  /\ Insert(host[c], B)
                  /\ \A b \in B : /\ <<target[c], b>> \in PullTaken(host[c])'
                                  /\ <<target[c], b>> \notin PullTaken(host[c])
<1>0. /\ TypeInv /\ ClientType /\ NoMishap
      /\ host[c] \in Device /\ target[c] \in Device
    BY TypeGroups, StoreFacts DEF CalmInv, SafeInv, TypeInv
<1>1. PICK m \in sync_batch :
        /\ pc[c] = "pull_wait" /\ Answer(c, m) /\ m.entries # {}
        /\ Insert(host[c], m.entries)
        /\ m.next_cursor > cursor[c] =>
             /\ pc' = [pc EXCEPT ![c] = "pull_save"]
             /\ next_cursor' = [next_cursor EXCEPT ![c] = m.next_cursor]
             /\ UNCHANGED target
    <2>1. \A m \in sync_batch : m.next_cursor \in Nat /\ cursor[c] \in Nat
        BY <1>0 DEF TypeInv, TypeOK, SyncBatch
    <2>2. QED
        BY <2>1 DEF PullInsert
<1>2. Batch(m.entries) /\ m.next_cursor \in Nat /\ cursor[c] \in Nat
    BY <1>0 DEF TypeInv, TypeOK, BatchInv, SyncBatch, Batch
<1>3. \A b \in m.entries : /\ b \in entries[target[c]]
                           /\ b.ingest_seq > cursor[c]
                           /\ b.ingest_seq <= m.next_cursor
                           /\ b.ingest_seq \in Nat
    BY <1>1, <1>2 DEF CalmInv, PullFresh, Batch, Row
<1>4. m.next_cursor > cursor[c]
    BY <1>1, <1>2, <1>3
<1>5. /\ target'[c] = target[c] /\ pc'[c] = "pull_save"
      /\ next_cursor'[c] = m.next_cursor
    BY <1>0, <1>1, <1>4 DEF ClientType
<1>6. /\ target[c] \in targets[c]
      /\ cursor[c] = peer_state[host[c]][target[c]]
    BY <1>1 DEF CalmInv, Aim, InStep
<1>7. ASSUME NEW b \in m.entries
      PROVE  /\ <<target[c], b>> \in PullTaken(host[c])'
             /\ <<target[c], b>> \notin PullTaken(host[c])
    <2>1. b \in entries'[target[c]]
        BY <1>0, <1>3, CalmGrow DEF Calm
    <2>2. <<target[c], b>> \in Pulled(host[c])'
        BY <1>6, <2>1 DEF Pulled
    <2>3. PullGot(host[c], target[c], b.ingest_seq)'
        BY <1>3, <1>5 DEF PullGot
    <2>4. ~ PullGot(host[c], target[c], b.ingest_seq)
        <3>1. ~ (b.ingest_seq <= peer_state[host[c]][target[c]])
            BY <1>2, <1>3, <1>6
        <3>2. \A x \in Client : host[x] = host[c] => pc[x] # "pull_save"
            BY <1>1 DEF Calm, OneProcess
        <3>3. QED
            BY <3>1, <3>2 DEF PullGot
    <2>5. QED
        BY <1>5, <2>2, <2>3, <2>4 DEF PullTaken
<1>8. QED
    BY <1>1, <1>2, <1>7

\* The same for the rows of a push.
LEMMA PushGain ==
    ASSUME Calm, CalmInv, [Next]_vars, NEW m \in entries_push, ServePush(m)
    PROVE  \A b \in m.entries :
             /\ <<m.client, b>> \in PushTaken(m.peer)'
             /\ <<m.client, b>> \notin PushTaken(m.peer)
<1> DEFINE c == m.client
<1>0. /\ TypeInv /\ ClientType /\ NoMishap
      /\ c \in Client /\ host[c] \in Device /\ target[c] \in Device
      /\ Batch(m.entries)
    BY TypeGroups, ClientAssumption
       DEF CalmInv, SafeInv, TypeInv, ClientType, MessageType, EntriesPush,
           BatchInv, Batch
<1>1. /\ pc[c] = "push_wait" /\ Answer(c, m)
      /\ \A a \in push_ack : ~ Answer(c, a)
    BY <1>0 DEF CalmInv, OnePush
<1>2. m.peer = target[c] /\ m.entries = batch[c]
    BY <1>0, <1>1 DEF CalmInv, SafeInv, MailInv, PushMail
<1>3. /\ c \in PushClient /\ target[c] \in targets[c]
      /\ cursor[c] = peer_push_state[host[c]][target[c]]
    BY <1>0, <1>1 DEF CalmInv, Aim, InStep
<1>4. \A b \in m.entries : /\ b \in RowsOf(entries[host[c]], host[c])
                           /\ b.ingest_seq > cursor[c]
                           /\ b.ingest_seq <= next_cursor[c]
                           /\ b.ingest_seq \in Nat
    BY <1>0, <1>1, <1>2 DEF CalmInv, PushFresh, Batch, Row
<1>5. /\ UNCHANGED clientVars
      /\ push_ack' = push_ack \cup {[client |-> c, request_id |-> m.request_id,
                                     ok |-> TRUE]}
    BY DEF ServePush, Acknowledge
<1>6. PushStored(c)'
    <2> DEFINE ack == [client |-> c, request_id |-> m.request_id, ok |-> TRUE]
    <2>1. ack \in push_ack' /\ pc'[c] = "push_wait"
        BY <1>1, <1>5 DEF clientVars
    <2>2. ack.client = c /\ ack.request_id = request_id'[c]
        BY <1>1, <1>5 DEF Answer, clientVars
    <2> HIDE DEF ack
    <2>3. QED
        BY <2>1, <2>2 DEF PushStored, Answer
<1>7. ASSUME NEW b \in m.entries
      PROVE  /\ <<c, b>> \in PushTaken(m.peer)'
             /\ <<c, b>> \notin PushTaken(m.peer)
    <2>1. b \in RowsOf(entries'[host[c]], host[c])
        BY <1>0, <1>4, CalmGrow DEF Calm
    <2>2. <<c, b>> \in Pushed(m.peer)'
        BY <1>2, <1>3, <2>1 DEF Pushed
    <2>3. PushGot(c, m.peer, b.ingest_seq)'
        BY <1>2, <1>4, <1>5, <1>6 DEF PushGot, clientVars
    <2>4. ~ PushGot(c, m.peer, b.ingest_seq)
        <3>1. ~ (b.ingest_seq <= peer_push_state[host[c]][m.peer])
            BY <1>0, <1>2, <1>3, <1>4 DEF ClientType
        <3>2. ~ PushStored(c)
            BY <1>1 DEF PushStored
        <3>3. QED
            BY <3>1, <3>2 DEF PushGot
    <2>5. QED
        BY <2>2, <2>3, <2>4 DEF PushTaken
<1>8. QED
    BY <1>7

\* CalmInv is inductive.
LEMMA CalmNext ==
    ASSUME Calm, CalmInv, [Next]_vars
    PROVE  CalmInv'
<1>0. SafeInv /\ TypeInv /\ NoMishap
    BY DEF CalmInv, SafeInv
<1>1. SafeInv'
    BY <1>0, SafeNext
<1>2. NoMishap'
    BY <1>0, NoMishapNext DEF Calm
<1>3. \A c \in Client : InStep(c)'
    BY <1>0, InStepNext DEF Calm, CalmInv
<1>4. \A c \in Client : Aim(c)' /\ OnePush(c)'
    BY <1>0, AimNext, OnePushNext DEF Calm, CalmInv
<1>5. \A c \in Client : PullFresh(c)' /\ PushFresh(c)'
    BY <1>0, PullFreshNext, PushFreshNext DEF Calm
<1>6. QED
    BY <1>1, <1>2, <1>3, <1>4, <1>5 DEF CalmInv

\* The three sets of a device never lose a row, and stay finite.
LEMMA CountsGrow ==
    ASSUME Calm, Finite, CalmInv, CalmInv', [Next]_vars, NEW d \in Device
    PROVE  /\ Recorded(d) \subseteq Recorded(d)'
           /\ IsFiniteSet(Recorded(d)')
           /\ PullTaken(d) \subseteq PullTaken(d)'
           /\ IsFiniteSet(PullTaken(d)')
           /\ PushTaken(d) \subseteq PushTaken(d)'
           /\ IsFiniteSet(PushTaken(d)')
<1>0. TypeInv /\ NoMishap /\ TypeInv' /\ NoMishap'
    BY DEF CalmInv, SafeInv
<1>1. (Finite /\ TypeInv /\ NoMishap)' => OfferFinite'
    BY OfferIsFinite, PTL
<1>2. OfferFinite'
    BY <1>0, <1>1 DEF Finite
<1>3. /\ IsFiniteSet(Recorded(d)')
      /\ IsFiniteSet(Pulled(d)')
      /\ IsFiniteSet(Pushed(d)')
    BY <1>2 DEF OfferFinite
<1>4. /\ PullTaken(d)' \in SUBSET (Pulled(d)')
      /\ PushTaken(d)' \in SUBSET (Pushed(d)')
    BY DEF PullTaken, PushTaken
<1>5. Recorded(d) \subseteq Recorded(d)'
    BY <1>0, CalmGrow DEF Recorded, Calm
<1>6. QED
    BY <1>3, <1>4, <1>5, TakenGrows, FS_Subset

\* A larger finite set has no fewer elements.
LEMMA CountGrows ==
    ASSUME NEW S, NEW S2, S \subseteq S2, IsFiniteSet(S2)
    PROVE  /\ Cardinality(S) \in Nat /\ Cardinality(S2) \in Nat
           /\ Cardinality(S) <= Cardinality(S2)
BY FS_Subset, FS_CardinalityType

\* A device gives out a number only for an entry of its own, for a row of a
\* peer it has not numbered before, or for an own row of a peer it has not
\* been sent before.
LEMMA NumberCases ==
    ASSUME Calm, CalmInv, [Next]_vars, NEW d \in Device
    PROVE  \/ sqlite_sequence'[d] = sqlite_sequence[d]
           \/ /\ sqlite_sequence'[d] = sqlite_sequence[d] + 1
              /\ \E e : e \in Recorded(d)' /\ e \notin Recorded(d)
           \/ \E B, p :
                /\ Batch(B)
                /\ sqlite_sequence'[d] = sqlite_sequence[d] + Cardinality(B)
                /\ \/ \A b \in B : /\ <<p, b>> \in PullTaken(d)'
                                   /\ <<p, b>> \notin PullTaken(d)
                   \/ \A b \in B : /\ <<p, b>> \in PushTaken(d)'
                                   /\ <<p, b>> \notin PushTaken(d)
<1> DEFINE Goal ==
           \/ sqlite_sequence'[d] = sqlite_sequence[d]
           \/ /\ sqlite_sequence'[d] = sqlite_sequence[d] + 1
              /\ \E e : e \in Recorded(d)' /\ e \notin Recorded(d)
           \/ \E B, p :
                /\ Batch(B)
                /\ sqlite_sequence'[d] = sqlite_sequence[d] + Cardinality(B)
                /\ \/ \A b \in B : /\ <<p, b>> \in PullTaken(d)'
                                   /\ <<p, b>> \notin PullTaken(d)
                   \/ \A b \in B : /\ <<p, b>> \in PushTaken(d)'
                                   /\ <<p, b>> \notin PushTaken(d)
<1>0. TypeInv /\ NoMishap
    BY DEF CalmInv, SafeInv
<1>1. ASSUME NEW x \in Device, NEW B, Batch(B), Insert(x, B), x # d
      PROVE  sqlite_sequence'[d] = sqlite_sequence[d]
    BY <1>0, <1>1, InsertEffect
<1>2. ASSUME NEW x \in Device, NEW e \in Entry, Record(x, e) PROVE Goal
    <2> DEFINE B == {[ingest_seq |-> 1, entry_id |-> e]}
    <2>1. Batch(B) /\ Insert(x, B) /\ device_id[e] = x /\ e \notin seen[x]
        BY <1>2, RecordedBatch DEF Record
    <2>2. CASE x = d
        <3>1. /\ sqlite_sequence'[d] = sqlite_sequence[d] + Cardinality(B)
              /\ seen'[d] = seen[d] \cup Ids(B)
            BY <1>0, <2>1, <2>2, InsertEffect
        <3>2. Cardinality(B) = 1
            BY FS_Singleton
        <3>3. e \in Recorded(d)' /\ e \notin Recorded(d)
            BY <2>1, <2>2, <3>1 DEF Recorded, Ids
        <3>4. QED
            BY <3>1, <3>2, <3>3
    <2>3. QED
        BY <1>1, <2>1, <2>2
<1>3. ASSUME NEW c \in Client, PullInsert(c) PROVE Goal
    <2>1. host[c] \in Device
        BY ClientAssumption
    <2>2. PICK B : /\ Batch(B)
                   /\ Insert(host[c], B)
                   /\ \A b \in B : /\ <<target[c], b>> \in PullTaken(host[c])'
                                   /\ <<target[c], b>> \notin PullTaken(host[c])
        BY <1>3, PullGain
    <2>3. CASE host[c] = d
        <3>1. sqlite_sequence'[d] = sqlite_sequence[d] + Cardinality(B)
            BY <1>0, <2>2, <2>3, InsertEffect
        <3>2. \A b \in B : /\ <<target[c], b>> \in PullTaken(d)'
                           /\ <<target[c], b>> \notin PullTaken(d)
            BY <2>2, <2>3
        <3>3. QED
            BY <2>2, <3>1, <3>2
    <2>4. QED
        BY <1>1, <2>1, <2>2, <2>3
<1>4. ASSUME NEW m \in entries_push, ServePush(m) PROVE Goal
    <2>1. /\ m.peer \in Device /\ Batch(m.entries)
          /\ Insert(m.peer, m.entries)
        BY <1>0, <1>4 DEF TypeInv, TypeOK, BatchInv, EntriesPush, Batch, ServePush
    <2>2. CASE m.peer = d
        <3>1. sqlite_sequence'[d] = sqlite_sequence[d] + Cardinality(m.entries)
            BY <1>0, <2>1, <2>2, InsertEffect
        <3>2. \A b \in m.entries : /\ <<m.client, b>> \in PushTaken(d)'
                                   /\ <<m.client, b>> \notin PushTaken(d)
            BY <1>4, <2>2, PushGain
        <3>3. QED
            BY <2>1, <3>1, <3>2
    <2>3. QED
        BY <1>1, <2>1, <2>2
<1>5. QED
    BY <1>0, <1>2, <1>3, <1>4, CalmStore DEF Calm, storeVars

\* What a step numbers is added to what the device has taken.
LEMMA NumberNext ==
    ASSUME Calm, Finite, CalmInv, CalmInv', NumberInv, [Next]_vars
    PROVE  NumberInv'
<1> SUFFICES ASSUME NEW d \in Device
             PROVE  sqlite_sequence'[d] <= Cardinality(Recorded(d)')
                      + Cardinality(PullTaken(d)') + Cardinality(PushTaken(d)')
    BY DEF NumberInv
<1>1. sqlite_sequence[d] <= Cardinality(Recorded(d))
        + Cardinality(PullTaken(d)) + Cardinality(PushTaken(d))
    BY DEF NumberInv
<1>2. sqlite_sequence[d] \in Nat /\ sqlite_sequence'[d] \in Nat
    BY DEF CalmInv, SafeInv, TypeInv, TypeOK
<1>3. /\ Recorded(d) \subseteq Recorded(d)' /\ IsFiniteSet(Recorded(d)')
      /\ PullTaken(d) \subseteq PullTaken(d)' /\ IsFiniteSet(PullTaken(d)')
      /\ PushTaken(d) \subseteq PushTaken(d)' /\ IsFiniteSet(PushTaken(d)')
    BY CountsGrow
<1>4. /\ Cardinality(Recorded(d)) \in Nat /\ Cardinality(Recorded(d)') \in Nat
      /\ Cardinality(Recorded(d)) <= Cardinality(Recorded(d)')
    BY <1>3, CountGrows
<1>5. /\ Cardinality(PullTaken(d)) \in Nat /\ Cardinality(PullTaken(d)') \in Nat
      /\ Cardinality(PullTaken(d)) <= Cardinality(PullTaken(d)')
    BY <1>3, CountGrows
<1>6. /\ Cardinality(PushTaken(d)) \in Nat /\ Cardinality(PushTaken(d)') \in Nat
      /\ Cardinality(PushTaken(d)) <= Cardinality(PushTaken(d)')
    BY <1>3, CountGrows
<1>7. CASE sqlite_sequence'[d] = sqlite_sequence[d]
    BY <1>1, <1>2, <1>4, <1>5, <1>6, <1>7
<1>8. CASE /\ sqlite_sequence'[d] = sqlite_sequence[d] + 1
           /\ \E e : e \in Recorded(d)' /\ e \notin Recorded(d)
    <2>1. PICK e : e \in Recorded(d)' /\ e \notin Recorded(d)
        BY <1>8
    <2>2. IsFiniteSet(Recorded(d))
        BY <1>3, FS_Subset
    <2>3. Cardinality(Recorded(d) \cup {e}) = Cardinality(Recorded(d)) + 1
        BY <2>1, <2>2, FS_AddElement
    <2>4. Cardinality(Recorded(d) \cup {e}) <= Cardinality(Recorded(d)')
        BY <1>3, <2>1, CountGrows
    <2>5. QED
        BY <1>1, <1>2, <1>4, <1>5, <1>6, <1>8, <2>3, <2>4
<1>9. ASSUME NEW B, NEW p, Batch(B),
             sqlite_sequence'[d] = sqlite_sequence[d] + Cardinality(B),
             \A b \in B : <<p, b>> \in PullTaken(d)' /\ <<p, b>> \notin PullTaken(d)
      PROVE  sqlite_sequence'[d] <= Cardinality(Recorded(d)')
               + Cardinality(PullTaken(d)') + Cardinality(PushTaken(d)')
    <2>1. /\ Cardinality(B) \in Nat
          /\ Cardinality(PullTaken(d)) + Cardinality(B)
               <= Cardinality(PullTaken(d)')
        BY <1>3, <1>9, GainedCopy DEF Batch
    <2>2. QED
        BY <1>1, <1>2, <1>4, <1>5, <1>6, <1>9, <2>1
<1>10. ASSUME NEW B, NEW p, Batch(B),
              sqlite_sequence'[d] = sqlite_sequence[d] + Cardinality(B),
              \A b \in B : <<p, b>> \in PushTaken(d)' /\ <<p, b>> \notin PushTaken(d)
       PROVE  sqlite_sequence'[d] <= Cardinality(Recorded(d)')
                + Cardinality(PullTaken(d)') + Cardinality(PushTaken(d)')
    <2>1. /\ Cardinality(B) \in Nat
          /\ Cardinality(PushTaken(d)) + Cardinality(B)
               <= Cardinality(PushTaken(d)')
        BY <1>3, <1>10, GainedCopy DEF Batch
    <2>2. QED
        BY <1>1, <1>2, <1>4, <1>5, <1>6, <1>10, <2>1
<1>11. QED
    BY <1>7, <1>8, <1>9, <1>10, NumberCases

\* A device has taken no more than is on offer.
LEMMA NumberBound == Finite /\ CalmInv /\ NumberInv => EchoBounded
<1> SUFFICES ASSUME Finite, CalmInv, NumberInv, NEW d \in Device
             PROVE  sqlite_sequence[d] <= Cardinality(Recorded(d))
                      + Cardinality(Pulled(d)) + Cardinality(Pushed(d))
    BY DEF EchoBounded
<1>1. sqlite_sequence[d] <= Cardinality(Recorded(d))
        + Cardinality(PullTaken(d)) + Cardinality(PushTaken(d))
    BY DEF NumberInv
<1>2. OfferFinite /\ sqlite_sequence[d] \in Nat
    BY OfferIsFinite DEF CalmInv, SafeInv, TypeInv, TypeOK
<1>3. /\ IsFiniteSet(Recorded(d)) /\ IsFiniteSet(Pulled(d))
      /\ IsFiniteSet(Pushed(d))
    BY <1>2 DEF OfferFinite
<1>4. PullTaken(d) \subseteq Pulled(d) /\ PushTaken(d) \subseteq Pushed(d)
    BY DEF PullTaken, PushTaken
<1>5. /\ Cardinality(PullTaken(d)) \in Nat /\ Cardinality(Pulled(d)) \in Nat
      /\ Cardinality(PullTaken(d)) <= Cardinality(Pulled(d))
    BY <1>3, <1>4, CountGrows
<1>6. /\ Cardinality(PushTaken(d)) \in Nat /\ Cardinality(Pushed(d)) \in Nat
      /\ Cardinality(PushTaken(d)) <= Cardinality(Pushed(d))
    BY <1>3, <1>4, CountGrows
<1>7. Cardinality(Recorded(d)) \in Nat
    BY <1>3, FS_CardinalityType
<1>8. QED
    BY <1>1, <1>2, <1>5, <1>6, <1>7

\* Nothing is numbered and nothing on offer to begin with.
LEMMA CalmInit == Finite /\ Init => CalmInv /\ NumberInv
<1> SUFFICES ASSUME Finite, Init PROVE CalmInv /\ NumberInv
    OBVIOUS
<1>1. SafeInv
    BY SafeInit
<1>2. NoMishap
    BY FS_EmptySet DEF Init, NoMishap
<1>3. \A c \in Client : /\ InStep(c) /\ Aim(c) /\ OnePush(c)
                        /\ PullFresh(c) /\ PushFresh(c)
    BY DEF Init, InStep, Aim, OnePush, PullFresh, PushFresh
<1>4. CalmInv
    BY <1>1, <1>2, <1>3 DEF CalmInv
<1>5. ASSUME NEW d \in Device
      PROVE  sqlite_sequence[d] <= Cardinality(Recorded(d))
               + Cardinality(PullTaken(d)) + Cardinality(PushTaken(d))
    <2>1. /\ Recorded(d) = {} /\ Pulled(d) = {} /\ Pushed(d) = {}
          /\ sqlite_sequence[d] = 0
        <3>1. \A p \in Device : entries[p] = {} /\ seen[p] = {}
            BY DEF Init
        <3>2. Pulled(d) = {}
            BY <3>1, PulledRows, ClientAssumption
        <3>3. Pushed(d) = {}
            BY <3>1, PushedRows, ClientAssumption DEF RowsOf
        <3>4. QED
            BY <3>1, <3>2, <3>3 DEF Init, Recorded
    <2>2. PullTaken(d) = {} /\ PushTaken(d) = {}
        BY <2>1 DEF PullTaken, PushTaken
    <2>3. QED
        BY <2>1, <2>2, FS_EmptySet
<1>6. QED
    BY <1>4, <1>5 DEF NumberInv

\* Echoes die out. With finitely many devices and clients, one process per
\* device, no fault and no prune, a device numbers its own entries, each row
\* of the peers it pulls from and each own row of the peers that push to it
\* once, however often the rows go round: every insert takes numbers only for
\* rows the cursor of the peer in question has not passed.
THEOREM EchoesDieOut ==
    ASSUME OneProcess, MaxFaults = 0, MaxPrunes = 0,
           IsFiniteSet(Device), IsFiniteSet(Client)
    PROVE  Spec => []EchoBounded
<1> DEFINE Inv == CalmInv /\ NumberInv
<1>0. Calm /\ Finite
    BY DEF Calm, Finite
<1>1. Init => Inv
    BY <1>0, CalmInit
<1>2. Inv /\ [Next]_vars => Inv'
    BY <1>0, CalmNext, NumberNext
<1>3. Inv => EchoBounded
    BY <1>0, NumberBound
<1>4. QED
    BY <1>1, <1>2, <1>3, PTL DEF Spec

=============================================================================
