-------------------------- MODULE DiscoveryProofs --------------------------
(***************************************************************************)
(* Proofs about Discovery, for any processes, peers, trackers and bounds:  *)
(* whom a run chooses, what it falls back on, and what the cursors it      *)
(* takes over stand for.                                                   *)
(***************************************************************************)
EXTENDS Discovery, TLAPS

Places == {"idle", "list", "cache", "choose", "discovered", "bail",
           "read_pull", "copy_pull", "read_push", "copy_push",
           "cache_manual", "manual"}

Manually == {"read_pull", "copy_pull", "read_push", "copy_push",
             "cache_manual", "manual"}

-----------------------------------------------------------------------------
(* Types.                                                                  *)

LEMMA GoToType ==
    ASSUME TypeOK, NEW c \in Client, NEW s, GoTo(c, s),
           s \in Places
    PROVE  pc' \in [Client -> Places]
PROOF BY DEF TypeOK, GoTo, Places

LEMMA LaterType ==
    ASSUME NEW n \in Age
    PROVE  Later(n) \in Age
PROOF BY DiscoveryAssumption DEF Age, Never, Later

\* What a day does to the rows of the book.
LEMMA Aged ==
    ASSUME TypeOK, Advance
    PROVE  /\ peer_book' \subseteq Row
           /\ \A r \in peer_book' : \E s \in peer_book :
                /\ r.peer = s.peer /\ r.user = s.user /\ r.device = s.device
                /\ r.age = Later(s.age)
           /\ \A s \in peer_book : \E r \in peer_book' :
                /\ r.peer = s.peer /\ r.user = s.user /\ r.device = s.device
                /\ r.age = Later(s.age)
<1> DEFINE older(r) == [r EXCEPT !.age = Later(@)]
<1>1. peer_book' = {older(r) : r \in peer_book}
    BY DEF Advance
<1>2. ASSUME NEW r \in Row
      PROVE  /\ older(r) \in Row
             /\ older(r).peer = r.peer /\ older(r).user = r.user
             /\ older(r).device = r.device /\ older(r).age = Later(r.age)
    <2>1. Later(r.age) \in Age
        BY LaterType DEF Row
    <2> DEFINE n == Later(r.age)
    <2> HIDE DEF n
    <2>2. older(r) = [r EXCEPT !.age = n]
        BY DEF n
    <2>3. QED
        BY <2>1, <2>2 DEF Row, n
<1>3. \A r \in peer_book : r \in Row
    BY DEF TypeOK
<1> HIDE DEF older
<1>4. \A r \in peer_book' : \E s \in peer_book : r = older(s)
    BY <1>1
<1>5. \A s \in peer_book : older(s) \in peer_book'
    BY <1>1
<1>6. QED
    BY <1>2, <1>3, <1>4, <1>5

LEMMA InitType == Init => TypeOK
<1>1. Never \in Age
    BY DiscoveryAssumption DEF Never, Age
<1>2. Head \in Nat /\ TrackerCount \in Nat \ {0} /\ MaxFaults \in Nat
    BY DiscoveryAssumption
<1>3. ASSUME Init
      PROVE  /\ cursors \in [Table -> [Key -> [Peer -> {None} \cup 0..Head]]]
             /\ covered \in [Table -> [Peer -> 0..Head]]
    <2>1. PICK old \in [Table -> {f \in [Peer -> {None} \cup 1..Head] :
                                  \A p \in Peer \ Carried : f[p] = None}] :
             /\ cursors = [t \in Table |->
                  [k \in Key |-> IF k = "multiaddr" THEN old[t]
                                 ELSE [p \in Peer |-> None]]]
             /\ covered = [t \in Table |-> [p \in Peer |-> OrZero(old[t][p])]]
        BY <1>3 DEF Init
    <2>2. \A t \in Table : old[t] \in [Peer -> {None} \cup 1..Head]
        OBVIOUS
    <2>3. \A t \in Table, p \in Peer : OrZero(old[t][p]) \in 0..Head
        BY <2>2, <1>2 DEF OrZero
    <2>4. \A t \in Table : old[t] \in [Peer -> {None} \cup 0..Head]
        BY <2>2, <1>2
    <2>5. QED
        BY <2>1, <2>3, <2>4
<1>4. ASSUME Init
      PROVE  /\ peer_book \subseteq Row
             /\ pc \in [Client -> Places]
             /\ tracker \in [Client -> 1..TrackerCount]
             /\ answer \in [Client -> SUBSET Peer]
             /\ by_peer \in [Client -> SUBSET Peer]
    BY <1>2, <1>4 DEF Init, Places
<1>5. ASSUME Init
      PROVE  /\ found \in [Client -> {None} \cup 0..Head]
             /\ listed \in [Peer -> Age]
             /\ faults \in 0..MaxFaults
    BY <1>1, <1>2, <1>5 DEF Init
<1>6. QED
    BY <1>3, <1>4, <1>5 DEF TypeOK, Places

\* A cursor is set in one row of one table.
CursorSet(t, p, n) == cursors' = [cursors EXCEPT ![t]["peer_id"][p] = n]

LEMMA SetCursor ==
    ASSUME TypeOK, NEW t \in Table, NEW p \in Peer,
           NEW n \in {None} \cup 0..Head, CursorSet(t, p, n)
    PROVE  /\ cursors' \in [Table -> [Key -> [Peer -> {None} \cup 0..Head]]]
           /\ OrZero(cursors'[t]["peer_id"][p]) = OrZero(n)
           /\ \A u \in Table, k \in Key, q \in Peer :
                ~ (u = t /\ k = "peer_id" /\ q = p) =>
                    cursors'[u][k][q] = cursors[u][k][q]
<1>1. /\ cursors \in [Table -> [Key -> [Peer -> {None} \cup 0..Head]]]
      /\ "peer_id" \in Key
    BY DEF TypeOK, Key
<1> DEFINE V == {None} \cup 0..Head
           row == [cursors[t]["peer_id"] EXCEPT ![p] = n]
           table == [cursors[t] EXCEPT !["peer_id"] = row]
<1>2. /\ row \in [Peer -> V]
      /\ \A q \in Peer : row[q] = IF q = p THEN n ELSE cursors[t]["peer_id"][q]
    BY <1>1
<1>3. cursors' = [cursors EXCEPT ![t] = table]
    BY <1>1 DEF CursorSet
<1> HIDE DEF row
<1>4. /\ table \in [Key -> [Peer -> V]]
      /\ \A k \in Key : table[k] = IF k = "peer_id" THEN row ELSE cursors[t][k]
    BY <1>1, <1>2
<1> HIDE DEF table, V
<1>5. /\ cursors' \in [Table -> [Key -> [Peer -> V]]]
      /\ \A u \in Table : cursors'[u] = IF u = t THEN table ELSE cursors[u]
    BY <1>1, <1>3, <1>4 DEF V
<1>6. cursors'[t]["peer_id"][p] = n
    BY <1>1, <1>2, <1>4, <1>5
<1>7. QED
    BY <1>2, <1>4, <1>5, <1>6 DEF V

\* A row of the book has the type of one, whichever way it was made.
LEMMA UpsertType ==
    ASSUME TypeOK, NEW row \in Row, upsert_peer_book(row)
    PROVE  peer_book' \subseteq Row
PROOF BY DEF TypeOK, upsert_peer_book

LEMMA DiscoverType ==
    ASSUME TypeOK, NEW c \in Client, Discover(c)
    PROVE  TypeOK'
<1> USE DiscoveryAssumption
<1>1. ASSUME NextTracker(c)
      PROVE  /\ pc' \in [Client -> Places]
             /\ tracker' \in [Client -> 1..TrackerCount]
    <2>1. tracker \in [Client -> 1..TrackerCount]
        BY DEF TypeOK
    <2>2. CASE tracker[c] < TrackerCount
        <3>1. tracker[c] + 1 \in 1..TrackerCount
            BY <2>1, <2>2
        <3>2. tracker' \in [Client -> 1..TrackerCount]
            BY <1>1, <2>1, <2>2, <3>1 DEF NextTracker
        <3>3. GoTo(c, "list") /\ "list" \in Places
            BY <1>1, <2>2 DEF NextTracker, Places
        <3>4. QED
            BY <3>2, <3>3, GoToType
    <2>3. CASE ~ (tracker[c] < TrackerCount)
        <3>1. /\ GoTo(c, "choose") /\ "choose" \in Places
              /\ UNCHANGED tracker
            BY <1>1, <2>3 DEF NextTracker, Places
        <3>2. QED
            BY <2>1, <3>1, GoToType
    <2>4. QED
        BY <2>2, <2>3
<1>2. CASE StartDiscovery(c)
    BY <1>2, GoToType DEF Places, StartDiscovery, TypeOK, tableVars, historyVars
<1>3. CASE ListAnswered(c)
    BY <1>3, GoToType DEF Places, ListAnswered, TypeOK, tableVars, historyVars
<1>4. CASE ListFailed(c)
    BY <1>4, <1>1 DEF Places, ListFailed, TypeOK, tableVars, historyVars
<1>5. CASE AnswerCached(c)
    BY <1>5, <1>1 DEF Places, AnswerCached, TypeOK, tableVars, historyVars
<1>6. CASE Choose(c)
    <2>1. {r.peer : r \in {x \in list_peer_book : ~ IsSelf(x.device)}}
             \subseteq Peer
        BY DEF TypeOK, Row, list_peer_book
    <2>2. by_peer' \in [Client -> SUBSET Peer]
        BY <1>6, <2>1 DEF Choose, TypeOK
    <2>3. QED
        BY <1>6, <2>2, GoToType DEF Places, Choose, TypeOK, tableVars, historyVars
<1>7. ASSUME NEW p \in Peer, CachePeer(c, p)
      PROVE  TypeOK'
    <2>1. [peer |-> p, user |-> user[p], device |-> device[p], age |-> 0] \in Row
        BY DEF Row, Age, Never
    <2>2. peer_book' \subseteq Row
        <3>1. CASE IsSelf(device[p])
            BY <1>7, <3>1 DEF CachePeer, TypeOK
        <3>2. CASE ~ IsSelf(device[p])
            BY <1>7, <2>1, <3>2, UpsertType DEF CachePeer
        <3>3. QED
            BY <3>1, <3>2
    <2>3. 0 \in Age /\ Never \in Age
        BY DEF Age, Never
    <2>4. answer' \in [Client -> SUBSET Peer] /\ by_peer' \in [Client -> SUBSET Peer]
        BY <1>7 DEF CachePeer, TypeOK
    <2>5. listed' \in [Peer -> Age]
        BY <1>7, <2>3 DEF CachePeer, TypeOK
    <2>6. QED
        BY <1>7, <2>2, <2>4, <2>5 DEF CachePeer, TypeOK
<1>8. QED
    BY <1>2, <1>3, <1>4, <1>5, <1>6, <1>7 DEF Discover

LEMMA ManualType ==
    ASSUME TypeOK, NEW c \in Client, Manual(c)
    PROVE  TypeOK'
<1> USE DiscoveryAssumption
<1>1. ASSUME NEW p \in Peer, StartManual(c, p)
      PROVE  TypeOK'
    BY <1>1, GoToType DEF Places, StartManual, TypeOK, tableVars, historyVars
<1>2. ASSUME NEW p \in Peer, CacheManual(c, p)
      PROVE  TypeOK'
    <2>1. [peer |-> p, user |-> None, device |-> None, age |-> 0] \in Row
        BY DEF Row, Age, Never
    <2>2. peer_book' \subseteq Row
        BY <1>2, <2>1, UpsertType DEF CacheManual
    <2>3. 0 \in Age /\ Never \in Age
        BY DEF Age, Never
    <2>4. QED
        BY <1>2, <2>2, <2>3, GoToType DEF Places, CacheManual, TypeOK
<1>3. ASSUME NEW p \in Peer, NEW t \in Table, ReadOld(c, t, p)
      PROVE  TypeOK'
    <2>1. cursors[t]["multiaddr"][p] \in {None} \cup 0..Head
        BY DEF TypeOK, Key
    <2>2. QED
        BY <1>3, <2>1, GoToType
           DEF Places, ReadOld, TypeOK, tableVars, historyVars, CopyStep, NextStep
<1>4. ASSUME NEW p \in Peer, NEW t \in Table, CopyOld(c, t, p)
      PROVE  TypeOK'
    <2>1. cursors' \in [Table -> [Key -> [Peer -> {None} \cup 0..Head]]]
        <3>1. found[c] \in {None} \cup 0..Head
            BY DEF TypeOK
        <3>2. QED
            BY <1>4, <3>1, SetCursor DEF CopyOld, CursorSet
    <2>2. QED
        BY <1>4, <2>1, GoToType DEF Places, CopyOld, TypeOK, historyVars, NextStep
<1>5. QED
    BY <1>1, <1>2, <1>3, <1>4 DEF Manual

LEMMA TypeStep == TypeOK /\ [Next]_vars => TypeOK'
<1> SUFFICES ASSUME TypeOK, [Next]_vars PROVE TypeOK'
    OBVIOUS
<1> USE DiscoveryAssumption
<1>1. ASSUME NEW c \in Client, NEW t \in Table, NEW p \in Peer,
             Transfer(c, t, p)
      PROVE  TypeOK'
    <2>1. PICK n \in 1..Head :
             /\ cursors' = [cursors EXCEPT ![t]["peer_id"][p] = n]
             /\ covered' = [covered EXCEPT ![t][p] = IF n > @ THEN n ELSE @]
        BY <1>1 DEF Transfer
    <2>2. cursors' \in [Table -> [Key -> [Peer -> {None} \cup 0..Head]]]
        <3>1. n \in {None} \cup 0..Head
            OBVIOUS
        <3>2. QED
            BY <2>1, <3>1, SetCursor DEF CursorSet
    <2>3. covered' \in [Table -> [Peer -> 0..Head]]
        BY <2>1 DEF TypeOK
    <2>4. QED
        BY <1>1, <2>2, <2>3 DEF Transfer, TypeOK, clientVars
<1>2. ASSUME NEW c \in Client, EndSync(c)
      PROVE  TypeOK'
    BY <1>2, GoToType DEF Places, EndSync, TypeOK, tableVars, historyVars
<1>3. CASE Advance
    <2>1. peer_book' \subseteq Row
        BY <1>3, Aged DEF TypeOK
    <2>2. listed' \in [Peer -> Age]
        BY <1>3, LaterType DEF Advance, TypeOK
    <2>3. QED
        BY <1>3, <2>1, <2>2 DEF Advance, TypeOK, clientVars
<1>4. CASE UNCHANGED vars
    BY <1>4 DEF vars, TypeOK, tableVars, clientVars, historyVars
<1>5. QED
    BY <1>1, <1>2, <1>3, <1>4, DiscoverType, ManualType DEF Next

\* Every variable has its type, for all constants.
THEOREM DiscoveryTypes == Spec => []TypeOK
<1>1. QED
    BY InitType, TypeStep, PTL DEF Spec

-----------------------------------------------------------------------------
(* Whom a run chooses.                                                     *)

Mine(p) == user[p] = my_user /\ device[p] # my_device

\* A row of the book is either that of a peer a tracker listed, as it
\* registered, or of one given by hand.
BookRow(r) ==
    \/ r.user = user[r.peer] /\ r.device = device[r.peer]
    \/ r.user = None /\ r.device = None

\* Trackers answer with peers of this user, and whatever was taken from the
\* answers or the book is another device of this user.
ChoiceInv ==
    /\ \A r \in peer_book : BookRow(r)
    /\ \A c \in Client : \A p \in answer[c] : user[p] = my_user
    /\ \A c \in Client : pc[c] \in {"list", "cache", "choose", "discovered"} =>
         \A p \in by_peer[c] : Mine(p)

\* A step that moves a process without touching what it chose.
LEMMA MoveKeeps ==
    ASSUME TypeOK, ChoiceInv, NEW c \in Client, NEW s, GoTo(c, s),
           UNCHANGED <<peer_book, answer, by_peer>>,
           s \in {"list", "cache", "choose", "discovered"} =>
             pc[c] \in {"list", "cache", "choose", "discovered"}
    PROVE  ChoiceInv'
PROOF BY DEF ChoiceInv, TypeOK, GoTo, BookRow

LEMMA NextTrackerGoes ==
    ASSUME NEW c \in Client, NextTracker(c)
    PROVE  \E s \in {"list", "choose"} : GoTo(c, s)
PROOF BY DEF NextTracker

LEMMA ChoiceDiscover ==
    ASSUME TypeOK, ChoiceInv, NEW c \in Client, Discover(c)
    PROVE  ChoiceInv'
<1> DEFINE Discovering == {"list", "cache", "choose", "discovered"}
<1>1. CASE StartDiscovery(c)
    BY <1>1 DEF StartDiscovery, ChoiceInv, TypeOK, GoTo, tableVars, BookRow
<1>2. CASE ListAnswered(c)
    BY <1>2 DEF ListAnswered, ChoiceInv, TypeOK, GoTo, tableVars, BookRow
<1>3. CASE ListFailed(c)
    <2>1. PICK s \in {"list", "choose"} : GoTo(c, s)
        BY <1>3, NextTrackerGoes DEF ListFailed
    <2>2. QED
        BY <1>3, <2>1, MoveKeeps DEF ListFailed, tableVars
<1>4. CASE AnswerCached(c)
    <2>1. PICK s \in {"list", "choose"} : GoTo(c, s)
        BY <1>4, NextTrackerGoes DEF AnswerCached
    <2>2. QED
        BY <1>4, <2>1, MoveKeeps DEF AnswerCached, tableVars
<1>5. CASE Choose(c)
    <2> DEFINE cached == {r.peer : r \in {x \in list_peer_book :
                                            ~ IsSelf(x.device)}}
               all == IF by_peer[c] = {} THEN cached ELSE by_peer[c]
    <2>1. \A p \in cached : Mine(p)
        <3>1. ASSUME NEW r \in peer_book, r.user = my_user,
                     ~ IsSelf(r.device)
              PROVE  Mine(r.peer)
            <4>1. BookRow(r) /\ my_user # None
                BY DiscoveryAssumption DEF ChoiceInv
            <4>2. QED
                BY <3>1, <4>1 DEF BookRow, Mine, IsSelf
        <3>2. QED
            BY <3>1 DEF list_peer_book
    <2>2. \A p \in all : Mine(p)
        BY <1>5, <2>1 DEF Choose, ChoiceInv
    <2>3. /\ by_peer' = [by_peer EXCEPT ![c] = all]
          /\ UNCHANGED <<peer_book, answer>>
          /\ \E s \in {"bail", "discovered"} : GoTo(c, s)
        BY <1>5 DEF Choose, tableVars
    <2> HIDE DEF cached, all
    <2>4. QED
        BY <2>2, <2>3 DEF ChoiceInv, TypeOK, GoTo, BookRow
<1>6. ASSUME NEW p \in Peer, CachePeer(c, p)
      PROVE  ChoiceInv'
    <2>1. CASE IsSelf(device[p])
        BY <1>6, <2>1 DEF CachePeer, ChoiceInv, TypeOK, BookRow
    <2>2. CASE ~ IsSelf(device[p])
        <3>1. Mine(p)
            BY <1>6, <2>2 DEF CachePeer, ChoiceInv, Mine, IsSelf
        <3>2. \A r \in peer_book' : BookRow(r)
            BY <1>6, <2>2 DEF CachePeer, ChoiceInv, upsert_peer_book, BookRow
        <3>3. /\ by_peer' = [by_peer EXCEPT ![c] = @ \cup {p}]
              /\ answer' = [answer EXCEPT ![c] = @ \ {p}]
              /\ UNCHANGED pc /\ pc[c] = "cache"
            BY <1>6, <2>2 DEF CachePeer
        <3>4. QED
            BY <3>1, <3>2, <3>3 DEF ChoiceInv, TypeOK
    <2>3. QED
        BY <2>1, <2>2
<1>7. QED
    BY <1>1, <1>2, <1>3, <1>4, <1>5, <1>6 DEF Discover

LEMMA ChoiceManual ==
    ASSUME TypeOK, ChoiceInv, NEW c \in Client, Manual(c)
    PROVE  ChoiceInv'
<1>1. ASSUME NEW p \in Peer, StartManual(c, p)
      PROVE  ChoiceInv'
    BY <1>1 DEF StartManual, ChoiceInv, TypeOK, GoTo, tableVars, BookRow
<1>2. ASSUME NEW p \in Peer, CacheManual(c, p)
      PROVE  ChoiceInv'
    <2>1. \A r \in peer_book' : BookRow(r)
        BY <1>2 DEF CacheManual, ChoiceInv, upsert_peer_book, BookRow
    <2>2. QED
        BY <1>2, <2>1 DEF CacheManual, ChoiceInv, TypeOK, GoTo
<1>3. ASSUME NEW p \in Peer, NEW t \in Table, ReadOld(c, t, p)
      PROVE  ChoiceInv'
    BY <1>3, MoveKeeps DEF ReadOld, tableVars, CopyStep, NextStep
<1>4. ASSUME NEW p \in Peer, NEW t \in Table, CopyOld(c, t, p)
      PROVE  ChoiceInv'
    BY <1>4, MoveKeeps DEF CopyOld, NextStep
<1>5. QED
    BY <1>1, <1>2, <1>3, <1>4 DEF Manual

LEMMA ChoiceStep ==
    ASSUME TypeOK, ChoiceInv, [Next]_vars
    PROVE  ChoiceInv'
<1>1. ASSUME NEW c \in Client, NEW t \in Table, NEW p \in Peer,
             Transfer(c, t, p)
      PROVE  ChoiceInv'
    BY <1>1 DEF Transfer, ChoiceInv, clientVars, BookRow
<1>2. ASSUME NEW c \in Client, EndSync(c)
      PROVE  ChoiceInv'
    BY <1>2 DEF EndSync, ChoiceInv, TypeOK, GoTo, tableVars, BookRow
<1>3. CASE Advance
    <2>1. \A r \in peer_book' : BookRow(r)
        BY <1>3, Aged DEF ChoiceInv, BookRow
    <2>2. QED
        BY <1>3, <2>1 DEF Advance, ChoiceInv, clientVars
<1>4. CASE UNCHANGED vars
    BY <1>4 DEF vars, tableVars, clientVars, ChoiceInv, BookRow
<1>5. QED
    BY <1>1, <1>2, <1>3, <1>4, ChoiceDiscover, ChoiceManual DEF Next

LEMMA ChoiceInit == Init => ChoiceInv
PROOF BY DEF Init, ChoiceInv

LEMMA ChoiceAlways == Spec => [](TypeOK /\ ChoiceInv)
<1>1. TypeOK /\ ChoiceInv /\ [Next]_vars => (TypeOK /\ ChoiceInv)'
    BY TypeStep, ChoiceStep
<1>2. QED
    BY <1>1, InitType, ChoiceInit, PTL DEF Spec

\* discover_targets chooses neither this device nor a peer of another user,
\* in any mix of runs.
THEOREM ChoosesOwnDevices == Spec => []OwnOtherDevices
<1>1. ChoiceInv => OwnOtherDevices
    BY DEF ChoiceInv, OwnOtherDevices, Mine
<1>2. QED
    BY <1>1, ChoiceAlways, PTL

-----------------------------------------------------------------------------
(* The fallback.                                                           *)

\* What a tracker listed lately is in the book, where list_peer_book finds it.
ListedInv ==
    \A p \in Peer : listed[p] <= MaxAge =>
        /\ Mine(p)
        /\ \E r \in peer_book : /\ r.peer = p /\ r.age = listed[p]
                                /\ r.user = user[p] /\ r.device = device[p]

LEMMA UpsertKeeps ==
    ASSUME NEW row, upsert_peer_book(row), NEW r \in peer_book,
           r.peer # row.peer
    PROVE  r \in peer_book'
PROOF BY DEF upsert_peer_book

LEMMA ListedStep ==
    ASSUME TypeOK, ChoiceInv, ListedInv, [Next]_vars
    PROVE  ListedInv'
<1>1. CASE UNCHANGED <<peer_book, listed>>
    BY <1>1 DEF ListedInv
<1>2. ASSUME NEW c \in Client, NEW p \in Peer, CachePeer(c, p),
             ~ IsSelf(device[p])
      PROVE  ListedInv'
    <2> DEFINE row == [peer |-> p, user |-> user[p], device |-> device[p],
                       age |-> 0]
    <2>1. /\ upsert_peer_book(row)
          /\ listed' = [listed EXCEPT ![p] = 0]
        BY <1>2 DEF CachePeer
    <2>2. Mine(p)
        BY <1>2 DEF CachePeer, ChoiceInv, Mine, IsSelf
    <2>3. row \in peer_book' /\ listed'[p] = 0
        BY <2>1 DEF upsert_peer_book, TypeOK
    <2>4. ASSUME NEW q \in Peer, q # p, listed'[q] <= MaxAge
          PROVE  /\ Mine(q)
                 /\ \E r \in peer_book' : /\ r.peer = q /\ r.age = listed'[q]
                                          /\ r.user = user[q]
                                          /\ r.device = device[q]
        <3>1. listed'[q] = listed[q]
            BY <2>1, <2>4 DEF TypeOK
        <3>2. PICK r \in peer_book : /\ r.peer = q /\ r.age = listed[q]
                                     /\ r.user = user[q]
                                     /\ r.device = device[q]
            BY <2>4, <3>1 DEF ListedInv
        <3>3. r \in peer_book'
            BY <2>1, <2>4, <3>2, UpsertKeeps
        <3>4. QED
            BY <2>4, <3>1, <3>2, <3>3 DEF ListedInv
    <2>5. QED
        BY <2>2, <2>3, <2>4 DEF ListedInv
<1>3. ASSUME NEW c \in Client, NEW p \in Peer, CacheManual(c, p)
      PROVE  ListedInv'
    <2> DEFINE row == [peer |-> p, user |-> None, device |-> None, age |-> 0]
    <2>1. /\ upsert_peer_book(row)
          /\ listed' = [listed EXCEPT ![p] = Never]
        BY <1>3 DEF CacheManual
    <2>2. ~ (listed'[p] <= MaxAge)
        BY <2>1, DiscoveryAssumption DEF TypeOK, Never
    <2>3. ASSUME NEW q \in Peer, q # p, listed'[q] <= MaxAge
          PROVE  /\ Mine(q)
                 /\ \E r \in peer_book' : /\ r.peer = q /\ r.age = listed'[q]
                                          /\ r.user = user[q]
                                          /\ r.device = device[q]
        <3>1. listed'[q] = listed[q]
            BY <2>1, <2>3 DEF TypeOK
        <3>2. PICK r \in peer_book : /\ r.peer = q /\ r.age = listed[q]
                                     /\ r.user = user[q]
                                     /\ r.device = device[q]
            BY <2>3, <3>1 DEF ListedInv
        <3>3. r \in peer_book'
            BY <2>1, <2>3, <3>2, UpsertKeeps
        <3>4. QED
            BY <2>3, <3>1, <3>2, <3>3 DEF ListedInv
    <2>4. QED
        BY <2>2, <2>3 DEF ListedInv
<1>4. CASE Advance
    <2>1. ASSUME NEW p \in Peer, listed'[p] <= MaxAge
          PROVE  /\ Mine(p)
                 /\ \E r \in peer_book' : /\ r.peer = p /\ r.age = listed'[p]
                                          /\ r.user = user[p]
                                          /\ r.device = device[p]
        <3>1. listed'[p] = Later(listed[p]) /\ listed[p] \in Nat
            BY <1>4 DEF Advance, TypeOK, Age
        <3>2. listed[p] <= MaxAge
            BY <2>1, <3>1, DiscoveryAssumption DEF Later, Never
        <3>3. PICK s \in peer_book : /\ s.peer = p /\ s.age = listed[p]
                                     /\ s.user = user[p]
                                     /\ s.device = device[p]
            BY <3>2 DEF ListedInv
        <3>4. \E r \in peer_book' : /\ r.peer = s.peer /\ r.user = s.user
                                    /\ r.device = s.device
                                    /\ r.age = Later(s.age)
            BY <1>4, Aged
        <3>5. QED
            BY <3>1, <3>2, <3>3, <3>4 DEF ListedInv
    <2>2. QED
        BY <2>1 DEF ListedInv
<1>5. ASSUME NEW c \in Client, Discover(c)
      PROVE  ListedInv'
    <2>1. CASE UNCHANGED <<peer_book, listed>>
        BY <1>1, <2>1
    <2>2. ASSUME NEW p \in Peer, CachePeer(c, p)
          PROVE  ListedInv'
        BY <1>1, <1>2, <2>2 DEF CachePeer
    <2>3. QED
        BY <1>5, <2>1, <2>2 DEF Discover, StartDiscovery, ListAnswered,
            ListFailed, AnswerCached, Choose, tableVars, historyVars
<1>6. ASSUME NEW c \in Client, Manual(c)
      PROVE  ListedInv'
    <2>1. ASSUME NEW p \in Peer, StartManual(c, p)
          PROVE  UNCHANGED <<peer_book, listed>>
        BY <2>1 DEF StartManual, tableVars, historyVars
    <2>2. ASSUME NEW p \in Peer, NEW t \in Table,
                 ReadOld(c, t, p) \/ CopyOld(c, t, p)
          PROVE  UNCHANGED <<peer_book, listed>>
        BY <2>2 DEF ReadOld, CopyOld, tableVars, historyVars
    <2>3. QED
        BY <1>1, <1>3, <1>6, <2>1, <2>2 DEF Manual
<1>7. ASSUME NEW c \in Client, NEW t \in Table, NEW p \in Peer,
             Transfer(c, t, p)
      PROVE  ListedInv'
    BY <1>1, <1>7 DEF Transfer
<1>8. ASSUME NEW c \in Client, EndSync(c)
      PROVE  ListedInv'
    BY <1>1, <1>8 DEF EndSync, tableVars, historyVars
<1>9. CASE UNCHANGED vars
    BY <1>1, <1>9 DEF vars, tableVars, historyVars
<1>10. QED
    BY <1>4, <1>5, <1>6, <1>7, <1>8, <1>9 DEF Next

LEMMA ListedInit == Init => ListedInv
<1>1. ASSUME NEW p \in Peer, Init
      PROVE  ~ (listed[p] <= MaxAge)
    BY <1>1, DiscoveryAssumption DEF Init, Never
<1>2. QED
    BY <1>1 DEF ListedInv

\* A run that finds nothing leaves out no peer that a tracker listed in the
\* last MaxAge and that was not given by hand since.
THEOREM FallsBackOnListed == Spec => ListedPeersFallBack
<1>1. ASSUME TypeOK, ChoiceInv, ListedInv, NEW c \in Client, Choose(c),
             by_peer'[c] = {}, NEW p \in Peer
      PROVE  listed[p] > MaxAge
    <2> DEFINE cached == {r.peer : r \in {x \in list_peer_book :
                                            ~ IsSelf(x.device)}}
    <2>1. cached = {}
        BY <1>1 DEF Choose, TypeOK
    <2>2. listed[p] \in Nat /\ MaxAge \in Nat
        BY <1>1, DiscoveryAssumption DEF TypeOK, Age
    <2> SUFFICES ASSUME listed[p] <= MaxAge PROVE FALSE
        BY <2>2
    <2>3. PICK r \in peer_book : /\ r.peer = p /\ r.age <= MaxAge
                                 /\ r.user = user[p] /\ r.device = device[p]
        BY <1>1 DEF ListedInv
    <2>4. Mine(p)
        BY <1>1 DEF ListedInv
    <2>5. p \in cached
        BY <2>3, <2>4 DEF Mine, list_peer_book, IsSelf
    <2>6. QED
        BY <2>1, <2>5
<1>2. TypeOK /\ ChoiceInv /\ ListedInv /\ [Next]_vars
        => [\A c \in Client : Choose(c) /\ by_peer'[c] = {} =>
              \A p \in Peer : listed[p] > MaxAge]_vars
    BY <1>1
<1>3. TypeOK /\ ChoiceInv /\ ListedInv /\ [Next]_vars
        => (TypeOK /\ ChoiceInv /\ ListedInv)'
    BY TypeStep, ChoiceStep, ListedStep
<1>4. QED
    BY <1>2, <1>3, InitType, ChoiceInit, ListedInit, PTL
       DEF Spec, ListedPeersFallBack

-----------------------------------------------------------------------------
(* The cursors taken over.                                                 *)

Covered(t, p, n) == OrZero(n) <= covered[t][p]

\* A manual run has one target, and the cursor it is about to copy is one of
\* that target's in the same table.
CopyInv ==
    /\ CursorsCovered
    /\ \A c \in Client : pc[c] \in Manually =>
         \A p, q \in by_peer[c] : p = q
    /\ \A c \in Client, t \in Table : pc[c] = CopyStep(t) =>
         \A p \in by_peer[c] : Covered(t, p, found[c])

\* A step of one process that leaves the cursors alone.
LEMMA CopyKeeps ==
    ASSUME TypeOK, CopyInv, NEW c \in Client, NEW s, GoTo(c, s),
           UNCHANGED <<cursors, covered>>,
           \A x \in Client \ {c} : /\ by_peer'[x] = by_peer[x]
                                   /\ found'[x] = found[x],
           s \in Manually => \A p, q \in by_peer'[c] : p = q,
           \A t \in Table : s = CopyStep(t) =>
             \A p \in by_peer'[c] : Covered(t, p, found'[c])
    PROVE  CopyInv'
<1>1. CursorsCovered'
    BY DEF CopyInv, CursorsCovered
<1>2. ASSUME NEW x \in Client
      PROVE  /\ pc'[x] \in Manually => \A p, q \in by_peer'[x] : p = q
             /\ \A t \in Table : pc'[x] = CopyStep(t) =>
                  \A p \in by_peer'[x] : Covered(t, p, found'[x])
    <2>1. CASE x = c
        BY <2>1 DEF GoTo, TypeOK
    <2>2. CASE x # c
        <3>1. pc'[x] = pc[x]
            BY <2>2 DEF GoTo, TypeOK
        <3>2. QED
            BY <2>2, <3>1 DEF CopyInv
    <2>3. QED
        BY <2>1, <2>2
<1>3. QED
    BY <1>1, <1>2 DEF CopyInv, Covered


LEMMA CopyDiscover ==
    ASSUME TypeOK, CopyInv, NEW c \in Client, Discover(c)
    PROVE  CopyInv'
<1> DEFINE There == {"list", "cache", "choose", "discovered", "bail"}
<1>1. ASSUME NEW s \in There, GoTo(c, s), UNCHANGED <<cursors, covered>>,
             \A x \in Client \ {c} : /\ by_peer'[x] = by_peer[x]
                                     /\ found'[x] = found[x]
      PROVE  CopyInv'
    <2>1. s \notin Manually /\ \A t \in Table : s # CopyStep(t)
        BY <1>1 DEF Manually, CopyStep
    <2>2. QED
        BY <1>1, <2>1, CopyKeeps
<1>2. CASE StartDiscovery(c)
    BY <1>1, <1>2 DEF StartDiscovery, TypeOK, tableVars, historyVars
<1>3. CASE ListAnswered(c)
    BY <1>1, <1>3 DEF ListAnswered, TypeOK, tableVars, historyVars
<1>4. CASE ListFailed(c)
    BY <1>1, <1>4, NextTrackerGoes
       DEF ListFailed, TypeOK, tableVars, historyVars
<1>5. CASE AnswerCached(c)
    BY <1>1, <1>5, NextTrackerGoes
       DEF AnswerCached, TypeOK, tableVars, historyVars
<1>6. CASE Choose(c)
    <2>1. \E s \in There : GoTo(c, s)
        BY <1>6 DEF Choose
    <2>2. /\ UNCHANGED <<cursors, covered, found>>
          /\ \A x \in Client \ {c} : by_peer'[x] = by_peer[x]
        BY <1>6 DEF Choose, TypeOK, tableVars, historyVars
    <2>3. QED
        BY <1>1, <2>1, <2>2
<1>7. ASSUME NEW p \in Peer, CachePeer(c, p)
      PROVE  CopyInv'
    <2>1. /\ GoTo(c, "cache")
          /\ UNCHANGED <<cursors, covered, found>>
        BY <1>7 DEF CachePeer, GoTo, TypeOK
    <2>2. \A x \in Client \ {c} : by_peer'[x] = by_peer[x]
        BY <1>7 DEF CachePeer, TypeOK
    <2>3. QED
        BY <1>1, <2>1, <2>2
<1>8. QED
    BY <1>2, <1>3, <1>4, <1>5, <1>6, <1>7 DEF Discover

LEMMA CopyManual ==
    ASSUME TypeOK, CopyInv, NEW c \in Client, Manual(c)
    PROVE  CopyInv'
<1>1. ASSUME NEW p \in Peer, StartManual(c, p)
      PROVE  CopyInv'
    <2>1. /\ by_peer'[c] = {p}
          /\ \A x \in Client \ {c} : /\ by_peer'[x] = by_peer[x]
                                     /\ found'[x] = found[x]
          /\ UNCHANGED <<cursors, covered>>
          /\ GoTo(c, "read_pull")
        BY <1>1 DEF StartManual, TypeOK, tableVars, historyVars
    <2>2. \A t \in Table : "read_pull" # CopyStep(t)
        BY DEF CopyStep
    <2>3. QED
        BY <2>1, <2>2, CopyKeeps
<1>2. ASSUME NEW p \in Peer, CacheManual(c, p)
      PROVE  CopyInv'
    <2>1. /\ UNCHANGED <<by_peer, found, cursors, covered>>
          /\ GoTo(c, "manual") /\ pc[c] = "cache_manual"
        BY <1>2 DEF CacheManual
    <2>2. \A t \in Table : "manual" # CopyStep(t)
        BY DEF CopyStep
    <2>3. \A q, r \in by_peer[c] : q = r
        BY <2>1 DEF CopyInv, Manually
    <2>4. QED
        BY <2>1, <2>2, <2>3, CopyKeeps
<1>3. ASSUME NEW p \in Peer, NEW t \in Table, ReadOld(c, t, p)
      PROVE  CopyInv'
    <2> DEFINE old == cursors[t]["multiaddr"][p]
    <2>1. /\ UNCHANGED <<by_peer, cursors, covered>>
          /\ found' = [found EXCEPT ![c] = old]
          /\ p \in by_peer[c] /\ pc[c] = ReadStep(t)
          /\ \E s \in {CopyStep(t), NextStep(t)} : GoTo(c, s)
        BY <1>3 DEF ReadOld, tableVars, historyVars
    <2>2. PICK s \in {CopyStep(t), NextStep(t)} : GoTo(c, s)
        BY <2>1
    <2>3. Covered(t, p, old)
        BY DEF CopyInv, CursorsCovered, Covered, Key
    <2>4. \A q, r \in by_peer[c] : q = r
        BY <2>1 DEF CopyInv, Manually, ReadStep
    <2>5. /\ found'[c] = old
          /\ \A x \in Client \ {c} : found'[x] = found[x]
        BY <2>1 DEF TypeOK
    <2>6. \A u \in Table : s = CopyStep(u) => u = t
        BY DEF CopyStep, NextStep, Table
    <2> HIDE DEF old
    <2>7. \A u \in Table : s = CopyStep(u) =>
             \A q \in by_peer'[c] : Covered(u, q, found'[c])
        BY <2>1, <2>3, <2>4, <2>5, <2>6
    <2>8. QED
        BY <2>1, <2>2, <2>4, <2>5, <2>7, CopyKeeps
<1>4. ASSUME NEW p \in Peer, NEW t \in Table, CopyOld(c, t, p)
      PROVE  CopyInv'
    <2>1. /\ UNCHANGED <<by_peer, found, covered>>
          /\ p \in by_peer[c] /\ pc[c] = CopyStep(t)
          /\ GoTo(c, NextStep(t))
          /\ cursors' = [cursors EXCEPT ![t]["peer_id"][p] = found[c]]
        BY <1>4 DEF CopyOld, historyVars
    <2>2. found[c] \in {None} \cup 0..Head
        BY DEF TypeOK
    <2>3. Covered(t, p, found[c])
        BY <2>1 DEF CopyInv
    <2>4. CursorsCovered'
        BY <2>1, <2>2, <2>3, SetCursor
           DEF CopyInv, CursorsCovered, Covered, CursorSet
    <2>5. \A q, r \in by_peer[c] : q = r
        BY <2>1 DEF CopyInv, Manually, CopyStep
    <2>6. \A u \in Table : NextStep(t) # CopyStep(u)
        BY DEF CopyStep, NextStep
    <2>7. ASSUME NEW x \in Client
          PROVE  /\ pc'[x] \in Manually => \A q, r \in by_peer'[x] : q = r
                 /\ \A u \in Table : pc'[x] = CopyStep(u) =>
                      \A q \in by_peer'[x] : OrZero(found'[x]) <= covered'[u][q]
        <3>1. CASE x = c
            BY <2>1, <2>5, <2>6, <3>1 DEF GoTo, TypeOK
        <3>2. CASE x # c
            <4>1. pc'[x] = pc[x]
                BY <2>1, <3>2 DEF GoTo, TypeOK
            <4>2. QED
                BY <2>1, <4>1 DEF CopyInv, Covered
        <3>3. QED
            BY <3>1, <3>2
    <2>8. QED
        BY <2>4, <2>7 DEF CopyInv, Covered
<1>5. QED
    BY <1>1, <1>2, <1>3, <1>4 DEF Manual

\* A transfer up to row n, under the new key.
LEMMA CopyTransferTo ==
    ASSUME TypeOK, CopyInv, NEW t \in Table, NEW p \in Peer,
           NEW n \in 1..Head,
           OrZero(cursors'[t]["peer_id"][p]) = OrZero(n),
           \A u \in Table, k \in Key, q \in Peer :
               ~ (u = t /\ k = "peer_id" /\ q = p) =>
                   cursors'[u][k][q] = cursors[u][k][q],
           covered' = [covered EXCEPT ![t][p] = IF n > @ THEN n ELSE @],
           UNCHANGED <<pc, by_peer, found>>
    PROVE  CopyInv'
<1>1. n \in Nat /\ OrZero(n) <= n
    BY DiscoveryAssumption DEF OrZero
<1>2. \A u \in Table, q \in Peer : covered[u][q] \in Nat
    BY DEF TypeOK
<1>3. \A u \in Table, q \in Peer :
         covered'[u][q] = IF u = t /\ q = p /\ n > covered[t][p] THEN n
                          ELSE covered[u][q]
    BY DEF TypeOK
<1>4. \A u \in Table, q \in Peer : /\ covered'[u][q] \in Nat
                                   /\ covered[u][q] <= covered'[u][q]
    BY <1>1, <1>2, <1>3
<1>5. n <= covered'[t][p]
    BY <1>1, <1>2, <1>3
<1>6. ASSUME NEW u \in Table, NEW q \in Peer, NEW m \in {None} \cup 0..Head,
             OrZero(m) <= covered[u][q]
      PROVE  OrZero(m) <= covered'[u][q]
    <2>1. OrZero(m) \in Nat
        BY DiscoveryAssumption DEF OrZero
    <2>2. QED
        BY <1>2, <1>4, <1>6, <2>1
<1>7. ASSUME NEW u \in Table, NEW k \in Key, NEW q \in Peer
      PROVE  OrZero(cursors'[u][k][q]) <= covered'[u][q]
    <2>1. CASE u = t /\ k = "peer_id" /\ q = p
        <3>1. OrZero(n) \in Nat
            BY <1>1 DEF OrZero
        <3>2. OrZero(n) <= covered'[t][p]
            BY <1>1, <1>4, <1>5, <3>1
        <3>3. QED
            BY <2>1, <3>2
    <2>2. CASE ~ (u = t /\ k = "peer_id" /\ q = p)
        <3>1. cursors'[u][k][q] = cursors[u][k][q]
            BY <2>2
        <3>2. cursors[u][k][q] \in {None} \cup 0..Head
            BY DEF TypeOK
        <3>3. QED
            BY <1>6, <3>1, <3>2 DEF CopyInv, CursorsCovered
    <2>3. QED
        BY <2>1, <2>2
<1>8. CursorsCovered'
    BY <1>7 DEF CursorsCovered
<1>9. \A x \in Client, u \in Table : pc[x] = CopyStep(u) =>
          \A q \in by_peer[x] : OrZero(found[x]) <= covered'[u][q]
    <2>1. \A x \in Client : /\ found[x] \in {None} \cup 0..Head
                            /\ by_peer[x] \subseteq Peer
        BY DEF TypeOK
    <2>2. QED
        BY <1>6, <2>1 DEF CopyInv, Covered
<1>10. QED
    BY <1>8, <1>9 DEF CopyInv, Covered

LEMMA CopyTransfer ==
    ASSUME TypeOK, CopyInv, NEW c \in Client, NEW t \in Table, NEW p \in Peer,
           Transfer(c, t, p)
    PROVE  CopyInv'
<1>1. PICK n \in 1..Head :
         /\ cursors' = [cursors EXCEPT ![t]["peer_id"][p] = n]
         /\ covered' = [covered EXCEPT ![t][p] = IF n > @ THEN n ELSE @]
    BY DEF Transfer
<1>2. n \in {None} \cup 0..Head
    BY DiscoveryAssumption
<1>3. CursorSet(t, p, n)
    BY <1>1 DEF CursorSet
<1>4. /\ OrZero(cursors'[t]["peer_id"][p]) = OrZero(n)
      /\ \A u \in Table, k \in Key, q \in Peer :
           ~ (u = t /\ k = "peer_id" /\ q = p) =>
               cursors'[u][k][q] = cursors[u][k][q]
    BY <1>2, <1>3, SetCursor
<1>5. UNCHANGED <<pc, by_peer, found>>
    BY DEF Transfer, clientVars
<1>6. QED
    BY <1>1, <1>4, <1>5, CopyTransferTo

LEMMA CopyStepKeeps ==
    ASSUME TypeOK, CopyInv, [Next]_vars
    PROVE  CopyInv'
<1>1. ASSUME NEW c \in Client, EndSync(c)
      PROVE  CopyInv'
    <2>1. /\ GoTo(c, "idle") /\ UNCHANGED <<cursors, covered>>
          /\ \A x \in Client \ {c} : /\ by_peer'[x] = by_peer[x]
                                     /\ found'[x] = found[x]
        BY <1>1 DEF EndSync, TypeOK, tableVars, historyVars
    <2>2. "idle" \notin Manually /\ \A t \in Table : "idle" # CopyStep(t)
        BY DEF Manually, CopyStep
    <2>3. QED
        BY <2>1, <2>2, CopyKeeps
<1>2. ASSUME UNCHANGED <<cursors, covered, pc, by_peer, found>>
      PROVE  CopyInv'
    BY <1>2 DEF CopyInv, CursorsCovered, Covered
<1>3. CASE Advance
    BY <1>2, <1>3 DEF Advance, clientVars
<1>4. CASE UNCHANGED vars
    BY <1>2, <1>4 DEF vars, tableVars, clientVars, historyVars
<1>5. QED
    BY <1>1, <1>3, <1>4, CopyDiscover, CopyManual, CopyTransfer DEF Next

LEMMA CopyInit == Init => CopyInv
<1> SUFFICES ASSUME Init PROVE CopyInv
    OBVIOUS
<1>1. PICK old \in [Table -> {f \in [Peer -> {None} \cup 1..Head] :
                              \A p \in Peer \ Carried : f[p] = None}] :
         /\ cursors = [t \in Table |->
              [k \in Key |-> IF k = "multiaddr" THEN old[t]
                             ELSE [p \in Peer |-> None]]]
         /\ covered = [t \in Table |-> [p \in Peer |-> OrZero(old[t][p])]]
    BY DEF Init
<1>2. \A t \in Table, p \in Peer : OrZero(old[t][p]) \in Nat
    BY <1>1, DiscoveryAssumption DEF OrZero
<1>3. ASSUME NEW t \in Table, NEW k \in Key, NEW p \in Peer
      PROVE  OrZero(cursors[t][k][p]) <= covered[t][p]
    <2>1. covered[t][p] = OrZero(old[t][p])
        BY <1>1
    <2>2. CASE k = "multiaddr"
        BY <1>1, <1>2, <2>1, <2>2
    <2>3. CASE k # "multiaddr"
        <3>1. cursors[t][k][p] = None
            BY <1>1, <2>3
        <3>2. OrZero(None) = 0
            BY DEF OrZero
        <3>3. QED
            BY <1>2, <2>1, <3>1, <3>2
    <2>4. QED
        BY <2>2, <2>3
<1>4. \A c \in Client : pc[c] = "idle"
    BY DEF Init
<1>5. QED
    BY <1>3, <1>4 DEF CopyInv, CursorsCovered, Manually, CopyStep

\* A cursor never passes what was transferred, however takeovers and syncs
\* of several processes mix.
THEOREM TakeoverCovered == Spec => []CursorsCovered
<1>1. TypeOK /\ CopyInv /\ [Next]_vars => (TypeOK /\ CopyInv)'
    BY TypeStep, CopyStepKeeps
<1>2. CopyInv => CursorsCovered
    BY DEF CopyInv
<1>3. QED
    BY <1>1, <1>2, InitType, CopyInit, PTL DEF Spec


=============================================================================
