----------------------------- MODULE Discovery -----------------------------
(***************************************************************************)
(* How a run of `rr p2p-sync` finds its targets (build_manual_targets and  *)
(* discover_targets in src/p2p.rs) and the peer book it leaves behind in   *)
(* the database for later runs (src/storage.rs), with the cursors that a    *)
(* manual run takes over from the keys of an earlier release.              *)
(*                                                                         *)
(* Several processes of one device run at once and share the database;     *)
(* every statement is a step.  A tracker may answer with any set of peers  *)
(* of the user asked for (its table is the subject of Registration), or    *)
(* fail.  Addresses are left out: they decide how a peer is dialled, not   *)
(* which peers are.  A tick of time is about a day, so a record a tracker  *)
(* lists is of age 0.                                                      *)
(***************************************************************************)
EXTENDS Naturals, FiniteSets

CONSTANTS
    Client,        \* sync processes
    Peer,          \* peer ids, this device's own among them
    user,          \* user[p]: the user id p registers with
    device,        \* device[p]: the device id p registers with
    my_user,       \* resolve_user_id, never absent
    my_device,     \* resolve_device_id, never absent
    None,          \* SQL NULL, Option::None
    TrackerCount,  \* trackers, asked in this order
    MaxAge,        \* PEER_BOOK_MAX_AGE_SECS
    Head,          \* the last ingest_seq of every peer and of this device
    Carried,       \* peers an earlier release may have kept cursors for
    Reachable,     \* peers that can be dialled
    MaxFaults      \* bound: trackers that fail in one behaviour

ASSUME DiscoveryAssumption ==
    /\ None \notin {my_user, my_device}
    /\ \A p \in Peer : None \notin {user[p], device[p]}
    /\ TrackerCount \in Nat \ {0}
    /\ MaxAge \in Nat
    /\ Head \in Nat
    /\ Carried \subseteq Peer
    /\ Reachable \subseteq Peer
    /\ MaxFaults \in Nat

Table == {"peer_state", "peer_push_state"}
Key == {"multiaddr", "peer_id"}

VARIABLES
    peer_book,  \* the rows of table peer_book
    cursors,    \* cursors[t][k][p]: the row of table t under key k of peer p
    pc,
    tracker,    \* the tracker asked next
    answer,     \* what is left of the list it answered with
    by_peer,    \* the peers found so far, then the targets
    found,      \* the cursor read under the old key
    (* History: time since p was last taken from a tracker, if it was not   *)
    (* given by hand since, and the last row of p this device has (and the  *)
    (* last row p has of this device).                                      *)
    listed, covered,
    faults

tableVars == <<peer_book, cursors>>
clientVars == <<pc, tracker, answer, by_peer, found>>
historyVars == <<listed, covered>>
vars == <<tableVars, clientVars, historyVars, faults>>

Never == MaxAge + 1
Age == 0..Never
Row == [peer : Peer, user : {user[p] : p \in Peer} \cup {None},
        device : {device[p] : p \in Peer} \cup {None}, age : Age]

GoTo(c, s) == pc' = [pc EXCEPT ![c] = s]

-----------------------------------------------------------------------------
(* The peer book.                                                          *)

\* INSERT ... ON CONFLICT DO UPDATE: every column is replaced.
upsert_peer_book(row) ==
    peer_book' = {r \in peer_book : r.peer # row.peer} \cup {row}

\* Mutants of list_peer_book: rows of any user; one day less.
list_peer_book_AnyUser == {r \in peer_book : r.age <= MaxAge}
list_peer_book_Early == {r \in peer_book : r.user = my_user /\ r.age < MaxAge}

\* A user id is always given, so a row without one is never listed.
list_peer_book == {r \in peer_book : r.user = my_user /\ r.age <= MaxAge}

\* Mutant of IsSelf: this device is not recognised.
IsSelf_Never(d) == FALSE

IsSelf(d) == d = my_device

-----------------------------------------------------------------------------
(* discover_targets.                                                       *)

StartDiscovery(c) ==
    /\ pc[c] = "idle"
    /\ GoTo(c, "list")
    /\ tracker' = [tracker EXCEPT ![c] = 1]
    /\ by_peer' = [by_peer EXCEPT ![c] = {}]
    /\ UNCHANGED <<tableVars, answer, found, historyVars, faults>>

\* The tracker answers with peers of my_user.
ListAnswered(c) ==
    /\ pc[c] = "list"
    /\ \E S \in SUBSET {p \in Peer : user[p] = my_user} :
         answer' = [answer EXCEPT ![c] = S]
    /\ GoTo(c, "cache")
    /\ UNCHANGED <<tableVars, tracker, by_peer, found, historyVars, faults>>

\* Mutant of NextTracker: one past the last tracker.
NextTracker_PastEnd(c) ==
    IF tracker[c] <= TrackerCount
    THEN GoTo(c, "list") /\ tracker' = [tracker EXCEPT ![c] = @ + 1]
    ELSE GoTo(c, "choose") /\ UNCHANGED tracker

NextTracker(c) ==
    IF tracker[c] < TrackerCount
    THEN GoTo(c, "list") /\ tracker' = [tracker EXCEPT ![c] = @ + 1]
    ELSE GoTo(c, "choose") /\ UNCHANGED tracker

ListFailed(c) ==
    /\ pc[c] = "list"
    /\ faults < MaxFaults
    /\ faults' = faults + 1
    /\ NextTracker(c)
    /\ UNCHANGED <<tableVars, answer, by_peer, found, historyVars>>

\* The next peer of the answer, in any order: this device is passed over,
\* another one is cached and taken.
CachePeer(c, p) ==
    /\ pc[c] = "cache"
    /\ p \in answer[c]
    /\ answer' = [answer EXCEPT ![c] = @ \ {p}]
    /\ IF IsSelf(device[p])
       THEN UNCHANGED <<peer_book, by_peer, listed>>
       ELSE /\ upsert_peer_book([peer |-> p, user |-> user[p],
                                 device |-> device[p], age |-> 0])
            /\ by_peer' = [by_peer EXCEPT ![c] = @ \cup {p}]
            /\ listed' = [listed EXCEPT ![p] = 0]
    /\ UNCHANGED <<cursors, pc, tracker, found, covered, faults>>

AnswerCached(c) ==
    /\ pc[c] = "cache"
    /\ answer[c] = {}
    /\ NextTracker(c)
    /\ UNCHANGED <<tableVars, answer, by_peer, found, historyVars, faults>>

\* No tracker knew a peer: fall back on the book.
Choose(c) ==
    LET cached == {r.peer : r \in {x \in list_peer_book : ~ IsSelf(x.device)}}
        all == IF by_peer[c] = {} THEN cached ELSE by_peer[c]
    IN  /\ pc[c] = "choose"
        /\ by_peer' = [by_peer EXCEPT ![c] = all]
        /\ GoTo(c, IF all = {} THEN "bail" ELSE "discovered")
        /\ UNCHANGED <<tableVars, tracker, answer, found, historyVars, faults>>

-----------------------------------------------------------------------------
(* build_manual_targets, for one peer given by hand: for each cursor table  *)
(* read the row under the peer id, then the row under the multiaddr, and    *)
(* copy it; then cache the peer.                                            *)

ReadStep(t) == IF t = "peer_state" THEN "read_pull" ELSE "read_push"
CopyStep(t) == IF t = "peer_state" THEN "copy_pull" ELSE "copy_push"
NextStep(t) == IF t = "peer_state" THEN "read_push" ELSE "cache_manual"

StartManual(c, p) ==
    /\ pc[c] = "idle"
    /\ GoTo(c, "read_pull")
    /\ by_peer' = [by_peer EXCEPT ![c] = {p}]
    /\ UNCHANGED <<tableVars, tracker, answer, found, historyVars, faults>>

\* Mutant of ReadOld: the other table is read.
ReadOld_Swapped(c, t, p) ==
    LET old == cursors["peer_state"]["multiaddr"][p]
    IN  /\ pc[c] = ReadStep(t)
        /\ p \in by_peer[c]
        /\ found' = [found EXCEPT ![c] = old]
        /\ GoTo(c, IF cursors[t]["peer_id"][p] = None /\ old # None
                   THEN CopyStep(t) ELSE NextStep(t))
        /\ UNCHANGED <<tableVars, tracker, answer, by_peer, historyVars, faults>>

ReadOld(c, t, p) ==
    LET old == cursors[t]["multiaddr"][p]
    IN  /\ pc[c] = ReadStep(t)
        /\ p \in by_peer[c]
        /\ found' = [found EXCEPT ![c] = old]
        /\ GoTo(c, IF cursors[t]["peer_id"][p] = None /\ old # None
                   THEN CopyStep(t) ELSE NextStep(t))
        /\ UNCHANGED <<tableVars, tracker, answer, by_peer, historyVars, faults>>

CopyOld(c, t, p) ==
    /\ pc[c] = CopyStep(t)
    /\ p \in by_peer[c]
    /\ cursors' = [cursors EXCEPT ![t]["peer_id"][p] = found[c]]
    /\ GoTo(c, NextStep(t))
    /\ UNCHANGED <<peer_book, tracker, answer, by_peer, found, historyVars,
                   faults>>

\* A peer given by hand is cached without user and device.
CacheManual(c, p) ==
    /\ pc[c] = "cache_manual"
    /\ p \in by_peer[c]
    /\ upsert_peer_book([peer |-> p, user |-> None, device |-> None,
                         age |-> 0])
    /\ listed' = [listed EXCEPT ![p] = Never]
    /\ GoTo(c, "manual")
    /\ UNCHANGED <<cursors, tracker, answer, by_peer, found, covered, faults>>

-----------------------------------------------------------------------------
(* The sync that follows, as far as cursors go: rows up to some number are  *)
(* transferred and the cursor saved, in whatever order processes do so      *)
(* (PeerSync has the steps).                                                *)

OrZero(n) == IF n = None THEN 0 ELSE n

Transfer(c, t, p) ==
    /\ pc[c] \in {"discovered", "manual"}
    /\ p \in by_peer[c] \cap Reachable
    /\ \E n \in 1..Head :
         /\ cursors' = [cursors EXCEPT ![t]["peer_id"][p] = n]
         /\ covered' = [covered EXCEPT
              ![t][p] = IF n > @ THEN n ELSE @]
    /\ UNCHANGED <<peer_book, clientVars, listed, faults>>

EndSync(c) ==
    /\ pc[c] \in {"discovered", "manual", "bail"}
    /\ GoTo(c, "idle")
    /\ by_peer' = [by_peer EXCEPT ![c] = {}]
    /\ found' = [found EXCEPT ![c] = None]
    /\ UNCHANGED <<tableVars, tracker, answer, historyVars, faults>>

Later(n) == IF n < Never THEN n + 1 ELSE n

Advance ==
    /\ peer_book' = {[r EXCEPT !.age = Later(@)] : r \in peer_book}
    /\ listed' = [p \in Peer |-> Later(listed[p])]
    /\ UNCHANGED <<cursors, clientVars, covered, faults>>

-----------------------------------------------------------------------------
\* The database of an earlier release may hold cursors under multiaddrs.
Init ==
    /\ peer_book = {}
    /\ \E old \in [Table -> {f \in [Peer -> {None} \cup 1..Head] :
                              \A p \in Peer \ Carried : f[p] = None}] :
         /\ cursors = [t \in Table |->
              [k \in Key |-> IF k = "multiaddr" THEN old[t]
                             ELSE [p \in Peer |-> None]]]
         /\ covered = [t \in Table |-> [p \in Peer |-> OrZero(old[t][p])]]
    /\ pc = [c \in Client |-> "idle"]
    /\ tracker = [c \in Client |-> 1]
    /\ answer = [c \in Client |-> {}]
    /\ by_peer = [c \in Client |-> {}]
    /\ found = [c \in Client |-> None]
    /\ listed = [p \in Peer |-> Never]
    /\ faults = 0

Discover(c) ==
    \/ StartDiscovery(c) \/ ListAnswered(c) \/ ListFailed(c)
    \/ AnswerCached(c) \/ Choose(c)
    \/ \E p \in Peer : CachePeer(c, p)

Manual(c) ==
    \E p \in Peer :
        \/ StartManual(c, p) \/ CacheManual(c, p)
        \/ \E t \in Table : ReadOld(c, t, p) \/ CopyOld(c, t, p)

Next ==
    \/ \E c \in Client :
         \/ Discover(c)
         \/ Manual(c)
         \/ \E t \in Table, p \in Peer : Transfer(c, t, p)
         \/ EndSync(c)
    \/ Advance

Spec == Init /\ [][Next]_vars

-----------------------------------------------------------------------------
(* Properties.                                                             *)

TypeOK ==
    /\ peer_book \subseteq Row
    /\ cursors \in [Table -> [Key -> [Peer -> {None} \cup 0..Head]]]
    /\ pc \in [Client -> {"idle", "list", "cache", "choose", "discovered",
                          "bail", "read_pull", "copy_pull", "read_push",
                          "copy_push", "cache_manual", "manual"}]
    /\ tracker \in [Client -> 1..TrackerCount]
    /\ answer \in [Client -> SUBSET Peer]
    /\ by_peer \in [Client -> SUBSET Peer]
    /\ found \in [Client -> {None} \cup 0..Head]
    /\ listed \in [Peer -> Age]
    /\ covered \in [Table -> [Peer -> 0..Head]]
    /\ faults \in 0..MaxFaults

\* Discovery chooses only other devices of the same user: neither this device,
\* which the book may have without its device id when it was once given by
\* hand, nor anyone else a tracker lists or who was given by hand.
OwnOtherDevices ==
    \A c \in Client : pc[c] = "discovered" =>
        \A p \in by_peer[c] : user[p] = my_user /\ device[p] # my_device

\* The fallback works for what trackers listed: a run finds nothing only if
\* every peer that any run of this device got from a tracker in the last
\* MaxAge was given by hand since then.
ListedPeersFallBack ==
    [][\A c \in Client : Choose(c) /\ by_peer'[c] = {} =>
         \A p \in Peer : listed[p] > MaxAge]_vars

\* A cursor stands for rows that were transferred, also when one process
\* takes over the old cursor while another one already syncs.
CursorsCovered ==
    \A t \in Table, k \in Key, p \in Peer :
        OrZero(cursors[t][k][p]) <= covered[t][p]
=============================================================================
