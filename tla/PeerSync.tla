------------------------------ MODULE PeerSync ------------------------------
(***************************************************************************)
(* Synchronisation of shell history between devices (src/sync.rs and the   *)
(* client and server halves of src/p2p.rs) on top of the local stores      *)
(* (src/storage.rs).                                                       *)
(*                                                                         *)
(* Every device serves pull and push requests of the others and may run    *)
(* sync clients: `rr p2p-sync` started by hand, by the watch daemon or by  *)
(* the background upload, all of them separate processes on one database   *)
(* file.  A client takes one peer at a time: it pulls batches of rows      *)
(* above the cursor it saved for that peer until one comes back empty,     *)
(* then (with --push) pushes the rows of its own device above its push     *)
(* cursor until none is left.  Meanwhile entries are recorded and pruned.  *)
(*                                                                         *)
(* One action is one database transaction or one message handled; what a   *)
(* client does between two of them is local to it and joined to the        *)
(* neighbouring step.  Messages may be delayed, reordered or lost, a       *)
(* request may time out although its message is still under way, a client  *)
(* process may die anywhere and any statement on the database may fail     *)
(* (SQLITE_BUSY after the busy_timeout).                                   *)
(***************************************************************************)
EXTENDS LocalStore

CONSTANTS
    Device,
    Client,            \* sync processes
    host,              \* host[c]: the device client c runs on
    targets,           \* targets[c]: the peers c synchronises with
    PushClient,        \* the clients started with --push
    RequestId,         \* request ids handed out by libp2p
    Limit,             \* --limit, the largest batch
    Attempts,          \* RequestRetryPolicy.attempts
    size,              \* size[e]: bytes of e on the wire
    MaxRequestBytes,   \* cap of an EntriesPush, P2P_PUSH_REQ_MAX_BYTES
    MaxResponseBytes,  \* cap of a SyncBatch, P2P_PULL_RESP_MAX_BYTES
    KeepRecent,        \* values of rr prune --keep-recent
    Cutoff,            \* values of now - older_than_days
    MaxFaults,         \* bound: faults in one behaviour
    MaxPrunes,         \* bound: prune runs in one behaviour
    MaxBoth            \* bound: faults and prune runs together

ASSUME ClientAssumption ==
    /\ host \in [Client -> Device]
    /\ targets \in [Client -> SUBSET Device]
    /\ \A c \in Client : host[c] \notin targets[c]
    /\ PushClient \subseteq Client

ASSUME EntryAssumption ==
    /\ device_id \in [Entry -> Device]
    /\ ts \in [Entry -> Nat]
    /\ size \in [Entry -> Nat]

ASSUME BoundAssumption ==
    /\ RequestId # {}
    /\ Limit \in Nat \ {0}
    /\ Attempts \in Nat \ {0}
    /\ MaxRequestBytes \in Nat
    /\ MaxResponseBytes \in Nat
    /\ KeepRecent \subseteq Nat
    /\ Cutoff \subseteq Nat
    /\ MaxFaults \in Nat
    /\ MaxPrunes \in Nat
    /\ MaxBoth \in Nat

VARIABLES
    (* The database of each device. *)
    entries,           \* entries[d]: the rows of table entries
    sqlite_sequence,   \* sqlite_sequence[d]: largest ingest_seq ever given
    peer_state,        \* peer_state[d][p]: last_cursor, 0 when no row
    peer_push_state,   \* peer_push_state[d][p]: last_pushed_seq, 0 when no row
    (* The memory of each client process. *)
    pc, target, cursor, batch_limit, attempt, request_id, batch, next_cursor,
    (* Messages under way, by type. *)
    sync_pull, sync_batch, entries_push, push_ack,
    (* The prune process of each device. *)
    prune_pc, keep_floor, pushed_floor,
    (* History: entries each device ever stored, and the peers whose push   *)
    (* cursor the current pushed_floor accounts for.                        *)
    seen, floor_peers,
    (* Bounds used up. *)
    faults, prunes

storeVars  == <<entries, sqlite_sequence, seen>>
cursorVars == <<peer_state, peer_push_state>>
clientVars == <<pc, target, cursor, batch_limit, attempt, request_id, batch,
                next_cursor>>
pullVars   == <<sync_pull, sync_batch>>
pushVars   == <<entries_push, push_ack>>
pruneVars  == <<prune_pc, keep_floor, pushed_floor, floor_peers, prunes>>
vars == <<storeVars, cursorVars, clientVars, pullVars, pushVars, pruneVars,
          faults>>

\* A byte of a batch is a row and a place in it.
Bytes(rows) == Cardinality(UNION {{r} \X (1..size[r.entry_id]) : r \in rows})

-----------------------------------------------------------------------------
(* Messages.  Requests and responses are tied together by client and       *)
(* request id; the stream they use belongs to that client process.         *)

SyncPull == [client : Client, request_id : RequestId, peer : Device,
             cursor : Nat, limit : Nat]
SyncBatch == [client : Client, request_id : RequestId,
              entries : SUBSET Row, next_cursor : Nat]
EntriesPush == [client : Client, request_id : RequestId, peer : Device,
                entries : SUBSET Row]
PushAck == [client : Client, request_id : RequestId, ok : BOOLEAN]

Messages == sync_pull \cup sync_batch \cup entries_push \cup push_ack
UsedIds(c) == {m.request_id : m \in {x \in Messages : x.client = c}}

\* libp2p numbers requests and never repeats an id; here an id is free again
\* once no message carries it, which keeps the ids few.
NewRequestId(c) == CHOOSE r \in RequestId : r \notin UsedIds(c)

\* The answer of client c's current request can still arrive.
Outstanding(c) == request_id[c] \in UsedIds(c)

SendPull(c, p, from, limit) ==
    /\ RequestId \ UsedIds(c) # {}
    /\ request_id' = [request_id EXCEPT ![c] = NewRequestId(c)]
    /\ sync_pull' = sync_pull \cup
         {[client |-> c, request_id |-> NewRequestId(c), peer |-> p,
           cursor |-> from, limit |-> limit]}

SendPush(c, p, rows) ==
    /\ RequestId \ UsedIds(c) # {}
    /\ request_id' = [request_id EXCEPT ![c] = NewRequestId(c)]
    /\ entries_push' = entries_push \cup
         {[client |-> c, request_id |-> NewRequestId(c), peer |-> p,
           entries |-> rows]}

-----------------------------------------------------------------------------
(* The store.                                                              *)

Insert(d, rows) ==
    /\ entries' = [entries EXCEPT
         ![d] = insert_entries(entries[d], sqlite_sequence[d], rows)]
    /\ sqlite_sequence' = [sqlite_sequence EXCEPT
         ![d] = sequence_after_insert(entries[d], sqlite_sequence[d], rows)]
    /\ seen' = [seen EXCEPT ![d] = @ \cup Ids(rows)]

\* Mutants of get_last_cursor: an inclusive cursor; a cursor never found.
get_last_cursor_Inclusive(d, p) == peer_state[d][p] - 1
get_last_cursor_Lost(d, p) == 0

\* A peer without a row has cursor 0.
get_last_cursor(d, p) == peer_state[d][p]
get_last_pushed_seq(d, p) == peer_push_state[d][p]

\* Both upserts overwrite whatever is there.
set_last_cursor(d, p, seq) ==
    peer_state' = [peer_state EXCEPT ![d][p] = seq]
set_last_pushed_seq(d, p, seq) ==
    peer_push_state' = [peer_push_state EXCEPT ![d][p] = seq]

\* Mutant of Record: the device id of the entry is not the device's own.
Record_AnyDevice(d, e) ==
    /\ e \notin seen[d]
    /\ Insert(d, {[ingest_seq |-> 1, entry_id |-> e]})
    /\ UNCHANGED <<cursorVars, clientVars, pullVars, pushVars, pruneVars,
                   faults>>

\* rr record: one new entry of this device.
Record(d, e) ==
    /\ device_id[e] = d
    /\ e \notin seen[d]
    /\ Insert(d, {[ingest_seq |-> 1, entry_id |-> e]})
    /\ UNCHANGED <<cursorVars, clientVars, pullVars, pushVars, pruneVars,
                   faults>>

-----------------------------------------------------------------------------
(* The client: sync_async for one target, sync_pull_from_peer_async, then  *)
(* sync_push_to_peer_async.                                                *)

\* Begin a phase with fresh local variables.
EnterPhase(c, phase, p) ==
    /\ pc' = [pc EXCEPT ![c] = phase]
    /\ target' = [target EXCEPT ![c] = p]
    /\ cursor' = [cursor EXCEPT ![c] = 0]
    /\ batch_limit' = [batch_limit EXCEPT ![c] = Limit]
    /\ attempt' = [attempt EXCEPT ![c] = 0]
    /\ batch' = [batch EXCEPT ![c] = {}]
    /\ next_cursor' = [next_cursor EXCEPT ![c] = 0]

\* Done with this peer.
EndSync(c) == EnterPhase(c, "idle", host[c])

\* Whether the pull succeeded or failed, the push follows if asked for.
EndPull(c) == IF c \in PushClient THEN EnterPhase(c, "push_begin", target[c])
                                  ELSE EndSync(c)

\* Mutant of FailPhase: a failed pull ends the work on this peer.
FailPhase_SkipPush(c) == EndSync(c)

\* The phase client c is in ends with an error.
FailPhase(c) == IF pc[c] \in {"pull_wait", "pull_save"} THEN EndPull(c)
                                                       ELSE EndSync(c)

\* Take the next target, read its cursor and ask for the first batch.
StartSync(c, p) ==
    /\ pc[c] = "idle"
    /\ p \in targets[c]
    /\ pc' = [pc EXCEPT ![c] = "pull_wait"]
    /\ target' = [target EXCEPT ![c] = p]
    /\ cursor' = [cursor EXCEPT ![c] = get_last_cursor(host[c], p)]
    /\ SendPull(c, p, get_last_cursor(host[c], p), batch_limit[c])
    /\ UNCHANGED <<storeVars, cursorVars, batch_limit, attempt, batch,
                   next_cursor, sync_batch, pushVars, pruneVars, faults>>

\* The response to the current request of client c; a response with another
\* id is skipped.
Answer(c, m) == m.client = c /\ m.request_id = request_id[c]

\* An empty batch ends the pull.
PullDone(c) ==
    /\ pc[c] = "pull_wait"
    /\ \E m \in sync_batch :
         /\ Answer(c, m)
         /\ m.entries = {}
         /\ sync_batch' = sync_batch \ {m}
    /\ EndPull(c)
    /\ UNCHANGED <<storeVars, cursorVars, request_id, sync_pull, pushVars,
                   pruneVars, faults>>

\* A batch with entries is inserted in one transaction. The pull fails when
\* the cursor that came with it does not advance.
PullInsert(c) ==
    /\ pc[c] = "pull_wait"
    /\ \E m \in sync_batch :
         /\ Answer(c, m)
         /\ m.entries # {}
         /\ sync_batch' = sync_batch \ {m}
         /\ Insert(host[c], m.entries)
         /\ IF m.next_cursor <= cursor[c]
            THEN EndPull(c)
            ELSE /\ pc' = [pc EXCEPT ![c] = "pull_save"]
                 /\ next_cursor' = [next_cursor EXCEPT ![c] = m.next_cursor]
                 /\ UNCHANGED <<target, cursor, batch_limit, attempt, batch>>
    /\ UNCHANGED <<cursorVars, request_id, sync_pull, pushVars, pruneVars,
                   faults>>

\* set_last_cursor in a second transaction; then the next request goes out.
SaveCursor(c) ==
    /\ pc[c] = "pull_save"
    /\ set_last_cursor(host[c], target[c], next_cursor[c])
    /\ pc' = [pc EXCEPT ![c] = "pull_wait"]
    /\ cursor' = [cursor EXCEPT ![c] = next_cursor[c]]
    /\ attempt' = [attempt EXCEPT ![c] = 0]
    /\ next_cursor' = [next_cursor EXCEPT ![c] = 0]
    /\ SendPull(c, target[c], next_cursor[c], batch_limit[c])
    /\ UNCHANGED <<storeVars, peer_push_state, target, batch_limit, batch,
                   sync_batch, pushVars, pruneVars, faults>>

\* The push phase reads its cursor ...
PushBegin(c) ==
    /\ pc[c] = "push_begin"
    /\ pc' = [pc EXCEPT ![c] = "push_read"]
    /\ cursor' = [cursor EXCEPT
                    ![c] = get_last_pushed_seq(host[c], target[c])]
    /\ UNCHANGED <<storeVars, cursorVars, target, batch_limit, attempt,
                   request_id, batch, next_cursor, pullVars, pushVars,
                   pruneVars, faults>>

\* ... and then batch after batch of the rows of its own device.
PushBatch(c) == pull_since_cursor_for_device(entries[host[c]], cursor[c],
                                             batch_limit[c], host[c])

PushDone(c) ==
    /\ pc[c] = "push_read"
    /\ PushBatch(c) = {}
    /\ EndSync(c)
    /\ UNCHANGED <<storeVars, cursorVars, request_id, pullVars, pushVars,
                   pruneVars, faults>>

PushSend(c) ==
    /\ pc[c] = "push_read"
    /\ PushBatch(c) # {}
    /\ Bytes(PushBatch(c)) <= MaxRequestBytes
    /\ pc' = [pc EXCEPT ![c] = "push_wait"]
    /\ batch' = [batch EXCEPT ![c] = PushBatch(c)]
    /\ next_cursor' = [next_cursor EXCEPT ![c] = next_cursor_of(PushBatch(c))]
    /\ SendPush(c, target[c], PushBatch(c))
    /\ UNCHANGED <<storeVars, cursorVars, target, cursor, batch_limit,
                   attempt, pullVars, push_ack, pruneVars, faults>>

\* Mutant of PushTooLarge: the error is passed on at once.
PushTooLarge_NoHalving(c) ==
    /\ pc[c] = "push_read"
    /\ Bytes(PushBatch(c)) > MaxRequestBytes
    /\ EndSync(c)
    /\ UNCHANGED <<storeVars, cursorVars, request_id, pullVars, pushVars,
                   pruneVars, faults>>

\* The codec of the client refuses to write the request: the batch is read
\* again with half the limit, unless it is a single entry already.
PushTooLarge(c) ==
    /\ pc[c] = "push_read"
    /\ Bytes(PushBatch(c)) > MaxRequestBytes
    /\ IF batch_limit[c] <= 1
       THEN EndSync(c)
       ELSE /\ batch_limit' = [batch_limit EXCEPT ![c] = @ \div 2]
            /\ UNCHANGED <<pc, target, cursor, attempt, batch, next_cursor>>
    /\ UNCHANGED <<storeVars, cursorVars, request_id, pullVars, pushVars,
                   pruneVars, faults>>

\* Mutant of PushAcked: any ack counts as success.
PushAcked_IgnoreOk(c) ==
    /\ pc[c] = "push_wait"
    /\ \E m \in push_ack :
         /\ Answer(c, m)
         /\ push_ack' = push_ack \ {m}
    /\ pc' = [pc EXCEPT ![c] = "push_save"]
    /\ UNCHANGED <<target, cursor, batch_limit, attempt, batch, next_cursor>>
    /\ UNCHANGED <<storeVars, cursorVars, request_id, pullVars, entries_push,
                   pruneVars, faults>>

\* The peer stored the batch, or rejected it, which ends the push.
PushAcked(c) ==
    /\ pc[c] = "push_wait"
    /\ \E m \in push_ack :
         /\ Answer(c, m)
         /\ push_ack' = push_ack \ {m}
         /\ IF m.ok
            THEN /\ pc' = [pc EXCEPT ![c] = "push_save"]
                 /\ UNCHANGED <<target, cursor, batch_limit, attempt, batch,
                                next_cursor>>
            ELSE EndSync(c)
    /\ UNCHANGED <<storeVars, cursorVars, request_id, pullVars, entries_push,
                   pruneVars, faults>>

\* set_last_pushed_seq; a cursor that does not advance is an error.
SavePushed(c) ==
    /\ pc[c] = "push_save"
    /\ IF next_cursor[c] <= cursor[c]
       THEN EndSync(c) /\ UNCHANGED peer_push_state
       ELSE /\ set_last_pushed_seq(host[c], target[c], next_cursor[c])
            /\ pc' = [pc EXCEPT ![c] = "push_read"]
            /\ cursor' = [cursor EXCEPT ![c] = next_cursor[c]]
            /\ attempt' = [attempt EXCEPT ![c] = 0]
            /\ batch' = [batch EXCEPT ![c] = {}]
            /\ next_cursor' = [next_cursor EXCEPT ![c] = 0]
            /\ UNCHANGED <<target, batch_limit>>
    /\ UNCHANGED <<storeVars, peer_state, request_id, pullVars, pushVars,
                   pruneVars, faults>>

-----------------------------------------------------------------------------
(* The server: the request handlers of serve_async.                        *)

\* Answer a pull from the store. A batch above the cap is refused by the
\* server's codec while it writes the response; the InboundFailure this
\* raises is ignored, so the client gets no answer.
ServePull(m) ==
    LET rows == pull_since_cursor(entries[m.peer], m.cursor, m.limit)
    IN  /\ m \in sync_pull
        /\ sync_pull' = sync_pull \ {m}
        /\ sync_batch' = IF Bytes(rows) > MaxResponseBytes THEN sync_batch
                         ELSE sync_batch \cup
                           {[client |-> m.client, request_id |-> m.request_id,
                             entries |-> rows,
                             next_cursor |-> next_cursor_of(rows)]}
        /\ UNCHANGED <<storeVars, cursorVars, clientVars, pushVars,
                       pruneVars, faults>>

Acknowledge(m, ok) ==
    push_ack' = push_ack \cup
      {[client |-> m.client, request_id |-> m.request_id, ok |-> ok]}

ServePush(m) ==
    /\ m \in entries_push
    /\ entries_push' = entries_push \ {m}
    /\ Insert(m.peer, m.entries)
    /\ Acknowledge(m, TRUE)
    /\ UNCHANGED <<cursorVars, clientVars, pullVars, pruneVars, faults>>

-----------------------------------------------------------------------------
(* Failures.  A fault uses up one of MaxFaults.                            *)

Fault ==
    /\ faults < MaxFaults
    /\ faults + prunes < MaxBoth
    /\ faults' = faults + 1

\* The insert fails on the server: the transaction is rolled back and the
\* push answered with ok = false.
ServePushError(m) ==
    /\ m \in entries_push
    /\ Fault
    /\ entries_push' = entries_push \ {m}
    /\ Acknowledge(m, FALSE)
    /\ UNCHANGED <<storeVars, cursorVars, clientVars, pullVars, pruneVars>>

\* A message is lost: the connection breaks, or the server goes down before
\* it handles a request (it also exits when a pull cannot read its store).
Lose(m) ==
    /\ m \in Messages
    /\ Fault
    /\ sync_pull' = sync_pull \ {m}
    /\ sync_batch' = sync_batch \ {m}
    /\ entries_push' = entries_push \ {m}
    /\ push_ack' = push_ack \ {m}
    /\ UNCHANGED <<storeVars, cursorVars, clientVars, pruneVars>>

\* A client skips a response that is not the one it waits for.
SkipResponse(c) ==
    /\ \E m \in sync_batch \cup push_ack :
         /\ m.client = c
         /\ ~ (Answer(c, m) /\ pc[c] \in {"pull_wait", "push_wait"})
         /\ sync_batch' = sync_batch \ {m}
         /\ push_ack' = push_ack \ {m}
    /\ UNCHANGED <<storeVars, cursorVars, clientVars, sync_pull,
                   entries_push, pruneVars, faults>>

\* The request of client c failed: nothing is left that could answer it, or
\* the deadline passed too early, which is a fault.
RequestFailed(c) ==
    /\ pc[c] \in {"pull_wait", "push_wait"}
    /\ IF Outstanding(c) THEN Fault ELSE UNCHANGED faults

\* Every such failure is retryable: disconnect, wait, connect again and send
\* the same request under a new id.
RetryPull(c) ==
    /\ pc[c] = "pull_wait"
    /\ RequestFailed(c)
    /\ attempt[c] + 1 < Attempts
    /\ attempt' = [attempt EXCEPT ![c] = @ + 1]
    /\ SendPull(c, target[c], cursor[c], batch_limit[c])
    /\ UNCHANGED <<storeVars, cursorVars, pc, target, cursor, batch_limit,
                   batch, next_cursor, sync_batch, pushVars, pruneVars>>

RetryPush(c) ==
    /\ pc[c] = "push_wait"
    /\ RequestFailed(c)
    /\ attempt[c] + 1 < Attempts
    /\ attempt' = [attempt EXCEPT ![c] = @ + 1]
    /\ SendPush(c, target[c], batch[c])
    /\ UNCHANGED <<storeVars, cursorVars, pc, target, cursor, batch_limit,
                   batch, next_cursor, pullVars, push_ack, pruneVars>>

\* The last attempt failed.
GiveUp(c) ==
    /\ RequestFailed(c)
    /\ attempt[c] + 1 >= Attempts
    /\ FailPhase(c)
    /\ UNCHANGED <<storeVars, cursorVars, request_id, pullVars, pushVars,
                   pruneVars>>

\* An error that is not retried: the peer cannot be dialled, or a statement
\* on the own database fails.
Abort(c) ==
    /\ pc[c] # "idle"
    /\ Fault
    /\ FailPhase(c)
    /\ UNCHANGED <<storeVars, cursorVars, request_id, pullVars, pushVars,
                   pruneVars>>

\* The client process dies. Its database keeps what was committed.
Crash(c) ==
    /\ pc[c] # "idle"
    /\ Fault
    /\ EndSync(c)
    /\ UNCHANGED <<storeVars, cursorVars, request_id, pullVars, pushVars,
                   pruneVars>>

-----------------------------------------------------------------------------
(* rr prune, and the automatic prune after rr record: three statements,    *)
(* each a transaction of its own.                                          *)

PruneKeepFloor(d) ==
    /\ prune_pc[d] = "idle"
    /\ prunes < MaxPrunes
    /\ faults + prunes < MaxBoth
    /\ prunes' = prunes + 1
    /\ prune_pc' = [prune_pc EXCEPT ![d] = "pushed_floor"]
    /\ \E k \in KeepRecent :
         keep_floor' = [keep_floor EXCEPT
                          ![d] = prune_keep_floor_seq(entries[d], k)]
    /\ UNCHANGED <<storeVars, cursorVars, clientVars, pullVars, pushVars,
                   pushed_floor, floor_peers, faults>>

PrunePushedFloor(d) ==
    /\ prune_pc[d] = "pushed_floor"
    /\ prune_pc' = [prune_pc EXCEPT ![d] = "delete"]
    /\ pushed_floor' = [pushed_floor EXCEPT
                          ![d] = prune_pushed_floor_seq(peer_push_state[d])]
    /\ floor_peers' = [floor_peers EXCEPT
                         ![d] = {p \in Device : peer_push_state[d][p] # 0}]
    /\ UNCHANGED <<storeVars, cursorVars, clientVars, pullVars, pushVars,
                   keep_floor, prunes, faults>>

\* COUNT and DELETE use the same floors; when nothing matches, or with
\* --dry-run, nothing is deleted.
PruneDelete(d) ==
    /\ prune_pc[d] = "delete"
    /\ prune_pc' = [prune_pc EXCEPT ![d] = "idle"]
    /\ \E cutoff \in Cutoff :
         entries' = [entries EXCEPT
           ![d] = @ \ PruneCandidates(@, cutoff, keep_floor[d],
                                      pushed_floor[d])]
    /\ keep_floor' = [keep_floor EXCEPT ![d] = NoFloor]
    /\ pushed_floor' = [pushed_floor EXCEPT ![d] = NoFloor]
    /\ floor_peers' = [floor_peers EXCEPT ![d] = {}]
    /\ UNCHANGED <<sqlite_sequence, seen, cursorVars, clientVars, pullVars,
                   pushVars, prunes, faults>>

-----------------------------------------------------------------------------

Init ==
    /\ entries = [d \in Device |-> {}]
    /\ sqlite_sequence = [d \in Device |-> 0]
    /\ peer_state = [d \in Device |-> [p \in Device |-> 0]]
    /\ peer_push_state = [d \in Device |-> [p \in Device |-> 0]]
    /\ pc = [c \in Client |-> "idle"]
    /\ target = host
    /\ cursor = [c \in Client |-> 0]
    /\ batch_limit = [c \in Client |-> Limit]
    /\ attempt = [c \in Client |-> 0]
    /\ request_id = [c \in Client |-> CHOOSE r \in RequestId : TRUE]
    /\ batch = [c \in Client |-> {}]
    /\ next_cursor = [c \in Client |-> 0]
    /\ sync_pull = {} /\ sync_batch = {}
    /\ entries_push = {} /\ push_ack = {}
    /\ prune_pc = [d \in Device |-> "idle"]
    /\ keep_floor = [d \in Device |-> NoFloor]
    /\ pushed_floor = [d \in Device |-> NoFloor]
    /\ seen = [d \in Device |-> {}]
    /\ floor_peers = [d \in Device |-> {}]
    /\ faults = 0
    /\ prunes = 0

ClientStep(c) ==
    \/ PullDone(c) \/ PullInsert(c) \/ SaveCursor(c)
    \/ PushBegin(c) \/ PushDone(c) \/ PushSend(c) \/ PushTooLarge(c)
    \/ PushAcked(c) \/ SavePushed(c)
    \/ SkipResponse(c) \/ RetryPull(c) \/ RetryPush(c) \/ GiveUp(c)

ServerStep ==
    \/ \E m \in sync_pull : ServePull(m)
    \/ \E m \in entries_push : ServePush(m) \/ ServePushError(m)

PruneStep(d) == PruneKeepFloor(d) \/ PrunePushedFloor(d) \/ PruneDelete(d)

Next ==
    \/ \E d \in Device : \E e \in Entry : Record(d, e)
    \/ \E c \in Client : \E p \in Device : StartSync(c, p)
    \/ \E c \in Client : ClientStep(c) \/ Abort(c) \/ Crash(c)
    \/ ServerStep
    \/ \E m \in Messages : Lose(m)
    \/ \E d \in Device : PruneStep(d)

Spec == Init /\ [][Next]_vars

(* Fairness: a started client goes on until it is done or fails, a server  *)
(* answers what reaches it, and clients come back to every target, as the  *)
(* watch daemon does on each interval. Recording, pruning and faults are   *)
(* never forced.                                                           *)

Serve(c) == \/ \E m \in sync_pull : m.client = c /\ ServePull(m)
            \/ \E m \in entries_push : m.client = c /\ ServePush(m)

Fairness ==
    \A c \in Client : /\ WF_vars(ClientStep(c))
                      /\ WF_vars(Serve(c))
                      /\ \A p \in targets[c] : SF_vars(StartSync(c, p))

FairSpec == Spec /\ Fairness

-----------------------------------------------------------------------------

\* Every variable has its type.
TypeOK ==
    /\ entries \in [Device -> SUBSET Row]
    /\ sqlite_sequence \in [Device -> Nat]
    /\ peer_state \in [Device -> [Device -> Nat]]
    /\ peer_push_state \in [Device -> [Device -> Nat]]
    /\ pc \in [Client -> {"idle", "pull_wait", "pull_save", "push_begin",
                          "push_read", "push_wait", "push_save"}]
    /\ target \in [Client -> Device]
    /\ cursor \in [Client -> Nat]
    /\ batch_limit \in [Client -> Nat]
    /\ attempt \in [Client -> Nat]
    /\ request_id \in [Client -> RequestId]
    /\ batch \in [Client -> SUBSET Row]
    /\ next_cursor \in [Client -> Nat]
    /\ sync_pull \subseteq SyncPull
    /\ sync_batch \subseteq SyncBatch
    /\ entries_push \subseteq EntriesPush
    /\ push_ack \subseteq PushAck
    /\ prune_pc \in [Device -> {"idle", "pushed_floor", "delete"}]
    /\ keep_floor \in [Device -> Nat]
    /\ pushed_floor \in [Device -> Nat]
    /\ seen \in [Device -> SUBSET Entry]
    /\ floor_peers \in [Device -> SUBSET Device]
    /\ faults \in Nat
    /\ prunes \in Nat

\* A saved pull cursor never passes a row the device has not stored: every
\* row of peer p up to peer_state[d][p] has been on d. A gap here is never
\* noticed again, because no later pull asks for rows at or below the cursor.
PullCursorNoGap ==
    \A d, p \in Device : \A r \in entries[p] :
        r.ingest_seq <= peer_state[d][p] => r.entry_id \in seen[d]

\* The same for pushes: every own row of d up to its push cursor for p has
\* been stored by p, however acks were delayed, lost or repeated.
PushCursorNoGap ==
    \A d, p \in Device : \A r \in RowsOf(entries[d], d) :
        r.ingest_seq <= peer_push_state[d][p] => r.entry_id \in seen[p]

\* Deliveries repeated by retries, crashes, echoes through a third device or
\* two processes at once leave one row per entry and one row per ingest_seq.
OneRowPerEntry ==
    \A d \in Device : \A r, s \in entries[d] :
        r.entry_id = s.entry_id \/ r.ingest_seq = s.ingest_seq => r = s

\* An entry of the own device that prune deletes has been stored by every
\* peer that had a push cursor when prune read its floor, although that
\* cursor may have moved, back too, before the DELETE.
PruneRespectsPushFloor ==
    [][\A d \in Device : \A r \in RowsOf(entries[d], d) \ entries'[d] :
         \A p \in floor_peers[d] : r.entry_id \in seen[p]]_vars

\* With one sync process per device a saved cursor never moves back.
CursorsNeverRegress ==
    [][\A d, p \in Device :
         /\ peer_state[d][p] <= peer_state'[d][p]
         /\ peer_push_state[d][p] <= peer_push_state'[d][p]]_vars

\* What device d numbers rows for: its own entries, the rows of the peers it
\* pulls from, the own rows of the peers that push to it.
Recorded(d) == {e \in seen[d] : device_id[e] = d}
Pulled(d) == UNION {{p} \X entries[p] :
                 p \in UNION {targets[c] : c \in {x \in Client : host[x] = d}}}
Pushed(d) == UNION {{c} \X RowsOf(entries[host[c]], host[c]) :
                 c \in {x \in PushClient : d \in targets[x]}}

\* Echoes die out: without faults and prunes, a device is offered each row of
\* a peer it pulls from once and each own row of a peer that pushes to it
\* once, and numbers nothing else, so ingest_seq cannot run away.
EchoBounded ==
    \A d \in Device :
        sqlite_sequence[d] <= Cardinality(Recorded(d)) + Cardinality(Pulled(d))
                                + Cardinality(Pushed(d))

\* What one device recorded reaches every device, once faults stop.
Convergence ==
    \A e \in Entry : \A d \in Device :
        (e \in seen[device_id[e]]) ~> (e \in seen[d])

-----------------------------------------------------------------------------
(* What the documents and comments of the repository say of pruning and of *)
(* batches that are too large.                                             *)

\* storage.rs, above the DELETE: while a peer has a push cursor, what the
\* slowest peer has not received yet is not deleted.
PruneSparesUnreceived ==
    [][\A d \in Device : \A r \in RowsOf(entries[d], d) \ entries'[d] :
         \A p \in Device :
             peer_push_state[d][p] # 0 => r.entry_id \in seen[p]]_vars

\* docs/p2p.md: a batch that is too large is asked for again with a smaller
\* limit, and only a single entry above the cap can fail. So entries that fit
\* one by one reach every device.
TooLargeAdapts ==
    (\A e \in Entry : /\ size[e] <= MaxResponseBytes
                      /\ size[e] <= MaxRequestBytes) => Convergence

-----------------------------------------------------------------------------
(* Refinement: an entry is on a device when the store has a row for it.    *)

Abstract == INSTANCE Replication
              WITH live <- [d \in Device |-> Ids(entries[d])]

\* Every step of the protocol is a record, a copy from a device that held the
\* entries, a local prune, or invisible.
ImplementsReplication == Abstract!Spec

\* The fair protocol keeps copying whatever a device has not had yet.
ImplementsFairReplication == Abstract!FairSpec

=============================================================================
