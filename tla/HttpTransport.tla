--------------------------- MODULE HttpTransport ---------------------------
(***************************************************************************)
(* The older transport, `rr serve` and `rr sync` (src/transport.rs, on     *)
(* src/http_retry.rs): what differs from PeerSync when a client and its    *)
(* servers speak HTTP.  A request and its response belong to one           *)
(* connection, so a request id stands for the connection, and an answer    *)
(* that comes after the client gave the connection up reaches nobody.      *)
(*                                                                         *)
(* Only the server limits a push, with status 413; only the client limits  *)
(* a response, when it reads the body.  Status 500 is retried like a       *)
(* request that was lost, so PeerSync!Lose stands for it.                  *)
(***************************************************************************)
EXTENDS PeerSync

-----------------------------------------------------------------------------
(* Server.                                                                 *)

\* GET /api/v1/entries: the response has no cap.
HttpServePull(m) ==
    LET rows == pull_since_cursor(entries[m.peer], m.cursor, m.limit)
    IN  /\ m \in sync_pull
        /\ sync_pull' = sync_pull \ {m}
        /\ sync_batch' = sync_batch \cup
             {[client |-> m.client, request_id |-> m.request_id,
               entries |-> rows, next_cursor |-> next_cursor_of(rows)]}
        /\ UNCHANGED <<storeVars, cursorVars, clientVars, pushVars,
                       pruneVars, faults>>

\* POST /api/v1/entries: stored (200), or refused unread (413, here an
\* ack with ok = FALSE).
HttpServePush(m) ==
    IF Bytes(m.entries) <= MaxRequestBytes
    THEN ServePush(m)
    ELSE /\ m \in entries_push
         /\ entries_push' = entries_push \ {m}
         /\ Acknowledge(m, FALSE)
         /\ UNCHANGED <<storeVars, cursorVars, clientVars, pullVars,
                        pruneVars, faults>>

-----------------------------------------------------------------------------
(* Client.                                                                 *)

\* The response is longer than into_string reads.
TooBigToRead(c) ==
    \E m \in sync_batch : Answer(c, m) /\ Bytes(m.entries) > MaxResponseBytes

HttpPullInsert(c) == ~ TooBigToRead(c) /\ PullInsert(c)

\* An error that is neither retried nor taken for a payload too large.
HttpPullTooBig(c) ==
    /\ pc[c] = "pull_wait"
    /\ TooBigToRead(c)
    /\ sync_batch' = {m \in sync_batch : ~ Answer(c, m)}
    /\ EndPull(c)
    /\ UNCHANGED <<storeVars, cursorVars, request_id, sync_pull, pushVars,
                   pruneVars, faults>>

\* The batch is sent whatever its size.
HttpPushSend(c) ==
    /\ pc[c] = "push_read"
    /\ PushBatch(c) # {}
    /\ pc' = [pc EXCEPT ![c] = "push_wait"]
    /\ batch' = [batch EXCEPT ![c] = PushBatch(c)]
    /\ next_cursor' = [next_cursor EXCEPT ![c] = next_cursor_of(PushBatch(c))]
    /\ SendPush(c, target[c], PushBatch(c))
    /\ UNCHANGED <<storeVars, cursorVars, target, cursor, batch_limit,
                   attempt, pullVars, push_ack, pruneVars, faults>>

\* 200 saves the cursor; 413 reads the batch again with half the limit,
\* unless it is a single entry already.
HttpPushAnswered(c) ==
    /\ pc[c] = "push_wait"
    /\ \E m \in push_ack :
         /\ Answer(c, m)
         /\ push_ack' = push_ack \ {m}
         /\ \/ /\ m.ok
               /\ pc' = [pc EXCEPT ![c] = "push_save"]
               /\ UNCHANGED <<target, cursor, batch_limit, attempt, batch,
                              next_cursor>>
            \/ /\ ~ m.ok
               /\ batch_limit[c] <= 1
               /\ EndSync(c)
            \/ /\ ~ m.ok
               /\ batch_limit[c] > 1
               /\ pc' = [pc EXCEPT ![c] = "push_read"]
               /\ batch_limit' = [batch_limit EXCEPT ![c] = @ \div 2]
               /\ attempt' = [attempt EXCEPT ![c] = 0]
               /\ batch' = [batch EXCEPT ![c] = {}]
               /\ next_cursor' = [next_cursor EXCEPT ![c] = 0]
               /\ UNCHANGED <<target, cursor>>
    /\ UNCHANGED <<storeVars, cursorVars, request_id, pullVars, entries_push,
                   pruneVars, faults>>

\* The connection breaks between the head of a response and the end of its
\* body: request_with_retry has returned, so nothing is retried.
HttpBodyCut(c) ==
    /\ pc[c] \in {"pull_wait", "push_wait"}
    /\ Fault
    /\ \E m \in sync_batch \cup push_ack :
         /\ Answer(c, m)
         /\ sync_batch' = sync_batch \ {m}
         /\ push_ack' = push_ack \ {m}
    /\ FailPhase(c)
    /\ UNCHANGED <<storeVars, cursorVars, request_id, sync_pull, entries_push,
                   pruneVars>>
=============================================================================
