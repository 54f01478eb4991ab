---------------------------- MODULE SyncRunProofs ----------------------------
(***************************************************************************)
(* Proofs about SyncRun, for all devices, clients, targets, entries,       *)
(* limits and bounds and for both transports: the cursors of PeerSync stay *)
(* safe over HTTP too, and a run that reports success did what it says.    *)
(*                                                                         *)
(* A run sees an empty answer and concludes that it has everything.  That  *)
(* is so because the answer was read from the whole table (PullExhausts)   *)
(* at a time when the cursor of the request was safe (SafeInv), and after  *)
(* the run began: nothing is deleted meanwhile, so what was offered then   *)
(* was still there.                                                        *)
(*                                                                         *)
(* A run without a fault is held to more (CleanInv).  Then an answer to    *)
(* each request is under way: a response of entries that can all be pulled *)
(* is never too large to be sent or read (PullableFits), and a push of one *)
(* entry that can be pushed is not refused.  So the only way out of a      *)
(* pull is an empty answer, and out of a push an empty batch (PullLeaves,  *)
(* PushLeaves), and what is over is done.                                  *)
(***************************************************************************)
EXTENDS SyncRun, PeerSyncProofs

-----------------------------------------------------------------------------
(* The steps that PeerSync does not have.                                  *)

\* A push that the server refuses unread.
RefusePush(m) ==
    /\ m \in entries_push
    /\ transport = "http"
    /\ ~ (Bytes(m.entries) <= MaxRequestBytes)
    /\ entries_push' = entries_push \ {m}
    /\ Acknowledge(m, FALSE)
    /\ UNCHANGED <<storeVars, cursorVars, clientVars, pullVars, pruneVars,
                   faults>>

\* A client gives up its phase, or its peer, for a reason of its own.
LeavePhase(c) == HttpPullTooBig(c) \/ HttpBodyCut(c) \/ Killed(c)

OtherStep ==
    \/ \E c \in Client : \/ LeavePhase(c) \/ HttpPushSend(c) \/ HttpPushAnswered(c)
                         \/ \E p \in Device : SkipTarget(c, p)
    \/ \E m \in sync_pull : HttpServePull(m)
    \/ \E m \in entries_push : RefusePush(m)

LEMMA RunIsSync ==
    ASSUME [RunNext]_allVars
    PROVE  [Next]_vars \/ OtherStep
<1>1. ASSUME NEW c \in Client,
             BeginRun(c) \/ CountCursor(c) \/ CountPending(c) \/ Finish(c)
      PROVE  UNCHANGED vars
    BY <1>1 DEF BeginRun, CountCursor, CountPending, Finish, peerSyncVars
<1>2. ASSUME NEW c \in Client, NEW p \in Device, TakeTarget(c, p) PROVE Next
    BY <1>2 DEF TakeTarget, Next
<1>3. ASSUME NEW c \in Client, EndOfPull(c) \/ EndOfPush(c) PROVE Next
    BY <1>3 DEF EndOfPull, EndOfPush, Next, ClientStep
<1>4. ASSUME NEW c \in Client, TransferStep(c) PROVE Next \/ OtherStep
    BY <1>4 DEF TransferStep, CommonStep, P2pStep, HttpStep, HttpPullInsert,
                Next, ClientStep, OtherStep, LeavePhase
<1>5. ASSUME NEW c \in Client, RunServe(c) PROVE Next \/ OtherStep
    <2>1. ASSUME NEW m \in entries_push, transport = "http", HttpServePush(m)
          PROVE  ServePush(m) \/ RefusePush(m)
        BY <2>1 DEF HttpServePush, RefusePush
    <2>2. QED
        BY <1>5, <2>1 DEF RunServe, ServePullStep, ServePushStep, Next,
                          ServerStep, OtherStep
<1>6. ASSUME FaultStep PROVE Next \/ OtherStep
    BY <1>6 DEF FaultStep, Next, ServerStep, OtherStep, LeavePhase
<1>7. ASSUME NEW c \in Client, Killed(c) \/ \E p \in Device : SkipTarget(c, p)
      PROVE  OtherStep
    BY <1>7 DEF OtherStep, LeavePhase
<1>8. ASSUME NEW d \in Device, NEW e \in Entry, Record(d, e) PROVE Next
    BY <1>8 DEF Next
<1>9. UNCHANGED allVars => UNCHANGED vars
    BY DEF allVars, peerSyncVars
<1>10. QED
    BY <1>1, <1>2, <1>3, <1>4, <1>5, <1>6, <1>7, <1>8, <1>9
       DEF RunNext, RunStep

LEMMA OtherKeeps ==
    ASSUME OtherStep
    PROVE  /\ UNCHANGED storeVars /\ UNCHANGED cursorVars /\ UNCHANGED pruneVars
           /\ Fault \/ UNCHANGED faults
BY DEF OtherStep, LeavePhase, HttpPullTooBig, HttpBodyCut, Killed, HttpPushSend,
       HttpPushAnswered, SkipTarget, HttpServePull, RefusePush

\* Such a step as one client sees it.
LEMMA OtherCases ==
    ASSUME TypeInv, OtherStep, NEW c \in Client
    PROVE  \/ SameLocal(c) /\ request_id'[c] = request_id[c] /\ LessMail(c)
           \/ pc'[c] \in {"idle", "push_begin"}
           \/ HttpPushSend(c)
           \/ HttpPushAnswered(c) /\ pc'[c] \in {"push_save", "push_read"}
           \/ \E m \in sync_pull : m.client = c /\ HttpServePull(m)
           \/ \E m \in entries_push : m.client = c /\ RefusePush(m)
<1> DEFINE Same == SameLocal(c) /\ request_id'[c] = request_id[c] /\ LessMail(c)
<1>0. ClientType
    BY TypeGroups DEF TypeInv
<1>1. ASSUME NEW x \in Client, LeavePhase(x)
      PROVE  Same \/ pc'[c] \in {"idle", "push_begin"}
    <2>1. /\ EndPull(x) \/ EndSync(x) \/ FailPhase(x)
          /\ request_id' = request_id
          /\ LessMail(c)
        BY <1>1 DEF LeavePhase, HttpPullTooBig, HttpBodyCut, Killed, LessMail,
                    pullVars, pushVars
    <2>2. \E p \in Device, phase \in {"idle", "push_begin"} :
            EnterPhase(x, phase, p)
        BY <1>0, <2>1, ClientAssumption DEF EndPull, EndSync, FailPhase, ClientType
    <2>3. QED
        BY <1>0, <2>1, <2>2 DEF EnterPhase, ClientType, SameLocal
<1>2. ASSUME NEW x \in Client, x # c, HttpPushSend(x) PROVE Same
    <2>1. SameLocal(c) /\ request_id'[c] = request_id[c]
        BY <1>0, <1>2 DEF HttpPushSend, SendPush, SameLocal, ClientType
    <2>2. LessMail(c)
        BY <1>2 DEF HttpPushSend, SendPush, LessMail, pullVars
    <2>3. QED
        BY <2>1, <2>2
<1>3. ASSUME NEW x \in Client, HttpPushAnswered(x)
      PROVE  \/ Same
             \/ pc'[c] = "idle"
             \/ x = c /\ pc'[c] \in {"push_save", "push_read"}
    <2>1. LessMail(c) /\ request_id' = request_id
        BY <1>3 DEF HttpPushAnswered, LessMail, pullVars
    <2>2. CASE EndSync(x)
        BY <1>0, <2>1, <2>2 DEF EndSync, EnterPhase, SameLocal, ClientType
    <2>3. CASE ~ EndSync(x)
        BY <1>0, <1>3, <2>1, <2>3 DEF HttpPushAnswered, SameLocal, ClientType
    <2>4. QED
        BY <2>2, <2>3
<1>4. ASSUME NEW x \in Client, NEW p \in Device, SkipTarget(x, p) PROVE Same
    BY <1>4 DEF SkipTarget, SameLocal, LessMail, clientVars, pullVars, pushVars
<1>5. ASSUME NEW m \in sync_pull, m.client # c, HttpServePull(m) PROVE Same
    BY <1>5 DEF HttpServePull, SameLocal, LessMail, clientVars, pushVars
<1>6. ASSUME NEW m \in entries_push, m.client # c, RefusePush(m) PROVE Same
    BY <1>6 DEF RefusePush, Acknowledge, SameLocal, LessMail, clientVars, pullVars
<1>7. QED
    BY <1>1, <1>2, <1>3, <1>4, <1>5, <1>6 DEF OtherStep

-----------------------------------------------------------------------------
(* They keep what the steps of PeerSync keep.                              *)

LEMMA OtherClients ==
    ASSUME TypeInv, OtherStep
    PROVE  ClientType' /\ \A c \in Client : IsFiniteSet(batch[c])'
<1> DEFINE Goal == ClientType' /\ \A c \in Client : IsFiniteSet(batch[c])'
<1>0. ClientType /\ \A c \in Client : IsFiniteSet(batch[c])
    BY TypeGroups DEF TypeInv, BatchInv
<1>1. ASSUME UNCHANGED clientVars PROVE Goal
    BY <1>0, <1>1 DEF ClientType, clientVars
<1>2. ASSUME NEW c \in Client, request_id' = request_id,
             EndPull(c) \/ EndSync(c) \/ FailPhase(c)
      PROVE  Goal
    <2>1. ClientType' /\ batch'[c] = {}
        BY <1>0, <1>2, PhaseType
    <2>2. \A x \in Client : x # c => batch'[x] = batch[x]
        BY <1>0, <1>2 DEF EndPull, EndSync, FailPhase, EnterPhase, ClientType
    <2>3. QED
        BY <1>0, <2>1, <2>2, FS_EmptySet
<1>3. ASSUME NEW c \in Client, LeavePhase(c) PROVE Goal
    BY <1>2, <1>3 DEF LeavePhase, HttpPullTooBig, HttpBodyCut, Killed
<1>4. ASSUME NEW c \in Client, HttpPushSend(c) PROVE Goal
    <2>1. NewRequestId(c) \in RequestId
        BY <1>4, FreshRequest DEF HttpPushSend, SendPush
    <2>2. Batch(PushBatch(c)) /\ next_cursor_of(PushBatch(c)) \in Nat
        BY PushBatchRows
    <2>3. /\ pc' = [pc EXCEPT ![c] = "push_wait"]
          /\ batch' = [batch EXCEPT ![c] = PushBatch(c)]
          /\ next_cursor' = [next_cursor EXCEPT
                               ![c] = next_cursor_of(PushBatch(c))]
          /\ request_id' = [request_id EXCEPT ![c] = NewRequestId(c)]
          /\ UNCHANGED <<target, cursor, batch_limit, attempt>>
        BY <1>4 DEF HttpPushSend, SendPush
    <2>4. QED
        BY <1>0, <2>1, <2>2, <2>3 DEF ClientType, Batch
<1>5. ASSUME NEW c \in Client, HttpPushAnswered(c) PROVE Goal
    <2>1. request_id' = request_id
        BY <1>5 DEF HttpPushAnswered
    <2>2. CASE EndSync(c)
        BY <1>2, <2>1, <2>2
    <2>3. CASE /\ pc' = [pc EXCEPT ![c] = "push_save"]
               /\ UNCHANGED <<target, cursor, batch_limit, attempt, batch,
                              next_cursor>>
        BY <1>0, <2>1, <2>3 DEF ClientType
    <2>4. CASE /\ pc' = [pc EXCEPT ![c] = "push_read"]
               /\ batch_limit' = [batch_limit EXCEPT ![c] = @ \div 2]
               /\ attempt' = [attempt EXCEPT ![c] = 0]
               /\ batch' = [batch EXCEPT ![c] = {}]
               /\ next_cursor' = [next_cursor EXCEPT ![c] = 0]
               /\ UNCHANGED <<target, cursor>>
        <3>1. batch_limit[c] \div 2 \in Nat
            BY <1>0 DEF ClientType
        <3>2. ClientType'
            BY <1>0, <2>1, <2>4, <3>1 DEF ClientType
        <3>3. \A x \in Client : batch'[x] = {} \/ batch'[x] = batch[x]
            BY <1>0, <2>4 DEF ClientType
        <3>4. QED
            BY <1>0, <3>2, <3>3, FS_EmptySet
    <2>5. QED
        BY <1>5, <2>2, <2>3, <2>4 DEF HttpPushAnswered
<1>6. ASSUME NEW c \in Client, NEW p \in Device, SkipTarget(c, p) PROVE Goal
    BY <1>1, <1>6 DEF SkipTarget
<1>7. ASSUME NEW m, HttpServePull(m) \/ RefusePush(m) PROVE Goal
    BY <1>1, <1>7 DEF HttpServePull, RefusePush
<1>8. QED
    BY <1>3, <1>4, <1>5, <1>6, <1>7 DEF OtherStep

LEMMA OtherMessages ==
    ASSUME TypeInv, OtherStep
    PROVE  /\ MessageType'
           /\ \A m \in sync_batch' : IsFiniteSet(m.entries)
           /\ \A m \in entries_push' : IsFiniteSet(m.entries)
<1> DEFINE Goal == /\ MessageType'
                   /\ \A m \in sync_batch' : IsFiniteSet(m.entries)
                   /\ \A m \in entries_push' : IsFiniteSet(m.entries)
<1>0. /\ ClientType /\ MessageType
      /\ \A m \in sync_batch : IsFiniteSet(m.entries)
      /\ \A m \in entries_push : IsFiniteSet(m.entries)
    BY TypeGroups DEF TypeInv, BatchInv
<1>1. ASSUME /\ sync_pull' \subseteq sync_pull
             /\ sync_batch' \subseteq sync_batch
             /\ entries_push' \subseteq entries_push
             /\ push_ack' \subseteq push_ack
      PROVE  Goal
    BY <1>0, <1>1 DEF MessageType
<1>2. ASSUME NEW c \in Client, LeavePhase(c) \/ HttpPushAnswered(c)
                               \/ \E p \in Device : SkipTarget(c, p)
      PROVE  Goal
    BY <1>1, <1>2 DEF LeavePhase, HttpPullTooBig, HttpBodyCut, Killed,
                      HttpPushAnswered, SkipTarget, pullVars, pushVars
<1>3. ASSUME NEW c \in Client, HttpPushSend(c) PROVE Goal
    <2>1. NewRequestId(c) \in RequestId
        BY <1>3, FreshRequest DEF HttpPushSend, SendPush
    <2>2. target[c] \in Device /\ Batch(PushBatch(c))
        BY <1>0, PushBatchRows DEF ClientType
    <2>3. [client |-> c, request_id |-> NewRequestId(c), peer |-> target[c],
           entries |-> PushBatch(c)] \in EntriesPush
        BY <2>1, <2>2 DEF EntriesPush, Batch
    <2>4. QED
        BY <1>0, <1>3, <2>2, <2>3 DEF HttpPushSend, SendPush, MessageType,
                                      pullVars, Batch
<1>4. ASSUME NEW m \in sync_pull, HttpServePull(m) PROVE Goal
    <2>1. /\ sync_pull' \subseteq sync_pull
          /\ sync_batch' = sync_batch \cup {PullAnswer(m)}
          /\ UNCHANGED pushVars
        BY <1>4 DEF HttpServePull, PullAnswer
    <2>2. QED
        BY <1>0, <2>1, PullAnswerType DEF MessageType, pushVars
<1>5. ASSUME NEW m \in entries_push, RefusePush(m) PROVE Goal
    <2>1. [client |-> m.client, request_id |-> m.request_id, ok |-> FALSE]
              \in PushAck
        BY <1>0 DEF MessageType, EntriesPush, PushAck
    <2>2. QED
        BY <1>0, <1>5, <2>1 DEF RefusePush, Acknowledge, MessageType, pullVars
<1>6. QED
    BY <1>2, <1>3, <1>4, <1>5 DEF OtherStep

LEMMA OtherTypes ==
    ASSUME TypeInv, OtherStep
    PROVE  TypeInv' /\ StoresGrow
<1>1. /\ StoreType /\ StoreInv /\ CursorType /\ PruneType /\ faults \in Nat
    BY TypeGroups DEF TypeInv
<1>2. StoreType' /\ StoreInv' /\ StoresGrow
    BY <1>1, OtherKeeps, UnchangedStore
<1>3. CursorType' /\ PruneType' /\ faults' \in Nat
    BY <1>1, OtherKeeps DEF CursorType, PruneType, Fault, cursorVars, pruneVars
<1>4. ClientType' /\ MessageType' /\ BatchInv'
    BY OtherClients, OtherMessages DEF BatchInv
<1>5. QED
    BY <1>2, <1>3, <1>4 DEF TypeInv, TypeOK, StoreType, CursorType, ClientType,
                            MessageType, PruneType

LEMMA OtherLocal ==
    ASSUME SafeInv, OtherStep, NEW c \in Client
    PROVE  LocalInv(c)'
<1>0. /\ TypeInv /\ TypeInv' /\ StoresGrow /\ UNCHANGED storeVars
      /\ LocalInv(c) /\ MailInv(c) /\ ClientType
    BY OtherTypes, OtherKeeps, TypeGroups DEF SafeInv, TypeInv
<1>1. CASE SameLocal(c)
    BY <1>0, <1>1, LocalFrame
<1>2. CASE pc'[c] \in {"idle", "push_begin"}
    BY <1>2 DEF LocalInv
<1>3. CASE HttpPushSend(c)
    <2>1. /\ pc[c] = "push_read" /\ pc'[c] = "push_wait"
          /\ target'[c] = target[c] /\ cursor'[c] = cursor[c]
          /\ batch'[c] = PushBatch(c)
          /\ next_cursor'[c] = next_cursor_of(PushBatch(c))
        BY <1>0, <1>3 DEF HttpPushSend, ClientType
    <2>2. /\ next_cursor_of(PushBatch(c)) <= sqlite_sequence[host[c]]
          /\ Carries(RowsOf(entries[host[c]], host[c]), cursor[c],
                     next_cursor_of(PushBatch(c)), Ids(PushBatch(c)))
        BY <1>0, PushBatchRows
    <2>3. QED
        BY <1>0, <2>1, <2>2 DEF LocalInv, storeVars
<1>4. CASE HttpPushAnswered(c) /\ pc'[c] \in {"push_save", "push_read"}
    <2>1. pc[c] = "push_wait"
        BY <1>4 DEF HttpPushAnswered
    <2>2. ~ EndSync(c)
        BY <1>0, <1>4 DEF EndSync, EnterPhase, ClientType
    <2>3. target'[c] = target[c] /\ cursor'[c] = cursor[c]
        BY <1>4, <2>2 DEF HttpPushAnswered
    <2>4. CASE pc'[c] = "push_save"
        <3>1. /\ \E m \in push_ack : Answer(c, m) /\ m.ok
              /\ UNCHANGED <<batch, next_cursor>>
            BY <1>0, <1>4, <2>2, <2>4 DEF HttpPushAnswered, ClientType
        <3>2. Ids(batch[c]) \subseteq seen[target[c]]
            BY <1>0, <2>1, <3>1 DEF MailInv, PushMail
        <3>3. QED
            BY <1>0, <2>1, <2>3, <2>4, <3>1, <3>2 DEF LocalInv, storeVars
    <2>5. CASE pc'[c] = "push_read"
        BY <1>0, <2>1, <2>3, <2>5 DEF LocalInv, storeVars
    <2>6. QED
        BY <1>4, <2>4, <2>5
<1>5. ASSUME NEW m, HttpServePull(m) \/ RefusePush(m) PROVE SameLocal(c)
    BY <1>5 DEF HttpServePull, RefusePush, SameLocal, clientVars
<1>6. QED
    BY <1>0, <1>1, <1>2, <1>3, <1>4, <1>5, OtherCases

LEMMA OtherMail ==
    ASSUME SafeInv, OtherStep, NEW c \in Client
    PROVE  MailInv(c)'
<1>0. TypeInv /\ TypeInv' /\ StoresGrow /\ MailInv(c) /\ ClientType
    BY OtherTypes, TypeGroups DEF SafeInv, TypeInv
<1>1. CASE SameLocal(c) /\ request_id'[c] = request_id[c] /\ LessMail(c)
    BY <1>0, <1>1, MailFrame
<1>2. CASE pc'[c] \in {"idle", "push_begin", "push_save", "push_read"}
    BY <1>2 DEF MailInv
<1>3. CASE HttpPushSend(c)
    <2>1. /\ SendPush(c, target[c], PushBatch(c))
          /\ push_ack' = push_ack
          /\ pc'[c] = "push_wait" /\ target'[c] = target[c]
          /\ batch'[c] = PushBatch(c)
        BY <1>0, <1>3 DEF HttpPushSend, ClientType
    <2>2. QED
        BY <1>0, <2>1, PushSent
<1>4. ASSUME NEW m \in sync_pull, m.client = c, HttpServePull(m)
      PROVE  MailInv(c)'
    BY <1>0, <1>4, PullServed DEF HttpServePull, PullAnswer
<1>5. ASSUME NEW m \in entries_push, m.client = c, RefusePush(m)
      PROVE  MailInv(c)'
    BY <1>0, <1>5, PushRefused DEF RefusePush
<1>6. QED
    BY <1>0, <1>1, <1>2, <1>3, <1>4, <1>5, OtherCases

LEMMA OtherBatches ==
    ASSUME TypeInv, OtherStep
    PROVE  BatchOrigin
<1>0. batch \in [Client -> SUBSET Row]
    BY DEF TypeInv, TypeOK
<1> DEFINE Wire == /\ sync_batch' \subseteq sync_batch
                   /\ entries_push' \subseteq entries_push
<1>1. ASSUME Wire, UNCHANGED batch PROVE BatchOrigin
    BY <1>1 DEF BatchOrigin
<1>2. ASSUME NEW x \in Client, Wire, batch' = [batch EXCEPT ![x] = {}]
      PROVE  BatchOrigin
    BY <1>0, <1>2 DEF BatchOrigin
<1>3. ASSUME NEW x \in Client, LeavePhase(x) PROVE BatchOrigin
    <2>1. Wire
        BY <1>3 DEF LeavePhase, HttpPullTooBig, HttpBodyCut, Killed, pullVars, pushVars
    <2>2. EndPull(x) \/ EndSync(x) \/ FailPhase(x)
        BY <1>3 DEF LeavePhase, HttpPullTooBig, HttpBodyCut, Killed
    <2>3. QED
        BY <1>2, <2>1, <2>2 DEF EndPull, EndSync, FailPhase, EnterPhase
<1>4. ASSUME NEW x \in Client, HttpPushAnswered(x) PROVE BatchOrigin
    <2>1. Wire
        BY <1>4 DEF HttpPushAnswered, pullVars
    <2>2. EndSync(x) \/ UNCHANGED batch \/ batch' = [batch EXCEPT ![x] = {}]
        BY <1>4 DEF HttpPushAnswered
    <2>3. QED
        BY <1>1, <1>2, <2>1, <2>2 DEF EndSync, EnterPhase
<1>5. ASSUME NEW x \in Client, HttpPushSend(x) PROVE BatchOrigin
    <2>1. /\ sync_batch' = sync_batch
          /\ batch' = [batch EXCEPT ![x] = PushBatch(x)]
          /\ \A m \in entries_push' :
               m \in entries_push \/ m.entries = PushBatch(x)
        BY <1>5 DEF HttpPushSend, SendPush, pullVars
    <2>2. QED
        BY <1>0, <2>1 DEF BatchOrigin
<1>6. ASSUME NEW x \in Client, NEW p \in Device, SkipTarget(x, p) PROVE BatchOrigin
    BY <1>1, <1>6 DEF SkipTarget, clientVars, pullVars, pushVars
<1>7. ASSUME NEW r \in sync_pull, HttpServePull(r) PROVE BatchOrigin
    <2>1. /\ entries_push' = entries_push /\ batch' = batch
          /\ \A m \in sync_batch' : m \in sync_batch \/ m.entries = PullRows(r)
        BY <1>7 DEF HttpServePull, PullRows, pushVars, clientVars
    <2>2. QED
        BY <2>1 DEF BatchOrigin
<1>8. ASSUME NEW m, RefusePush(m) PROVE BatchOrigin
    BY <1>1, <1>8 DEF RefusePush, clientVars, pullVars
<1>9. QED
    BY <1>3, <1>4, <1>5, <1>6, <1>7, <1>8 DEF OtherStep

\* The invariants of PeerSync hold of a run by either transport.
LEMMA RunSafe ==
    ASSUME SafeInv, UniqueInv, [RunNext]_allVars
    PROVE  SafeInv' /\ UniqueInv' /\ StoresGrow
<1>0. TypeInv
    BY DEF SafeInv
<1>1. CASE [Next]_vars
    BY <1>0, <1>1, SafeNext, UniqueNext, StoreNext
<1>2. CASE OtherStep
    <2>1. TypeInv' /\ StoresGrow
        BY <1>0, <1>2, OtherTypes
    <2>2. CursorInv'
        <3>1. UNCHANGED storeVars /\ UNCHANGED cursorVars
            BY <1>2, OtherKeeps
        <3>2. QED
            BY <3>1 DEF SafeInv, CursorInv, storeVars, cursorVars
    <2>3. SafeInv'
        BY <1>2, <2>1, <2>2, OtherLocal, OtherMail DEF SafeInv
    <2>4. UniqueInv'
        <3>1. entries' = entries
            BY <1>2, OtherKeeps DEF storeVars
        <3>2. QED
            BY <1>0, <1>2, <3>1, OtherBatches, UniqueBatches DEF UniqueInv
    <2>5. QED
        BY <2>1, <2>3, <2>4
<1>3. QED
    BY <1>1, <1>2, RunIsSync

-----------------------------------------------------------------------------
(* Nothing is deleted in a run, and a limit is never halved to nothing.    *)

LEMMA RunKeepsPrune ==
    ASSUME [RunNext]_allVars
    PROVE  UNCHANGED prune_pc
<1>1. ASSUME NEW c \in Client,
             BeginRun(c) \/ CountCursor(c) \/ CountPending(c) \/ Finish(c)
      PROVE  UNCHANGED prune_pc
    BY <1>1 DEF BeginRun, CountCursor, CountPending, Finish, peerSyncVars, vars,
                pruneVars
<1>2. ASSUME NEW c \in Client, NEW p \in Device, TakeTarget(c, p) \/ SkipTarget(c, p)
      PROVE  UNCHANGED prune_pc
    BY <1>2 DEF TakeTarget, StartSync, SkipTarget, pruneVars
<1>3. ASSUME NEW c \in Client, EndOfPull(c) \/ EndOfPush(c) \/ Killed(c)
      PROVE  UNCHANGED prune_pc
    BY <1>3 DEF EndOfPull, EndOfPush, PullDone, PushDone, Killed, pruneVars
<1>4. ASSUME NEW c \in Client, CommonStep(c) PROVE UNCHANGED prune_pc
    BY <1>4 DEF CommonStep, SaveCursor, PushBegin, SavePushed, SkipResponse,
                RetryPull, RetryPush, GiveUp, pruneVars
<1>5. ASSUME NEW c \in Client, P2pStep(c) \/ HttpStep(c)
      PROVE  UNCHANGED prune_pc
    BY <1>5 DEF P2pStep, PullInsert, PushSend, PushTooLarge, PushAcked, HttpStep,
                HttpPullInsert, HttpPullTooBig, HttpPushSend, HttpPushAnswered,
                pruneVars
<1>6. ASSUME NEW m, ServePullStep(m) \/ ServePushStep(m) PROVE UNCHANGED prune_pc
    BY <1>6 DEF ServePullStep, ServePull, HttpServePull, ServePushStep, ServePush,
                HttpServePush, pruneVars
<1>7. ASSUME FaultStep PROVE UNCHANGED prune_pc
    BY <1>7 DEF FaultStep, Abort, HttpBodyCut, ServePushError, Lose, pruneVars
<1>8. ASSUME NEW d \in Device, NEW e \in Entry, Record(d, e)
      PROVE  UNCHANGED prune_pc
    BY <1>8 DEF Record, pruneVars
<1>9. CASE UNCHANGED allVars
    BY <1>9 DEF allVars, peerSyncVars, vars, pruneVars
<1>10. QED
    BY <1>1, <1>2, <1>3, <1>4, <1>5, <1>6, <1>7, <1>8, <1>9
       DEF RunNext, RunStep, RunServe, TransferStep

LEMMA RunGrows ==
    ASSUME TypeInv, [RunNext]_allVars
    PROVE  \A d \in Device : entries[d] \subseteq entries'[d]
<1> DEFINE Goal == \A d \in Device : entries[d] \subseteq entries'[d]
<1>0. entries \in [Device -> SUBSET Row] /\ \A c \in Client : host[c] \in Device
    BY ClientAssumption DEF TypeInv, TypeOK
<1>1. CASE UNCHANGED storeVars
    BY <1>1 DEF storeVars
<1>2. ASSUME NEW d \in Device, NEW B, Insert(d, B) PROVE Goal
    BY <1>0, <1>2, InsertRows DEF Insert
<1>3. ASSUME NEW d \in Device, NEW e \in Entry, Record(d, e) PROVE Goal
    BY <1>2, <1>3 DEF Record
<1>4. ASSUME NEW c \in Client, PullInsert(c) PROVE Goal
    BY <1>0, <1>2, <1>4 DEF PullInsert
<1>5. ASSUME NEW m \in entries_push, ServePush(m) PROVE Goal
    <2>1. m.peer \in Device
        BY DEF TypeInv, TypeOK, EntriesPush
    <2>2. QED
        BY <1>2, <1>5, <2>1 DEF ServePush
<1>6. ASSUME NEW d \in Device, PruneDelete(d) PROVE FALSE
    BY <1>6, RunKeepsPrune DEF PruneDelete, TypeInv, TypeOK
<1>7. CASE OtherStep
    BY <1>1, <1>7, OtherKeeps
<1>8. QED
    BY <1>1, <1>3, <1>4, <1>5, <1>6, <1>7, RunIsSync, StoreCases

\* Every batch that is asked for, or read to be pushed, has room for a row,
\* and for no more than Limit.
LimitInv ==
    /\ \A c \in Client : batch_limit[c] >= 1 /\ batch_limit[c] <= Limit
    /\ \A m \in sync_pull : m.limit >= 1 /\ m.limit <= Limit

LEMMA LimitNext ==
    ASSUME TypeInv, LimitInv, [RunNext]_allVars
    PROVE  LimitInv'
<1>0. batch_limit \in [Client -> Nat] /\ Limit \in Nat /\ Limit >= 1
    BY BoundAssumption DEF TypeInv, TypeOK
<1>1. ASSUME UNCHANGED batch_limit, sync_pull' \subseteq sync_pull PROVE LimitInv'
    BY <1>1 DEF LimitInv
<1>2. ASSUME NEW c \in Client, sync_pull' \subseteq sync_pull,
             EndPull(c) \/ EndSync(c) \/ FailPhase(c)
      PROVE  LimitInv'
    <2>1. batch_limit' = [batch_limit EXCEPT ![c] = Limit]
        BY <1>2 DEF EndPull, EndSync, FailPhase, EnterPhase
    <2>2. QED
        BY <1>0, <1>2, <2>1 DEF LimitInv
<1>3. ASSUME NEW c \in Client, sync_pull' \subseteq sync_pull, batch_limit[c] > 1,
             batch_limit' = [batch_limit EXCEPT ![c] = @ \div 2]
      PROVE  LimitInv'
    <2>1. batch_limit[c] \div 2 >= 1 /\ batch_limit[c] \div 2 <= Limit
        BY <1>0, <1>3 DEF LimitInv
    <2>2. QED
        BY <1>0, <1>3, <2>1 DEF LimitInv
<1>4. ASSUME NEW c \in Client, NEW p, NEW from, UNCHANGED batch_limit,
             SendPull(c, p, from, batch_limit[c])
      PROVE  LimitInv'
    BY <1>4 DEF SendPull, LimitInv
<1>5. ASSUME NEW c \in Client, PullDone(c) \/ PullInsert(c) \/ PushDone(c)
                               \/ PushAcked(c) \/ SavePushed(c)
      PROVE  LimitInv'
    <2>1. /\ sync_pull' \subseteq sync_pull
          /\ EndPull(c) \/ EndSync(c) \/ UNCHANGED batch_limit
        BY <1>5 DEF PullDone, PullInsert, PushDone, PushAcked, SavePushed, pullVars
    <2>2. QED
        BY <1>1, <1>2, <2>1
<1>6. ASSUME NEW c \in Client, GiveUp(c) \/ Abort(c) \/ Crash(c) \/ LeavePhase(c)
      PROVE  LimitInv'
    <2>1. /\ sync_pull' \subseteq sync_pull
          /\ EndPull(c) \/ EndSync(c) \/ FailPhase(c)
        BY <1>6 DEF GiveUp, Abort, Crash, LeavePhase, HttpPullTooBig, HttpBodyCut,
                    Killed, pullVars
    <2>2. QED
        BY <1>2, <2>1
<1>7. ASSUME NEW c \in Client, PushTooLarge(c) \/ HttpPushAnswered(c)
      PROVE  LimitInv'
    <2>1. /\ sync_pull' \subseteq sync_pull
          /\ \/ EndSync(c) \/ UNCHANGED batch_limit
             \/ /\ ~ (batch_limit[c] <= 1)
                /\ batch_limit' = [batch_limit EXCEPT ![c] = @ \div 2]
             \/ /\ batch_limit[c] > 1
                /\ batch_limit' = [batch_limit EXCEPT ![c] = @ \div 2]
        BY <1>7 DEF PushTooLarge, HttpPushAnswered, pullVars
    <2>2. QED
        BY <1>0, <1>1, <1>2, <1>3, <2>1
<1>8. ASSUME NEW c \in Client, \/ \E p \in Device : StartSync(c, p)
                               \/ SaveCursor(c) \/ RetryPull(c)
      PROVE  LimitInv'
    BY <1>4, <1>8 DEF StartSync, SaveCursor, RetryPull
<1>9. ASSUME NEW c \in Client, \/ PushBegin(c) \/ PushSend(c) \/ RetryPush(c)
                               \/ SkipResponse(c) \/ HttpPushSend(c)
                               \/ \E p \in Device : SkipTarget(c, p)
      PROVE  LimitInv'
    BY <1>1, <1>9 DEF PushBegin, PushSend, RetryPush, SkipResponse, HttpPushSend,
                      SkipTarget, clientVars, pullVars
<1>10. ASSUME NEW m, \/ ServePull(m) \/ ServePush(m) \/ ServePushError(m) \/ Lose(m)
                     \/ HttpServePull(m) \/ RefusePush(m)
       PROVE  LimitInv'
    BY <1>1, <1>10 DEF ServePull, ServePush, ServePushError, Lose, HttpServePull,
                       RefusePush, clientVars, pullVars
<1>11. ASSUME NEW d, NEW e, Record(d, e) \/ PruneStep(d) PROVE LimitInv'
    BY <1>1, <1>11 DEF Record, PruneStep, PruneKeepFloor, PrunePushedFloor,
                       PruneDelete, clientVars, pullVars
<1>12. CASE UNCHANGED vars
    BY <1>1, <1>12 DEF vars, clientVars, pullVars
<1>13. QED
    BY <1>5, <1>6, <1>7, <1>8, <1>9, <1>10, <1>11, <1>12, RunIsSync
       DEF Next, ClientStep, ServerStep, OtherStep

-----------------------------------------------------------------------------
(* The variables of the run.                                               *)

RunVarsType ==
    /\ transport \in {"p2p", "http"}
    /\ result \in [Client -> {"none", "running", "ok", "error", "killed"}]
    /\ todo \in [Client -> SUBSET Device]
    /\ progress \in [Client -> Progress]
    /\ push_needed \in [Client -> {"unknown", "counting", "no", "yes"}]
    /\ last_pushed_seq \in [Client -> Nat]
    /\ offered \in [Client -> [Device -> SUBSET Entry]]
    /\ waiting \in [Client -> SUBSET Entry]
    /\ owed \in [Client -> [Device -> SUBSET Entry]]

LEMMA RowIds ==
    ASSUME NEW T \in SUBSET Row
    PROVE  Ids(T) \in SUBSET Entry
BY DEF Ids, Row

LEMMA RunVarsInit ==
    ASSUME RunInit
    PROVE  RunVarsType
BY DEF RunInit, RunVarsType, Nothing, NewProgress, Progress

\* Each of the three operations of SyncRunProgress sets its own flag.
LEMMA ProgressSteps ==
    ASSUME RunVarsType, NEW c \in Client, NEW needed \in BOOLEAN
    PROVE  /\ mark_pull_ok(c) =>
                /\ progress'[c].push_needed = progress[c].push_needed
                /\ progress'[c].push_ok = progress[c].push_ok
           /\ note_push_needed(c, needed) =>
                /\ progress'[c].pull_ok = progress[c].pull_ok
                /\ progress'[c].push_needed = (progress[c].push_needed \/ needed)
                /\ progress'[c].push_ok = progress[c].push_ok
           /\ mark_push_ok(c, needed) =>
                /\ progress'[c].pull_ok = progress[c].pull_ok
                /\ progress'[c].push_needed = progress[c].push_needed
                /\ progress'[c].push_ok = (progress[c].push_ok \/ needed)
<1>1. progress \in [Client -> Progress]
    BY DEF RunVarsType
<1>2. QED
    BY <1>1 DEF mark_pull_ok, note_push_needed, mark_push_ok, Progress

\* Noting that a push is needed leaves a record of progress.
LEMMA NoteType ==
    ASSUME progress \in [Client -> Progress], NEW c \in Client,
           NEW needed \in BOOLEAN, note_push_needed(c, needed)
    PROVE  progress' \in [Client -> Progress]
<1>1. progress[c] \in Progress
    OBVIOUS
<1>2. [progress[c] EXCEPT !.push_needed = progress[c].push_needed \/ needed]
        \in Progress
    BY <1>1 DEF Progress
<1>3. progress' = [progress EXCEPT ![c] =
          [progress[c] EXCEPT !.push_needed = progress[c].push_needed \/ needed]]
    BY DEF note_push_needed
<1>4. QED
    BY <1>2, <1>3

LEMMA EndRunType ==
    ASSUME RunVarsType, NEW c \in Client, NEW how \in {"ok", "error", "killed"},
           EndRun(c, how)
    PROVE  RunVarsType'
BY DEF RunVarsType, EndRun, Nothing, NewProgress, Progress

LEMMA RunVarsNext ==
    ASSUME TypeInv, RunVarsType, [RunNext]_allVars
    PROVE  RunVarsType'
<1>0. /\ \A d \in Device : entries[d] \in SUBSET Row
      /\ \A c \in Client : /\ host[c] \in Device /\ target[c] \in Device
                           /\ targets[c] \in SUBSET Device
      /\ \A d, p \in Device : peer_push_state[d][p] \in Nat
    BY StoreFacts, ClientAssumption
<1>1. CASE UNCHANGED runVars
    BY <1>1 DEF RunVarsType, runVars
<1>2. ASSUME NEW c \in Client, BeginRun(c) PROVE RunVarsType'
    <2> DEFINE Offer == [p \in Device |-> Ids(entries[p]) \ seen[host[c]]]
               Wait == {e \in Ids(RowsOf(entries[host[c]], host[c])) :
                          \E p \in targets[c] : e \notin seen[p]}
    <2>1. Offer \in [Device -> SUBSET Entry]
        BY <1>0, RowIds
    <2>2. Wait \in SUBSET Entry
        <3>1. RowsOf(entries[host[c]], host[c]) \in SUBSET Row
            BY <1>0 DEF RowsOf
        <3>2. QED
            BY <3>1, RowIds
    <2>3. /\ offered' = [offered EXCEPT ![c] = Offer]
          /\ waiting' = [waiting EXCEPT ![c] = Wait]
        BY <1>2 DEF BeginRun
    <2> HIDE DEF Offer, Wait
    <2>4. QED
        BY <1>0, <1>2, <2>1, <2>2, <2>3
           DEF BeginRun, RunVarsType, NewProgress, Progress
<1>3. ASSUME NEW c \in Client, CountCursor(c) PROVE RunVarsType'
    BY <1>0, <1>3 DEF CountCursor, RunVarsType, get_last_pushed_seq
<1>4. ASSUME NEW c \in Client, CountPending(c) PROVE RunVarsType'
    <2> DEFINE pending == RowsAfter(RowsOf(entries[host[c]], host[c]),
                                    last_pushed_seq[c])
    <2>1. Ids(pending) \in SUBSET Entry
        <3>1. pending \in SUBSET Row
            BY <1>0 DEF RowsOf, RowsAfter
        <3>2. QED
            BY <3>1, RowIds
    <2>2. /\ owed' = [owed EXCEPT ![c][target[c]] = Ids(pending)]
          /\ push_needed' = [push_needed EXCEPT
                               ![c] = IF pending = {} THEN "no" ELSE "yes"]
          /\ note_push_needed(c, pending # {})
          /\ last_pushed_seq' = [last_pushed_seq EXCEPT ![c] = 0]
          /\ UNCHANGED <<transport, result, todo, offered, waiting>>
        BY <1>4 DEF CountPending
    <2> HIDE DEF pending
    <2>3. progress' \in [Client -> Progress]
        <3>1. progress \in [Client -> Progress] /\ (pending # {}) \in BOOLEAN
            BY DEF RunVarsType
        <3>2. QED
            BY <2>2, <3>1, NoteType
    <2>4. owed' \in [Client -> [Device -> SUBSET Entry]]
        BY <1>0, <2>1, <2>2 DEF RunVarsType
    <2>5. QED
        BY <2>2, <2>3, <2>4 DEF RunVarsType
<1>5. ASSUME NEW c \in Client, Finish(c) PROVE RunVarsType'
    BY <1>5, EndRunType DEF Finish
<1>6. ASSUME NEW c \in Client, Killed(c) PROVE RunVarsType'
    BY <1>6, EndRunType DEF Killed
<1>7. ASSUME NEW c \in Client, NEW p \in Device, TakeTarget(c, p) \/ SkipTarget(c, p)
      PROVE  RunVarsType'
    BY <1>7 DEF TakeTarget, SkipTarget, RunVarsType
<1>8. ASSUME NEW c \in Client, EndOfPull(c) \/ EndOfPush(c),
             UNCHANGED <<transport, result, todo, push_needed, last_pushed_seq,
                         offered, waiting, owed>>
      PROVE  RunVarsType'
    <2>1. progress' \in [Client -> Progress]
        <3>1. CASE mark_pull_ok(c)
            BY <3>1 DEF mark_pull_ok, RunVarsType, Progress
        <3>2. ASSUME NEW needed \in BOOLEAN, mark_push_ok(c, needed)
              PROVE  progress' \in [Client -> Progress]
            BY <3>2 DEF mark_push_ok, RunVarsType, Progress
        <3>3. (push_needed[c] = "yes") \in BOOLEAN
            OBVIOUS
        <3>4. QED
            BY <1>8, <3>1, <3>2, <3>3 DEF EndOfPull, EndOfPush
    <2>2. QED
        BY <1>8, <2>1 DEF RunVarsType
<1>9. QED
    BY <1>1, <1>2, <1>3, <1>4, <1>5, <1>6, <1>7, <1>8
       DEF RunNext, RunStep, RunServe, allVars

\* A run keeps its types, whichever transport it uses.
THEOREM RunTypeCorrect == RunSpec => []RunTypeOK
<1> DEFINE Inv == SafeInv /\ UniqueInv /\ RunVarsType
<1>1. RunInit => Inv
    <2>1. RunInit => UniqueInv
        BY DEF RunInit, Init, UniqueInv, Unique
    <2>2. QED
        BY <2>1, SafeInit, RunVarsInit DEF RunInit
<1>2. Inv /\ [RunNext]_allVars => Inv'
    BY RunSafe, RunVarsNext DEF SafeInv
<1>3. Inv => RunTypeOK
    BY DEF SafeInv, TypeInv, RunVarsType, RunTypeOK
<1>4. QED
    BY <1>1, <1>2, <1>3, PTL DEF RunSpec

-----------------------------------------------------------------------------
(* A run as one client sees it.                                            *)

PullPhase == {"pull_wait", "pull_save"}
PushPhase == {"push_begin", "push_read", "push_wait", "push_save"}

\* Client c goes on with its target, or is done with it.
Goes(c) ==
    \/ /\ target'[c] = target[c]
       /\ \/ pc'[c] = pc[c]
          \/ pc[c] \in PullPhase /\ pc'[c] \in PullPhase \cup {"push_begin"}
          \/ pc[c] \in PushPhase /\ pc'[c] \in PushPhase
    \/ pc[c] # "idle" /\ pc'[c] = "idle" /\ target'[c] = host[c]

Stays(c) == pc'[c] = pc[c] /\ target'[c] = target[c]

LEMMA StaysGoes == ASSUME NEW c, Stays(c) PROVE Goes(c)
BY DEF Stays, Goes

LEMMA ClientGoes ==
    ASSUME ClientType, NEW x \in Client,
           \/ TransferStep(x) \/ PullDone(x) \/ PushDone(x)
           \/ Abort(x) \/ HttpBodyCut(x)
    PROVE  \A c \in Client : IF c = x THEN Goes(c) ELSE Stays(c)
<1> DEFINE Goal == \A c \in Client : IF c = x THEN Goes(c) ELSE Stays(c)
<1>1. ASSUME EndSync(x), pc[x] # "idle" PROVE Goal
    BY <1>1 DEF EndSync, EnterPhase, Goes, Stays, ClientType
<1>2. ASSUME EndPull(x), pc[x] \in PullPhase PROVE Goal
    <2>1. CASE x \in PushClient
        BY <1>2, <2>1 DEF EndPull, EnterPhase, Goes, Stays, ClientType
    <2>2. CASE x \notin PushClient
        BY <1>1, <1>2, <2>2 DEF EndPull, PullPhase
    <2>3. QED
        BY <2>1, <2>2
<1>3. ASSUME FailPhase(x), pc[x] # "idle" PROVE Goal
    BY <1>1, <1>2, <1>3 DEF FailPhase, PullPhase
<1>4. ASSUME UNCHANGED <<pc, target>> PROVE Goal
    BY <1>4 DEF Goes, Stays
<1>5. ASSUME NEW a \in PullPhase, NEW b \in PullPhase, pc[x] = a,
             pc' = [pc EXCEPT ![x] = b], target' = target
      PROVE  Goal
    BY <1>5 DEF Goes, Stays, ClientType
<1>6. ASSUME NEW a \in PushPhase, NEW b \in PushPhase, pc[x] = a,
             pc' = [pc EXCEPT ![x] = b], target' = target
      PROVE  Goal
    BY <1>6 DEF Goes, Stays, ClientType
<1>7. ASSUME PullDone(x) \/ PullInsert(x) \/ HttpPullTooBig(x) \/ SaveCursor(x)
      PROVE  Goal
    <2>1. /\ pc[x] \in PullPhase
          /\ \/ EndPull(x)
             \/ \E b \in PullPhase : pc' = [pc EXCEPT ![x] = b] /\ target' = target
        BY <1>7 DEF PullDone, PullInsert, HttpPullTooBig, SaveCursor, PullPhase
    <2>2. QED
        BY <1>2, <1>5, <2>1
<1>8. ASSUME \/ PushBegin(x) \/ PushDone(x) \/ PushSend(x) \/ PushTooLarge(x)
             \/ PushAcked(x) \/ SavePushed(x) \/ HttpPushSend(x)
             \/ HttpPushAnswered(x)
      PROVE  Goal
    <2>1. /\ pc[x] \in PushPhase
          /\ \/ EndSync(x) \/ UNCHANGED <<pc, target>>
             \/ \E b \in PushPhase : pc' = [pc EXCEPT ![x] = b] /\ target' = target
        BY <1>8 DEF PushBegin, PushDone, PushSend, PushTooLarge, PushAcked,
                    SavePushed, HttpPushSend, HttpPushAnswered, PushPhase
    <2>2. QED
        BY <1>1, <1>4, <1>6, <2>1 DEF PushPhase
<1>9. ASSUME SkipResponse(x) \/ RetryPull(x) \/ RetryPush(x) PROVE Goal
    BY <1>4, <1>9 DEF SkipResponse, RetryPull, RetryPush, clientVars
<1>10. ASSUME GiveUp(x) \/ Abort(x) \/ HttpBodyCut(x) PROVE Goal
    BY <1>3, <1>10 DEF GiveUp, RequestFailed, Abort, HttpBodyCut
<1>11. QED
    BY <1>7, <1>8, <1>9, <1>10
       DEF TransferStep, CommonStep, P2pStep, HttpStep, HttpPullInsert

\* What the run of client c knows, and what it is held to.
SameRun(c) ==
    /\ result'[c] = result[c]
    /\ todo'[c] = todo[c]
    /\ progress'[c] = progress[c]
    /\ push_needed'[c] = push_needed[c]
    /\ offered'[c] = offered[c]
    /\ waiting'[c] = waiting[c]
    /\ owed'[c] = owed[c]

TargetOver(c) ==
    /\ EndOfPull(c) \/ EndOfPush(c)
    /\ UNCHANGED <<result, todo, push_needed, offered, waiting, owed>>

LEMMA RunCases ==
    ASSUME TypeInv, RunVarsType, [RunNext]_allVars, NEW c \in Client
    PROVE  \/ SameRun(c) /\ Goes(c)
           \/ BeginRun(c) \/ CountCursor(c) \/ CountPending(c)
           \/ TargetOver(c) /\ Goes(c)
           \/ Finish(c) \/ Killed(c)
           \/ \E p \in Device : TakeTarget(c, p) \/ SkipTarget(c, p)
<1> DEFINE Same == SameRun(c) /\ Goes(c)
<1>0. ClientType
    BY TypeGroups DEF TypeInv
<1>1. ASSUME UNCHANGED runVars PROVE SameRun(c)
    BY <1>1 DEF runVars, SameRun
<1>2. ASSUME NEW x \in Client, TransferStep(x) \/ Abort(x) \/ HttpBodyCut(x),
             UNCHANGED runVars
      PROVE  Same
    BY <1>0, <1>1, <1>2, ClientGoes, StaysGoes
<1>3. ASSUME UNCHANGED <<pc, target>>, UNCHANGED runVars PROVE Same
    BY <1>1, <1>3 DEF Goes
<1>4. ASSUME NEW x \in Client, x # c,
             BeginRun(x) \/ CountCursor(x) \/ CountPending(x) \/ Finish(x)
      PROVE  Same
    <2>1. UNCHANGED <<pc, target>>
        BY <1>4 DEF BeginRun, CountCursor, CountPending, Finish, peerSyncVars,
                    vars, clientVars
    <2>2. SameRun(c)
        BY <1>4 DEF BeginRun, CountCursor, CountPending, note_push_needed, Finish,
                    EndRun, SameRun, RunVarsType
    <2>3. QED
        BY <2>1, <2>2 DEF Goes
<1>5. ASSUME NEW x \in Client, x # c, Killed(x) PROVE Same
    BY <1>0, <1>5 DEF Killed, EndSync, EnterPhase, EndRun, SameRun, Goes,
                      RunVarsType, ClientType
<1>6. ASSUME NEW x \in Client, x # c, NEW p \in Device,
             TakeTarget(x, p) \/ SkipTarget(x, p)
      PROVE  Same
    BY <1>0, <1>6 DEF TakeTarget, StartSync, SkipTarget, clientVars, SameRun, Goes,
                      RunVarsType, ClientType
<1>7. ASSUME NEW x \in Client, EndOfPull(x) \/ EndOfPush(x),
             UNCHANGED <<transport, result, todo, push_needed, last_pushed_seq,
                         offered, waiting, owed>>
      PROVE  \/ Same
             \/ TargetOver(c) /\ Goes(c)
    <2>1. IF c = x THEN Goes(c) ELSE Stays(c)
        BY <1>0, <1>7, ClientGoes DEF EndOfPull, EndOfPush
    <2>2. x # c => progress'[c] = progress[c]
        BY <1>7 DEF EndOfPull, EndOfPush, mark_pull_ok, mark_push_ok, RunVarsType
    <2>3. QED
        BY <1>7, <2>1, <2>2, StaysGoes DEF SameRun, TargetOver
<1>8. ASSUME NEW x \in Client, RunServe(x) PROVE Same
    BY <1>3, <1>8 DEF RunServe, ServePullStep, ServePull, HttpServePull,
                      ServePushStep, ServePush, HttpServePush, clientVars
<1>9. ASSUME FaultStep, UNCHANGED runVars PROVE Same
    <2>1. ASSUME NEW m, ServePushError(m) \/ Lose(m) PROVE UNCHANGED <<pc, target>>
        BY <2>1 DEF ServePushError, Lose, clientVars
    <2>2. QED
        BY <1>2, <1>3, <1>9, <2>1 DEF FaultStep
<1>10. ASSUME NEW d \in Device, NEW e \in Entry, Record(d, e), UNCHANGED runVars
       PROVE  Same
    BY <1>3, <1>10 DEF Record, clientVars
<1>11. CASE UNCHANGED allVars
    BY <1>3, <1>11 DEF allVars, peerSyncVars, vars, clientVars
<1>12. QED
    BY <1>2, <1>4, <1>5, <1>6, <1>7, <1>8, <1>9, <1>10, <1>11
       DEF RunNext, RunStep

-----------------------------------------------------------------------------
(* The invariant of a run.                                                 *)

\* A target is taken once, and its pending entries are counted after its pull.
RunShape(c) ==
    /\ pc[c] # "idle" => Running(c) /\ target[c] \in targets[c] \ todo[c]
    /\ pc[c] = "idle" => target[c] = host[c]
    /\ pc[c] \in PullPhase => push_needed[c] = "unknown"
    /\ todo[c] \subseteq targets[c]
    /\ ~ Running(c) => todo[c] = {} /\ owed[c] = Nothing

LEMMA ShapeNext ==
    ASSUME TypeInv, RunVarsType, [RunNext]_allVars, NEW c \in Client, RunShape(c)
    PROVE  RunShape(c)'
<1>0. ClientType
    BY TypeGroups DEF TypeInv
<1>1. CASE SameRun(c) /\ Goes(c)
    BY <1>1 DEF SameRun, Goes, RunShape, Running, PullPhase, PushPhase
<1>2. CASE TargetOver(c) /\ Goes(c)
    BY <1>2 DEF TargetOver, Goes, RunShape, Running, PullPhase, PushPhase
<1>3. CASE BeginRun(c)
    <2>1. /\ pc[c] = "idle" /\ Stays(c) /\ push_needed'[c] = push_needed[c]
          /\ Running(c)' /\ todo'[c] = targets[c]
        BY <1>3 DEF BeginRun, RunShape, Running, RunVarsType, Stays, peerSyncVars,
                    vars, clientVars
    <2>2. QED
        BY <2>1 DEF Stays, RunShape, PullPhase
<1>4. CASE CountCursor(c) \/ CountPending(c)
    <2>1. /\ pc[c] = "push_begin" /\ Stays(c)
          /\ result' = result /\ todo' = todo
        BY <1>4 DEF CountCursor, CountPending, Stays, peerSyncVars, vars, clientVars
    <2>2. QED
        BY <2>1 DEF Stays, RunShape, PullPhase, Running
<1>5. CASE Finish(c) \/ Killed(c)
    <2>1. pc'[c] = "idle" /\ target'[c] = host[c]
        BY <1>0, <1>5 DEF Finish, Killed, EndSync, EnterPhase, RunShape,
                          peerSyncVars, vars, clientVars, ClientType
    <2>2. ~ Running(c)' /\ todo'[c] = {} /\ owed'[c] = Nothing
        BY <1>5 DEF Finish, Killed, EndRun, Running, RunVarsType
    <2>3. QED
        BY <2>1, <2>2 DEF RunShape, PullPhase
<1>6. ASSUME NEW p \in Device, TakeTarget(c, p) PROVE RunShape(c)'
    <2>1. /\ p \in todo[c] /\ p \in targets[c]
          /\ pc'[c] = "pull_wait" /\ target'[c] = p
          /\ result' = result /\ owed' = owed
          /\ todo'[c] = todo[c] \ {p} /\ push_needed'[c] = "unknown"
        BY <1>0, <1>6 DEF TakeTarget, StartSync, RunVarsType, ClientType
    <2>2. QED
        BY <2>1 DEF RunShape, Running
<1>7. ASSUME NEW p \in Device, SkipTarget(c, p) PROVE RunShape(c)'
    <2>1. /\ Stays(c) /\ result' = result /\ owed' = owed
          /\ push_needed' = push_needed /\ todo'[c] = todo[c] \ {p}
        BY <1>7 DEF SkipTarget, RunVarsType, Stays, clientVars
    <2>2. QED
        BY <2>1 DEF RunShape, Running, Stays
<1>8. QED
    BY <1>1, <1>2, <1>3, <1>4, <1>5, <1>6, <1>7, RunCases

\* This device has what target p offered when the run began; target p has what
\* was counted as pending for it, which was not nothing.
Had(c, p) == offered[c][p] \subseteq seen[host[c]]
Delivered(c, p) == owed[c][p] # {} /\ owed[c][p] \subseteq seen[p]

\* What was offered is still there, an empty answer says that this device has
\* it, and a pull is noted as a success only if it has.
OfferInv(c) ==
    /\ \A p \in Device : offered[c][p] \subseteq Ids(entries[p])
    /\ pc[c] = "pull_wait" =>
         \A m \in sync_batch :
           Answer(c, m) /\ m.entries = {} => Had(c, target[c])
    /\ progress[c].pull_ok => \E p \in targets[c] : Had(c, p)

\* What was counted is still there; nothing was, if no push was needed; and a
\* push is noted as a success only if it delivered it.  The count of another
\* target, taken later, does not change that.
OwedInv(c) ==
    /\ \A p \in Device :
         owed[c][p] \subseteq Ids(RowsOf(entries[host[c]], host[c]))
    /\ ~ progress[c].push_needed => owed[c] = Nothing
    /\ pc[c] \in PushPhase /\ push_needed[c] = "yes" => owed[c][target[c]] # {}
    /\ progress[c].push_ok =>
         \E p \in targets[c] \ (todo[c] \cup {target[c]}) : Delivered(c, p)

RunInv ==
    /\ SafeInv /\ UniqueInv /\ RunVarsType /\ LimitInv
    /\ \A c \in Client : RunShape(c) /\ OfferInv(c) /\ OwedInv(c)

-----------------------------------------------------------------------------
(* The pull.                                                               *)

\* A server that answers the current request with nothing has nothing that
\* this device has not had.
LEMMA EmptyAnswer ==
    ASSUME RunInv, NEW c \in Client, pc[c] = "pull_wait", NEW m \in sync_pull,
           Answer(c, m), PullAnswer(m).entries = {}
    PROVE  Ids(entries[target[c]]) \subseteq seen[host[c]]
<1>1. m.peer = target[c] /\ m.cursor = cursor[c]
    BY DEF RunInv, SafeInv, MailInv, PullMail
<1>2. /\ target[c] \in Device /\ cursor[c] \in Nat
      /\ m.limit \in Nat /\ m.limit >= 1
    BY DEF RunInv, SafeInv, TypeInv, TypeOK, SyncPull, LimitInv
<1>3. Batch(entries[target[c]]) /\ Unique(entries[target[c]])
    BY <1>2 DEF RunInv, SafeInv, TypeInv, StoreInv, Numbered, Batch, UniqueInv
<1>4. pull_since_cursor(entries[target[c]], cursor[c], m.limit) = {}
    BY <1>1 DEF PullAnswer
<1>5. \A r \in entries[target[c]] : r.ingest_seq <= cursor[c]
    BY <1>2, <1>3, <1>4, PullExhausts
<1>6. Stored(entries[target[c]], sqlite_sequence[target[c]], seen[host[c]], cursor[c])
    BY DEF RunInv, SafeInv, LocalInv
<1>7. QED
    BY <1>5, <1>6 DEF Stored, Ids

\* No answer to a request is there when it is sent.
LEMMA PullUnanswered ==
    ASSUME TypeInv, NEW c \in Client, NEW p, NEW from, NEW limit,
           SendPull(c, p, from, limit), sync_batch' = sync_batch
    PROVE  \A m \in sync_batch' : ~ Answer(c, m)'
<1>1. /\ request_id'[c] = NewRequestId(c)
      /\ \A m \in Messages : m.client = c => m.request_id # NewRequestId(c)
    BY FreshRequest DEF SendPull, TypeInv, TypeOK
<1>2. QED
    BY <1>1 DEF Answer, Messages

\* Where the answer comes from that a client is about to read.
LEMMA AnswerSource ==
    ASSUME RunInv, [RunNext]_allVars, NEW c \in Client, pc'[c] = "pull_wait",
           NEW m \in sync_batch', Answer(c, m)'
    PROVE  /\ pc[c] = "pull_wait" /\ target'[c] = target[c]
           /\ cursor'[c] = cursor[c]
           /\ \/ m \in sync_batch /\ Answer(c, m)
              \/ \E r \in sync_pull : Answer(c, r) /\ m = PullAnswer(r)
<1> DEFINE Goal ==
      /\ pc[c] = "pull_wait" /\ target'[c] = target[c] /\ cursor'[c] = cursor[c]
      /\ \/ m \in sync_batch /\ Answer(c, m)
         \/ \E r \in sync_pull : Answer(c, r) /\ m = PullAnswer(r)
<1>0. TypeInv
    BY DEF RunInv, SafeInv
<1>1. CASE SameLocal(c) /\ request_id'[c] = request_id[c] /\ LessMail(c)
    BY <1>1 DEF SameLocal, LessMail, Answer
<1>2. ASSUME NEW r \in sync_pull, r.client = c, UNCHANGED clientVars,
             sync_batch' \subseteq sync_batch \cup {PullAnswer(r)}
      PROVE  Goal
    <2>1. pc' = pc /\ target' = target /\ cursor' = cursor /\ (Answer(c, m)' <=> Answer(c, m))
        BY <1>2 DEF clientVars, Answer
    <2>2. CASE m \in sync_batch
        BY <2>1, <2>2
    <2>3. CASE m = PullAnswer(r)
        BY <1>2, <2>1, <2>3 DEF Answer, PullAnswer
    <2>4. QED
        BY <1>2, <2>2, <2>3
<1>3. ASSUME NEW r \in sync_pull, r.client = c, ServePull(r) \/ HttpServePull(r)
      PROVE  Goal
    BY <1>2, <1>3 DEF ServePull, HttpServePull, PullAnswer
<1>4. ASSUME NEW r, ServePush(r) \/ ServePushError(r) \/ RefusePush(r) PROVE Goal
    BY <1>4 DEF ServePush, ServePushError, RefusePush, clientVars, pullVars, Answer
<1>5. ASSUME \/ \E p \in Device : StartSync(c, p)
             \/ SaveCursor(c) \/ RetryPull(c)
      PROVE  FALSE
    <2>1. /\ sync_batch' = sync_batch
          /\ \E p, from, limit : SendPull(c, p, from, limit)
        BY <1>5 DEF StartSync, SaveCursor, RetryPull
    <2>2. QED
        BY <1>0, <2>1, PullUnanswered
<1>6. ASSUME PushSend(c) \/ RetryPush(c) \/ HttpPushSend(c)
      PROVE  FALSE
    BY <1>0, <1>6 DEF PushSend, RetryPush, HttpPushSend, TypeInv, TypeOK
<1>7. QED
    BY <1>0, <1>1, <1>3, <1>4, <1>5, <1>6, RunIsSync, MailCases, OtherCases

LEMMA OfferNext ==
    ASSUME RunInv, [RunNext]_allVars, NEW c \in Client
    PROVE  OfferInv(c)'
<1>0. /\ TypeInv /\ RunVarsType /\ ClientType /\ RunShape(c) /\ OfferInv(c)
      /\ host[c] \in Device /\ target[c] \in Device
      /\ targets[c] \in SUBSET Device
    BY TypeGroups, StoreFacts, ClientAssumption DEF RunInv, SafeInv, TypeInv
<1>1. /\ \A d \in Device : entries[d] \subseteq entries'[d]
      /\ \A d \in Device : seen[d] \subseteq seen'[d]
    BY <1>0, RunGrows, RunSafe DEF RunInv, StoresGrow
<1>2. \/ offered'[c] = offered[c]
      \/ /\ pc'[c] = "idle" /\ ~ progress'[c].pull_ok
         /\ \A p \in Device : offered'[c][p] \subseteq Ids(entries'[p])
    <2>1. CASE BeginRun(c)
        <3>1. /\ pc' = pc /\ entries' = entries
              /\ offered'[c] = [p \in Device |-> Ids(entries[p]) \ seen[host[c]]]
              /\ ~ progress'[c].pull_ok
            BY <1>0, <2>1 DEF BeginRun, RunVarsType, NewProgress, peerSyncVars,
                              vars, storeVars, clientVars
        <3>2. pc[c] = "idle"
            BY <1>0, <2>1 DEF BeginRun, RunShape
        <3>3. QED
            BY <3>1, <3>2
    <2>2. CASE Finish(c) \/ Killed(c)
        <3>1. pc'[c] = "idle"
            BY <1>0, <2>2 DEF Finish, Killed, EndSync, EnterPhase, peerSyncVars,
                              vars, clientVars, ClientType
        <3>2. offered'[c] = Nothing /\ ~ progress'[c].pull_ok
            BY <1>0, <2>2 DEF Finish, Killed, EndRun, RunVarsType, NewProgress
        <3>3. QED
            BY <3>1, <3>2 DEF Nothing
    <2>3. CASE \/ SameRun(c) \/ CountCursor(c) \/ CountPending(c) \/ TargetOver(c)
               \/ \E p \in Device : TakeTarget(c, p) \/ SkipTarget(c, p)
        BY <2>3 DEF SameRun, CountCursor, CountPending, TargetOver, TakeTarget,
                    SkipTarget
    <2>4. QED
        BY <1>0, <2>1, <2>2, <2>3, RunCases
<1>3. \A p \in Device : offered'[c][p] \subseteq Ids(entries'[p])
    BY <1>0, <1>1, <1>2 DEF OfferInv, Ids
<1>4. ASSUME pc'[c] # "idle", NEW p \in Device, Had(c, p)
      PROVE  Had(c, p)'
    BY <1>0, <1>1, <1>2, <1>4 DEF Had
<1>5. ASSUME pc'[c] = "pull_wait", NEW m \in sync_batch', Answer(c, m)',
             m.entries = {}
      PROVE  Had(c, target[c])' /\ target'[c] = target[c]
    <2>1. pc[c] = "pull_wait" /\ target'[c] = target[c]
        BY <1>5, AnswerSource
    <2>2. CASE m \in sync_batch /\ Answer(c, m)
        BY <1>0, <1>4, <1>5, <2>1, <2>2 DEF OfferInv
    <2>3. ASSUME NEW r \in sync_pull, Answer(c, r), PullAnswer(r).entries = {}
          PROVE  Had(c, target[c])
        BY <1>0, <2>1, <2>3, EmptyAnswer DEF OfferInv, Had
    <2>4. QED
        BY <1>0, <1>4, <1>5, <2>1, <2>2, <2>3, AnswerSource
<1>6. ASSUME progress'[c].pull_ok
      PROVE  \E p \in targets[c] : Had(c, p)'
    <2>1. offered'[c] = offered[c]
        BY <1>2, <1>6
    <2>2. ASSUME NEW p \in Device, Had(c, p) PROVE Had(c, p)'
        BY <1>0, <1>1, <2>1, <2>2 DEF Had
    <2>3. CASE progress[c].pull_ok
        BY <1>0, <2>2, <2>3 DEF OfferInv
    <2>4. CASE EndOfPull(c)
        <3>1. /\ pc[c] = "pull_wait"
              /\ \E m \in sync_batch : Answer(c, m) /\ m.entries = {}
            BY <2>4 DEF EndOfPull, PullDone
        <3>2. Had(c, target[c]) /\ target[c] \in targets[c]
            BY <1>0, <3>1 DEF OfferInv, RunShape
        <3>3. QED
            BY <1>0, <2>2, <3>2
    <2>5. progress[c].pull_ok \/ EndOfPull(c)
        <3>1. CASE \/ SameRun(c) \/ CountCursor(c) \/ CountPending(c) \/ EndOfPush(c)
                   \/ \E p \in Device : TakeTarget(c, p) \/ SkipTarget(c, p)
            <4>1. \/ progress'[c] = progress[c]
                  \/ \E needed \in BOOLEAN : \/ note_push_needed(c, needed)
                                             \/ mark_push_ok(c, needed)
                BY <3>1 DEF SameRun, CountCursor, CountPending, EndOfPush,
                            TakeTarget, SkipTarget
            <4>2. QED
                BY <1>0, <1>6, <4>1, ProgressSteps
        <3>2. CASE BeginRun(c) \/ Finish(c) \/ Killed(c)
            BY <1>0, <1>6, <3>2 DEF BeginRun, Finish, Killed, EndRun, NewProgress,
                                    RunVarsType
        <3>3. QED
            BY <1>0, <3>1, <3>2, RunCases DEF TargetOver
    <2>6. QED
        BY <2>3, <2>4, <2>5
<1>7. QED
    BY <1>3, <1>5, <1>6 DEF OfferInv, Had

-----------------------------------------------------------------------------
(* The push.                                                               *)

\* A push that finds no row left after its cursor has delivered every row of
\* this device.
LEMMA EmptyBatch ==
    ASSUME RunInv, NEW c \in Client, pc[c] = "push_read", PushBatch(c) = {}
    PROVE  Ids(RowsOf(entries[host[c]], host[c])) \subseteq seen[target[c]]
<1> DEFINE own == RowsOf(entries[host[c]], host[c])
<1>1. /\ host[c] \in Device /\ cursor[c] \in Nat
      /\ batch_limit[c] \in Nat /\ batch_limit[c] >= 1
    BY ClientAssumption DEF RunInv, SafeInv, TypeInv, TypeOK, LimitInv
<1>2. Batch(own) /\ Unique(own)
    <2>1. own \in SUBSET entries[host[c]]
        BY DEF RowsOf
    <2>2. Numbered(entries[host[c]], sqlite_sequence[host[c]]) /\ Unique(entries[host[c]])
        BY <1>1 DEF RunInv, SafeInv, TypeInv, StoreInv, UniqueInv
    <2>3. QED
        BY <2>1, <2>2, FS_Subset, UniqueSubset DEF Numbered, Batch
<1>3. pull_since_cursor(own, cursor[c], batch_limit[c]) = {}
    BY DEF PushBatch, pull_since_cursor_for_device
<1>4. Stored(own, sqlite_sequence[host[c]], seen[target[c]], cursor[c])
    BY DEF RunInv, SafeInv, LocalInv
<1> HIDE DEF own
<1>5. \A r \in own : r.ingest_seq <= cursor[c]
    BY <1>1, <1>2, <1>3, PullExhausts
<1>6. QED
    BY <1>4, <1>5 DEF Stored, Ids, own

\* What a step changes of what is owed.
LEMMA OwedCases ==
    ASSUME RunInv, [RunNext]_allVars, NEW c \in Client
    PROVE  \/ owed'[c] = owed[c]
           \/ owed'[c] = Nothing /\ Finish(c)
           \/ owed'[c] = Nothing /\ Killed(c)
           \/ CountPending(c) /\ \A p \in Device : p # target[c] =>
                                   owed'[c][p] = owed[c][p]
<1>0. TypeInv /\ RunVarsType
    BY DEF RunInv, SafeInv
<1>1. CASE Finish(c) \/ Killed(c)
    BY <1>0, <1>1 DEF Finish, Killed, EndRun, RunVarsType
<1>2. CASE CountPending(c)
    BY <1>0, <1>2 DEF CountPending, RunVarsType
<1>3. CASE \/ SameRun(c) \/ BeginRun(c) \/ CountCursor(c) \/ TargetOver(c)
           \/ \E p \in Device : TakeTarget(c, p) \/ SkipTarget(c, p)
    BY <1>3 DEF SameRun, BeginRun, CountCursor, TargetOver, TakeTarget, SkipTarget
<1>4. QED
    BY <1>0, <1>1, <1>2, <1>3, RunCases

LEMMA Counting ==
    ASSUME RunInv, NEW c \in Client, CountPending(c)
    PROVE  LET own == RowsOf(entries[host[c]], host[c])
           IN  /\ owed'[c][target[c]] \subseteq Ids(own)
               /\ push_needed'[c] = "yes" <=> owed'[c][target[c]] # {}
               /\ progress'[c].pull_ok = progress[c].pull_ok
               /\ progress'[c].push_ok = progress[c].push_ok
               /\ ~ progress'[c].push_needed =>
                    ~ progress[c].push_needed /\ owed'[c][target[c]] = {}
               /\ \A p \in Device : p # target[c] => owed'[c][p] = owed[c][p]
               /\ owed'[c] \in [Device -> SUBSET Entry]
<1> DEFINE own == RowsOf(entries[host[c]], host[c])
           pending == RowsAfter(own, last_pushed_seq[c])
<1>0. /\ RunVarsType /\ target[c] \in Device /\ host[c] \in Device
      /\ entries[host[c]] \in SUBSET Row
    BY StoreFacts DEF RunInv, SafeInv
<1>1. Ids(pending) \subseteq Ids(own)
    BY DEF RowsAfter, Ids
<1>2. /\ Ids(pending) \in SUBSET Entry
      /\ Ids(pending) = {} <=> pending = {}
    <2>1. pending \in SUBSET Row
        BY <1>0 DEF RowsAfter, RowsOf
    <2>2. QED
        BY <2>1, RowIds DEF Ids
<1>3. /\ push_needed' = [push_needed EXCEPT
                           ![c] = IF pending = {} THEN "no" ELSE "yes"]
      /\ note_push_needed(c, pending # {})
      /\ owed' = [owed EXCEPT ![c][target[c]] = Ids(pending)]
    BY DEF CountPending
<1>4. (pending # {}) \in BOOLEAN
    OBVIOUS
<1> HIDE DEF pending
<1>5. /\ push_needed'[c] = IF pending = {} THEN "no" ELSE "yes"
      /\ owed'[c] = [owed[c] EXCEPT ![target[c]] = Ids(pending)]
      /\ owed[c] \in [Device -> SUBSET Entry]
    BY <1>0, <1>3 DEF RunVarsType
<1>6. /\ progress'[c].pull_ok = progress[c].pull_ok
      /\ progress'[c].push_needed = (progress[c].push_needed \/ pending # {})
      /\ progress'[c].push_ok = progress[c].push_ok
    BY <1>0, <1>3, <1>4, ProgressSteps
<1>7. /\ owed'[c][target[c]] = Ids(pending)
      /\ \A p \in Device : p # target[c] => owed'[c][p] = owed[c][p]
      /\ owed'[c] \in [Device -> SUBSET Entry]
    BY <1>0, <1>2, <1>5
<1>8. push_needed'[c] = "yes" <=> owed'[c][target[c]] # {}
    BY <1>2, <1>5, <1>7
<1>9. ~ progress'[c].push_needed =>
         ~ progress[c].push_needed /\ owed'[c][target[c]] = {}
    BY <1>2, <1>6, <1>7
<1>10. QED
    BY <1>1, <1>6, <1>7, <1>8, <1>9

\* What was counted stays in the table of this device.
LEMMA OwedKept ==
    ASSUME RunInv, [RunNext]_allVars, NEW c \in Client, NEW p \in Device
    PROVE  owed'[c][p] \subseteq Ids(RowsOf(entries'[host[c]], host[c]))
<1>0. TypeInv /\ OwedInv(c) /\ host[c] \in Device
    BY ClientAssumption DEF RunInv, SafeInv
<1>1. Ids(RowsOf(entries[host[c]], host[c]))
          \subseteq Ids(RowsOf(entries'[host[c]], host[c]))
    BY <1>0, RunGrows DEF Ids, RowsOf
<1>2. \/ owed'[c][p] = owed[c][p]
      \/ owed'[c][p] = {}
      \/ owed'[c][p] \subseteq Ids(RowsOf(entries[host[c]], host[c]))
    <2>1. CASE CountPending(c)
        <3>1. CASE p = target[c]
            BY <2>1, <3>1, Counting
        <3>2. CASE p # target[c]
            BY <2>1, <3>2, Counting
        <3>3. QED
            BY <3>1, <3>2
    <2>2. QED
        BY <2>1, OwedCases DEF Nothing
<1>3. QED
    BY <1>0, <1>1, <1>2 DEF OwedInv

LEMMA OwedNone ==
    ASSUME RunInv, [RunNext]_allVars, NEW c \in Client, ~ progress'[c].push_needed
    PROVE  owed'[c] = Nothing
<1>0. TypeInv /\ RunVarsType /\ RunShape(c) /\ OwedInv(c) /\ target[c] \in Device
    BY StoreFacts DEF RunInv, SafeInv
<1>1. CASE CountPending(c)
    <2>1. owed[c] = Nothing /\ owed'[c][target[c]] = {}
        BY <1>0, <1>1, Counting DEF OwedInv
    <2>2. /\ owed'[c] \in [Device -> SUBSET Entry]
          /\ \A p \in Device : owed'[c][p] = {}
        BY <1>1, <2>1, Counting DEF Nothing
    <2>3. QED
        BY <2>2 DEF Nothing
<1>2. CASE BeginRun(c)
    BY <1>0, <1>2 DEF BeginRun, RunShape
<1>3. CASE EndOfPull(c) \/ EndOfPush(c)
    <2>1. progress'[c].push_needed = progress[c].push_needed
        <3>1. (push_needed[c] = "yes") \in BOOLEAN
            OBVIOUS
        <3>2. QED
            BY <1>0, <1>3, <3>1, ProgressSteps DEF EndOfPull, EndOfPush
    <2>2. owed[c] = Nothing
        BY <1>0, <2>1 DEF OwedInv
    <2>3. ~ CountPending(c)
        BY <1>3 DEF EndOfPull, EndOfPush, PullDone, PushDone, CountPending
    <2>4. QED
        BY <2>2, <2>3, OwedCases
<1>4. CASE \/ SameRun(c) \/ CountCursor(c)
           \/ \E p \in Device : TakeTarget(c, p) \/ SkipTarget(c, p)
    <2>1. progress'[c] = progress[c] /\ owed'[c] = owed[c]
        BY <1>4 DEF SameRun, CountCursor, TakeTarget, SkipTarget
    <2>2. QED
        BY <1>0, <2>1 DEF OwedInv
<1>5. CASE Finish(c) \/ Killed(c)
    BY <1>0, <1>5 DEF Finish, Killed, EndRun, RunVarsType
<1>6. QED
    BY <1>0, <1>1, <1>2, <1>3, <1>4, <1>5, RunCases DEF TargetOver

LEMMA OwedCounted ==
    ASSUME RunInv, [RunNext]_allVars, NEW c \in Client,
           pc'[c] \in PushPhase, push_needed'[c] = "yes"
    PROVE  owed'[c][target'[c]] # {}
<1>0. TypeInv /\ RunVarsType /\ ClientType /\ RunShape(c) /\ OwedInv(c)
    BY TypeGroups DEF RunInv, SafeInv, TypeInv
<1>1. CASE CountPending(c)
    <2>1. target' = target
        BY <1>1 DEF CountPending, peerSyncVars, vars, clientVars
    <2>2. QED
        BY <1>1, <2>1, Counting
<1>2. CASE Goes(c) /\ SameRun(c)
    <2>1. pc[c] \in PushPhase /\ target'[c] = target[c]
        BY <1>0, <1>2 DEF Goes, SameRun, RunShape, PullPhase, PushPhase
    <2>2. QED
        BY <1>0, <1>2, <2>1 DEF SameRun, OwedInv
<1>3. CASE Goes(c) /\ TargetOver(c)
    <2>1. pc[c] \in PushPhase /\ target'[c] = target[c]
        BY <1>0, <1>3 DEF Goes, TargetOver, RunShape, PullPhase, PushPhase
    <2>2. QED
        BY <1>0, <1>3, <2>1 DEF TargetOver, OwedInv
<1>4. ~ BeginRun(c)
    BY <1>0 DEF BeginRun, RunShape, PushPhase, peerSyncVars, vars, clientVars
<1>5. ~ CountCursor(c)
    BY <1>0 DEF CountCursor, RunVarsType
<1>6. ~ Finish(c) /\ ~ Killed(c)
    BY <1>0 DEF Finish, Killed, EndSync, EnterPhase, ClientType, PushPhase,
                peerSyncVars, vars, clientVars
<1>7. \A p \in Device : ~ TakeTarget(c, p) /\ ~ SkipTarget(c, p)
    BY <1>0 DEF TakeTarget, StartSync, SkipTarget, ClientType, PushPhase, clientVars
<1>8. QED
    BY <1>0, <1>1, <1>2, <1>3, <1>4, <1>5, <1>6, <1>7, RunCases

LEMMA OwedDelivered ==
    ASSUME RunInv, [RunNext]_allVars, NEW c \in Client, progress'[c].push_ok
    PROVE  \E p \in targets[c] \ (todo'[c] \cup {target'[c]}) : Delivered(c, p)'
<1> DEFINE Goal == \E p \in targets[c] \ (todo'[c] \cup {target'[c]}) : Delivered(c, p)'
<1>0. /\ TypeInv /\ RunVarsType /\ ClientType /\ RunShape(c) /\ OwedInv(c)
      /\ targets[c] \in SUBSET Device /\ host[c] \notin targets[c]
      /\ target[c] \in Device
    BY TypeGroups, StoreFacts, ClientAssumption DEF RunInv, SafeInv, TypeInv
<1>1. \A d \in Device : seen[d] \subseteq seen'[d]
    BY RunSafe DEF RunInv, StoresGrow
<1>2. ASSUME progress[c].push_ok, todo'[c] \subseteq todo[c],
             \/ target'[c] = target[c] \/ target'[c] = host[c]
             \/ target'[c] \in todo[c],
             \A p \in Device : p # target[c] => owed'[c][p] = owed[c][p]
      PROVE  Goal
    <2>1. PICK p \in targets[c] \ (todo[c] \cup {target[c]}) : Delivered(c, p)
        BY <1>0, <1>2 DEF OwedInv
    <2>2. p \in targets[c] \ (todo'[c] \cup {target'[c]}) /\ p \in Device
        BY <1>0, <1>2, <2>1
    <2>3. Delivered(c, p)'
        BY <1>1, <1>2, <2>1, <2>2 DEF Delivered
    <2>4. QED
        BY <2>2, <2>3
<1>3. CASE SameRun(c) /\ Goes(c)
    BY <1>2, <1>3 DEF SameRun, Goes
<1>4. CASE CountCursor(c)
    BY <1>2, <1>4 DEF CountCursor, peerSyncVars, vars, clientVars
<1>5. CASE CountPending(c)
    <2>1. /\ progress[c].push_ok
          /\ \A p \in Device : p # target[c] => owed'[c][p] = owed[c][p]
        BY <1>5, Counting
    <2>2. todo' = todo /\ target' = target
        BY <1>5 DEF CountPending, peerSyncVars, vars, clientVars
    <2>3. QED
        BY <1>2, <2>1, <2>2
<1>6. ASSUME NEW p \in Device, TakeTarget(c, p) PROVE Goal
    <2>1. /\ p \in todo[c] /\ target'[c] = p /\ todo'[c] \subseteq todo[c]
          /\ progress' = progress /\ owed' = owed
        BY <1>0, <1>6 DEF TakeTarget, StartSync, RunVarsType, ClientType
    <2>2. QED
        BY <1>2, <2>1
<1>7. ASSUME NEW p \in Device, SkipTarget(c, p) PROVE Goal
    <2>1. /\ target' = target /\ todo'[c] \subseteq todo[c]
          /\ progress' = progress /\ owed' = owed
        BY <1>0, <1>7 DEF SkipTarget, RunVarsType, clientVars
    <2>2. QED
        BY <1>2, <2>1
<1>8. CASE TargetOver(c) /\ EndOfPull(c) /\ Goes(c)
    <2>1. progress[c].push_ok
        BY <1>0, <1>8, ProgressSteps DEF EndOfPull
    <2>2. QED
        BY <1>2, <1>8, <2>1 DEF TargetOver, Goes
<1>9. CASE TargetOver(c) /\ EndOfPush(c) /\ Goes(c)
    <2>1. progress[c].push_ok \/ push_needed[c] = "yes"
        <3>1. (push_needed[c] = "yes") \in BOOLEAN
            OBVIOUS
        <3>2. progress'[c].push_ok = (progress[c].push_ok \/ push_needed[c] = "yes")
            BY <1>0, <1>9, <3>1, ProgressSteps DEF EndOfPush
        <3>3. QED
            BY <3>2
    <2>2. CASE progress[c].push_ok
        BY <1>2, <1>9, <2>2 DEF TargetOver, Goes
    <2>3. CASE push_needed[c] = "yes"
        <3>1. /\ pc[c] = "push_read" /\ PushBatch(c) = {}
              /\ target'[c] = host[c]
            BY <1>0, <1>9 DEF EndOfPush, PushDone, EndSync, EnterPhase, ClientType
        <3>2. owed[c][target[c]] # {}
            BY <1>0, <2>3, <3>1 DEF OwedInv, PushPhase
        <3>3. owed[c][target[c]] \subseteq seen[target[c]]
            BY <1>0, <3>1, EmptyBatch DEF OwedInv
        <3>4. target[c] \in targets[c] \ todo[c]
            BY <1>0, <3>1 DEF RunShape
        <3>5. Delivered(c, target[c])
            BY <3>2, <3>3 DEF Delivered
        <3>6. owed' = owed /\ todo' = todo
            BY <1>9 DEF TargetOver
        <3>7. /\ owed'[c][target[c]] # {}
              /\ owed'[c][target[c]] \subseteq seen'[target[c]]
            BY <1>0, <1>1, <3>2, <3>3, <3>6
        <3>8. target[c] \in targets[c] \ (todo'[c] \cup {target'[c]})
            BY <1>0, <3>1, <3>4, <3>6
        <3>9. QED
            BY <3>7, <3>8 DEF Delivered
    <2>4. QED
        BY <2>1, <2>2, <2>3
<1>10. ~ BeginRun(c) /\ ~ Finish(c) /\ ~ Killed(c)
    BY <1>0 DEF BeginRun, Finish, Killed, EndRun, NewProgress, RunVarsType
<1>11. QED
    BY <1>0, <1>3, <1>4, <1>5, <1>6, <1>7, <1>8, <1>9, <1>10, RunCases DEF TargetOver

-----------------------------------------------------------------------------
(* The result.                                                             *)

LEMMA RunInvInit == RunInit => RunInv
<1> SUFFICES ASSUME RunInit PROVE RunInv
    OBVIOUS
<1>1. SafeInv /\ UniqueInv /\ RunVarsType
    BY SafeInit, RunVarsInit DEF RunInit, Init, UniqueInv, Unique
<1>2. LimitInv
    BY BoundAssumption DEF RunInit, Init, LimitInv
<1>3. ASSUME NEW c \in Client PROVE RunShape(c) /\ OfferInv(c) /\ OwedInv(c)
    <2>1. /\ pc[c] = "idle" /\ target[c] = host[c] /\ result[c] = "none"
          /\ todo[c] = {} /\ offered[c] = Nothing /\ owed[c] = Nothing
          /\ ~ progress[c].pull_ok /\ ~ progress[c].push_ok
        BY DEF RunInit, Init, NewProgress
    <2>2. QED
        BY <2>1 DEF RunShape, OfferInv, OwedInv, Running, PullPhase, PushPhase,
                    Nothing
<1>4. QED
    BY <1>1, <1>2, <1>3 DEF RunInv

LEMMA RunInvNext == RunInv /\ [RunNext]_allVars => RunInv'
<1> SUFFICES ASSUME RunInv, [RunNext]_allVars PROVE RunInv'
    OBVIOUS
<1>0. TypeInv
    BY DEF RunInv, SafeInv
<1>1. SafeInv' /\ UniqueInv'
    BY RunSafe DEF RunInv
<1>2. RunVarsType' /\ LimitInv'
    BY <1>0, RunVarsNext, LimitNext DEF RunInv
<1>3. ASSUME NEW c \in Client
      PROVE  RunShape(c)' /\ OfferInv(c)' /\ OwedInv(c)'
    <2>1. RunShape(c)'
        BY <1>0, ShapeNext DEF RunInv
    <2>2. OwedInv(c)'
        BY OwedKept, OwedNone, OwedCounted, OwedDelivered DEF OwedInv
    <2>3. QED
        BY <2>1, <2>2, OfferNext
<1>4. QED
    BY <1>1, <1>2, <1>3 DEF RunInv

\* A run that reports success has what one of its targets offered when it
\* began and, if entries were pending for some target, has delivered all that
\* were pending for one of these: whatever failed, was retried, was lost or
\* arrived meanwhile, for any number of targets, and by either transport.
THEOREM RunSuccess == RunSpec => SuccessMeansSynced
<1> DEFINE Synced ==
      \A c \in Client : Running(c) /\ result'[c] = "ok" =>
         /\ \E p \in targets[c] : offered[c][p] \subseteq seen[host[c]]
         /\ c \in PushClient =>
              \/ owed[c] = Nothing
              \/ \E p \in targets[c] :
                   owed[c][p] # {} /\ owed[c][p] \subseteq seen[p]
<1>1. RunInv /\ [RunNext]_allVars => [Synced]_allVars
    <2> SUFFICES ASSUME RunInv, [RunNext]_allVars, NEW c \in Client,
                        Running(c), result'[c] = "ok"
                 PROVE  /\ \E p \in targets[c] : offered[c][p] \subseteq seen[host[c]]
                        /\ c \in PushClient =>
                             \/ owed[c] = Nothing
                             \/ \E p \in targets[c] :
                                  owed[c][p] # {} /\ owed[c][p] \subseteq seen[p]
        OBVIOUS
    <2>0. TypeInv /\ RunVarsType /\ OfferInv(c) /\ OwedInv(c)
        BY DEF RunInv, SafeInv
    <2>1. Finish(c)
        <3>1. CASE \/ SameRun(c) \/ CountCursor(c) \/ CountPending(c) \/ TargetOver(c)
                   \/ \E p \in Device : TakeTarget(c, p) \/ SkipTarget(c, p)
            BY <3>1 DEF SameRun, CountCursor, CountPending, TargetOver, TakeTarget,
                        SkipTarget, Running
        <3>2. ~ BeginRun(c)
            BY DEF BeginRun
        <3>3. ~ Killed(c)
            BY <2>0 DEF Killed, EndRun, RunVarsType
        <3>4. QED
            BY <2>0, <3>1, <3>2, <3>3, RunCases
    <2>2. is_success(c)
        BY <2>0, <2>1 DEF Finish, EndRun, RunVarsType
    <2>3. QED
        BY <2>0, <2>2 DEF is_success, OfferInv, OwedInv, Had, Delivered
<1>2. QED
    BY RunInvInit, RunInvNext, <1>1, PTL DEF RunSpec, SuccessMeansSynced

-----------------------------------------------------------------------------
(* The size of a batch.                                                    *)

\* Rows of at most s bytes each are n * s bytes, if they are n at most.
LEMMA BytesBound ==
    ASSUME NEW B, Batch(B), NEW n \in Nat, Cardinality(B) <= n,
           NEW s \in Nat, \A r \in B : size[r.entry_id] <= s
    PROVE  Bytes(B) \in Nat /\ Bytes(B) <= n * s
<1> DEFINE bytes == UNION {{r} \X (1..size[r.entry_id]) : r \in B}
<1>1. bytes \in SUBSET (B \X (1..s))
    <2>1. ASSUME NEW r \in B
          PROVE  {r} \X (1..size[r.entry_id]) \subseteq B \X (1..s)
        <3>1. size[r.entry_id] \in Nat
            BY EntryAssumption DEF Batch, Row
        <3>2. 1..size[r.entry_id] \subseteq 1..s
            BY <2>1, <3>1
        <3>3. QED
            BY <3>2
    <2>2. QED
        BY <2>1
<1>2. /\ IsFiniteSet(B \X (1..s))
      /\ Cardinality(B \X (1..s)) = Cardinality(B) * s
    <2>1. IsFiniteSet(1..s) /\ Cardinality(1..s) = s
        BY FS_Interval
    <2>2. QED
        BY <2>1, FS_Product DEF Batch
<1>3. /\ IsFiniteSet(bytes)
      /\ Cardinality(bytes) <= Cardinality(B) * s
    BY <1>1, <1>2, FS_Subset
<1>4. Cardinality(bytes) \in Nat /\ Cardinality(B) \in Nat
    BY <1>3, FS_CardinalityType DEF Batch
<1>5. Cardinality(B) * s <= n * s
    <2>1. PICK k \in Nat : n = Cardinality(B) + k
        <3>1. n - Cardinality(B) \in Nat
            BY <1>4
        <3>2. QED
            BY <1>4, <3>1
    <2>2. n * s = Cardinality(B) * s + k * s /\ k * s \in Nat
        BY <1>4, <2>1
    <2>3. Cardinality(B) * s \in Nat
        BY <1>4
    <2>4. QED
        BY <2>2, <2>3
<1>6. Bytes(B) = Cardinality(bytes)
    BY DEF Bytes
<1>7. n * s \in Nat /\ Cardinality(B) * s \in Nat
    BY <1>4
<1> HIDE DEF bytes
<1>8. QED
    BY <1>3, <1>4, <1>5, <1>6, <1>7

\* A response of entries that can be pulled is never too large.
LEMMA PullableFits ==
    ASSUME NEW B, Batch(B), Cardinality(B) <= Limit,
           \A e \in Ids(B) : Pullable(e)
    PROVE  Bytes(B) \in Nat /\ Bytes(B) <= MaxResponseBytes
<1> DEFINE sizes == {size[r.entry_id] : r \in B}
<1>0. /\ Limit \in Nat /\ Limit >= 1 /\ MaxResponseBytes \in Nat
      /\ \A r \in B : size[r.entry_id] \in Nat
      /\ \A r \in B : Limit * size[r.entry_id] <= MaxResponseBytes
    BY BoundAssumption, EntryAssumption DEF Batch, Row, Pullable, Ids
<1>1. CASE B = {}
    <2>1. Bytes(B) \in Nat /\ Bytes(B) <= Limit * 0
        BY <1>0, <1>1, BytesBound
    <2>2. QED
        BY <1>0, <2>1
<1>2. CASE B # {}
    <2>1. sizes \in SUBSET Nat /\ sizes # {}
        BY <1>0, <1>2
    <2>2. \A r \in B : size[r.entry_id] <= MaxResponseBytes
        <3>1. ASSUME NEW r \in B, NEW k \in Nat, k = size[r.entry_id]
              PROVE  k <= MaxResponseBytes
            <4>1. Limit * k <= MaxResponseBytes
                BY <1>0, <3>1
            <4>2. PICK j \in Nat : Limit = j + 1
                <5>1. Limit - 1 \in Nat
                    BY <1>0
                <5>2. QED
                    BY <1>0, <5>1
            <4>3. Limit * k = j * k + k /\ j * k \in Nat
                BY <4>2
            <4>4. QED
                BY <1>0, <4>1, <4>3
        <3>2. QED
            BY <1>0, <3>1
    <2>3. \A k \in sizes : k <= MaxResponseBytes
        BY <2>2
    <2>4. Max(sizes) \in sizes /\ \A k \in sizes : k <= Max(sizes)
        BY <1>0, <2>1, <2>3, MaxNat
    <2>5. PICK s \in Nat : /\ Limit * s <= MaxResponseBytes
                           /\ \A r \in B : size[r.entry_id] <= s
        BY <1>0, <2>1, <2>4
    <2>6. Bytes(B) \in Nat /\ Bytes(B) <= Limit * s
        BY <1>0, <2>5, BytesBound
    <2>7. Limit * s \in Nat
        BY <1>0
    <2>8. QED
        BY <1>0, <2>5, <2>6, <2>7
<1>3. QED
    BY <1>1, <1>2

\* Nor is a push of a single entry that can be pushed.
LEMMA PushableFits ==
    ASSUME NEW B, Batch(B), Cardinality(B) <= 1,
           \A e \in Ids(B) : Pushable(e)
    PROVE  Bytes(B) \in Nat /\ Bytes(B) <= MaxRequestBytes
<1>1. \A r \in B : size[r.entry_id] <= MaxRequestBytes
    BY DEF Ids, Pushable
<1>2. Bytes(B) \in Nat /\ Bytes(B) <= 1 * MaxRequestBytes
    BY <1>1, BytesBound, BoundAssumption
<1>3. QED
    BY <1>2, BoundAssumption

\* A batch is no longer than its limit, and its cursor lies ahead.
LEMMA PullSize ==
    ASSUME NEW T, NEW last \in Nat, Numbered(T, last), NEW from \in Nat,
           NEW limit \in Nat
    PROVE  LET B == pull_since_cursor(T, from, limit)
           IN  /\ Cardinality(B) <= limit
               /\ B # {} => next_cursor_of(B) > from
<1> DEFINE after == RowsAfter(T, from)
           B == pull_since_cursor(T, from, limit)
<1>1. B \in SUBSET after /\ after \in SUBSET T
    BY DEF pull_since_cursor, RowsAfter
<1>2. Batch(B) /\ Batch(after) /\ \A r \in T : r.ingest_seq \in Nat
    BY <1>1, FS_Subset DEF Batch, Numbered, Row
<1>3. CASE B = {}
    BY <1>3, FS_EmptySet
<1>4. CASE B # {}
    <2>1. /\ Seqs(B) \in SUBSET Nat /\ Seqs(B) # {}
          /\ \A k \in Seqs(B) : k <= last
        BY <1>1, <1>2, <1>4 DEF Seqs, Numbered
    <2>2. Max(Seqs(B)) \in Seqs(B) /\ \A k \in Seqs(B) : k <= Max(Seqs(B))
        BY <2>1, MaxNat
    <2>3. PICK r \in B : /\ r.ingest_seq = Max(Seqs(B))
                         /\ \A x \in B : x.ingest_seq <= r.ingest_seq
        BY <2>2 DEF Seqs
    <2>4. next_cursor_of(B) > from
        BY <1>4, <2>3 DEF next_cursor_of, pull_since_cursor, RowsAfter
    <2>5. B \in SUBSET {x \in after : x.ingest_seq <= r.ingest_seq}
        BY <1>1, <2>3
    <2>6. Cardinality(B) <= Rank(after, r)
        <3>1. IsFiniteSet({x \in after : x.ingest_seq <= r.ingest_seq})
            BY <1>2, FS_Subset DEF Batch
        <3>2. QED
            BY <2>5, <3>1, FS_Subset DEF Rank
    <2>7. r \in after /\ Rank(after, r) <= limit
        BY DEF pull_since_cursor
    <2>8. Cardinality(B) \in Nat /\ Rank(after, r) \in Nat
        <3>1. Rank(after, r) \in 1..Cardinality(after) /\ Cardinality(after) \in Nat
            BY <1>2, <2>7, RankMonotone, FS_CardinalityType DEF Batch
        <3>2. QED
            BY <1>2, <3>1, FS_CardinalityType DEF Batch
    <2>9. QED
        BY <2>4, <2>6, <2>7, <2>8
<1>5. QED
    BY <1>3, <1>4

-----------------------------------------------------------------------------
(* A run without faults.                                                   *)

\* All that d has had can be pulled from it, or pushed.
AllPullable(d) == \A e \in seen[d] : Pullable(e)
AllPushable(d) == \A e \in seen[d] : Pushable(e)

\* A table holds nothing that was not stored.
SeenInv == \A d \in Device : Ids(entries[d]) \subseteq seen[d]

LEMMA SeenNext ==
    ASSUME TypeInv, SeenInv, [RunNext]_allVars
    PROVE  SeenInv'
<1>0. entries \in [Device -> SUBSET Row] /\ seen \in [Device -> SUBSET Entry]
    BY DEF TypeInv, TypeOK
<1>1. ASSUME UNCHANGED storeVars PROVE SeenInv'
    BY <1>1 DEF SeenInv, storeVars
<1>2. ASSUME NEW d \in Device, NEW B, Batch(B), Insert(d, B) PROVE SeenInv'
    <2>1. /\ seen' = [seen EXCEPT ![d] = @ \cup Ids(B)]
          /\ \A x \in Device : Ids(entries'[x]) = IF x = d
                                                  THEN Ids(entries[d]) \cup Ids(B)
                                                  ELSE Ids(entries[x])
        BY <1>2, InsertSeen
    <2>2. QED
        BY <1>0, <2>1 DEF SeenInv
<1>3. ASSUME NEW d \in Device, NEW e \in Entry, Record(d, e) PROVE SeenInv'
    BY <1>2, <1>3, RecordedBatch DEF Record
<1>4. /\ \A m \in sync_batch \cup entries_push : Batch(m.entries)
      /\ \A m \in entries_push : m.peer \in Device
      /\ \A c \in Client : host[c] \in Device
    BY ClientAssumption
       DEF TypeInv, TypeOK, BatchInv, SyncBatch, EntriesPush, Batch
<1>5. ASSUME NEW c \in Client, PullInsert(c) PROVE SeenInv'
    BY <1>2, <1>4, <1>5 DEF PullInsert
<1>6. ASSUME NEW m \in entries_push, ServePush(m) PROVE SeenInv'
    BY <1>2, <1>4, <1>6 DEF ServePush
<1>7. ASSUME NEW d \in Device, PruneDelete(d) PROVE FALSE
    <2>1. prune_pc' # prune_pc
        BY <1>7 DEF PruneDelete, TypeInv, TypeOK
    <2>2. QED
        BY <2>1, RunKeepsPrune
<1>8. CASE OtherStep
    BY <1>1, <1>8, OtherKeeps
<1>9. QED
    BY <1>1, <1>3, <1>5, <1>6, <1>7, <1>8, RunIsSync, StoreCases

\* A fault is counted, and a command keeps its transport.
LEMMA RunKeepsTransport ==
    ASSUME [RunNext]_allVars
    PROVE  transport' = transport
<1>1. UNCHANGED runVars => transport' = transport
    BY DEF runVars
<1>2. ASSUME NEW c \in Client, RunStep(c) PROVE transport' = transport
    BY <1>1, <1>2 DEF RunStep, BeginRun, CountCursor, CountPending, Finish, EndRun,
                      TakeTarget
<1>3. ASSUME NEW c \in Client, Killed(c) PROVE transport' = transport
    BY <1>3 DEF Killed, EndRun
<1>4. ASSUME NEW c \in Client, NEW p \in Device, SkipTarget(c, p)
      PROVE  transport' = transport
    BY <1>4 DEF SkipTarget
<1>5. QED
    BY <1>1, <1>2, <1>3, <1>4 DEF RunNext, RunServe, allVars

LEMMA FaultCounts ==
    ASSUME TypeInv, Fault
    PROVE  faults' # 0
BY DEF Fault, TypeInv, TypeOK

LEMMA FaultsCounted ==
    ASSUME [RunNext]_allVars
    PROVE  faults' = faults \/ Fault
<1>1. ASSUME NEW c \in Client,
             BeginRun(c) \/ CountCursor(c) \/ CountPending(c) \/ Finish(c)
      PROVE  faults' = faults
    BY <1>1 DEF BeginRun, CountCursor, CountPending, Finish, peerSyncVars, vars
<1>2. ASSUME NEW c \in Client, NEW p \in Device, TakeTarget(c, p) \/ SkipTarget(c, p)
      PROVE  faults' = faults \/ Fault
    BY <1>2 DEF TakeTarget, StartSync, SkipTarget
<1>3. ASSUME NEW c \in Client, EndOfPull(c) \/ EndOfPush(c) \/ Killed(c)
      PROVE  faults' = faults \/ Fault
    BY <1>3 DEF EndOfPull, EndOfPush, PullDone, PushDone, Killed
<1>4. ASSUME NEW c \in Client, CommonStep(c) PROVE faults' = faults \/ Fault
    BY <1>4 DEF CommonStep, SaveCursor, PushBegin, SavePushed, SkipResponse,
                RetryPull, RetryPush, GiveUp, RequestFailed
<1>5. ASSUME NEW c \in Client, P2pStep(c) \/ HttpStep(c)
      PROVE  faults' = faults
    BY <1>5 DEF P2pStep, PullInsert, PushSend, PushTooLarge, PushAcked, HttpStep,
                HttpPullInsert, HttpPullTooBig, HttpPushSend, HttpPushAnswered
<1>6. ASSUME NEW m, ServePullStep(m) \/ ServePushStep(m) PROVE faults' = faults
    BY <1>6 DEF ServePullStep, ServePull, HttpServePull, ServePushStep, ServePush,
                HttpServePush
<1>7. ASSUME FaultStep PROVE Fault
    BY <1>7 DEF FaultStep, Abort, HttpBodyCut, ServePushError, Lose
<1>8. ASSUME NEW d \in Device, NEW e \in Entry, Record(d, e)
      PROVE  faults' = faults
    BY <1>8 DEF Record
<1>9. CASE UNCHANGED allVars
    BY <1>9 DEF allVars, peerSyncVars, vars
<1>10. QED
    BY <1>1, <1>2, <1>3, <1>4, <1>5, <1>6, <1>7, <1>8, <1>9
       DEF RunNext, RunStep, RunServe, TransferStep

\* Nothing failed in a step after which no fault is counted.
LEMMA NoFault ==
    ASSUME TypeInv, [RunNext]_allVars, faults' = 0
    PROVE  faults = 0 /\ ~ Fault
BY FaultCounts, FaultsCounted

-----------------------------------------------------------------------------
(* What a client does itself.                                              *)

SameClient(c) ==
    /\ SameLocal(c)
    /\ batch_limit'[c] = batch_limit[c]
    /\ request_id'[c] = request_id[c]

LEMMA OthersKeepClient ==
    ASSUME ClientType, NEW c \in Client, NEW x \in Client, x # c,
           \/ \E p \in Device : StartSync(x, p)
           \/ TransferStep(x) \/ PullDone(x) \/ PushDone(x)
           \/ Abort(x) \/ HttpBodyCut(x) \/ Killed(x)
    PROVE  SameClient(c)
<1>1. ASSUME EndPull(x) \/ EndSync(x) \/ FailPhase(x), request_id' = request_id
      PROVE  SameClient(c)
    <2>1. \E p, phase : EnterPhase(x, phase, p)
        BY <1>1 DEF EndPull, EndSync, FailPhase
    <2>2. QED
        BY <1>1, <2>1 DEF EnterPhase, SameClient, SameLocal, ClientType
<1>2. ASSUME UNCHANGED clientVars PROVE SameClient(c)
    BY <1>2 DEF clientVars, SameClient, SameLocal
<1>3. ASSUME PullDone(x) \/ PushDone(x) \/ GiveUp(x) \/ Abort(x) \/ HttpBodyCut(x)
             \/ HttpPullTooBig(x) \/ Killed(x)
      PROVE  SameClient(c)
    BY <1>1, <1>3 DEF PullDone, PushDone, GiveUp, Abort, HttpBodyCut,
                      HttpPullTooBig, Killed
<1>4. ASSUME \/ \E p \in Device : StartSync(x, p)
             \/ SaveCursor(x) \/ RetryPull(x)
      PROVE  SameClient(c)
    BY <1>4 DEF StartSync, SaveCursor, RetryPull, SendPull, SameClient, SameLocal,
                ClientType
<1>5. ASSUME PushSend(x) \/ HttpPushSend(x) \/ RetryPush(x) PROVE SameClient(c)
    BY <1>5 DEF PushSend, HttpPushSend, RetryPush, SendPush, SameClient, SameLocal,
                ClientType
<1>6. ASSUME PushBegin(x) PROVE SameClient(c)
    BY <1>6 DEF PushBegin, SameClient, SameLocal, ClientType
<1>7. ASSUME PullInsert(x) PROVE SameClient(c)
    <2>1. CASE EndPull(x)
        BY <1>1, <1>7, <2>1 DEF PullInsert
    <2>2. CASE ~ EndPull(x)
        BY <1>7, <2>2 DEF PullInsert, SameClient, SameLocal, ClientType
    <2>3. QED
        BY <2>1, <2>2
<1>8. ASSUME PushTooLarge(x) \/ PushAcked(x) \/ SavePushed(x) \/ HttpPushAnswered(x)
      PROVE  SameClient(c)
    <2>1. CASE EndSync(x)
        BY <1>1, <1>8, <2>1 DEF PushTooLarge, PushAcked, SavePushed, HttpPushAnswered
    <2>2. CASE ~ EndSync(x)
        BY <1>8, <2>2 DEF PushTooLarge, PushAcked, SavePushed, HttpPushAnswered,
                          SameClient, SameLocal, ClientType
    <2>3. QED
        BY <2>1, <2>2
<1>9. ASSUME SkipResponse(x) PROVE SameClient(c)
    BY <1>2, <1>9 DEF SkipResponse
<1>10. QED
    BY <1>3, <1>4, <1>5, <1>6, <1>7, <1>8, <1>9
       DEF TransferStep, CommonStep, P2pStep, HttpStep, HttpPullInsert

\* What changes the process of a client is a step of its own.
LEMMA OwnStep ==
    ASSUME TypeInv, [RunNext]_allVars, NEW c \in Client
    PROVE  \/ SameClient(c)
           \/ \E p \in Device : TakeTarget(c, p)
           \/ EndOfPull(c) \/ EndOfPush(c) \/ TransferStep(c)
           \/ (Abort(c) \/ HttpBodyCut(c) \/ Killed(c)) /\ Fault
<1> DEFINE Goal == \/ SameClient(c)
                   \/ \E p \in Device : TakeTarget(c, p)
                   \/ EndOfPull(c) \/ EndOfPush(c) \/ TransferStep(c)
                   \/ (Abort(c) \/ HttpBodyCut(c) \/ Killed(c)) /\ Fault
<1>0. ClientType
    BY TypeGroups DEF TypeInv
<1>1. ASSUME UNCHANGED clientVars PROVE SameClient(c)
    BY <1>1 DEF clientVars, SameClient, SameLocal
<1>2. ASSUME NEW x \in Client,
             BeginRun(x) \/ CountCursor(x) \/ CountPending(x) \/ Finish(x)
      PROVE  Goal
    BY <1>1, <1>2 DEF BeginRun, CountCursor, CountPending, Finish, peerSyncVars, vars
<1>3. ASSUME NEW x \in Client,
             \/ \E p \in Device : TakeTarget(x, p)
             \/ EndOfPull(x) \/ EndOfPush(x) \/ TransferStep(x)
             \/ Abort(x) \/ HttpBodyCut(x) \/ Killed(x)
      PROVE  Goal
    <2>1. CASE x = c
        BY <1>3, <2>1 DEF Abort, HttpBodyCut, Killed
    <2>2. CASE x # c
        BY <1>0, <1>3, <2>2, OthersKeepClient DEF TakeTarget, EndOfPull, EndOfPush
    <2>3. QED
        BY <2>1, <2>2
<1>4. ASSUME NEW x \in Client, NEW p \in Device, SkipTarget(x, p) PROVE Goal
    BY <1>1, <1>4 DEF SkipTarget
<1>5. ASSUME NEW m, \/ ServePullStep(m) \/ ServePushStep(m)
                    \/ ServePushError(m) \/ Lose(m)
      PROVE  Goal
    BY <1>1, <1>5 DEF ServePullStep, ServePull, HttpServePull, ServePushStep,
                      ServePush, HttpServePush, ServePushError, Lose
<1>6. ASSUME NEW d \in Device, NEW e \in Entry, Record(d, e) PROVE Goal
    BY <1>1, <1>6 DEF Record
<1>7. CASE UNCHANGED allVars
    BY <1>1, <1>7 DEF allVars, peerSyncVars, vars
<1>8. QED
    BY <1>2, <1>3, <1>4, <1>5, <1>6, <1>7
       DEF RunNext, RunStep, RunServe, FaultStep

\* How a client leaves the pull without an empty answer or a fault.
PullFailed(c) ==
    \/ PullInsert(c) /\ EndPull(c)
    \/ HttpPullTooBig(c)
    \/ pc[c] = "pull_wait" /\ ~ Outstanding(c)

LEMMA PullLeaves ==
    ASSUME TypeInv, [RunNext]_allVars, NEW c \in Client, ~ Fault,
           pc[c] \in PullPhase, pc'[c] \notin PullPhase
    PROVE  EndPull(c) /\ (EndOfPull(c) \/ PullFailed(c))
<1>0. ClientType
    BY TypeGroups DEF TypeInv
<1>1. \/ EndOfPull(c) \/ EndOfPush(c) \/ TransferStep(c)
      \/ \E p \in Device : TakeTarget(c, p)
    BY OwnStep DEF SameClient, SameLocal
<1>2. ~ EndOfPush(c) /\ \A p \in Device : ~ TakeTarget(c, p)
    BY DEF EndOfPush, PushDone, TakeTarget, StartSync, PullPhase
<1>3. CASE TransferStep(c)
    <2>1. ASSUME PullInsert(c), ~ EndPull(c) PROVE FALSE
        BY <1>0, <2>1 DEF PullInsert, PullPhase, ClientType
    <2>2. ~ SaveCursor(c) /\ ~ SkipResponse(c) /\ ~ RetryPull(c)
        BY <1>0 DEF SaveCursor, SkipResponse, RetryPull, clientVars, PullPhase,
                    ClientType
    <2>3. /\ ~ PushBegin(c) /\ ~ PushSend(c) /\ ~ PushTooLarge(c) /\ ~ PushAcked(c)
          /\ ~ SavePushed(c) /\ ~ RetryPush(c) /\ ~ HttpPushSend(c)
          /\ ~ HttpPushAnswered(c)
        BY DEF PushBegin, PushSend, PushTooLarge, PushAcked, SavePushed, RetryPush,
               HttpPushSend, HttpPushAnswered, PullPhase
    <2>4. ASSUME GiveUp(c) PROVE PullFailed(c) /\ EndPull(c)
        BY <2>4 DEF GiveUp, RequestFailed, FailPhase, PullFailed, PullPhase
    <2>5. ASSUME HttpPullTooBig(c) PROVE PullFailed(c) /\ EndPull(c)
        BY <2>5 DEF HttpPullTooBig, PullFailed
    <2>6. QED
        BY <1>3, <2>1, <2>2, <2>3, <2>4, <2>5
           DEF TransferStep, CommonStep, P2pStep, HttpStep, HttpPullInsert,
               PullFailed
<1>4. EndOfPull(c) => EndPull(c)
    BY DEF EndOfPull, PullDone
<1>5. QED
    BY <1>1, <1>2, <1>3, <1>4

\* How a client leaves the push with rows left, without a fault.
PushFailed(c) ==
    \/ PushTooLarge(c) /\ batch_limit[c] <= 1
    \/ /\ pc[c] = "push_wait"
       /\ \E m \in push_ack : /\ Answer(c, m) /\ ~ m.ok
                              /\ transport = "p2p" \/ batch_limit[c] <= 1
    \/ pc[c] = "push_save" /\ next_cursor[c] <= cursor[c]
    \/ pc[c] = "push_wait" /\ ~ Outstanding(c)

LEMMA PushLeaves ==
    ASSUME TypeInv, [RunNext]_allVars, NEW c \in Client, ~ Fault,
           pc[c] \in PushPhase, pc'[c] \notin PushPhase
    PROVE  EndOfPush(c) \/ PushFailed(c)
<1>0. ClientType
    BY TypeGroups DEF TypeInv
<1>1. \/ EndOfPull(c) \/ EndOfPush(c) \/ TransferStep(c)
      \/ \E p \in Device : TakeTarget(c, p)
    BY OwnStep DEF SameClient, SameLocal
<1>2. ~ EndOfPull(c) /\ \A p \in Device : ~ TakeTarget(c, p)
    BY DEF EndOfPull, PullDone, TakeTarget, StartSync, PushPhase
<1>3. CASE TransferStep(c)
    <2>1. /\ ~ PullInsert(c) /\ ~ SaveCursor(c) /\ ~ RetryPull(c)
          /\ ~ HttpPullTooBig(c)
        BY DEF PullInsert, SaveCursor, RetryPull, HttpPullTooBig, PushPhase
    <2>2. /\ ~ PushBegin(c) /\ ~ PushSend(c) /\ ~ HttpPushSend(c)
          /\ ~ RetryPush(c) /\ ~ SkipResponse(c)
        BY <1>0 DEF PushBegin, PushSend, HttpPushSend, RetryPush, SkipResponse,
                    clientVars, PushPhase, ClientType
    <2>3. ASSUME PushTooLarge(c) PROVE PushFailed(c)
        BY <2>3 DEF PushTooLarge, PushFailed
    <2>4. ASSUME transport = "p2p", PushAcked(c) PROVE PushFailed(c)
        BY <1>0, <2>4 DEF PushAcked, PushFailed, PushPhase, ClientType
    <2>5. ASSUME SavePushed(c) PROVE PushFailed(c)
        BY <1>0, <2>5 DEF SavePushed, PushFailed, PushPhase, ClientType
    <2>6. ASSUME HttpPushAnswered(c) PROVE PushFailed(c)
        BY <1>0, <2>6 DEF HttpPushAnswered, PushFailed, PushPhase, ClientType
    <2>7. ASSUME GiveUp(c) PROVE PushFailed(c)
        BY <2>7 DEF GiveUp, RequestFailed, PushFailed, PushPhase
    <2>8. QED
        BY <1>3, <2>1, <2>2, <2>3, <2>4, <2>5, <2>6, <2>7
           DEF TransferStep, CommonStep, P2pStep, HttpStep, HttpPullInsert
<1>4. QED
    BY <1>1, <1>2, <1>3

\* Where the batch comes from that a client waits for.
LEMMA PushStays ==
    ASSUME TypeInv, [RunNext]_allVars, NEW c \in Client,
           pc'[c] \in {"push_wait", "push_save"}
    PROVE  /\ cursor'[c] = cursor[c] /\ batch_limit'[c] = batch_limit[c]
           /\ \/ /\ pc[c] \in {"push_wait", "push_save"}
                 /\ batch'[c] = batch[c] /\ next_cursor'[c] = next_cursor[c]
              \/ /\ pc[c] = "push_read" /\ PushBatch(c) # {}
                 /\ batch'[c] = PushBatch(c)
                 /\ next_cursor'[c] = next_cursor_of(PushBatch(c))
<1>0. ClientType
    BY TypeGroups DEF TypeInv
<1>1. CASE SameClient(c)
    BY <1>1 DEF SameClient, SameLocal
<1>2. ASSUME EndPull(c) \/ EndSync(c) \/ FailPhase(c) PROVE FALSE
    BY <1>0, <1>2 DEF EndPull, EndSync, FailPhase, EnterPhase, ClientType
<1>3. /\ ~ EndOfPull(c) /\ ~ EndOfPush(c) /\ ~ GiveUp(c) /\ ~ HttpPullTooBig(c)
      /\ ~ Abort(c) /\ ~ HttpBodyCut(c) /\ ~ Killed(c)
    BY <1>2 DEF EndOfPull, PullDone, EndOfPush, PushDone, GiveUp, HttpPullTooBig,
                Abort, HttpBodyCut, Killed
<1>4. /\ ~ PullInsert(c) /\ ~ SaveCursor(c) /\ ~ PushBegin(c) /\ ~ RetryPull(c)
      /\ ~ PushTooLarge(c) /\ ~ SavePushed(c)
      /\ \A p \in Device : ~ TakeTarget(c, p)
    BY <1>0, <1>2 DEF PullInsert, SaveCursor, PushBegin, RetryPull, PushTooLarge,
                      SavePushed, TakeTarget, StartSync, ClientType
<1>5. CASE PushSend(c) \/ HttpPushSend(c)
    BY <1>0, <1>5 DEF PushSend, HttpPushSend, ClientType
<1>6. CASE PushAcked(c) \/ HttpPushAnswered(c)
    BY <1>0, <1>2, <1>6 DEF PushAcked, HttpPushAnswered, ClientType
<1>7. CASE SkipResponse(c) \/ RetryPush(c)
    BY <1>7 DEF SkipResponse, RetryPush, clientVars
<1>8. QED
    BY <1>1, <1>3, <1>4, <1>5, <1>6, <1>7, OwnStep
       DEF TransferStep, CommonStep, P2pStep, HttpStep, HttpPullInsert

\* Without a fault, a message of the current request stays or is handled.
LEMMA MailKept ==
    ASSUME TypeInv, [RunNext]_allVars, NEW c \in Client, ~ Fault,
           pc[c] \in {"pull_wait", "push_wait"}, pc'[c] = pc[c]
    PROVE  /\ \A m \in sync_pull : Answer(c, m) =>
                m \in sync_pull' \/ ServePullStep(m)
           /\ \A m \in sync_batch : Answer(c, m) => m \in sync_batch'
           /\ \A m \in entries_push : Answer(c, m) =>
                m \in entries_push' \/ ServePushStep(m)
           /\ \A m \in push_ack : Answer(c, m) => m \in push_ack'
<1> DEFINE Goal == /\ \A m \in sync_pull : Answer(c, m) =>
                        m \in sync_pull' \/ ServePullStep(m)
                   /\ \A m \in sync_batch : Answer(c, m) => m \in sync_batch'
                   /\ \A m \in entries_push : Answer(c, m) =>
                        m \in entries_push' \/ ServePushStep(m)
                   /\ \A m \in push_ack : Answer(c, m) => m \in push_ack'
<1>0. ClientType
    BY TypeGroups DEF TypeInv
<1>1. ASSUME /\ sync_pull \subseteq sync_pull' /\ sync_batch \subseteq sync_batch'
             /\ entries_push \subseteq entries_push' /\ push_ack \subseteq push_ack'
      PROVE  Goal
    BY <1>1
<1>2. ASSUME NEW x \in Client,
             BeginRun(x) \/ CountCursor(x) \/ CountPending(x) \/ Finish(x)
      PROVE  Goal
    BY <1>1, <1>2 DEF BeginRun, CountCursor, CountPending, Finish, peerSyncVars,
                      vars, pullVars, pushVars
<1>3. ASSUME NEW x \in Client, \/ \E p \in Device : TakeTarget(x, p)
                               \/ SaveCursor(x) \/ RetryPull(x)
      PROVE  Goal
    BY <1>1, <1>3 DEF TakeTarget, StartSync, SaveCursor, RetryPull, SendPull, pushVars
<1>4. ASSUME NEW x \in Client, PushSend(x) \/ HttpPushSend(x) \/ RetryPush(x)
      PROVE  Goal
    BY <1>1, <1>4 DEF PushSend, HttpPushSend, RetryPush, SendPush, pullVars
<1>5. ASSUME NEW x \in Client, \/ PushBegin(x) \/ EndOfPush(x) \/ PushTooLarge(x)
                               \/ SavePushed(x) \/ GiveUp(x)
      PROVE  Goal
    BY <1>1, <1>5 DEF PushBegin, EndOfPush, PushDone, PushTooLarge, SavePushed,
                      GiveUp, pullVars, pushVars
<1>6. ASSUME NEW x \in Client, x # c,
             \/ EndOfPull(x) \/ PullInsert(x) \/ HttpPullTooBig(x)
             \/ PushAcked(x) \/ HttpPushAnswered(x) \/ SkipResponse(x)
      PROVE  Goal
    <2>1. /\ sync_pull' = sync_pull /\ entries_push' = entries_push
          /\ \A m \in sync_batch : m.client = c => m \in sync_batch'
          /\ \A m \in push_ack : m.client = c => m \in push_ack'
        BY <1>6 DEF EndOfPull, PullDone, PullInsert, HttpPullTooBig, PushAcked,
                    HttpPushAnswered, SkipResponse, Answer, pullVars, pushVars
    <2>2. QED
        BY <2>1 DEF Answer
<1>7. ASSUME SkipResponse(c) PROVE Goal
    BY <1>7 DEF SkipResponse
<1>8. ASSUME EndPull(c) \/ EndSync(c) PROVE FALSE
    BY <1>0, <1>8 DEF EndPull, EndSync, EnterPhase, ClientType
<1>9. /\ ~ EndOfPull(c) /\ ~ PullInsert(c) /\ ~ HttpPullTooBig(c)
      /\ ~ PushAcked(c) /\ ~ HttpPushAnswered(c)
    BY <1>0, <1>8 DEF EndOfPull, PullDone, PullInsert, HttpPullTooBig, PushAcked,
                      HttpPushAnswered, ClientType
<1>10. ASSUME NEW m \in sync_pull, ServePullStep(m) PROVE Goal
    <2>1. /\ sync_pull' = sync_pull \ {m} /\ sync_batch \subseteq sync_batch'
          /\ UNCHANGED pushVars
        BY <1>10 DEF ServePullStep, ServePull, HttpServePull
    <2>2. QED
        BY <1>10, <2>1 DEF pushVars
<1>11. ASSUME NEW m \in entries_push, ServePushStep(m) PROVE Goal
    <2>1. /\ entries_push' = entries_push \ {m} /\ push_ack \subseteq push_ack'
          /\ UNCHANGED pullVars
        BY <1>11 DEF ServePushStep, ServePush, HttpServePush, Acknowledge
    <2>2. QED
        BY <1>11, <2>1 DEF pullVars
<1>12. ASSUME NEW d \in Device, NEW e \in Entry, Record(d, e) PROVE Goal
    BY <1>1, <1>12 DEF Record, pullVars, pushVars
<1>13. /\ ~ FaultStep
       /\ \A x \in Client : ~ Killed(x)
       /\ \A x \in Client, p \in Device : ~ SkipTarget(x, p)
    BY DEF FaultStep, Abort, HttpBodyCut, ServePushError, Lose, Killed, SkipTarget
<1>14. CASE UNCHANGED allVars
    BY <1>1, <1>14 DEF allVars, peerSyncVars, vars, pullVars, pushVars
<1>15. QED
    BY <1>2, <1>3, <1>4, <1>5, <1>6, <1>7, <1>9, <1>10, <1>11, <1>12, <1>13, <1>14
       DEF RunNext, RunStep, RunServe, TransferStep, CommonStep, P2pStep, HttpStep,
           HttpPullInsert

-----------------------------------------------------------------------------
(* Requests and their answers.                                             *)

\* An answer to a pull is no longer than Limit, holds what the target stored,
\* and its cursor lies ahead.
AnswerInv(c) ==
    pc[c] = "pull_wait" =>
      \A m \in sync_batch : Answer(c, m) =>
        /\ Cardinality(m.entries) <= Limit
        /\ Ids(m.entries) \subseteq seen[target[c]]
        /\ m.entries # {} => m.next_cursor > cursor[c]

\* The same of a batch that is pushed.
SentInv(c) ==
    pc[c] \in {"push_wait", "push_save"} =>
      /\ Cardinality(batch[c]) <= batch_limit[c]
      /\ Ids(batch[c]) \subseteq seen[host[c]]
      /\ next_cursor[c] > cursor[c]

\* Without a fault an answer is still to come, unless a response was too
\* large to be sent, and only a push that is too large is refused.
AskedInv(c) ==
    faults = 0 =>
      /\ pc[c] = "pull_wait" /\ AllPullable(target[c]) =>
           \E m \in sync_pull \cup sync_batch : Answer(c, m)
      /\ pc[c] = "push_wait" =>
           /\ \E m \in entries_push \cup push_ack : Answer(c, m)
           /\ \A m \in push_ack : Answer(c, m) /\ ~ m.ok =>
                transport = "http" /\ ~ (Bytes(batch[c]) <= MaxRequestBytes)

MailboxInv == RunInv /\ SeenInv /\ \A c \in Client : /\ AnswerInv(c)
                                                     /\ SentInv(c)
                                                     /\ AskedInv(c)

\* What the answer to the current pull request will be.
LEMMA CurrentAnswer ==
    ASSUME RunInv, SeenInv, NEW c \in Client, pc[c] = "pull_wait",
           NEW m \in sync_pull, Answer(c, m)
    PROVE  LET a == PullAnswer(m)
           IN  /\ m.peer = target[c] /\ Batch(a.entries)
               /\ Cardinality(a.entries) <= Limit
               /\ Ids(a.entries) \subseteq seen[target[c]]
               /\ a.entries # {} => a.next_cursor > cursor[c]
<1> DEFINE rows == pull_since_cursor(entries[m.peer], m.cursor, m.limit)
<1>0. /\ TypeInv /\ m.peer \in Device /\ m.cursor \in Nat /\ m.limit \in Nat
      /\ m.limit <= Limit /\ Limit \in Nat
    BY BoundAssumption DEF RunInv, SafeInv, TypeInv, TypeOK, SyncPull, LimitInv
<1>1. m.peer = target[c] /\ m.cursor = cursor[c]
    BY DEF RunInv, SafeInv, MailInv, PullMail
<1>2. /\ Numbered(entries[m.peer], sqlite_sequence[m.peer])
      /\ sqlite_sequence[m.peer] \in Nat
    BY <1>0 DEF TypeInv, TypeOK, StoreInv
<1>3. Cardinality(rows) <= m.limit /\ (rows # {} => next_cursor_of(rows) > m.cursor)
    BY <1>0, <1>2, PullSize
<1>4. rows \in SUBSET entries[m.peer] /\ Batch(rows)
    BY <1>0, <1>2, PullCarries
<1>5. Ids(rows) \subseteq seen[m.peer]
    BY <1>0, <1>4 DEF SeenInv, Ids
<1>6. Cardinality(rows) \in Nat
    BY <1>4, FS_CardinalityType DEF Batch
<1>7. PullAnswer(m).entries = rows /\ PullAnswer(m).next_cursor = next_cursor_of(rows)
    BY DEF PullAnswer
<1> HIDE DEF rows
<1>8. QED
    BY <1>0, <1>1, <1>3, <1>4, <1>5, <1>6, <1>7

LEMMA AnswerNext ==
    ASSUME RunInv, SeenInv, [RunNext]_allVars, NEW c \in Client, AnswerInv(c)
    PROVE  AnswerInv(c)'
<1> SUFFICES ASSUME pc'[c] = "pull_wait", NEW m \in sync_batch', Answer(c, m)'
             PROVE  /\ Cardinality(m.entries) <= Limit
                    /\ Ids(m.entries) \subseteq seen'[target'[c]]
                    /\ m.entries # {} => m.next_cursor > cursor'[c]
    BY DEF AnswerInv
<1>1. /\ pc[c] = "pull_wait" /\ target'[c] = target[c] /\ cursor'[c] = cursor[c]
      /\ \/ m \in sync_batch /\ Answer(c, m)
         \/ \E r \in sync_pull : Answer(c, r) /\ m = PullAnswer(r)
    BY AnswerSource
<1>2. seen[target[c]] \subseteq seen'[target[c]]
    BY RunSafe, StoreFacts DEF RunInv, SafeInv, StoresGrow
<1>3. /\ Cardinality(m.entries) <= Limit
      /\ Ids(m.entries) \subseteq seen[target[c]]
      /\ m.entries # {} => m.next_cursor > cursor[c]
    BY <1>1, CurrentAnswer DEF AnswerInv
<1>4. QED
    BY <1>1, <1>2, <1>3

\* What a push reads.
LEMMA CurrentBatch ==
    ASSUME RunInv, SeenInv, NEW c \in Client
    PROVE  /\ Batch(PushBatch(c))
           /\ Cardinality(PushBatch(c)) <= batch_limit[c]
           /\ Ids(PushBatch(c)) \subseteq seen[host[c]]
           /\ PushBatch(c) # {} => next_cursor_of(PushBatch(c)) > cursor[c]
<1> DEFINE own == RowsOf(entries[host[c]], host[c])
           rows == pull_since_cursor(own, cursor[c], batch_limit[c])
<1>0. /\ TypeInv /\ host[c] \in Device /\ cursor[c] \in Nat /\ batch_limit[c] \in Nat
      /\ sqlite_sequence[host[c]] \in Nat
    BY ClientAssumption DEF RunInv, SafeInv, TypeInv, TypeOK
<1>1. Numbered(own, sqlite_sequence[host[c]]) /\ own \subseteq entries[host[c]]
    BY <1>0, RowsOfNumbered DEF TypeInv, StoreInv
<1> HIDE DEF own
<1>2. Cardinality(rows) <= batch_limit[c]
      /\ (rows # {} => next_cursor_of(rows) > cursor[c])
    BY <1>0, <1>1, PullSize
<1>3. rows \in SUBSET own /\ Batch(rows)
    BY <1>0, <1>1, PullCarries
<1>4. Ids(rows) \subseteq seen[host[c]]
    BY <1>0, <1>1, <1>3 DEF SeenInv, Ids
<1>5. PushBatch(c) = rows
    BY DEF PushBatch, pull_since_cursor_for_device, own
<1> HIDE DEF rows
<1>6. QED
    BY <1>2, <1>3, <1>4, <1>5

LEMMA SentNext ==
    ASSUME RunInv, SeenInv, [RunNext]_allVars, NEW c \in Client, SentInv(c)
    PROVE  SentInv(c)'
<1> SUFFICES ASSUME pc'[c] \in {"push_wait", "push_save"}
             PROVE  /\ Cardinality(batch'[c]) <= batch_limit'[c]
                    /\ Ids(batch'[c]) \subseteq seen'[host[c]]
                    /\ next_cursor'[c] > cursor'[c]
    BY DEF SentInv
<1>1. seen[host[c]] \subseteq seen'[host[c]]
    BY RunSafe, StoreFacts DEF RunInv, SafeInv, StoresGrow
<1>2. TypeInv
    BY DEF RunInv, SafeInv
<1>3. QED
    BY <1>1, <1>2, PushStays, CurrentBatch DEF SentInv

\* A client that waits goes on waiting for the same, or has just asked.
LEMMA WaitCases ==
    ASSUME RunInv, [RunNext]_allVars, NEW c \in Client,
           pc'[c] \in {"pull_wait", "push_wait"}
    PROVE  \/ /\ pc'[c] = pc[c] /\ target'[c] = target[c] /\ batch'[c] = batch[c]
              /\ request_id'[c] = request_id[c]
           \/ pc'[c] = "pull_wait" /\ \E p, from, limit : SendPull(c, p, from, limit)
           \/ /\ pc'[c] = "push_wait" /\ push_ack' = push_ack
              /\ \E p, B : SendPush(c, p, B)
<1> DEFINE Waits == /\ pc'[c] = pc[c] /\ target'[c] = target[c]
                    /\ batch'[c] = batch[c] /\ request_id'[c] = request_id[c]
<1>0. TypeInv /\ ClientType
    BY TypeGroups DEF RunInv, SafeInv, TypeInv
<1>1. CASE SameLocal(c) /\ request_id'[c] = request_id[c]
    BY <1>1 DEF SameLocal
<1>2. ASSUME NEW m, \/ ServePull(m) \/ ServePush(m) \/ ServePushError(m)
                    \/ HttpServePull(m) \/ RefusePush(m)
      PROVE  Waits
    BY <1>2 DEF ServePull, ServePush, ServePushError, HttpServePull, RefusePush,
                clientVars
<1>3. CASE (\E p \in Device : StartSync(c, p)) \/ SaveCursor(c) \/ RetryPull(c)
    BY <1>0, <1>3 DEF StartSync, SaveCursor, RetryPull, ClientType
<1>4. CASE PushSend(c) \/ RetryPush(c) \/ HttpPushSend(c)
    BY <1>0, <1>4 DEF PushSend, RetryPush, HttpPushSend, ClientType
<1>5. QED
    BY <1>0, <1>1, <1>2, <1>3, <1>4, RunIsSync, MailCases, OtherCases

\* Where the refusal comes from that a client is about to read.
LEMMA RefusalSource ==
    ASSUME RunInv, [RunNext]_allVars, NEW c \in Client, ~ Fault,
           pc'[c] = "push_wait", NEW m \in push_ack', Answer(c, m)', ~ m.ok
    PROVE  /\ pc[c] = "push_wait" /\ batch'[c] = batch[c]
           /\ \/ m \in push_ack /\ Answer(c, m)
              \/ \E r \in entries_push : Answer(c, r) /\ RefusePush(r)
<1> DEFINE Goal ==
      /\ pc[c] = "push_wait" /\ batch'[c] = batch[c]
      /\ \/ m \in push_ack /\ Answer(c, m)
         \/ \E r \in entries_push : Answer(c, r) /\ RefusePush(r)
<1>0. TypeInv /\ ClientType
    BY TypeGroups DEF RunInv, SafeInv, TypeInv
<1>1. CASE SameLocal(c) /\ request_id'[c] = request_id[c] /\ LessMail(c)
    BY <1>1 DEF SameLocal, LessMail, Answer
<1>2. ASSUME NEW r, ServePull(r) \/ HttpServePull(r) PROVE Goal
    BY <1>2 DEF ServePull, HttpServePull, clientVars, pushVars, Answer
<1>3. ASSUME NEW r, ServePush(r) PROVE Goal
    BY <1>3 DEF ServePush, Acknowledge, clientVars, Answer
<1>4. ASSUME NEW r \in entries_push, RefusePush(r) PROVE Goal
    BY <1>4 DEF RefusePush, Acknowledge, clientVars, Answer
<1>5. ASSUME NEW r, ServePushError(r) PROVE FALSE
    BY <1>5 DEF ServePushError
<1>6. ASSUME (\E p \in Device : StartSync(c, p)) \/ SaveCursor(c) \/ RetryPull(c)
      PROVE  FALSE
    BY <1>0, <1>6 DEF StartSync, SaveCursor, RetryPull, ClientType
<1>7. ASSUME PushSend(c) \/ RetryPush(c) \/ HttpPushSend(c) PROVE FALSE
    <2>1. push_ack' = push_ack /\ \E p, B : SendPush(c, p, B)
        BY <1>7 DEF PushSend, RetryPush, HttpPushSend
    <2>2. /\ request_id'[c] = NewRequestId(c)
          /\ \A x \in Messages : x.client = c => x.request_id # NewRequestId(c)
        BY <1>0, <2>1, FreshRequest DEF SendPush, ClientType
    <2>3. QED
        BY <2>1, <2>2 DEF Answer, Messages
<1>8. QED
    BY <1>0, <1>1, <1>2, <1>3, <1>4, <1>5, <1>6, <1>7, RunIsSync, MailCases,
       OtherCases

LEMMA AskedNext ==
    ASSUME RunInv, SeenInv, [RunNext]_allVars, NEW c \in Client, AskedInv(c)
    PROVE  AskedInv(c)'
<1> SUFFICES ASSUME faults' = 0 PROVE AskedInv(c)'
    BY DEF AskedInv
<1>0. /\ TypeInv /\ ClientType /\ faults = 0 /\ ~ Fault
      /\ \A d \in Device : seen[d] \subseteq seen'[d]
      /\ target[c] \in Device
    BY NoFault, RunSafe, StoreFacts, TypeGroups
       DEF RunInv, SafeInv, TypeInv, StoresGrow
<1> DEFINE Waits == /\ pc'[c] = pc[c] /\ target'[c] = target[c]
                    /\ batch'[c] = batch[c] /\ request_id'[c] = request_id[c]
<1>1. ASSUME pc'[c] = "pull_wait", AllPullable(target[c])'
      PROVE  \E m \in sync_pull' \cup sync_batch' : Answer(c, m)'
    <2>1. ASSUME NEW p, NEW from, NEW limit, SendPull(c, p, from, limit)
          PROVE  \E m \in sync_pull' : Answer(c, m)'
        <3> DEFINE r == [client |-> c, request_id |-> NewRequestId(c), peer |-> p,
                         cursor |-> from, limit |-> limit]
        <3>1. r \in sync_pull' /\ request_id' = [request_id EXCEPT ![c] = NewRequestId(c)]
            BY <2>1 DEF SendPull
        <3>2. r.client = c /\ r.request_id = request_id'[c]
            BY <1>0, <3>1 DEF ClientType
        <3> HIDE DEF r
        <3>3. QED
            BY <3>1, <3>2 DEF Answer
    <2>2. CASE Waits
        <3>1. \A m : Answer(c, m)' <=> Answer(c, m)
            BY <2>2 DEF Answer
        <3>2. AllPullable(target[c])
            BY <1>0, <1>1, <2>2 DEF AllPullable, Pullable
        <3>3. PICK m \in sync_pull \cup sync_batch : Answer(c, m)
            BY <1>0, <1>1, <2>2, <3>2 DEF AskedInv
        <3>4. ASSUME m \in sync_pull, ServePullStep(m)
              PROVE  PullAnswer(m) \in sync_batch'
            <4>1. /\ Bytes(PullAnswer(m).entries) \in Nat
                  /\ Bytes(PullAnswer(m).entries) <= MaxResponseBytes
                BY <1>1, <2>2, <3>2, <3>3, <3>4, CurrentAnswer, PullableFits
                   DEF AllPullable
            <4>2. ~ (Bytes(PullAnswer(m).entries) > MaxResponseBytes)
                BY <4>1, BoundAssumption
            <4>3. QED
                BY <3>4, <4>2 DEF ServePullStep, ServePull, HttpServePull, PullAnswer
        <3>5. CASE m \in sync_pull
            <4>1. m \in sync_pull' \/ ServePullStep(m)
                BY <1>0, <1>1, <2>2, <3>3, <3>5, MailKept
            <4>2. Answer(c, PullAnswer(m))
                BY <3>3 DEF Answer, PullAnswer
            <4>3. QED
                BY <3>1, <3>3, <3>4, <3>5, <4>1, <4>2
        <3>6. CASE m \in sync_batch
            BY <1>0, <1>1, <2>2, <3>1, <3>3, <3>6, MailKept
        <3>7. QED
            BY <3>3, <3>5, <3>6
    <2>3. QED
        BY <1>1, <2>1, <2>2, WaitCases
<1>2. ASSUME pc'[c] = "push_wait"
      PROVE  \E m \in entries_push' \cup push_ack' : Answer(c, m)'
    <2>1. ASSUME NEW p, NEW B, SendPush(c, p, B)
          PROVE  \E m \in entries_push' : Answer(c, m)'
        <3> DEFINE r == [client |-> c, request_id |-> NewRequestId(c), peer |-> p,
                         entries |-> B]
        <3>1. r \in entries_push' /\ request_id' = [request_id EXCEPT ![c] = NewRequestId(c)]
            BY <2>1 DEF SendPush
        <3>2. r.client = c /\ r.request_id = request_id'[c]
            BY <1>0, <3>1 DEF ClientType
        <3> HIDE DEF r
        <3>3. QED
            BY <3>1, <3>2 DEF Answer
    <2>2. CASE Waits
        <3>1. \A m : Answer(c, m)' <=> Answer(c, m)
            BY <2>2 DEF Answer
        <3>2. PICK m \in entries_push \cup push_ack : Answer(c, m)
            BY <1>0, <1>2, <2>2 DEF AskedInv
        <3>3. CASE m \in entries_push
            <4>1. m \in entries_push' \/ ServePushStep(m)
                BY <1>0, <1>2, <2>2, <3>2, <3>3, MailKept
            <4>2. ASSUME ServePushStep(m)
                  PROVE  Acknowledge(m, TRUE) \/ Acknowledge(m, FALSE)
                BY <4>2 DEF ServePushStep, ServePush, HttpServePush
            <4>3. ASSUME NEW ok, Acknowledge(m, ok)
                  PROVE  \E a \in push_ack' : Answer(c, a)
                <5> DEFINE a == [client |-> m.client, request_id |-> m.request_id,
                                 ok |-> ok]
                <5>1. a \in push_ack' /\ a.client = c /\ a.request_id = request_id[c]
                    BY <3>2, <4>3 DEF Acknowledge, Answer
                <5> HIDE DEF a
                <5>2. QED
                    BY <5>1 DEF Answer
            <4>4. QED
                BY <3>1, <3>2, <4>1, <4>2, <4>3
        <3>4. CASE m \in push_ack
            BY <1>0, <1>2, <2>2, <3>1, <3>2, <3>4, MailKept
        <3>5. QED
            BY <3>2, <3>3, <3>4
    <2>3. QED
        BY <1>2, <2>1, <2>2, WaitCases
<1>3. ASSUME pc'[c] = "push_wait", NEW m \in push_ack', Answer(c, m)', ~ m.ok
      PROVE  transport' = "http" /\ ~ (Bytes(batch'[c]) <= MaxRequestBytes)
    <2>1. /\ pc[c] = "push_wait" /\ batch'[c] = batch[c]
          /\ \/ m \in push_ack /\ Answer(c, m)
             \/ \E r \in entries_push : Answer(c, r) /\ RefusePush(r)
        BY <1>0, <1>3, RefusalSource
    <2>2. ASSUME NEW r \in entries_push, Answer(c, r) PROVE r.entries = batch[c]
        BY <2>1, <2>2 DEF RunInv, SafeInv, MailInv, PushMail
    <2>3. transport = "http" /\ ~ (Bytes(batch[c]) <= MaxRequestBytes)
        BY <1>0, <1>3, <2>1, <2>2 DEF AskedInv, RefusePush
    <2>4. Bytes(batch[c])' = Bytes(batch[c])
        BY <2>1 DEF Bytes
    <2>5. QED
        BY <2>1, <2>3, <2>4, RunKeepsTransport
<1>4. QED
    BY <1>1, <1>2, <1>3 DEF AskedInv

LEMMA MailboxNext == MailboxInv /\ [RunNext]_allVars => MailboxInv'
<1> SUFFICES ASSUME MailboxInv, [RunNext]_allVars PROVE MailboxInv'
    OBVIOUS
<1>1. RunInv' /\ SeenInv'
    BY RunInvNext, SeenNext DEF MailboxInv, RunInv, SafeInv
<1>2. ASSUME NEW c \in Client PROVE AnswerInv(c)' /\ SentInv(c)' /\ AskedInv(c)'
    BY AnswerNext, SentNext, AskedNext DEF MailboxInv
<1>3. QED
    BY <1>1, <1>2 DEF MailboxInv

\* Without a fault, only entries that are too large can make a pull fail ...
LEMMA PullCannotFail ==
    ASSUME MailboxInv, NEW c \in Client, faults = 0, AllPullable(target[c])
    PROVE  ~ PullFailed(c)
<1>0. /\ TypeInv /\ ClientType /\ AnswerInv(c) /\ AskedInv(c)
      /\ \A m \in sync_batch : Batch(m.entries)
    BY TypeGroups
       DEF MailboxInv, RunInv, SafeInv, TypeInv, TypeOK, BatchInv, SyncBatch, Batch
<1>1. ~ (PullInsert(c) /\ EndPull(c))
    <2> SUFFICES ASSUME PullInsert(c), EndPull(c) PROVE FALSE
        OBVIOUS
    <2>1. pc'[c] # "pull_save"
        BY <1>0 DEF EndPull, EndSync, EnterPhase, ClientType
    <2>2. PICK m \in sync_batch : /\ pc[c] = "pull_wait" /\ Answer(c, m)
                                  /\ m.entries # {} /\ m.next_cursor <= cursor[c]
        BY <1>0, <2>1 DEF PullInsert, ClientType
    <2>3. m.next_cursor \in Nat /\ cursor[c] \in Nat
        BY <1>0 DEF TypeInv, TypeOK, SyncBatch
    <2>4. QED
        BY <1>0, <2>2, <2>3 DEF AnswerInv
<1>2. ~ HttpPullTooBig(c)
    <2> SUFFICES ASSUME HttpPullTooBig(c) PROVE FALSE
        OBVIOUS
    <2>1. PICK m \in sync_batch : Answer(c, m) /\ Bytes(m.entries) > MaxResponseBytes
        BY DEF HttpPullTooBig, TooBigToRead
    <2>2. /\ Cardinality(m.entries) <= Limit
          /\ \A e \in Ids(m.entries) : Pullable(e)
        BY <1>0, <2>1 DEF HttpPullTooBig, AnswerInv, AllPullable
    <2>3. Bytes(m.entries) \in Nat /\ Bytes(m.entries) <= MaxResponseBytes
        BY <1>0, <2>2, PullableFits
    <2>4. QED
        BY <2>1, <2>3, BoundAssumption
<1>3. pc[c] = "pull_wait" => Outstanding(c)
    BY <1>0 DEF AskedInv, Outstanding, UsedIds, Messages, Answer
<1>4. QED
    BY <1>1, <1>2, <1>3 DEF PullFailed

\* ... or a push.
LEMMA PushCannotFail ==
    ASSUME MailboxInv, NEW c \in Client, faults = 0, AllPushable(host[c])
    PROVE  ~ PushFailed(c)
<1>0. /\ TypeInv /\ SentInv(c) /\ AskedInv(c) /\ RunInv /\ SeenInv
      /\ Batch(batch[c]) /\ batch_limit[c] \in Nat
      /\ cursor[c] \in Nat /\ next_cursor[c] \in Nat
    BY DEF MailboxInv, RunInv, SafeInv, TypeInv, TypeOK, BatchInv, Batch
<1>1. ~ (PushTooLarge(c) /\ batch_limit[c] <= 1)
    <2> SUFFICES ASSUME PushTooLarge(c), batch_limit[c] <= 1 PROVE FALSE
        OBVIOUS
    <2>1. /\ Batch(PushBatch(c)) /\ Cardinality(PushBatch(c)) <= batch_limit[c]
          /\ \A e \in Ids(PushBatch(c)) : Pushable(e)
        BY <1>0, CurrentBatch DEF AllPushable
    <2>2. Cardinality(PushBatch(c)) <= 1
        BY <1>0, <2>1, FS_CardinalityType DEF Batch
    <2>3. /\ Bytes(PushBatch(c)) \in Nat
          /\ Bytes(PushBatch(c)) <= MaxRequestBytes
        BY <2>1, <2>2, PushableFits
    <2>4. Bytes(PushBatch(c)) > MaxRequestBytes
        BY DEF PushTooLarge
    <2>5. QED
        BY <2>3, <2>4, BoundAssumption
<1>2. ASSUME pc[c] = "push_wait", NEW m \in push_ack, Answer(c, m), ~ m.ok
      PROVE  ~ (transport = "p2p" \/ batch_limit[c] <= 1)
    <2>1. transport = "http" /\ ~ (Bytes(batch[c]) <= MaxRequestBytes)
        BY <1>0, <1>2 DEF AskedInv
    <2>2. ASSUME batch_limit[c] <= 1 PROVE FALSE
        <3>1. /\ Cardinality(batch[c]) <= batch_limit[c]
              /\ \A e \in Ids(batch[c]) : Pushable(e)
            BY <1>0, <1>2 DEF SentInv, AllPushable
        <3>2. Cardinality(batch[c]) <= 1
            BY <1>0, <2>2, <3>1, FS_CardinalityType DEF Batch
        <3>3. QED
            BY <1>0, <2>1, <3>1, <3>2, PushableFits
    <2>3. QED
        BY <2>1, <2>2
<1>3. ~ (pc[c] = "push_save" /\ next_cursor[c] <= cursor[c])
    BY <1>0 DEF SentInv
<1>4. pc[c] = "push_wait" => Outstanding(c)
    BY <1>0 DEF AskedInv, Outstanding, UsedIds, Messages, Answer
<1>5. QED
    BY <1>1, <1>2, <1>3, <1>4 DEF PushFailed

-----------------------------------------------------------------------------
(* What a run without faults leaves behind.                                *)

\* The pull from target p is over; so is all there was to do for it.
PullOver(c, p) == /\ p \in targets[c] \ todo[c]
                  /\ p = target[c] => pc[c] \in PushPhase
PushOver(c, p) == p \in targets[c] \ (todo[c] \cup {target[c]})

WaitingInv(c) == waiting[c] \subseteq Ids(RowsOf(entries[host[c]], host[c]))

PulledInv(c) ==
    Running(c) /\ faults = 0 =>
      \A p \in Device : PullOver(c, p) /\ AllPullable(p) =>
        progress[c].pull_ok /\ Had(c, p)

PushedInv(c) ==
    c \in PushClient /\ faults = 0 /\ AllPushable(host[c]) =>
      \A p \in Device : PushOver(c, p) => waiting[c] \subseteq seen[p]

NeededInv(c) ==
    faults = 0 /\ AllPushable(host[c]) /\ progress[c].push_needed =>
      progress[c].push_ok \/ (pc[c] \in PushPhase /\ push_needed[c] = "yes")

CleanInv == /\ MailboxInv
            /\ \A c \in Client : /\ WaitingInv(c) /\ PulledInv(c)
                                 /\ PushedInv(c) /\ NeededInv(c)

\* How the run of client c goes on without a fault.
LEMMA CleanCases ==
    ASSUME MailboxInv, [RunNext]_allVars, NEW c \in Client, faults' = 0
    PROVE  /\ faults = 0 /\ ~ Fault
           /\ \A d \in Device : seen[d] \subseteq seen'[d]
           /\ \/ (SameRun(c) \/ TargetOver(c)) /\ Goes(c)
              \/ BeginRun(c) \/ CountCursor(c) \/ CountPending(c) \/ Finish(c)
              \/ \E p \in Device : TakeTarget(c, p)
<1>0. RunInv /\ TypeInv /\ RunVarsType
    BY DEF MailboxInv, RunInv, SafeInv
<1>1. faults = 0 /\ ~ Fault
    BY <1>0, NoFault
<1>2. \A d \in Device : seen[d] \subseteq seen'[d]
    BY <1>0, RunSafe DEF RunInv, StoresGrow
<1>3. ~ Killed(c) /\ \A p \in Device : ~ SkipTarget(c, p)
    BY <1>1 DEF Killed, SkipTarget
<1>4. QED
    BY <1>0, <1>1, <1>2, <1>3, RunCases

LEMMA WaitingNext ==
    ASSUME CleanInv, [RunNext]_allVars, NEW c \in Client
    PROVE  WaitingInv(c)'
<1>0. TypeInv /\ RunVarsType /\ WaitingInv(c) /\ host[c] \in Device
    BY ClientAssumption DEF CleanInv, MailboxInv, RunInv, SafeInv
<1>1. Ids(RowsOf(entries[host[c]], host[c]))
          \subseteq Ids(RowsOf(entries'[host[c]], host[c]))
    BY <1>0, RunGrows DEF Ids, RowsOf
<1>2. \/ waiting'[c] = waiting[c]
      \/ waiting'[c] = {}
      \/ waiting'[c] \subseteq Ids(RowsOf(entries[host[c]], host[c]))
    <2>1. CASE BeginRun(c)
        BY <1>0, <2>1 DEF BeginRun, RunVarsType
    <2>2. CASE Finish(c) \/ Killed(c)
        BY <1>0, <2>2 DEF Finish, Killed, EndRun, RunVarsType
    <2>3. CASE \/ SameRun(c) \/ CountCursor(c) \/ CountPending(c) \/ TargetOver(c)
               \/ \E p \in Device : TakeTarget(c, p) \/ SkipTarget(c, p)
        BY <2>3 DEF SameRun, CountCursor, CountPending, TargetOver, TakeTarget,
                    SkipTarget
    <2>4. QED
        BY <1>0, <2>1, <2>2, <2>3, RunCases
<1>3. QED
    BY <1>0, <1>1, <1>2 DEF WaitingInv

LEMMA PulledNext ==
    ASSUME CleanInv, [RunNext]_allVars, NEW c \in Client
    PROVE  PulledInv(c)'
<1> SUFFICES ASSUME Running(c)', faults' = 0, NEW p \in Device, PullOver(c, p)',
                    AllPullable(p)'
             PROVE  progress'[c].pull_ok /\ Had(c, p)'
    BY DEF PulledInv
<1>0. /\ MailboxInv /\ RunInv /\ TypeInv /\ RunVarsType /\ ClientType
      /\ RunShape(c) /\ OfferInv(c) /\ PulledInv(c) /\ host[c] \in Device
      /\ host[c] \notin targets[c]
    BY TypeGroups, ClientAssumption DEF CleanInv, MailboxInv, RunInv, SafeInv, TypeInv
<1>1. /\ faults = 0 /\ ~ Fault /\ seen[host[c]] \subseteq seen'[host[c]]
      /\ AllPullable(p)
    BY <1>0, CleanCases DEF AllPullable, Pullable
<1>2. ASSUME Running(c), PullOver(c, p), offered'[c] = offered[c],
             progress[c].pull_ok => progress'[c].pull_ok
      PROVE  progress'[c].pull_ok /\ Had(c, p)'
    BY <1>0, <1>1, <1>2 DEF PulledInv, Had
<1>3. CASE (SameRun(c) \/ TargetOver(c)) /\ Goes(c)
    <2>1. /\ todo'[c] = todo[c] /\ result'[c] = result[c]
          /\ offered'[c] = offered[c]
        BY <1>3 DEF SameRun, TargetOver
    <2>2. /\ progress[c].pull_ok => progress'[c].pull_ok
          /\ EndOfPull(c) => progress'[c].pull_ok
        <3>1. EndOfPull(c) => progress'[c].pull_ok
            BY <1>0 DEF EndOfPull, mark_pull_ok, RunVarsType, Progress
        <3>2. EndOfPush(c) /\ progress[c].pull_ok => progress'[c].pull_ok
            <4>1. (push_needed[c] = "yes") \in BOOLEAN
                OBVIOUS
            <4>2. QED
                BY <1>0, <4>1, ProgressSteps DEF EndOfPush
        <3>3. QED
            BY <1>3, <3>1, <3>2 DEF SameRun, TargetOver
    <2>3. CASE PullOver(c, p)
        BY <1>2, <2>1, <2>2, <2>3 DEF Running
    <2>4. CASE ~ PullOver(c, p)
        <3>1. p \in targets[c] \ todo[c] /\ p = target[c] /\ pc[c] \notin PushPhase
            BY <2>1, <2>4 DEF PullOver
        <3>2. pc[c] \in PullPhase
            BY <1>0, <3>1 DEF RunShape, PullPhase, PushPhase, ClientType
        <3>3. pc'[c] \notin PullPhase
            BY <1>3, <3>1, <3>2 DEF PullOver, Goes, PullPhase, PushPhase
        <3>4. EndOfPull(c)
            BY <1>0, <1>1, <3>1, <3>2, <3>3, PullLeaves, PullCannotFail
        <3>5. Had(c, p)
            BY <1>0, <3>1, <3>4 DEF EndOfPull, PullDone, OfferInv
        <3>6. QED
            BY <1>1, <2>1, <2>2, <3>4, <3>5 DEF Had
    <2>5. QED
        BY <2>3, <2>4
<1>4. CASE BeginRun(c)
    BY <1>0, <1>4 DEF BeginRun, RunVarsType, PullOver
<1>5. CASE CountCursor(c)
    <2>1. /\ pc[c] = "push_begin" /\ pc' = pc /\ target' = target
          /\ todo' = todo /\ progress' = progress /\ offered' = offered
        BY <1>5 DEF CountCursor, peerSyncVars, vars, clientVars
    <2>2. QED
        BY <1>0, <1>2, <2>1 DEF PullOver, RunShape
<1>6. CASE CountPending(c)
    <2>1. /\ pc[c] = "push_begin" /\ pc' = pc /\ target' = target
          /\ todo' = todo /\ offered' = offered
        BY <1>6 DEF CountPending, peerSyncVars, vars, clientVars
    <2>2. progress'[c].pull_ok = progress[c].pull_ok
        BY <1>0, <1>6, Counting
    <2>3. QED
        BY <1>0, <1>2, <2>1, <2>2 DEF PullOver, RunShape
<1>7. ~ Finish(c)
    BY <1>0 DEF Finish, EndRun, RunVarsType, Running
<1>8. ASSUME NEW q \in Device, TakeTarget(c, q)
      PROVE  progress'[c].pull_ok /\ Had(c, p)'
    <2>1. /\ pc[c] = "idle" /\ pc'[c] = "pull_wait" /\ target'[c] = q
          /\ todo'[c] = todo[c] \ {q} /\ q \in todo[c] /\ result' = result
          /\ progress' = progress /\ offered' = offered
        BY <1>0, <1>8 DEF TakeTarget, StartSync, RunVarsType, ClientType
    <2>2. PullOver(c, p)
        BY <1>0, <2>1 DEF PullOver, RunShape, PushPhase
    <2>3. QED
        BY <1>2, <2>1, <2>2 DEF Running
<1>9. QED
    BY <1>0, <1>3, <1>4, <1>5, <1>6, <1>7, <1>8, CleanCases

LEMMA PushedNext ==
    ASSUME CleanInv, [RunNext]_allVars, NEW c \in Client
    PROVE  PushedInv(c)'
<1> SUFFICES ASSUME c \in PushClient, faults' = 0, AllPushable(host[c])',
                    NEW p \in Device, PushOver(c, p)'
             PROVE  waiting'[c] \subseteq seen'[p]
    BY DEF PushedInv
<1>0. /\ MailboxInv /\ RunInv /\ TypeInv /\ RunVarsType /\ ClientType
      /\ RunShape(c) /\ WaitingInv(c) /\ PushedInv(c)
      /\ host[c] \in Device /\ host[c] \notin targets[c]
    BY TypeGroups, ClientAssumption DEF CleanInv, MailboxInv, RunInv, SafeInv, TypeInv
<1>1. /\ faults = 0 /\ ~ Fault /\ seen[p] \subseteq seen'[p]
      /\ AllPushable(host[c])
    BY <1>0, CleanCases DEF AllPushable, Pushable
<1>2. ASSUME PushOver(c, p), waiting'[c] = waiting[c]
      PROVE  waiting'[c] \subseteq seen'[p]
    BY <1>1, <1>2 DEF PushedInv, CleanInv
<1>3. CASE (SameRun(c) \/ TargetOver(c)) /\ Goes(c)
    <2>1. todo'[c] = todo[c] /\ waiting'[c] = waiting[c]
        BY <1>3 DEF SameRun, TargetOver
    <2>2. CASE ~ PushOver(c, p)
        <3>1. p = target[c] /\ p # target'[c] /\ p \in targets[c]
            BY <2>1, <2>2 DEF PushOver
        <3>2. pc[c] # "idle" /\ pc'[c] = "idle"
            BY <1>3, <3>1 DEF Goes
        <3>3. ASSUME pc[c] \in PullPhase PROVE FALSE
            <4>1. EndPull(c)
                BY <1>0, <1>1, <3>2, <3>3, PullLeaves DEF PullPhase
            <4>2. QED
                BY <1>0, <3>2, <4>1 DEF EndPull, EnterPhase, ClientType
        <3>4. pc[c] \in PushPhase
            BY <1>0, <3>2, <3>3 DEF PullPhase, PushPhase, ClientType
        <3>5. EndOfPush(c)
            BY <1>0, <1>1, <3>2, <3>4, PushLeaves, PushCannotFail DEF PushPhase
        <3>6. Ids(RowsOf(entries[host[c]], host[c])) \subseteq seen[target[c]]
            BY <1>0, <3>5, EmptyBatch DEF EndOfPush, PushDone
        <3>7. QED
            BY <1>0, <1>1, <2>1, <3>1, <3>6 DEF WaitingInv
    <2>3. QED
        BY <1>2, <2>1, <2>2
<1>4. CASE BeginRun(c)
    BY <1>0, <1>4 DEF BeginRun, RunVarsType, PushOver
<1>5. CASE CountCursor(c) \/ CountPending(c)
    <2>1. /\ target' = target /\ todo' = todo /\ waiting' = waiting
        BY <1>5 DEF CountCursor, CountPending, peerSyncVars, vars, clientVars
    <2>2. QED
        BY <1>2, <2>1 DEF PushOver
<1>6. CASE Finish(c)
    BY <1>0, <1>6 DEF Finish, EndRun, RunVarsType
<1>7. ASSUME NEW q \in Device, TakeTarget(c, q)
      PROVE  waiting'[c] \subseteq seen'[p]
    <2>1. /\ pc[c] = "idle" /\ target'[c] = q
          /\ todo'[c] = todo[c] \ {q} /\ waiting' = waiting
        BY <1>0, <1>7 DEF TakeTarget, StartSync, RunVarsType, ClientType
    <2>2. PushOver(c, p)
        BY <1>0, <2>1 DEF PushOver, RunShape
    <2>3. QED
        BY <1>2, <2>1, <2>2
<1>8. QED
    BY <1>0, <1>3, <1>4, <1>5, <1>6, <1>7, CleanCases

LEMMA NeededNext ==
    ASSUME CleanInv, [RunNext]_allVars, NEW c \in Client
    PROVE  NeededInv(c)'
<1> DEFINE Pushing == pc[c] \in PushPhase /\ push_needed[c] = "yes"
<1> SUFFICES ASSUME faults' = 0, AllPushable(host[c])', progress'[c].push_needed
             PROVE  progress'[c].push_ok \/ Pushing'
    BY DEF NeededInv
<1>0. /\ MailboxInv /\ RunInv /\ TypeInv /\ RunVarsType /\ ClientType
      /\ RunShape(c) /\ NeededInv(c) /\ host[c] \in Device
    BY TypeGroups, ClientAssumption DEF CleanInv, MailboxInv, RunInv, SafeInv, TypeInv
<1>1. faults = 0 /\ ~ Fault /\ AllPushable(host[c])
    BY <1>0, CleanCases DEF AllPushable, Pushable
<1>2. progress[c].push_needed => progress[c].push_ok \/ Pushing
    BY <1>0, <1>1 DEF NeededInv
<1>3. (push_needed[c] = "yes") \in BOOLEAN
    OBVIOUS
<1>4. CASE (SameRun(c) \/ TargetOver(c)) /\ Goes(c)
    <2>1. /\ progress'[c].push_needed = progress[c].push_needed
          /\ progress[c].push_ok => progress'[c].push_ok
          /\ push_needed'[c] = push_needed[c]
          /\ EndOfPush(c) /\ push_needed[c] = "yes" => progress'[c].push_ok
        <3>1. EndOfPush(c) =>
                /\ progress'[c].push_needed = progress[c].push_needed
                /\ progress'[c].push_ok = (progress[c].push_ok
                                           \/ push_needed[c] = "yes")
            BY <1>0, <1>3, ProgressSteps DEF EndOfPush
        <3>2. EndOfPull(c) =>
                /\ progress'[c].push_needed = progress[c].push_needed
                /\ progress'[c].push_ok = progress[c].push_ok
            BY <1>0, <1>3, ProgressSteps DEF EndOfPull
        <3>3. QED
            BY <1>4, <3>1, <3>2 DEF SameRun, TargetOver
    <2>2. CASE Pushing /\ pc'[c] \notin PushPhase
        BY <1>0, <1>1, <2>1, <2>2, PushLeaves, PushCannotFail
    <2>3. QED
        BY <1>2, <2>1, <2>2
<1>5. CASE BeginRun(c) \/ Finish(c)
    BY <1>0, <1>5 DEF BeginRun, Finish, EndRun, NewProgress, RunVarsType
<1>6. CASE CountCursor(c)
    BY <1>2, <1>6 DEF CountCursor
<1>7. CASE CountPending(c)
    <2> DEFINE pending == RowsAfter(RowsOf(entries[host[c]], host[c]),
                                    last_pushed_seq[c])
    <2>1. /\ pc[c] = "push_begin" /\ pc' = pc /\ push_needed[c] = "counting"
          /\ push_needed' = [push_needed EXCEPT
                               ![c] = IF pending = {} THEN "no" ELSE "yes"]
          /\ note_push_needed(c, pending # {})
        BY <1>7 DEF CountPending, peerSyncVars, vars, clientVars
    <2>2. (pending # {}) \in BOOLEAN
        OBVIOUS
    <2> HIDE DEF pending
    <2>3. /\ progress'[c].push_needed = (progress[c].push_needed \/ pending # {})
          /\ progress'[c].push_ok = progress[c].push_ok
        BY <1>0, <2>1, <2>2, ProgressSteps
    <2>4. pending # {} => push_needed'[c] = "yes"
        BY <1>0, <2>1 DEF RunVarsType
    <2>5. QED
        BY <1>2, <2>1, <2>3, <2>4 DEF PushPhase
<1>8. ASSUME NEW q \in Device, TakeTarget(c, q) PROVE progress'[c].push_ok
    BY <1>2, <1>8 DEF TakeTarget, StartSync, PushPhase
<1>9. QED
    BY <1>0, <1>4, <1>5, <1>6, <1>7, <1>8, CleanCases

LEMMA CleanInit == RunInit => CleanInv
<1> SUFFICES ASSUME RunInit PROVE CleanInv
    OBVIOUS
<1>1. RunInv
    BY RunInvInit
<1>2. SeenInv
    BY DEF RunInit, Init, SeenInv, Ids
<1>3. ASSUME NEW c \in Client
      PROVE  /\ AnswerInv(c) /\ SentInv(c) /\ AskedInv(c)
             /\ WaitingInv(c) /\ PulledInv(c) /\ PushedInv(c) /\ NeededInv(c)
    <2>1. /\ pc[c] = "idle" /\ result[c] = "none" /\ waiting[c] = {}
          /\ ~ progress[c].push_needed
        BY DEF RunInit, Init, NewProgress
    <2>2. QED
        BY <2>1 DEF AnswerInv, SentInv, AskedInv, WaitingInv, PulledInv, PushedInv,
                    NeededInv, Running
<1>4. QED
    BY <1>1, <1>2, <1>3 DEF CleanInv, MailboxInv

LEMMA CleanNext == CleanInv /\ [RunNext]_allVars => CleanInv'
<1> SUFFICES ASSUME CleanInv, [RunNext]_allVars PROVE CleanInv'
    OBVIOUS
<1>1. MailboxInv'
    BY MailboxNext DEF CleanInv
<1>2. ASSUME NEW c \in Client
      PROVE  WaitingInv(c)' /\ PulledInv(c)' /\ PushedInv(c)' /\ NeededInv(c)'
    BY WaitingNext, PulledNext, PushedNext, NeededNext
<1>3. QED
    BY <1>1, <1>2 DEF CleanInv

\* When a run ends, everything is over that it had to do.
LEMMA FinishedRun ==
    ASSUME CleanInv, NEW c \in Client, Finish(c), faults = 0
    PROVE  /\ \A p \in targets[c] : AllPullable(p) =>
                progress[c].pull_ok /\ Had(c, p)
           /\ AllPushable(host[c]) =>
                /\ progress[c].push_needed => progress[c].push_ok
                /\ c \in PushClient =>
                     \A p \in targets[c] : waiting[c] \subseteq seen[p]
<1>0. /\ RunShape(c) /\ PulledInv(c) /\ PushedInv(c) /\ NeededInv(c)
      /\ targets[c] \in SUBSET Device /\ host[c] \notin targets[c]
    BY ClientAssumption DEF CleanInv, MailboxInv, RunInv
<1>1. /\ Running(c) /\ pc[c] = "idle" /\ todo[c] = {} /\ target[c] = host[c]
    BY <1>0 DEF Finish, RunShape
<1>2. \A p \in targets[c] : PullOver(c, p) /\ PushOver(c, p)
    BY <1>0, <1>1 DEF PullOver, PushOver
<1>3. pc[c] \notin PushPhase
    BY <1>1 DEF PushPhase
<1>4. QED
    BY <1>0, <1>1, <1>2, <1>3 DEF PulledInv, PushedInv, NeededInv

\* A run in which nothing failed by chance has pushed to every target what
\* waited when it began, those it cannot pull from included, and pulled from
\* every target that has nothing too large.
THEOREM RunReachesAll == RunSpec => FaultlessRunReachesAll
<1> DEFINE Reached ==
      \A c \in Client : Running(c) /\ ~ Running(c)' /\ faults' = 0 =>
         \A p \in targets[c] :
           /\ c \in PushClient /\ (\A e \in seen[host[c]] : Pushable(e))
                => waiting[c] \subseteq seen[p]
           /\ (\A e \in seen[p] : Pullable(e))
                => offered[c][p] \subseteq seen[host[c]]
<1>1. CleanInv /\ [RunNext]_allVars => [Reached]_allVars
    <2> SUFFICES ASSUME CleanInv, [RunNext]_allVars, NEW c \in Client,
                        Running(c), ~ Running(c)', faults' = 0
                 PROVE  \A p \in targets[c] :
                          /\ c \in PushClient /\ (\A e \in seen[host[c]] : Pushable(e))
                               => waiting[c] \subseteq seen[p]
                          /\ (\A e \in seen[p] : Pullable(e))
                               => offered[c][p] \subseteq seen[host[c]]
        OBVIOUS
    <2>1. Finish(c) /\ faults = 0
        <3>1. \/ SameRun(c) \/ TargetOver(c) \/ CountCursor(c) \/ CountPending(c)
              \/ \E p \in Device : TakeTarget(c, p)
              => result'[c] = result[c]
            BY DEF SameRun, TargetOver, CountCursor, CountPending, TakeTarget
        <3>2. ~ BeginRun(c)
            BY DEF BeginRun
        <3>3. QED
            BY <3>1, <3>2, CleanCases DEF CleanInv, Running
    <2>2. QED
        BY <2>1, FinishedRun DEF AllPullable, AllPushable, Had
<1>2. QED
    BY CleanInit, CleanNext, <1>1, PTL DEF RunSpec, FaultlessRunReachesAll

LEMMA VerdictNext ==
    ASSUME CleanInv, NoFalseAlarm, [RunNext]_allVars
    PROVE  NoFalseAlarm'
<1> SUFFICES ASSUME NEW c \in Client, result'[c] = "error", faults' = 0,
                    NEW p \in targets[c], AllPullable(p)', AllPushable(host[c])'
             PROVE  FALSE
    <2>1. faults' \in Nat
        BY RunSafe DEF CleanInv, MailboxInv, RunInv, SafeInv, TypeInv, TypeOK
    <2>2. QED
        BY <2>1 DEF NoFalseAlarm, AllPullable, AllPushable, Pullable, Pushable
<1>0. /\ RunVarsType /\ faults = 0 /\ p \in Device /\ host[c] \in Device
      /\ AllPullable(p) /\ AllPushable(host[c])
    BY CleanCases, ClientAssumption
       DEF CleanInv, MailboxInv, RunInv, AllPullable, AllPushable, Pullable, Pushable
<1>1. result[c] # "error"
    BY <1>0 DEF NoFalseAlarm, AllPullable, AllPushable
<1>2. Finish(c)
    <2>1. \/ SameRun(c) \/ TargetOver(c) \/ CountCursor(c) \/ CountPending(c)
          \/ \E q \in Device : TakeTarget(c, q)
          => result'[c] = result[c]
        BY DEF SameRun, TargetOver, CountCursor, CountPending, TakeTarget
    <2>2. ~ BeginRun(c)
        BY <1>0 DEF BeginRun, RunVarsType
    <2>3. QED
        BY <1>1, <2>1, <2>2, CleanCases DEF CleanInv
<1>3. ~ is_success(c)
    BY <1>0, <1>2 DEF Finish, EndRun, RunVarsType
<1>4. QED
    BY <1>0, <1>2, <1>3, FinishedRun DEF is_success

\* A run without a fault reports success, unless no target can be pulled from
\* or an entry of this device is too large to be pushed: no retry, no order of
\* deliveries and no other run makes it fail.
THEOREM RunNoFalseAlarm == RunSpec => []NoFalseAlarm
<1>1. RunInit => NoFalseAlarm
    BY DEF RunInit, NoFalseAlarm
<1>2. QED
    BY <1>1, CleanInit, CleanNext, VerdictNext, PTL DEF RunSpec
=============================================================================
