------------------------------ MODULE SyncRun ------------------------------
(***************************************************************************)
(* One run of `rr p2p-sync` (sync_async in src/p2p.rs) or of `rr sync`     *)
(* (sync in src/transport.rs) from its first target to the result it       *)
(* reports, with SyncRunProgress (src/sync.rs).  PeerSync takes one peer   *)
(* at a time, in any order and as often as it likes; here a run goes once  *)
(* through its targets, counts what is to be pushed before each push, and  *)
(* the next run begins when it ended, as under `--watch`.                  *)
(*                                                                         *)
(* A failing pull does not keep the push from being tried, and a failing   *)
(* target not the next one.  The run is a success if some pull was, and    *)
(* some push to a target for which entries were pending, if any were.      *)
(***************************************************************************)
EXTENDS HttpTransport

ASSUME RunAssumption == \A c \in Client : targets[c] # {}

VARIABLES
    transport,   \* "p2p" or "http": which of the two commands is run
    result,      \* what the last run of client c reported, or "running"
    todo,        \* targets the run has still to take
    progress,    \* SyncRunProgress
    push_needed, \* its answer for the current target, "unknown" before
    last_pushed_seq, \* the cursor count_pending_push_entries read
    (* History: what each target had and this device not when the run       *)
    (* began, what this device had and some target not, and the entries     *)
    (* counted as pending for each target.                                  *)
    offered, waiting, owed

runVars == <<transport, result, todo, progress, push_needed, last_pushed_seq,
             offered, waiting, owed>>
peerSyncVars == vars
allVars == <<peerSyncVars, runVars>>

Progress == [pull_ok : BOOLEAN, push_needed : BOOLEAN, push_ok : BOOLEAN]
NewProgress == [pull_ok |-> FALSE, push_needed |-> FALSE, push_ok |-> FALSE]

Nothing == [p \in Device |-> {}]

mark_pull_ok(c) == progress' = [progress EXCEPT ![c].pull_ok = TRUE]

note_push_needed(c, needed) ==
    progress' = [progress EXCEPT ![c].push_needed = @ \/ needed]

\* Mutant of mark_push_ok: a push of nothing counts too.
mark_push_ok_Always(c, needed) ==
    progress' = [progress EXCEPT ![c].push_ok = TRUE]

mark_push_ok(c, needed) ==
    progress' = [progress EXCEPT ![c].push_ok = @ \/ needed]

is_success(c) ==
    /\ progress[c].pull_ok
    /\ \/ c \notin PushClient
       \/ ~ progress[c].push_needed
       \/ progress[c].push_ok

-----------------------------------------------------------------------------
(* The run.                                                                *)

Running(c) == result[c] = "running"

BeginRun(c) ==
    /\ ~ Running(c)
    /\ result' = [result EXCEPT ![c] = "running"]
    /\ todo' = [todo EXCEPT ![c] = targets[c]]
    /\ progress' = [progress EXCEPT ![c] = NewProgress]
    /\ offered' = [offered EXCEPT
         ![c] = [p \in Device |-> Ids(entries[p]) \ seen[host[c]]]]
    /\ waiting' = [waiting EXCEPT
         ![c] = {e \in Ids(RowsOf(entries[host[c]], host[c])) :
                   \E p \in targets[c] : e \notin seen[p]}]
    /\ UNCHANGED <<peerSyncVars, transport, push_needed, last_pushed_seq, owed>>

TakeTarget(c, p) ==
    /\ p \in todo[c]
    /\ StartSync(c, p)
    /\ todo' = [todo EXCEPT ![c] = @ \ {p}]
    /\ push_needed' = [push_needed EXCEPT ![c] = "unknown"]
    /\ UNCHANGED <<transport, result, progress, last_pushed_seq, offered,
                   waiting, owed>>

\* P2pClient::new fails: on to the next target.
SkipTarget(c, p) ==
    /\ pc[c] = "idle"
    /\ p \in todo[c]
    /\ Fault
    /\ todo' = [todo EXCEPT ![c] = @ \ {p}]
    /\ UNCHANGED <<storeVars, cursorVars, clientVars, pullVars, pushVars,
                   pruneVars>>
    /\ UNCHANGED <<transport, result, progress, push_needed, last_pushed_seq,
                   offered, waiting, owed>>

\* count_pending_push_entries, a statement for the cursor ...
CountCursor(c) ==
    /\ pc[c] = "push_begin"
    /\ push_needed[c] = "unknown"
    /\ push_needed' = [push_needed EXCEPT ![c] = "counting"]
    /\ last_pushed_seq' = [last_pushed_seq EXCEPT
                             ![c] = get_last_pushed_seq(host[c], target[c])]
    /\ UNCHANGED <<peerSyncVars, transport, result, todo, progress, offered,
                   waiting, owed>>

\* ... and one for the count.
CountPending(c) ==
    LET pending == RowsAfter(RowsOf(entries[host[c]], host[c]),
                             last_pushed_seq[c])
    IN  /\ pc[c] = "push_begin"
        /\ push_needed[c] = "counting"
        /\ push_needed' = [push_needed EXCEPT
                             ![c] = IF pending = {} THEN "no" ELSE "yes"]
        /\ note_push_needed(c, pending # {})
        /\ last_pushed_seq' = [last_pushed_seq EXCEPT ![c] = 0]
        /\ owed' = [owed EXCEPT ![c][target[c]] = Ids(pending)]
        /\ UNCHANGED <<peerSyncVars, transport, result, todo, offered, waiting>>

Counted(c) == push_needed[c] \in {"no", "yes"}

\* The locals of the run are gone with it.
EndRun(c, how) ==
    /\ result' = [result EXCEPT ![c] = how]
    /\ todo' = [todo EXCEPT ![c] = {}]
    /\ progress' = [progress EXCEPT ![c] = NewProgress]
    /\ push_needed' = [push_needed EXCEPT ![c] = "unknown"]
    /\ last_pushed_seq' = [last_pushed_seq EXCEPT ![c] = 0]
    /\ offered' = [offered EXCEPT ![c] = Nothing]
    /\ waiting' = [waiting EXCEPT ![c] = {}]
    /\ owed' = [owed EXCEPT ![c] = Nothing]
    /\ UNCHANGED transport

Finish(c) ==
    /\ Running(c)
    /\ pc[c] = "idle"
    /\ todo[c] = {}
    /\ EndRun(c, IF is_success(c) THEN "ok" ELSE "error")
    /\ UNCHANGED peerSyncVars

\* The process dies: nobody reports a result.
Killed(c) ==
    /\ Running(c)
    /\ Fault
    /\ EndSync(c)
    /\ EndRun(c, "killed")
    /\ UNCHANGED <<storeVars, cursorVars, request_id, pullVars, pushVars,
                   pruneVars>>

-----------------------------------------------------------------------------
(* One target, as in PeerSync or HttpTransport.                            *)

EndOfPull(c) == PullDone(c) /\ mark_pull_ok(c)

EndOfPush(c) == PushDone(c) /\ mark_push_ok(c, push_needed[c] = "yes")

CommonStep(c) ==
    \/ SaveCursor(c)
    \/ Counted(c) /\ PushBegin(c)
    \/ SavePushed(c)
    \/ SkipResponse(c) \/ RetryPull(c) \/ RetryPush(c) \/ GiveUp(c)

P2pStep(c) == PullInsert(c) \/ PushSend(c) \/ PushTooLarge(c) \/ PushAcked(c)

HttpStep(c) == \/ HttpPullInsert(c) \/ HttpPullTooBig(c)
               \/ HttpPushSend(c) \/ HttpPushAnswered(c)

TransferStep(c) == \/ CommonStep(c)
                   \/ transport = "p2p" /\ P2pStep(c)
                   \/ transport = "http" /\ HttpStep(c)

ServePullStep(m) == \/ transport = "p2p" /\ ServePull(m)
                    \/ transport = "http" /\ HttpServePull(m)

ServePushStep(m) == \/ transport = "p2p" /\ ServePush(m)
                    \/ transport = "http" /\ HttpServePush(m)

FaultStep ==
    \/ \E c \in Client : \/ Abort(c)
                         \/ transport = "http" /\ HttpBodyCut(c)
    \/ \E m \in entries_push : transport = "p2p" /\ ServePushError(m)
    \/ \E m \in Messages : Lose(m)

-----------------------------------------------------------------------------
RunInit ==
    /\ Init
    /\ transport \in {"p2p", "http"}
    /\ result = [c \in Client |-> "none"]
    /\ todo = [c \in Client |-> {}]
    /\ progress = [c \in Client |-> NewProgress]
    /\ push_needed = [c \in Client |-> "unknown"]
    /\ last_pushed_seq = [c \in Client |-> 0]
    /\ offered = [c \in Client |-> Nothing]
    /\ waiting = [c \in Client |-> {}]
    /\ owed = [c \in Client |-> Nothing]

RunStep(c) ==
    \/ BeginRun(c) \/ CountCursor(c) \/ CountPending(c) \/ Finish(c)
    \/ \E p \in Device : TakeTarget(c, p)
    \/ /\ EndOfPull(c) \/ EndOfPush(c)
       /\ UNCHANGED <<transport, result, todo, push_needed, last_pushed_seq,
                      offered, waiting, owed>>
    \/ TransferStep(c) /\ UNCHANGED runVars

RunServe(c) ==
    /\ \/ \E m \in sync_pull : m.client = c /\ ServePullStep(m)
       \/ \E m \in entries_push : m.client = c /\ ServePushStep(m)
    /\ UNCHANGED runVars

RunNext ==
    \/ \E c \in Client : RunStep(c) \/ RunServe(c) \/ Killed(c)
    \/ \E c \in Client : \E p \in Device : SkipTarget(c, p)
    \/ FaultStep /\ UNCHANGED runVars
    \/ \E d \in Device : \E e \in Entry : Record(d, e) /\ UNCHANGED runVars

RunSpec == RunInit /\ [][RunNext]_allVars

-----------------------------------------------------------------------------
(* Properties.                                                             *)

RunTypeOK ==
    /\ TypeOK
    /\ transport \in {"p2p", "http"}
    /\ result \in [Client -> {"none", "running", "ok", "error", "killed"}]
    /\ todo \in [Client -> SUBSET Device]
    /\ progress \in [Client -> Progress]
    /\ push_needed \in [Client -> {"unknown", "counting", "no", "yes"}]
    /\ last_pushed_seq \in [Client -> Nat]
    /\ offered \in [Client -> [Device -> SUBSET Entry]]
    /\ waiting \in [Client -> SUBSET Entry]
    /\ owed \in [Client -> [Device -> SUBSET Entry]]

\* A run that reports success got everything that one of its targets had
\* when it began and, if entries were pending for some target, delivered all
\* that were pending for one of these, whichever targets failed.
SuccessMeansSynced ==
    [][\A c \in Client : Running(c) /\ result'[c] = "ok" =>
         /\ \E p \in targets[c] : offered[c][p] \subseteq seen[host[c]]
         /\ c \in PushClient =>
              \/ owed[c] = Nothing
              \/ \E p \in targets[c] :
                   owed[c][p] # {} /\ owed[c][p] \subseteq seen[p]]_allVars

\* A batch of such entries can always be pulled, one of them pushed.
Pullable(e) == Limit * size[e] <= MaxResponseBytes
Pushable(e) == size[e] <= MaxRequestBytes

\* A run without a fault reports success, unless no target can be pulled
\* from or an entry of this device is too large to be pushed.
NoFalseAlarm ==
    \A c \in Client : result[c] = "error" =>
        \/ faults > 0
        \/ \A p \in targets[c] : \E e \in seen[p] : ~ Pullable(e)
        \/ \E e \in seen[host[c]] : ~ Pushable(e)

\* A run in which nothing failed by chance has, when it ends, pushed to every
\* target what waited when it began, those it cannot pull from included, and
\* pulled from every target that has nothing too large.
FaultlessRunReachesAll ==
    [][\A c \in Client : Running(c) /\ ~ Running(c)' /\ faults' = 0 =>
         \A p \in targets[c] :
           /\ c \in PushClient /\ (\A e \in seen[host[c]] : Pushable(e))
                => waiting[c] \subseteq seen[p]
           /\ (\A e \in seen[p] : Pullable(e))
                => offered[c][p] \subseteq seen[host[c]]]_allVars
=============================================================================
