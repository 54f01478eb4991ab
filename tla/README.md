# Rustory: formal models and proofs

Rustory (`rr`) keeps a shell history in SQLite and synchronises it between the
devices of one user, peer to peer. This directory holds TLA+ models of the
parts of Rustory that keep state, TLC configurations that check them on small
instances, and TLAPS proofs that hold for every instance. Paths below are
relative to the crate: `storage.rs` is `src/src/storage.rs`.

    tlc -workers 2 -config PeerSync_prune.cfg MCPeerSync.tla   # one run
    tlapm PeerSyncProofs.tla                                   # one module's proofs

## 1. Inventory

| component | source | state | operations |
|---|---|---|---|
| local store | `storage.rs` | tables `entries`, `peer_state`, `peer_push_state`, `peer_book` of one SQLite file | insert with dedup, batch reads by cursor, get and set of both cursors, pending count, prune, upsert and list of peers |
| sync engine | `sync.rs` | locals of the pull and push loops; `SyncRunProgress` | pull until empty, push until empty, halving of a batch too large, verdict of a run |
| p2p client | `p2p.rs` 539-1330 | connection, request id, attempt | one run over all targets, requests with timeout and retry, dialling direct or through a relay |
| p2p server | `p2p.rs` 312-465 | known addresses, registration timer | answer pull and push, address events, registration |
| p2p codec | `p2p_codec.rs` | none | size caps, zstd, JSON |
| HTTP transport | `transport.rs`, `http_retry.rs` | none beyond the loops | `GET`/`POST /api/v1/entries`, 413, retries |
| peer discovery | `p2p.rs` 666-821 | `peer_book`, cursors under old keys | targets by hand, by tracker, from the book |
| tracker | `tracker.rs` | table of peers in memory | register, list, expiry |
| background triggers | `cli.rs` 398-447, 1655-1716, 1831-1873 | two marker files | rate-limited upload and prune after `rr record` |
| history import | `history_import.rs`, `core.rs` 72-88 | the history file, which it only reads | parse bash and zsh files, derive ids, insert in batches of 2000 |
| keys and config | `config.rs`, `cli.rs` 684-746 | `config.toml`, `swarm.key`, `identity.key` | check, generate, truncate and fill, read |
| command line | `cli.rs` 225-433, 613-668, 2008-2117 | memory of a running command | `init`, `record`, `import`, `p2p-sync`, `p2p-serve`; which device id each works for |
| hooks, search, relay | `hook.rs`, `search.rs`, `p2p.rs` | none of their own | text, I/O |

**How they interact.** The shell hook runs `rr record` after every command:
one insert, then perhaps a background `rr p2p-sync --push` and a prune. The
watch daemon runs the same sync on an interval. All of them, and the serving
process, are separate processes that share nothing but the database file, the
key files and the markers; each statement on the database is a transaction of
its own, except the insert of a batch, which is one transaction. Clients and
servers exchange two requests: a pull (cursor, limit) answered by a batch, and
a push (batch) answered by an ack. Every device numbers the rows it stores,
its own and those of others, with a local `ingest_seq`; both cursors a device
keeps per peer are such numbers: `last_cursor` counts in the peer's numbers,
`last_pushed_seq` in its own. Servers register their addresses at trackers,
clients ask trackers for peers and keep what they learn in the peer book.

**What is hard.** Nothing is locked across two statements. The insert of a
batch and the save of its cursor are two transactions, and the process can die
between them. Two syncs of one device write each other's cursors. A request
can be handled after its sender gave it up. Prune reads two floors and then
deletes. Batches can be too large on either side of either transport. A power
loss may undo commits of one device while other devices keep cursors that
count them. Config and key files are truncated and then filled, and read by
every command that starts in between; five commands choose the device id they
work for in three different ways, from flags, environment, config or host name.
An import derives ids from the position of a command in a file that a shell
appends to and trims.
Registrations overlap and overtake each other, trackers lose their table.
Marker files are read and written by every shell at once. PROJECT.json lists
each such hazard with its line and the properties that watch it.

**What makes each part correct.**
- *Store and sync*: a cursor never passes a row that did not arrive (nothing
  would ever ask for it again); one row per entry; prune spares what slower
  peers need; everything recorded reaches everyone; echoes stop.
- *A run*: the result it reports is what it did, and one failing target does
  not affect another.
- *Tracker and registration*: a running server stays listed with its current
  addresses, a stopped one disappears.
- *Discovery*: never this device, never another user's; what was once listed
  is found again when trackers are down; cursors taken over stand for rows
  that were transferred.
- *Triggers*: no job is held back for ever, none runs too often.
- *Keys and config*: a complete key file keeps its key, a server can start
  again, the device id stays what it was; what was stored under the id of the
  config is pushed, unless a flag or the environment says something else.
- *Import*: every command of the file once, with its own time.

## 2. Modules

    LocalStore ── PeerSync ─┬─ MCPeerSync ─────────────┬───────────────┐
        │            │      ├─ HttpTransport ─ SyncRun ─ MCSyncRun     │
        │            │      └─ PowerLoss ─────────────────────── MCPowerLoss
        │       Replication (abstract; PeerSync instantiates it)
                  PeerSyncProofs ─┬─ PowerLossProofs
                                  └─ SyncRunProofs
    HistoryFile ── Host ─┬─ MCHost
                         └─ HostProofs
    Discovery ─┬─ MCDiscovery        Registration ─ RegistrationProofs
               └─ DiscoveryProofs    Dialing ── DialingProofs
                                     Triggers ── TriggersProofs

| module | models |
|---|---|
| `LocalStore` | The tables as sets of rows and every statement on them as an operator: `insert_entries` with `INSERT OR IGNORE` and `AUTOINCREMENT` (an ignored row uses up a number, a deleted number never comes back), `pull_since_cursor`, the floors and the `DELETE` of prune. |
| `PeerSync` | Devices with a store each, any number of client processes per device, the server, messages under way, prune. 24 actions. |
| `Replication` | What synchronisation promises: record once, copy only what its holder had, prune locally, everyone learns everything. |
| `HttpTransport` | The steps of `PeerSync` that differ over HTTP: server-side 413, client-side body limit, no cap on what is sent. |
| `SyncRun` | One run over all targets by either transport, with the pending count before each push, `SyncRunProgress` and the reported result. |
| `Dialing` | One `P2pClient` and its swarm: dials of both paths, the attempts of one request, connections that are lost or being closed and still listed, hole punches, late events. |
| `Registration` | Serving devices, their registration tasks, and trackers with a TTL, in discrete relative time. |
| `Triggers` | `rr record` processes, both jobs, marker files that are truncated and then filled, a clock that may be set back. |
| `Discovery` | `build_manual_targets` and `discover_targets` of several processes over one peer book, with the takeover of cursors from multiaddr keys. |
| `PowerLoss` | `PeerSync` whose devices may lose power: the store falls back to an earlier commit, or to nothing, with all its tables, and every process of the device ends. |
| `HistoryFile` | A history file as its lines, both parsers, `--limit`, and the ids of imported commands, as operators. |
| `Host` | Any number of commands of one machine over `config.toml`, the key files, the database and the history file, each step of a write visible to the others. |
| `MC...` | Instances for TLC: names of devices and entries, symmetry. |
| `...Proofs` | Section 6. |

**State and actions.** Variables carry the names of the code: `entries[d]`,
`peer_state[d][p]` (0 is no row), and for a client the locals of its loop,
`cursor`, `batch_limit`, `attempt`, `request_id`, `next_cursor`. An action is
one database transaction or one message handled, together with whatever the
code does before the next one; so the pull loop is `StartSync` (read the
cursor, send), `PullInsert` (answer, insert), `SaveCursor` (save, send the
next request), `PullDone` (empty batch). `pc` names the place in between:
`pull_wait`, `pull_save`, `push_begin`, `push_read`, `push_wait`, `push_save`.
Retry, timeout, failure and death of a client are actions of their own, as are
loss and late handling of a message. In `Host` the memory of a command is
`cmd`, `pc`, `on` (the file it is at), `arg` (its `--device-id`), `loaded` (the
`device_id` of the config it read), `value` (what it is about to write) and `todo` (the entries of an
import); `fs::write` is two steps, `Create` and `Fill`, and every command
begins with `Start`, which reads the config. `map` in PROJECT.json gives the lines of
every definition.

**Abstractions.** An entry is an id with fixed device, time and size; its text
never influences control. A vector of entries is a set of rows, since rows are
always read in the order of `ingest_seq`. Request ids are reused once no
message carries them. Time in `Registration`, `Triggers` and `Discovery` is
the age of things, so that states repeat. Addresses matter only in
`Registration`. In `Host` a config is its `device_id` line, a key its number,
an id the parts it is a digest of (uuid v5 is injective on them), and a line of
a history file is told apart by the timestamp and the command in it. Variables
marked *History* (`seen`, `floor_peers`, `offered`,
`waiting`, `owed`, `registered`, `quiet`, `due`, `listed`, `covered`,
`undone`, `revived`, `restarts`, `settled`, `torn`, `last_id`, `moved`, `disturbed`,
`left`, `claims`) are read by properties only.

## 3. Runs

TLC's exhaustive runs; all are listed in PROJECT.json with their properties.

| run | instance | checks |
|---|---|---|
| `power_loss` | devices a, b; two entries; two clients on a and one fault, or one client on each and one power loss, or one client, a prune by a and a power loss; 2 attempts | two processes overwrite each other's cursors without a gap; after a power loss a cursor passes exactly the rows that were numbered again, brought back or lost, and the other direction repairs it |
| `prune` | a with peers b and c; three entries, one of them too large for a response; one prune or one fault anywhere | no gap in either cursor when rows disappear, the push floor is respected, cursors only grow with one process per device, refinement of `Replication!Spec` |
| `hub` | a and c sync with b; three entries; limit 2, push cap 1 | under fairness: refinement of `Replication!FairSpec`, batches are halved until they arrive, the numbering of echoes is bounded |
| `sync_run` | runs of a over b and c by p2p or HTTP; three entries; one fault; batches too large for push and for pull | reported success means delivered and received; no false alarm; a failing target does not keep others from being served |
| `registration` | one server, two trackers of which the second is reliable; two address events, one fault | stays listed, overtaken registrations are repaired within a period and two rounds of calls, eventually fresh, eventually gone |
| `triggers` | two shells, both jobs, interval 2, one fault, clock set back by 1 | a job is skipped only within its interval; early starts only by the race on the marker; both jobs succeed again and again |
| `discovery` | two processes, peers me, p (same user) and q (other user), two trackers, one failure | targets, fallback and cursor takeover |
| `dialing` | one client, every set of addresses and of paths that lead to the peer, a peer that answers or is silent, 4 attempts, 3 dials of a path, 2 faults | the relay comes last and does come, one fault never fails a call, every call returns |
| `host` | two processes in one of seven menus: first starts of `init`, `sync` and a server; a set-up during record and sync; record and a daemon with `RUSTORY_DEVICE_ID`, with and without a set-up; two set-ups; two imports; an import of a file that is trimmed | keys settle, a server gets to run again, the device id is kept, a push leaves nothing of the id in the config behind unless a flag, a variable or a host name decided, imports are complete and add nothing twice |
| `pull_size`, `prune_race` | smallest instances | section 5: what documents or comments say and the code does not do |

Every passing property has a mutant in PROJECT.json: the named definition with
a plausible bug (`..._Inclusive`, `..._Newest`, `..._IgnoreOk`, ...) makes TLC
report that property violated under the same configuration.

**Bounds and why they are enough.** `Limit = 1` makes every row a batch of its
own, so two rows of a device give a first, a middle and a last round; halving
needs `Limit = 2`. One fault (`MaxFaults`) may be any failure at any place:
loss of any message, a timeout although the answer is under way, a failed
statement, the death of a client; with two clients the second supplies the
interference a second fault would. In `power_loss` the one fault may be the
power loss; the checkpoint it falls back to (`synced`) is any commit, and
there is one per loss, since only the last before it matters. Cursors fall
back with the rows, so what matters is how far the two are apart, and two
entries give a store that lost none, one or both. Only there `MaxBoth = 2`
lets a prune and a power loss meet, and `Pruning` leaves the prune to the
crews of a single client; its entries are alike, so TLC may exchange them
(`LossSymmetry`). `Attempts = 2` has one retry and one last
attempt. One prune (`MaxPrunes`) has three steps that interleave with
everything else; `MaxBoth = 1` makes it one prune or one fault in a behaviour of
`prune`; the two together are left to the proofs of section 6, which hold for
all bounds.
`KeepRecent` and `Cutoff` contain a value that protects and
one that does not (`power_loss` leaves that to `KeepRecent`). `RequestId` bounds the messages a client has under way; in
`sync_run` it is a single id, so late messages do not overlap the next
request there. Times (`Ttl = 4`, `Period = 2`,
`CallTime = 1`; `Interval = 2`; `MaxAge = 1`) are the smallest with the order
of the real ones: the TTL covers a period and the calls, the interval is longer
than a stall and than what the clock is set back in `triggers` (the theorems about
`Triggers` hold for any clock).
In `registration` the address events (`MaxEvents = 2`) are what lets two tasks
with different addresses overlap. `Discovery` has `Carried` (peers with old
cursors) and `Reachable` (peers that transfer) restricted to p, the peer the
takeover is about. In `host` a menu names commands that can disturb each
other through a file; the pairs left out share only the database, where every
insert is one transaction.
`BATCH = 2` with `MaxLines = 3` makes an import of two batches, `Limits` has
one below and one above the length of a file, one command is typed twice, one
is skipped (`rr`), and the shell trims one (`MaxTrims`). The death of a process
(`MaxFaults = 1`) may be anywhere, also in the middle of a write; `HOSTNAME` is
in the environment of p1 only, as for a shell and a daemon. `device_env` gives
the daemon p2 a `RUSTORY_DEVICE_ID` of its own, as the templates of
docs/daemon.md do, once the same as in the config and once another one, and
`flags` has `--device-id` with and without a value.

In `dialing` every wait can end in all its ways, and `RequestId` has an id for
every request that can be left over. `FaultsTolerated` says what a fault costs:
the attempt it hits, and one on each of up to two connections that
`disconnect_peer_id` is closing but the swarm, not polled during the backoff,
still lists. The bound is tight: with the default of three attempts one fault
can fail a call to a peer that answers, when the hole punch had left two
connections, and with four it cannot; the run has four attempts and two faults,
so calls do fail in it.

## 4. Fairness

- `PeerSync!FairSpec`: weak fairness for each client's and server's own next
  step (a tokio task that is ready runs, a message that is not lost is
  handled) and strong fairness for taking up each target, because the watch
  daemon (`cli.rs` 310-352) goes through all targets on every interval, whatever
  failed before. Faults, recording and pruning are never forced; faults are
  bounded, prunes are 0 in `hub`. `SyncRun` is the justification for the
  strong part: a run takes every target once and ends, and
  `FaultlessRunReachesAll` says what it achieved.
- `Registration!FairSpec`: time passes, due ticks and calls happen, a crashed
  tracker is restarted by its service manager. A stopped server need not
  return and a late request need not be handled.
- `Triggers!FairSpec`: processes go on, uploads end, time passes, and commands
  keep being recorded, since the triggers have no clock of their own.
- `Host!FairSpec`: a process goes on through its files (`FileStep`: no step of
  it waits for anything), and a service manager starts the server again
  whenever it ended. That other commands are started, that a server is stopped
  and that anything is recorded is not forced.
- `Dialing!FairSpec`: a dial, an answer and a backoff are each awaited under a
  timer of tokio, the swarm reports a connection that was closed, and a peer
  that answers at all does so. Calls are not forced, and neither are faults.
- `Discovery`, `SyncRun` and `PowerLoss` state safety only.

## 5. Where code and documents differ

1. `pull_size`: docs/p2p.md:29 says that sync lowers the limit by itself when
   a message exceeds a cap. For pulls it does not: the server's codec refuses
   the response, the `InboundFailure` is ignored (p2p.rs:414), and the client,
   which sees a closed stream, asks again with the same limit for ever.
   HTTP behaves alike (`HttpPullTooBig`): the 10 MiB limit of
   `into_string` is not recognised as too large.
2. `prune_race`: the comment at storage.rs:503 says that rows the slowest peer
   with a cursor has not received are kept. The floor is read in a statement
   of its own (storage.rs:439); the first push of a new peer in between is not
   accounted for.

Not findings: prune waits only for peers that have a push cursor
(storage.rs:503, and the test at storage.rs:1078), so entries that a new peer
has not been pushed yet may be deleted. And docs/hook.md:23 calls the upload
interval a minimum, but two shells that record at the same moment may both
start an upload.
`EarlyOnlyWhileMarking` says that this race is the only way to start early,
as long as the clock is not set back by an interval: a shell that read the clock
before finds a marker written after, and takes it for an interval old.

The comment at p2p.rs:694 says that peers given by hand are cached as fallback
for a dead tracker. They are cached without a user id (p2p.rs:698), which also
replaces the one a tracker had supplied, and the fallback selects by user id:
no run shows it, but `ListedPeersFallBack` has to except them (`listed` is
reset in `CacheManual`).

No document contradicts what follows, but the properties of `PowerLoss` and
`Host` had to make room for it:

- After a power loss a peer's pull cursor passes rows that were numbered again,
  and rows whose delete was lost, which come back below the cursor of a peer that
  found them gone (`PullGapOnlyRenumbered`), and a push cursor covers rows the peer lost
  (`PushGapOnlyUndone`). Two devices that both pull and push make it up
  (`OneWayLeft`); a device that only pulls does not.
- `rr record` and `rr import` take the device id from `--device-id`,
  `RUSTORY_DEVICE_ID`, the config and the host name, in this order, and
  `rr p2p-sync` from all but the first. The templates of docs/daemon.md (66, 119)
  set the variable for the daemon only: where it differs from the config, what
  the shell records is never pushed, and the sync reports success.
  `LeftOnlyMisnamed` says that a flag or variable that says something else than
  the config is one of three ways to lose entries (`Overrides`). Another is that
  nothing sets the id: then `rr record` has the `--hostname` of the hook, and
  `rr p2p-sync` has `HOSTNAME`, which shells do not export. The third is that the
  id in the config was changed (`moved`).
- Of two processes that both generate a key, the first goes on with one that the
  second has replaced in the file; a server then runs under a peer id it will not
  have after its next start. `KeySettles` is about the file.
- A command that starts while `rr init --force` has truncated the config takes
  it for no config; a second `rr init` then even writes another id
  (`disturbed` in `IdKept`). Two inits at once may leave the end of the longer
  text behind the shorter one, and then no command starts, `rr init --force`
  included.
- A key file whose writer died between the two steps of `fs::write` stays
  empty, and every start refuses it until it is removed by hand (`torn` in
  `ServesUnlessTorn`).
- Once a shell has trimmed its history file, an import stores the commands
  again that it had imported, under new ids; and with the index of a trimmed
  command a later one may take its id (`trims = 0` in `ImportExact`).

## 6. What is proved

For all devices, clients, entries, limits, attempts and bounds that satisfy
`ClientAssumption`, `EntryAssumption` and `BoundAssumption` (hosts and targets
are devices, a device is not its own target, `device_id`, `ts` and `size` are
functions into devices and numbers, `Limit` and `Attempts` are positive, the
other bounds are numbers), and
for the modules named in parentheses under the assumptions given below:

| theorem | says |
|---|---|
| `TypeCorrect` | `Spec => []TypeOK` |
| `PullCursorSafe`, `PushCursorSafe` | no saved cursor passes a row that did not arrive |
| `EntriesUnique` | one row per entry and per number |
| `PruneSafe` | prune respects the push floor it read |
| `Refinement` | `PeerSync!Spec` implements `Replication!Spec` |
| `KeysSettle` (`Host`) | a complete key file that nobody is about to write keeps its key |
| `InitKeepsId` (`Host`) | the device id in the config changes only by `--device-id`, or by an init that met another one or an empty config |
| `SyncLeavesOnlyMisnamed` (`Host`) | a push leaves only what was stored, or is pushed, under a host name or under a flag or variable that differs from the config, or under an id changed since |
| `OwnTimestamps` (`Host`) | a command read from a history file has the time the shell wrote for it |
| `ImportsExact` (`Host`) | while the history file only grows, imports store no command twice for a device, and one that succeeds stored all it read |
| `CursorsAdvance` | with one process per device no saved cursor moves back |
| `EchoesDieOut` | with one process per device, no fault and no prune, a device numbers its own entries, each row of the peers it pulls from and each own row of those that push to it, once |
| `RegisteredStaysListed` (`Registration`) | a server that registered stays listed at every tracker that answers |
| `ListedAddrsFresh` (`Registration`) | a period and two rounds of calls after the last change, with its present addresses |
| `ChoosesOwnDevices` (`Discovery`) | whom a run may target |
| `FallsBackOnListed` (`Discovery`) | a run that finds nothing leaves out no peer listed lately |
| `TakeoverCovered` (`Discovery`) | a cursor taken over passes nothing that was not transferred |
| `NoDialRefused`, `AllPathsTried` (`Dialing`) | nothing is listed while the client dials; the relay comes after all direct dials, and no call gives up dialling before all dials of all its paths |
| `RegistrationTypes`, `DiscoveryTypes`, `DialingTypes` | `Spec => []TypeOK` of these modules |
| `PullGapCause` (`PowerLoss`) | when stores fall back, a pull cursor passes only rows that were numbered again or brought back |
| `PushGapCause` (`PowerLoss`) | and a push cursor covers only rows that the peer stored once and lost |
| `OneWayIsLeft` (`PowerLoss`) | while one device only has fallen back, each of its own entries and of its peers' still travels one way, pull or push |
| `LossEntriesUnique` (`PowerLoss`) | one row per entry and per number all the same |
| `SkipsAreRecent` (`Triggers`) | no job is held back longer than its interval and what the clock was set back |
| `EarlyRunsAreMarking` (`Triggers`) | no job runs early but while another shell is about to write its marker |
| `FaultsAreTolerated` (`Dialing`) | what a fault may cost: a third of the attempts of a call, one dial of a path |
| `RunSuccess` (`SyncRun`) | a run that reports success did so: what one of its targets had is here, and what was pending for one of them, if anything was for any, is there |
| `RunNoFalseAlarm` (`SyncRun`) | a run without a fault reports an error only if no target can be pulled from, or an own entry cannot be pushed |
| `RunReachesAll` (`SyncRun`) | and it has, when it ends, pushed what waited to every target and pulled from every one it can pull from |
| `LossTypeCorrect`, `TriggersTypeCorrect`, `RunTypeCorrect`, `HostTypeCorrect` | `[]TypeOK` of these modules |
| `PullIsGapless`, `InsertUnique` | what a batch read returns; that an insert keeps keys unique |

**The argument.** None of the invariants is inductive alone; the proofs build
three layers, each assuming the one below.

1. `TypeInv` = `TypeOK`, `StoreInv` and `BatchInv`: tables are finite and numbered
   from 1 to at most `sqlite_sequence`, batches in messages and in client
   memory are finite. Without finiteness neither `Min`, `Max` nor the rank of
   a row mean anything, so types need it.
2. `SafeInv`: not only the saved cursors but every cursor on its way to be
   saved is covered. For a client: the rows of the peer up to its `cursor` are
   stored here; once a batch is inserted, up to `next_cursor`. For a message
   under way: a batch *carries* the rows between the cursor of the request and
   its `next_cursor`. This last part is what makes late answers harmless, and
   is stated only for the current request of a client, since the answer of an
   older one is skipped; that is where the proof uses the comparison of
   request ids. The delete of a row keeps all of it, an insert because
   numbers only grow past `sqlite_sequence`.
3. `UniqueInv` (batches unique as well as tables), the floor invariant (every
   peer in `floor_peers` has stored all own rows up to `pushed_floor`) and
   `OriginInv` (what a message or a client holds was held by its sender) give
   `EntriesUnique`, `PruneSafe` and the step simulation of `Refinement`.

`PeerSyncProofs` begins with the lemmas about the operators: a batch read returns
all rows between the cursor and its last row (`PullIsGapless`, from
`RankMonotone`) and is empty only when none is left (`PullExhausts`), what `insert_entries` adds and keeps, that `MIN` over the
push cursors is below each of them (`PushedFloor`). One case lemma per group
of actions (`LocalNext`, `MailNext`, `CursorNext`, `StoreNext`, ...) then
carries each invariant through `Next`.

`EchoesDieOut` has hypotheses of its own: finitely many devices and clients,
`OneProcess`, `MaxFaults = 0`, `MaxPrunes = 0`; the run `hub` satisfies them.
With two processes on a device, or a push that is stored but not answered, the
same row may be numbered twice. `CalmInv` adds to `SafeInv` that the rows of an
answer or of a batch pushed lie after the cursor of the client and not after
its next one (`PullFresh`, `PushFresh`), and that a push under way is the one
its client waits for, not answered yet (`OnePush`). `PullTaken` and `PushTaken`
are the rows on offer that a cursor has passed or is about to; `NumberInv` says
that `sqlite_sequence` counts no more than them and the own entries.
`NumberCases` has what a step can number: one own entry, or rows that were not
taken before and are now (`PullGain`, `PushGain`).

`HostProofs` needs only `HostAssumption` and `HistoryAssumption`, and holds for any number of processes
and any menus. `KeySettles` follows from `SettledInv`: a settled file is not
empty, and no process is at `create` or `fill` of it, which stays so because a
process turns to `create` only when it finds no file. `IdKept` needs `IdInv`:
the config holds what was last written, an undisturbed init carries the id of
the config it read (`IdCarried`), and two inits that overlap both know of the
other (`InitsDisturbed`), since the later one sees the earlier and marks it.
`LeftOnlyMisnamed` needs `LeftInv`: while the id was not moved, every id
that a process loaded is `last_id` (`Known`), hence every id of a row or a push
whose `Source` is the config (`RowsKnown`, `FromConfig`), however long a daemon
has held it. An entry is left behind when the two ids differ (`LeftKnown`), so
that one of them is not `last_id` and came from somewhere else.

What is read from a history file is a matter of recursive functions over its
lines: the loop of the bash parser (`BashRead`) and that of the import
(`Imported`). `Recursion` says that such functions exist (`BashReadSteps`,
`ImportedType` for these two). `UpTo` is the induction over their arguments: a
set that holds 0, and n + 1 with every n, holds all numbers up to the length of the file,
by the least of those it would lack. `HistoryInv` is how a file is laid out, whatever
the shell appends and trims: a command has its time in its own line (zsh) or in
the one above it (bash), no timestamp stands for itself, and the last line of a command
is older than those that follow. From it `ParsedRight` (`ReadFrom`: the records
of the first n lines, one after the other, each with its own index and time) and
`OwnTimestamps`.

For `ImportsExact`, `ParsedGrows`: what is appended to a file adds records and
changes none. So while nothing was trimmed, every row of an import and every
entry one is about to insert is the one of a record of the file as it is now
(`RowsFromFile`, `TodoFromFile`). Entries of two records have different ids, since the index
is part of them (`EntriesDiffer`), and come from different commands
(`BornDiffer`): nothing is stored twice, and what `INSERT OR IGNORE` passes
over is there already. A trim moves the indices, which is why it is excluded.

`CursorsAdvance` holds when no two clients share a host, which it assumes:
`InStep` says that the cursor a process works with is the saved one and what
it is about to save is larger. With two processes it is false, since both
upserts overwrite whatever is there.

`PowerLossProofs` says of `PowerLoss` what `SafeInv` says of `PeerSync`, of
less: `Firm` are the rows of a device that were neither numbered again nor
brought back, `Had` is all it ever stored, and a cursor is safe when the firm
rows up to it have arrived, or the rows up to it were had. A loss leaves both
intact (`LossEndures`), since it takes firm rows away and adds none. Its
victim gets old cursors together with old rows; that these are safe again
needs the same to be known of every snapshot a loss could bring back
(`LossSnapshots`), which stays so because the others' rows only grow.
`GivenOut` replaces the bound of cursors by `sqlite_sequence`, which a device
that fell back does not keep. For `OneWayIsLeft`, an entry that neither way
reaches is firm for neither direction, so both its owner and its reader have
fallen back (`BothLost`).

`SyncRunProofs` adds the HTTP steps to `SafeInv` and `UniqueInv`: each step of
a run is one of `PeerSync`, an HTTP step that keeps the same invariants
(`RunSafe`), or touches no store (`RunIsSync`). Nothing is deleted in a run
(`RunGrows`), so what was offered to it or counted by it stays there to be
compared with. `OfferInv` says that when the answer to a pull is empty, all the
target offered when its pull began has been stored here: the cursor passes it by
`SafeInv`, and a read that returns nothing has nothing left behind the cursor.
`OwedInv` is about the push: no owed entry without `push_needed`, and
`push_ok` only once a target had all that was counted for it. Both need limits of at least
1 (`LimitInv`), since a batch of limit 0 would be empty for no reason, and the
order in which a run works through its targets (`RunShape`).

What a run does when nothing fails is `CleanInv`. `AskedInv`: an answer to
the current request is under way, and a push is refused only over HTTP for
being too large. It rests on what a batch weighs: `Bytes` counts pairs of a row
and a place in it, so n rows of at most s bytes are at most n * s
(`BytesBound`), a response of rows that are all `Pullable` fits
(`PullableFits`), and a batch halved down to one `Pushable` row does
(`PushableFits`). `PullLeaves` and `PushLeaves` list every way out of a phase
that is no fault; `PullCannotFail` and `PushCannotFail` rule out all but the
empty answer and the empty batch. From there on `PulledInv`, `PushedInv` and
`NeededInv` say of each target that is over that it was done, and
`FinishedRun` that all are over when the run ends.

`TriggersProofs` needs only `TriggersAssumption`. `NotOverdue` and `MarkerFresh`
bound a marker by the last start of its job from both sides. The first holds
because a marker gets the time that was read before its job was found due. The
second needs `CloseReads`: the times of two processes under way differ by what
one of them takes, or by what the clock was set back between their reads.

`RegistrationProofs` needs only `RegistrationAssumption`. `Due` is the latest
time of the next call of a server at tracker t: its next tick and the calls up
to t, or what a task that has not passed t has left. A step keeps it due or
makes the call (`Keeps`, one lemma per action), time brings it nearer
(`AdvanceDue`). `ListedInv` then bounds the age of a record and the time to
that call together by `Period + t * CallTime`, which the TTL covers. For
`FreshWithin`, `StaleInv` says that a task with old addresses is done with t
by `t * CallTime` after the last change, so that from then on every call
brings the present ones, and `FreshInv` that the first of them comes in time.

`DialingProofs` needs only `DialingAssumption`. `DialInv` ties the history of
dials to the loop variable of `dial_with_retries` (`TriedInv`) and adds that
nothing is listed while the client dials: a connection can be lost only when
there is one, and the first one established ends the dialling. `DialFailed`,
`RequestFailed` and `EnsureConnected` treat the three operators most actions
end with. For `FaultsTolerated`, `Paid` lets each fault pay for three attempts:
the one it fails, and one for each connection that `disconnect_peer_id` then
closes and a retry may still find listed. An attempt that fails for no fault
of its own was paid for that way; a hole punch cannot add a connection in
between, since none is open to punch from (`ClosingAlone`). `DialsPaid` counts
the dials of a path that leads to the peer.

`DiscoveryProofs` needs only `DiscoveryAssumption`. `ChoiceInv`: a row of the
book is as its peer registered or has no user, and what a run has at hand is
another device of this user. `ListedInv`: what a tracker listed within `MaxAge`
has a row of that age, which only an address given by hand replaces.
`CopyInv`: a run with a manual target has one, and the cursor it is about to
copy was covered when it was read, which later transfers only add to.

**Only model-checked.** Liveness under fairness (`ImplementsFairReplication`,
`TooLargeAdapts`, `CallEnds`, `ListsSettle`, `BothJobsGoOn`,
`ServesUnlessTorn`) needs `ENABLED`, which is out of reach of the prover. Every
invariant and every action property of a passing run is a theorem. No module
declares a recursive operator, and the induction theorems that take an
operator as parameter, which the provers cannot use, are nowhere cited:
`UpTo` does induction over a set instead.

## 7. Not modelled

- In `Dialing` the length of timeouts and backoffs (`exp_duration`), the single
  addresses of a dial, and a second connection over the same path; libp2p is
  modelled from what the client sees of it. `PeerSync` and `SyncRun` do not
  contain `Dialing`: a call that returns an error is `GiveUp` or `Abort` there.
- In `Host` the second fallback `HOST` of `p2p-sync` and `--hostname` of
  `import`: other values of the same last level of the device id.
- Other settings in the config: the paths of the keys and the database, the
  trackers; what `rr init --force` does to them is text (it renders optional
  settings as comments). Users who remove or replace files by hand.
- What becomes of a peer when a single entry is above the request cap of a push
  (sync.rs:284): `PushTooLarge` has the step, no property is about it. A limit above
  `i64::MAX` (storage.rs:181). Addresses that trackers and the peer book order
  differently (p2p.rs:749); a peer that is gone for good, whose cursor holds
  prune back for ever (storage.rs:582).
- File permissions, blank lines in history files, and a command that looks like
  a timestamp itself (history_import.rs:122 takes a bash comment of digits only
  for the time of the next command).
- What happens after a history file was trimmed, but for `OwnTimestamp`; entries
  that return after a prune, as often as devices prune and pull in turn; the
  end of a server that cannot read its store (p2p.rs:404), for its clients a lost
  request. PROJECT.json lists these hazards without a property.
- Compression, JSON, SQL text, printing, argument parsing, `doctor`, `status`,
  search and the text of hooks: no state that properties could be about.

## 8. Plan

Done, in this order: store and synchronisation with the abstract replication;
its proofs; registration, triggers, discovery; the run over all targets with
both transports; power loss; the commands of one machine over their files,
with the import of a history file, and the proofs about them; the proofs about
registration, discovery and the order of cursors; dialling and its proofs;
the proofs about power loss, triggers and the cost of a fault; the result of a
run over all targets, and of one without a fault; that echoes die out; the types
of `Host`, what it reads from a history file and what imports store. No safety
property of a run is without its theorem. Next:

1. After a trim (`trims > 0`), where `ImportExact` says nothing: that a command
   is stored again at most once per trim, and is taken for another one only if
   both have the same text and time.
