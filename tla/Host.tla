-------------------------------- MODULE Host --------------------------------
(***************************************************************************)
(* The commands of one machine over the files they share (src/cli.rs,      *)
(* src/config.rs, src/history_import.rs): config.toml, swarm.key,          *)
(* identity.key, the database and the shell's history file.                *)
(*                                                                         *)
(*   init     writes a config unless there is one (or with --force), then  *)
(*            makes the keys that are missing                              *)
(*   serve    p2p-serve: makes or reads both keys, then runs               *)
(*   sync     p2p-sync --push: makes or reads the swarm key, then pushes   *)
(*            the entries of its own device id, with --watch repeatedly    *)
(*   record   stores one entry under the device id of this machine         *)
(*   import   stores the entries of the history file in batches            *)
(*                                                                         *)
(* Every command reads the config first.  fs::write truncates a file and   *)
(* then fills it, so others may find it empty: an empty config counts as   *)
(* no config, an empty key file is an error.  Nothing is locked.           *)
(***************************************************************************)
EXTENDS HistoryFile, FiniteSets

CONSTANTS
    Process,
    Menus,       \* the commands each process may run, one menu a behaviour;
                 \* with "trim" in it a shell shortens the history file
    exported,    \* exported[p]: HOSTNAME is in the environment of p
    device_env,  \* device_env[m][p]: and RUSTORY_DEVICE_ID, with menu m
    flags,       \* flags[m]: values of --device-id used with menu m, or NoId
    Initial,     \* contents config.toml may have at first
    Limits,      \* values of rr import --limit
    MaxRecords,  \* bound: entries recorded
    MaxLines,    \* bound: commands the shell adds to the history file
    MaxTrims,    \* bound: commands trimmed from its front
    MaxFaults,   \* bound: faults
    NoFile,      \* file[f]: there is none,
    Empty,       \* it is there and empty,
    Broken       \* it is a config that does not parse

Command == {"init", "serve", "sync", "record", "import"}
KeyFile == {"swarm", "identity"}
File == {"config"} \cup KeyFile

NoId == "no id"           \* a config without device_id
Name == {"given", "other", "hostname", "unknown"}

ASSUME HostAssumption ==
    /\ Menus \subseteq [Process -> SUBSET (Command \cup {"trim"})]
    /\ exported \in [Process -> BOOLEAN]
    /\ device_env \in [Menus -> [Process -> Name \cup {NoId}]]
    /\ flags \in [Menus -> SUBSET (Name \cup {NoId})]
    /\ Initial \subseteq Name \cup {NoFile, Empty, NoId}
    /\ \A x \in {NoFile, Empty, Broken} : x \notin Name \cup {NoId} \cup Nat
    /\ NoFile # Empty /\ Broken \notin {NoFile, Empty}
    /\ Limits \subseteq Nat \ {0}
    /\ MaxRecords \in Nat /\ MaxLines \in Nat
    /\ MaxTrims \in Nat /\ MaxFaults \in Nat

VARIABLES
    menu,
    shell,       \* the shell whose history file this is
    file,        \* file[f]: NoFile, Empty, a device_id setting, or a key
    keys,        \* keys generated so far
    (* The memory of each process. *)
    cmd, pc, on, \* the command it runs, where it is, the file it is at
    arg,         \* --device-id of init, record and import
    loaded,      \* device_id in the config it read
    value,       \* what it writes to the file
    todo, done,  \* the entries of its import, and how many it inserted
    (* The database, what peers received, and the shell's history file.    *)
    rows, pushed, history,
    (* History: the key that was in the file when nobody was writing it,    *)
    (* files whose writer died before it filled them, the id last written   *)
    (* to the config and whether it ever changed, inits that met another    *)
    (* one or an empty config, what syncs left and imports reported.        *)
    settled, torn, last_id, moved, disturbed, left, claims,
    (* Bounds used up. *)
    lines, trims, faults

procVars == <<cmd, pc, on, arg, loaded, value, todo, done, disturbed>>
fileVars == <<file, keys, torn, settled, last_id, moved>>
dbVars == <<rows, pushed, left, claims>>
historyVars == <<shell, history, lines, trims>>
vars == <<menu, fileVars, procVars, dbVars, historyVars, faults>>

Fault == faults < MaxFaults /\ faults' = faults + 1

First(a, b) == IF a # NoId THEN a ELSE b

-----------------------------------------------------------------------------
(* Which device a command works for.                                       *)

\* --hostname of the hook is the shell's variable; without it HOSTNAME must
\* be in the environment.
env_HOSTNAME(p) == IF exported[p] THEN "hostname" ELSE NoId

env_DEVICE_ID(p) == device_env[menu][p]

\* --device-id, RUSTORY_DEVICE_ID and the config, in this order; p2p-sync has
\* no such flag.
device_id_setting(p) == First(arg[p], First(env_DEVICE_ID(p), loaded[p]))

\* Mutant of record_device_id: the hostname goes before the settings.
record_device_id_HostFirst(p) == "hostname"

record_device_id(p) == First(device_id_setting(p), "hostname")

import_device_id(p) ==
    First(device_id_setting(p), First(env_HOSTNAME(p), "unknown"))

resolve_device_id(p) ==
    First(device_id_setting(p), First(env_HOSTNAME(p), "unknown"))

\* Where the device id comes from.
Source(p) == IF arg[p] # NoId THEN "flag"
             ELSE IF env_DEVICE_ID(p) # NoId THEN "variable"
             ELSE IF loaded[p] # NoId THEN "config"
             ELSE "host"

\* The device_id line init writes; none when nothing is known. It does not
\* look at RUSTORY_DEVICE_ID.
render_config_toml(p) == First(arg[p], First(loaded[p], env_HOSTNAME(p)))

-----------------------------------------------------------------------------
(* Commands and files.                                                     *)

Goto(p, s, f) ==
    /\ pc' = [pc EXCEPT ![p] = s]
    /\ on' = [on EXCEPT ![p] = f]

\* The process is gone.
End(p) ==
    /\ Goto(p, "idle", "config")
    /\ cmd' = [cmd EXCEPT ![p] = "none"]
    /\ arg' = [arg EXCEPT ![p] = NoId]
    /\ loaded' = [loaded EXCEPT ![p] = NoId]
    /\ value' = [value EXCEPT ![p] = NoFile]
    /\ todo' = [todo EXCEPT ![p] = <<>>]
    /\ done' = [done EXCEPT ![p] = 0]
    /\ disturbed' = [disturbed EXCEPT ![p] = FALSE]

\* Where a command goes first, and after it is through with file f.
Begin(p, c) ==
    \/ c = "init" /\ Goto(p, "check", "config")
    \/ c \in {"serve", "sync"} /\ Goto(p, "read", "swarm")
    \/ c = "record" /\ Goto(p, "insert", "config")
    \/ c = "import" /\ Goto(p, "history", "config")

\* Mutant of Proceed: a server does not need its identity on disk.
Proceed_NoIdentity(p, f) ==
    \/ f = "config" /\ Goto(p, "read", "swarm")
    \/ f = "swarm" /\ cmd[p] = "sync" /\ Goto(p, "push", f)
    \/ f = "swarm" /\ cmd[p] = "serve" /\ Goto(p, "serving", f)
    \/ f = "swarm" /\ cmd[p] = "init" /\ Goto(p, "read", "identity")
    \/ f = "identity" /\ Goto(p, "exit", f)

Proceed(p, f) ==
    \/ f = "config" /\ Goto(p, "read", "swarm")
    \/ f = "swarm" /\ cmd[p] = "sync" /\ Goto(p, "push", f)
    \/ f = "swarm" /\ cmd[p] # "sync" /\ Goto(p, "read", "identity")
    \/ f = "identity" /\ cmd[p] = "serve" /\ Goto(p, "serving", f)
    \/ f = "identity" /\ cmd[p] # "serve" /\ Goto(p, "exit", f)

\* A missing and an empty config both are no settings.
load_from_path == IF file["config"] \in {NoFile, Empty} THEN NoId
                                                     ELSE file["config"]

StartWith(p, c, id) ==
    /\ pc[p] = "idle"
    /\ c \in menu[p]
    /\ c = "record" => Cardinality({r \in rows : r.born = 0}) < MaxRecords
    /\ cmd' = [cmd EXCEPT ![p] = c]
    /\ loaded' = [loaded EXCEPT ![p] = id]
    /\ IF c \in {"init", "record", "import"}
       THEN \E a \in flags[menu] : arg' = [arg EXCEPT ![p] = a]
       ELSE UNCHANGED arg
    /\ IF c = "init"
       THEN disturbed' = [q \in Process |->
              IF q = p THEN \/ file["config"] = Empty
                            \/ \E r \in Process \ {p} : cmd[r] = "init"
              ELSE disturbed[q] \/ cmd[q] = "init"]
       ELSE UNCHANGED disturbed
    /\ Begin(p, c)
    /\ UNCHANGED <<menu, fileVars, value, todo, done, dbVars,
                   historyVars>>

\* Mutant of Start: an empty config is an error, as an empty key file is.
Start_EmptyRefused(p, c) ==
    /\ file["config"] # Broken
    /\ IF file["config"] = Empty THEN UNCHANGED vars
       ELSE StartWith(p, c, load_from_path) /\ UNCHANGED faults

Start(p, c) ==
    /\ file["config"] # Broken
    /\ StartWith(p, c, load_from_path)
    /\ UNCHANGED faults

\* Mutant of LoadFails: any error counts as no config.
LoadFails_Default(p, c) ==
    /\ StartWith(p, c, NoId)
    /\ IF file["config"] = Broken THEN UNCHANGED faults ELSE Fault

\* The config cannot be read or parsed: no command starts, not even init.
LoadFails(p, c) ==
    /\ pc[p] = "idle"
    /\ c \in menu[p]
    /\ IF file["config"] = Broken THEN UNCHANGED faults ELSE Fault
    /\ UNCHANGED <<menu, fileVars, procVars, dbVars, historyVars>>

\* p does not write file on[p] any more: its contents are settled if nobody
\* else is about to write them.
Settle(p, content) ==
    settled' = IF /\ on[p] \in KeyFile /\ settled[on[p]] = NoFile
                  /\ content \notin {NoFile, Empty}
                  /\ \A q \in Process \ {p} :
                       on[q] = on[p] => pc[q] \notin {"create", "fill"}
               THEN [settled EXCEPT ![on[p]] = content] ELSE settled

\* init: metadata says whether there is a config, be it empty.
CheckConfig(p) ==
    /\ pc[p] = "check"
    /\ \E force \in BOOLEAN :
         IF file["config"] # NoFile /\ ~ force
         THEN Proceed(p, "config") /\ UNCHANGED value
         ELSE /\ Goto(p, "create", "config")
              /\ value' = [value EXCEPT ![p] = render_config_toml(p)]
    /\ loaded' = [loaded EXCEPT ![p] = NoId]   \* not used again
    /\ UNCHANGED <<menu, fileVars, cmd, arg, todo, done, dbVars,
                   historyVars, disturbed, faults>>

\* fs::write opens the file and truncates it ...
Create(p) ==
    /\ pc[p] = "create"
    /\ file' = [file EXCEPT ![on[p]] = Empty]
    /\ Goto(p, "fill", on[p])
    /\ UNCHANGED <<menu, keys, torn, settled, last_id, moved, cmd, arg,
                   loaded, value, todo, done, dbVars, historyVars, disturbed,
                   faults>>

\* ... and writes the contents from the start of the file. Keys have all the
\* same size; a config over one that was written meanwhile may be shorter and
\* leave its end. A new key is used from here on.
Fill(p) ==
    /\ pc[p] = "fill"
    /\ \E content \in {value[p]} \cup
            IF on[p] = "config" /\ file[on[p]] \notin {Empty, value[p]}
            THEN {Broken} ELSE {} :
         /\ file' = [file EXCEPT ![on[p]] = content]
         /\ Settle(p, content)
    /\ torn' = torn \ {on[p]}
    /\ IF on[p] = "config"
       THEN /\ last_id' = value[p]
            /\ moved' = (moved \/ (last_id \in Name /\ value[p] # last_id))
       ELSE UNCHANGED <<last_id, moved>>
    /\ Proceed(p, on[p])
    /\ value' = [value EXCEPT ![p] = NoFile]
    /\ arg' = [arg EXCEPT ![p] = NoId]
    /\ UNCHANGED <<menu, keys, cmd, loaded, todo, done, dbVars,
                   historyVars, disturbed, faults>>

GenerateKey(p) ==
    /\ keys' = keys + 1
    /\ value' = [value EXCEPT ![p] = keys + 1]
    /\ Goto(p, "create", on[p])
    /\ UNCHANGED <<menu, file, torn, settled, last_id, moved, cmd, arg, loaded,
                   todo, done, dbVars, historyVars, disturbed>>

\* Mutant of MissingKey: any error counts as a missing file.
MissingKey_AnyError(p) ==
    /\ pc[p] = "read"
    /\ IF file[on[p]] = NoFile THEN UNCHANGED faults ELSE Fault
    /\ GenerateKey(p)

\* load_or_generate_swarm_key, load_or_generate_identity_keypair.
MissingKey(p) ==
    /\ pc[p] = "read"
    /\ file[on[p]] = NoFile
    /\ GenerateKey(p)
    /\ UNCHANGED faults

ReadKey(p) ==
    /\ pc[p] = "read"
    /\ file[on[p]] \notin {NoFile, Empty}
    /\ Proceed(p, on[p])
    /\ UNCHANGED <<menu, fileVars, cmd, arg, loaded, value, todo, done, dbVars,
                   historyVars, disturbed, faults>>

\* An empty key file is an error, which ends the command.
EmptyKey(p) ==
    /\ pc[p] = "read"
    /\ file[on[p]] = Empty
    /\ End(p)
    /\ UNCHANGED <<menu, fileVars, dbVars, historyVars, faults>>

\* init is done, or a server is stopped.
Exit(p) ==
    /\ pc[p] \in {"exit", "serving"}
    /\ End(p)
    /\ UNCHANGED <<menu, fileVars, dbVars, historyVars, faults>>

\* A command fails or is killed anywhere, with the file it writes still empty.
Dies(p) ==
    /\ pc[p] # "idle"
    /\ Fault
    /\ End(p)
    /\ torn' = torn \cup {f \in {on[p]} : pc[p] = "fill" /\ file[f] = Empty}
    /\ Settle(p, file[on[p]])
    /\ UNCHANGED <<menu, file, keys, last_id, moved, dbVars, historyVars>>

-----------------------------------------------------------------------------
(* The database.                                                           *)

Stored(id, device, born, p) ==
    [entry_id |-> id, device_id |-> device, born |-> born,
     source |-> Source(p)]

\* INSERT OR IGNORE.
InsertNew(new) ==
    rows' = rows \cup {r \in new : \A s \in rows : s.entry_id # r.entry_id}

\* A command typed in the shell; its entry_id is a uuid v4.
RecordEntry(p) ==
    LET n == Cardinality({r \in rows : r.born = 0})
    IN  /\ pc[p] = "insert"
        /\ InsertNew({Stored(<<n + 1>>, record_device_id(p), 0, p)})
        /\ End(p)
        /\ UNCHANGED <<menu, fileVars, pushed, left, claims, historyVars,
                       faults>>

\* The push sends what this device recorded and reports success. --watch
\* pushes again later, under the id it read when it started.
Push(p) ==
    LET own == {r \in rows : r.device_id = resolve_device_id(p)}
    IN  /\ pc[p] = "push"
        /\ pushed' = pushed \cup own
        /\ left' = left \cup
             {[row |-> r, device_id |-> resolve_device_id(p),
               source |-> Source(p)] : r \in rows \ (pushed \cup own)}
        /\ End(p) \/ UNCHANGED procVars
        /\ UNCHANGED <<menu, fileVars, rows, claims, historyVars, faults>>

ReadHistory(p) ==
    /\ pc[p] = "history"
    /\ \E limit \in Limits :
         todo' = [todo EXCEPT
                    ![p] = ImportEntries(shell, history, limit,
                                         import_device_id(p))]
    /\ Goto(p, "batch", "config")
    /\ UNCHANGED <<menu, fileVars, cmd, arg, loaded, value, done, dbVars,
                   historyVars, disturbed, faults>>

\* The last entry of the next batch.
LastOf(p) == IF Len(todo[p]) - done[p] < BATCH THEN Len(todo[p])
                                               ELSE done[p] + BATCH

\* A batch is one transaction; after the last one the import reports success.
ImportBatch(p) ==
    LET last == LastOf(p)
        next == {todo[p][i] : i \in done[p] + 1 .. last}
    IN  /\ pc[p] = "batch"
        /\ InsertNew({Stored(e.entry_id, import_device_id(p), e.born, p) :
                        e \in next})
        /\ IF last = Len(todo[p])
           THEN /\ claims' = claims \cup
                     {[born |-> todo[p][i].born,
                       device_id |-> import_device_id(p)] : i \in 1 .. last}
                /\ End(p)
           ELSE /\ done' = [done EXCEPT ![p] = last]
                /\ UNCHANGED <<claims, cmd, pc, on, arg, loaded, value, todo,
                               disturbed>>
        /\ UNCHANGED <<menu, fileVars, pushed, left, historyVars, faults>>

-----------------------------------------------------------------------------
(* The shell writes its history file.                                      *)

Importing == \E p \in Process : "import" \in menu[p]
Trimming == \E p \in Process : "trim" \in menu[p]

AddCommand ==
    /\ Importing
    /\ lines < MaxLines
    /\ lines' = lines + 1
    /\ \E c \in Cmd : \E at \in {NoTs, Now} :
         history' = history \o Lines(shell, c, at, lines + 1)
    /\ UNCHANGED <<menu, shell, fileVars, procVars, dbVars, trims, faults>>

\* HISTFILESIZE: the oldest command goes, with its timestamp.
TrimHistory ==
    /\ Trimming
    /\ trims < MaxTrims
    /\ history # <<>>
    /\ trims' = trims + 1
    /\ LET oldest == Lines(shell, history[1].cmd, history[1].at, history[1].born)
       IN  history' = SubSeq(history, Len(oldest) + 1, Len(history))
    /\ UNCHANGED <<menu, shell, fileVars, procVars, dbVars, lines, faults>>

-----------------------------------------------------------------------------

Init ==
    /\ menu \in Menus
    /\ shell \in {s \in {"bash", "zsh"} : Importing \/ s = "bash"}
    /\ \E c \in Initial :
         /\ file = [f \in File |-> IF f = "config" THEN c ELSE NoFile]
         /\ last_id = c
    /\ keys = 0
    /\ cmd = [p \in Process |-> "none"]
    /\ pc = [p \in Process |-> "idle"]
    /\ on = [p \in Process |-> "config"]
    /\ arg = [p \in Process |-> NoId]
    /\ loaded = [p \in Process |-> NoId]
    /\ value = [p \in Process |-> NoFile]
    /\ todo = [p \in Process |-> <<>>]
    /\ done = [p \in Process |-> 0]
    /\ rows = {} /\ pushed = {} /\ left = {} /\ claims = {}
    /\ history = <<>>
    /\ settled = [f \in KeyFile |-> NoFile]
    /\ torn = {}
    /\ moved = FALSE
    /\ disturbed = [p \in Process |-> FALSE]
    /\ lines = 0 /\ trims = 0 /\ faults = 0

FileStep(p) ==
    \/ CheckConfig(p) \/ Create(p) \/ Fill(p)
    \/ MissingKey(p) \/ ReadKey(p) \/ EmptyKey(p)

DbStep(p) ==
    \/ RecordEntry(p) \/ Push(p) \/ ReadHistory(p) \/ ImportBatch(p)

Next ==
    \/ \E p \in Process :
         \/ \E c \in Command : Start(p, c) \/ LoadFails(p, c)
         \/ FileStep(p) \/ DbStep(p) \/ Exit(p) \/ Dies(p)
    \/ AddCommand \/ TrimHistory

Spec == Init /\ [][Next]_vars

\* A process does not stop in the middle of its files, and a service manager
\* starts its server again whenever it ended. Nothing else is forced.
Fairness == \A p \in Process : /\ WF_vars(FileStep(p))
                               /\ WF_vars(Start(p, "serve"))

FairSpec == Spec /\ Fairness

-----------------------------------------------------------------------------

TypeOK ==
    /\ menu \in Menus
    /\ \A f \in KeyFile : file[f] \in {NoFile, Empty} \/ file[f] \in 1 .. keys
    /\ file["config"] \in Name \cup {NoFile, Empty, Broken, NoId}
    /\ loaded \in [Process -> Name \cup {NoId}]
    /\ torn \subseteq {f \in File : file[f] = Empty}
    /\ \A p \in Process :
         /\ done[p] <= Len(todo[p])
         /\ pc[p] = "serving" => \A f \in KeyFile : file[f] # NoFile
         /\ pc[p] = "fill" => value[p] \notin {NoFile, Empty}

\* However the first starts of several commands overlap, and whatever fails
\* later: once a key file is complete and nobody is about to write it, its
\* key is there for good, and so is the peer id made from it.
KeySettles ==
    \A f \in KeyFile : settled[f] # NoFile => file[f] = settled[f]

\* A server gets to run again and again, although it may be refused while
\* others write the keys; only a writer killed half-way stops it for ever.
ServesUnlessTorn ==
    \A p \in Process : menu[p] = {"serve"} =>
        []<>(pc[p] = "serving" \/ torn \cap KeyFile # {})

\* The device id in the config changes only by --device-id, or when an init
\* met another one, or found the config empty.
IdKept ==
    [][moved' => \/ moved
                 \/ \E p \in Process : /\ pc[p] = "fill" /\ on[p] = "config"
                                       /\ arg[p] # NoId \/ disturbed[p]]_vars

\* Under a flag or a variable that differs from the config.
Overrides(l) == l.source \in {"flag", "variable"} /\ l.device_id # last_id

\* A sync that reports success leaves an entry behind only if the id in the
\* config was changed, or for one of the two commands, the one that stored
\* and the one that pushed, either nothing set an id, so that the hook's
\* --hostname and the environment decided, or a flag or RUSTORY_DEVICE_ID set
\* another one than the config. Commands that agree in their settings lose
\* nothing, wherever each of them finds its own.
LeftOnlyMisnamed ==
    \A l \in left :
        \/ moved
        \/ "host" \in {l.source, l.row.source}
        \/ Overrides(l) \/ Overrides(l.row)

\* A bash command gets the time the shell wrote for it, never the time of
\* another one.
OwnTimestamp ==
    LET records == parse_history(shell, history)
    IN  \A i \in DOMAIN records : records[i].ts_unix = records[i].at

\* While the history file only grows, no command is stored twice for one
\* device, however imports repeat, overlap, limit or break off.
ImportedOnce ==
    trims = 0 => \A r, s \in rows :
        r.born = s.born /\ r.born # 0 /\ r.device_id = s.device_id => r = s

\* And an import that reports success has stored every command it read:
\* none was taken for another one.
ImportComplete ==
    trims = 0 => \A c \in claims : \E r \in rows :
        r.born = c.born /\ r.device_id = c.device_id

\* Importing is exact: every command once.
ImportExact == ImportedOnce /\ ImportComplete

=============================================================================
