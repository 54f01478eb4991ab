----------------------------- MODULE HistoryFile -----------------------------
(***************************************************************************)
(* What `rr import` reads from a history file (src/history_import.rs) and  *)
(* the ids it gives (src/core.rs), as operators.  A file is a sequence of  *)
(* lines.  A line is told apart by the two parts a parser can find in it:  *)
(*   bash   a timestamp ("#1700000000"), or a command                      *)
(*   zsh    a command, with a timestamp (": 1700000000:0;ls") or without   *)
(* so bash puts the time of a command on the line above it.  Blank lines,  *)
(* which both parsers pass over, are left out, and so are commands that    *)
(* look like a timestamp themselves: in bash a comment of digits only,     *)
(* which its parser takes for one.  born, the event at which               *)
(* the shell wrote a command, and at, the time it meant to give it, are    *)
(* not seen by the program.                                                *)
(*                                                                         *)
(* The user id and the shell, which are parts of an id, are the same in    *)
(* every import and left out.                                              *)
(***************************************************************************)
EXTENDS Integers, Sequences

CONSTANTS
    Cmd,        \* texts of commands
    Skipped,    \* `rr ...`, no text, or a match of record_ignore_regex
    BATCH,      \* entries inserted in one transaction, 2000
    Now         \* the clock at an import

ASSUME HistoryAssumption ==
    /\ Skipped \subseteq Cmd
    /\ BATCH \in Nat \ {0}
    /\ Now \in Nat \ {0}

NoCmd == "no command"
NoTs == 0      \* Option::None; every timestamp is later than the epoch

\* The lines a shell writes for one command.
Lines(shell, cmd, at, born) ==
    LET line(ts, text) == [ts |-> ts, cmd |-> text, born |-> born, at |-> at]
    IN  IF at = NoTs THEN <<line(NoTs, cmd)>>
        ELSE IF shell = "zsh" THEN <<line(at, cmd)>>
        ELSE <<line(at, NoCmd), line(NoTs, cmd)>>

HistoryRecord(index, ts, line) ==
    [source_index |-> index, ts_unix |-> ts, cmd |-> line.cmd,
     born |-> line.born, at |-> line.at]

-----------------------------------------------------------------------------

\* One pass; a timestamp waits for the next command. The mutant does not take
\* next_ts but keeps it.
parse_bash_history_KeepTs(content) ==
    LET Read[n \in 0 .. Len(content)] ==
          IF n = 0 THEN [out |-> <<>>, next_ts |-> NoTs]
          ELSE LET acc == Read[n - 1]
                   line == content[n]
               IN  IF line.ts # NoTs THEN [acc EXCEPT !.next_ts = line.ts]
                   ELSE [acc EXCEPT !.out = Append(@, HistoryRecord(Len(@),
                                                        acc.next_ts, line))]
    IN  Read[Len(content)].out

\* out and next_ts after the first n lines.
BashRead(content) ==
    LET Read[n \in 0 .. Len(content)] ==
          IF n = 0 THEN [out |-> <<>>, next_ts |-> NoTs]
          ELSE LET acc == Read[n - 1]
                   line == content[n]
               IN  IF line.ts # NoTs THEN [acc EXCEPT !.next_ts = line.ts]
                   ELSE [out |-> Append(acc.out, HistoryRecord(Len(acc.out),
                                                         acc.next_ts, line)),
                         next_ts |-> NoTs]
    IN  Read

parse_bash_history(content) == BashRead(content)[Len(content)].out

parse_zsh_history(content) ==
    [i \in DOMAIN content |-> HistoryRecord(i - 1, content[i].ts, content[i])]

parse_history(shell, content) ==
    IF shell = "bash" THEN parse_bash_history(content)
                      ELSE parse_zsh_history(content)

\* Mutant of KeepLast: the index counts from the first record kept.
KeepLast_Renumbered(records, limit) ==
    LET kept == SubSeq(records, Len(records) - limit + 1, Len(records))
    IN  IF Len(records) <= limit THEN records
        ELSE [i \in DOMAIN kept |-> [kept[i] EXCEPT !.source_index = i - 1]]

\* --limit keeps the last records, each with its index in the file.
KeepLast(records, limit) ==
    IF Len(records) <= limit THEN records
    ELSE SubSeq(records, Len(records) - limit + 1, Len(records))

\* Mutant of id_ts_unix: the time the entry is stored with, which spreads
\* records without one over the seconds before the import.
id_ts_unix_Filled(records, i) ==
    IF records[i].ts_unix # NoTs THEN records[i].ts_unix
    ELSE Now - (Len(records) - i)

\* The time that goes into the id: 0 when the file has none.
id_ts_unix(records, i) == records[i].ts_unix

\* Mutant of import_entry_id: without the index.
import_entry_id_NoIndex(device_id, ts, cmd, index) == <<device_id, ts, cmd>>

\* uuid v5 of these parts.
import_entry_id(device_id, ts, cmd, index) == <<device_id, ts, cmd, index>>

\* The entry of record i.
ImportedEntry(records, i, device_id) ==
    [entry_id |-> import_entry_id(device_id, id_ts_unix(records, i),
                                  records[i].cmd, records[i].source_index),
     born |-> records[i].born]

\* The entries of the first n records.
Imported(records, device_id) ==
    LET Buf[n \in 0 .. Len(records)] ==
          IF n = 0 THEN <<>>
          ELSE IF records[n].cmd \in Skipped THEN Buf[n - 1]
          ELSE Append(Buf[n - 1], ImportedEntry(records, n, device_id))
    IN  Buf

\* The entries an import inserts, in order.
ImportEntries(shell, content, limit, device_id) ==
    LET records == KeepLast(parse_history(shell, content), limit)
    IN  Imported(records, device_id)[Len(records)]

=============================================================================
