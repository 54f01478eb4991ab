----------------------------- MODULE HostProofs -----------------------------
(***************************************************************************)
(* Proofs about Host: what the commands of one machine keep of the keys    *)
(* and of the device id, what they read from the history file and store,   *)
(* for any number of processes, any menu, file and bounds.                 *)
(*                                                                         *)
(* Shape is the part of the types the first proofs need; IdInv what the    *)
(* processes know of the config; HistoryInv how a history file is laid     *)
(* out. The parsers and the loop of the import are recursive functions:    *)
(* Recursion says that they exist, and UpTo is the induction over lines    *)
(* by which they are reasoned about.                                       *)
(***************************************************************************)
EXTENDS Host, TLAPS, FiniteSetTheorems, WellFoundedInduction

Writing == {"create", "fill"}

\* The menu, and the shapes of the functions that EXCEPT updates.
Shape ==
    /\ menu \in Menus
    /\ file = [f \in File |-> file[f]]
    /\ settled = [f \in KeyFile |-> settled[f]]
    /\ pc = [p \in Process |-> pc[p]]
    /\ on \in [Process -> File]
    /\ cmd = [p \in Process |-> cmd[p]]
    /\ arg = [p \in Process |-> arg[p]]
    /\ loaded = [p \in Process |-> loaded[p]]
    /\ value = [p \in Process |-> value[p]]
    /\ disturbed \in [Process -> BOOLEAN]

\* The key in a settled file is complete, and nobody is about to write it.
SettledInv ==
    \A f \in KeyFile : settled[f] # NoFile =>
        /\ file[f] = settled[f]
        /\ \A p \in Process : on[p] = f => pc[p] \notin Writing

KeyInv == Shape /\ SettledInv

-----------------------------------------------------------------------------
(* Where Begin, Proceed and End lead.                                      *)

LEMMA BeginGoes ==
    ASSUME NEW p \in Process, NEW c \in Command, Begin(p, c)
    PROVE  \E s \in {"check", "read", "insert", "history"} :
             \E f \in {"config", "swarm"} :
               /\ Goto(p, s, f)
               /\ s = "check" => c = "init"
               /\ s = "read" => f = "swarm"
PROOF BY DEF Begin, Command

LEMMA ProceedGoes ==
    ASSUME NEW p \in Process, NEW f \in File, Proceed(p, f)
    PROVE  \E s \in {"read", "push", "serving", "exit"} : \E g \in KeyFile :
             Goto(p, s, g)
PROOF BY DEF Proceed, File, KeyFile

\* A process that goes anywhere but to write a file disturbs no settled key.
LEMMA GotoKeeps ==
    ASSUME Shape, SettledInv, file' = file, settled' = settled,
           NEW p \in Process, NEW s, NEW f \in File, Goto(p, s, f),
           s \notin Writing
    PROVE  SettledInv'
PROOF BY DEF Shape, SettledInv, Goto

-----------------------------------------------------------------------------
(* Shape is inductive.                                                     *)

LEMMA GotoShape ==
    ASSUME Shape, NEW p \in Process, NEW s, NEW f \in File, Goto(p, s, f)
    PROVE  /\ pc' = [q \in Process |-> pc'[q]]
           /\ on' \in [Process -> File]
PROOF BY DEF Shape, Goto

LEMMA EndShape ==
    ASSUME Shape, NEW p \in Process, End(p)
    PROVE  /\ Goto(p, "idle", "config")
           /\ pc' = [q \in Process |-> pc'[q]]
           /\ on' \in [Process -> File]
           /\ cmd' = [q \in Process |-> cmd'[q]]
           /\ arg' = [q \in Process |-> arg'[q]]
           /\ loaded' = [q \in Process |-> loaded'[q]]
           /\ value' = [q \in Process |-> value'[q]]
           /\ disturbed' \in [Process -> BOOLEAN]
<1>1. Goto(p, "idle", "config")
    BY DEF End
<1>2. "config" \in File
    BY DEF File
<1>3. /\ pc' = [q \in Process |-> pc'[q]]
      /\ on' \in [Process -> File]
    BY <1>1, <1>2, GotoShape
<1>4. QED
    BY <1>1, <1>3 DEF Shape, End

LEMMA StartShape ==
    ASSUME Shape, NEW p \in Process, NEW c \in Command, Start(p, c)
    PROVE  Shape'
<1>1. PICK s \in {"check", "read", "insert", "history"},
           f \in {"config", "swarm"} : Goto(p, s, f)
    BY BeginGoes DEF Start, StartWith
<1>2. f \in File
    BY DEF File, KeyFile
<1>3. /\ pc' = [q \in Process |-> pc'[q]]
      /\ on' \in [Process -> File]
    BY <1>1, <1>2, GotoShape
<1>4. disturbed' \in [Process -> BOOLEAN]
    <2>1. CASE c = "init"
        BY <2>1 DEF Shape, Start, StartWith
    <2>2. CASE c # "init"
        BY <2>2 DEF Shape, Start, StartWith
    <2>3. QED
        BY <2>1, <2>2
<1>5. QED
    BY <1>3, <1>4 DEF Shape, Start, StartWith, fileVars

LEMMA ShapeStep ==
    ASSUME Shape, [Next]_vars
    PROVE  Shape'
<1>1. ASSUME NEW p \in Process, NEW c \in Command, Start(p, c)
      PROVE  Shape'
    BY <1>1, StartShape
<1>2. ASSUME NEW p \in Process, CheckConfig(p)
      PROVE  Shape'
    <2>1. CASE Goto(p, "create", "config")
        <3>1. /\ pc' = [q \in Process |-> pc'[q]]
              /\ on' \in [Process -> File]
            BY <2>1, GotoShape DEF File
        <3>2. QED
            BY <1>2, <3>1 DEF Shape, CheckConfig, fileVars
    <2>2. CASE Proceed(p, "config")
        <3>1. PICK s \in {"read", "push", "serving", "exit"}, f \in KeyFile :
                 Goto(p, s, f)
            BY <2>2, ProceedGoes DEF File
        <3>2. /\ pc' = [q \in Process |-> pc'[q]]
              /\ on' \in [Process -> File]
            BY <3>1, GotoShape DEF File
        <3>3. QED
            BY <1>2, <3>2 DEF Shape, CheckConfig, fileVars
    <2>3. QED
        BY <1>2, <2>1, <2>2 DEF CheckConfig
<1>3. ASSUME NEW p \in Process, Create(p)
      PROVE  Shape'
    <2>1. on[p] \in File
        BY DEF Shape
    <2>2. /\ pc' = [q \in Process |-> pc'[q]]
          /\ on' \in [Process -> File]
        BY <1>3, <2>1, GotoShape DEF Create
    <2>3. QED
        BY <1>3, <2>2 DEF Shape, Create
<1>4. ASSUME NEW p \in Process, Fill(p)
      PROVE  Shape'
    <2>1. on[p] \in File
        BY DEF Shape
    <2>2. PICK s \in {"read", "push", "serving", "exit"}, f \in KeyFile :
             Goto(p, s, f)
        BY <1>4, <2>1, ProceedGoes DEF Fill
    <2>3. /\ pc' = [q \in Process |-> pc'[q]]
          /\ on' \in [Process -> File]
        BY <2>2, GotoShape DEF File
    <2>4. /\ file' = [g \in File |-> file'[g]]
          /\ settled' = [g \in KeyFile |-> settled'[g]]
        BY <1>4 DEF Shape, Fill, Settle
    <2>5. QED
        BY <1>4, <2>3, <2>4 DEF Shape, Fill
<1>5. ASSUME NEW p \in Process, MissingKey(p)
      PROVE  Shape'
    <2>1. on[p] \in File
        BY DEF Shape
    <2>2. /\ pc' = [q \in Process |-> pc'[q]]
          /\ on' \in [Process -> File]
        BY <1>5, <2>1, GotoShape DEF MissingKey, GenerateKey
    <2>3. QED
        BY <1>5, <2>2 DEF Shape, MissingKey, GenerateKey
<1>6. ASSUME NEW p \in Process, ReadKey(p)
      PROVE  Shape'
    <2>1. on[p] \in File
        BY DEF Shape
    <2>2. PICK s \in {"read", "push", "serving", "exit"}, f \in KeyFile :
             Goto(p, s, f)
        BY <1>6, <2>1, ProceedGoes DEF ReadKey
    <2>3. /\ pc' = [q \in Process |-> pc'[q]]
          /\ on' \in [Process -> File]
        BY <2>2, GotoShape DEF File
    <2>4. QED
        BY <1>6, <2>3 DEF Shape, ReadKey, fileVars
<1>7. ASSUME NEW p \in Process,
             EmptyKey(p) \/ Exit(p) \/ RecordEntry(p) \/ Push(p)
      PROVE  Shape'
    <2>1. CASE End(p) /\ UNCHANGED <<menu, fileVars>>
        BY <2>1, EndShape DEF Shape, fileVars
    <2>2. CASE UNCHANGED <<menu, procVars, fileVars>>
        BY <2>2 DEF Shape, procVars, fileVars
    <2>3. QED
        BY <1>7, <2>1, <2>2 DEF EmptyKey, Exit, RecordEntry, Push
<1>8. ASSUME NEW p \in Process, Dies(p)
      PROVE  Shape'
    <2>1. settled' = [f \in KeyFile |-> settled'[f]]
        BY <1>8 DEF Shape, Dies, Settle
    <2>2. QED
        BY <1>8, <2>1, EndShape DEF Shape, Dies
<1>9. ASSUME NEW p \in Process, ReadHistory(p)
      PROVE  Shape'
    <2>1. /\ pc' = [q \in Process |-> pc'[q]]
          /\ on' \in [Process -> File]
        BY <1>9, GotoShape DEF ReadHistory, File
    <2>2. QED
        BY <1>9, <2>1 DEF Shape, ReadHistory, fileVars
<1>10. ASSUME NEW p \in Process, ImportBatch(p)
       PROVE  Shape'
    <2>1. CASE End(p)
        BY <1>10, <2>1, EndShape DEF Shape, ImportBatch, fileVars
    <2>2. CASE UNCHANGED <<cmd, pc, on, arg, loaded, value, disturbed>>
        BY <1>10, <2>2 DEF Shape, ImportBatch, fileVars
    <2>3. QED
        BY <1>10, <2>1, <2>2 DEF ImportBatch
<1>11. ASSUME UNCHANGED <<menu, fileVars, procVars>>
       PROVE  Shape'
    BY <1>11 DEF Shape, fileVars, procVars
<1>12. QED
    BY <1>1, <1>2, <1>3, <1>4, <1>5, <1>6, <1>7, <1>8, <1>9, <1>10, <1>11
       DEF Next, FileStep, DbStep, LoadFails, AddCommand, TrimHistory, vars

LEMMA ShapeInit == Init => Shape
PROOF BY DEF Init, Shape, File, KeyFile

-----------------------------------------------------------------------------
(* Keys.                                                                   *)

LEMMA KeyStep ==
    ASSUME Shape, SettledInv, [Next]_vars
    PROVE  SettledInv'
<1>1. ASSUME NEW p \in Process, NEW c \in Command, Start(p, c)
      PROVE  SettledInv'
    <2>1. PICK s \in {"check", "read", "insert", "history"},
               f \in {"config", "swarm"} : Goto(p, s, f)
        BY <1>1, BeginGoes DEF Start, StartWith
    <2>2. QED
        BY <1>1, <2>1, GotoKeeps
           DEF Start, StartWith, fileVars, File, KeyFile, Writing
<1>2. ASSUME NEW p \in Process, CheckConfig(p)
      PROVE  SettledInv'
    <2>1. CASE Goto(p, "create", "config")
        <3>1. /\ on'[p] = "config" /\ UNCHANGED <<file, settled>>
              /\ \A q \in Process \ {p} : pc'[q] = pc[q] /\ on'[q] = on[q]
            BY <1>2, <2>1 DEF CheckConfig, Goto, Shape, fileVars
        <3>2. QED
            BY <3>1 DEF SettledInv, KeyFile
    <2>2. CASE Proceed(p, "config")
        <3>1. PICK s \in {"read", "push", "serving", "exit"}, f \in KeyFile :
                 Goto(p, s, f)
            BY <2>2, ProceedGoes DEF File
        <3>2. QED
            BY <1>2, <3>1, GotoKeeps DEF CheckConfig, fileVars, File, Writing
    <2>3. QED
        BY <1>2, <2>1, <2>2 DEF CheckConfig
<1>3. ASSUME NEW p \in Process, Create(p)
      PROVE  SettledInv'
    <2>1. SUFFICES ASSUME NEW f \in KeyFile, settled[f] # NoFile
                   PROVE  /\ file'[f] = settled[f]
                          /\ \A q \in Process : on'[q] = f
                                                  => pc'[q] \notin Writing
        BY <1>3 DEF Create, SettledInv
    <2>2. on[p] # f
        BY <1>3, <2>1 DEF Create, SettledInv, Writing
    <2>3. on' = on /\ \A q \in Process \ {p} : pc'[q] = pc[q]
        BY <1>3 DEF Create, Goto, Shape
    <2>4. file'[f] = file[f] /\ f \in File
        BY <1>3, <2>2 DEF Create, Shape, File
    <2>5. QED
        BY <2>1, <2>2, <2>3, <2>4 DEF SettledInv
<1>4. ASSUME NEW p \in Process, Fill(p)
      PROVE  SettledInv'
    <2>1. on[p] \in File
        BY DEF Shape
    <2>2. PICK s \in {"read", "push", "serving", "exit"}, g \in KeyFile :
             Goto(p, s, g)
        BY <1>4, <2>1, ProceedGoes DEF Fill
    <2>3. PICK content : /\ file' = [file EXCEPT ![on[p]] = content]
                         /\ Settle(p, content)
        BY <1>4 DEF Fill
    <2>4. SUFFICES ASSUME NEW f \in KeyFile, settled'[f] # NoFile
                   PROVE  /\ file'[f] = settled'[f]
                          /\ \A q \in Process : on'[q] = f
                                                  => pc'[q] \notin Writing
        BY DEF SettledInv
    <2>5. CASE on[p] = f
        <3>1. settled[f] = NoFile
            BY <1>4, <2>5 DEF Fill, SettledInv, Writing
        <3>2. /\ settled'[f] = content
              /\ \A q \in Process \ {p} : on[q] = f => pc[q] \notin Writing
            BY <2>3, <2>4, <2>5, <3>1 DEF Settle, Shape, Writing
        <3>3. file'[f] = content
            BY <2>1, <2>3, <2>5 DEF Shape
        <3>4. QED
            BY <2>2, <3>2, <3>3 DEF Goto, Shape, Writing
    <2>6. CASE on[p] # f
        <3>1. settled'[f] = settled[f] /\ file'[f] = file[f]
            BY <2>1, <2>3, <2>6 DEF Settle, Shape, File
        <3>2. QED
            BY <2>2, <2>4, <3>1 DEF Goto, Shape, SettledInv, Writing
    <2>7. QED
        BY <2>5, <2>6
<1>5. ASSUME NEW p \in Process, MissingKey(p)
      PROVE  SettledInv'
    <2>1. SUFFICES ASSUME NEW f \in KeyFile, settled[f] # NoFile
                   PROVE  /\ file[f] = settled[f]
                          /\ \A q \in Process : on'[q] = f
                                                  => pc'[q] \notin Writing
        BY <1>5 DEF MissingKey, GenerateKey, SettledInv
    <2>2. on[p] # f
        BY <1>5, <2>1 DEF MissingKey, SettledInv
    <2>3. on' = on /\ \A q \in Process \ {p} : pc'[q] = pc[q]
        BY <1>5 DEF MissingKey, GenerateKey, Goto, Shape
    <2>4. QED
        BY <2>1, <2>2, <2>3 DEF SettledInv
<1>6. ASSUME NEW p \in Process, ReadKey(p)
      PROVE  SettledInv'
    <2>1. on[p] \in File
        BY DEF Shape
    <2>2. PICK s \in {"read", "push", "serving", "exit"}, g \in KeyFile :
             Goto(p, s, g)
        BY <1>6, <2>1, ProceedGoes DEF ReadKey
    <2>3. QED
        BY <1>6, <2>2, GotoKeeps DEF ReadKey, fileVars, File, Writing
<1>7. ASSUME NEW p \in Process, End(p), UNCHANGED <<file, settled>>
      PROVE  SettledInv'
    BY <1>7, EndShape, GotoKeeps DEF File, Writing
<1>8. ASSUME NEW p \in Process, Dies(p)
      PROVE  SettledInv'
    <2>1. Goto(p, "idle", "config")
        BY <1>8 DEF Dies, End
    <2>2. SUFFICES ASSUME NEW f \in KeyFile, settled'[f] # NoFile
                   PROVE  /\ file[f] = settled'[f]
                          /\ \A q \in Process : on'[q] = f
                                                  => pc'[q] \notin Writing
        BY <1>8 DEF Dies, SettledInv
    <2>3. CASE settled'[f] = settled[f]
        BY <2>1, <2>2, <2>3 DEF Goto, Shape, SettledInv, Writing
    <2>4. CASE settled'[f] # settled[f]
        <3>1. /\ on[p] = f
              /\ settled'[f] = file[f]
              /\ \A q \in Process \ {p} : on[q] = f => pc[q] \notin Writing
            BY <1>8, <2>4 DEF Dies, Settle, Shape, Writing
        <3>2. QED
            BY <2>1, <3>1 DEF Goto, Shape, Writing
    <2>5. QED
        BY <2>3, <2>4
<1>9. ASSUME NEW p \in Process, ReadHistory(p)
      PROVE  SettledInv'
    BY <1>9, GotoKeeps DEF ReadHistory, fileVars, File, Writing
<1>10. ASSUME NEW p \in Process, ImportBatch(p)
       PROVE  SettledInv'
    <2>1. CASE UNCHANGED <<pc, on>>
        BY <1>10, <2>1 DEF ImportBatch, SettledInv, fileVars
    <2>2. CASE End(p)
        BY <1>7, <1>10, <2>2 DEF ImportBatch, fileVars
    <2>3. QED
        BY <1>10, <2>1, <2>2 DEF ImportBatch
<1>11. ASSUME UNCHANGED <<fileVars, procVars>>
       PROVE  SettledInv'
    BY <1>11 DEF SettledInv, fileVars, procVars
<1>12. ASSUME NEW p \in Process,
              EmptyKey(p) \/ Exit(p) \/ RecordEntry(p) \/ Push(p)
       PROVE  SettledInv'
    BY <1>7, <1>11, <1>12 DEF EmptyKey, Exit, RecordEntry, Push, fileVars
<1>13. QED
    BY <1>1, <1>2, <1>3, <1>4, <1>5, <1>6, <1>8, <1>9, <1>10, <1>11, <1>12
       DEF Next, FileStep, DbStep, LoadFails, AddCommand, TrimHistory, vars

\* However many commands start at once on a machine without keys, and
\* whichever of them fail: a key that is complete in its file while nobody is
\* about to write it stays there.
THEOREM KeysSettle == Spec => []KeySettles
<1>1. Init => KeyInv
    <2>1. Init => SettledInv
        BY DEF Init, SettledInv
    <2>2. QED
        BY <2>1, ShapeInit DEF KeyInv
<1>2. KeyInv /\ [Next]_vars => KeyInv'
    BY ShapeStep, KeyStep DEF KeyInv
<1>3. KeyInv => KeySettles
    BY DEF KeyInv, SettledInv, KeySettles
<1>4. QED
    BY <1>1, <1>2, <1>3, PTL DEF Spec

-----------------------------------------------------------------------------
(* The device id in the config.                                            *)

Id == Name \cup {NoId}

\* What the processes know of the config.
IdTypes ==
    /\ file["config"] \in Id \cup {NoFile, Empty, Broken}
    /\ moved \in BOOLEAN
    /\ \A p \in Process :
         /\ loaded[p] \in Id /\ arg[p] \in Id
         /\ pc[p] = "check" => cmd[p] = "init"
         /\ pc[p] = "read" => on[p] \in KeyFile
         /\ pc[p] \in Writing /\ on[p] = "config"
              => cmd[p] = "init" /\ value[p] \in Id

\* A config that can be read has the id last written to it.
ConfigIsLast ==
    file["config"] \notin {Empty, Broken} => file["config"] = last_id

\* Inits that overlap know it; one that does not writes the id that is there.
InitsDisturbed ==
    \A p, q \in Process : p # q /\ cmd[p] = "init" /\ cmd[q] = "init"
                            => disturbed[p]

IdCarried ==
    \A p \in Process :
        cmd[p] = "init" /\ ~ disturbed[p] /\ last_id \in Name =>
            /\ pc[p] = "check" => loaded[p] = last_id
            /\ pc[p] \in Writing /\ on[p] = "config" /\ arg[p] = NoId
                 => value[p] = last_id

IdInv == IdTypes /\ ConfigIsLast /\ InitsDisturbed /\ IdCarried

LEMMA IdsDiffer ==
    /\ NoId \notin Name
    /\ NoFile \notin Id /\ Empty \notin Id /\ Broken \notin Id
PROOF BY HostAssumption DEF Name, NoId, Id

LEMMA RenderedId ==
    ASSUME NEW p \in Process, loaded[p] \in Id, arg[p] \in Id
    PROVE  /\ render_config_toml(p) \in Id
           /\ arg[p] = NoId /\ loaded[p] # NoId
                => render_config_toml(p) = loaded[p]
PROOF BY DEF render_config_toml, env_HOSTNAME, First, Id, Name

\* Steps that leave the config alone and write no other file than a key.
LEMMA IdMoves ==
    ASSUME Shape, IdInv, NEW p \in Process, NEW s, NEW f \in File,
           Goto(p, s, f), s # "check", s = "read" => f \in KeyFile,
           s \in Writing => f # "config",
           UNCHANGED <<last_id, moved, cmd, arg, loaded, disturbed>>,
           file'["config"] = file["config"],
           \A q \in Process \ {p} : value'[q] = value[q]
    PROVE  IdInv'
<1>1. \A q \in Process \ {p} : pc'[q] = pc[q] /\ on'[q] = on[q]
    BY DEF Shape, Goto
<1>2. pc'[p] = s /\ on'[p] = f
    BY DEF Shape, Goto
<1>3. IdTypes' /\ ConfigIsLast' /\ InitsDisturbed'
    BY <1>1, <1>2 DEF IdInv, IdTypes, ConfigIsLast, InitsDisturbed
<1>4. IdCarried'
    BY <1>1, <1>2 DEF IdInv, IdCarried
<1>5. QED
    BY <1>3, <1>4 DEF IdInv

\* A process that ends.
LEMMA IdEnds ==
    ASSUME Shape, IdInv, NEW p \in Process, End(p),
           UNCHANGED <<file, last_id, moved>>
    PROVE  IdInv'
<1>1. /\ pc'[p] = "idle" /\ cmd'[p] = "none" /\ loaded'[p] = NoId
      /\ arg'[p] = NoId
      /\ \A q \in Process \ {p} :
           /\ pc'[q] = pc[q] /\ on'[q] = on[q] /\ cmd'[q] = cmd[q]
           /\ arg'[q] = arg[q] /\ loaded'[q] = loaded[q]
           /\ value'[q] = value[q] /\ disturbed'[q] = disturbed[q]
    BY DEF End, Goto, Shape
<1>2. IdTypes'
    BY <1>1 DEF IdInv, IdTypes, Id, Writing
<1>3. ConfigIsLast' /\ InitsDisturbed'
    BY <1>1 DEF IdInv, ConfigIsLast, InitsDisturbed
<1>4. IdCarried'
    BY <1>1 DEF IdInv, IdCarried
<1>5. QED
    BY <1>2, <1>3, <1>4 DEF IdInv

LEMMA IdStart ==
    ASSUME Shape, IdInv, NEW p \in Process, NEW c \in Command, Start(p, c)
    PROVE  /\ IdInv'
           /\ loaded'[p] # NoId => loaded'[p] = last_id
<1>1. PICK s \in {"check", "read", "insert", "history"},
           f \in {"config", "swarm"} :
         /\ Goto(p, s, f)
         /\ s = "check" => c = "init"
         /\ s = "read" => f = "swarm"
    BY BeginGoes DEF Start, StartWith
<1>2. /\ pc'[p] = s /\ on'[p] = f /\ cmd'[p] = c
      /\ loaded'[p] = load_from_path
      /\ \A q \in Process \ {p} :
           /\ pc'[q] = pc[q] /\ on'[q] = on[q] /\ cmd'[q] = cmd[q]
           /\ loaded'[q] = loaded[q]
      /\ UNCHANGED <<file, last_id, moved, value>>
    BY <1>1 DEF Start, StartWith, Shape, Goto, fileVars
<1>3. \A q \in Process \ {p} : arg'[q] = arg[q]
    BY DEF Start, StartWith, Shape
<1>4. /\ load_from_path \in Id
      /\ load_from_path # NoId => load_from_path = last_id
      /\ file["config"] # Empty /\ last_id \in Name => load_from_path = last_id
    BY IdsDiffer DEF IdInv, IdTypes, ConfigIsLast, load_from_path, Id, Start
<1>5. arg'[p] \in Id
    <2>1. flags[menu] \subseteq Id
        BY HostAssumption DEF Shape, Id
    <2>2. QED
        BY <2>1 DEF Start, StartWith, Shape, IdInv, IdTypes
<1>6. IdTypes'
    BY <1>1, <1>2, <1>3, <1>4, <1>5 DEF IdInv, IdTypes, KeyFile, Writing
<1>7. ConfigIsLast'
    BY <1>2 DEF IdInv, ConfigIsLast
<1>8. CASE c = "init"
    <2>1. \A q \in Process :
            disturbed'[q] = IF q = p THEN \/ file["config"] = Empty
                                          \/ \E r \in Process \ {p} :
                                               cmd[r] = "init"
                            ELSE disturbed[q] \/ cmd[q] = "init"
        BY <1>8 DEF Start, StartWith
    <2>2. InitsDisturbed'
        BY <1>2, <2>1 DEF IdInv, InitsDisturbed
    <2>3. IdCarried'
        BY <1>1, <1>2, <1>3, <1>4, <2>1 DEF IdInv, IdCarried, Writing
    <2>4. QED
        BY <1>2, <1>4, <1>6, <1>7, <2>2, <2>3 DEF IdInv
<1>9. CASE c # "init"
    <2>1. UNCHANGED disturbed
        BY <1>9 DEF Start, StartWith
    <2>2. InitsDisturbed'
        BY <1>2, <1>9, <2>1 DEF IdInv, InitsDisturbed
    <2>3. IdCarried'
        BY <1>2, <1>3, <1>9, <2>1 DEF IdInv, IdCarried
    <2>4. QED
        BY <1>2, <1>4, <1>6, <1>7, <2>2, <2>3 DEF IdInv
<1>10. QED
    BY <1>8, <1>9

LEMMA IdCheck ==
    ASSUME Shape, IdInv, NEW p \in Process, CheckConfig(p)
    PROVE  IdInv'
<1>1. CASE Goto(p, "create", "config")
    <2>1. /\ pc'[p] = "create" /\ on'[p] = "config" /\ loaded'[p] = NoId
          /\ \A q \in Process \ {p} :
               pc'[q] = pc[q] /\ on'[q] = on[q] /\ loaded'[q] = loaded[q]
          /\ UNCHANGED <<file, last_id, moved, cmd, arg, disturbed>>
        BY <1>1 DEF CheckConfig, Shape, Goto, fileVars
    <2>2. CASE value' = [value EXCEPT ![p] = render_config_toml(p)]
        <3>1. /\ value'[p] = render_config_toml(p)
              /\ \A q \in Process \ {p} : value'[q] = value[q]
            BY <2>2 DEF Shape
        <3>2. cmd[p] = "init" /\ (~ disturbed[p] /\ last_id \in Name
                                    => loaded[p] = last_id)
            BY DEF CheckConfig, IdInv, IdTypes, IdCarried
        <3>3. IdTypes'
            BY <2>1, <3>1, <3>2, RenderedId
               DEF IdInv, IdTypes, Id
        <3>4. ConfigIsLast' /\ InitsDisturbed'
            BY <2>1 DEF IdInv, ConfigIsLast, InitsDisturbed
        <3>5. IdCarried'
            BY <2>1, <3>1, <3>2, RenderedId, IdsDiffer
               DEF IdInv, IdTypes, IdCarried
        <3>6. QED
            BY <3>3, <3>4, <3>5 DEF IdInv
    <2>3. CASE Proceed(p, "config")
        <3>1. PICK s \in {"read", "push", "serving", "exit"}, f \in KeyFile :
                 Goto(p, s, f)
            BY <2>3, ProceedGoes DEF File
        <3>2. FALSE
            BY <2>1, <3>1 DEF Goto, Shape
        <3>3. QED
            BY <3>2
    <2>4. QED
        BY <2>2, <2>3 DEF CheckConfig
<1>2. CASE Proceed(p, "config") /\ UNCHANGED value
    <2>1. PICK s \in {"read", "push", "serving", "exit"}, f \in KeyFile :
             Goto(p, s, f)
        BY <1>2, ProceedGoes DEF File
    <2>2. /\ pc'[p] = s /\ on'[p] = f /\ loaded'[p] = NoId
          /\ \A q \in Process \ {p} :
               pc'[q] = pc[q] /\ on'[q] = on[q] /\ loaded'[q] = loaded[q]
          /\ UNCHANGED <<file, last_id, moved, cmd, arg, disturbed, value>>
        BY <1>2, <2>1 DEF CheckConfig, Shape, Goto, fileVars
    <2>3. IdTypes' /\ ConfigIsLast' /\ InitsDisturbed'
        BY <2>2 DEF IdInv, IdTypes, ConfigIsLast, InitsDisturbed, Id, Writing
    <2>4. IdCarried'
        BY <2>2 DEF IdInv, IdCarried, Writing
    <2>5. QED
        BY <2>3, <2>4 DEF IdInv
<1>3. QED
    BY <1>1, <1>2 DEF CheckConfig

LEMMA IdCreate ==
    ASSUME Shape, IdInv, NEW p \in Process, Create(p)
    PROVE  IdInv'
<1>1. on[p] \in File
    BY DEF Shape
<1>2. /\ pc[p] = "create" /\ pc'[p] = "fill"
      /\ \A q \in Process \ {p} : pc'[q] = pc[q]
      /\ UNCHANGED <<on, last_id, moved, cmd, arg, loaded, value, disturbed>>
    BY DEF Create, Goto, Shape
<1>3. file'["config"] \in {file["config"], Empty}
    BY <1>1 DEF Create, Shape, File
<1>4. IdTypes'
    BY <1>2, <1>3 DEF IdInv, IdTypes, Writing
<1>5. ConfigIsLast' /\ InitsDisturbed'
    BY <1>2, <1>3 DEF IdInv, ConfigIsLast, InitsDisturbed
<1>6. IdCarried'
    BY <1>2 DEF IdInv, IdCarried, Writing
<1>7. QED
    BY <1>4, <1>5, <1>6 DEF IdInv

LEMMA IdFill ==
    ASSUME Shape, IdInv, NEW p \in Process, Fill(p)
    PROVE  IdInv'
<1>1. on[p] \in File
    BY DEF Shape
<1>2. PICK s \in {"read", "push", "serving", "exit"}, g \in KeyFile :
         Goto(p, s, g)
    BY <1>1, ProceedGoes DEF Fill
<1>3. /\ pc'[p] = s /\ on'[p] = g /\ arg'[p] = NoId
      /\ \A q \in Process \ {p} :
           /\ pc'[q] = pc[q] /\ on'[q] = on[q]
           /\ arg'[q] = arg[q] /\ value'[q] = value[q]
      /\ UNCHANGED <<cmd, loaded, disturbed>>
    BY <1>2 DEF Fill, Goto, Shape
<1>4. PICK content \in {value[p]} \cup
            IF on[p] = "config" /\ file[on[p]] \notin {Empty, value[p]}
            THEN {Broken} ELSE {} : file' = [file EXCEPT ![on[p]] = content]
    BY DEF Fill
<1>5. InitsDisturbed'
    BY <1>3 DEF IdInv, InitsDisturbed
<1>6. CASE on[p] = "config"
    <2>1. /\ file'["config"] \in {value[p], Broken}
          /\ last_id' = value[p] /\ moved' \in BOOLEAN
        BY <1>4, <1>6 DEF Fill, Shape, File, IdInv, IdTypes
    <2>2. cmd[p] = "init" /\ value[p] \in Id
        BY <1>6 DEF Fill, IdInv, IdTypes, Writing
    <2>3. IdTypes' /\ ConfigIsLast'
        BY <1>3, <2>1, <2>2 DEF IdInv, IdTypes, ConfigIsLast, Id, Writing
    <2>4. \A q \in Process \ {p} : cmd[q] = "init" => disturbed[q]
        BY <2>2 DEF IdInv, InitsDisturbed
    <2>5. IdCarried'
        BY <1>3, <2>4 DEF IdCarried, Writing
    <2>6. QED
        BY <1>5, <2>3, <2>5 DEF IdInv
<1>7. CASE on[p] # "config"
    <2>1. file'["config"] = file["config"] /\ UNCHANGED <<last_id, moved>>
        BY <1>1, <1>4, <1>7 DEF Fill, Shape, File
    <2>2. IdTypes' /\ ConfigIsLast'
        BY <1>3, <2>1 DEF IdInv, IdTypes, ConfigIsLast, Id, Writing
    <2>3. IdCarried'
        BY <1>3, <2>1 DEF IdInv, IdCarried, Writing
    <2>4. QED
        BY <1>5, <2>2, <2>3 DEF IdInv
<1>8. QED
    BY <1>6, <1>7

LEMMA IdStep ==
    ASSUME Shape, IdInv, [Next]_vars
    PROVE  IdInv'
<1>1. ASSUME NEW p \in Process, MissingKey(p)
      PROVE  IdInv'
    <2>1. on[p] \in KeyFile
        BY <1>1 DEF MissingKey, IdInv, IdTypes
    <2>2. /\ Goto(p, "create", on[p]) /\ file' = file
          /\ UNCHANGED <<last_id, moved, cmd, arg, loaded, disturbed>>
          /\ \A q \in Process \ {p} : value'[q] = value[q]
        BY <1>1 DEF MissingKey, GenerateKey, Shape
    <2>3. QED
        BY <2>1, <2>2, IdMoves DEF File, KeyFile
<1>2. ASSUME NEW p \in Process, ReadKey(p)
      PROVE  IdInv'
    <2>1. on[p] \in File
        BY DEF Shape
    <2>2. PICK s \in {"read", "push", "serving", "exit"}, g \in KeyFile :
             Goto(p, s, g)
        BY <1>2, <2>1, ProceedGoes DEF ReadKey
    <2>3. /\ file' = file
          /\ UNCHANGED <<last_id, moved, cmd, arg, loaded, disturbed, value>>
        BY <1>2 DEF ReadKey, fileVars
    <2>4. QED
        BY <2>2, <2>3, IdMoves DEF File, Writing
<1>3. ASSUME NEW p \in Process,
             EmptyKey(p) \/ Exit(p) \/ RecordEntry(p) \/ Dies(p)
      PROVE  IdInv'
    BY <1>3, IdEnds DEF EmptyKey, Exit, RecordEntry, Dies, fileVars
<1>4. ASSUME NEW p \in Process, ReadHistory(p)
      PROVE  IdInv'
    <2>1. /\ Goto(p, "batch", "config") /\ file' = file
          /\ UNCHANGED <<last_id, moved, cmd, arg, loaded, disturbed, value>>
        BY <1>4 DEF ReadHistory, fileVars
    <2>2. QED
        BY <2>1, IdMoves DEF File, Writing
<1>5. ASSUME UNCHANGED <<file, last_id, moved, cmd, pc, on, arg, loaded,
                         value, disturbed>>
      PROVE  IdInv'
    BY <1>5 DEF IdInv, IdTypes, ConfigIsLast, InitsDisturbed, IdCarried
<1>6. ASSUME NEW p \in Process, ImportBatch(p)
      PROVE  IdInv'
    BY <1>5, <1>6, IdEnds DEF ImportBatch, fileVars
<1>7. ASSUME NEW p \in Process, Push(p)
      PROVE  IdInv'
    BY <1>5, <1>7, IdEnds DEF Push, fileVars, procVars
<1>8. ASSUME UNCHANGED <<fileVars, procVars>>
      PROVE  IdInv'
    BY <1>5, <1>8 DEF fileVars, procVars
<1>9. QED
    BY <1>1, <1>2, <1>3, <1>4, <1>6, <1>7, <1>8, IdStart, IdCheck, IdCreate,
       IdFill
       DEF Next, FileStep, DbStep, LoadFails, AddCommand, TrimHistory, vars

LEMMA IdInit == Init => IdInv
<1> SUFFICES ASSUME Init
             PROVE  IdInv
    OBVIOUS
<1>1. /\ file["config"] = last_id /\ file["config"] \in Initial
      /\ moved = FALSE
      /\ \A p \in Process : /\ pc[p] = "idle" /\ cmd[p] = "none"
                            /\ loaded[p] = NoId /\ arg[p] = NoId
    BY DEF Init, File
<1>2. IdTypes
    BY <1>1, HostAssumption DEF IdTypes, Id, Writing
<1>3. QED
    BY <1>1, <1>2 DEF IdInv, ConfigIsLast, InitsDisturbed, IdCarried

\* Only --device-id changes a device id that is configured, unless two inits
\* overlap or one finds an empty config: an init that was alone writes the id
\* it read, even with --force.
THEOREM InitKeepsId == Spec => IdKept
<1> DEFINE Fills == \E p \in Process : /\ pc[p] = "fill" /\ on[p] = "config"
                                       /\ arg[p] # NoId \/ disturbed[p]
<1>1. Init => Shape /\ IdInv
    BY ShapeInit, IdInit
<1>2. Shape /\ IdInv /\ [Next]_vars => (Shape /\ IdInv)'
    BY ShapeStep, IdStep
<1>3. ASSUME Shape, IdInv, [Next]_vars, moved', ~ moved
      PROVE  Fills
    <2>1. PICK p \in Process : Fill(p)
        BY <1>3 DEF Next, FileStep, DbStep, Start, StartWith, LoadFails,
                    CheckConfig, Create, MissingKey, GenerateKey, ReadKey,
                    EmptyKey, RecordEntry, Push, ReadHistory, ImportBatch,
                    Exit, Dies, AddCommand, TrimHistory, vars, fileVars
    <2>2. /\ on[p] = "config" /\ pc[p] = "fill"
          /\ last_id \in Name /\ value[p] # last_id
        BY <1>3, <2>1 DEF Fill
    <2>3. cmd[p] = "init"
        BY <2>2, <1>3 DEF IdInv, IdTypes, Writing
    <2>4. arg[p] # NoId \/ disturbed[p]
        BY <2>2, <2>3, <1>3 DEF IdInv, IdCarried, Writing
    <2>5. QED
        BY <2>2, <2>4
<1>4. Shape /\ IdInv /\ [Next]_vars => [moved' => moved \/ Fills]_vars
    BY <1>3
<1>5. QED
    BY <1>1, <1>2, <1>4, PTL DEF Spec, IdKept

-----------------------------------------------------------------------------
(* What a sync leaves behind.                                              *)

\* As long as the id did not change, a command that read one read the last
\* one, and stored and pushed its entries under it unless something else set
\* the id.
Known ==
    ~ moved => \A p \in Process : loaded[p] # NoId => loaded[p] = last_id

Sources == {"flag", "variable", "config", "host"}

FromConfig(l) ==
    /\ l.source \in Sources
    /\ ~ moved /\ l.source = "config" => l.device_id = last_id /\ last_id \in Name

RowsKnown == \A r \in rows : FromConfig(r)

LeftKnown ==
    \A l \in left : /\ FromConfig(l) /\ FromConfig(l.row)
                    /\ l.device_id # l.row.device_id

LeftInv == Known /\ RowsKnown /\ LeftKnown

\* Of two ids that differ one is not the one in the config.
LEMMA LeftMisnamed == LeftInv => LeftOnlyMisnamed
BY DEF LeftInv, LeftKnown, LeftOnlyMisnamed, FromConfig, Sources, Overrides

\* Steps that learn no id and store nothing.
LEMMA LeftKeeps ==
    ASSUME LeftInv, UNCHANGED <<last_id, moved, rows, left>>,
           \A p \in Process : loaded'[p] \in {loaded[p], NoId}
    PROVE  LeftInv'
PROOF BY DEF LeftInv, Known, RowsKnown, LeftKnown, FromConfig

\* A record of what p does has the id from the config if that is its source.
LEMMA SourceKnown ==
    ASSUME LeftInv, IdInv, UNCHANGED <<last_id, moved>>,
           NEW p \in Process, NEW d, NEW l,
           l.source = Source(p), l.device_id = First(device_id_setting(p), d)
    PROVE  FromConfig(l) /\ FromConfig(l)'
<1>1. Source(p) = "config" => First(device_id_setting(p), d) = loaded[p]
                              /\ loaded[p] # NoId
    BY DEF Source, device_id_setting, First
<1>2. ~ moved /\ loaded[p] # NoId => loaded[p] = last_id /\ last_id \in Name
    BY DEF LeftInv, Known, IdInv, IdTypes, Id
<1>3. Source(p) \in Sources
    BY DEF Source, Sources
<1>4. QED
    BY <1>1, <1>2, <1>3 DEF FromConfig

LEMMA LeftStored ==
    ASSUME LeftInv, IdInv, UNCHANGED <<last_id, moved, left>>,
           \A q \in Process : loaded'[q] \in {loaded[q], NoId},
           NEW p \in Process,
           \A r \in rows' : r \in rows \/ \E id, d, b :
               r = Stored(id, First(device_id_setting(p), d), b, p)
    PROVE  LeftInv'
<1>1. Known' /\ LeftKnown'
    BY DEF LeftInv, Known, LeftKnown, FromConfig
<1>2. ASSUME NEW r \in rows'
      PROVE  FromConfig(r)'
    <2>1. CASE r \in rows
        BY <2>1 DEF LeftInv, RowsKnown, FromConfig
    <2>2. CASE r \notin rows
        <3>1. PICK id, d, b : r = Stored(id, First(device_id_setting(p), d), b, p)
            BY <2>2
        <3>2. r.source = Source(p) /\ r.device_id = First(device_id_setting(p), d)
            BY <3>1 DEF Stored
        <3>3. QED
            BY <3>2, SourceKnown
    <2>3. QED
        BY <2>1, <2>2
<1>3. RowsKnown'
    BY <1>2 DEF RowsKnown, FromConfig
<1>4. QED
    BY <1>1, <1>3 DEF LeftInv

LEMMA LeftStep ==
    ASSUME Shape, IdInv, LeftInv, [Next]_vars
    PROVE  LeftInv'
<1>1. ASSUME NEW p \in Process, NEW c \in Command, Start(p, c)
      PROVE  LeftInv'
    <2>1. \A q \in Process \ {p} : loaded'[q] = loaded[q]
        BY <1>1 DEF Start, StartWith, Shape
    <2>2. loaded'[p] # NoId => loaded'[p] = last_id
        BY <1>1, IdStart
    <2>3. UNCHANGED <<last_id, moved, rows, left>>
        BY <1>1 DEF Start, StartWith, fileVars, dbVars
    <2>4. QED
        BY <2>1, <2>2, <2>3
           DEF LeftInv, Known, RowsKnown, LeftKnown, FromConfig
<1>2. ASSUME NEW p \in Process, Fill(p)
      PROVE  LeftInv'
    <2>1. UNCHANGED <<loaded, rows, left>>
        BY <1>2 DEF Fill, dbVars
    <2>2. CASE UNCHANGED <<last_id, moved>>
        BY <2>1, <2>2, LeftKeeps
    <2>3. CASE /\ last_id' = value[p]
               /\ moved' = (moved \/ (last_id \in Name /\ value[p] # last_id))
        <3>1. ~ moved' => ~ moved /\ (last_id \in Name => last_id' = last_id)
            BY <2>3
        <3>2. ~ moved' /\ last_id \notin Name
                => \A q \in Process : loaded[q] = NoId
            BY <3>1 DEF LeftInv, Known, IdInv, IdTypes, Id
        <3>3. QED
            BY <2>1, <3>1, <3>2
               DEF LeftInv, Known, RowsKnown, LeftKnown, FromConfig
    <2>4. QED
        BY <1>2, <2>2, <2>3 DEF Fill
<1>3. ASSUME NEW p \in Process, RecordEntry(p)
      PROVE  LeftInv'
    <2>1. UNCHANGED <<last_id, moved, left>>
        BY <1>3 DEF RecordEntry, fileVars
    <2>2. \A q \in Process : loaded'[q] \in {loaded[q], NoId}
        BY <1>3 DEF RecordEntry, End, Shape
    <2>3. \A r \in rows' : r \in rows \/ \E id, d, b :
             r = Stored(id, First(device_id_setting(p), d), b, p)
        BY <1>3 DEF RecordEntry, InsertNew, record_device_id
    <2>4. QED
        BY <2>1, <2>2, <2>3, LeftStored
<1>4. ASSUME NEW p \in Process, ImportBatch(p)
      PROVE  LeftInv'
    <2>1. UNCHANGED <<last_id, moved, left>>
        BY <1>4 DEF ImportBatch, fileVars
    <2>2. \A q \in Process : loaded'[q] \in {loaded[q], NoId}
        BY <1>4 DEF ImportBatch, End, Shape
    <2>3. \A r \in rows' : r \in rows \/ \E id, d, b :
             r = Stored(id, First(device_id_setting(p), d), b, p)
        BY <1>4 DEF ImportBatch, InsertNew, import_device_id
    <2>4. QED
        BY <2>1, <2>2, <2>3, LeftStored
<1>5. ASSUME NEW p \in Process, Push(p)
      PROVE  LeftInv'
    <2>1. UNCHANGED <<last_id, moved, rows>>
        BY <1>5 DEF Push, fileVars
    <2>2. \A q \in Process : loaded'[q] \in {loaded[q], NoId}
        BY <1>5 DEF Push, End, Shape, procVars
    <2>3. Known' /\ RowsKnown'
        BY <2>1, <2>2 DEF LeftInv, Known, RowsKnown, FromConfig
    <2>4. ASSUME NEW l \in left'
          PROVE  /\ FromConfig(l)' /\ FromConfig(l.row)'
                 /\ l.device_id # l.row.device_id
        <3>1. CASE l \in left
            BY <2>1, <3>1 DEF LeftInv, LeftKnown, FromConfig
        <3>2. CASE l \notin left
            <4>1. PICK r \in rows :
                    /\ l = [row |-> r, device_id |-> resolve_device_id(p),
                            source |-> Source(p)]
                    /\ r.device_id # resolve_device_id(p)
                BY <1>5, <3>2 DEF Push
            <4>2. FromConfig(l)'
                BY <2>1, <4>1, SourceKnown DEF resolve_device_id
            <4>3. FromConfig(r)'
                BY <2>1 DEF LeftInv, RowsKnown, FromConfig
            <4>4. QED
                BY <4>1, <4>2, <4>3
        <3>3. QED
            BY <3>1, <3>2
    <2>5. LeftKnown'
        BY <2>4 DEF LeftKnown, FromConfig
    <2>6. QED
        BY <2>3, <2>5 DEF LeftInv
<1>6. ASSUME NEW p \in Process, CheckConfig(p) \/ Dies(p) \/ EmptyKey(p)
                                  \/ Exit(p)
      PROVE  LeftInv'
    <2>1. UNCHANGED <<last_id, moved, rows, left>>
        BY <1>6 DEF CheckConfig, Dies, EmptyKey, Exit, fileVars, dbVars
    <2>2. \A q \in Process : loaded'[q] \in {loaded[q], NoId}
        BY <1>6 DEF CheckConfig, Dies, EmptyKey, Exit, End, Shape
    <2>3. QED
        BY <2>1, <2>2, LeftKeeps
<1>7. ASSUME NEW p \in Process, Create(p) \/ MissingKey(p) \/ ReadKey(p)
                                  \/ ReadHistory(p)
      PROVE  LeftInv'
    <2>1. UNCHANGED <<last_id, moved, rows, left, loaded>>
        BY <1>7 DEF Create, MissingKey, GenerateKey, ReadKey, ReadHistory,
                    fileVars, dbVars
    <2>2. QED
        BY <2>1, LeftKeeps
<1>8. ASSUME UNCHANGED <<fileVars, procVars, dbVars>>
      PROVE  LeftInv'
    BY <1>8, LeftKeeps DEF fileVars, procVars, dbVars
<1>9. QED
    BY <1>1, <1>2, <1>3, <1>4, <1>5, <1>6, <1>7, <1>8
       DEF Next, FileStep, DbStep, LoadFails, AddCommand, TrimHistory, vars

\* A push leaves nothing behind but what itself or the command that stored it
\* had no setting for, or one that is not the config's, or what was stored
\* under another id than the config has now.
THEOREM SyncLeavesOnlyMisnamed == Spec => []LeftOnlyMisnamed
<1>1. Init => Shape /\ IdInv /\ LeftInv
    <2>1. Init => LeftInv
        BY DEF Init, LeftInv, Known, RowsKnown, LeftKnown
    <2>2. QED
        BY <2>1, ShapeInit, IdInit
<1>2. Shape /\ IdInv /\ LeftInv /\ [Next]_vars => (Shape /\ IdInv /\ LeftInv)'
    BY ShapeStep, IdStep, LeftStep
<1>3. QED
    BY <1>1, <1>2, LeftMisnamed, PTL DEF Spec

-----------------------------------------------------------------------------
(* Induction up to n, over the elements of a set.                          *)

LEMMA UpTo ==
    ASSUME NEW n \in Nat, NEW S, 0 \in S,
           \A m \in 0 .. n : m \in S /\ m < n => m + 1 \in S
    PROVE  \A m \in 0 .. n : m \in S
<1> SUFFICES ASSUME NEW x \in 0 .. n, x \notin S
             PROVE  FALSE
    OBVIOUS
<1> DEFINE rest == {0 .. m : m \in (0 .. n) \ S}
<1>1. rest \subseteq FiniteSubsetsOf(Nat) /\ rest # {}
    <2>1. \A m \in 0 .. n : IsFiniteSet(0 .. m) /\ 0 .. m \subseteq Nat
        BY FS_Interval
    <2>2. \A m \in 0 .. n : 0 .. m \in FiniteSubsetsOf(Nat)
        BY <2>1 DEF FiniteSubsetsOf
    <2>3. QED
        BY <2>2
<1>2. PICK u \in rest : \A v \in rest : <<v, u>> \notin StrictSubsetOrdering(Nat)
    BY <1>1, FS_StrictSubsetOrderingWellFounded, WFMin
<1>3. PICK m \in (0 .. n) \ S : u = 0 .. m
    BY <1>2
<1>4. m # 0 /\ m - 1 \in 0 .. n
    OBVIOUS
<1>5. m - 1 \notin S
    <2>1. m - 1 \in S => m \in S
        BY <1>4
    <2>2. QED
        BY <2>1
<1>6. 0 .. (m - 1) \in rest
    BY <1>4, <1>5
<1>7. 0 .. (m - 1) \subseteq 0 .. m /\ 0 .. (m - 1) # 0 .. m
    <2>1. m \in 0 .. m /\ m \notin 0 .. (m - 1)
        OBVIOUS
    <2>2. QED
        BY <2>1
<1>8. 0 .. (m - 1) \subseteq Nat /\ 0 .. m \subseteq Nat
    OBVIOUS
<1>9. <<0 .. (m - 1), u>> \in StrictSubsetOrdering(Nat)
    BY <1>3, <1>7, <1>8 DEF StrictSubsetOrdering
<1>10. QED
    BY <1>2, <1>6, <1>9

\* A function on 0 .. n is defined by its first value and a step.
Iterable(n, S, first, step) ==
    \E f \in [0 .. n -> S] : /\ f[0] = first
                             /\ \A i \in 1 .. n : f[i] = step[i][f[i - 1]]

LEMMA Recursion ==
    ASSUME NEW n \in Nat, NEW S, NEW first \in S, NEW step \in [1 .. n -> [S -> S]]
    PROVE  Iterable(n, S, first, step)
<1> DEFINE Good(m) == \E f \in [0 .. m -> S] :
                        /\ f[0] = first
                        /\ \A i \in 1 .. m : f[i] = step[i][f[i - 1]]
           good == {m \in 0 .. n : Good(m)}
<1>1. 0 \in good
    <2> DEFINE g == [i \in 0 .. 0 |-> first]
    <2>1. g \in [0 .. 0 -> S] /\ g[0] = first /\ 1 .. 0 = {}
        OBVIOUS
    <2> HIDE DEF g
    <2>2. Good(0)
        BY <2>1
    <2>3. QED
        BY <2>2
<1>2. ASSUME NEW m \in 0 .. n, m \in good, m < n
      PROVE  m + 1 \in good
    <2>1. PICK f \in [0 .. m -> S] :
             /\ f[0] = first
             /\ \A i \in 1 .. m : f[i] = step[i][f[i - 1]]
        BY <1>2
    <2> DEFINE g == [i \in 0 .. m + 1 |->
                       IF i = m + 1 THEN step[m + 1][f[m]] ELSE f[i]]
    <2>2. step[m + 1][f[m]] \in S
        <3>1. m + 1 \in 1 .. n /\ m \in 0 .. m
            BY <1>2
        <3>2. step[m + 1] \in [S -> S] /\ f[m] \in S
            BY <3>1
        <3>3. QED
            BY <3>2
    <2>3. g \in [0 .. m + 1 -> S]
        BY <2>2
    <2>4. g[0] = first
        BY <2>1
    <2>5. ASSUME NEW i \in 1 .. m + 1
          PROVE  g[i] = step[i][g[i - 1]]
        <3>1. g[i - 1] = f[i - 1]
            OBVIOUS
        <3>2. CASE i = m + 1
            BY <3>1, <3>2
        <3>3. CASE i # m + 1
            <4>1. i \in 1 .. m
                BY <3>3
            <4>2. QED
                BY <2>1, <3>1, <3>3, <4>1
        <3>4. QED
            BY <3>2, <3>3
    <2>6. Good(m + 1)
        BY <2>3, <2>4, <2>5
    <2>7. QED
        BY <1>2, <2>6
<1>3. n \in good
    <2> HIDE DEF good
    <2>1. \A m \in 0 .. n : m \in good
        BY <1>1, <1>2, UpTo
    <2>2. QED
        BY <2>1
<1>4. QED
    BY <1>3 DEF Iterable

-----------------------------------------------------------------------------
(* What the parsers read.                                                  *)

Line == [ts : Nat, cmd : Cmd \cup {NoCmd}, born : Nat, at : Nat]

Record == [source_index : Nat, ts_unix : Nat, cmd : Cmd \cup {NoCmd},
           born : Nat, at : Nat]

\* out and next_ts of parse_bash_history, before and after a line.
BashState == [out : Seq(Record), next_ts : Nat]

NothingRead == [out |-> <<>>, next_ts |-> NoTs]

ReadLine(acc, line) ==
    IF line.ts # NoTs THEN [acc EXCEPT !.next_ts = line.ts]
    ELSE [out |-> Append(acc.out, HistoryRecord(Len(acc.out),
                                                acc.next_ts, line)),
          next_ts |-> NoTs]

LEMMA RecordType ==
    ASSUME NEW i \in Nat, NEW ts \in Nat, NEW line \in Line
    PROVE  HistoryRecord(i, ts, line) \in Record
BY DEF HistoryRecord, Line, Record

LEMMA ReadLineType ==
    ASSUME NEW acc \in BashState, NEW line \in Line
    PROVE  ReadLine(acc, line) \in BashState
<1>1. CASE line.ts # NoTs
    BY <1>1 DEF ReadLine, BashState, Line
<1>2. CASE line.ts = NoTs
    <2>1. acc.out \in Seq(Record) /\ acc.next_ts \in Nat
        BY DEF BashState
    <2>2. HistoryRecord(Len(acc.out), acc.next_ts, line) \in Record
        BY <2>1, RecordType
    <2>3. Append(acc.out, HistoryRecord(Len(acc.out), acc.next_ts, line))
            \in Seq(Record)
        BY <2>1, <2>2
    <2>4. NoTs \in Nat
        BY DEF NoTs
    <2>5. QED
        BY <1>2, <2>3, <2>4 DEF ReadLine, BashState
<1>3. QED
    BY <1>1, <1>2

LEMMA BashReadSteps ==
    ASSUME NEW content \in Seq(Line)
    PROVE  /\ BashRead(content) \in [0 .. Len(content) -> BashState]
           /\ BashRead(content)[0] = NothingRead
           /\ \A i \in 1 .. Len(content) :
                BashRead(content)[i] = ReadLine(BashRead(content)[i - 1],
                                                content[i])
<1> DEFINE Step(g) == [n \in 0 .. Len(content) |->
                         IF n = 0 THEN NothingRead
                         ELSE ReadLine(g[n - 1], content[n])]
           step == [i \in 1 .. Len(content) |->
                      [acc \in BashState |-> ReadLine(acc, content[i])]]
<1>1. step \in [1 .. Len(content) -> [BashState -> BashState]]
    BY ReadLineType
<1>2. NothingRead \in BashState
    BY DEF NothingRead, BashState, NoTs
<1>3. Len(content) \in Nat
    OBVIOUS
<1>4. PICK f \in [0 .. Len(content) -> BashState] :
         /\ f[0] = NothingRead
         /\ \A i \in 1 .. Len(content) : f[i] = step[i][f[i - 1]]
    <2> HIDE DEF step
    <2>1. Iterable(Len(content), BashState, NothingRead, step)
        BY <1>1, <1>2, <1>3, Recursion
    <2>2. QED
        BY <2>1 DEF Iterable
<1>5. ASSUME NEW i \in 1 .. Len(content)
      PROVE  f[i] = ReadLine(f[i - 1], content[i])
    <2>1. f[i - 1] \in BashState
        BY <1>3
    <2>2. f[i] = step[i][f[i - 1]]
        BY <1>4
    <2>3. QED
        BY <2>1, <2>2
<1>6. f = Step(f)
    BY <1>4, <1>5
<1>7. BashRead(content) = (CHOOSE g : g = Step(g))
    BY Zenon DEF BashRead, ReadLine, NothingRead
<1> DEFINE read == BashRead(content)
<1>8. read = Step(read)
    <2> HIDE DEF Step
    <2>1. QED
        BY <1>6, <1>7
<1> HIDE DEF read
<1>9. read[0] = NothingRead
    BY <1>3, <1>8
<1>10. \A i \in 1 .. Len(content) : read[i] = ReadLine(read[i - 1], content[i])
    BY <1>8
<1>11. read = f
    <2> DEFINE same == {m \in 0 .. Len(content) : read[m] = f[m]}
    <2>1. 0 \in same
        BY <1>3, <1>4, <1>9
    <2>2. ASSUME NEW m \in 0 .. Len(content), m \in same, m < Len(content)
          PROVE  m + 1 \in same
        <3>1. m + 1 \in 1 .. Len(content) /\ (m + 1) - 1 = m
            BY <1>3, <2>2
        <3>2. read[m + 1] = ReadLine(read[m], content[m + 1])
            BY <1>10, <3>1
        <3>3. f[m + 1] = ReadLine(f[m], content[m + 1])
            BY <1>5, <3>1
        <3>4. QED
            BY <2>2, <3>1, <3>2, <3>3
    <2> HIDE DEF same
    <2>3. \A m \in 0 .. Len(content) : m \in same
        BY <1>3, <2>1, <2>2, UpTo
    <2>4. \A m \in 0 .. Len(content) : read[m] = f[m]
        BY <2>3 DEF same
    <2>5. read = [m \in 0 .. Len(content) |-> read[m]]
        BY <1>8
    <2>6. QED
        BY <2>4, <2>5
<1>12. QED
    BY <1>9, <1>10, <1>11 DEF read

\* What an import inserts comes from its records.
LEMMA ImportedType ==
    ASSUME NEW S, NEW records \in Seq(S), NEW device_id
    PROVE  Imported(records, device_id)[Len(records)]
             \in Seq({ImportedEntry(records, i, device_id) :
                        i \in 1 .. Len(records)})
<1> DEFINE E == {ImportedEntry(records, i, device_id) :
                   i \in 1 .. Len(records)}
           Add(buf, n) == IF records[n].cmd \in Skipped THEN buf
                          ELSE Append(buf, ImportedEntry(records, n, device_id))
           Step(g) == [n \in 0 .. Len(records) |->
                         IF n = 0 THEN <<>> ELSE Add(g[n - 1], n)]
           step == [i \in 1 .. Len(records) |-> [b \in Seq(E) |-> Add(b, i)]]
<1>0. Len(records) \in Nat /\ <<>> \in Seq(E)
    OBVIOUS
<1>1. ASSUME NEW i \in 1 .. Len(records), NEW b \in Seq(E)
      PROVE  Add(b, i) \in Seq(E)
    <2>1. ImportedEntry(records, i, device_id) \in E
        OBVIOUS
    <2> HIDE DEF E
    <2>2. QED
        BY <2>1
<1>2. step \in [1 .. Len(records) -> [Seq(E) -> Seq(E)]]
    <2> HIDE DEF E, Add
    <2>1. QED
        BY <1>1
<1>3. PICK f \in [0 .. Len(records) -> Seq(E)] :
         /\ f[0] = <<>>
         /\ \A i \in 1 .. Len(records) : f[i] = step[i][f[i - 1]]
    <2> HIDE DEF step, E
    <2>1. Iterable(Len(records), Seq(E), <<>>, step)
        BY <1>0, <1>2, Recursion
    <2>2. QED
        BY <2>1 DEF Iterable
<1> HIDE DEF E
<1>4. ASSUME NEW i \in 1 .. Len(records)
      PROVE  f[i] = Add(f[i - 1], i)
    <2>1. f[i - 1] \in Seq(E)
        BY <1>0
    <2>2. f[i] = step[i][f[i - 1]]
        BY <1>3
    <2> HIDE DEF Add
    <2>3. QED
        BY <2>1, <2>2
<1>5. f = Step(f)
    <2> HIDE DEF Add
    <2>1. QED
        BY <1>3, <1>4
<1>6. Imported(records, device_id) = (CHOOSE g : g = Step(g))
    BY Zenon DEF Imported
<1> DEFINE buf == Imported(records, device_id)
<1>7. buf = Step(buf)
    <2> HIDE DEF Step
    <2>1. QED
        BY <1>5, <1>6
<1> HIDE DEF buf, Add
<1>8. buf[0] = <<>>
    BY <1>0, <1>7
<1>9. \A i \in 1 .. Len(records) : buf[i] = Add(buf[i - 1], i)
    BY <1>7
<1> DEFINE typed == {m \in 0 .. Len(records) : buf[m] \in Seq(E)}
<1>10. 0 \in typed
    BY <1>0, <1>8
<1>11. ASSUME NEW m \in 0 .. Len(records), m \in typed, m < Len(records)
       PROVE  m + 1 \in typed
    <2>1. m + 1 \in 1 .. Len(records) /\ (m + 1) - 1 = m
        BY <1>0, <1>11
    <2>2. buf[m + 1] = Add(buf[m], m + 1)
        BY <1>9, <2>1
    <2>3. QED
        BY <1>0, <1>1, <1>11, <2>1, <2>2
<1> HIDE DEF typed
<1>12. \A m \in 0 .. Len(records) : m \in typed
    BY <1>0, <1>10, <1>11, UpTo
<1>13. Len(records) \in typed
    BY <1>0, <1>12
<1>14. QED
    BY <1>13 DEF typed, buf, E

-----------------------------------------------------------------------------
(* The history file.                                                       *)

CommandLine(line) == shell = "zsh" \/ line.ts = NoTs

HistoryTypes ==
    /\ shell \in {"bash", "zsh"}
    /\ lines \in Nat
    /\ history \in Seq(Line)

\* Every line is from one of the commands so far; a command's last line is
\* older than those that follow.
BornInv ==
    /\ \A i \in 1 .. Len(history) : history[i].born \in 1 .. lines
    /\ \A i, j \in 1 .. Len(history) :
         i < j /\ CommandLine(history[i]) => history[i].born < history[j].born

\* The time of a line is the one the shell meant to give it; of a bash command
\* it is on the line above, and no timestamp stands for itself.
TimeInv ==
    \A i \in 1 .. Len(history) :
        IF CommandLine(history[i])
        THEN history[i].at = IF shell = "zsh" THEN history[i].ts
                             ELSE IF i = 1 THEN NoTs ELSE history[i - 1].ts
        ELSE /\ i < Len(history)
             /\ history[i].at = history[i].ts
             /\ history[i + 1].ts = NoTs

HistoryInv == HistoryTypes /\ BornInv /\ TimeInv

\* What a shell writes: one line, or a timestamp and a command.
LEMMA LinesWritten ==
    ASSUME NEW c, NEW at \in Nat, NEW b \in Nat, shell \in {"bash", "zsh"},
           c \in Cmd \cup {NoCmd}
    PROVE  LET L == Lines(shell, c, at, b)
           IN  /\ L \in Seq(Line)
               /\ \A i \in 1 .. Len(L) : L[i].born = b
               /\ IF shell = "bash" /\ at # NoTs
                  THEN /\ Len(L) = 2
                       /\ L[1].ts = at /\ L[1].at = at
                       /\ L[2].ts = NoTs /\ L[2].at = at
                  ELSE Len(L) = 1 /\ L[1].ts = at /\ L[1].at = at
<1> DEFINE line(ts, text) == [ts |-> ts, cmd |-> text, born |-> b, at |-> at]
           L == Lines(shell, c, at, b)
<1>1. /\ line(at, c) \in Line /\ line(NoTs, c) \in Line
      /\ line(at, NoCmd) \in Line
    BY DEF Line, NoTs
<1>2. CASE shell = "bash" /\ at # NoTs
    <2>1. L = <<line(at, NoCmd), line(NoTs, c)>>
        BY <1>2 DEF Lines
    <2> HIDE DEF L
    <2>2. L \in Seq(Line) /\ Len(L) = 2
        <3> HIDE DEF line
        <3>1. QED
            BY <1>1, <2>1
    <2>3. L[1] = line(at, NoCmd) /\ L[2] = line(NoTs, c)
        BY <2>1
    <2>4. \A i \in 1 .. Len(L) : i = 1 \/ i = 2
        BY <2>2
    <2>5. QED
        BY <1>2, <2>2, <2>3, <2>4 DEF L
<1>3. CASE ~ (shell = "bash" /\ at # NoTs)
    <2>1. L = <<line(at, c)>>
        BY <1>3 DEF Lines
    <2> HIDE DEF L
    <2>2. L \in Seq(Line) /\ Len(L) = 1
        <3> HIDE DEF line
        <3>1. QED
            BY <1>1, <2>1
    <2>3. L[1] = line(at, c)
        BY <2>1
    <2>4. \A i \in 1 .. Len(L) : i = 1
        BY <2>2
    <2>5. QED
        BY <1>3, <2>2, <2>3, <2>4 DEF L
<1>4. QED
    BY <1>2, <1>3

LEMMA HistoryAdded ==
    ASSUME HistoryInv, AddCommand
    PROVE  /\ HistoryInv'
           /\ Len(history) <= Len(history')
           /\ \A i \in 1 .. Len(history) : history'[i] = history[i]
<1>1. PICK c \in Cmd, at \in {NoTs, Now} :
         history' = history \o Lines(shell, c, at, lines + 1)
    BY DEF AddCommand
<1> DEFINE L == Lines(shell, c, at, lines + 1)
           n == Len(history)
<1>2. shell' = shell /\ lines' = lines + 1 /\ at \in Nat /\ lines \in Nat
    BY HistoryAssumption DEF AddCommand, HistoryInv, HistoryTypes, NoTs
<1>3. /\ L \in Seq(Line)
      /\ \A i \in 1 .. Len(L) : L[i].born = lines + 1
      /\ IF shell = "bash" /\ at # NoTs
         THEN /\ Len(L) = 2
              /\ L[1].ts = at /\ L[1].at = at
              /\ L[2].ts = NoTs /\ L[2].at = at
         ELSE Len(L) = 1 /\ L[1].ts = at /\ L[1].at = at
    BY <1>2, LinesWritten DEF HistoryInv, HistoryTypes
<1> HIDE DEF L
<1>4. history \in Seq(Line) /\ n \in Nat
    BY DEF HistoryInv, HistoryTypes
<1>5. /\ history' \in Seq(Line)
      /\ Len(history') = n + Len(L)
      /\ \A i \in 1 .. n : history'[i] = history[i]
      /\ \A i \in 1 .. Len(L) : history'[n + i] = L[i]
    BY <1>1, <1>3, <1>4 DEF L
<1>6. /\ Len(L) \in {1, 2} /\ history'[n + 1] = L[1]
      /\ L[1].ts = at /\ L[1].at = at
      /\ Len(L) = 2 => history'[n + 2] = L[2]
    BY <1>3, <1>5
<1> HIDE DEF n
<1>7. HistoryTypes'
    BY <1>2, <1>5 DEF HistoryInv, HistoryTypes
<1>8. ASSUME NEW i \in 1 .. Len(history')
      PROVE  \/ i \in 1 .. n /\ history'[i] = history[i]
             \/ i = n + 1 /\ history'[i] = L[1] /\ history'[i].born = lines + 1
             \/ /\ i = n + 2 /\ Len(L) = 2 /\ history'[i] = L[2]
                /\ history'[i].born = lines + 1
    <2>1. \/ i \in 1 .. n
          \/ i = n + 1
          \/ i = n + 2 /\ Len(L) = 2
        <3>1. Len(history') = n + Len(L) /\ Len(L) \in {1, 2}
            BY <1>5, <1>6
        <3>2. n \in Nat /\ i \in 1 .. Len(history')
            BY <1>4
        <3>3. CASE Len(L) = 1
            BY <3>1, <3>2, <3>3
        <3>4. CASE Len(L) = 2
            BY <3>1, <3>2, <3>4
        <3>5. QED
            BY <3>1, <3>3, <3>4
    <2>2. /\ L[1].born = lines + 1
          /\ Len(L) = 2 => L[2].born = lines + 1
        BY <1>3, <1>6
    <2>3. QED
        BY <1>5, <1>6, <2>1, <2>2
<1>9. BornInv'
    <2>1. \A i \in 1 .. n : history[i].born \in 1 .. lines
        BY DEF HistoryInv, BornInv, n
    <2>2. \A i \in 1 .. Len(history') : history'[i].born \in 1 .. lines'
        BY <1>2, <1>8, <2>1
    <2>3. ASSUME NEW i \in 1 .. Len(history'), NEW j \in 1 .. Len(history'),
                 i < j, CommandLine(history[i])'
          PROVE  history'[i].born < history'[j].born
        <3>1. CASE j \in 1 .. n
            <4>1. i \in 1 .. n
                BY <1>4, <2>3, <3>1
            <4>2. history'[i] = history[i] /\ history'[j] = history[j]
                BY <1>5, <3>1, <4>1
            <4>3. QED
                BY <1>2, <2>3, <3>1, <4>1, <4>2
                   DEF HistoryInv, BornInv, CommandLine, n
        <3>2. CASE j \notin 1 .. n /\ i \in 1 .. n
            <4>1. history'[j].born = lines + 1
                BY <1>8, <3>2
            <4>2. history'[i].born \in 1 .. lines
                BY <1>5, <2>1, <3>2
            <4>3. QED
                BY <1>2, <4>1, <4>2
        <3>3. CASE j \notin 1 .. n /\ i \notin 1 .. n
            <4>1. i = n + 1 /\ Len(L) = 2 /\ history'[i] = L[1]
                BY <1>4, <1>5, <1>6, <1>8, <2>3, <3>3
            <4>2. shell = "bash" /\ L[1].ts # NoTs
                BY <1>3, <4>1
            <4>3. QED
                BY <1>2, <2>3, <4>1, <4>2 DEF CommandLine
        <3>4. QED
            BY <3>1, <3>2, <3>3
    <2>4. QED
        BY <2>2, <2>3 DEF BornInv
<1>10. n > 0 /\ shell = "bash" => history[n].ts = NoTs
    BY <1>4 DEF HistoryInv, TimeInv, CommandLine, n
<1>11. TimeInv'
    <2> SUFFICES ASSUME NEW i \in 1 .. Len(history')
                 PROVE  IF CommandLine(history[i])'
                        THEN history'[i].at =
                               IF shell = "zsh" THEN history'[i].ts
                               ELSE IF i = 1 THEN NoTs ELSE history'[i - 1].ts
                        ELSE /\ i < Len(history')
                             /\ history'[i].at = history'[i].ts
                             /\ history'[i + 1].ts = NoTs
        BY <1>2 DEF TimeInv
    <2>1. CASE i \in 1 .. n
        <3>1. history'[i] = history[i]
            BY <1>5, <2>1
        <3>2. i # 1 => history'[i - 1] = history[i - 1]
            BY <1>4, <1>5, <2>1
        <3>3. i < n => history'[i + 1] = history[i + 1] /\ i < Len(history')
            BY <1>3, <1>4, <1>5, <2>1
        <3>4. QED
            BY <1>2, <2>1, <3>1, <3>2, <3>3
               DEF HistoryInv, TimeInv, CommandLine, n
    <2>2. CASE i = n + 1
        <3>0. history'[i] = L[1] /\ L[1].ts = at /\ L[1].at = at
            BY <1>6, <2>2
        <3>1. i # 1 => history'[i - 1] = history[n] /\ n > 0
            BY <1>4, <1>5, <2>2
        <3>2. CASE shell = "bash" /\ at # NoTs
            <4>1. Len(L) = 2 /\ L[2].ts = NoTs
                BY <1>3, <3>2
            <4>2. i < Len(history') /\ history'[i + 1] = L[2]
                BY <1>4, <1>5, <1>6, <2>2, <4>1
            <4>3. ~ CommandLine(history[i])'
                BY <1>2, <3>0, <3>2 DEF CommandLine
            <4>4. QED
                BY <3>0, <4>1, <4>2, <4>3
        <3>3. CASE shell = "bash" /\ at = NoTs
            <4>1. CommandLine(history[i])'
                BY <1>2, <3>0, <3>3 DEF CommandLine
            <4>2. QED
                BY <1>10, <3>0, <3>1, <3>3, <4>1
        <3>4. CASE shell # "bash"
            <4>1. shell = "zsh"
                BY <3>4 DEF HistoryInv, HistoryTypes
            <4>2. QED
                BY <1>2, <3>0, <4>1 DEF CommandLine
        <3>5. QED
            BY <3>2, <3>3, <3>4
    <2>3. CASE i = n + 2 /\ Len(L) = 2
        <3>1. i # 1 /\ i - 1 = n + 1
            BY <1>4, <2>3
        <3>2. shell = "bash" /\ at # NoTs
            BY <1>3, <2>3
        <3>3. L[2].ts = NoTs /\ L[2].at = at /\ L[1].ts = at
            BY <1>3, <3>2
        <3>4. history'[i] = L[2] /\ history'[i - 1] = L[1]
            BY <1>6, <2>3, <3>1
        <3>5. CommandLine(history[i])'
            BY <3>3, <3>4 DEF CommandLine
        <3>6. QED
            BY <3>1, <3>2, <3>3, <3>4, <3>5
    <2>4. QED
        BY <1>8, <2>1, <2>2, <2>3
<1>12. QED
    BY <1>3, <1>4, <1>5, <1>7, <1>9, <1>11 DEF HistoryInv, n

LEMMA HistoryTrimmed ==
    ASSUME HistoryInv, TrimHistory
    PROVE  HistoryInv'
<1> DEFINE k == Len(Lines(shell, history[1].cmd, history[1].at,
                          history[1].born))
           n == Len(history)
<1>1. /\ history \in Seq(Line) /\ history # <<>> /\ n \in Nat
      /\ 1 \in 1 .. n
      /\ shell' = shell /\ lines' = lines
    BY DEF TrimHistory, HistoryInv, HistoryTypes
<1>2. history[1] \in Line
    BY <1>1
<1>3. /\ history[1].at \in Nat /\ history[1].born \in Nat
      /\ history[1].cmd \in Cmd \cup {NoCmd}
    BY <1>2 DEF Line
<1>4. k = IF shell = "bash" /\ history[1].at # NoTs THEN 2 ELSE 1
    <2> DEFINE L == Lines(shell, history[1].cmd, history[1].at,
                          history[1].born)
    <2>1. IF shell = "bash" /\ history[1].at # NoTs
          THEN Len(L) = 2 ELSE Len(L) = 1
        <3>1. PICK c \in Cmd \cup {NoCmd}, at \in Nat, b \in Nat :
                 /\ c = history[1].cmd /\ at = history[1].at
                 /\ b = history[1].born
            BY <1>3
        <3>2. shell \in {"bash", "zsh"}
            BY DEF HistoryInv, HistoryTypes
        <3>3. IF shell = "bash" /\ at # NoTs
              THEN Len(Lines(shell, c, at, b)) = 2
              ELSE Len(Lines(shell, c, at, b)) = 1
            BY <3>2, LinesWritten
        <3>4. QED
            BY <3>1, <3>3
    <2>2. k = Len(L)
        OBVIOUS
    <2> HIDE DEF k, L
    <2>3. QED
        BY <2>1, <2>2
<1>5. history' = SubSeq(history, k + 1, n)
    BY DEF TrimHistory
<1> HIDE DEF k
<1>6. /\ k \in 1 .. n
      /\ shell = "bash" => history[k].ts = NoTs
    <2>1. IF CommandLine(history[1])
          THEN history[1].at = IF shell = "zsh" THEN history[1].ts ELSE NoTs
          ELSE /\ 1 < n
               /\ history[1].at = history[1].ts
               /\ history[2].ts = NoTs
        BY <1>1 DEF HistoryInv, TimeInv
    <2>2. shell \in {"bash", "zsh"}
        BY DEF HistoryInv, HistoryTypes
    <2>3. CASE k = 2
        <3>1. shell = "bash" /\ history[1].at # NoTs
            BY <1>4, <2>3
        <3>2. ~ CommandLine(history[1])
            BY <2>1, <3>1
        <3>3. QED
            BY <1>1, <2>1, <2>3, <3>2
    <2>4. CASE k = 1
        <3>1. shell = "bash" => history[1].at = NoTs
            BY <1>4, <2>4
        <3>2. shell = "bash" => history[1].ts = NoTs
            BY <2>1, <3>1 DEF CommandLine
        <3>3. QED
            BY <1>1, <2>4, <3>2
    <2>5. QED
        BY <1>4, <2>3, <2>4
<1>7. /\ history' \in Seq(Line)
      /\ Len(history') = n - k
      /\ \A i \in 1 .. n - k : history'[i] = history[k + i]
    <2>1. k + 1 \in 1 .. n + 1
        BY <1>1, <1>6
    <2>2. QED
        BY <1>1, <1>5, <1>6, <2>1
<1>8. \A i \in 1 .. n - k : k + i \in 1 .. n /\ i \in Nat
    BY <1>1, <1>6
<1>9. HistoryTypes'
    BY <1>1, <1>7 DEF HistoryInv, HistoryTypes
<1>10. BornInv'
    <2>1. \A i \in 1 .. n : history[i].born \in 1 .. lines
        BY DEF HistoryInv, BornInv
    <2>2. \A i \in 1 .. Len(history') : history'[i].born \in 1 .. lines'
        BY <1>1, <1>7, <1>8, <2>1
    <2>3. ASSUME NEW i \in 1 .. Len(history'), NEW j \in 1 .. Len(history'),
                 i < j, CommandLine(history[i])'
          PROVE  history'[i].born < history'[j].born
        <3>1. /\ history'[i] = history[k + i] /\ history'[j] = history[k + j]
              /\ k + i \in 1 .. n /\ k + j \in 1 .. n
            BY <1>7, <1>8
        <3>2. k + i < k + j
            BY <1>6, <2>3, <1>7, <1>8
        <3>3. CommandLine(history[k + i])
            BY <1>1, <2>3, <3>1 DEF CommandLine
        <3>4. QED
            BY <3>1, <3>2, <3>3 DEF HistoryInv, BornInv
    <2>4. QED
        BY <2>2, <2>3 DEF BornInv
<1>11. TimeInv'
    <2> SUFFICES ASSUME NEW i \in 1 .. Len(history')
                 PROVE  IF CommandLine(history[i])'
                        THEN history'[i].at =
                               IF shell = "zsh" THEN history'[i].ts
                               ELSE IF i = 1 THEN NoTs ELSE history'[i - 1].ts
                        ELSE /\ i < Len(history')
                             /\ history'[i].at = history'[i].ts
                             /\ history'[i + 1].ts = NoTs
        BY <1>1 DEF TimeInv
    <2>1. history'[i] = history[k + i] /\ k + i \in 1 .. n
        BY <1>7, <1>8
    <2>2. IF CommandLine(history[k + i])
          THEN history[k + i].at =
                 IF shell = "zsh" THEN history[k + i].ts
                 ELSE IF k + i = 1 THEN NoTs ELSE history[(k + i) - 1].ts
          ELSE /\ k + i < n
               /\ history[k + i].at = history[k + i].ts
               /\ history[(k + i) + 1].ts = NoTs
        BY <2>1 DEF HistoryInv, TimeInv
    <2>3. CommandLine(history[i])' <=> CommandLine(history[k + i])
        BY <1>1, <2>1 DEF CommandLine
    <2>4. CASE CommandLine(history[k + i])
        <3>1. CASE shell = "zsh"
            BY <2>1, <2>2, <2>3, <2>4, <3>1
        <3>2. CASE shell # "zsh" /\ i = 1
            <4>1. shell = "bash" /\ k + i # 1 /\ (k + i) - 1 = k
                BY <1>1, <1>6, <3>2 DEF HistoryInv, HistoryTypes
            <4>2. QED
                BY <1>6, <2>1, <2>2, <2>3, <2>4, <3>2, <4>1
        <3>3. CASE shell # "zsh" /\ i # 1
            <4>1. i - 1 \in 1 .. n - k /\ k + (i - 1) = (k + i) - 1 /\ k + i # 1
                BY <1>1, <1>6, <1>7, <3>3
            <4>2. history'[i - 1] = history[(k + i) - 1]
                BY <1>7, <4>1
            <4>3. QED
                BY <2>1, <2>2, <2>3, <2>4, <3>3, <4>1, <4>2
        <3>4. QED
            BY <3>1, <3>2, <3>3
    <2>5. CASE ~ CommandLine(history[k + i])
        <3>1. i + 1 \in 1 .. n - k /\ k + (i + 1) = (k + i) + 1
            BY <1>1, <1>6, <1>7, <2>2, <2>5
        <3>2. history'[i + 1] = history[(k + i) + 1]
            BY <1>7, <3>1
        <3>3. i < Len(history')
            BY <1>1, <1>6, <1>7, <3>1
        <3>4. QED
            BY <2>1, <2>2, <2>3, <2>5, <3>2, <3>3
    <2>6. QED
        BY <2>4, <2>5
<1>12. QED
    BY <1>9, <1>10, <1>11 DEF HistoryInv

\* No command of Rustory writes the history file.
LEMMA HistoryKept ==
    ASSUME [Next]_vars
    PROVE  AddCommand \/ TrimHistory \/ UNCHANGED historyVars
<1>1. ASSUME NEW p \in Process, NEW c \in Command, Start(p, c) \/ LoadFails(p, c)
      PROVE  UNCHANGED historyVars
    BY <1>1 DEF Start, StartWith, LoadFails
<1>2. ASSUME NEW p \in Process, FileStep(p)
      PROVE  UNCHANGED historyVars
    BY <1>2 DEF FileStep, CheckConfig, Create, Fill, MissingKey, GenerateKey,
                ReadKey, EmptyKey
<1>3. ASSUME NEW p \in Process, DbStep(p)
      PROVE  UNCHANGED historyVars
    BY <1>3 DEF DbStep, RecordEntry, Push, ReadHistory, ImportBatch
<1>4. ASSUME NEW p \in Process, Exit(p) \/ Dies(p)
      PROVE  UNCHANGED historyVars
    BY <1>4 DEF Exit, Dies
<1>5. QED
    BY <1>1, <1>2, <1>3, <1>4 DEF Next, vars

LEMMA HistoryNext == HistoryInv /\ [Next]_vars => HistoryInv'
<1>1. HistoryInv /\ UNCHANGED historyVars => HistoryInv'
    BY DEF HistoryInv, HistoryTypes, BornInv, TimeInv, CommandLine, historyVars
<1>2. QED
    BY <1>1, HistoryAdded, HistoryTrimmed, HistoryKept

LEMMA HistoryInit == Init => HistoryInv
BY DEF Init, HistoryInv, HistoryTypes, BornInv, TimeInv

-----------------------------------------------------------------------------
(* What is read from the history file.                                     *)

Parsed == parse_history(shell, history)

\* out is right for the commands of the first n lines: numbered, with their
\* own times, and in their order.
ReadFrom(out, n) ==
    /\ out \in Seq(Record)
    /\ \A i \in 1 .. Len(out) :
         /\ out[i].source_index = i - 1
         /\ out[i].ts_unix = out[i].at
         /\ \E k \in 1 .. n : /\ CommandLine(history[k])
                              /\ out[i].born = history[k].born
    /\ \A i, j \in 1 .. Len(out) : i < j => out[i].born < out[j].born

LEMMA ReadOne ==
    ASSUME HistoryInv, NEW n \in 1 .. Len(history), CommandLine(history[n]),
           NEW out, ReadFrom(out, n - 1), NEW ts \in Nat, ts = history[n].at
    PROVE  ReadFrom(Append(out, HistoryRecord(Len(out), ts, history[n])), n)
<1> DEFINE r == HistoryRecord(Len(out), ts, history[n])
           m == Len(out)
           new == Append(out, r)
<1>1. /\ history \in Seq(Line) /\ Len(history) \in Nat
      /\ out \in Seq(Record) /\ m \in Nat /\ history[n] \in Line
    BY DEF HistoryInv, HistoryTypes, ReadFrom
<1>2. r \in Record
    BY <1>1, RecordType
<1>3. /\ r.source_index = m /\ r.ts_unix = r.at /\ r.born = history[n].born
    BY DEF HistoryRecord
<1> HIDE DEF r, m
<1>4. /\ new \in Seq(Record) /\ Len(new) = m + 1 /\ new[m + 1] = r
      /\ \A i \in 1 .. m : new[i] = out[i]
    BY <1>1, <1>2 DEF m
<1> HIDE DEF new
<1>5. ASSUME NEW i \in 1 .. m + 1
      PROVE  i \in 1 .. m \/ i = m + 1
    BY <1>1
<1>6. ASSUME NEW i \in 1 .. m
      PROVE  out[i].born < r.born
    <2>1. PICK k \in 1 .. n - 1 : /\ CommandLine(history[k])
                                  /\ out[i].born = history[k].born
        BY DEF ReadFrom, m
    <2>2. k \in 1 .. Len(history) /\ k < n
        BY <1>1
    <2>3. history[k].born < history[n].born
        BY <2>1, <2>2 DEF HistoryInv, BornInv
    <2>4. QED
        BY <1>3, <2>1, <2>3
<1>7. ASSUME NEW i \in 1 .. Len(new)
      PROVE  /\ new[i].source_index = i - 1
             /\ new[i].ts_unix = new[i].at
             /\ \E k \in 1 .. n : /\ CommandLine(history[k])
                                  /\ new[i].born = history[k].born
    <2>1. CASE i \in 1 .. m
        <3>1. /\ out[i].source_index = i - 1
              /\ out[i].ts_unix = out[i].at
              /\ \E k \in 1 .. n - 1 : /\ CommandLine(history[k])
                                       /\ out[i].born = history[k].born
            BY <2>1 DEF ReadFrom, m
        <3>2. \A k \in 1 .. n - 1 : k \in 1 .. n
            BY <1>1
        <3>3. new[i] = out[i]
            BY <1>4, <2>1
        <3>4. QED
            BY <3>1, <3>2, <3>3
    <2>2. CASE i = m + 1
        <3>1. n \in 1 .. n /\ (m + 1) - 1 = m
            BY <1>1
        <3>2. QED
            BY <1>3, <1>4, <2>2, <3>1
    <2>3. QED
        BY <1>4, <1>5, <2>1, <2>2
<1>8. ASSUME NEW i \in 1 .. Len(new), NEW j \in 1 .. Len(new), i < j
      PROVE  new[i].born < new[j].born
    <2>1. i \in 1 .. m
        BY <1>1, <1>4, <1>8
    <2>2. CASE j \in 1 .. m
        <3>1. out[i].born < out[j].born
            BY <1>8, <2>1, <2>2 DEF ReadFrom, m
        <3>2. QED
            BY <1>4, <2>1, <2>2, <3>1
    <2>3. CASE j = m + 1
        BY <1>4, <1>6, <2>1, <2>3
    <2>4. QED
        BY <1>4, <1>5, <2>2, <2>3
<1>9. ReadFrom(new, n)
    BY <1>4, <1>7, <1>8 DEF ReadFrom
<1>10. QED
    BY <1>9 DEF new, r, m

LEMMA ZshReads ==
    ASSUME HistoryInv, shell = "zsh"
    PROVE  ReadFrom(parse_zsh_history(history), Len(history))
<1> DEFINE out == parse_zsh_history(history)
<1>1. history \in Seq(Line) /\ Len(history) \in Nat
    BY DEF HistoryInv, HistoryTypes
<1>2. ASSUME NEW i \in 1 .. Len(history)
      PROVE  /\ history[i] \in Line /\ i - 1 \in Nat
             /\ history[i].at = history[i].ts /\ history[i].ts \in Nat
             /\ CommandLine(history[i])
    <2>1. history[i] \in Line /\ i - 1 \in Nat
        BY <1>1
    <2>2. CommandLine(history[i])
        BY DEF CommandLine
    <2>3. history[i].at = history[i].ts
        BY <2>2 DEF HistoryInv, TimeInv
    <2>4. QED
        BY <2>1, <2>2, <2>3 DEF Line
<1>3. out = [i \in 1 .. Len(history) |->
               HistoryRecord(i - 1, history[i].ts, history[i])]
    BY <1>1 DEF parse_zsh_history
<1>4. \A i \in 1 .. Len(history) :
        HistoryRecord(i - 1, history[i].ts, history[i]) \in Record
    BY <1>2, RecordType
<1> HIDE DEF out
<1>5. out \in Seq(Record) /\ Len(out) = Len(history)
    BY <1>1, <1>3, <1>4
<1>6. ASSUME NEW i \in 1 .. Len(out)
      PROVE  /\ out[i].source_index = i - 1
             /\ out[i].ts_unix = out[i].at
             /\ out[i].born = history[i].born
    BY <1>2, <1>3, <1>5 DEF HistoryRecord
<1>7. \A i, j \in 1 .. Len(out) : i < j => out[i].born < out[j].born
    BY <1>2, <1>5, <1>6 DEF HistoryInv, BornInv
<1>8. QED
    BY <1>2, <1>5, <1>6, <1>7 DEF ReadFrom, out

\* A timestamp waits for the next command, and is that of this command.
LEMMA BashReads ==
    ASSUME HistoryInv, shell = "bash"
    PROVE  ReadFrom(parse_bash_history(history), Len(history))
<1> DEFINE read == BashRead(history)
           L == Len(history)
           Good(n) == /\ read[n].next_ts = IF n = 0 THEN NoTs ELSE history[n].ts
                      /\ ReadFrom(read[n].out, n)
           good == {n \in 0 .. L : Good(n)}
<1>1. history \in Seq(Line) /\ L \in Nat
    BY DEF HistoryInv, HistoryTypes
<1>2. /\ read \in [0 .. L -> BashState]
      /\ read[0] = NothingRead
      /\ \A i \in 1 .. L : read[i] = ReadLine(read[i - 1], history[i])
    BY <1>1, BashReadSteps
<1> HIDE DEF read
<1>3. 0 \in good
    <2>1. read[0].next_ts = NoTs /\ read[0].out = <<>>
        BY <1>2 DEF NothingRead
    <2>2. ReadFrom(<<>>, 0)
        BY DEF ReadFrom
    <2>3. QED
        BY <1>1, <2>1, <2>2
<1>4. ASSUME NEW n \in 0 .. L, n \in good, n < L
      PROVE  n + 1 \in good
    <2>1. n + 1 \in 1 .. L /\ (n + 1) - 1 = n /\ n + 1 # 0 /\ n + 1 \in 0 .. L
        BY <1>1, <1>4
    <2>2. read[n + 1] = ReadLine(read[n], history[n + 1])
        BY <1>2, <2>1
    <2>3. /\ read[n] \in BashState /\ Good(n) /\ history[n + 1] \in Line
        BY <1>1, <1>2, <1>4, <2>1
    <2>4. CASE history[n + 1].ts # NoTs
        <3>1. read[n + 1] = [read[n] EXCEPT !.next_ts = history[n + 1].ts]
            BY <2>2, <2>4 DEF ReadLine
        <3>2. /\ read[n + 1].next_ts = history[n + 1].ts
              /\ read[n + 1].out = read[n].out
            BY <2>3, <3>1 DEF BashState
        <3>3. \A k \in 1 .. n : k \in 1 .. n + 1
            BY <1>1
        <3>4. ReadFrom(read[n].out, n + 1)
            BY <2>3, <3>3 DEF ReadFrom
        <3>5. QED
            BY <2>1, <3>2, <3>4
    <2>5. CASE history[n + 1].ts = NoTs
        <3>1. read[n + 1] = [out |-> Append(read[n].out,
                               HistoryRecord(Len(read[n].out), read[n].next_ts,
                                             history[n + 1])),
                             next_ts |-> NoTs]
            BY <2>2, <2>5 DEF ReadLine
        <3>2. CommandLine(history[n + 1])
            BY <2>5 DEF CommandLine
        <3>3. history[n + 1].at = IF n + 1 = 1 THEN NoTs
                                  ELSE history[(n + 1) - 1].ts
            BY <2>1, <3>2 DEF HistoryInv, TimeInv
        <3>4. n + 1 = 1 <=> n = 0
            BY <1>1
        <3>5. /\ read[n].next_ts = history[n + 1].at
              /\ read[n].next_ts \in Nat
            BY <2>1, <2>3, <3>3, <3>4 DEF BashState
        <3>6. ReadFrom(read[n].out, (n + 1) - 1)
            BY <2>1, <2>3
        <3>7. ReadFrom(Append(read[n].out,
                         HistoryRecord(Len(read[n].out), read[n].next_ts,
                                       history[n + 1])), n + 1)
            BY <2>1, <3>2, <3>5, <3>6, ReadOne
        <3>8. /\ ReadFrom(read[n + 1].out, n + 1)
              /\ read[n + 1].next_ts = history[n + 1].ts
            BY <2>5, <3>1, <3>7
        <3>9. QED
            BY <2>1, <3>8
    <2>6. QED
        BY <2>4, <2>5
<1>5. L \in good
    <2> HIDE DEF good
    <2>1. \A n \in 0 .. L : n \in good
        BY <1>1, <1>3, <1>4, UpTo
    <2>2. QED
        BY <1>1, <2>1
<1>6. QED
    BY <1>5 DEF parse_bash_history, read

LEMMA ParsedRight == HistoryInv => ReadFrom(Parsed, Len(history))
<1>1. HistoryInv => shell \in {"bash", "zsh"}
    BY DEF HistoryInv, HistoryTypes
<1>2. QED
    BY <1>1, ZshReads, BashReads DEF Parsed, parse_history

\* A bash command gets the time the shell wrote for it, never that of another
\* one, whatever the shell appends and trims.
THEOREM OwnTimestamps == Spec => []OwnTimestamp
<1>1. HistoryInv => OwnTimestamp
    <2>1. HistoryInv => /\ Parsed \in Seq(Record)
                        /\ \A i \in 1 .. Len(Parsed) :
                             Parsed[i].ts_unix = Parsed[i].at
        BY ParsedRight DEF ReadFrom
    <2>2. QED
        BY <2>1 DEF OwnTimestamp, Parsed
<1>2. QED
    BY <1>1, HistoryInit, HistoryNext, PTL DEF Spec

-----------------------------------------------------------------------------
(* While the file only grows, what was read from it stays.                 *)

Extends(P, Q) ==
    /\ Len(P) <= Len(Q)
    /\ \A i \in 1 .. Len(P) : Q[i] = P[i]

LEMMA BashReadGrows ==
    ASSUME NEW a \in Seq(Line), NEW b \in Seq(Line), Extends(a, b)
    PROVE  Extends(parse_bash_history(a), parse_bash_history(b))
<1> DEFINE A == BashRead(a)
           B == BashRead(b)
           same == {n \in 0 .. Len(a) : B[n] = A[n]}
           more == {n \in 0 .. Len(b) :
                      n >= Len(a) => Extends(A[Len(a)].out, B[n].out)}
<1>1. /\ Len(a) \in Nat /\ Len(b) \in Nat /\ Len(a) <= Len(b)
      /\ \A i \in 1 .. Len(a) : i \in 1 .. Len(b) /\ b[i] = a[i]
    BY DEF Extends
<1>2. /\ A \in [0 .. Len(a) -> BashState] /\ A[0] = NothingRead
      /\ \A i \in 1 .. Len(a) : A[i] = ReadLine(A[i - 1], a[i])
    BY BashReadSteps
<1>3. /\ B \in [0 .. Len(b) -> BashState] /\ B[0] = NothingRead
      /\ \A i \in 1 .. Len(b) : B[i] = ReadLine(B[i - 1], b[i])
    BY BashReadSteps
<1> HIDE DEF A, B
<1>4. 0 \in same
    BY <1>1, <1>2, <1>3
<1>5. ASSUME NEW n \in 0 .. Len(a), n \in same, n < Len(a)
      PROVE  n + 1 \in same
    <2>1. /\ n + 1 \in 1 .. Len(a) /\ n + 1 \in 0 .. Len(a)
          /\ (n + 1) - 1 = n
        BY <1>1, <1>5
    <2>2. /\ A[n + 1] = ReadLine(A[n], a[n + 1])
          /\ B[n + 1] = ReadLine(B[n], b[n + 1])
          /\ a[n + 1] = b[n + 1]
        BY <1>1, <1>2, <1>3, <2>1
    <2>3. QED
        BY <1>5, <2>1, <2>2
<1>6. B[Len(a)] = A[Len(a)]
    <2> HIDE DEF same
    <2>1. \A n \in 0 .. Len(a) : n \in same
        BY <1>1, <1>4, <1>5, UpTo
    <2>2. Len(a) \in same
        BY <1>1, <2>1
    <2>3. QED
        BY <2>2 DEF same
<1> DEFINE out == A[Len(a)].out
<1>7. out \in Seq(Record)
    BY <1>1, <1>2 DEF BashState
<1> HIDE DEF out
<1>8. Extends(out, out)
    BY <1>7 DEF Extends
<1>9. ASSUME NEW n \in 0 .. Len(b), n \in more, n < Len(b)
      PROVE  n + 1 \in more
    <2>1. n + 1 \in 1 .. Len(b) /\ n + 1 \in 0 .. Len(b) /\ (n + 1) - 1 = n
        BY <1>1, <1>9
    <2>2. CASE n + 1 < Len(a)
        BY <1>1, <2>1, <2>2
    <2>3. CASE n + 1 = Len(a)
        BY <1>6, <1>8, <2>1, <2>3 DEF out
    <2>4. CASE n >= Len(a)
        <3>1. Extends(out, B[n].out)
            BY <1>9, <2>4 DEF out
        <3>2. B[n + 1] = ReadLine(B[n], b[n + 1])
            BY <1>3, <2>1
        <3>3. B[n] \in BashState
            BY <1>3
        <3>4. B[n].out \in Seq(Record)
            BY <3>3 DEF BashState
        <3>5. CASE b[n + 1].ts # NoTs
            <4>1. B[n + 1] = [B[n] EXCEPT !.next_ts = b[n + 1].ts]
                BY <3>2, <3>5 DEF ReadLine
            <4>2. B[n + 1].out = B[n].out
                BY <3>3, <4>1 DEF BashState
            <4>3. QED
                BY <2>1, <3>1, <4>2 DEF out
        <3>6. CASE b[n + 1].ts = NoTs
            <4> DEFINE r == HistoryRecord(Len(B[n].out), B[n].next_ts, b[n + 1])
            <4>1. B[n + 1].out = Append(B[n].out, r)
                BY <3>2, <3>6 DEF ReadLine
            <4> HIDE DEF r
            <4>2. /\ Len(B[n + 1].out) = Len(B[n].out) + 1
                  /\ \A i \in 1 .. Len(B[n].out) :
                       B[n + 1].out[i] = B[n].out[i]
                  /\ Len(B[n].out) \in Nat
                BY <3>4, <4>1
            <4>3. Extends(out, B[n + 1].out)
                BY <1>7, <3>1, <4>2 DEF Extends
            <4>4. QED
                BY <2>1, <4>3 DEF out
        <3>7. QED
            BY <3>5, <3>6
    <2>5. QED
        BY <1>1, <2>1, <2>2, <2>3, <2>4
<1>10. 0 \in more
    <2>1. CASE Len(a) = 0
        BY <1>1, <1>6, <1>8, <2>1 DEF out
    <2>2. CASE Len(a) # 0
        BY <1>1, <2>2
    <2>3. QED
        BY <2>1, <2>2
<1>11. Extends(out, B[Len(b)].out)
    <2> HIDE DEF more
    <2>1. \A n \in 0 .. Len(b) : n \in more
        BY <1>1, <1>9, <1>10, UpTo
    <2>2. Len(b) \in more
        BY <1>1, <2>1
    <2>3. QED
        BY <1>1, <2>2 DEF more, out
<1>12. QED
    BY <1>11 DEF parse_bash_history, A, B, out

LEMMA ZshReadGrows ==
    ASSUME NEW a \in Seq(Line), NEW b \in Seq(Line), Extends(a, b)
    PROVE  Extends(parse_zsh_history(a), parse_zsh_history(b))
<1>1. /\ Len(a) \in Nat /\ Len(b) \in Nat /\ Len(a) <= Len(b)
      /\ \A i \in 1 .. Len(a) : i \in 1 .. Len(b) /\ b[i] = a[i]
    BY DEF Extends
<1>2. ASSUME NEW c \in Seq(Line)
      PROVE  /\ Len(parse_zsh_history(c)) = Len(c)
             /\ \A i \in 1 .. Len(c) :
                  parse_zsh_history(c)[i] = HistoryRecord(i - 1, c[i].ts, c[i])
    <2>1. parse_zsh_history(c) = [i \in 1 .. Len(c) |->
                                    HistoryRecord(i - 1, c[i].ts, c[i])]
        BY DEF parse_zsh_history
    <2>2. Len(c) \in Nat
        OBVIOUS
    <2>3. QED
        BY <2>1, <2>2
<1>3. QED
    BY <1>1, <1>2 DEF Extends

LEMMA ParsedGrows ==
    ASSUME HistoryInv, AddCommand
    PROVE  Extends(Parsed, Parsed')
<1>1. /\ history \in Seq(Line) /\ history' \in Seq(Line)
      /\ Extends(history, history') /\ shell' = shell
    BY HistoryAdded DEF HistoryInv, HistoryTypes, Extends, AddCommand
<1>2. QED
    BY <1>1, BashReadGrows, ZshReadGrows DEF Parsed, parse_history

-----------------------------------------------------------------------------
(* Types.                                                                  *)

EntryId == Name \X Nat \X (Cmd \cup {NoCmd}) \X Nat
Entries == [entry_id : EntryId, born : Nat]

\* The entry an import makes of record k of the file.
EntryOf(device_id, k) ==
    [entry_id |-> import_entry_id(device_id, Parsed[k].ts_unix, Parsed[k].cmd,
                                  k - 1),
     born |-> Parsed[k].born]

\* --limit keeps records of the file, each with its index there.
LEMMA KeptRecords ==
    ASSUME NEW records \in Seq(Record), NEW limit \in Nat \ {0}
    PROVE  /\ KeepLast(records, limit) \in Seq(Record)
           /\ \A i \in 1 .. Len(KeepLast(records, limit)) :
                \E k \in 1 .. Len(records) :
                    KeepLast(records, limit)[i] = records[k]
<1> DEFINE n == Len(records)
           kept == KeepLast(records, limit)
<1>1. n \in Nat
    OBVIOUS
<1>2. CASE n <= limit
    <2>1. kept = records
        BY <1>2 DEF KeepLast
    <2>2. QED
        BY <2>1
<1>3. CASE n > limit
    <2>1. kept = SubSeq(records, n - limit + 1, n)
        BY <1>1, <1>3 DEF KeepLast
    <2>2. n - limit + 1 \in 1 .. n + 1 /\ n - limit + 1 \in Int
        BY <1>1, <1>3
    <2> HIDE DEF kept, n
    <2>3. /\ kept \in Seq(Record)
          /\ Len(kept) = limit
          /\ \A i \in 1 .. limit : kept[i] = records[n - limit + i]
        BY <1>1, <1>3, <2>1, <2>2 DEF n
    <2>4. \A i \in 1 .. limit : n - limit + i \in 1 .. n
        BY <1>1, <1>3
    <2>5. QED
        BY <2>3, <2>4 DEF kept, n
<1>4. QED
    BY <1>1, <1>2, <1>3

\* An import inserts entries of what it read.
LEMMA ImportsParsed ==
    ASSUME HistoryInv, NEW limit \in Nat \ {0}, NEW device_id
    PROVE  ImportEntries(shell, history, limit, device_id)
             \in Seq({EntryOf(device_id, k) : k \in 1 .. Len(Parsed)})
<1> DEFINE records == KeepLast(Parsed, limit)
           E == {ImportedEntry(records, i, device_id) : i \in 1 .. Len(records)}
           F == {EntryOf(device_id, k) : k \in 1 .. Len(Parsed)}
           T == ImportEntries(shell, history, limit, device_id)
<1>1. /\ Parsed \in Seq(Record)
      /\ \A k \in 1 .. Len(Parsed) : Parsed[k].source_index = k - 1
    BY ParsedRight DEF ReadFrom
<1>2. /\ records \in Seq(Record)
      /\ \A i \in 1 .. Len(records) :
           \E k \in 1 .. Len(Parsed) : records[i] = Parsed[k]
    BY <1>1, KeptRecords
<1>3. T = Imported(records, device_id)[Len(records)]
    BY DEF ImportEntries, Parsed
<1> HIDE DEF records, T
<1>4. T \in Seq(E)
    BY <1>2, <1>3, ImportedType
<1>5. ASSUME NEW i \in 1 .. Len(records)
      PROVE  ImportedEntry(records, i, device_id) \in F
    <2>1. PICK k \in 1 .. Len(Parsed) : records[i] = Parsed[k]
        BY <1>2
    <2>2. ImportedEntry(records, i, device_id) = EntryOf(device_id, k)
        BY <1>1, <2>1 DEF ImportedEntry, EntryOf, id_ts_unix
    <2>3. QED
        BY <2>2
<1>6. E \subseteq F
    BY <1>5
<1> HIDE DEF E, F
<1>7. T \in Seq(F)
    BY <1>4, <1>6
<1>8. QED
    BY <1>7 DEF T, F

LEMMA EntryOfType ==
    ASSUME HistoryInv, NEW k \in 1 .. Len(Parsed), NEW d \in Name
    PROVE  EntryOf(d, k) \in Entries
<1>1. Parsed[k] \in Record /\ k - 1 \in Nat
    BY ParsedRight DEF ReadFrom
<1>2. /\ Parsed[k].ts_unix \in Nat /\ Parsed[k].cmd \in Cmd \cup {NoCmd}
      /\ Parsed[k].born \in Nat
    BY <1>1 DEF Record
<1>3. QED
    BY <1>1, <1>2 DEF EntryOf, Entries, EntryId, import_entry_id

LEMMA ImportsAsName ==
    ASSUME Shape, NEW p \in Process, loaded[p] \in Id, arg[p] \in Id
    PROVE  import_device_id(p) \in Name
<1>1. env_DEVICE_ID(p) \in Id
    BY HostAssumption DEF Shape, env_DEVICE_ID, Id
<1>2. device_id_setting(p) \in Id
    BY <1>1 DEF device_id_setting, First
<1>3. QED
    BY <1>2 DEF import_device_id, First, env_HOSTNAME, Id, Name, NoId

\* An import has its entries and how many are inserted; other commands have
\* none.
TodoTypes ==
    /\ todo \in [Process -> Seq(Entries)]
    /\ done \in [Process -> Nat]
    /\ \A p \in Process :
         /\ done[p] <= Len(todo[p])
         /\ pc[p] # "batch" => todo[p] = <<>> /\ done[p] = 0

LEMMA TodoEnds ==
    ASSUME Shape, TodoTypes, NEW p \in Process, End(p)
    PROVE  TodoTypes'
<1>1. /\ todo' = [todo EXCEPT ![p] = <<>>] /\ done' = [done EXCEPT ![p] = 0]
      /\ pc' = [pc EXCEPT ![p] = "idle"]
    BY DEF End, Goto
<1>2. \A q \in Process \ {p} : pc'[q] = pc[q]
    BY <1>1 DEF Shape
<1>3. QED
    BY <1>1, <1>2 DEF TodoTypes

LEMMA TodoKeeps ==
    ASSUME TodoTypes, UNCHANGED <<todo, done>>,
           \A p \in Process : pc[p] = "batch" => pc'[p] = "batch"
    PROVE  TodoTypes'
BY DEF TodoTypes

LEMMA TodoNext ==
    ASSUME Shape, IdInv, HistoryInv, TodoTypes, [Next]_vars
    PROVE  TodoTypes'
<1>1. ASSUME NEW p \in Process, NEW s, NEW f, Goto(p, s, f), pc[p] # "batch",
             UNCHANGED <<todo, done>>
      PROVE  TodoTypes'
    <2>1. \A q \in Process : pc[q] = "batch" => pc'[q] = "batch"
        BY <1>1 DEF Goto, Shape
    <2>2. QED
        BY <1>1, <2>1, TodoKeeps
<1>2. ASSUME NEW p \in Process, NEW c \in Command, Start(p, c)
      PROVE  TodoTypes'
    <2>1. PICK s \in {"check", "read", "insert", "history"},
               f \in {"config", "swarm"} : Goto(p, s, f)
        BY <1>2, BeginGoes DEF Start, StartWith
    <2>2. QED
        BY <1>1, <1>2, <2>1 DEF Start, StartWith
<1>3. ASSUME NEW p \in Process, FileStep(p)
      PROVE  TodoTypes'
    <2>1. on[p] \in File /\ "config" \in File
        BY DEF Shape, File
    <2>2. CASE EmptyKey(p)
        BY <2>2, TodoEnds DEF EmptyKey
    <2>3. CASE ~ EmptyKey(p)
        <3>1. UNCHANGED <<todo, done>> /\ pc[p] # "batch"
            BY <1>3, <2>3 DEF FileStep, CheckConfig, Create, Fill, MissingKey,
                              GenerateKey, ReadKey
        <3>2. \/ \E f \in File : Proceed(p, f)
              \/ \E s, f : Goto(p, s, f)
            BY <1>3, <2>1, <2>3 DEF FileStep, CheckConfig, Create, Fill,
                                    MissingKey, GenerateKey, ReadKey
        <3>3. \E s, f : Goto(p, s, f)
            BY <3>2, ProceedGoes
        <3>4. QED
            BY <1>1, <3>1, <3>3
    <2>4. QED
        BY <2>2, <2>3
<1>4. ASSUME NEW p \in Process, RecordEntry(p) \/ Exit(p) \/ Dies(p)
      PROVE  TodoTypes'
    BY <1>4, TodoEnds DEF RecordEntry, Exit, Dies
<1>5. ASSUME NEW p \in Process, Push(p)
      PROVE  TodoTypes'
    <2>1. CASE End(p)
        BY <2>1, TodoEnds
    <2>2. CASE UNCHANGED procVars
        BY <2>2, TodoKeeps DEF procVars
    <2>3. QED
        BY <1>5, <2>1, <2>2 DEF Push
<1>6. ASSUME NEW p \in Process, ReadHistory(p)
      PROVE  TodoTypes'
    <2>1. PICK limit \in Limits :
             todo' = [todo EXCEPT ![p] =
                        ImportEntries(shell, history, limit,
                                      import_device_id(p))]
        BY <1>6 DEF ReadHistory
    <2> DEFINE T == ImportEntries(shell, history, limit, import_device_id(p))
    <2>2. T \in Seq(Entries)
        <3>1. loaded[p] \in Id /\ arg[p] \in Id
            BY DEF IdInv, IdTypes
        <3>2. limit \in Nat \ {0}
            BY HostAssumption
        <3> DEFINE F == {EntryOf(import_device_id(p), k) : k \in 1 .. Len(Parsed)}
        <3>3. T \in Seq(F)
            BY <3>2, ImportsParsed
        <3>4. F \subseteq Entries
            BY <3>1, ImportsAsName, EntryOfType
        <3> HIDE DEF T, F
        <3>5. QED
            BY <3>3, <3>4
    <2> HIDE DEF T
    <2>3. /\ pc[p] = "history" /\ done' = done
          /\ pc' = [pc EXCEPT ![p] = "batch"]
          /\ todo' = [todo EXCEPT ![p] = T]
        BY <1>6, <2>1 DEF ReadHistory, Goto, T
    <2>4. done[p] = 0 /\ Len(T) \in Nat
        BY <2>2, <2>3 DEF TodoTypes
    <2>5. \A q \in Process \ {p} : pc'[q] = pc[q] /\ todo'[q] = todo[q]
        BY <2>3 DEF Shape, TodoTypes
    <2>6. /\ todo' \in [Process -> Seq(Entries)] /\ todo'[p] = T
          /\ pc'[p] = "batch"
        BY <2>2, <2>3 DEF TodoTypes, Shape
    <2>7. QED
        BY <2>3, <2>4, <2>5, <2>6 DEF TodoTypes
<1>7. ASSUME NEW p \in Process, ImportBatch(p)
      PROVE  TodoTypes'
    <2>1. CASE End(p)
        BY <2>1, TodoEnds
    <2>2. CASE done' = [done EXCEPT ![p] = LastOf(p)] /\ UNCHANGED <<pc, todo>>
        <3>1. Len(todo[p]) \in Nat /\ done[p] \in Nat /\ done[p] <= Len(todo[p])
            BY DEF TodoTypes
        <3>2. LastOf(p) \in Nat /\ LastOf(p) <= Len(todo[p])
            BY <3>1, HistoryAssumption DEF LastOf
        <3>3. pc[p] = "batch"
            BY <1>7 DEF ImportBatch
        <3>4. QED
            BY <2>2, <3>2, <3>3 DEF TodoTypes
    <2>3. QED
        BY <1>7, <2>1, <2>2 DEF ImportBatch
<1>8. ASSUME UNCHANGED procVars
      PROVE  TodoTypes'
    BY <1>8, TodoKeeps DEF procVars
<1>9. QED
    BY <1>2, <1>3, <1>4, <1>5, <1>6, <1>7, <1>8
       DEF Next, DbStep, LoadFails, AddCommand, TrimHistory, vars

LEMMA TodoInit == Init => TodoTypes
BY DEF Init, TodoTypes

\* The files and who is to write them. A file that is once there stays; a
\* command is at identity.key only when swarm.key is there.
FileTypes ==
    /\ keys \in Nat
    /\ \A f \in KeyFile : file[f] \in {NoFile, Empty} \/ file[f] \in 1 .. keys
    /\ torn \subseteq {f \in File : file[f] = Empty}
    /\ \A p \in Process :
         /\ pc[p] \in Writing /\ on[p] \in KeyFile => value[p] \in 1 .. keys
         /\ pc[p] = "fill" => file[on[p]] # NoFile
         /\ on[p] = "identity" => file["swarm"] # NoFile
         /\ pc[p] = "serving" => on[p] = "identity" /\ file["identity"] # NoFile

\* Steps that leave the files alone.
LEMMA FileMoves ==
    ASSUME Shape, FileTypes, NEW p \in Process, NEW s, NEW g \in File,
           Goto(p, s, g), UNCHANGED <<file, keys>>,
           torn' \subseteq {f \in File : file[f] = Empty},
           \A q \in Process \ {p} : value'[q] = value[q],
           s \notin Writing,
           g = "identity" => file["swarm"] # NoFile,
           s = "serving" => g = "identity" /\ file["identity"] # NoFile
    PROVE  FileTypes'
<1>1. /\ pc'[p] = s /\ on'[p] = g
      /\ \A q \in Process \ {p} : pc'[q] = pc[q] /\ on'[q] = on[q]
    BY DEF Shape, Goto
<1>2. QED
    BY <1>1 DEF FileTypes, Writing

LEMMA ProceedTo ==
    ASSUME NEW p \in Process, NEW f \in File, Proceed(p, f)
    PROVE  \E s \in {"read", "push", "serving", "exit"} : \E g \in KeyFile :
             /\ Goto(p, s, g)
             /\ g = "identity" => f \in KeyFile
             /\ s = "serving" => g = "identity" /\ f = "identity"
BY DEF Proceed, File, KeyFile

LEMMA FileEnds ==
    ASSUME Shape, FileTypes, NEW p \in Process, End(p), UNCHANGED <<file, keys>>,
           torn' \subseteq {f \in File : file[f] = Empty}
    PROVE  FileTypes'
<1>1. /\ Goto(p, "idle", "config") /\ "config" \in File
      /\ \A q \in Process \ {p} : value'[q] = value[q]
    BY DEF End, File, Shape
<1>2. QED
    BY <1>1, FileMoves DEF Writing

LEMMA FileFilled ==
    ASSUME Shape, IdInv, FileTypes, NEW p \in Process, Fill(p)
    PROVE  FileTypes'
<1>1. on[p] \in File /\ pc[p] = "fill" /\ keys' = keys
    BY DEF Shape, Fill
<1>2. PICK s \in {"read", "push", "serving", "exit"}, g \in KeyFile :
         /\ Goto(p, s, g)
         /\ g = "identity" => on[p] \in KeyFile
         /\ s = "serving" => g = "identity" /\ on[p] = "identity"
    BY <1>1, ProceedTo DEF Fill
<1>3. PICK content \in {value[p]} \cup
            IF on[p] = "config" /\ file[on[p]] \notin {Empty, value[p]}
            THEN {Broken} ELSE {} : file' = [file EXCEPT ![on[p]] = content]
    BY DEF Fill
<1>4. /\ on[p] \in KeyFile => content \in 1 .. keys
      /\ on[p] = "config" => content \in Id \cup {Broken}
    <2>1. on[p] \in KeyFile => on[p] # "config"
        BY DEF KeyFile
    <2>2. QED
        BY <1>1, <1>3, <2>1 DEF FileTypes, IdInv, IdTypes, Writing
<1>5. content # NoFile
    <2>1. on[p] \in KeyFile \/ on[p] = "config"
        BY <1>1 DEF File
    <2>2. NoFile \notin 1 .. keys
        BY HostAssumption DEF FileTypes
    <2>3. NoFile \notin Id \cup {Broken}
        BY HostAssumption, IdsDiffer
    <2>4. QED
        BY <1>4, <2>1, <2>2, <2>3
<1>6. /\ file'[on[p]] = content
      /\ \A f \in File : f # on[p] => file'[f] = file[f]
    BY <1>1, <1>3 DEF Shape
<1>7. \A f \in File : file[f] # NoFile => file'[f] # NoFile
    BY <1>5, <1>6
<1>8. /\ pc'[p] = s /\ on'[p] = g
      /\ \A q \in Process \ {p} :
           pc'[q] = pc[q] /\ on'[q] = on[q] /\ value'[q] = value[q]
    BY <1>2 DEF Shape, Goto, Fill
<1>9. \A f \in KeyFile : file'[f] \in {NoFile, Empty} \/ file'[f] \in 1 .. keys
    <2>1. \A f \in KeyFile : f \in File
        BY DEF File
    <2>2. QED
        BY <1>4, <1>6, <2>1 DEF FileTypes
<1>10. torn' \subseteq {f \in File : file'[f] = Empty}
    BY <1>6 DEF FileTypes, Fill
<1>11. "swarm" \in File /\ "identity" \in File /\ \A q \in Process : on[q] \in File
    BY DEF File, KeyFile, Shape
<1>12. ASSUME NEW q \in Process, q # p
       PROVE  /\ pc'[q] \in Writing /\ on'[q] \in KeyFile => value'[q] \in 1 .. keys
              /\ pc'[q] = "fill" => file'[on'[q]] # NoFile
              /\ on'[q] = "identity" => file'["swarm"] # NoFile
              /\ pc'[q] = "serving"
                   => on'[q] = "identity" /\ file'["identity"] # NoFile
    BY <1>7, <1>8, <1>11, <1>12 DEF FileTypes
<1>13. /\ g = "identity" => file'["swarm"] # NoFile
       /\ s = "serving" => file'["identity"] # NoFile
    <2>1. on[p] \in KeyFile => on[p] \in {"swarm", "identity"}
        BY DEF KeyFile
    <2>2. on[p] = "identity" => file["swarm"] # NoFile
        BY DEF FileTypes
    <2>3. QED
        BY <1>2, <1>5, <1>6, <1>7, <1>11, <2>1, <2>2
<1>14. QED
    BY <1>1, <1>2, <1>8, <1>9, <1>10, <1>12, <1>13 DEF FileTypes, Writing

LEMMA FileCreated ==
    ASSUME Shape, FileTypes, NEW p \in Process, Create(p)
    PROVE  FileTypes'
<1>1. /\ on[p] \in File /\ pc[p] = "create" /\ keys' = keys /\ torn' = torn
      /\ file' = [file EXCEPT ![on[p]] = Empty] /\ value' = value
      /\ Goto(p, "fill", on[p])
    BY DEF Shape, Create
<1>2. /\ file'[on[p]] = Empty
      /\ \A f \in File : f # on[p] => file'[f] = file[f]
    BY <1>1 DEF Shape
<1>3. \A f \in File : file[f] # NoFile => file'[f] # NoFile
    BY <1>2, HostAssumption
<1>4. /\ pc'[p] = "fill" /\ on'[p] = on[p]
      /\ \A q \in Process \ {p} : pc'[q] = pc[q] /\ on'[q] = on[q]
    BY <1>1 DEF Shape, Goto
<1>5. "swarm" \in File /\ "identity" \in File /\ \A q \in Process : on[q] \in File
    BY DEF File, KeyFile, Shape
<1>6. \A f \in KeyFile : file'[f] \in {NoFile, Empty} \/ file'[f] \in 1 .. keys
    <2>1. \A f \in KeyFile : f \in File
        BY DEF File
    <2>2. QED
        BY <1>2, <2>1 DEF FileTypes
<1>7. torn' \subseteq {f \in File : file'[f] = Empty}
    BY <1>1, <1>2 DEF FileTypes
<1>8. ASSUME NEW q \in Process
      PROVE  /\ pc'[q] \in Writing /\ on'[q] \in KeyFile => value'[q] \in 1 .. keys
             /\ pc'[q] = "fill" => file'[on'[q]] # NoFile
             /\ on'[q] = "identity" => file'["swarm"] # NoFile
             /\ pc'[q] = "serving"
                  => on'[q] = "identity" /\ file'["identity"] # NoFile
    <2>1. CASE q = p
        BY <1>1, <1>2, <1>3, <1>4, <1>5, <2>1, HostAssumption
           DEF FileTypes, Writing
    <2>2. CASE q # p
        BY <1>1, <1>3, <1>4, <1>5, <2>2 DEF FileTypes
    <2>3. QED
        BY <2>1, <2>2
<1>9. QED
    BY <1>1, <1>6, <1>7, <1>8 DEF FileTypes

LEMMA FileGenerated ==
    ASSUME Shape, IdInv, FileTypes, NEW p \in Process, MissingKey(p)
    PROVE  FileTypes'
<1>1. /\ on[p] \in KeyFile /\ pc[p] = "read"
      /\ keys' = keys + 1 /\ UNCHANGED <<file, torn>>
      /\ value' = [value EXCEPT ![p] = keys + 1]
      /\ Goto(p, "create", on[p])
    BY DEF MissingKey, GenerateKey, IdInv, IdTypes
<1>2. /\ pc'[p] = "create" /\ on'[p] = on[p] /\ value'[p] = keys + 1
      /\ \A q \in Process \ {p} :
           pc'[q] = pc[q] /\ on'[q] = on[q] /\ value'[q] = value[q]
    BY <1>1 DEF Shape, Goto
<1>3. /\ keys \in Nat /\ keys' \in Nat /\ keys + 1 \in 1 .. keys'
      /\ \A x \in 1 .. keys : x \in 1 .. keys'
    BY <1>1 DEF FileTypes
<1>4. QED
    BY <1>1, <1>2, <1>3 DEF FileTypes, Writing

LEMMA FileNext ==
    ASSUME Shape, IdInv, FileTypes, [Next]_vars
    PROVE  FileTypes'
<1>0. torn \subseteq {f \in File : file[f] = Empty}
    BY DEF FileTypes
<1>1. ASSUME NEW p \in Process, NEW c \in Command, Start(p, c)
      PROVE  FileTypes'
    <2>1. PICK s \in {"check", "read", "insert", "history"},
               f \in {"config", "swarm"} : Goto(p, s, f)
        BY <1>1, BeginGoes DEF Start, StartWith
    <2>2. /\ UNCHANGED <<file, keys, torn, value>> /\ f \in File
          /\ s \notin Writing /\ s # "serving" /\ f # "identity"
        BY <1>1 DEF Start, StartWith, fileVars, File, KeyFile, Writing
    <2>3. QED
        BY <1>0, <2>1, <2>2, FileMoves
<1>2. ASSUME NEW p \in Process, CheckConfig(p)
      PROVE  FileTypes'
    <2>1. UNCHANGED <<file, keys, torn>>
        BY <1>2 DEF CheckConfig, fileVars
    <2>2. CASE Goto(p, "create", "config")
        <3>1. /\ pc'[p] = "create" /\ on'[p] = "config"
              /\ \A q \in Process \ {p} :
                   pc'[q] = pc[q] /\ on'[q] = on[q] /\ value'[q] = value[q]
            BY <1>2, <2>2 DEF Shape, Goto, CheckConfig
        <3>2. QED
            BY <2>1, <3>1 DEF FileTypes, KeyFile
    <2>3. CASE Proceed(p, "config") /\ UNCHANGED value
        <3>1. Goto(p, "read", "swarm") /\ "swarm" \in File
            BY <2>3 DEF Proceed, File, KeyFile
        <3>2. QED
            BY <1>0, <2>1, <2>3, <3>1, FileMoves DEF Writing
    <2>4. QED
        BY <1>2, <2>2, <2>3 DEF CheckConfig
<1>3. ASSUME NEW p \in Process, ReadKey(p)
      PROVE  FileTypes'
    <2>1. on[p] \in File /\ file[on[p]] # NoFile /\ Proceed(p, on[p])
        BY <1>3 DEF Shape, ReadKey
    <2>2. PICK s \in {"read", "push", "serving", "exit"}, g \in KeyFile :
             /\ Goto(p, s, g)
             /\ g = "identity" => on[p] \in KeyFile
             /\ s = "serving" => g = "identity" /\ on[p] = "identity"
        BY <2>1, ProceedTo
    <2>3. UNCHANGED <<file, keys, torn, value>> /\ g \in File /\ s \notin Writing
        BY <1>3 DEF ReadKey, fileVars, File, Writing
    <2>4. g = "identity" => file["swarm"] # NoFile
        BY <2>1, <2>2 DEF FileTypes, KeyFile
    <2>5. s = "serving" => g = "identity" /\ file["identity"] # NoFile
        BY <2>1, <2>2
    <2>6. QED
        BY <1>0, <2>2, <2>3, <2>4, <2>5, FileMoves
<1>4. ASSUME NEW p \in Process, EmptyKey(p) \/ Exit(p) \/ RecordEntry(p)
      PROVE  FileTypes'
    BY <1>0, <1>4, FileEnds DEF EmptyKey, Exit, RecordEntry, fileVars
<1>5. ASSUME NEW p \in Process, Dies(p)
      PROVE  FileTypes'
    <2>1. on[p] \in File
        BY DEF Shape
    <2>2. torn' \subseteq {f \in File : file[f] = Empty}
        BY <1>0, <1>5, <2>1 DEF Dies
    <2>3. QED
        BY <1>5, <2>2, FileEnds DEF Dies
<1>6. ASSUME NEW p \in Process, ReadHistory(p)
      PROVE  FileTypes'
    <2>1. /\ Goto(p, "batch", "config") /\ "config" \in File
          /\ UNCHANGED <<file, keys, torn, value>>
        BY <1>6 DEF ReadHistory, fileVars, File
    <2>2. QED
        BY <1>0, <2>1, FileMoves DEF Writing
<1>7. ASSUME UNCHANGED <<file, keys, torn, pc, on, value>>
      PROVE  FileTypes'
    BY <1>7 DEF FileTypes
<1>8. ASSUME NEW p \in Process, ImportBatch(p)
      PROVE  FileTypes'
    BY <1>0, <1>7, <1>8, FileEnds DEF ImportBatch, fileVars
<1>9. ASSUME NEW p \in Process, Push(p)
      PROVE  FileTypes'
    BY <1>0, <1>7, <1>9, FileEnds DEF Push, fileVars, procVars
<1>10. ASSUME UNCHANGED <<fileVars, procVars>>
       PROVE  FileTypes'
    BY <1>7, <1>10 DEF fileVars, procVars
<1>11. QED
    BY <1>1, <1>2, <1>3, <1>4, <1>5, <1>6, <1>8, <1>9, <1>10, FileFilled,
       FileCreated, FileGenerated
       DEF Next, FileStep, DbStep, LoadFails, AddCommand, TrimHistory, vars

LEMMA FileInit == Init => FileTypes
BY DEF Init, FileTypes, File, KeyFile, Writing

HostInv == Shape /\ IdInv /\ HistoryInv /\ TodoTypes /\ FileTypes

LEMMA HostNext == HostInv /\ [Next]_vars => HostInv'
BY ShapeStep, IdStep, HistoryNext, TodoNext, FileNext DEF HostInv

LEMMA HostInit == Init => HostInv
BY ShapeInit, IdInit, HistoryInit, TodoInit, FileInit DEF HostInv

\* Types: among them that a server runs only when both keys are there, and
\* that a writer killed half-way leaves an empty file, which the files in torn
\* stay.
THEOREM HostTypeCorrect == Spec => []TypeOK
<1>1. HostInv => TypeOK
    <2> SUFFICES ASSUME HostInv PROVE TypeOK
        OBVIOUS
    <2>1. loaded \in [Process -> Id]
        BY DEF HostInv, Shape, IdInv, IdTypes
    <2>2. ASSUME NEW p \in Process, pc[p] = "fill"
          PROVE  value[p] \notin {NoFile, Empty}
        <3>1. on[p] \in KeyFile \/ on[p] = "config"
            BY DEF HostInv, Shape, File
        <3>2. value[p] \in Nat \/ value[p] \in Id
            BY <2>2, <3>1 DEF HostInv, FileTypes, IdInv, IdTypes, Writing
        <3>3. QED
            BY <3>2, IdsDiffer, HostAssumption
    <2>3. ASSUME NEW p \in Process, pc[p] = "serving"
          PROVE  \A f \in KeyFile : file[f] # NoFile
        BY <2>3 DEF HostInv, FileTypes, KeyFile
    <2>4. file["config"] \in Name \cup {NoFile, Empty, Broken, NoId}
        BY DEF HostInv, IdInv, IdTypes, Id
    <2>5. QED
        BY <2>1, <2>2, <2>3, <2>4
           DEF HostInv, Shape, TypeOK, FileTypes, TodoTypes, Id
<1>2. QED
    BY <1>1, HostInit, HostNext, PTL DEF Spec

-----------------------------------------------------------------------------
(* What imports store.                                                     *)

\* The entries of an import come from the file as it is now, and those it
\* has inserted are in the database.
TodoFromFile(p) ==
    pc[p] = "batch" =>
        /\ \A i \in 1 .. Len(todo[p]) : \E k \in 1 .. Len(Parsed) :
             todo[p][i] = EntryOf(import_device_id(p), k)
        /\ \A i \in 1 .. done[p] : \E r \in rows :
             r.entry_id = todo[p][i].entry_id

\* A row was typed in the shell, or is that of a record in the file.
RowFromFile(r) ==
    \/ r.born = 0 /\ \E n : r.entry_id = <<n>>
    \/ \E k \in 1 .. Len(Parsed) :
         /\ r.entry_id = EntryOf(r.device_id, k).entry_id
         /\ r.born = EntryOf(r.device_id, k).born

RowsFromFile ==
    /\ \A r \in rows : RowFromFile(r)
    /\ \A r, s \in rows : r.entry_id = s.entry_id => r = s

ImportInv ==
    /\ trims \in Nat
    /\ ImportComplete
    /\ trims = 0 => RowsFromFile /\ \A p \in Process : TodoFromFile(p)

LEMMA EntriesDiffer ==
    ASSUME NEW d, NEW e, NEW k \in Nat, NEW l \in Nat,
           EntryOf(d, k).entry_id = EntryOf(e, l).entry_id
    PROVE  d = e /\ k = l
<1>1. <<d, Parsed[k].ts_unix, Parsed[k].cmd, k - 1>>
        = <<e, Parsed[l].ts_unix, Parsed[l].cmd, l - 1>>
    BY DEF EntryOf, import_entry_id
<1>2. d = e /\ k - 1 = l - 1
    BY <1>1
<1>3. QED
    BY <1>2

\* No two records of the file are of one command.
LEMMA BornDiffer ==
    ASSUME HistoryInv, NEW k \in 1 .. Len(Parsed)
    PROVE  /\ Parsed[k].born \in Nat \ {0}
           /\ \A l \in 1 .. Len(Parsed) :
                Parsed[k].born = Parsed[l].born => k = l
<1>1. /\ Len(Parsed) \in Nat
      /\ \A i \in 1 .. Len(Parsed) : \E m \in 1 .. Len(history) :
           Parsed[i].born = history[m].born
      /\ \A i, j \in 1 .. Len(Parsed) :
           i < j => Parsed[i].born < Parsed[j].born
    <2>1. ReadFrom(Parsed, Len(history))
        BY ParsedRight
    <2> DEFINE out == Parsed
    <2>2. /\ out \in Seq(Record)
          /\ \A i \in 1 .. Len(out) : \E m \in 1 .. Len(history) :
               out[i].born = history[m].born
          /\ \A i, j \in 1 .. Len(out) : i < j => out[i].born < out[j].born
        BY <2>1 DEF ReadFrom
    <2> HIDE DEF out
    <2>3. Len(out) \in Nat
        BY <2>2
    <2>4. QED
        BY <2>2, <2>3 DEF out
<1>2. \A i \in 1 .. Len(Parsed) : Parsed[i].born \in Nat \ {0}
    BY <1>1 DEF HistoryInv, BornInv, HistoryTypes
<1>3. ASSUME NEW l \in 1 .. Len(Parsed), Parsed[k].born = Parsed[l].born
      PROVE  k = l
    <2>1. k < l \/ l < k \/ k = l
        BY <1>1
    <2>2. QED
        BY <1>1, <1>2, <1>3, <2>1
<1>4. QED
    BY <1>2, <1>3

\* Rows that are not of the shell are of one record.
LEMMA OneRow ==
    ASSUME HistoryInv, RowsFromFile
    PROVE  \A r, s \in rows :
             r.born = s.born /\ r.born # 0 /\ r.device_id = s.device_id => r = s
<1> SUFFICES ASSUME NEW r \in rows, NEW s \in rows, r.born = s.born,
                    r.born # 0, r.device_id = s.device_id
             PROVE  r = s
    OBVIOUS
<1>1. PICK k \in 1 .. Len(Parsed) :
         /\ r.entry_id = EntryOf(r.device_id, k).entry_id
         /\ r.born = EntryOf(r.device_id, k).born
    BY DEF RowsFromFile, RowFromFile
<1>2. PICK l \in 1 .. Len(Parsed) :
         /\ s.entry_id = EntryOf(s.device_id, l).entry_id
         /\ s.born = EntryOf(s.device_id, l).born
    BY DEF RowsFromFile, RowFromFile
<1>3. Parsed[k].born = Parsed[l].born
    BY <1>1, <1>2 DEF EntryOf
<1>4. k = l
    BY <1>3, BornDiffer
<1>5. QED
    BY <1>1, <1>2, <1>4 DEF RowsFromFile

\* The id an import works under stays while it runs.
LEMMA SameDevice ==
    ASSUME NEW p \in Process, UNCHANGED menu,
           loaded'[p] = loaded[p], arg'[p] = arg[p]
    PROVE  import_device_id(p)' = import_device_id(p)
BY DEF import_device_id, device_id_setting, env_DEVICE_ID, env_HOSTNAME

LEMMA ImportKeeps ==
    ASSUME ImportInv, UNCHANGED <<menu, rows, claims, historyVars>>,
           \A p \in Process : pc'[p] = "batch" =>
               /\ pc[p] = "batch" /\ todo'[p] = todo[p] /\ done'[p] = done[p]
               /\ loaded'[p] = loaded[p] /\ arg'[p] = arg[p]
    PROVE  ImportInv'
<1>1. UNCHANGED <<shell, history, trims>>
    BY DEF historyVars
<1>2. Parsed' = Parsed
    BY <1>1 DEF Parsed
<1>3. ImportComplete' /\ trims' \in Nat
    BY <1>1 DEF ImportInv, ImportComplete
<1>4. RowsFromFile => RowsFromFile'
    BY <1>2 DEF RowsFromFile, RowFromFile, EntryOf
<1>5. ASSUME NEW p \in Process, TodoFromFile(p)
      PROVE  TodoFromFile(p)'
    <2>1. pc'[p] = "batch" => import_device_id(p)' = import_device_id(p)
        BY SameDevice
    <2>2. pc'[p] = "batch" =>
             \A k : EntryOf(import_device_id(p), k)' = EntryOf(import_device_id(p), k)
        BY <1>2, <2>1 DEF EntryOf
    <2>3. QED
        BY <1>2, <1>5, <2>2 DEF TodoFromFile
<1>6. QED
    BY <1>1, <1>3, <1>4, <1>5 DEF ImportInv

\* What an insert adds.
LEMMA InsertedNew ==
    ASSUME NEW new, InsertNew(new)
    PROVE  /\ rows \subseteq rows'
           /\ \A n \in new : \E r \in rows' : r.entry_id = n.entry_id
           /\ \A r \in rows' :
                \/ r \in rows
                \/ r \in new /\ \A s \in rows : s.entry_id # r.entry_id
<1>1. ASSUME NEW n \in new
      PROVE  \E r \in rows' : r.entry_id = n.entry_id
    <2>1. CASE \E s \in rows : s.entry_id = n.entry_id
        BY <2>1 DEF InsertNew
    <2>2. CASE \A s \in rows : s.entry_id # n.entry_id
        BY <2>2 DEF InsertNew
    <2>3. QED
        BY <2>1, <2>2
<1>2. rows' = rows \cup {r \in new : \A s \in rows : s.entry_id # r.entry_id}
    BY DEF InsertNew
<1>3. \A r \in rows' :
        \/ r \in rows
        \/ r \in new /\ \A s \in rows : s.entry_id # r.entry_id
    BY <1>2
<1>4. QED
    BY <1>1, <1>2, <1>3

LEMMA InsertKeeps ==
    ASSUME NEW new, InsertNew(new), RowsFromFile, Parsed' = Parsed,
           \A r \in new : RowFromFile(r),
           \A r, s \in new : r.entry_id = s.entry_id => r = s
    PROVE  RowsFromFile'
<1>1. \A r \in rows' :
        \/ r \in rows
        \/ r \in new /\ \A s \in rows : s.entry_id # r.entry_id
    BY InsertedNew
<1>2. ASSUME NEW r \in rows'
      PROVE  RowFromFile(r)'
    <2>1. RowFromFile(r)
        BY <1>1 DEF RowsFromFile
    <2>2. QED
        BY <2>1 DEF RowFromFile, EntryOf
<1>3. \A r, s \in rows' : r.entry_id = s.entry_id => r = s
    BY <1>1 DEF RowsFromFile
<1>4. QED
    BY <1>2, <1>3 DEF RowsFromFile

LEMMA ImportRecorded ==
    ASSUME HostInv, ImportInv, NEW p \in Process, RecordEntry(p)
    PROVE  ImportInv'
<1> DEFINE n == Cardinality({r \in rows : r.born = 0})
           row == Stored(<<n + 1>>, record_device_id(p), 0, p)
<1>1. /\ InsertNew({row}) /\ End(p) /\ claims' = claims
      /\ UNCHANGED <<menu, shell, history, trims>>
    BY DEF RecordEntry, historyVars
<1>2. Parsed' = Parsed
    BY <1>1 DEF Parsed
<1>3. row.born = 0 /\ row.entry_id = <<n + 1>>
    BY DEF Stored
<1>4. RowFromFile(row)
    BY <1>3 DEF RowFromFile
<1> HIDE DEF row, n
<1>5. RowsFromFile => RowsFromFile'
    BY <1>1, <1>2, <1>4, InsertKeeps
<1>6. rows \subseteq rows'
    BY <1>1, InsertedNew
<1>7. ASSUME NEW q \in Process, TodoFromFile(q)
      PROVE  TodoFromFile(q)'
    <2>1. CASE q = p
        BY <1>1, <2>1 DEF End, Goto, TodoFromFile, HostInv, Shape
    <2>2. CASE q # p
        <3>1. /\ pc'[q] = pc[q] /\ todo'[q] = todo[q] /\ done'[q] = done[q]
              /\ loaded'[q] = loaded[q] /\ arg'[q] = arg[q]
            BY <1>1, <2>2 DEF End, Goto, HostInv, Shape, TodoTypes
        <3>2. import_device_id(q)' = import_device_id(q)
            BY <1>1, <3>1, SameDevice
        <3>3. QED
            BY <1>2, <1>6, <1>7, <3>1, <3>2 DEF TodoFromFile, EntryOf
    <2>3. QED
        BY <2>1, <2>2
<1>8. ImportComplete' /\ trims' \in Nat
    BY <1>1, <1>6 DEF ImportInv, ImportComplete
<1>9. QED
    BY <1>1, <1>5, <1>7, <1>8 DEF ImportInv

LEMMA ImportRead ==
    ASSUME HostInv, ImportInv, NEW p \in Process, ReadHistory(p)
    PROVE  ImportInv'
<1>1. PICK limit \in Limits :
         todo' = [todo EXCEPT ![p] = ImportEntries(shell, history, limit,
                                                   import_device_id(p))]
    BY DEF ReadHistory
<1> DEFINE T == ImportEntries(shell, history, limit, import_device_id(p))
           F == {EntryOf(import_device_id(p), k) : k \in 1 .. Len(Parsed)}
<1>2. T \in Seq(F)
    <2>1. limit \in Nat \ {0}
        BY HostAssumption
    <2>2. QED
        BY <2>1, ImportsParsed DEF HostInv
<1>3. /\ UNCHANGED <<menu, shell, history, trims, rows, claims, arg, loaded,
                      done>>
      /\ pc[p] = "history" /\ pc' = [pc EXCEPT ![p] = "batch"]
      /\ todo' = [todo EXCEPT ![p] = T]
    BY <1>1 DEF ReadHistory, historyVars, dbVars, Goto
<1>4. Parsed' = Parsed
    BY <1>3 DEF Parsed
<1>5. \A i \in 1 .. Len(T) : \E k \in 1 .. Len(Parsed) :
         T[i] = EntryOf(import_device_id(p), k)
    <2> HIDE DEF T
    <2>1. \A i \in 1 .. Len(T) : T[i] \in F
        <3> HIDE DEF F
        <3>1. QED
            BY <1>2
    <2>2. QED
        BY <2>1
<1> HIDE DEF T, F
<1>6. done[p] = 0
    BY <1>3 DEF HostInv, TodoTypes
<1>7. /\ todo'[p] = T
      /\ \A q \in Process \ {p} : pc'[q] = pc[q] /\ todo'[q] = todo[q]
    BY <1>3 DEF HostInv, Shape, TodoTypes
<1>8. \A q \in Process : import_device_id(q)' = import_device_id(q)
    BY <1>3, SameDevice
<1>9. TodoFromFile(p)'
    <2>1. \A i \in 1 .. done'[p] : FALSE
        BY <1>3, <1>6
    <2>2. QED
        BY <1>4, <1>5, <1>7, <1>8, <2>1 DEF TodoFromFile, EntryOf
<1>10. ASSUME NEW q \in Process, q # p, TodoFromFile(q)
       PROVE  TodoFromFile(q)'
    <2>1. \A k : EntryOf(import_device_id(q), k)' = EntryOf(import_device_id(q), k)
        BY <1>4, <1>8 DEF EntryOf
    <2>2. /\ pc'[q] = pc[q] /\ todo'[q] = todo[q] /\ done'[q] = done[q]
          /\ rows' = rows
        BY <1>3, <1>7, <1>10
    <2>3. QED
        BY <1>4, <1>10, <2>1, <2>2 DEF TodoFromFile
<1>11. RowsFromFile => RowsFromFile'
    BY <1>3, <1>4 DEF RowsFromFile, RowFromFile, EntryOf
<1>12. ImportComplete' /\ trims' \in Nat
    BY <1>3 DEF ImportInv, ImportComplete
<1>13. QED
    BY <1>3, <1>9, <1>10, <1>11, <1>12 DEF ImportInv

\* A batch of an import.
LEMMA ImportBatched ==
    ASSUME HostInv, ImportInv, NEW p \in Process, ImportBatch(p)
    PROVE  ImportInv'
<1> DEFINE last == LastOf(p)
           dev == import_device_id(p)
           Row(e) == Stored(e.entry_id, dev, e.born, p)
           next == {todo[p][i] : i \in done[p] + 1 .. last}
           new == {Row(e) : e \in next}
<1>1. /\ pc[p] = "batch" /\ InsertNew(new)
      /\ UNCHANGED <<menu, shell, history, trims>>
      /\ \/ /\ last = Len(todo[p]) /\ End(p)
            /\ claims' = claims \cup {[born |-> todo[p][i].born,
                                       device_id |-> dev] : i \in 1 .. last}
         \/ /\ done' = [done EXCEPT ![p] = last]
            /\ UNCHANGED <<claims, pc, arg, loaded, todo>>
    BY DEF ImportBatch, historyVars
<1>2. Parsed' = Parsed /\ HistoryInv
    BY <1>1 DEF Parsed, HostInv
<1>3. /\ done[p] \in Nat /\ Len(todo[p]) \in Nat /\ done[p] <= Len(todo[p])
    BY DEF HostInv, TodoTypes
<1>4. last \in Nat /\ done[p] <= last /\ last <= Len(todo[p])
    BY <1>3, HistoryAssumption DEF LastOf
<1> HIDE DEF last
<1>5. \A e : /\ Row(e).entry_id = e.entry_id /\ Row(e).device_id = dev
             /\ Row(e).born = e.born
    BY DEF Stored
<1> HIDE DEF dev
<1>6. \A i \in done[p] + 1 .. last : i \in 1 .. Len(todo[p])
    BY <1>3, <1>4
<1>7. /\ rows \subseteq rows'
      /\ \A i \in done[p] + 1 .. last : \E r \in rows' :
           r.entry_id = todo[p][i].entry_id
    <2>1. \A i \in done[p] + 1 .. last : Row(todo[p][i]) \in new
        OBVIOUS
    <2> HIDE DEF new, Row
    <2>2. QED
        BY <1>1, <1>5, <2>1, InsertedNew
<1>8. /\ ImportComplete' /\ trims' \in Nat
      /\ trims = 0 => RowsFromFile' /\ \A q \in Process : TodoFromFile(q)'
    <2>1. CASE trims # 0
        BY <1>1, <2>1 DEF ImportInv, ImportComplete
    <2>2. CASE trims = 0
        <3>1. /\ RowsFromFile /\ ImportComplete
              /\ \A q \in Process : TodoFromFile(q)
            BY <2>2 DEF ImportInv
        <3>2. /\ \A i \in 1 .. Len(todo[p]) : \E k \in 1 .. Len(Parsed) :
                    todo[p][i] = EntryOf(dev, k)
              /\ \A i \in 1 .. done[p] : \E r \in rows :
                    r.entry_id = todo[p][i].entry_id
            BY <1>1, <3>1 DEF TodoFromFile, dev
        <3>3. \A e \in next : \E k \in 1 .. Len(Parsed) : e = EntryOf(dev, k)
            BY <1>6, <3>2
        <3>4. \A r \in new : RowFromFile(r)
            <4> SUFFICES ASSUME NEW e \in next PROVE RowFromFile(Row(e))
                OBVIOUS
            <4>1. PICK k \in 1 .. Len(Parsed) : e = EntryOf(dev, k)
                BY <3>3
            <4> HIDE DEF Row
            <4>2. QED
                BY <1>5, <4>1 DEF RowFromFile
        <3>5. ASSUME NEW e \in next, NEW f \in next, e.entry_id = f.entry_id
              PROVE  e = f
            <4>1. PICK k \in 1 .. Len(Parsed) : e = EntryOf(dev, k)
                BY <3>3
            <4>2. PICK l \in 1 .. Len(Parsed) : f = EntryOf(dev, l)
                BY <3>3
            <4>3. k \in Nat /\ l \in Nat
                BY <1>2, ParsedRight DEF ReadFrom
            <4>4. k = l
                BY <3>5, <4>1, <4>2, <4>3, EntriesDiffer
            <4>5. QED
                BY <4>1, <4>2, <4>4
        <3>6. \A r, s \in new : r.entry_id = s.entry_id => r = s
            <4> HIDE DEF Row
            <4>1. QED
                BY <1>5, <3>5
        <3>7. RowsFromFile'
            <4> HIDE DEF new
            <4>1. QED
                BY <1>1, <1>2, <3>1, <3>4, <3>6, InsertKeeps
        <3>8. \A i \in 1 .. last : \E r \in rows' :
                 r.entry_id = todo[p][i].entry_id
            <4>1. \A i \in 1 .. last : i \in 1 .. done[p]
                                         \/ i \in done[p] + 1 .. last
                BY <1>3, <1>4
            <4>2. QED
                BY <1>7, <3>2, <4>1
        <3>9. ASSUME NEW q \in Process, q # p
              PROVE  TodoFromFile(q)'
            <4>1. /\ pc'[q] = pc[q] /\ todo'[q] = todo[q] /\ done'[q] = done[q]
                  /\ loaded'[q] = loaded[q] /\ arg'[q] = arg[q]
                BY <1>1, <3>9 DEF End, Goto, HostInv, Shape, TodoTypes
            <4>2. \A k : EntryOf(import_device_id(q), k)'
                           = EntryOf(import_device_id(q), k)
                BY <1>1, <1>2, <4>1, SameDevice DEF EntryOf
            <4>3. TodoFromFile(q)
                BY <3>1
            <4>4. QED
                BY <1>2, <1>7, <4>1, <4>2, <4>3 DEF TodoFromFile
        <3>10. CASE done' = [done EXCEPT ![p] = last]
                      /\ UNCHANGED <<claims, pc, arg, loaded, todo>>
            <4>1. done'[p] = last
                BY <3>10 DEF HostInv, TodoTypes
            <4>2. \A k : EntryOf(import_device_id(p), k)' = EntryOf(dev, k)
                <5>1. import_device_id(p)' = dev
                    BY <1>1, <3>10, SameDevice DEF dev
                <5>2. QED
                    BY <1>2, <5>1 DEF EntryOf
            <4>3. TodoFromFile(p)'
                BY <1>2, <3>2, <3>8, <3>10, <4>1, <4>2 DEF TodoFromFile
            <4>4. ImportComplete'
                BY <1>1, <1>7, <3>1, <3>10 DEF ImportComplete
            <4>5. QED
                BY <1>1, <3>7, <3>9, <4>3, <4>4 DEF ImportInv
        <3>11. CASE /\ last = Len(todo[p]) /\ End(p)
                    /\ claims' = claims \cup {[born |-> todo[p][i].born,
                                       device_id |-> dev] : i \in 1 .. last}
            <4>1. TodoFromFile(p)'
                <5>1. pc'[p] = "idle"
                    BY <3>11 DEF End, Goto, HostInv, Shape
                <5>2. QED
                    BY <5>1 DEF TodoFromFile
            <4>2. ASSUME NEW i \in 1 .. last
                  PROVE  \E r \in rows' : /\ r.born = todo[p][i].born
                                          /\ r.device_id = dev
                <5>1. PICK k \in 1 .. Len(Parsed) : todo[p][i] = EntryOf(dev, k)
                    BY <1>4, <3>2, <3>11
                <5>2. PICK r \in rows' : r.entry_id = todo[p][i].entry_id
                    BY <3>8
                <5>3. RowFromFile(r)
                    <6>1. r \in rows \/ r \in new
                        <7> HIDE DEF new
                        <7>1. QED
                            BY <1>1, InsertedNew
                    <6>2. QED
                        BY <3>1, <3>4, <6>1 DEF RowsFromFile
                <5>4. \A n : r.entry_id # <<n>>
                    BY <5>1, <5>2 DEF EntryOf, import_entry_id
                <5>5. PICK l \in 1 .. Len(Parsed) :
                         /\ r.entry_id = EntryOf(r.device_id, l).entry_id
                         /\ r.born = EntryOf(r.device_id, l).born
                    BY <5>3, <5>4 DEF RowFromFile
                <5>6. k \in Nat /\ l \in Nat
                    BY <1>2, ParsedRight DEF ReadFrom
                <5>7. dev = r.device_id /\ k = l
                    <6>1. EntryOf(dev, k).entry_id
                            = EntryOf(r.device_id, l).entry_id
                        BY <5>1, <5>2, <5>5
                    <6>2. QED
                        BY <5>6, <6>1, EntriesDiffer
                <5>8. QED
                    BY <5>1, <5>5, <5>7
            <4>3. ASSUME NEW c \in claims'
                  PROVE  \E r \in rows' : /\ r.born = c.born
                                          /\ r.device_id = c.device_id
                <5>1. CASE c \in claims
                    BY <1>7, <2>2, <3>1, <5>1 DEF ImportComplete
                <5>2. CASE \E i \in 1 .. last :
                             c = [born |-> todo[p][i].born, device_id |-> dev]
                    BY <4>2, <5>2
                <5>3. QED
                    BY <3>11, <4>3, <5>1, <5>2
            <4>4. ImportComplete'
                BY <4>3 DEF ImportComplete
            <4>5. QED
                BY <1>1, <3>7, <3>9, <4>1, <4>4 DEF ImportInv
        <3>12. QED
            BY <1>1, <3>10, <3>11
    <2>3. QED
        BY <2>1, <2>2
<1>9. QED
    BY <1>1, <1>8 DEF ImportInv

\* What the shell appends changes no record that was there.
LEMMA ImportAppended ==
    ASSUME HostInv, ImportInv, AddCommand
    PROVE  ImportInv'
<1>1. UNCHANGED <<menu, procVars, dbVars, trims>>
    BY DEF AddCommand
<1>2. Extends(Parsed, Parsed')
    BY ParsedGrows DEF HostInv
<1>3. /\ Len(Parsed) \in Nat /\ Len(Parsed') \in Nat
    <2>1. HistoryInv /\ HistoryInv'
        BY HistoryAdded DEF HostInv
    <2>2. Parsed \in Seq(Record)
        BY <2>1, ParsedRight DEF ReadFrom
    <2>3. Parsed' \in Seq(Record)
        <3>1. (HistoryInv => ReadFrom(Parsed, Len(history)))'
            BY ParsedRight, PTL
        <3>2. QED
            BY <2>1, <3>1 DEF ReadFrom
    <2>4. QED
        BY <2>2, <2>3
<1>4. \A k \in 1 .. Len(Parsed) : k \in 1 .. Len(Parsed') /\ Parsed'[k] = Parsed[k]
    BY <1>2, <1>3 DEF Extends
<1>5. \A d : \A k \in 1 .. Len(Parsed) : EntryOf(d, k)' = EntryOf(d, k)
    BY <1>4 DEF EntryOf
<1>6. ASSUME RowsFromFile
      PROVE  RowsFromFile'
    <2>1. rows' = rows
        BY <1>1 DEF dbVars
    <2>2. ASSUME NEW r \in rows
          PROVE  RowFromFile(r)'
        <3>1. RowFromFile(r)
            BY <1>6 DEF RowsFromFile
        <3>2. QED
            BY <1>4, <1>5, <3>1 DEF RowFromFile
    <2>3. QED
        BY <1>6, <2>1, <2>2 DEF RowsFromFile
<1>7. ASSUME NEW p \in Process, TodoFromFile(p)
      PROVE  TodoFromFile(p)'
    <2>1. UNCHANGED <<pc, todo, done, rows, arg, loaded>>
        BY <1>1 DEF procVars, dbVars
    <2>2. \A k \in 1 .. Len(Parsed) :
            EntryOf(import_device_id(p), k)' = EntryOf(import_device_id(p), k)
        BY <1>1, <1>4, <2>1, SameDevice DEF EntryOf
    <2>3. QED
        BY <1>4, <1>7, <2>1, <2>2 DEF TodoFromFile
<1>8. QED
    BY <1>1, <1>6, <1>7 DEF ImportInv, ImportComplete, dbVars

LEMMA ImportNext ==
    ASSUME HostInv, ImportInv, [Next]_vars
    PROVE  ImportInv'
<1>1. ASSUME NEW p \in Process, NEW s, NEW f, Goto(p, s, f), s # "batch",
             UNCHANGED <<menu, rows, claims, historyVars, todo, done>>,
             \A q \in Process \ {p} : loaded'[q] = loaded[q] /\ arg'[q] = arg[q]
      PROVE  ImportInv'
    <2>1. pc'[p] = s /\ \A q \in Process \ {p} : pc'[q] = pc[q]
        BY <1>1 DEF Goto, HostInv, Shape
    <2>2. QED
        BY <1>1, <2>1, ImportKeeps
<1>2. ASSUME NEW p \in Process, End(p), UNCHANGED <<menu, rows, claims, historyVars>>
      PROVE  ImportInv'
    <2>1. /\ pc'[p] = "idle"
          /\ \A q \in Process \ {p} :
               /\ pc'[q] = pc[q] /\ todo'[q] = todo[q] /\ done'[q] = done[q]
               /\ loaded'[q] = loaded[q] /\ arg'[q] = arg[q]
        BY <1>2 DEF End, Goto, HostInv, Shape, TodoTypes
    <2>2. QED
        BY <1>2, <2>1, ImportKeeps
<1>3. ASSUME UNCHANGED <<menu, rows, claims, historyVars, procVars>>
      PROVE  ImportInv'
    BY <1>3, ImportKeeps DEF procVars
<1>4. ASSUME NEW p \in Process, NEW c \in Command, Start(p, c)
      PROVE  ImportInv'
    <2>1. PICK s \in {"check", "read", "insert", "history"},
               f \in {"config", "swarm"} : Goto(p, s, f)
        BY <1>4, BeginGoes DEF Start, StartWith
    <2>2. /\ UNCHANGED <<menu, rows, claims, historyVars, todo, done>>
          /\ \A q \in Process \ {p} : loaded'[q] = loaded[q] /\ arg'[q] = arg[q]
        BY <1>4 DEF Start, StartWith, dbVars, HostInv, Shape
    <2>3. QED
        BY <1>1, <2>1, <2>2
<1>5. ASSUME NEW p \in Process, FileStep(p)
      PROVE  ImportInv'
    <2>1. on[p] \in File /\ "config" \in File
        BY DEF HostInv, Shape, File
    <2>2. CASE EmptyKey(p)
        BY <1>2, <2>2 DEF EmptyKey, dbVars
    <2>3. CASE ~ EmptyKey(p)
        <3>1. /\ UNCHANGED <<menu, rows, claims, historyVars, todo, done>>
              /\ \A q \in Process \ {p} : loaded'[q] = loaded[q] /\ arg'[q] = arg[q]
            BY <1>5, <2>3 DEF FileStep, CheckConfig, Create, Fill, MissingKey,
                              GenerateKey, ReadKey, dbVars, HostInv, Shape
        <3>2. \/ \E f \in File : Proceed(p, f)
              \/ \E s \in {"create", "fill"} : \E f : Goto(p, s, f)
            BY <1>5, <2>1, <2>3 DEF FileStep, CheckConfig, Create, Fill,
                                    MissingKey, GenerateKey, ReadKey
        <3>3. \E s, f : s # "batch" /\ Goto(p, s, f)
            BY <3>2, ProceedGoes
        <3>4. QED
            BY <1>1, <3>1, <3>3
    <2>4. QED
        BY <2>2, <2>3
<1>6. ASSUME NEW p \in Process, Exit(p) \/ Dies(p)
      PROVE  ImportInv'
    BY <1>2, <1>6 DEF Exit, Dies, dbVars
<1>7. ASSUME NEW p \in Process, Push(p)
      PROVE  ImportInv'
    BY <1>2, <1>3, <1>7 DEF Push
<1>8. ASSUME TrimHistory
      PROVE  ImportInv'
    <2>1. trims \in Nat /\ trims' = trims + 1
        BY <1>8 DEF TrimHistory, ImportInv
    <2>2. trims' # 0 /\ trims' \in Nat
        BY <2>1
    <2>3. QED
        BY <2>2 DEF ImportInv, ImportComplete
<1>9. ASSUME UNCHANGED <<menu, dbVars, historyVars, procVars>>
      PROVE  ImportInv'
    BY <1>3, <1>9 DEF dbVars
<1>10. QED
    BY <1>4, <1>5, <1>6, <1>7, <1>8, <1>9, ImportRecorded, ImportRead,
       ImportBatched, ImportAppended
       DEF Next, DbStep, LoadFails, vars

LEMMA ImportInit == Init => ImportInv
BY DEF Init, ImportInv, ImportComplete, RowsFromFile, TodoFromFile

\* However imports repeat, overlap, limit or break off: while the history file
\* only grows, each command is stored once for one device, and an import that
\* reports success has stored all it read.
THEOREM ImportsExact == Spec => []ImportExact
<1>1. HostInv /\ ImportInv => ImportExact
    <2>1. HostInv /\ ImportInv => ImportedOnce
        BY OneRow DEF HostInv, ImportInv, ImportedOnce
    <2>2. QED
        BY <2>1 DEF ImportExact, ImportInv
<1>2. Init => HostInv /\ ImportInv
    BY HostInit, ImportInit
<1>3. HostInv /\ ImportInv /\ [Next]_vars => (HostInv /\ ImportInv)'
    BY HostNext, ImportNext
<1>4. QED
    BY <1>1, <1>2, <1>3, PTL DEF Spec

=============================================================================
