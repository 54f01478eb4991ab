------------------------------- MODULE MCHost -------------------------------
(***************************************************************************)
(* Instances of Host for TLC.                                              *)
(***************************************************************************)
EXTENDS Host, TLC

TwoProcesses == {"p1", "p2"}

Menu(a, b) == "p1" :> a @@ "p2" :> b

\* First starts; a device that is set up anew while it records and syncs; a
\* daemon that syncs; two set-ups; two imports; an import of a file that is cut
\* at its front.
Daemon == Menu({"init", "record"}, {"sync"})
DaemonOnly == Menu({"record"}, {"sync"})
TwoImports == Menu({"import"}, {"import"})
ImportAndTrim == Menu({"import"}, {"trim"})

MCMenus == {Menu({"init", "sync"}, {"serve"}),
            Menu({"init"}, {"record", "sync"}),
            Daemon, DaemonOnly,
            Menu({"init"}, {"init"}),
            TwoImports, ImportAndTrim}

\* RUSTORY_DEVICE_ID is set for the daemon p2 alone.
MCDeviceEnv ==
    [m \in MCMenus |->
        Menu(NoId, IF m = Daemon THEN "other"
                   ELSE IF m = DaemonOnly THEN "given" ELSE NoId)]

MCFlags ==
    [m \in MCMenus |-> IF m = TwoImports THEN {NoId}
                       ELSE IF m = ImportAndTrim THEN {"given"}
                       ELSE {NoId, "given"}]

MCInitial == {NoFile, "given"}

\* HOSTNAME is set in the shell of p1, not for the daemon p2.
MCExported == [p \in Process |-> p = "p1"]
=============================================================================
