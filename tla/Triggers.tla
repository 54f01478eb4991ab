------------------------------ MODULE Triggers ------------------------------
(***************************************************************************)
(* What `rr record` starts after it stored its entry (src/cli.rs):         *)
(* maybe_spawn_async_upload, which spawns `rr p2p-sync --push` in the      *)
(* background, then maybe_run_auto_prune.  Each is limited to one run per   *)
(* interval by the time in a marker file, read and written without a lock  *)
(* by every shell's `rr record`.  The upload writes its marker before it   *)
(* spawns, the prune after it pruned.                                      *)
(*                                                                         *)
(* fs::write truncates the file and then fills it; a missing and an empty  *)
(* marker both mean that nothing was ever triggered.  Time is relative:    *)
(* a marker or a timestamp held by a process is its age by the wall clock, *)
(* negative when the clock was set back behind it.                         *)
(***************************************************************************)
EXTENDS Integers, FiniteSets

CONSTANTS
    Process,    \* shells that run rr record
    Enabled,    \* RUSTORY_ASYNC_UPLOAD, RUSTORY_AUTO_PRUNE
    Interval,   \* RUSTORY_ASYNC_UPLOAD_INTERVAL_SEC and its like
    MaxStall,   \* bound: ticks a process spends on one of the two triggers
    MaxBack,    \* bound: ticks by which the clock is set back in all
    MaxUploads, \* bound: uploads running at a time
    MaxFaults   \* bound: faults in one behaviour

Job == {"upload", "prune"}

ASSUME TriggersAssumption ==
    /\ Enabled \subseteq Job
    /\ Interval \in Nat \ {0}
    /\ MaxStall \in Nat
    /\ MaxBack \in Nat
    /\ MaxUploads \in Nat
    /\ MaxFaults \in Nat

VARIABLES
    marker,   \* marker[j]: age of the time in the marker file of job j
    job,      \* job[p]: the trigger process p is at
    step,     \* step[p]: and where in it
    age,      \* age[p]: age of the now_unix it read
    pending,  \* entries wait to be pushed
    uploads,  \* background uploads running
    (* History: true time since job j was last found due.                   *)
    due,
    (* Bounds used up. *)
    back, faults

processVars == <<job, step, age>>
vars == <<marker, processVars, pending, uploads, due, back, faults>>

\* Ages stop counting where every comparison is settled; a
\* marker that is missing or empty has this age.
Ancient == Interval + MaxStall + MaxBack
Older(n) == IF n < Ancient THEN n + 1 ELSE n

Fault == faults < MaxFaults /\ faults' = faults + 1

-----------------------------------------------------------------------------
\* Mutant of should_trigger_interval: a shorter interval.
should_trigger_interval_Short(j, p) == marker[j] - age[p] >= Interval - 1

\* now_unix - last >= min_interval_sec
should_trigger_interval(j, p) == marker[j] - age[p] >= Interval

\* Start on job j: read the clock.
Begin(p, j) ==
    /\ job' = [job EXCEPT ![p] = j]
    /\ step' = [step EXCEPT ![p] = "check"]
    /\ age' = [age EXCEPT ![p] = 0]

Idle(p) ==
    /\ job' = [job EXCEPT ![p] = "upload"]
    /\ step' = [step EXCEPT ![p] = "idle"]
    /\ age' = [age EXCEPT ![p] = 0]

\* Done with a job, one way or the other: failures are printed as warnings.
EndJob(p) == IF job[p] = "upload" THEN Begin(p, "prune") ELSE Idle(p)

At(p, s) == step[p] = s
GoTo(p, s) == step' = [step EXCEPT ![p] = s] /\ UNCHANGED <<job, age>>

\* rr record stored an entry.
Record(p) ==
    /\ At(p, "idle")
    /\ pending' = TRUE
    /\ Begin(p, "upload")
    /\ UNCHANGED <<marker, uploads, due, back, faults>>

\* Mutant of NotDue: the marker is written all the same.
NotDue_Touch(p) ==
    /\ At(p, "check")
    /\ ~ (job[p] \in Enabled /\ should_trigger_interval(job[p], p))
    /\ marker' = [marker EXCEPT ![job[p]] = age[p]]
    /\ EndJob(p)
    /\ UNCHANGED <<pending, uploads, due, back, faults>>

\* The job is switched off, or ran less than an interval ago.
NotDue(p) ==
    /\ At(p, "check")
    /\ ~ (job[p] \in Enabled /\ should_trigger_interval(job[p], p))
    /\ EndJob(p)
    /\ UNCHANGED <<marker, pending, uploads, due, back, faults>>

Due(p) ==
    /\ At(p, "check")
    /\ job[p] \in Enabled
    /\ should_trigger_interval(job[p], p)
    /\ due' = [due EXCEPT ![job[p]] = 0]
    /\ GoTo(p, IF job[p] = "upload" THEN "truncate" ELSE "run")
    /\ UNCHANGED <<marker, pending, uploads, back, faults>>

\* write_rate_limit_marker
Truncate(p) ==
    /\ At(p, "truncate")
    /\ marker' = [marker EXCEPT ![job[p]] = Ancient]
    /\ GoTo(p, "fill")
    /\ UNCHANGED <<pending, uploads, due, back, faults>>

\* Mutant of Fill: the time of the next run instead of the last.
Fill_NextDue(p) ==
    /\ At(p, "fill")
    /\ marker' = [marker EXCEPT ![job[p]] = age[p] - Interval]
    /\ IF job[p] = "upload" THEN GoTo(p, "run") ELSE EndJob(p)
    /\ UNCHANGED <<pending, uploads, due, back, faults>>

Fill(p) ==
    /\ At(p, "fill")
    /\ marker' = [marker EXCEPT ![job[p]] = age[p]]
    /\ IF job[p] = "upload" THEN GoTo(p, "run") ELSE EndJob(p)
    /\ UNCHANGED <<pending, uploads, due, back, faults>>

Spawn(p) ==
    /\ At(p, "run")
    /\ job[p] = "upload"
    /\ uploads < MaxUploads
    /\ uploads' = uploads + 1
    /\ EndJob(p)
    /\ UNCHANGED <<marker, pending, due, back, faults>>

Prune(p) ==
    /\ At(p, "run")
    /\ job[p] = "prune"
    /\ GoTo(p, "truncate")
    /\ UNCHANGED <<marker, pending, uploads, due, back, faults>>

\* The marker of a job that is on cannot be read or is no number, it cannot be
\* written, the spawn or the prune fails.
StepFails(p) ==
    /\ \/ step[p] = "check" /\ job[p] \in Enabled
       \/ step[p] \in {"truncate", "fill", "run"}
    /\ Fault
    /\ EndJob(p)
    /\ UNCHANGED <<marker, pending, uploads, due, back>>

\* The shell is closed under rr record.
Crash(p) ==
    /\ step[p] # "idle"
    /\ Fault
    /\ Idle(p)
    /\ UNCHANGED <<marker, pending, uploads, due, back>>

\* A background upload ends; when it succeeded, nothing was left to push.
UploadDone ==
    /\ uploads > 0
    /\ uploads' = uploads - 1
    /\ pending' = FALSE
    /\ UNCHANGED <<marker, processVars, due, back, faults>>

UploadFails ==
    /\ uploads > 0
    /\ Fault
    /\ uploads' = uploads - 1
    /\ UNCHANGED <<marker, processVars, pending, due, back>>

-----------------------------------------------------------------------------
(* The clock.                                                              *)

Advance ==
    /\ \A p \in Process : step[p] # "idle" => age[p] < MaxStall
    /\ marker' = [j \in Job |-> Older(marker[j])]
    /\ age' = [p \in Process |-> IF step[p] = "idle" THEN 0 ELSE age[p] + 1]
    /\ due' = [j \in Job |-> Older(due[j])]
    /\ UNCHANGED <<job, step, pending, uploads, back, faults>>

SetBack ==
    /\ back < MaxBack
    /\ back' = back + 1
    /\ marker' = [j \in Job |-> marker[j] - 1]
    /\ age' = [p \in Process |-> IF step[p] = "idle" THEN 0 ELSE age[p] - 1]
    /\ UNCHANGED <<job, step, pending, uploads, due, faults>>

-----------------------------------------------------------------------------
Init ==
    /\ marker = [j \in Job |-> Ancient]
    /\ job = [p \in Process |-> "upload"]
    /\ step = [p \in Process |-> "idle"]
    /\ age = [p \in Process |-> 0]
    /\ pending = FALSE
    /\ uploads = 0
    /\ due = [j \in Job |-> Ancient]
    /\ back = 0
    /\ faults = 0

Work(p) ==
    \/ NotDue(p) \/ Due(p) \/ Truncate(p) \/ Fill(p)
    \/ Spawn(p) \/ Prune(p)

Next ==
    \/ \E p \in Process : Record(p) \/ Work(p) \/ StepFails(p) \/ Crash(p)
    \/ UploadDone \/ UploadFails
    \/ Advance \/ SetBack

Spec == Init /\ [][Next]_vars

\* Every process goes on, uploads end, and commands keep being recorded: the
\* triggers have no schedule of their own.  Time passes, however many
\* processes are under way.
FairSpec ==
    /\ Spec
    /\ \A p \in Process : WF_vars(Work(p))
    /\ SF_vars(\E p \in Process : Record(p))
    /\ WF_vars(UploadDone)
    /\ SF_vars(Advance)

-----------------------------------------------------------------------------
(* Properties.                                                             *)

TypeOK ==
    /\ marker \in [Job -> (0 - MaxBack)..Ancient]
    /\ job \in [Process -> Job]
    /\ step \in [Process -> {"idle", "check", "truncate", "fill", "run"}]
    /\ age \in [Process -> (0 - MaxBack)..MaxStall]
    /\ pending \in BOOLEAN
    /\ uploads \in 0..MaxUploads
    /\ due \in [Job -> 0..Ancient]
    /\ back \in 0..MaxBack
    /\ faults \in 0..MaxFaults

\* Whatever order the processes read and write the marker in, and whenever
\* one of them dies: a job is skipped only within an interval, plus what the
\* clock was set back, of the last time it was found due.
NeverStuck ==
    [][\A p \in Process :
         NotDue(p) /\ job[p] \in Enabled
           => due[job[p]] - age[p] < Interval + back]_vars

\* Process p found job j due and has not filled its marker yet.
Marking(p, j) ==
    /\ job[p] = j
    /\ \/ step[p] \in {"truncate", "fill"}
       \/ step[p] = "run" /\ j = "prune"

\* RUSTORY_ASYNC_UPLOAD_INTERVAL_SEC and RUSTORY_AUTO_PRUNE_INTERVAL_SEC are
\* the shortest time between two runs of their job, up to the time a process
\* takes to look, unless another shell found it due too and is about to fill
\* the marker, a marker could not be filled, or the clock was set back by an
\* interval: then the time one shell read before that is an interval past the
\* marker another shell wrote after it.
EarlyOnlyWhileMarking ==
    [][\A p \in Process :
         /\ Due(p)
         /\ faults = 0
         /\ back < Interval
         /\ \A q \in Process \ {p} : ~ Marking(q, job[p])
         => due[job[p]] >= Interval - MaxStall]_vars

\* As long as commands are recorded and failures end, so does every time
\* in which entries wait for their upload.
EventuallyUploaded == []<>(~ pending)

\* And the prune succeeds again and again.
EventuallyPruned ==
    []<>(\E p \in Process : job[p] = "prune" /\ At(p, "truncate"))

\* Neither job is held back for ever by its marker.
BothJobsGoOn == EventuallyUploaded /\ EventuallyPruned
=============================================================================
