---------------------------- MODULE TriggersProofs ----------------------------
(***************************************************************************)
(* For any number of shells, any interval and any clock: the marker of a   *)
(* job never holds it back for longer than an interval (plus what the      *)
(* clock was set back), and lets it run early only while another shell is  *)
(* between its check and its marker.                                       *)
(*                                                                         *)
(* Both follow from how old the times are that the processes and markers   *)
(* hold.  A marker's time was read before its job was found due, so the    *)
(* job has not waited for longer than the marker says (NotOverdue); and    *)
(* two processes' times differ by no more than the time one of them takes, *)
(* or by what the clock was set back between them (CloseReads).            *)
(***************************************************************************)
EXTENDS Triggers, TLAPS

Active(p) == step[p] # "idle"
SomeMarking(j) == \E q \in Process : Marking(q, j)

\* No time that is held is further ahead of the clock than the clock was set
\* back.
AgeFloor ==
    /\ \A p \in Process : age[p] >= 0 - back
    /\ \A p \in Process : ~ Active(p) => age[p] = 0
    /\ \A j \in Job : marker[j] >= 0 - back

\* A job has waited no longer than its marker says, and no longer than the
\* time that a process will write into it says.
NotOverdue ==
    /\ \A j \in Job : due[j] <= marker[j] + back
    /\ \A p \in Process, j \in Job : Marking(p, j) => due[j] <= age[p] + back

\* Of two processes under way, one read the clock first: while it is under
\* way, or before the clock was set back.
CloseReads ==
    \A p, q \in Process :
        Active(p) /\ Active(q)
          => age[q] - age[p] <= MaxStall \/ age[q] - age[p] <= back

\* A time a away from the marker of j is settled: it is no further behind the
\* last run than a process takes, or the clock was set back between the two.
Settled(j, a) ==
    \/ marker[j] - a <= due[j] + MaxStall
    \/ marker[j] - a <= back

\* No marker lags behind its job's last run, unless it is about to be written.
MarkerFresh ==
    faults = 0 =>
        \A j \in Job :
            \/ SomeMarking(j)
            \/ /\ marker[j] <= due[j] + MaxStall
               /\ \A p \in Process : Active(p) => Settled(j, age[p])

TriggersInv ==
    /\ TypeOK
    /\ AgeFloor
    /\ NotOverdue
    /\ CloseReads
    /\ MarkerFresh

USE TriggersAssumption

-----------------------------------------------------------------------------
LEMMA AncientNat == Ancient \in Nat /\ Ancient >= Interval + MaxStall
BY DEF Ancient

LEMMA OlderFacts ==
    ASSUME NEW n \in (0 - MaxBack)..Ancient
    PROVE  /\ Older(n) \in (0 - MaxBack)..Ancient
           /\ Older(n) >= n
           /\ Older(n) <= n + 1
           /\ n < Ancient => Older(n) = n + 1
           /\ n = Ancient => Older(n) = Ancient
BY AncientNat DEF Older

LEMMA TriggersInvInit == Init => TriggersInv
<1> SUFFICES ASSUME Init PROVE TriggersInv
    OBVIOUS
<1> USE DEF Init
<1>1. TypeOK
    <2>1. /\ Ancient \in (0 - MaxBack)..Ancient
          /\ Ancient \in 0..Ancient
          /\ 0 \in (0 - MaxBack)..MaxStall
        BY AncientNat
    <2>2. "upload" \in Job
        BY DEF Job
    <2>3. /\ marker \in [Job -> (0 - MaxBack)..Ancient]
          /\ due \in [Job -> 0..Ancient]
        BY <2>1
    <2>4. /\ job \in [Process -> Job]
          /\ step \in [Process -> {"idle", "check", "truncate", "fill", "run"}]
          /\ age \in [Process -> (0 - MaxBack)..MaxStall]
        BY <2>1, <2>2
    <2>5. pending \in BOOLEAN
        OBVIOUS
    <2>6. /\ uploads \in 0..MaxUploads
          /\ back \in 0..MaxBack
          /\ faults \in 0..MaxFaults
        OBVIOUS
    <2>7. QED
        BY <2>3, <2>4, <2>5, <2>6 DEF TypeOK
<1>2. AgeFloor
    BY AncientNat DEF AgeFloor
<1>3. NotOverdue
    <2>1. \A j \in Job : due[j] <= marker[j] + back
        BY AncientNat
    <2>2. \A p \in Process, j \in Job : ~ Marking(p, j)
        BY DEF Marking
    <2>3. QED
        BY <2>1, <2>2 DEF NotOverdue
<1>4. CloseReads
    BY DEF CloseReads, Active
<1>5. MarkerFresh
    BY AncientNat DEF MarkerFresh, Active
<1>6. QED
    BY <1>1, <1>2, <1>3, <1>4, <1>5 DEF TriggersInv

-----------------------------------------------------------------------------
(* Every step of a process moves it alone, and touches at most the marker   *)
(* and the waiting time of the job it is at.                               *)

\* Process p reads the clock for a job, or becomes idle.
Reads(p) ==
    \/ \E j \in Job : Begin(p, j)
    \/ Idle(p)

LEMMA EndJobReads ==
    ASSUME NEW p \in Process, EndJob(p)
    PROVE  Reads(p)
BY DEF EndJob, Reads, Job

\* What EndJob and its like leave of the invariant, whatever p was at: p holds
\* no time any more, or one it has just read.
LEMMA ReadsKeep ==
    ASSUME TypeOK, NEW p \in Process, Reads(p)
    PROVE  /\ job' \in [Process -> Job]
           /\ step' \in [Process -> {"idle", "check", "truncate", "fill", "run"}]
           /\ age' \in [Process -> (0 - MaxBack)..MaxStall]
           /\ age'[p] = 0
           /\ step'[p] \in {"idle", "check"}
           /\ \A q \in Process \ {p} :
                 job'[q] = job[q] /\ step'[q] = step[q] /\ age'[q] = age[q]
BY DEF Reads, Begin, Idle, TypeOK, Job

-----------------------------------------------------------------------------
(* The steps of the invariant.                                             *)

LEMMA TypesNext ==
    ASSUME TriggersInv, [Next]_vars
    PROVE  TypeOK'
<1> USE DEF TriggersInv
<1>1. ASSUME NEW p \in Process, Record(p)
      PROVE  TypeOK'
    <2>1. Reads(p)
        BY <1>1 DEF Record, Reads, Job
    <2>2. QED
        BY <1>1, <2>1, ReadsKeep DEF Record, TypeOK
<1>2. ASSUME NEW p \in Process, NotDue(p)
      PROVE  TypeOK'
    <2>1. Reads(p)
        BY <1>2, EndJobReads DEF NotDue
    <2>2. QED
        BY <1>2, <2>1, ReadsKeep DEF NotDue, TypeOK
<1>3. ASSUME NEW p \in Process, Due(p)
      PROVE  TypeOK'
    <2>1. step' \in [Process -> {"idle", "check", "truncate", "fill", "run"}]
        BY <1>3 DEF Due, GoTo, TypeOK
    <2>2. due' \in [Job -> 0..Ancient]
        BY <1>3, AncientNat DEF Due, TypeOK
    <2>3. QED
        BY <1>3, <2>1, <2>2 DEF Due, GoTo, TypeOK
<1>4. ASSUME NEW p \in Process, Truncate(p)
      PROVE  TypeOK'
    <2>1. Ancient \in (0 - MaxBack)..Ancient
        BY AncientNat
    <2>2. QED
        BY <1>4, <2>1 DEF Truncate, GoTo, TypeOK
<1>5. ASSUME NEW p \in Process, Fill(p)
      PROVE  TypeOK'
    <2>1. age[p] \in (0 - MaxBack)..Ancient
        BY AncientNat DEF TypeOK
    <2>2. marker' \in [Job -> (0 - MaxBack)..Ancient]
        BY <1>5, <2>1 DEF Fill, TypeOK
    <2>3. CASE job[p] = "upload"
        BY <1>5, <2>2, <2>3 DEF Fill, GoTo, TypeOK
    <2>4. CASE job[p] # "upload"
        <3>1. Reads(p)
            BY <1>5, <2>4, EndJobReads DEF Fill
        <3>2. QED
            BY <1>5, <2>2, <3>1, ReadsKeep DEF Fill, TypeOK
    <2>5. QED
        BY <2>3, <2>4
<1>6. ASSUME NEW p \in Process, Spawn(p)
      PROVE  TypeOK'
    <2>1. Reads(p)
        BY <1>6, EndJobReads DEF Spawn
    <2>2. QED
        BY <1>6, <2>1, ReadsKeep DEF Spawn, TypeOK
<1>7. ASSUME NEW p \in Process, Prune(p)
      PROVE  TypeOK'
    BY <1>7 DEF Prune, GoTo, TypeOK
<1>8. ASSUME NEW p \in Process, StepFails(p)
      PROVE  TypeOK'
    <2>1. Reads(p)
        BY <1>8, EndJobReads DEF StepFails
    <2>2. QED
        BY <1>8, <2>1, ReadsKeep DEF StepFails, Fault, TypeOK
<1>9. ASSUME NEW p \in Process, Crash(p)
      PROVE  TypeOK'
    <2>1. Reads(p)
        BY <1>9 DEF Crash, Reads
    <2>2. QED
        BY <1>9, <2>1, ReadsKeep DEF Crash, Fault, TypeOK
<1>10. CASE UploadDone \/ UploadFails
    <2>1. uploads' \in 0..MaxUploads /\ faults' \in 0..MaxFaults
        BY <1>10 DEF UploadDone, UploadFails, Fault, TypeOK
    <2>2. UNCHANGED <<marker, job, step, age, due, back>>
        BY <1>10 DEF UploadDone, UploadFails, processVars
    <2>3. pending' \in BOOLEAN
        BY <1>10 DEF UploadDone, UploadFails, TypeOK
    <2>4. QED
        BY <2>1, <2>2, <2>3 DEF TypeOK
<1>11. CASE Advance
    <2>1. /\ marker' \in [Job -> (0 - MaxBack)..Ancient]
          /\ due' \in [Job -> 0..Ancient]
        BY <1>11, AncientNat DEF Advance, TypeOK, Older
    <2>2. age' \in [Process -> (0 - MaxBack)..MaxStall]
        BY <1>11 DEF Advance, TypeOK
    <2>3. QED
        BY <1>11, <2>1, <2>2 DEF Advance, TypeOK
<1>12. CASE SetBack
    <2>1. \A j \in Job : marker[j] - 1 \in (0 - MaxBack)..Ancient
        BY <1>12, AncientNat DEF SetBack, TypeOK, AgeFloor
    <2>2. \A p \in Process : age[p] - 1 \in (0 - MaxBack)..MaxStall
        BY <1>12 DEF SetBack, TypeOK, AgeFloor
    <2>3. 0 \in (0 - MaxBack)..MaxStall
        OBVIOUS
    <2>4. /\ marker' \in [Job -> (0 - MaxBack)..Ancient]
          /\ age' \in [Process -> (0 - MaxBack)..MaxStall]
        BY <1>12, <2>1, <2>2, <2>3 DEF SetBack
    <2>5. QED
        BY <1>12, <2>4 DEF SetBack, TypeOK
<1>13. CASE UNCHANGED vars
    BY <1>13 DEF vars, processVars, TypeOK
<1>14. QED
    BY <1>1, <1>2, <1>3, <1>4, <1>5, <1>6, <1>7, <1>8, <1>9, <1>10, <1>11,
       <1>12, <1>13 DEF Next, Work

LEMMA AgeFloorNext ==
    ASSUME TriggersInv, [Next]_vars
    PROVE  AgeFloor'
<1> USE DEF TriggersInv
<1>1. ASSUME NEW p \in Process, Reads(p),
             UNCHANGED <<marker, back>>
      PROVE  AgeFloor'
    BY <1>1, ReadsKeep DEF AgeFloor, Active, TypeOK
<1>2. ASSUME NEW p \in Process, NEW s \in {"truncate", "fill", "run"},
             GoTo(p, s), Active(p), UNCHANGED back,
             \A j \in Job : \/ marker'[j] = marker[j]
                            \/ marker'[j] >= 0 - back
      PROVE  AgeFloor'
    BY <1>2 DEF AgeFloor, Active, GoTo, TypeOK
<1>3. ASSUME NEW p \in Process, Record(p)
      PROVE  AgeFloor'
    BY <1>1, <1>3 DEF Record, Reads, Job
<1>4. ASSUME NEW p \in Process, NotDue(p) \/ Spawn(p) \/ StepFails(p)
      PROVE  AgeFloor'
    BY <1>1, <1>4, EndJobReads DEF NotDue, Spawn, StepFails
<1>5. ASSUME NEW p \in Process, Crash(p)
      PROVE  AgeFloor'
    BY <1>1, <1>5 DEF Crash, Reads
<1>6. ASSUME NEW p \in Process, Due(p)
      PROVE  AgeFloor'
    <2>1. Active(p)
        BY <1>6 DEF Due, At, Active
    <2>2. QED
        BY <1>2, <1>6, <2>1 DEF Due
<1>7. ASSUME NEW p \in Process, Truncate(p)
      PROVE  AgeFloor'
    <2>1. Active(p)
        BY <1>7 DEF Truncate, At, Active
    <2>2. Ancient >= 0 - back
        BY AncientNat DEF TypeOK
    <2>3. QED
        BY <1>2, <1>7, <2>1, <2>2 DEF Truncate, TypeOK
<1>8. ASSUME NEW p \in Process, Prune(p)
      PROVE  AgeFloor'
    <2>1. Active(p)
        BY <1>8 DEF Prune, At, Active
    <2>2. QED
        BY <1>2, <1>8, <2>1 DEF Prune
<1>9. ASSUME NEW p \in Process, Fill(p)
      PROVE  AgeFloor'
    <2>1. /\ Active(p)
          /\ job[p] \in Job
          /\ marker' = [marker EXCEPT ![job[p]] = age[p]]
          /\ UNCHANGED back
        BY <1>9 DEF Fill, At, Active, TypeOK
    <2>2. \A j \in Job : marker'[j] >= 0 - back
        BY <2>1 DEF AgeFloor, TypeOK
    <2>3. CASE GoTo(p, "run")
        BY <1>2, <2>1, <2>2, <2>3
    <2>4. CASE EndJob(p)
        BY <2>1, <2>2, <2>4, EndJobReads, ReadsKeep DEF AgeFloor, Active, TypeOK
    <2>5. QED
        BY <1>9, <2>3, <2>4 DEF Fill
<1>10. CASE UploadDone \/ UploadFails
    BY <1>10 DEF UploadDone, UploadFails, processVars, AgeFloor, Active
<1>11. CASE Advance
    <2>1. \A j \in Job : marker'[j] >= marker[j]
        BY <1>11, OlderFacts DEF Advance, TypeOK
    <2>2. QED
        BY <1>11, <2>1, TypesNext DEF Advance, AgeFloor, Active, TypeOK
<1>12. CASE SetBack
    BY <1>12 DEF SetBack, AgeFloor, Active, TypeOK
<1>13. CASE UNCHANGED vars
    BY <1>13 DEF vars, processVars, AgeFloor, Active
<1>14. QED
    BY <1>3, <1>4, <1>5, <1>6, <1>7, <1>8, <1>9, <1>10, <1>11, <1>12, <1>13
    DEF Next, Work

LEMMA CloseReadsNext ==
    ASSUME TriggersInv, [Next]_vars
    PROVE  CloseReads'
<1> USE DEF TriggersInv
<1>1. ASSUME NEW p \in Process, Reads(p), UNCHANGED back
      PROVE  CloseReads'
    <2> SUFFICES ASSUME NEW x \in Process, NEW y \in Process,
                        Active(x)', Active(y)'
                 PROVE  \/ age'[y] - age'[x] <= MaxStall
                        \/ age'[y] - age'[x] <= back
        BY <1>1 DEF CloseReads
    <2>1. CASE x = p
        <3>1. age'[x] = 0 /\ age'[y] <= MaxStall
            BY <1>1, <2>1, ReadsKeep
        <3>2. QED
            BY <1>1, <3>1, ReadsKeep
    <2>2. CASE x # p /\ y = p
        <3>1. age'[y] = 0 /\ age'[x] = age[x]
            BY <1>1, <2>2, ReadsKeep
        <3>2. QED
            BY <3>1 DEF AgeFloor, TypeOK
    <2>3. CASE x # p /\ y # p
        BY <1>1, <2>3, ReadsKeep DEF CloseReads, Active
    <2>4. QED
        BY <2>1, <2>2, <2>3
<1>2. ASSUME NEW p \in Process, NEW s \in {"truncate", "fill", "run"},
             GoTo(p, s), Active(p), UNCHANGED back
      PROVE  CloseReads'
    BY <1>2 DEF CloseReads, Active, GoTo, TypeOK
<1>3. ASSUME NEW p \in Process, Record(p)
      PROVE  CloseReads'
    BY <1>1, <1>3 DEF Record, Reads, Job
<1>4. ASSUME NEW p \in Process, NotDue(p) \/ Spawn(p) \/ StepFails(p)
      PROVE  CloseReads'
    BY <1>1, <1>4, EndJobReads DEF NotDue, Spawn, StepFails
<1>5. ASSUME NEW p \in Process, Crash(p)
      PROVE  CloseReads'
    BY <1>1, <1>5 DEF Crash, Reads
<1>6. ASSUME NEW p \in Process, Due(p) \/ Truncate(p) \/ Prune(p)
      PROVE  CloseReads'
    <2>1. Active(p)
        BY <1>6 DEF Due, Truncate, Prune, At, Active
    <2>2. QED
        BY <1>2, <1>6, <2>1 DEF Due, Truncate, Prune
<1>7. ASSUME NEW p \in Process, Fill(p)
      PROVE  CloseReads'
    <2>1. Active(p) /\ UNCHANGED back
        BY <1>7 DEF Fill, At, Active
    <2>2. QED
        BY <1>1, <1>2, <1>7, <2>1, EndJobReads DEF Fill
<1>8. CASE UploadDone \/ UploadFails
    BY <1>8 DEF UploadDone, UploadFails, processVars, CloseReads, Active
<1>9. CASE Advance
    <2>1. /\ step' = step /\ back' = back
          /\ \A p \in Process : Active(p) => age'[p] = age[p] + 1
        BY <1>9 DEF Advance, Active
    <2>2. \A p \in Process : age[p] \in Int
        BY DEF TypeOK
    <2>3. QED
        BY <2>1, <2>2 DEF CloseReads, Active
<1>10. CASE SetBack
    <2>1. /\ step' = step /\ back' = back + 1
          /\ \A p \in Process : Active(p) => age'[p] = age[p] - 1
        BY <1>10 DEF SetBack, Active
    <2>2. /\ \A p \in Process : age[p] \in Int
          /\ back \in Int
        BY DEF TypeOK
    <2>3. QED
        BY <2>1, <2>2 DEF CloseReads, Active
<1>11. CASE UNCHANGED vars
    BY <1>11 DEF vars, processVars, CloseReads, Active
<1>12. QED
    BY <1>3, <1>4, <1>5, <1>6, <1>7, <1>8, <1>9, <1>10, <1>11
    DEF Next, Work

-----------------------------------------------------------------------------
(* Who is marking which job.                                               *)

LEMMA MarkingFacts ==
    ASSUME TypeOK, NEW p \in Process
    PROVE  /\ \A j \in Job : Marking(p, j) => Active(p) /\ j = job[p]
           /\ At(p, "idle") \/ At(p, "check") => \A j \in Job : ~ Marking(p, j)
           /\ At(p, "run") /\ job[p] = "upload" => \A j \in Job : ~ Marking(p, j)
           /\ At(p, "truncate") \/ At(p, "fill") => Marking(p, job[p])
           /\ At(p, "run") /\ job[p] = "prune" => Marking(p, job[p])
BY DEF Marking, Active, At

\* Whoever reads the clock is not marking, and the others still are what they
\* were.
LEMMA ReadsMarking ==
    ASSUME TypeOK, NEW p \in Process, Reads(p)
    PROVE  /\ \A j \in Job : ~ Marking(p, j)'
           /\ \A q \in Process \ {p}, j \in Job : Marking(q, j)' <=> Marking(q, j)
<1>1. \A j \in Job : ~ Marking(p, j)'
    BY ReadsKeep DEF Marking
<1>2. \A q \in Process \ {p}, j \in Job : Marking(q, j)' <=> Marking(q, j)
    BY ReadsKeep DEF Marking
<1>3. QED
    BY <1>1, <1>2

LEMMA GoToMarking ==
    ASSUME TypeOK, NEW p \in Process, NEW s \in {"truncate", "fill", "run"},
           GoTo(p, s)
    PROVE  /\ \A q \in Process \ {p}, j \in Job : Marking(q, j)' <=> Marking(q, j)
           /\ \A j \in Job : Marking(p, j)' => j = job[p]
           /\ s # "run" \/ job[p] = "prune" => Marking(p, job[p])'
           /\ s = "run" /\ job[p] = "upload" => \A j \in Job : ~ Marking(p, j)'
           /\ step' = [step EXCEPT ![p] = s] /\ age' = age /\ job' = job
BY DEF GoTo, Marking, TypeOK

\* What Fill writes, and that p marks job[p] before it and nothing after it.
LEMMA FillFacts ==
    ASSUME TypeOK, NEW p \in Process, Fill(p)
    PROVE  /\ Marking(p, job[p])
           /\ job[p] \in Job
           /\ marker' = [marker EXCEPT ![job[p]] = age[p]]
           /\ \A j \in Job : ~ Marking(p, j)'
           /\ \A q \in Process \ {p}, j \in Job : Marking(q, j)' <=> Marking(q, j)
           /\ age'[p] \in {age[p], 0}
           /\ \A q \in Process \ {p} : step'[q] = step[q] /\ age'[q] = age[q]
           /\ UNCHANGED <<due, back, faults>>
<1>1. /\ Marking(p, job[p])
      /\ job[p] \in Job
      /\ marker' = [marker EXCEPT ![job[p]] = age[p]]
      /\ UNCHANGED <<due, back, faults>>
    BY MarkingFacts DEF Fill, TypeOK
<1>2. CASE job[p] = "upload"
    <2>1. GoTo(p, "run")
        BY <1>2 DEF Fill
    <2>2. QED
        BY <1>1, <1>2, <2>1, GoToMarking DEF TypeOK
<1>3. CASE job[p] # "upload"
    <2>1. Reads(p)
        BY <1>3, EndJobReads DEF Fill
    <2>2. QED
        BY <1>1, <2>1, ReadsMarking, ReadsKeep
<1>4. QED
    BY <1>2, <1>3

LEMMA NotOverdueNext ==
    ASSUME TriggersInv, [Next]_vars
    PROVE  NotOverdue'
<1> USE DEF TriggersInv
<1>1. ASSUME NEW p \in Process, Reads(p), UNCHANGED <<marker, due, back>>
      PROVE  NotOverdue'
    BY <1>1, ReadsMarking, ReadsKeep DEF NotOverdue
<1>2. ASSUME NEW p \in Process, Record(p)
      PROVE  NotOverdue'
    BY <1>1, <1>2 DEF Record, Reads, Job
<1>3. ASSUME NEW p \in Process, NotDue(p) \/ Spawn(p) \/ StepFails(p)
      PROVE  NotOverdue'
    BY <1>1, <1>3, EndJobReads DEF NotDue, Spawn, StepFails
<1>4. ASSUME NEW p \in Process, Crash(p)
      PROVE  NotOverdue'
    BY <1>1, <1>4 DEF Crash, Reads
<1>5. ASSUME NEW p \in Process, Due(p)
      PROVE  NotOverdue'
    <2>1. PICK s \in {"truncate", "fill", "run"} : GoTo(p, s)
        BY <1>5 DEF Due
    <2>2. /\ UNCHANGED <<marker, back>>
          /\ due' = [due EXCEPT ![job[p]] = 0]
          /\ job[p] \in Job
        BY <1>5 DEF Due, TypeOK
    <2>3. \A j \in Job : due'[j] <= marker'[j] + back'
        BY <2>2 DEF NotOverdue, AgeFloor, TypeOK
    <2>4. \A q \in Process, j \in Job : Marking(q, j)' => due'[j] <= age'[q] + back'
        <3> SUFFICES ASSUME NEW q \in Process, NEW j \in Job, Marking(q, j)'
                     PROVE  due'[j] <= age'[q] + back'
            OBVIOUS
        <3>1. CASE j = job[p]
            BY <2>1, <2>2, <3>1, GoToMarking DEF AgeFloor, TypeOK
        <3>2. CASE j # job[p]
            BY <2>1, <2>2, <3>2, GoToMarking DEF NotOverdue, TypeOK
        <3>3. QED
            BY <3>1, <3>2
    <2>5. QED
        BY <2>3, <2>4 DEF NotOverdue
<1>6. ASSUME NEW p \in Process, Truncate(p) \/ Prune(p)
      PROVE  NotOverdue'
    <2>1. PICK s \in {"truncate", "fill", "run"} : GoTo(p, s)
        BY <1>6 DEF Truncate, Prune
    <2>2. Marking(p, job[p])
        BY <1>6, MarkingFacts DEF Truncate, Prune
    <2>3. \A q \in Process, j \in Job : Marking(q, j)' => Marking(q, j)
        BY <2>1, <2>2, GoToMarking
    <2>4. UNCHANGED <<age, due, back>>
        BY <1>6 DEF Truncate, Prune, GoTo
    <2>5. \A j \in Job : marker'[j] = marker[j] \/ marker'[j] = Ancient
        BY <1>6 DEF Truncate, Prune, TypeOK
    <2>6. \A j \in Job : due[j] <= Ancient + back
        BY AncientNat DEF TypeOK
    <2>7. QED
        BY <2>3, <2>4, <2>5, <2>6 DEF NotOverdue
<1>7. ASSUME NEW p \in Process, Fill(p)
      PROVE  NotOverdue'
    <2>1. \A j \in Job : due'[j] <= marker'[j] + back'
        BY <1>7, FillFacts DEF NotOverdue, TypeOK
    <2>2. \A q \in Process, j \in Job : Marking(q, j)' => due'[j] <= age'[q] + back'
        BY <1>7, FillFacts DEF NotOverdue
    <2>3. QED
        BY <2>1, <2>2 DEF NotOverdue
<1>8. CASE UploadDone \/ UploadFails
    BY <1>8 DEF UploadDone, UploadFails, processVars, NotOverdue, Marking
<1>9. CASE Advance
    <2>1. \A j \in Job : due'[j] <= due[j] + 1 /\ due'[j] <= Ancient
        BY <1>9, AncientNat DEF Advance, Older, TypeOK
    <2>2. \A j \in Job : marker'[j] = marker[j] + 1 \/ marker'[j] = Ancient
        BY <1>9, AncientNat DEF Advance, Older, TypeOK
    <2>3. \A q \in Process, j \in Job :
             Marking(q, j)' => Marking(q, j) /\ age'[q] = age[q] + 1
        BY <1>9, MarkingFacts DEF Advance, Marking, Active
    <2>4. back' = back
        BY <1>9 DEF Advance
    <2>5. /\ \A j \in Job : due[j] \in Int /\ due'[j] \in Int /\ marker[j] \in Int
          /\ \A q \in Process : age[q] \in Int
          /\ back \in Nat /\ Ancient \in Int
        BY TypesNext, AncientNat DEF TypeOK
    <2>6. \A j \in Job : due'[j] <= marker'[j] + back'
        BY <2>1, <2>2, <2>4, <2>5 DEF NotOverdue
    <2>7. \A q \in Process, j \in Job : Marking(q, j)' => due'[j] <= age'[q] + back'
        BY <2>1, <2>3, <2>4, <2>5 DEF NotOverdue
    <2>8. QED
        BY <2>6, <2>7 DEF NotOverdue
<1>10. CASE SetBack
    <2>1. \A q \in Process, j \in Job :
             Marking(q, j)' => Marking(q, j) /\ age'[q] = age[q] - 1
        BY <1>10, MarkingFacts DEF SetBack, Marking, Active
    <2>2. QED
        BY <1>10, <2>1 DEF SetBack, NotOverdue, TypeOK
<1>11. CASE UNCHANGED vars
    BY <1>11 DEF vars, processVars, NotOverdue, Marking
<1>12. QED
    BY <1>2, <1>3, <1>4, <1>5, <1>6, <1>7, <1>8, <1>9, <1>10, <1>11
    DEF Next, Work

\* Settled for every j and for all processes under way, however they moved:
\* those that read the clock now hold age 0.
LEMMA MarkerFreshNext ==
    ASSUME TriggersInv, [Next]_vars
    PROVE  MarkerFresh'
<1> USE DEF TriggersInv
<1>. SUFFICES ASSUME faults' = 0, NEW j \in Job
              PROVE  \/ SomeMarking(j)'
                     \/ /\ marker'[j] <= due'[j] + MaxStall
                        /\ \A x \in Process : Active(x)' => Settled(j, age[x])'
    BY DEF MarkerFresh
<1>0. /\ marker[j] \in Int /\ due[j] \in Nat /\ back \in Nat
      /\ marker'[j] \in Int /\ due'[j] \in Nat /\ back' \in Nat
      /\ \A x \in Process : age[x] \in Int /\ age'[x] \in Int
    BY TypesNext DEF TypeOK
<1>1. ASSUME NEW p \in Process, Reads(p), \A i \in Job : ~ Marking(p, i),
             UNCHANGED <<marker, due, back, faults>>
      PROVE  \/ SomeMarking(j)'
             \/ /\ marker'[j] <= due'[j] + MaxStall
                /\ \A x \in Process : Active(x)' => Settled(j, age[x])'
    <2>1. CASE SomeMarking(j)
        BY <1>1, <2>1, ReadsMarking DEF SomeMarking
    <2>2. CASE ~ SomeMarking(j)
        <3>1. /\ marker[j] <= due[j] + MaxStall
              /\ \A x \in Process : Active(x) => Settled(j, age[x])
            BY <1>1, <2>2 DEF MarkerFresh
        <3>2. ASSUME NEW x \in Process, Active(x)'
              PROVE  Settled(j, age[x])'
            <4>1. CASE x = p
                BY <1>0, <1>1, <3>1, <4>1, ReadsKeep DEF Settled
            <4>2. CASE x # p
                BY <1>1, <3>1, <3>2, <4>2, ReadsKeep DEF Settled, Active
            <4>3. QED
                BY <4>1, <4>2
        <3>3. QED
            BY <1>1, <3>1, <3>2
    <2>3. QED
        BY <2>1, <2>2
<1>2. ASSUME NEW p \in Process, NEW s \in {"truncate", "fill", "run"},
             GoTo(p, s), Active(p), Marking(p, job[p])',
             ~ Marking(p, j) \/ j = job[p],
             j # job[p] => marker'[j] = marker[j] /\ due'[j] = due[j],
             UNCHANGED <<back, faults>>
      PROVE  \/ SomeMarking(j)'
             \/ /\ marker'[j] <= due'[j] + MaxStall
                /\ \A x \in Process : Active(x)' => Settled(j, age[x])'
    <2>1. CASE j = job[p]
        <3>1. j = job'[p]
            BY <1>2, <2>1 DEF GoTo
        <3>2. QED
            BY <1>2, <3>1 DEF SomeMarking
    <2>2. CASE j # job[p] /\ SomeMarking(j)
        BY <1>2, <2>2, GoToMarking DEF SomeMarking
    <2>3. CASE j # job[p] /\ ~ SomeMarking(j)
        <3>1. /\ marker[j] <= due[j] + MaxStall
              /\ \A x \in Process : Active(x) => Settled(j, age[x])
            BY <1>2, <2>3 DEF MarkerFresh
        <3>2. \A x \in Process : Active(x)' => Active(x) /\ age'[x] = age[x]
            BY <1>2, GoToMarking DEF Active, TypeOK
        <3>3. QED
            BY <1>2, <2>3, <3>1, <3>2 DEF Settled
    <2>4. QED
        BY <2>1, <2>2, <2>3
<1>3. ASSUME NEW p \in Process, Record(p)
      PROVE  \/ SomeMarking(j)'
             \/ /\ marker'[j] <= due'[j] + MaxStall
                /\ \A x \in Process : Active(x)' => Settled(j, age[x])'
    <2>1. Reads(p) /\ \A i \in Job : ~ Marking(p, i)
        BY <1>3, MarkingFacts DEF Record, Reads, Job
    <2>2. QED
        BY <1>1, <1>3, <2>1 DEF Record
<1>4. ASSUME NEW p \in Process, NotDue(p) \/ Spawn(p)
      PROVE  \/ SomeMarking(j)'
             \/ /\ marker'[j] <= due'[j] + MaxStall
                /\ \A x \in Process : Active(x)' => Settled(j, age[x])'
    <2>1. Reads(p) /\ \A i \in Job : ~ Marking(p, i)
        BY <1>4, EndJobReads, MarkingFacts DEF NotDue, Spawn
    <2>2. QED
        BY <1>1, <1>4, <2>1 DEF NotDue, Spawn
<1>5. ASSUME NEW p \in Process, StepFails(p) \/ Crash(p)
      PROVE  FALSE
    BY <1>5 DEF StepFails, Crash, Fault, TypeOK
<1>6. ASSUME NEW p \in Process, Due(p)
      PROVE  \/ SomeMarking(j)'
             \/ /\ marker'[j] <= due'[j] + MaxStall
                /\ \A x \in Process : Active(x)' => Settled(j, age[x])'
    <2>1. PICK s \in {"truncate", "fill", "run"} :
             /\ GoTo(p, s)
             /\ s # "run" \/ job[p] = "prune"
        <3>1. job[p] \in {"upload", "prune"}
            BY DEF TypeOK, Job
        <3>2. CASE job[p] = "upload"
            <4>1. GoTo(p, "truncate")
                BY <1>6, <3>2 DEF Due
            <4>2. QED
                BY <4>1
        <3>3. CASE job[p] = "prune"
            <4>1. GoTo(p, "run")
                BY <1>6, <3>3 DEF Due
            <4>2. QED
                BY <3>3, <4>1
        <3>4. QED
            BY <3>1, <3>2, <3>3
    <2>2. Marking(p, job[p])'
        BY <2>1, GoToMarking
    <2>3. Active(p) /\ ~ Marking(p, j)
        BY <1>6, MarkingFacts DEF Due, At, Active
    <2>4. j # job[p] => marker'[j] = marker[j] /\ due'[j] = due[j]
        BY <1>6 DEF Due, TypeOK
    <2>5. QED
        BY <1>2, <1>6, <2>1, <2>2, <2>3, <2>4 DEF Due
<1>7. ASSUME NEW p \in Process, Truncate(p) \/ Prune(p)
      PROVE  \/ SomeMarking(j)'
             \/ /\ marker'[j] <= due'[j] + MaxStall
                /\ \A x \in Process : Active(x)' => Settled(j, age[x])'
    <2>1. PICK s \in {"truncate", "fill"} : GoTo(p, s)
        BY <1>7 DEF Truncate, Prune
    <2>2. Marking(p, job[p])'
        BY <2>1, GoToMarking
    <2>3. Active(p) /\ (Marking(p, j) => j = job[p])
        BY <1>7, MarkingFacts DEF Truncate, Prune, At, Active
    <2>4. j # job[p] => marker'[j] = marker[j] /\ due'[j] = due[j]
        BY <1>7 DEF Truncate, Prune, TypeOK
    <2>5. UNCHANGED <<back, faults>>
        BY <1>7 DEF Truncate, Prune
    <2>6. QED
        BY <1>2, <2>1, <2>2, <2>3, <2>4, <2>5
<1>8. ASSUME NEW p \in Process, Fill(p)
      PROVE  \/ SomeMarking(j)'
             \/ /\ marker'[j] <= due'[j] + MaxStall
                /\ \A x \in Process : Active(x)' => Settled(j, age[x])'
    <2>0. UNCHANGED <<due, back, faults>> /\ age[p] <= MaxStall
        BY <1>8, FillFacts DEF TypeOK
    <2>1. CASE j = job[p]
        <3>1. marker'[j] = age[p]
            BY <1>8, <2>1, FillFacts DEF TypeOK
        <3>2. ASSUME NEW x \in Process, Active(x)'
              PROVE  Settled(j, age[x])'
            <4>1. CASE x = p
                <5>1. age'[x] = age[p] \/ age'[x] = 0
                    BY <1>8, <4>1, FillFacts
                <5>2. marker'[j] - age'[x] <= due'[j] + MaxStall
                    BY <1>0, <2>0, <3>1, <5>1
                <5>3. QED
                    BY <5>2 DEF Settled
            <4>2. CASE x # p
                <5>1. Active(x) /\ age'[x] = age[x]
                    BY <1>8, <3>2, <4>2, FillFacts DEF Active
                <5>2. Active(p)
                    BY <1>8, FillFacts, MarkingFacts
                <5>3. \/ age[p] - age[x] <= MaxStall
                      \/ age[p] - age[x] <= back
                    BY <5>1, <5>2 DEF CloseReads
                <5>4. \/ marker'[j] - age'[x] <= due'[j] + MaxStall
                      \/ marker'[j] - age'[x] <= back'
                    BY <1>0, <2>0, <3>1, <5>1, <5>3
                <5>5. QED
                    BY <5>4 DEF Settled
            <4>3. QED
                BY <4>1, <4>2
        <3>3. marker'[j] <= due'[j] + MaxStall
            BY <1>0, <2>0, <3>1
        <3>4. QED
            BY <3>2, <3>3
    <2>2. CASE j # job[p] /\ SomeMarking(j)
        <3>1. PICK q \in Process : Marking(q, j)
            BY <2>2 DEF SomeMarking
        <3>2. q # p
            BY <2>2, <3>1, MarkingFacts
        <3>3. QED
            BY <1>8, <3>1, <3>2, FillFacts DEF SomeMarking
    <2>3. CASE j # job[p] /\ ~ SomeMarking(j)
        <3>1. /\ marker[j] <= due[j] + MaxStall
              /\ \A x \in Process : Active(x) => Settled(j, age[x])
            BY <2>0, <2>3 DEF MarkerFresh
        <3>2. marker'[j] = marker[j]
            BY <1>8, <2>3, FillFacts DEF TypeOK
        <3>3. ASSUME NEW x \in Process, Active(x)'
              PROVE  Settled(j, age[x])'
            <4>1. CASE age'[x] = 0
                BY <1>0, <2>0, <3>1, <3>2, <4>1 DEF Settled
            <4>2. CASE Active(x) /\ age'[x] = age[x]
                BY <2>0, <3>1, <3>2, <4>2 DEF Settled
            <4>3. Active(p)
                BY <1>8, FillFacts, MarkingFacts
            <4>4. QED
                BY <1>8, <3>3, <4>1, <4>2, <4>3, FillFacts DEF Active
        <3>4. QED
            BY <2>0, <3>1, <3>2, <3>3
    <2>4. QED
        BY <2>1, <2>2, <2>3
<1>9. CASE UploadDone \/ UploadFails
    <2>1. UNCHANGED <<marker, job, step, age, due, back>>
        BY <1>9 DEF UploadDone, UploadFails, processVars
    <2>2. faults = 0
        BY <1>9 DEF UploadDone, UploadFails, Fault, TypeOK
    <2>3. QED
        BY <2>1, <2>2 DEF MarkerFresh, SomeMarking, Marking, Active, Settled
<1>10. CASE Advance
    <2>1. /\ due'[j] >= due[j]
          /\ due'[j] = due[j] + 1 \/ due'[j] = Ancient
        BY <1>10, AncientNat DEF Advance, Older, TypeOK
    <2>2. marker'[j] <= marker[j] + 1 /\ marker'[j] <= Ancient
        BY <1>10, AncientNat DEF Advance, Older, TypeOK
    <2>3. UNCHANGED <<job, step, back, faults>>
        BY <1>10 DEF Advance
    <2>4. \A x \in Process : Active(x)' => Active(x) /\ age'[x] = age[x] + 1
        BY <1>10 DEF Advance, Active
    <2>5. CASE SomeMarking(j)
        BY <2>3, <2>5 DEF SomeMarking, Marking
    <2>6. CASE ~ SomeMarking(j)
        <3>1. /\ marker[j] <= due[j] + MaxStall
              /\ \A x \in Process : Active(x) => Settled(j, age[x])
            BY <2>3, <2>6 DEF MarkerFresh
        <3>2. marker'[j] <= due'[j] + MaxStall
            BY <1>0, <2>1, <2>2, <3>1, AncientNat
        <3>3. ASSUME NEW x \in Process, Active(x)'
              PROVE  Settled(j, age[x])'
            <4>1. /\ age'[x] = age[x] + 1
                  /\ \/ marker[j] - age[x] <= due[j] + MaxStall
                     \/ marker[j] - age[x] <= back
                BY <2>4, <3>1, <3>3 DEF Settled
            <4>2. \/ marker'[j] - age'[x] <= due'[j] + MaxStall
                  \/ marker'[j] - age'[x] <= back'
                BY <1>0, <2>1, <2>2, <2>3, <4>1
            <4>3. QED
                BY <4>2 DEF Settled
        <3>4. QED
            BY <3>2, <3>3
    <2>7. QED
        BY <2>5, <2>6
<1>11. CASE SetBack
    <2>1. /\ UNCHANGED <<job, step, due, faults>>
          /\ back' = back + 1
          /\ marker'[j] = marker[j] - 1
          /\ \A x \in Process : Active(x)' => Active(x) /\ age'[x] = age[x] - 1
        BY <1>11 DEF SetBack, Active
    <2>2. CASE SomeMarking(j)
        BY <2>1, <2>2 DEF SomeMarking, Marking
    <2>3. CASE ~ SomeMarking(j)
        <3>1. /\ marker[j] <= due[j] + MaxStall
              /\ \A x \in Process : Active(x) => Settled(j, age[x])
            BY <2>1, <2>3 DEF MarkerFresh
        <3>2. ASSUME NEW x \in Process, Active(x)'
              PROVE  Settled(j, age[x])'
            <4>1. \/ marker'[j] - age'[x] <= due'[j] + MaxStall
                  \/ marker'[j] - age'[x] <= back'
                BY <1>0, <2>1, <3>1, <3>2 DEF Settled
            <4>2. QED
                BY <4>1 DEF Settled
        <3>3. QED
            BY <1>0, <2>1, <3>1, <3>2
    <2>4. QED
        BY <2>2, <2>3
<1>12. CASE UNCHANGED vars
    BY <1>12 DEF vars, processVars, MarkerFresh, SomeMarking, Marking, Active,
        Settled
<1>13. QED
    BY <1>3, <1>4, <1>5, <1>6, <1>7, <1>8, <1>9, <1>10, <1>11, <1>12
    DEF Next, Work

-----------------------------------------------------------------------------
LEMMA TriggersInvNext == TriggersInv /\ [Next]_vars => TriggersInv'
BY TypesNext, AgeFloorNext, NotOverdueNext, CloseReadsNext, MarkerFreshNext
DEF TriggersInv

\* Times and counters stay in their range, whatever the clock does
\* (should_trigger_interval subtracts them).
THEOREM TriggersTypeCorrect == Spec => []TypeOK
<1>1. TriggersInv => TypeOK
    BY DEF TriggersInv
<1>2. QED
    BY <1>1, TriggersInvInit, TriggersInvNext, PTL DEF Spec

\* A job that is skipped was found due less than an interval, and what the
\* clock was set back, before the clock was read
\* (should_trigger_interval, write_rate_limit_marker).
THEOREM SkipsAreRecent == Spec => NeverStuck
<1>1. ASSUME TriggersInv, NEW p \in Process, NotDue(p), job[p] \in Enabled
      PROVE  due[job[p]] - age[p] < Interval + back
    <2>1. /\ job[p] \in Job /\ age[p] \in Int /\ back \in Nat
          /\ due[job[p]] \in Nat /\ marker[job[p]] \in Int
        BY <1>1 DEF TriggersInv, TypeOK
    <2>2. marker[job[p]] - age[p] < Interval
        BY <1>1, <2>1 DEF NotDue, should_trigger_interval
    <2>3. due[job[p]] <= marker[job[p]] + back
        BY <1>1, <2>1 DEF TriggersInv, NotOverdue
    <2>4. QED
        BY <2>1, <2>2, <2>3
<1>2. TriggersInv =>
        \A p \in Process :
            NotDue(p) /\ job[p] \in Enabled
              => due[job[p]] - age[p] < Interval + back
    BY <1>1
<1>3. QED
    BY <1>2, TriggersInvInit, TriggersInvNext, PTL DEF Spec, NeverStuck

\* A job runs early only while another shell is about to write its marker,
\* after a failure, or when the clock was set back by an interval
\* (maybe_spawn_async_upload, maybe_run_auto_prune).
THEOREM EarlyRunsAreMarking == Spec => EarlyOnlyWhileMarking
<1>1. ASSUME TriggersInv, NEW p \in Process, Due(p), faults = 0, back < Interval,
             \A q \in Process \ {p} : ~ Marking(q, job[p])
      PROVE  due[job[p]] >= Interval - MaxStall
    <2>1. /\ job[p] \in Job /\ age[p] \in Int /\ back \in Nat
          /\ due[job[p]] \in Nat /\ marker[job[p]] \in Int
        BY <1>1 DEF TriggersInv, TypeOK
    <2>2. Active(p) /\ ~ Marking(p, job[p])
        BY <1>1, <2>1, MarkingFacts DEF TriggersInv, Due, At, Active
    <2>3. ~ SomeMarking(job[p])
        BY <1>1, <2>2 DEF SomeMarking
    <2>4. Settled(job[p], age[p])
        BY <1>1, <2>1, <2>2, <2>3 DEF TriggersInv, MarkerFresh
    <2>5. marker[job[p]] - age[p] >= Interval
        BY <1>1 DEF Due, should_trigger_interval
    <2>6. QED
        BY <1>1, <2>1, <2>4, <2>5 DEF Settled
<1>2. TriggersInv =>
        \A p \in Process :
            /\ Due(p)
            /\ faults = 0
            /\ back < Interval
            /\ \A q \in Process \ {p} : ~ Marking(q, job[p])
            => due[job[p]] >= Interval - MaxStall
    BY <1>1
<1>3. QED
    BY <1>2, TriggersInvInit, TriggersInvNext, PTL
    DEF Spec, EarlyOnlyWhileMarking

=============================================================================
