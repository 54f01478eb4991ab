------------------------- MODULE RegistrationProofs -------------------------
(***************************************************************************)
(* Proofs about Registration, for any servers, trackers, periods and times *)
(* to live: a server that registered stays listed, and two rounds after    *)
(* its last change it is listed with the addresses it has.                 *)
(***************************************************************************)
EXTENDS Registration, Integers, TLAPS

-----------------------------------------------------------------------------
(* The time that calls at several trackers take.                           *)

Calls(k) == k * CallTime

LEMMA CallsType == \A k \in Nat : Calls(k) \in Nat
PROOF BY RegistrationAssumption DEF Calls

LEMMA CallsNext == \A k \in Nat : Calls(k + 1) = Calls(k) + CallTime
PROOF BY RegistrationAssumption DEF Calls

LEMMA CallsZero == Calls(0) = 0
PROOF BY RegistrationAssumption DEF Calls

LEMMA CallsMonotone ==
    ASSUME NEW j \in Nat, NEW k \in Nat, j <= k
    PROVE  Calls(j) <= Calls(k)
<1>1. k = j + (k - j) /\ k - j \in Nat
    OBVIOUS
<1>2. \A n \in Nat : Calls(j + n) = Calls(j) + n * CallTime
    BY RegistrationAssumption DEF Calls
<1>3. (k - j) * CallTime \in Nat
    BY <1>1, RegistrationAssumption
<1>4. Calls(j) \in Nat
    BY CallsType
<1>5. Calls(k) = Calls(j) + (k - j) * CallTime
    BY <1>1, <1>2
<1>6. QED
    BY <1>3, <1>4, <1>5

LEMMA SettledCalls ==
    ASSUME NEW t \in Tracker
    PROVE  /\ Settled(t) = Period + Calls(t) + Calls(t)
           /\ Settled(t) < MaxQuiet
           /\ LongEnough(t) <=> Ttl >= Period + Calls(t)
<1>1. /\ t \in Nat /\ TrackerCount \in Nat /\ t <= TrackerCount
      /\ CallTime \in Nat /\ Period \in Nat
    BY RegistrationAssumption DEF Tracker
<1>2. \A k \in Nat : 2 * k * CallTime = Calls(k) + Calls(k)
    BY <1>1 DEF Calls
<1>3. /\ Settled(t) = Period + (Calls(t) + Calls(t))
      /\ MaxQuiet = Period + (Calls(TrackerCount) + Calls(TrackerCount)) + 1
    BY <1>1, <1>2 DEF Settled, MaxQuiet
<1>4. Calls(t) <= Calls(TrackerCount)
    BY <1>1, CallsMonotone
<1>5. Calls(t) \in Nat /\ Calls(TrackerCount) \in Nat
    BY <1>1, CallsType
<1>6. QED
    BY <1>1, <1>3, <1>4, <1>5 DEF LongEnough, Calls

LEMMA MaxQuietType == MaxQuiet \in Nat
<1>1. 2 * TrackerCount * CallTime \in Nat
    BY RegistrationAssumption
<1>2. QED
    BY <1>1, RegistrationAssumption DEF MaxQuiet, Settled

-----------------------------------------------------------------------------
(* Types.                                                                  *)

LEMMA InitType == Init => TypeOK
<1> SUFFICES ASSUME Init PROVE TypeOK
    OBVIOUS
<1>1. /\ Period \in Nat /\ MaxEvents \in Nat /\ MaxFaults \in Nat
      /\ MaxQuiet \in Nat
    BY RegistrationAssumption, MaxQuietType
<1>2. QED
    BY <1>1 DEF Init, TypeOK

LEMMA StoreType ==
    ASSUME TypeOK, NEW t \in Tracker, NEW s \in Server, NEW a \in SUBSET Addr,
           Store(t, s, a)
    PROVE  peers' \in [Tracker -> SUBSET Record]
<1>1. [peer |-> s, addrs |-> a, age |-> 0] \in Record
    BY RegistrationAssumption DEF Record
<1>2. prune_expired(peers[t]) \subseteq Record
    BY DEF TypeOK, prune_expired
<1>3. QED
    BY <1>1, <1>2 DEF Store, TypeOK

LEMMA SpawnType ==
    ASSUME TypeOK, NEW s \in Server, NEW a \in SUBSET Addr,
           spawn_register_all(s, a)
    PROVE  tasks' \subseteq Task
<1>1. TrackerCount # 0 => NewTask(s, a) \in Task
    BY RegistrationAssumption DEF NewTask, Task, Tracker
<1>2. QED
    BY <1>1 DEF TypeOK, spawn_register_all

LEMMA TurnType ==
    ASSUME TypeOK, NEW x \in tasks, NextTracker(x) \/ NextAttempt(x)
    PROVE  tasks' \subseteq Task
<1>1. x \in Task
    BY DEF TypeOK
<1>2. ASSUME NextTracker(x)
      PROVE  tasks' \subseteq Task
    <2>1. CASE x.next = TrackerCount
        BY <1>2, <2>1 DEF NextTracker, TypeOK
    <2>2. CASE x.next # TrackerCount
        <3>1. x.next + 1 \in Tracker
            BY <1>1, <2>2, RegistrationAssumption DEF Task, Tracker
        <3>2. 0 \in 0..(Attempts - 1) /\ CallTime \in 0..CallTime
            BY RegistrationAssumption
        <3>3. [x EXCEPT !.next = @ + 1, !.attempt = 0, !.time = CallTime]
                  \in Task
            BY <1>1, <3>1, <3>2 DEF Task
        <3>4. QED
            BY <1>2, <2>2, <3>3 DEF NextTracker, TypeOK
    <2>3. QED
        BY <2>1, <2>2
<1>3. ASSUME x.attempt + 1 < Attempts
      PROVE  [x EXCEPT !.attempt = @ + 1] \in Task
    BY <1>1, <1>3, RegistrationAssumption DEF Task
<1>4. QED
    BY <1>2, <1>3 DEF NextAttempt, TypeOK

LEMMA RequestType ==
    ASSUME TypeOK, NEW x \in tasks
    PROVE  [peer |-> x.peer, addrs |-> x.addrs, next |-> x.next] \in Request
PROOF BY DEF TypeOK, Task, Request

LEMMA ServerType ==
    ASSUME TypeOK, NEW s \in Server, Tick(s) \/ ServerEvent(s)
    PROVE  TypeOK'
<1> USE RegistrationAssumption
<1>1. ASSUME Tick(s)
      PROVE  TypeOK'
    <2>1. known_addrs[s] \in SUBSET Addr
        BY DEF TypeOK
    <2>2. tasks' \subseteq Task
        BY <1>1, <2>1, SpawnType DEF Tick, TypeOK
    <2>3. QED
        BY <1>1, <2>2 DEF Tick, TypeOK, trackerVars
<1>2. ASSUME NEW a \in Addr, AddressEvent(s, a)
      PROVE  TypeOK'
    <2>1. known_addrs[s] \cup {a} \in SUBSET Addr
        BY DEF TypeOK
    <2>2. tasks' \subseteq Task
        BY <1>2, <2>1, SpawnType DEF AddressEvent
    <2>3. quiet' \in [Server -> [Tracker -> 0..MaxQuiet]]
        BY <1>2, MaxQuietType DEF AddressEvent, TypeOK
    <2>4. QED
        BY <1>2, <2>1, <2>2, <2>3 DEF AddressEvent, TypeOK, trackerVars
<1>3. ASSUME ServerStop(s)
      PROVE  TypeOK'
    <2>1. late' \subseteq Request
        BY <1>3, RequestType DEF ServerStop, TypeOK
    <2>2. /\ running' \in [Server -> BOOLEAN]
          /\ known_addrs' \in [Server -> SUBSET Addr]
          /\ next_register' \in [Server -> 0..Period]
          /\ tasks' \subseteq Task
          /\ registered' \in [Tracker -> SUBSET Server]
          /\ faults' \in 0..MaxFaults
        BY <1>3 DEF ServerStop, TypeOK, Fault
    <2>3. QED
        BY <1>3, <2>1, <2>2 DEF ServerStop, TypeOK
<1>4. ASSUME ServerStart(s)
      PROVE  TypeOK'
    BY <1>4 DEF ServerStart, TypeOK, trackerVars
<1>5. QED
    BY <1>1, <1>2, <1>3, <1>4 DEF ServerEvent, NewListenAddr, ExternalAddr

LEMMA CallType ==
    ASSUME TypeOK, NEW x \in tasks, Call(x)
    PROVE  TypeOK'
<1>1. /\ x \in Task /\ x.peer \in Server /\ x.addrs \in SUBSET Addr
      /\ x.next \in Tracker
    BY DEF TypeOK, Task
<1>2. [peer |-> x.peer, addrs |-> x.addrs, next |-> x.next] \in Request
    BY RequestType
<1>3. ASSUME RegisterAt(x)
      PROVE  TypeOK'
    <2>1. /\ peers' \in [Tracker -> SUBSET Record]
          /\ tasks' \subseteq Task
        BY <1>1, <1>3, StoreType, TurnType DEF RegisterAt
    <2>2. QED
        BY <1>1, <1>3, <2>1 DEF RegisterAt, TypeOK
<1>4. ASSUME AnswerLost(x)
      PROVE  TypeOK'
    <2>1. /\ peers' \in [Tracker -> SUBSET Record]
          /\ tasks' \subseteq Task
        BY <1>1, <1>4, StoreType, TurnType DEF AnswerLost
    <2>2. faults' \in 0..MaxFaults
        BY <1>4, RegistrationAssumption DEF AnswerLost, Fault, TypeOK
    <2>3. QED
        BY <1>1, <1>4, <2>1, <2>2 DEF AnswerLost, TypeOK
<1>5. ASSUME CallFails(x)
      PROVE  TypeOK'
    <2>1. tasks' \subseteq Task
        BY <1>1, <1>5, TurnType DEF CallFails
    <2>2. faults' \in 0..MaxFaults
        BY <1>5, RegistrationAssumption DEF CallFails, Fault, TypeOK
    <2>3. late' \subseteq Request
        BY <1>2, <1>5 DEF CallFails, TypeOK
    <2>4. QED
        BY <1>1, <1>5, <2>1, <2>2, <2>3 DEF CallFails, TypeOK
<1>6. QED
    BY <1>3, <1>4, <1>5 DEF Call

LEMMA AdvanceType ==
    ASSUME TypeOK, Advance
    PROVE  TypeOK'
<1> USE RegistrationAssumption
<1>1. next_register' \in [Server -> 0..Period]
    BY DEF TypeOK, Advance
<1>2. tasks' \subseteq Task
    <2>1. ASSUME NEW x \in tasks
          PROVE  [x EXCEPT !.time = @ - 1] \in Task
        <3>1. x \in Task
            BY DEF TypeOK
        <3>2. x.time - 1 \in 0..CallTime
            BY <3>1 DEF Advance, Task
        <3>3. QED
            BY <3>1, <3>2 DEF Task
    <2>2. QED
        BY <2>1 DEF Advance
<1>3. peers' \in [Tracker -> SUBSET Record]
    <2>1. \A r \in Record : [r EXCEPT !.age = Later(@, Ttl + 1)] \in Record
        BY DEF Record, Later
    <2>2. \A t \in Tracker : peers[t] \subseteq Record
        BY DEF TypeOK
    <2>3. QED
        BY <2>1, <2>2 DEF Advance
<1>4. quiet' \in [Server -> [Tracker -> 0..MaxQuiet]]
    <2>1. \A n \in 0..MaxQuiet : Later(n, MaxQuiet) \in 0..MaxQuiet
        BY MaxQuietType DEF Later
    <2>2. QED
        BY <2>1 DEF Advance, TypeOK
<1>5. QED
    BY <1>1, <1>2, <1>3, <1>4 DEF Advance, TypeOK

LEMMA TypeStep == TypeOK /\ [Next]_vars => TypeOK'
<1> SUFFICES ASSUME TypeOK, [Next]_vars PROVE TypeOK'
    OBVIOUS
<1>1. ASSUME NEW t \in Tracker, TrackerEvent(t)
      PROVE  TypeOK'
    <2>1. CASE List(t)
        BY <2>1 DEF List, prune_expired, TypeOK, serverVars
    <2>2. CASE TrackerCrash(t)
        BY <2>2, RegistrationAssumption
           DEF TrackerCrash, Fault, TypeOK, serverVars
    <2>3. CASE TrackerStart(t)
        BY <2>3 DEF TrackerStart, TypeOK, serverVars
    <2>4. QED
        BY <1>1, <2>1, <2>2, <2>3 DEF TrackerEvent
<1>2. ASSUME NEW m \in late, StoreLate(m)
      PROVE  TypeOK'
    <2>1. /\ m \in Request /\ m.peer \in Server /\ m.addrs \in SUBSET Addr
          /\ m.next \in Tracker
        BY DEF TypeOK, Request
    <2>2. peers' \in [Tracker -> SUBSET Record]
        BY <1>2, <2>1, StoreType DEF StoreLate
    <2>3. quiet' \in [Server -> [Tracker -> 0..MaxQuiet]]
        BY <1>2, <2>1, MaxQuietType DEF StoreLate, TypeOK
    <2>4. QED
        BY <1>2, <2>2, <2>3 DEF StoreLate, TypeOK, serverVars
<1>3. CASE UNCHANGED vars
    BY <1>3 DEF vars, trackerVars, serverVars, TypeOK
<1>4. QED
    BY <1>1, <1>2, <1>3, ServerType, CallType, AdvanceType DEF Next

\* Every variable has its type, for all constants.
THEOREM RegistrationTypes == Spec => []TypeOK
PROOF BY InitType, TypeStep, PTL DEF Spec

-----------------------------------------------------------------------------
(* When a server registers next.                                           *)

\* The time by which task x is done with tracker t.
Left(x, t) == x.time + Calls(t - x.next)

\* Within d, server s has called tracker t again: with its next tick, or with
\* a task that has not passed t.
Due(s, t, d) ==
    \/ next_register[s] + Calls(t) <= d
    \/ \E x \in tasks : x.peer = s /\ x.next <= t /\ Left(x, t) <= d

\* Only servers that run and have an address register, and only running ones
\* have an address.
RunInv ==
    /\ \A s \in Server : known_addrs[s] # {} => running[s]
    /\ \A x \in tasks : running[x.peer] /\ known_addrs[x.peer] # {}
    /\ \A t \in Tracker : \A s \in registered[t] :
         running[s] /\ known_addrs[s] # {}

LEMMA LeftType ==
    ASSUME NEW x \in Task, NEW t \in Tracker, x.next <= t
    PROVE  /\ Left(x, t) \in Nat
           /\ Left(x, t) <= Calls(t)
<1>1. /\ x.next \in Nat /\ x.next >= 1 /\ t \in Nat /\ CallTime \in Nat
      /\ x.time \in Nat /\ x.time <= CallTime
    BY RegistrationAssumption DEF Task, Tracker
<1>2. t - x.next \in Nat /\ t - x.next + 1 \in Nat /\ t - x.next + 1 <= t
    BY <1>1
<1>3. /\ Calls(t - x.next) \in Nat /\ Calls(t) \in Nat
      /\ Calls(t - x.next + 1) = Calls(t - x.next) + CallTime
      /\ Calls(t - x.next + 1) <= Calls(t)
    BY <1>1, <1>2, CallsType, CallsNext, CallsMonotone
<1>4. QED
    BY <1>1, <1>3 DEF Left

LEMMA DueNat ==
    ASSUME TypeOK, NEW s \in Server, NEW t \in Tracker, NEW d \in Int,
           Due(s, t, d)
    PROVE  d >= 0
<1>1. next_register[s] \in Nat /\ Calls(t) \in Nat
    BY CallsType, RegistrationAssumption DEF TypeOK, Tracker
<1>2. \A x \in tasks : x.next <= t => Left(x, t) \in Nat
    BY LeftType DEF TypeOK
<1>3. QED
    BY <1>1, <1>2 DEF Due

\* What becomes of a task when a call ends: it turns to a later call, which
\* is done no later at any tracker ahead.
LEMMA Turn ==
    ASSUME TypeOK, NEW x \in tasks, NextTracker(x) \/ NextAttempt(x)
    PROVE  /\ \A y \in tasks : y = x \/ y \in tasks'
           /\ \A y \in tasks' : y \in tasks \/
                /\ y.peer = x.peer /\ y.addrs = x.addrs /\ x.next <= y.next
                /\ \A u \in Tracker : y.next <= u => Left(y, u) <= Left(x, u)
           /\ \A u \in Tracker : x.next < u =>
                \E y \in tasks' : /\ y.peer = x.peer /\ y.next <= u
                                  /\ Left(y, u) <= Left(x, u)
<1> DEFINE later == [x EXCEPT !.next = @ + 1, !.attempt = 0, !.time = CallTime]
           again == [x EXCEPT !.attempt = @ + 1]
<1>1. /\ x \in Task /\ x.next \in 1..TrackerCount /\ x.time \in Nat
      /\ TrackerCount \in Nat /\ CallTime \in Nat
    BY RegistrationAssumption DEF TypeOK, Task, Tracker
<1>2. /\ later.peer = x.peer /\ later.addrs = x.addrs
      /\ later.next = x.next + 1 /\ later.time = CallTime
    BY <1>1 DEF Task
<1>3. /\ again.peer = x.peer /\ again.addrs = x.addrs
      /\ again.next = x.next /\ again.time = x.time
    BY <1>1 DEF Task
<1> HIDE DEF later, again
<1>4. ASSUME NEW u \in Tracker, x.next < u
      PROVE  Left(later, u) <= Left(x, u)
    <2>1. /\ u - x.next \in Nat /\ u - later.next \in Nat
          /\ u - x.next = (u - later.next) + 1
        BY <1>1, <1>2, <1>4 DEF Tracker
    <2>2. /\ Calls(u - x.next) = Calls(u - later.next) + CallTime
          /\ Calls(u - later.next) \in Nat
        BY <2>1, CallsNext, CallsType
    <2>3. QED
        BY <1>1, <1>2, <2>2 DEF Left
<1>5. ASSUME NEW u \in Tracker, x.next <= u
      PROVE  /\ Left(again, u) = Left(x, u)
             /\ Left(x, u) \in Nat
    BY <1>1, <1>3, <1>5, LeftType DEF Left
<1>6. CASE NextTracker(x)
    <2>1. tasks' = (tasks \ {x}) \cup
                   (IF x.next = TrackerCount THEN {} ELSE {later})
        BY <1>6 DEF NextTracker, later
    <2>2. \A u \in Tracker : later.next <= u => x.next < u
        BY <1>1, <1>2 DEF Tracker
    <2>3. \A u \in Tracker : x.next < u =>
              x.next # TrackerCount /\ later.next <= u
        BY <1>1, <1>2 DEF Tracker
    <2>4. x.next <= later.next
        BY <1>1, <1>2
    <2>5. QED
        BY <1>2, <1>4, <2>1, <2>2, <2>3, <2>4
<1>7. CASE x.attempt + 1 < Attempts /\ NextAttempt(x)
    <2>1. tasks' = (tasks \ {x}) \cup {again}
        BY <1>7 DEF NextAttempt, again
    <2>2. \A u \in Tracker : x.next < u => x.next <= u
        BY <1>1 DEF Tracker
    <2>3. \A u \in Tracker : x.next <= u => Left(again, u) <= Left(x, u)
        BY <1>5
    <2>4. x.next <= again.next
        BY <1>1, <1>3
    <2>5. QED
        BY <1>3, <2>1, <2>2, <2>3, <2>4
<1>8. QED
    BY <1>6, <1>7 DEF NextAttempt

LEMMA RunStep ==
    ASSUME TypeOK, RunInv, [Next]_vars
    PROVE  RunInv'
<1> USE DEF RunInv
<1>1. ASSUME NEW s \in Server, NEW a \in Addr, AddressEvent(s, a)
      PROVE  RunInv'
    <2>1. known_addrs' = [known_addrs EXCEPT ![s] = @ \cup {a}]
        BY <1>1 DEF AddressEvent
    <2>2. /\ \A v \in Server : known_addrs[v] \subseteq known_addrs'[v]
          /\ known_addrs'[s] # {}
          /\ \A v \in Server \ {s} : known_addrs'[v] = known_addrs[v]
        BY <2>1 DEF TypeOK
    <2>3. \A x \in tasks' : x \in tasks \/ x.peer = s
        BY <1>1 DEF AddressEvent, spawn_register_all, NewTask
    <2>4. running[s] /\ UNCHANGED <<running, registered>>
        BY <1>1 DEF AddressEvent, trackerVars
    <2>5. /\ \A x \in tasks : x.peer \in Server
          /\ \A t \in Tracker : registered[t] \subseteq Server
        BY DEF TypeOK, Task
    <2>6. QED
        BY <2>2, <2>3, <2>4, <2>5
<1>2. ASSUME NEW s \in Server, Tick(s)
      PROVE  RunInv'
    <2>1. \A x \in tasks' :
             x \in tasks \/ (x.peer = s /\ known_addrs[s] # {})
        BY <1>2 DEF Tick, spawn_register_all, NewTask
    <2>2. QED
        BY <1>2, <2>1 DEF Tick, trackerVars
<1>3. ASSUME NEW s \in Server, ServerStop(s)
      PROVE  RunInv'
    <2>1. /\ \A x \in tasks : x.peer \in Server
          /\ \A t \in Tracker : registered[t] \subseteq Server
        BY DEF TypeOK, Task
    <2>2. /\ \A v \in Server \ {s} : /\ running'[v] = running[v]
                                     /\ known_addrs'[v] = known_addrs[v]
          /\ known_addrs'[s] = {}
          /\ \A x \in tasks' : x \in tasks /\ x.peer # s
          /\ \A t \in Tracker : registered'[t] = registered[t] \ {s}
        BY <1>3 DEF ServerStop, TypeOK
    <2>3. QED
        BY <2>1, <2>2
<1>4. ASSUME NEW s \in Server, ServerStart(s)
      PROVE  RunInv'
    BY <1>4 DEF ServerStart, trackerVars, TypeOK
<1>5. ASSUME NEW x \in tasks, Call(x)
      PROVE  RunInv'
    <2>1. UNCHANGED <<running, known_addrs>>
        BY <1>5 DEF Call, RegisterAt, AnswerLost, CallFails
    <2>2. \A y \in tasks' : y \in tasks \/ y.peer = x.peer
        BY <1>5, Turn DEF Call, RegisterAt, AnswerLost, CallFails
    <2>3. \A t \in Tracker : registered'[t] \subseteq registered[t] \cup {x.peer}
        BY <1>5 DEF Call, RegisterAt, AnswerLost, CallFails, TypeOK
    <2>4. QED
        BY <2>1, <2>2, <2>3
<1>6. ASSUME NEW t \in Tracker, TrackerEvent(t)
      PROVE  RunInv'
    <2>1. UNCHANGED <<running, known_addrs, tasks>>
        BY <1>6 DEF TrackerEvent, List, TrackerCrash, TrackerStart, serverVars
    <2>2. \A u \in Tracker : registered'[u] \subseteq registered[u]
        BY <1>6 DEF TrackerEvent, List, TrackerCrash, TrackerStart, TypeOK
    <2>3. QED
        BY <2>1, <2>2
<1>7. ASSUME NEW m \in late, StoreLate(m)
      PROVE  RunInv'
    BY <1>7 DEF StoreLate, serverVars
<1>8. CASE Advance
    <2>1. \A y \in tasks' : \E x \in tasks : y.peer = x.peer
        BY <1>8 DEF Advance, TypeOK, Task
    <2>2. QED
        BY <1>8, <2>1 DEF Advance
<1>9. CASE UNCHANGED vars
    BY <1>9 DEF vars, trackerVars, serverVars
<1>10. QED
    BY <1>1, <1>2, <1>3, <1>4, <1>5, <1>6, <1>7, <1>8, <1>9
       DEF Next, ServerEvent, NewListenAddr, ExternalAddr

LEMMA RunInit == Init => RunInv
PROOF BY DEF Init, RunInv

-----------------------------------------------------------------------------
(* What a step other than of time leaves of a server's place at tracker t. *)

\* The step stored a record of s at t.
Stored(s, t, a) == [peer |-> s, addrs |-> a, age |-> 0] \in peers'[t]

\* A task of s did, the one that was at t.
Called(s, t) == \E x \in tasks : x.peer = s /\ x.next = t /\ Stored(s, t, x.addrs)

\* The next call stays due and a record stays, unless it was renewed.
Keeps(s, t) ==
    /\ running[s] /\ running'[s] /\ known_addrs[s] # {} =>
         \A d \in Int : Due(s, t, d) => Due(s, t, d)' \/ Called(s, t)
    /\ \A r \in peers[t] : r.peer = s /\ Ttl # 0 /\ r.age <= Ttl =>
         \/ r \in peers'[t]
         \/ Called(s, t)
         \/ quiet'[s][t] = 0 /\ \E a \in SUBSET Addr : Stored(s, t, a)
    /\ s \in registered'[t] => s \in registered[t] \/ Called(s, t)
    /\ running'[s] /\ known_addrs'[s] # {} =>
         \/ quiet'[s][t] = 0
         \/ /\ running[s]
            /\ known_addrs'[s] = known_addrs[s]
            /\ quiet'[s][t] = quiet[s][t]

\* A step that ends no task, delays no tick and touches no table.
LEMMA DueGrows ==
    ASSUME NEW s \in Server, NEW t \in Tracker, tasks \subseteq tasks',
           next_register'[s] = next_register[s]
    PROVE  \A d \in Int : Due(s, t, d) => Due(s, t, d)'
PROOF BY DEF Due, Left

LEMMA StoreKeeps ==
    ASSUME TypeOK, NEW u \in Tracker, NEW v \in Server, NEW a, Store(u, v, a),
           NEW t \in Tracker
    PROVE  /\ u = t => Stored(v, t, a)
           /\ u # t => peers'[t] = peers[t]
           /\ \A r \in peers[t] : Ttl # 0 /\ r.age <= Ttl =>
                r \in peers'[t] \/ (u = t /\ r.peer = v)
PROOF BY DEF Store, Stored, TypeOK, prune_expired

LEMMA AddressKeeps ==
    ASSUME TypeOK, NEW v \in Server, NEW a \in Addr, AddressEvent(v, a),
           NEW s \in Server, NEW t \in Tracker
    PROVE  Keeps(s, t)
<1>1. /\ tasks \subseteq tasks'
      /\ UNCHANGED <<running, next_register, peers, registered>>
    BY DEF AddressEvent, spawn_register_all, trackerVars
<1>2. \A d \in Int : Due(s, t, d) => Due(s, t, d)'
    BY <1>1, DueGrows
<1>3. CASE s = v
    <2>1. quiet'[s][t] = 0
        BY <1>3 DEF AddressEvent, TypeOK
    <2>2. QED
        BY <1>1, <1>2, <2>1 DEF Keeps
<1>4. CASE s # v
    <2>1. quiet'[s] = quiet[s] /\ known_addrs'[s] = known_addrs[s]
        BY <1>4 DEF AddressEvent, TypeOK
    <2>2. QED
        BY <1>1, <1>2, <2>1 DEF Keeps
<1>5. QED
    BY <1>3, <1>4

LEMMA TickKeeps ==
    ASSUME TypeOK, NEW v \in Server, Tick(v),
           NEW s \in Server, NEW t \in Tracker
    PROVE  Keeps(s, t)
<1>1. UNCHANGED <<peers, registered, running, known_addrs, quiet>>
    BY DEF Tick, trackerVars
<1>2. tasks \subseteq tasks'
    BY DEF Tick, spawn_register_all
<1>3. ASSUME s # v
      PROVE  \A d \in Int : Due(s, t, d) => Due(s, t, d)'
    <2>1. next_register'[s] = next_register[s]
        BY <1>3 DEF Tick, TypeOK
    <2>2. QED
        BY <1>2, <2>1, DueGrows
<1>4. ASSUME s = v, known_addrs[s] # {}, NEW d \in Int, Due(s, t, d)
      PROVE  Due(s, t, d)'
    <2>1. CASE \E x \in tasks : x.peer = s /\ x.next <= t /\ Left(x, t) <= d
        BY <1>2, <2>1 DEF Due, Left
    <2>2. CASE next_register[s] + Calls(t) <= d
        <3> DEFINE x == NewTask(s, known_addrs[s])
        <3>1. t \in Nat /\ t >= 1 /\ TrackerCount # 0 /\ CallTime \in Nat
            BY RegistrationAssumption DEF Tracker
        <3>2. /\ x \in tasks' /\ x.peer = s /\ x.next = 1
              /\ x.time = CallTime
            BY <1>4, <3>1 DEF Tick, spawn_register_all, NewTask
        <3>3. next_register[s] = 0
            BY <1>4 DEF Tick
        <3>4. /\ Calls(t) = Calls(t - 1) + CallTime
              /\ Calls(t - 1) \in Nat
            <4>1. t - 1 \in Nat /\ t = (t - 1) + 1
                BY <3>1
            <4>2. QED
                BY <4>1, CallsNext, CallsType
        <3> HIDE DEF x
        <3>5. x.next <= t /\ Left(x, t) <= d
            BY <2>2, <3>1, <3>2, <3>3, <3>4 DEF Left
        <3>6. QED
            BY <3>2, <3>5 DEF Due, Left
    <2>3. QED
        BY <1>4, <2>1, <2>2 DEF Due
<1>5. QED
    BY <1>1, <1>3, <1>4 DEF Keeps

LEMMA StopKeeps ==
    ASSUME TypeOK, NEW v \in Server, ServerStop(v),
           NEW s \in Server, NEW t \in Tracker
    PROVE  Keeps(s, t)
<1>1. UNCHANGED <<peers, quiet>> /\ registered'[t] = registered[t] \ {v}
    BY DEF ServerStop, TypeOK
<1>2. CASE s = v
    <2>1. ~ running'[s]
        BY <1>2 DEF ServerStop, TypeOK
    <2>2. QED
        BY <1>1, <2>1 DEF Keeps
<1>3. CASE s # v
    <2>1. /\ running'[s] = running[s] /\ known_addrs'[s] = known_addrs[s]
          /\ next_register'[s] = next_register[s]
          /\ \A x \in tasks : x.peer = s => x \in tasks'
        BY <1>3 DEF ServerStop, TypeOK
    <2>2. \A d \in Int : Due(s, t, d) => Due(s, t, d)'
        BY <2>1 DEF Due, Left
    <2>3. QED
        BY <1>1, <2>1, <2>2 DEF Keeps
<1>4. QED
    BY <1>2, <1>3

LEMMA StartKeeps ==
    ASSUME TypeOK, NEW v \in Server, ServerStart(v),
           RunInv, NEW s \in Server, NEW t \in Tracker
    PROVE  Keeps(s, t)
<1>1. UNCHANGED <<peers, registered, known_addrs, next_register, tasks, quiet>>
    BY DEF ServerStart, trackerVars
<1>2. \A d \in Int : Due(s, t, d) => Due(s, t, d)'
    BY <1>1, DueGrows
<1>3. known_addrs'[s] # {} => running'[s] = running[s]
    BY <1>1 DEF ServerStart, TypeOK, RunInv
<1>4. QED
    BY <1>1, <1>2, <1>3 DEF Keeps, TypeOK

LEMMA CallKeeps ==
    ASSUME TypeOK, NEW x \in tasks, Call(x),
           NEW s \in Server, NEW t \in Reliable
    PROVE  Keeps(s, t)
<1> t \in Tracker /\ x \in Task /\ x.next \in Tracker /\ x.peer \in Server
    BY RegistrationAssumption DEF TypeOK, Task
<1>1. UNCHANGED <<running, known_addrs, next_register, quiet>>
    BY DEF Call, RegisterAt, AnswerLost, CallFails
<1>2. NextTracker(x) \/ NextAttempt(x)
    BY DEF Call, RegisterAt, AnswerLost, CallFails
<1>3. \/ Store(x.next, x.peer, x.addrs)
      \/ x.next # t /\ UNCHANGED peers
    BY DEF Call, RegisterAt, AnswerLost, CallFails
<1>4. /\ x.next = t => Stored(x.peer, t, x.addrs)
      /\ \A r \in peers[t] : Ttl # 0 /\ r.age <= Ttl =>
           r \in peers'[t] \/ (x.next = t /\ r.peer = x.peer)
    BY <1>3, StoreKeeps
<1>5. x.next = t /\ x.peer = s => Called(s, t)
    BY <1>4 DEF Called
<1>6. s \in registered'[t] => s \in registered[t] \/ Called(s, t)
    <2>1. s \in registered'[t] =>
             s \in registered[t] \/ (x.next = t /\ x.peer = s)
        BY DEF Call, RegisterAt, AnswerLost, CallFails, TypeOK
    <2>2. QED
        BY <1>5, <2>1
<1>7. ASSUME NEW d \in Int, Due(s, t, d), ~ (x.next = t /\ x.peer = s)
      PROVE  Due(s, t, d)'
    <2>1. CASE next_register[s] + Calls(t) <= d
        BY <1>1, <2>1 DEF Due
    <2>2. ASSUME NEW y \in tasks, y.peer = s, y.next <= t, Left(y, t) <= d
          PROVE  Due(s, t, d)'
        <3>1. \E z \in tasks' : z.peer = s /\ z.next <= t /\ Left(z, t) <= d
            <4>1. CASE y # x
                BY <1>2, <2>2, <4>1, Turn
            <4>2. CASE y = x
                <5>1. x.next < t
                    BY <1>7, <2>2, <4>2, RegistrationAssumption DEF Tracker
                <5>2. PICK z \in tasks' : /\ z.peer = x.peer /\ z.next <= t
                                          /\ Left(z, t) <= Left(x, t)
                    BY <1>2, <5>1, Turn
                <5>3. z \in Task
                    BY <1>2, TurnType
                <5>4. Left(z, t) \in Nat /\ Left(x, t) \in Nat
                    BY <2>2, <4>2, <5>2, <5>3, LeftType
                <5>5. Left(z, t) <= d
                    BY <2>2, <4>2, <5>2, <5>4
                <5>6. QED
                    BY <2>2, <4>2, <5>2, <5>5
            <4>3. QED
                BY <4>1, <4>2
        <3>2. QED
            BY <3>1 DEF Due, Left
    <2>3. QED
        BY <1>7, <2>1, <2>2 DEF Due
<1>8. QED
    BY <1>1, <1>4, <1>5, <1>6, <1>7 DEF Keeps

LEMMA TrackerKeeps ==
    ASSUME TypeOK, NEW u \in Tracker, TrackerEvent(u),
           NEW s \in Server, NEW t \in Reliable
    PROVE  Keeps(s, t)
<1> t \in Tracker
    BY RegistrationAssumption
<1>1. UNCHANGED <<running, known_addrs, next_register, tasks, quiet>>
    BY DEF TrackerEvent, List, TrackerCrash, TrackerStart, serverVars
<1>2. \A d \in Int : Due(s, t, d) => Due(s, t, d)'
    BY <1>1, DueGrows
<1>3. registered'[t] \subseteq registered[t]
    BY DEF TrackerEvent, List, TrackerCrash, TrackerStart, TypeOK
<1>4. \A r \in peers[t] : Ttl # 0 /\ r.age <= Ttl => r \in peers'[t]
    BY DEF TrackerEvent, List, TrackerCrash, TrackerStart, TypeOK,
           prune_expired
<1>5. QED
    BY <1>1, <1>2, <1>3, <1>4 DEF Keeps

LEMMA LateKeeps ==
    ASSUME TypeOK, NEW m \in late, StoreLate(m),
           NEW s \in Server, NEW t \in Tracker
    PROVE  Keeps(s, t)
<1>1. /\ m.next \in Tracker /\ m.peer \in Server /\ m.addrs \in SUBSET Addr
    BY DEF TypeOK, Request
<1>2. UNCHANGED <<running, known_addrs, next_register, tasks, registered>>
    BY DEF StoreLate, serverVars
<1>3. \A d \in Int : Due(s, t, d) => Due(s, t, d)'
    BY <1>2, DueGrows
<1>4. quiet'[s][t] = IF m.peer = s /\ m.next = t THEN 0 ELSE quiet[s][t]
    BY <1>1 DEF StoreLate, TypeOK
<1>5. /\ m.next = t => Stored(m.peer, t, m.addrs)
      /\ \A r \in peers[t] : Ttl # 0 /\ r.age <= Ttl =>
           r \in peers'[t] \/ (m.next = t /\ r.peer = m.peer)
    BY <1>1, StoreKeeps DEF StoreLate
<1>6. QED
    BY <1>1, <1>2, <1>3, <1>4, <1>5 DEF Keeps

LEMMA NextKeeps ==
    ASSUME TypeOK, RunInv, [Next]_vars, ~ Advance,
           NEW s \in Server, NEW t \in Reliable
    PROVE  Keeps(s, t)
<1> t \in Tracker
    BY RegistrationAssumption
<1>1. CASE UNCHANGED vars
    <2>1. /\ UNCHANGED <<peers, registered, running, known_addrs, quiet>>
          /\ UNCHANGED <<next_register, tasks>>
        BY <1>1 DEF vars, trackerVars, serverVars
    <2>2. \A d \in Int : Due(s, t, d) => Due(s, t, d)'
        BY <2>1, DueGrows
    <2>3. QED
        BY <2>1, <2>2 DEF Keeps
<1>2. CASE \E v \in Server : Tick(v) \/ ServerEvent(v)
    BY <1>2, TickKeeps, AddressKeeps, StopKeeps, StartKeeps
       DEF ServerEvent, NewListenAddr, ExternalAddr
<1>3. QED
    BY <1>1, <1>2, CallKeeps, TrackerKeeps, LateKeeps DEF Next

-----------------------------------------------------------------------------
(* A record that is renewed before it expires.                             *)

\* Tracker t has a record of s with addresses a, no older than a period and
\* the calls up to t when s calls t again.
Renewed(s, t, a) ==
    \E r \in peers[t] : /\ r.peer = s
                        /\ r.addrs = a
                        /\ Due(s, t, Period + Calls(t) - r.age)

LEMMA RecordType ==
    ASSUME TypeOK, NEW t \in Tracker, NEW r \in peers[t]
    PROVE  r \in Record /\ r.age \in Nat /\ Period + Calls(t) - r.age \in Int
<1>1. r \in Record
    BY DEF TypeOK
<1>2. Calls(t) \in Nat
    BY CallsType DEF Tracker
<1>3. QED
    BY <1>1, <1>2, RegistrationAssumption DEF Record

LEMMA RenewedAge ==
    ASSUME TypeOK, NEW s \in Server, NEW t \in Tracker, LongEnough(t),
           NEW r \in peers[t], Due(s, t, Period + Calls(t) - r.age)
    PROVE  Ttl # 0 /\ r.age <= Ttl
<1>1. /\ r.age \in Nat /\ Period + Calls(t) - r.age \in Int
      /\ Calls(t) \in Nat /\ Period \in Nat \ {0} /\ Ttl \in Nat
    BY RecordType, CallsType, RegistrationAssumption DEF Tracker
<1>2. Period + Calls(t) - r.age >= 0
    BY <1>1, DueNat
<1>3. Ttl >= Period + Calls(t)
    BY SettledCalls
<1>4. QED
    BY <1>1, <1>2, <1>3

LEMMA RenewedListed ==
    ASSUME TypeOK, NEW s \in Server, NEW t \in Tracker, LongEnough(t),
           NEW a, Renewed(s, t, a)
    PROVE  \E r \in Listed(t) : r.peer = s /\ r.addrs = a
PROOF BY RenewedAge DEF Renewed, Listed, prune_expired

\* A new record is renewed in time by the timer.
LEMMA StoredRenewed ==
    ASSUME TypeOK', NEW s \in Server, NEW t \in Tracker, NEW a,
           Stored(s, t, a)
    PROVE  Renewed(s, t, a)'
<1> DEFINE r == [peer |-> s, addrs |-> a, age |-> 0]
<1>1. r \in peers'[t] /\ r.peer = s /\ r.addrs = a /\ r.age = 0
    BY DEF Stored
<1>2. /\ next_register'[s] \in Nat /\ next_register'[s] <= Period
      /\ Calls(t) \in Nat /\ Period \in Nat
    BY CallsType, RegistrationAssumption DEF TypeOK, Tracker
<1> HIDE DEF r
<1>3. next_register'[s] + Calls(t) <= Period + Calls(t) - r.age
    BY <1>1, <1>2
<1>4. QED
    BY <1>1, <1>3 DEF Renewed, Due

LEMMA RenewedKeeps ==
    ASSUME TypeOK, NEW s \in Server, NEW t \in Tracker, LongEnough(t),
           Keeps(s, t), running[s], running'[s], known_addrs[s] # {},
           NEW a, Renewed(s, t, a)
    PROVE  \/ Renewed(s, t, a)'
           \/ Called(s, t)
           \/ quiet'[s][t] = 0 /\ \E b \in SUBSET Addr : Stored(s, t, b)
<1>1. PICK r \in peers[t] : /\ r.peer = s
                            /\ r.addrs = a
                            /\ Due(s, t, Period + Calls(t) - r.age)
    BY DEF Renewed
<1>2. Ttl # 0 /\ r.age <= Ttl
    BY <1>1, RenewedAge
<1>3. \/ r \in peers'[t]
      \/ Called(s, t)
      \/ quiet'[s][t] = 0 /\ \E b \in SUBSET Addr : Stored(s, t, b)
    BY <1>1, <1>2 DEF Keeps
<1>4. Period + Calls(t) - r.age \in Int
    BY RecordType
<1>5. Due(s, t, Period + Calls(t) - r.age)' \/ Called(s, t)
    BY <1>1, <1>4 DEF Keeps
<1>6. QED
    BY <1>1, <1>3, <1>5 DEF Renewed

\* Time brings the next call nearer.
LEMMA AdvanceDue ==
    ASSUME TypeOK, Advance, NEW s \in Server, NEW t \in Tracker,
           running[s], NEW d \in Int, Due(s, t, d)
    PROVE  Due(s, t, d - 1)'
<1>1. CASE next_register[s] + Calls(t) <= d
    <2>1. next_register'[s] = next_register[s] - 1
        BY DEF Advance
    <2>2. next_register[s] \in Int /\ Calls(t) \in Int
        BY CallsType, RegistrationAssumption DEF TypeOK, Tracker
    <2>3. next_register'[s] + Calls(t) <= d - 1
        BY <1>1, <2>1, <2>2
    <2>4. QED
        BY <2>3 DEF Due
<1>2. ASSUME NEW x \in tasks, x.peer = s, x.next <= t, Left(x, t) <= d
      PROVE  Due(s, t, d - 1)'
    <2> DEFINE y == [x EXCEPT !.time = @ - 1]
    <2>1. x \in Task
        BY DEF TypeOK
    <2>2. /\ y \in tasks' /\ y.peer = x.peer /\ y.next = x.next
          /\ y.time = x.time - 1
        BY <2>1 DEF Advance, Task
    <2>3. x.time \in Nat /\ Calls(t - x.next) \in Nat
        <3>1. t - x.next \in Nat
            BY <1>2, <2>1, RegistrationAssumption DEF Tracker, Task
        <3>2. QED
            BY <2>1, <3>1, CallsType, RegistrationAssumption DEF Task
    <2> HIDE DEF y
    <2>4. Left(y, t) <= d - 1
        BY <1>2, <2>2, <2>3 DEF Left
    <2>5. QED
        BY <1>2, <2>2, <2>4 DEF Due, Left
<1>3. QED
    BY <1>1, <1>2 DEF Due

LEMMA AdvanceRenewed ==
    ASSUME TypeOK, Advance, NEW s \in Server, NEW t \in Tracker,
           LongEnough(t), running[s], NEW a, Renewed(s, t, a)
    PROVE  Renewed(s, t, a)'
<1>1. PICK r \in peers[t] : /\ r.peer = s
                            /\ r.addrs = a
                            /\ Due(s, t, Period + Calls(t) - r.age)
    BY DEF Renewed
<1>2. r \in Record /\ r.age \in Nat /\ Period + Calls(t) - r.age \in Int
    BY RecordType
<1>3. r.age <= Ttl
    BY <1>1, RenewedAge
<1> DEFINE older == [r EXCEPT !.age = Later(@, Ttl + 1)]
<1>4. /\ older \in peers'[t] /\ older.peer = r.peer
      /\ older.addrs = r.addrs
    BY <1>2 DEF Advance, Record
<1>5. older.age = r.age + 1
    BY <1>2, <1>3, RegistrationAssumption DEF Record, Later
<1> HIDE DEF older
<1>6. Calls(t) \in Nat /\ Period \in Nat
    BY CallsType, RegistrationAssumption DEF Tracker
<1>7. Period + Calls(t) - older.age = (Period + Calls(t) - r.age) - 1
    BY <1>2, <1>5, <1>6
<1>8. Due(s, t, (Period + Calls(t) - r.age) - 1)'
    BY <1>1, <1>2, AdvanceDue
<1>9. Due(s, t, Period + Calls(t) - older.age)'
    BY <1>7, <1>8 DEF Due
<1>10. QED
    BY <1>1, <1>4, <1>9 DEF Renewed

-----------------------------------------------------------------------------
(* A server that registered stays listed.                                  *)

ListedInv ==
    \A s \in Server, t \in Reliable :
        s \in registered[t] /\ LongEnough(t) =>
            \E a \in SUBSET Addr : Renewed(s, t, a)

LEMMA ListedStep ==
    ASSUME TypeOK, TypeOK', RunInv, RunInv', ListedInv, [Next]_vars
    PROVE  ListedInv'
<1> SUFFICES ASSUME NEW s \in Server, NEW t \in Reliable,
                    s \in registered'[t], LongEnough(t)
             PROVE  \E a \in SUBSET Addr : Renewed(s, t, a)'
    BY DEF ListedInv, LongEnough
<1> t \in Tracker
    BY RegistrationAssumption
<1>1. CASE Advance
    <2>1. s \in registered[t] /\ running[s]
        BY <1>1 DEF Advance, RunInv
    <2>2. QED
        BY <1>1, <2>1, AdvanceRenewed DEF ListedInv
<1>2. CASE ~ Advance
    <2>1. Keeps(s, t)
        BY <1>2, NextKeeps
    <2>2. ASSUME NEW a \in SUBSET Addr, Stored(s, t, a)
          PROVE  \E b \in SUBSET Addr : Renewed(s, t, b)'
        BY <2>2, StoredRenewed
    <2>3. ASSUME Called(s, t)
          PROVE  \E b \in SUBSET Addr : Renewed(s, t, b)'
        BY <2>2, <2>3 DEF Called, TypeOK, Task
    <2>4. CASE s \in registered[t]
        <3>1. running[s] /\ running'[s] /\ known_addrs[s] # {}
            BY <2>4 DEF RunInv
        <3>2. PICK a \in SUBSET Addr : Renewed(s, t, a)
            BY <2>4 DEF ListedInv
        <3>3. QED
            BY <2>1, <2>2, <2>3, <3>1, <3>2, RenewedKeeps
    <2>5. QED
        BY <2>1, <2>3, <2>4 DEF Keeps
<1>3. QED
    BY <1>1, <1>2

LEMMA ListedInit == Init => ListedInv
<1>1. \A t \in Reliable : t \in Tracker
    BY RegistrationAssumption
<1>2. QED
    BY <1>1 DEF Init, ListedInv

\* A server that registered and runs is listed at every tracker that answers,
\* whatever becomes of the trackers before it, with a long enough TTL.
THEOREM RegisteredStaysListed == Spec => []StaysListed
<1> DEFINE Inv == TypeOK /\ RunInv /\ ListedInv
<1>1. Init => Inv
    BY InitType, RunInit, ListedInit
<1>2. Inv /\ [Next]_vars => Inv'
    BY TypeStep, RunStep, ListedStep
<1>3. Inv => StaysListed
    <2> SUFFICES ASSUME Inv, NEW s \in Server, NEW t \in Reliable,
                        running[s], s \in registered[t], LongEnough(t)
                 PROVE  \E r \in Listed(t) : r.peer = s
        BY DEF StaysListed
    <2>1. PICK a \in SUBSET Addr : Renewed(s, t, a)
        BY DEF ListedInv
    <2>2. QED
        BY <2>1, RenewedListed, RegistrationAssumption
<1>4. QED
    BY <1>1, <1>2, <1>3, PTL DEF Spec

-----------------------------------------------------------------------------
(* What is listed is what the server knows.                                *)

\* A task with addresses of an earlier time is done with tracker t by when
\* the calls up to t of that time are.
StaleInv ==
    \A x \in tasks, t \in Tracker :
        x.next <= t /\ x.addrs # known_addrs[x.peer] =>
            quiet[x.peer][t] + Left(x, t) <= Calls(t)

\* Some time after the last change, either the call that will bring the
\* present addresses is due, or they are listed and renewed.
FreshInv ==
    \A s \in Server, t \in Reliable :
        running[s] /\ known_addrs[s] # {} /\ LongEnough(t) =>
            \/ quiet[s][t] <= Calls(t)
            \/ Due(s, t, Settled(t) - quiet[s][t])
            \/ Renewed(s, t, known_addrs[s])

LEMMA QuietType ==
    ASSUME TypeOK, NEW s \in Server, NEW t \in Tracker
    PROVE  quiet[s][t] \in Nat /\ quiet[s][t] <= MaxQuiet
PROOF BY MaxQuietType DEF TypeOK

\* Tasks that stay, while no history gets longer and no addresses change.
LEMMA StaleKeeps ==
    ASSUME TypeOK, TypeOK', StaleInv, UNCHANGED known_addrs,
           \A s \in Server, t \in Tracker : quiet'[s][t] <= quiet[s][t],
           \A y \in tasks' :
               \/ y \in tasks \/ y.addrs = known_addrs[y.peer]
               \/ \E x \in tasks :
                    /\ y.peer = x.peer /\ y.addrs = x.addrs /\ x.next <= y.next
                    /\ \A u \in Tracker : y.next <= u => Left(y, u) <= Left(x, u)
    PROVE  StaleInv'
<1> SUFFICES ASSUME NEW y \in tasks', NEW t \in Tracker, y.next <= t,
                    y.addrs # known_addrs[y.peer]
             PROVE  quiet'[y.peer][t] + Left(y, t) <= Calls(t)
    BY DEF StaleInv, Left
<1>1. y \in Task /\ y.peer \in Server /\ y.next \in Tracker
    BY DEF TypeOK, Task
<1>2. /\ Left(y, t) \in Nat /\ Calls(t) \in Nat
      /\ quiet[y.peer][t] \in Nat /\ quiet'[y.peer][t] \in Nat
      /\ quiet'[y.peer][t] <= quiet[y.peer][t]
    <2>1. quiet'[y.peer][t] \in Nat
        BY <1>1, MaxQuietType DEF TypeOK
    <2>2. QED
        BY <1>1, <2>1, LeftType, CallsType, QuietType DEF Tracker
<1>3. CASE y \in tasks
    BY <1>2, <1>3 DEF StaleInv
<1>4. ASSUME NEW x \in tasks, y.peer = x.peer, y.addrs = x.addrs,
             x.next <= y.next,
             \A u \in Tracker : y.next <= u => Left(y, u) <= Left(x, u)
      PROVE  quiet'[y.peer][t] + Left(y, t) <= Calls(t)
    <2>1. x \in Task
        BY DEF TypeOK
    <2>2. x.next <= t
        BY <1>1, <1>4, <2>1, RegistrationAssumption DEF Task, Tracker
    <2>3. Left(x, t) \in Nat /\ Left(y, t) <= Left(x, t)
        BY <1>4, <2>1, <2>2, LeftType
    <2>4. quiet[y.peer][t] + Left(x, t) <= Calls(t)
        BY <1>4, <2>2 DEF StaleInv
    <2>5. QED
        BY <1>2, <2>3, <2>4
<1>5. QED
    BY <1>3, <1>4

LEMMA StaleAddress ==
    ASSUME TypeOK, TypeOK', StaleInv, NEW s \in Server, NEW a \in Addr,
           AddressEvent(s, a)
    PROVE  StaleInv'
<1> SUFFICES ASSUME NEW y \in tasks', NEW t \in Tracker, y.next <= t,
                    y.addrs # known_addrs'[y.peer]
             PROVE  quiet'[y.peer][t] + Left(y, t) <= Calls(t)
    BY DEF StaleInv, Left
<1>1. y \in Task /\ y.peer \in Server
    BY DEF TypeOK, Task
<1>2. Left(y, t) \in Nat /\ Left(y, t) <= Calls(t) /\ Calls(t) \in Nat
    BY <1>1, LeftType, CallsType DEF Tracker
<1>3. CASE y.peer = s
    <2>1. quiet'[y.peer][t] = 0
        BY <1>3 DEF AddressEvent, TypeOK
    <2>2. QED
        BY <1>2, <2>1
<1>4. CASE y.peer # s
    <2>1. /\ quiet'[y.peer] = quiet[y.peer]
          /\ known_addrs'[y.peer] = known_addrs[y.peer]
          /\ y \in tasks
        BY <1>1, <1>4
           DEF AddressEvent, spawn_register_all, NewTask, TypeOK
    <2>2. QED
        BY <2>1 DEF StaleInv
<1>5. QED
    BY <1>3, <1>4

LEMMA StaleAdvance ==
    ASSUME TypeOK, StaleInv, Advance
    PROVE  StaleInv'
<1> SUFFICES ASSUME NEW y \in tasks', NEW t \in Tracker, y.next <= t,
                    y.addrs # known_addrs[y.peer]
             PROVE  quiet'[y.peer][t] + Left(y, t) <= Calls(t)
    BY DEF StaleInv, Left, Advance
<1>1. PICK x \in tasks : y = [x EXCEPT !.time = @ - 1]
    BY DEF Advance
<1>2. x \in Task /\ x.peer \in Server
    BY DEF TypeOK, Task
<1>3. /\ y.peer = x.peer /\ y.addrs = x.addrs /\ y.next = x.next
      /\ y.time = x.time - 1
    BY <1>1, <1>2 DEF Task
<1>4. /\ quiet[x.peer][t] \in Nat
      /\ quiet'[x.peer][t] \in {quiet[x.peer][t], quiet[x.peer][t] + 1}
    BY <1>2, QuietType DEF Advance, Later
<1>5. /\ quiet[x.peer][t] + Left(x, t) <= Calls(t)
      /\ Left(x, t) \in Nat /\ Calls(t) \in Nat
    BY <1>2, <1>3, LeftType, CallsType DEF StaleInv, Tracker
<1>6. x.time \in Nat /\ Calls(t - x.next) \in Nat
    <2>1. t - x.next \in Nat
        BY <1>2, <1>3, RegistrationAssumption DEF Tracker, Task
    <2>2. QED
        BY <1>2, <2>1, CallsType, RegistrationAssumption DEF Task
<1>7. Left(y, t) = Left(x, t) - 1
    BY <1>3, <1>6 DEF Left
<1>8. QED
    BY <1>3, <1>4, <1>5, <1>7

LEMMA StaleStep ==
    ASSUME TypeOK, TypeOK', RunInv, StaleInv, [Next]_vars
    PROVE  StaleInv'
<1>1. ASSUME NEW s \in Server, Tick(s)
      PROVE  StaleInv'
    <2>1. \A y \in tasks' : y \in tasks \/ y.addrs = known_addrs[y.peer]
        BY <1>1 DEF Tick, spawn_register_all, NewTask
    <2>2. UNCHANGED <<known_addrs, quiet>>
        BY <1>1 DEF Tick
    <2>3. \A v \in Server, t \in Tracker : quiet'[v][t] <= quiet[v][t]
        BY <2>2, QuietType
    <2>4. QED
        BY <2>1, <2>2, <2>3, StaleKeeps
<1>2. ASSUME NEW s \in Server, ServerStop(s)
      PROVE  StaleInv'
    <2>1. /\ \A x \in tasks' : x \in tasks /\ x.peer # s
          /\ \A v \in Server \ {s} : known_addrs'[v] = known_addrs[v]
          /\ UNCHANGED quiet
        BY <1>2 DEF ServerStop, TypeOK
    <2>2. \A x \in tasks : x.peer \in Server
        BY DEF TypeOK, Task
    <2>3. QED
        BY <2>1, <2>2 DEF StaleInv, Left
<1>3. ASSUME NEW x \in tasks, Call(x)
      PROVE  StaleInv'
    <2>1. UNCHANGED <<known_addrs, quiet>>
        BY <1>3 DEF Call, RegisterAt, AnswerLost, CallFails
    <2>2. NextTracker(x) \/ NextAttempt(x)
        BY <1>3 DEF Call, RegisterAt, AnswerLost, CallFails
    <2>3. \A v \in Server, t \in Tracker : quiet'[v][t] <= quiet[v][t]
        BY <2>1, QuietType
    <2>4. QED
        BY <2>1, <2>2, <2>3, Turn, StaleKeeps
<1>4. ASSUME NEW m \in late, StoreLate(m)
      PROVE  StaleInv'
    <2>1. m.peer \in Server /\ m.next \in Tracker
        BY DEF TypeOK, Request
    <2>2. \A v \in Server, t \in Tracker : quiet'[v][t] \in {0, quiet[v][t]}
        BY <1>4, <2>1 DEF StoreLate, TypeOK
    <2>3. \A v \in Server, t \in Tracker : quiet'[v][t] <= quiet[v][t]
        BY <2>2, QuietType
    <2>4. UNCHANGED <<known_addrs, tasks>>
        BY <1>4 DEF StoreLate, serverVars
    <2>5. QED
        BY <2>3, <2>4, StaleKeeps
<1>5. ASSUME UNCHANGED <<known_addrs, tasks, quiet>>
      PROVE  StaleInv'
    BY <1>5 DEF StaleInv, Left
<1>6. ASSUME NEW t \in Tracker, TrackerEvent(t)
      PROVE  StaleInv'
    BY <1>5, <1>6 DEF TrackerEvent, List, TrackerCrash, TrackerStart, serverVars
<1>7. ASSUME NEW s \in Server, ServerStart(s)
      PROVE  StaleInv'
    BY <1>5, <1>7 DEF ServerStart
<1>8. CASE UNCHANGED vars
    BY <1>5, <1>8 DEF vars, serverVars
<1>9. QED
    BY <1>1, <1>2, <1>3, <1>4, <1>6, <1>7, <1>8, StaleAddress, StaleAdvance
       DEF Next, ServerEvent, NewListenAddr, ExternalAddr

\* FreshInv of one server and tracker.
Fresh(s, t) ==
    \/ quiet[s][t] <= Calls(t)
    \/ Due(s, t, Settled(t) - quiet[s][t])
    \/ Renewed(s, t, known_addrs[s])

LEMMA DueFresh ==
    ASSUME TypeOK', NEW s \in Server, NEW t \in Tracker, NEW d \in Int,
           Due(s, t, d)', d <= Settled(t) - quiet'[s][t]
    PROVE  Fresh(s, t)'
<1> DEFINE e == Settled(t) - quiet'[s][t]
           DueBy(n) == \/ next_register'[s] + Calls(t) <= n
                       \/ \E x \in tasks' : /\ x.peer = s /\ x.next <= t
                                            /\ Left(x, t) <= n
<1>1. Settled(t) \in Nat /\ quiet'[s][t] \in Nat /\ Calls(t) \in Nat
    <2>1. quiet'[s][t] \in Nat
        BY MaxQuietType DEF TypeOK
    <2>2. Calls(t) \in Nat /\ Period \in Nat
        BY CallsType, RegistrationAssumption DEF Tracker
    <2>3. QED
        BY <2>1, <2>2, SettledCalls
<1>2. e \in Int /\ next_register'[s] \in Nat
    BY <1>1, RegistrationAssumption DEF TypeOK
<1>3. \A x \in tasks' : x.next <= t => Left(x, t) \in Nat
    BY LeftType DEF TypeOK
<1>4. DueBy(d)
    BY DEF Due, Left
<1>5. d <= e
    OBVIOUS
<1> HIDE DEF e
<1>6. DueBy(e)
    BY <1>1, <1>2, <1>3, <1>4, <1>5
<1>7. QED
    BY <1>6 DEF e, Fresh, Due, Left

LEMMA FreshAdvance ==
    ASSUME TypeOK, TypeOK', Advance, NEW s \in Server, NEW t \in Reliable,
           running[s], LongEnough(t), Fresh(s, t)
    PROVE  Fresh(s, t)'
<1> DEFINE q == quiet[s][t]
<1>1. /\ t \in Tracker /\ q \in Nat /\ Calls(t) \in Nat /\ Period \in Nat
      /\ Settled(t) = Period + Calls(t) + Calls(t)
      /\ next_register[s] \in Nat /\ next_register[s] <= Period
    BY RegistrationAssumption, QuietType, CallsType, SettledCalls
       DEF Tracker, TypeOK
<1>2. quiet'[s][t] \in {q, q + 1}
    BY <1>1 DEF Advance, Later
<1>3. CASE q <= Calls(t)
    <2>1. next_register'[s] = next_register[s] - 1
        BY DEF Advance
    <2>2. PICK d \in Int : d = next_register[s] - 1 + Calls(t)
        BY <1>1
    <2>3. /\ next_register'[s] + Calls(t) <= d
          /\ d <= Settled(t) - quiet'[s][t]
        BY <1>1, <1>2, <1>3, <2>1, <2>2
    <2>4. Due(s, t, d)'
        BY <2>3 DEF Due
    <2>5. QED
        BY <1>1, <2>3, <2>4, DueFresh
<1>4. CASE Due(s, t, Settled(t) - q)
    <2>1. PICK d \in Int : d = Settled(t) - q
        BY <1>1
    <2>2. d - 1 \in Int /\ d - 1 <= Settled(t) - quiet'[s][t]
        BY <1>1, <1>2, <2>1
    <2>3. Due(s, t, d - 1)'
        BY <1>1, <1>4, <2>1, AdvanceDue
    <2>4. QED
        BY <1>1, <2>2, <2>3, DueFresh
<1>5. CASE Renewed(s, t, known_addrs[s])
    <2>1. PICK a : a = known_addrs[s]
        OBVIOUS
    <2>2. Renewed(s, t, a)'
        BY <1>1, <1>5, <2>1, AdvanceRenewed
    <2>3. known_addrs'[s] = a
        BY <2>1 DEF Advance
    <2>4. QED
        BY <2>2, <2>3 DEF Fresh, Renewed
<1>6. QED
    BY <1>3, <1>4, <1>5 DEF Fresh

LEMMA FreshKeeps ==
    ASSUME TypeOK, TypeOK', StaleInv, NEW s \in Server, NEW t \in Reliable,
           Keeps(s, t), running[s], running'[s], known_addrs[s] # {},
           known_addrs'[s] = known_addrs[s], quiet'[s][t] = quiet[s][t],
           LongEnough(t), Fresh(s, t)
    PROVE  Fresh(s, t)'
<1>1. /\ t \in Tracker /\ quiet[s][t] \in Nat /\ Calls(t) \in Nat
      /\ Settled(t) \in Nat
    BY RegistrationAssumption, QuietType, CallsType, SettledCalls DEF Tracker
<1>2. CASE quiet[s][t] <= Calls(t)
    BY <1>2 DEF Fresh
<1>3. CASE quiet[s][t] > Calls(t)
    <2>1. ASSUME NEW x \in tasks, x.peer = s, x.next = t,
                 Stored(s, t, x.addrs)
          PROVE  Fresh(s, t)'
        <3>1. x \in Task /\ x.next <= t
            BY <1>1, <2>1 DEF TypeOK, Tracker
        <3>2. Left(x, t) \in Nat
            BY <1>1, <3>1, LeftType
        <3>3. x.addrs = known_addrs[s]
            BY <1>1, <1>3, <2>1, <3>1, <3>2 DEF StaleInv
        <3>4. PICK a : a = known_addrs[s]
            OBVIOUS
        <3>5. Renewed(s, t, a)'
            BY <1>1, <2>1, <3>3, <3>4, StoredRenewed
        <3>6. QED
            BY <3>4, <3>5 DEF Fresh, Renewed
    <2>2. Called(s, t) => Fresh(s, t)'
        BY <2>1 DEF Called
    <2>3. CASE Due(s, t, Settled(t) - quiet[s][t])
        <3>1. PICK d \in Int : d = Settled(t) - quiet[s][t]
            BY <1>1
        <3>2. Due(s, t, d)' \/ Called(s, t)
            BY <2>3, <3>1 DEF Keeps
        <3>3. d <= Settled(t) - quiet'[s][t]
            BY <1>1, <3>1
        <3>4. QED
            BY <1>1, <2>2, <3>2, <3>3, DueFresh
    <2>4. CASE Renewed(s, t, known_addrs[s])
        <3>1. PICK a : a = known_addrs[s]
            OBVIOUS
        <3>2. quiet'[s][t] # 0
            BY <1>1, <1>3
        <3>3. Renewed(s, t, a)' \/ Called(s, t)
            BY <1>1, <2>4, <3>1, <3>2, RenewedKeeps
        <3>4. QED
            BY <2>2, <3>1, <3>3 DEF Fresh, Renewed
    <2>5. QED
        BY <1>1, <1>3, <2>3, <2>4 DEF Fresh
<1>4. QED
    BY <1>1, <1>2, <1>3

LEMMA FreshStep ==
    ASSUME TypeOK, TypeOK', RunInv, StaleInv, FreshInv, [Next]_vars
    PROVE  FreshInv'
<1> SUFFICES ASSUME NEW s \in Server, NEW t \in Reliable,
                    running'[s], known_addrs'[s] # {}, LongEnough(t)
             PROVE  Fresh(s, t)'
    BY DEF FreshInv, Fresh, LongEnough
<1> t \in Tracker
    BY RegistrationAssumption
<1>1. CASE Advance
    <2>1. running[s] /\ Fresh(s, t)
        BY <1>1 DEF Advance, FreshInv, Fresh
    <2>2. QED
        BY <1>1, <2>1, FreshAdvance
<1>2. CASE ~ Advance
    <2>1. Keeps(s, t)
        BY <1>2, NextKeeps
    <2>2. CASE quiet'[s][t] = 0
        <3>1. Calls(t) \in Nat
            BY CallsType DEF Tracker
        <3>2. QED
            BY <2>2, <3>1 DEF Fresh
    <2>3. CASE /\ running[s]
               /\ known_addrs'[s] = known_addrs[s]
               /\ quiet'[s][t] = quiet[s][t]
        <3>1. Fresh(s, t)
            BY <2>3 DEF FreshInv, Fresh
        <3>2. QED
            BY <2>1, <2>3, <3>1, FreshKeeps
    <2>4. QED
        BY <2>1, <2>2, <2>3 DEF Keeps
<1>3. QED
    BY <1>1, <1>2

LEMMA FreshInit == Init => StaleInv /\ FreshInv
PROOF BY DEF Init, StaleInv, FreshInv

\* A period and two rounds of calls after the last change, a tracker that
\* answers lists exactly the addresses the server has, whatever overtook what.
THEOREM ListedAddrsFresh == Spec => []FreshWithin
<1> DEFINE Inv == TypeOK /\ RunInv /\ StaleInv /\ FreshInv
<1>1. Init => Inv
    BY InitType, RunInit, FreshInit
<1>2. Inv /\ [Next]_vars => Inv'
    BY TypeStep, RunStep, StaleStep, FreshStep
<1>3. Inv => FreshWithin
    <2> SUFFICES ASSUME Inv, NEW s \in Server, NEW t \in Reliable,
                        running[s], known_addrs[s] # {}, LongEnough(t),
                        quiet[s][t] > Settled(t)
                 PROVE  \E r \in Listed(t) : /\ r.peer = s
                                             /\ r.addrs = known_addrs[s]
        BY DEF FreshWithin
    <2>1. /\ t \in Tracker /\ quiet[s][t] \in Nat /\ Calls(t) \in Nat
          /\ Settled(t) = Period + Calls(t) + Calls(t) /\ Period \in Nat
        BY RegistrationAssumption, QuietType, CallsType, SettledCalls
           DEF Tracker
    <2>2. ~ Due(s, t, Settled(t) - quiet[s][t])
        <3>1. /\ Settled(t) - quiet[s][t] \in Int
              /\ Settled(t) - quiet[s][t] < 0
            BY <2>1
        <3>2. QED
            BY <2>1, <3>1, DueNat
    <2>3. Renewed(s, t, known_addrs[s])
        BY <2>1, <2>2 DEF FreshInv
    <2>4. QED
        BY <2>1, <2>3, RenewedListed
<1>4. QED
    BY <1>1, <1>2, <1>3, PTL DEF Spec
=============================================================================
