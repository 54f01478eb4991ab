---------------------------- MODULE Registration ----------------------------
(***************************************************************************)
(* How a serving device keeps itself listed at the trackers: the address   *)
(* events and the 30 second timer of serve_async (src/p2p.rs), the          *)
(* background task that registers at one tracker after the other, the      *)
(* retries below it (src/http_retry.rs) and the tracker's table with its   *)
(* time to live (src/tracker.rs).                                          *)
(*                                                                         *)
(* Every registration runs in a task of its own with the addresses known   *)
(* when it was spawned, so several of them overlap and an older one may    *)
(* reach a tracker after a newer one.  A tracker keeps its table in memory *)
(* only.                                                                   *)
(*                                                                         *)
(* Time is discrete and relative: last_seen_unix is the age of a record,   *)
(* the timer is the time to its next tick, and a call has a deadline,      *)
(* since all its attempts together take a bounded time.  Time does not     *)
(* pass a due tick or deadline: the runtime and its pool of blocking       *)
(* threads are assumed to be prompt.                                       *)
(***************************************************************************)
EXTENDS Naturals, FiniteSets

CONSTANTS
    Server,       \* serving devices, by peer id
    Addr,         \* addresses they may learn of
    Dialable,     \* not 0.0.0.0, ::, or a relay circuit
    TrackerCount, \* the trackers configured, called in this order
    Reliable,     \* trackers that never crash and answer in time
    Ttl,          \* --ttl-sec of the trackers
    Period,       \* the 30 seconds of next_register
    CallTime,     \* longest time one register call takes with its retries
    Attempts,     \* RetryPolicy::tracker().attempts
    MaxEvents,    \* bound: address events in one behaviour
    MaxFaults     \* bound: faults in one behaviour

Tracker == 1..TrackerCount

ASSUME RegistrationAssumption ==
    /\ Dialable \subseteq Addr
    /\ TrackerCount \in Nat
    /\ Reliable \subseteq Tracker
    /\ Ttl \in Nat
    /\ Period \in Nat \ {0}
    /\ CallTime \in Nat \ {0}
    /\ Attempts \in Nat \ {0}
    /\ MaxEvents \in Nat
    /\ MaxFaults \in Nat

VARIABLES
    (* Trackers. *)
    up,             \* up[t]: tracker t runs
    peers,          \* peers[t]: the records of its table
    late,           \* registrations whose caller no longer waits
    (* Serving devices. *)
    running,
    known_addrs,
    next_register,  \* next_register[s]: time until the timer ticks
    tasks,          \* registration tasks under way
    (* History: the servers tracker t stored since they started, and for   *)
    (* how long nothing happened that makes their records at t outdated.   *)
    registered, quiet,
    (* Bounds used up. *)
    events, faults

trackerVars == <<up, peers, late, registered>>
serverVars  == <<running, known_addrs, next_register, tasks>>
vars == <<trackerVars, serverVars, quiet, events, faults>>

Record == [peer : Server, addrs : SUBSET Addr, age : 0..(Ttl + 1)]
Task == [peer : Server, addrs : SUBSET Addr, next : Tracker,
         attempt : 0..(Attempts - 1), time : 0..CallTime]
Request == [peer : Server, addrs : SUBSET Addr, next : Tracker]

\* The longest time the property FreshWithin looks back.
Settled(t) == Period + 2 * t * CallTime
MaxQuiet == Settled(TrackerCount) + 1

Fault == faults < MaxFaults /\ faults' = faults + 1

-----------------------------------------------------------------------------
(* The tracker.                                                            *)

\* Mutants of prune_expired: a record dies at its TTL; records never die.
prune_expired_Early(records) == {r \in records : r.age < Ttl}
prune_expired_Never(records) == records

\* A TTL of 0 clears the table.
prune_expired(records) ==
    {r \in records : Ttl # 0 /\ r.age <= Ttl}

\* The register handler: drop what expired, insert or replace the record.
Store(t, s, addrs) ==
    /\ up[t]
    /\ peers' = [peers EXCEPT ![t] =
         {r \in prune_expired(@) : r.peer # s} \cup
         {[peer |-> s, addrs |-> addrs, age |-> 0]}]

\* The list handler: drop what expired and answer with the rest.
List(t) ==
    /\ up[t]
    /\ peers' = [peers EXCEPT ![t] = prune_expired(@)]
    /\ UNCHANGED <<up, late, registered, serverVars, quiet, events, faults>>

\* What a list request would be answered with.
Listed(t) == prune_expired(peers[t])

TrackerCrash(t) ==
    /\ up[t]
    /\ t \notin Reliable
    /\ Fault
    /\ up' = [up EXCEPT ![t] = FALSE]
    /\ peers' = [peers EXCEPT ![t] = {}]
    /\ registered' = [registered EXCEPT ![t] = {}]
    /\ UNCHANGED <<late, serverVars, quiet, events>>

TrackerStart(t) ==
    /\ ~ up[t]
    /\ up' = [up EXCEPT ![t] = TRUE]
    /\ UNCHANGED <<peers, late, registered, serverVars, quiet, events, faults>>

-----------------------------------------------------------------------------
(* The event loop of the server.                                           *)

\* A registration of what the server knows, at the first tracker.
NewTask(s, addrs) == [peer |-> s, addrs |-> addrs, next |-> 1, attempt |-> 0,
                      time |-> CallTime]
spawn_register_all(s, addrs) ==
    tasks' = IF TrackerCount = 0 THEN tasks
                                 ELSE tasks \cup {NewTask(s, addrs)}

AddressEvent(s, a) ==
    /\ running[s]
    /\ events < MaxEvents
    /\ events' = events + 1
    /\ known_addrs' = [known_addrs EXCEPT ![s] = @ \cup {a}]
    /\ quiet' = [quiet EXCEPT ![s] = [t \in Tracker |-> 0]]
    /\ spawn_register_all(s, known_addrs[s] \cup {a})
    /\ UNCHANGED <<trackerVars, running, next_register, faults>>

\* A listen address registers even when it was known before.
NewListenAddr(s, a) == AddressEvent(s, a)

\* An external address, candidate or confirmed, only when it is new.
ExternalAddr(s, a) ==
    /\ a \in Dialable
    /\ a \notin known_addrs[s]
    /\ AddressEvent(s, a)

\* Mutant of Tick: nothing is registered again.
Tick_Idle(s) ==
    /\ running[s]
    /\ next_register[s] = 0
    /\ next_register' = [next_register EXCEPT ![s] = Period]
    /\ UNCHANGED <<trackerVars, running, known_addrs, tasks, quiet, events,
                   faults>>

\* The timer: register again once there is an address.
Tick(s) ==
    /\ running[s]
    /\ next_register[s] = 0
    /\ next_register' = [next_register EXCEPT ![s] = Period]
    /\ IF known_addrs[s] = {} THEN UNCHANGED tasks
                              ELSE spawn_register_all(s, known_addrs[s])
    /\ UNCHANGED <<trackerVars, running, known_addrs, quiet, events, faults>>

\* The process ends and its tasks with it; a request already sent may still
\* be handled.
ServerStop(s) ==
    /\ running[s]
    /\ Fault
    /\ running' = [running EXCEPT ![s] = FALSE]
    /\ known_addrs' = [known_addrs EXCEPT ![s] = {}]
    /\ next_register' = [next_register EXCEPT ![s] = 0]
    /\ tasks' = {x \in tasks : x.peer # s}
    /\ \E sent \in SUBSET {x \in tasks : x.peer = s} :
         late' = late \cup
           {[peer |-> x.peer, addrs |-> x.addrs, next |-> x.next] : x \in sent}
    /\ registered' = [t \in Tracker |-> registered[t] \ {s}]
    /\ UNCHANGED <<up, peers, quiet, events>>

\* The first tick of a tokio interval is immediate.
ServerStart(s) ==
    /\ ~ running[s]
    /\ running' = [running EXCEPT ![s] = TRUE]
    /\ UNCHANGED <<trackerVars, known_addrs, next_register, tasks, quiet,
                   events, faults>>

-----------------------------------------------------------------------------
(* A registration task: TrackerClient::register at each tracker in turn,   *)
(* whatever comes of it.                                                   *)

\* Mutant of NextTracker: one past the last tracker.
NextTracker_PastEnd(x) ==
    tasks' = (tasks \ {x}) \cup
      (IF x.next > TrackerCount THEN {}
       ELSE {[x EXCEPT !.next = @ + 1, !.attempt = 0, !.time = CallTime]})

NextTracker(x) ==
    tasks' = (tasks \ {x}) \cup
      (IF x.next = TrackerCount THEN {}
       ELSE {[x EXCEPT !.next = @ + 1, !.attempt = 0, !.time = CallTime]})

\* A failed attempt is repeated up to Attempts times.
NextAttempt(x) ==
    IF x.attempt + 1 < Attempts
    THEN tasks' = (tasks \ {x}) \cup {[x EXCEPT !.attempt = @ + 1]}
    ELSE NextTracker(x)

RegisterAt(x) ==
    /\ Store(x.next, x.peer, x.addrs)
    /\ registered' = [registered EXCEPT ![x.next] = @ \cup {x.peer}]
    /\ NextTracker(x)
    /\ UNCHANGED <<up, late, running, known_addrs, next_register, quiet,
                   events, faults>>

\* The tracker stored the record but its answer is lost.
AnswerLost(x) ==
    /\ Store(x.next, x.peer, x.addrs)
    /\ Fault
    /\ registered' = [registered EXCEPT ![x.next] = @ \cup {x.peer}]
    /\ NextAttempt(x)
    /\ UNCHANGED <<up, late, running, known_addrs, next_register, quiet,
                   events>>

\* Connection refused, a timeout (the request may be handled later) or an
\* error answer; 4xx answers other than 408 and 429 are not repeated.
CallFails(x) ==
    /\ x.next \notin Reliable
    /\ IF up[x.next] THEN Fault ELSE UNCHANGED faults
    /\ \/ NextAttempt(x)
       \/ up[x.next] /\ NextTracker(x)
    /\ \/ UNCHANGED late
       \/ /\ up[x.next]
          /\ late' = late \cup
               {[peer |-> x.peer, addrs |-> x.addrs, next |-> x.next]}
    /\ UNCHANGED <<up, peers, registered, running, known_addrs, next_register,
                   quiet, events>>

\* The tracker handles a request nobody waits for.
StoreLate(m) ==
    /\ Store(m.next, m.peer, m.addrs)
    /\ late' = late \ {m}
    /\ quiet' = [quiet EXCEPT ![m.peer][m.next] = 0]
    /\ UNCHANGED <<up, registered, serverVars, events, faults>>

-----------------------------------------------------------------------------
(* Time.  Ages and histories stop counting where they no longer matter.    *)

Later(n, top) == IF n < top THEN n + 1 ELSE n

Advance ==
    /\ \A s \in Server : running[s] => next_register[s] > 0
    /\ \A x \in tasks : x.time > 0
    /\ next_register' = [s \in Server |-> IF running[s]
                           THEN next_register[s] - 1 ELSE next_register[s]]
    /\ tasks' = {[x EXCEPT !.time = @ - 1] : x \in tasks}
    /\ peers' = [t \in Tracker |->
                   {[r EXCEPT !.age = Later(@, Ttl + 1)] : r \in peers[t]}]
    /\ quiet' = [s \in Server |->
                   [t \in Tracker |-> Later(quiet[s][t], MaxQuiet)]]
    /\ UNCHANGED <<up, late, registered, running, known_addrs, events, faults>>

-----------------------------------------------------------------------------
Init ==
    /\ up = [t \in Tracker |-> TRUE]
    /\ peers = [t \in Tracker |-> {}]
    /\ late = {}
    /\ running = [s \in Server |-> TRUE]
    /\ known_addrs = [s \in Server |-> {}]
    /\ next_register = [s \in Server |-> 0]
    /\ tasks = {}
    /\ registered = [t \in Tracker |-> {}]
    /\ quiet = [s \in Server |-> [t \in Tracker |-> 0]]
    /\ events = 0
    /\ faults = 0

ServerEvent(s) ==
    \/ \E a \in Addr : NewListenAddr(s, a) \/ ExternalAddr(s, a)
    \/ ServerStop(s) \/ ServerStart(s)

TrackerEvent(t) == List(t) \/ TrackerCrash(t) \/ TrackerStart(t)

Call(x) == RegisterAt(x) \/ AnswerLost(x) \/ CallFails(x)

Next ==
    \/ \E s \in Server : Tick(s) \/ ServerEvent(s)
    \/ \E t \in Tracker : TrackerEvent(t)
    \/ \E x \in tasks : Call(x)
    \/ \E m \in late : StoreLate(m)
    \/ Advance

Spec == Init /\ [][Next]_vars

\* Time passes, due ticks and calls happen, a crashed tracker is restarted.
\* A stopped server need not come back, a late request need not be handled.
FairSpec ==
    /\ Spec
    /\ WF_vars(Advance)
    /\ \A s \in Server : WF_vars(Tick(s))
    /\ WF_vars(\E x \in tasks : Call(x))
    /\ \A t \in Tracker : WF_vars(TrackerStart(t))

-----------------------------------------------------------------------------
(* Properties.                                                             *)

TypeOK ==
    /\ up \in [Tracker -> BOOLEAN]
    /\ peers \in [Tracker -> SUBSET Record]
    /\ late \subseteq Request
    /\ running \in [Server -> BOOLEAN]
    /\ known_addrs \in [Server -> SUBSET Addr]
    /\ next_register \in [Server -> 0..Period]
    /\ tasks \subseteq Task
    /\ registered \in [Tracker -> SUBSET Server]
    /\ quiet \in [Server -> [Tracker -> 0..MaxQuiet]]
    /\ events \in 0..MaxEvents
    /\ faults \in 0..MaxFaults

\* The TTL outlasts the timer and the calls at the trackers up to t.
LongEnough(t) == Ttl >= Period + t * CallTime

\* A running server that registered once stays listed at a tracker that
\* answers, however slow or dead the trackers before it in the list are,
\* provided the TTL covers a period of the timer and their timeouts.
StaysListed ==
    \A s \in Server, t \in Reliable :
        running[s] /\ s \in registered[t] /\ LongEnough(t)
            => \E r \in Listed(t) : r.peer = s

\* A registration that overtakes a newer one does no lasting harm: a period
\* and two rounds of calls after the last change, the tracker lists exactly
\* the addresses the server knows.
FreshWithin ==
    \A s \in Server, t \in Reliable :
        running[s] /\ known_addrs[s] # {} /\ LongEnough(t)
              /\ quiet[s][t] > Settled(t)
            => \E r \in Listed(t) : r.peer = s /\ r.addrs = known_addrs[s]

\* Crashed trackers, lost answers and late requests included, the table of
\* every tracker ends up with the addresses of every server that runs.
FreshAddrs ==
    \A s \in Server, t \in Tracker :
        LongEnough(t) =>
          <>[](running[s] /\ known_addrs[s] # {} =>
                 \E r \in Listed(t) : r.peer = s /\ r.addrs = known_addrs[s])

\* A server that stopped for good disappears from every list.
StoppedExpires ==
    \A s \in Server, t \in Tracker :
        <>[](~ running[s]) => <>[](\A r \in Listed(t) : r.peer # s)

\* In the end every tracker lists who runs, where it is, and nobody else.
ListsSettle == FreshAddrs /\ StoppedExpires
=============================================================================
