------------------------------ MODULE Dialing ------------------------------
(***************************************************************************)
(* P2pClient of src/p2p.rs below its pull and push: getting a connection   *)
(* to the peer (ensure_connected, dial_with_retries, dial_once) and the    *)
(* attempts of one request over it (pull_batch_with_retries and            *)
(* push_batch_with_retries, which differ in nothing that matters here).    *)
(* In PeerSync a request is sent and answered or not; here is what becomes *)
(* of it.                                                                  *)
(*                                                                         *)
(* The client drives the libp2p swarm itself: events are taken from it     *)
(* only while a dial or an answer is awaited, neither during a backoff nor *)
(* between two calls.  A connection that broke, or that the client is      *)
(* closing, is therefore still listed, and used, until its event is taken. *)
(* Of several connections the swarm picks one; there is at most one per    *)
(* path here.  A path is the peer's own addresses or a circuit through the *)
(* relay; on such a circuit DCUtR may punch a hole for a direct one.       *)
(***************************************************************************)
EXTENDS Naturals, FiniteSets

CONSTANTS
    RequestId,     \* request ids handed out by libp2p
    Attempts,      \* RequestRetryPolicy.attempts
    DIAL_ATTEMPTS, \* ATTEMPTS of dial_with_retries
    MaxFaults      \* bound: faults in one behaviour

ASSUME DialingAssumption ==
    /\ RequestId # {}
    /\ Attempts \in Nat \ {0}
    /\ DIAL_ATTEMPTS \in Nat \ {0}
    /\ MaxFaults \in Nat

Path == {"direct", "relay"}
\* A dial by the client, or one by DCUtR.
Dial == Path \cup {"dcutr"}

VARIABLES
    (* The world: the paths the client has addresses for, those that lead   *)
    (* to the peer, and whether it answers.                                 *)
    addrs, reachable, answering,
    (* P2pClient. *)
    step, path, dial_attempt, attempt, request_id, outcome,
    (* The swarm. *)
    connection, \* "none" if not listed; "lost" and "closing" ones still are
    dials,      \* dials under way
    requests,   \* requests neither answered nor failed
    (* History: dials of each path since a connection was last sought.      *)
    tried,
    (* Bound used up. *)
    faults

world == <<addrs, reachable, answering>>
clientVars == <<step, path, dial_attempt, attempt, request_id, outcome>>
swarmVars == <<connection, dials, requests>>
vars == <<world, clientVars, swarmVars, tried, faults>>

Request == [id : RequestId, path : Path,
            answer : {"none", "ok", "rejected"}]

Untried == [p \in Path |-> 0]

Fault == faults < MaxFaults /\ faults' = faults + 1
FaultUnless(cond) == (cond /\ UNCHANGED faults) \/ (~ cond /\ Fault)

\* Swarm::is_connected, by what it lists.
Listed(conn) == {p \in Path : conn[p] # "none"}
is_connected == Listed(connection) # {}

-----------------------------------------------------------------------------
(* What the steps of the client end with.                                  *)

\* send_request: the swarm picks one of the connections conn.
Send(conn) ==
    LET id == CHOOSE i \in RequestId : \A r \in requests : r.id # i
    IN  /\ \E i \in RequestId : \A r \in requests : r.id # i
        /\ \E p \in Listed(conn) :
             requests' = requests \cup
                           {[id |-> id, path |-> p, answer |-> "none"]}
        /\ connection' = conn
        /\ request_id' = id
        /\ step' = "waiting"
        /\ path' = "direct"
        /\ dial_attempt' = 0
        /\ tried' = Untried
        /\ UNCHANGED outcome

\* Back to the pull or push loop.
Return(how) ==
    /\ step' = "idle"
    /\ outcome' = how
    /\ path' = "direct"
    /\ dial_attempt' = 0
    /\ attempt' = 0
    /\ tried' = Untried
    /\ UNCHANGED request_id

\* The n-th dial of path p, others being under way and before counted.
dial_once(p, n, others, before) ==
    /\ step' = "dialing"
    /\ path' = p
    /\ dial_attempt' = n
    /\ dials' = others \cup {p}
    /\ tried' = [before EXCEPT ![p] = @ + 1]
    /\ UNCHANGED <<request_id, outcome, connection, requests>>

\* Mutant of FirstPath: the relay first.
FirstPath_RelayFirst == IF "relay" \in addrs THEN "relay" ELSE "direct"

FirstPath == IF "direct" \in addrs THEN "direct" ELSE "relay"

\* For the n-th attempt of the request.
ensure_connected(n) ==
    \/ /\ is_connected
       /\ Send(connection)
       /\ attempt' = n
       /\ UNCHANGED dials
    \/ /\ ~ is_connected
       /\ addrs # {}
       /\ dial_once(FirstPath, 0, dials, Untried)
       /\ attempt' = n
    \/ /\ ~ is_connected
       /\ addrs = {}
       /\ Return("error")
       /\ UNCHANGED swarmVars

\* Mutant of dial_failed: a failed dial of the peer's addresses is final.
dial_failed_NoRelay(others) ==
    \/ /\ dial_attempt + 1 < DIAL_ATTEMPTS
       /\ step' = "dial_backoff"
       /\ dials' = others
       /\ UNCHANGED <<path, dial_attempt, attempt, request_id, outcome, tried,
                      connection, requests>>
    \/ /\ dial_attempt + 1 >= DIAL_ATTEMPTS
       /\ Return("error")
       /\ dials' = others
       /\ UNCHANGED <<connection, requests>>

\* Again after a backoff, or through the relay, or no further.
dial_failed(others) ==
    \/ /\ dial_attempt + 1 < DIAL_ATTEMPTS
       /\ step' = "dial_backoff"
       /\ dials' = others
       /\ UNCHANGED <<path, dial_attempt, attempt, request_id, outcome, tried,
                      connection, requests>>
    \/ /\ dial_attempt + 1 >= DIAL_ATTEMPTS
       /\ path = "direct" /\ "relay" \in addrs
       /\ dial_once("relay", 0, others, tried)
       /\ UNCHANGED attempt
    \/ /\ dial_attempt + 1 >= DIAL_ATTEMPTS
       /\ ~ (path = "direct" /\ "relay" \in addrs)
       /\ Return("error")
       /\ dials' = others
       /\ UNCHANGED <<connection, requests>>

\* Mutant of disconnect_peer_id: nothing is closed.
disconnect_peer_id_Never(conn) == conn

\* Connections are closed, but listed until the event is taken.
disconnect_peer_id(conn) ==
    [p \in Path |-> IF conn[p] = "none" THEN "none" ELSE "closing"]

\* Mutant of request_failed: one attempt too many.
request_failed_OffByOne(conn) ==
    \/ /\ attempt < Attempts
       /\ connection' = disconnect_peer_id(conn)
       /\ dials' = {}
       /\ step' = "backoff"
       /\ attempt' = attempt + 1
       /\ UNCHANGED <<path, dial_attempt, request_id, outcome, tried>>
    \/ /\ attempt >= Attempts
       /\ connection' = conn
       /\ UNCHANGED dials
       /\ Return("error")

\* A retryable error: disconnect and back off, or the last attempt failed,
\* which leaves the connections as they are.
request_failed(conn) ==
    \/ /\ attempt + 1 < Attempts
       /\ connection' = disconnect_peer_id(conn)
       /\ dials' = {}
       /\ step' = "backoff"
       /\ attempt' = attempt + 1
       /\ UNCHANGED <<path, dial_attempt, request_id, outcome, tried>>
    \/ /\ attempt + 1 >= Attempts
       /\ connection' = conn
       /\ UNCHANGED dials
       /\ Return("error")

-----------------------------------------------------------------------------
(* The client.                                                             *)

Current == {r \in requests : r.id = request_id}

Call ==
    /\ step = "idle"
    /\ ensure_connected(0)
    /\ UNCHANGED <<world, faults>>

\* After the backoff of dial_with_retries.  dial_once looks at is_connected
\* again, which has not changed (NoDialRefused in DialingProofs).
Redial ==
    /\ step = "dial_backoff"
    /\ dial_once(path, dial_attempt + 1, dials, tried)
    /\ UNCHANGED <<world, attempt, faults>>

Retry ==
    /\ step = "backoff"
    /\ ensure_connected(attempt)
    /\ UNCHANGED <<world, faults>>

TakesEvents == step \in {"dialing", "waiting"}

\* ConnectionEstablished ends the wait for any dial of the peer.
Connected(d) ==
    LET p == IF d = "dcutr" THEN "direct" ELSE d
        conn == [connection EXCEPT ![p] = "open"]
    IN  /\ TakesEvents
        /\ d \in dials
        /\ d \in reachable \cup {"dcutr"}
        /\ connection[p] = "none"
        /\ dials' = dials \ {d}
        /\ \/ step = "dialing" /\ Send(conn) /\ UNCHANGED attempt
           \/ /\ step = "waiting"
              /\ connection' = conn
              /\ UNCHANGED <<clientVars, requests, tried>>
        /\ UNCHANGED <<world, faults>>

\* OutgoingConnectionError of the dial awaited.
DialError ==
    /\ step = "dialing"
    /\ path \in dials
    /\ FaultUnless(path \notin reachable)
    /\ dial_failed(dials \ {path})
    /\ UNCHANGED world

DialTimeout ==
    /\ step = "dialing"
    /\ FaultUnless(path \notin reachable)
    /\ dial_failed({})
    /\ UNCHANGED world

\* Of any other dial.
OtherDialError(d) ==
    /\ TakesEvents
    /\ d \in dials
    /\ ~ (step = "dialing" /\ d = path)
    /\ dials' = dials \ {d}
    /\ UNCHANGED <<world, clientVars, connection, requests, tried, faults>>

\* The answer to the current request: what was asked for, or a refusal that
\* is not retried (too large, no ack, unsupported protocol).
Answered(r) ==
    /\ step = "waiting"
    /\ r \in Current
    /\ r.answer # "none"
    /\ requests' = requests \ {r}
    /\ Return(r.answer)
    /\ UNCHANGED <<world, connection, dials, faults>>

\* An answer to a request given up, or its failure.
LateAnswer(r) ==
    /\ step = "waiting"
    /\ r \in requests \ Current
    /\ requests' = requests \ {r}
    /\ UNCHANGED <<world, clientVars, connection, dials, tried, faults>>

\* ConnectionClosed, and OutboundFailure for the requests on it.
ClosedNoticed(p) ==
    LET conn == [connection EXCEPT ![p] = "none"]
    IN  /\ step = "waiting"
        /\ connection[p] \in {"lost", "closing"}
        /\ requests' = {r \in requests : r.path # p}
        /\ \/ /\ \E r \in Current : r.path = p
              /\ request_failed(conn)
           \/ /\ ~ \E r \in Current : r.path = p
              /\ connection' = conn
              /\ UNCHANGED <<clientVars, dials, tried>>
        /\ UNCHANGED <<world, faults>>

\* OutboundFailure on a connection that stays: Io or Timeout.
RequestError ==
    /\ step = "waiting"
    /\ Fault
    /\ requests' = requests \ Current
    /\ request_failed(connection)
    /\ UNCHANGED world

\* Mutant of Deadline: the timer starts anew.
Deadline_Restarted == step = "waiting" /\ UNCHANGED vars

\* The deadline passes on a connection that lost its peer, or the peer does
\* not answer at all; otherwise it is a fault.  The request stays.
Deadline ==
    /\ step = "waiting"
    /\ FaultUnless(\E r \in Current :
         \/ connection[r.path] = "lost"
         \/ connection[r.path] = "open" /\ ~ answering)
    /\ UNCHANGED requests
    /\ request_failed(connection)
    /\ UNCHANGED world

-----------------------------------------------------------------------------
(* The network and the peer.                                               *)

Serve(r, how) ==
    /\ answering
    /\ r \in requests
    /\ r.answer = "none"
    /\ connection[r.path] = "open"
    /\ requests' = (requests \ {r}) \cup {[r EXCEPT !.answer = how]}
    /\ UNCHANGED <<world, clientVars, connection, dials, tried, faults>>

PunchHole ==
    /\ step = "waiting"
    /\ connection["relay"] = "open"
    /\ connection["direct"] = "none"
    /\ dials' = dials \cup {"dcutr"}
    /\ UNCHANGED <<world, clientVars, connection, requests, tried, faults>>

Lost(p) ==
    /\ connection[p] = "open"
    /\ Fault
    /\ connection' = [connection EXCEPT ![p] = "lost"]
    /\ UNCHANGED <<world, clientVars, dials, requests, tried>>

-----------------------------------------------------------------------------
Init ==
    /\ addrs \in SUBSET Path
    /\ reachable \in SUBSET Path
    /\ answering \in BOOLEAN
    /\ step = "idle"
    /\ path = "direct"
    /\ dial_attempt = 0
    /\ attempt = 0
    /\ request_id = CHOOSE i \in RequestId : TRUE
    /\ outcome = "none"
    /\ connection = [p \in Path |-> "none"]
    /\ dials = {}
    /\ requests = {}
    /\ tried = Untried
    /\ faults = 0

Dialed == (\E d \in Dial : Connected(d)) \/ DialError \/ DialTimeout

Waited ==
    \/ \E r \in requests : Answered(r) \/ LateAnswer(r)
    \/ \E p \in Path : ClosedNoticed(p)
    \/ Deadline

Served == \E r \in requests : \E how \in {"ok", "rejected"} : Serve(r, how)

Network ==
    \/ \E d \in Dial : OtherDialError(d)
    \/ RequestError
    \/ PunchHole
    \/ \E p \in Path : Lost(p)

Next == Call \/ Redial \/ Retry \/ Dialed \/ Waited \/ Served \/ Network

Spec == Init /\ [][Next]_vars

\* Every wait has a timer, closed connections are reported, and a peer that
\* answers does so.
FairSpec ==
    /\ Spec
    /\ WF_vars(Redial) /\ WF_vars(Retry)
    /\ WF_vars(Dialed) /\ WF_vars(Waited)
    /\ WF_vars(Served)

-----------------------------------------------------------------------------
(* Properties.                                                             *)

TypeOK ==
    /\ addrs \subseteq Path
    /\ reachable \subseteq Path
    /\ answering \in BOOLEAN
    /\ step \in {"idle", "dialing", "dial_backoff", "waiting", "backoff"}
    /\ path \in Path
    /\ dial_attempt \in 0..(DIAL_ATTEMPTS - 1)
    /\ attempt \in 0..(Attempts - 1)
    /\ request_id \in RequestId
    /\ outcome \in {"none", "ok", "rejected", "error"}
    /\ connection \in [Path -> {"none", "open", "lost", "closing"}]
    /\ dials \subseteq Dial
    /\ requests \subseteq Request
    /\ tried \in [Path -> 0..DIAL_ATTEMPTS]
    /\ faults \in 0..MaxFaults

Dialling == step \in {"dialing", "dial_backoff"}

\* The relay is dialled only after every dial of the peer's own addresses, if
\* it has any, failed (docs/p2p.md:68); and a call fails for want of a
\* connection only when every path it has addresses for was dialled as often.
PathsInOrder ==
    [][/\ path # "relay" /\ path' = "relay" /\ "direct" \in addrs
            => tried["direct"] = DIAL_ATTEMPTS
       /\ Dialling /\ step' = "idle"
            => \A p \in addrs : tried[p] = DIAL_ATTEMPTS]_vars

\* What one fault can cost: the attempt it hits, and one on each connection
\* that is being closed and still listed.  A call to a peer that answers and
\* can be reached fails only if there were faults for all its attempts, or
\* for all dials of a path.
FaultsTolerated ==
    outcome = "error" /\ answering /\ addrs \cap reachable # {}
      => \/ faults >= DIAL_ATTEMPTS
         \/ faults * (1 + Cardinality(Path)) >= Attempts

\* Whatever the network and the peer do, a call returns.
CallEnds == step # "idle" ~> step = "idle"
=============================================================================
