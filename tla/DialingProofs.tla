--------------------------- MODULE DialingProofs ---------------------------
(***************************************************************************)
(* What Dialing promises for every number of attempts and of dials: types, *)
(* that nothing is connected while the client dials, and that every path   *)
(* is dialled as often as it may be, the relay last.  The history variable *)
(* tried is tied to the loop variable of dial_with_retries by DialInv.     *)
(***************************************************************************)
EXTENDS Dialing, Integers, FiniteSetTheorems, TLAPS

\* Nothing is listed while the client dials: PeerCondition::Disconnected
\* never refuses a dial, which would cost one of its attempts.
DialsWhenDisconnected == Dialling => Listed(connection) = {}

\* On the relay, the direct dials are used up.
DirectFirst ==
    Dialling /\ path = "relay" /\ "direct" \in addrs
      => tried["direct"] = DIAL_ATTEMPTS

TriedInv ==
    Dialling => /\ path \in addrs
                /\ tried[path] = dial_attempt + 1
                /\ path = "direct" => tried["relay"] = 0
                /\ step = "dial_backoff" => dial_attempt + 1 < DIAL_ATTEMPTS

DialInv == TypeOK /\ DialsWhenDisconnected /\ TriedInv /\ DirectFirst

-----------------------------------------------------------------------------
(* The steps of the client on types.                                       *)

\* The id taken is one of RequestId.
LEMMA SendTypes ==
    ASSUME TypeOK, NEW conn \in [Path -> {"none", "open", "lost", "closing"}],
           Send(conn)
    PROVE  /\ step' = "waiting"
           /\ path' = "direct"
           /\ dial_attempt' = 0
           /\ request_id' \in RequestId
           /\ outcome' = outcome
           /\ connection' = conn
           /\ requests' \subseteq Request
           /\ tried' = Untried
<1>1. PICK i \in RequestId : \A r \in requests : r.id # i
  BY DEF Send
<1> DEFINE id == CHOOSE j \in RequestId : \A r \in requests : r.id # j
<1>2. id \in RequestId
  BY <1>1
<1>3. PICK p \in Listed(conn) :
        requests' = requests \cup {[id |-> id, path |-> p, answer |-> "none"]}
  BY DEF Send
<1>4. p \in Path
  BY <1>3 DEF Listed
<1>5. [id |-> id, path |-> p, answer |-> "none"] \in Request
  BY <1>2, <1>4 DEF Request
<1>6. requests' \subseteq Request
  BY <1>3, <1>5 DEF TypeOK
<1>7. request_id' = id
  BY DEF Send
<1> QED
  BY <1>2, <1>6, <1>7 DEF Send

\* Connections and dials after disconnect_peer_id.
LEMMA DisconnectTypes ==
    ASSUME NEW conn
    PROVE  disconnect_peer_id(conn) \in
             [Path -> {"none", "open", "lost", "closing"}]
  BY DEF disconnect_peer_id

LEMMA UntriedTypes == Untried \in [Path -> 0..DIAL_ATTEMPTS]
  BY DialingAssumption DEF Untried

\* A step that leaves the client not dialling keeps what is said of dialling.
LEMMA NotDialling ==
    ASSUME TypeOK', ~ Dialling'
    PROVE  DialInv'
  BY DEF DialInv, DialsWhenDisconnected, TriedInv, DirectFirst

\* So does one that changes nothing of the dial.
LEMMA SameDial ==
    ASSUME DialInv, TypeOK',
           UNCHANGED <<addrs, step, path, dial_attempt, connection, tried>>
    PROVE  DialInv'
  BY DEF DialInv, DialsWhenDisconnected, TriedInv, DirectFirst, Dialling,
         Listed

-----------------------------------------------------------------------------
(* The operators the actions end with.                                     *)

\* Of a dial that failed, whatever other dials are left.
LEMMA DialFailed ==
    ASSUME DialInv, step = "dialing", UNCHANGED world, faults' \in 0..MaxFaults,
           NEW others \in SUBSET dials, dial_failed(others)
    PROVE  DialInv'
<1> USE DialingAssumption
<1>0. TypeOK /\ Dialling /\ others \subseteq Dial
  BY DEF DialInv, TypeOK, Dialling
<1>1. CASE dial_attempt + 1 < DIAL_ATTEMPTS
  <2>1. /\ step' = "dial_backoff" /\ dials' = others
        /\ UNCHANGED <<path, dial_attempt, attempt, request_id, outcome,
                       tried, connection, requests>>
    BY <1>0, <1>1 DEF dial_failed, TypeOK
  <2>2. TypeOK'
    BY <1>0, <2>1 DEF TypeOK, world
  <2> QED
    BY <1>0, <1>1, <2>1, <2>2 DEF DialInv, DialsWhenDisconnected, TriedInv,
       DirectFirst, Dialling, Listed, world
<1>2. CASE /\ dial_attempt + 1 >= DIAL_ATTEMPTS
           /\ path = "direct" /\ "relay" \in addrs
  <2>1. /\ dial_once("relay", 0, others, tried) /\ attempt' = attempt
    BY <1>0, <1>2 DEF dial_failed, TypeOK
  <2>2. tried["direct"] = DIAL_ATTEMPTS /\ tried["relay"] = 0
    BY <1>0, <1>2 DEF DialInv, TriedInv, TypeOK
  <2>3. /\ tried' \in [Path -> 0..DIAL_ATTEMPTS]
        /\ tried'["direct"] = DIAL_ATTEMPTS /\ tried'["relay"] = 1
    BY <1>0, <2>1, <2>2 DEF dial_once, TypeOK, Path
  <2>4. TypeOK'
    BY <1>0, <2>1, <2>3 DEF TypeOK, dial_once, world, Path, Dial
  <2> QED
    BY <1>0, <1>2, <2>1, <2>3, <2>4 DEF DialInv, DialsWhenDisconnected,
       TriedInv, DirectFirst, Dialling, Listed, dial_once, world
<1>3. CASE /\ dial_attempt + 1 >= DIAL_ATTEMPTS
           /\ ~ (path = "direct" /\ "relay" \in addrs)
  <2>1. Return("error") /\ dials' = others /\ UNCHANGED <<connection, requests>>
    BY <1>0, <1>3 DEF dial_failed, TypeOK
  <2>2. TypeOK'
    BY <1>0, <2>1, UntriedTypes DEF TypeOK, Return, world, Path
  <2> QED
    BY <2>1, <2>2, NotDialling DEF Return, Dialling
<1> QED
  BY <1>0, <1>1, <1>2, <1>3 DEF TypeOK

\* Of an attempt of the request that failed.
LEMMA RequestFailed ==
    ASSUME TypeOK, UNCHANGED world, faults' \in 0..MaxFaults,
           requests' \subseteq Request,
           NEW conn \in [Path -> {"none", "open", "lost", "closing"}],
           step = "waiting", request_failed(conn)
    PROVE  DialInv'
<1> USE DialingAssumption
<1>1. CASE attempt + 1 < Attempts
  <2>1. /\ connection' = disconnect_peer_id(conn)
        /\ dials' = {} /\ step' = "backoff" /\ attempt' = attempt + 1
        /\ UNCHANGED <<path, dial_attempt, request_id, outcome, tried>>
    BY <1>1 DEF request_failed, TypeOK
  <2>2. TypeOK'
    BY <1>1, <2>1, DisconnectTypes DEF TypeOK, world
  <2> QED
    BY <2>1, <2>2, NotDialling DEF Dialling
<1>2. CASE attempt + 1 >= Attempts
  <2>1. connection' = conn /\ dials' = dials /\ Return("error")
    BY <1>2 DEF request_failed, TypeOK
  <2>2. TypeOK'
    BY <2>1, UntriedTypes DEF TypeOK, Return, world, Path
  <2> QED
    BY <2>1, <2>2, NotDialling DEF Return, Dialling
<1> QED
  BY <1>1, <1>2 DEF TypeOK

\* Of a call, or a retry, that looks for a connection.
LEMMA EnsureConnected ==
    ASSUME DialInv, UNCHANGED <<world, faults>>,
           NEW n \in 0..(Attempts - 1), ensure_connected(n)
    PROVE  DialInv'
<1> USE DialingAssumption
<1>0. TypeOK
  BY DEF DialInv
<1>1. CASE is_connected /\ Send(connection) /\ attempt' = n /\ UNCHANGED dials
  <2>1. connection \in [Path -> {"none", "open", "lost", "closing"}]
    BY <1>0 DEF TypeOK
  <2>2. TypeOK'
    BY <1>0, <1>1, <2>1, SendTypes, UntriedTypes DEF TypeOK, world, Path
  <2>3. step' = "waiting"
    BY <1>1 DEF Send
  <2> QED
    BY <2>2, <2>3, NotDialling DEF Dialling
<1>2. CASE /\ ~ is_connected /\ addrs # {}
           /\ dial_once(FirstPath, 0, dials, Untried) /\ attempt' = n
  <2>1. FirstPath \in addrs /\ FirstPath \in Path
    BY <1>0, <1>2 DEF FirstPath, TypeOK, Path
  <2>2. FirstPath = "relay" => "direct" \notin addrs
    BY DEF FirstPath
  <2>3. /\ tried' \in [Path -> 0..DIAL_ATTEMPTS]
        /\ tried'[FirstPath] = 1
        /\ FirstPath = "direct" => tried'["relay"] = 0
    BY <1>2, <2>1 DEF dial_once, Untried, Path
  <2>4. TypeOK'
    BY <1>0, <1>2, <2>1, <2>3 DEF TypeOK, dial_once, world, Dial
  <2> QED
    BY <1>0, <1>2, <2>1, <2>2, <2>3, <2>4 DEF DialInv, DialsWhenDisconnected,
       TriedInv, DirectFirst, dial_once, world, is_connected, Listed
<1>3. CASE ~ is_connected /\ addrs = {} /\ Return("error") /\ UNCHANGED swarmVars
  <2>1. TypeOK'
    BY <1>0, <1>3, UntriedTypes DEF TypeOK, Return, swarmVars, world, Path
  <2> QED
    BY <1>3, <2>1, NotDialling DEF Return, Dialling
<1> QED
  BY <1>1, <1>2, <1>3 DEF ensure_connected

-----------------------------------------------------------------------------
(* Every step.                                                             *)

LEMMA FaultTypes ==
    ASSUME TypeOK, NEW cond, Fault \/ UNCHANGED faults \/ FaultUnless(cond)
    PROVE  faults' \in 0..MaxFaults
  BY DialingAssumption DEF TypeOK, Fault, FaultUnless

LEMMA InitInv == Init => DialInv
<1> SUFFICES ASSUME Init PROVE DialInv
  OBVIOUS
<1>1. TypeOK
  BY DialingAssumption, UntriedTypes
  DEF Init, TypeOK, Path, Dial, Request
<1> QED
  BY <1>1 DEF Init, DialInv, DialsWhenDisconnected, TriedInv, DirectFirst,
     Dialling

LEMMA StepInv == DialInv /\ [Next]_vars => DialInv'
<1> SUFFICES ASSUME DialInv, [Next]_vars PROVE DialInv'
  OBVIOUS
<1> USE DialingAssumption
<1>0. TypeOK
  BY DEF DialInv
<1>1. CASE Call
  BY <1>1, EnsureConnected DEF Call
<1>2. CASE Redial
  <2>1. /\ step = "dial_backoff" /\ UNCHANGED <<world, attempt, faults>>
        /\ dial_once(path, dial_attempt + 1, dials, tried)
    BY <1>2 DEF Redial
  <2>2. /\ dial_attempt + 1 < DIAL_ATTEMPTS
        /\ path \in addrs /\ tried[path] = dial_attempt + 1
        /\ path = "direct" => tried["relay"] = 0
    BY <2>1 DEF DialInv, TriedInv, Dialling
  <2>3. /\ tried' \in [Path -> 0..DIAL_ATTEMPTS]
        /\ tried'[path] = dial_attempt + 2
        /\ path = "direct" => tried'["relay"] = 0
        /\ path = "relay" => tried'["direct"] = tried["direct"]
    BY <1>0, <2>1, <2>2 DEF dial_once, TypeOK, Path
  <2>4. TypeOK'
    BY <1>0, <2>1, <2>2, <2>3 DEF TypeOK, dial_once, world, Dial
  <2> QED
    BY <1>0, <2>1, <2>2, <2>3, <2>4 DEF DialInv, DialsWhenDisconnected,
       TriedInv, DirectFirst, Dialling, Listed, dial_once, world, TypeOK
<1>3. CASE Retry
  BY <1>0, <1>3, EnsureConnected DEF Retry, TypeOK
<1>4. ASSUME NEW d \in Dial, Connected(d) PROVE DialInv'
  <2> DEFINE p == IF d = "dcutr" THEN "direct" ELSE d
             conn == [connection EXCEPT ![p] = "open"]
  <2>1. p \in Path /\ conn \in [Path -> {"none", "open", "lost", "closing"}]
    BY <1>0 DEF Dial, Path, TypeOK
  <2>2. dials' \subseteq Dial /\ UNCHANGED <<world, faults>>
    BY <1>0, <1>4 DEF Connected, TypeOK
  <2>3. CASE step = "dialing" /\ Send(conn) /\ UNCHANGED attempt
    <3> HIDE DEF conn
    <3>0. /\ step' = "waiting" /\ path' = "direct" /\ dial_attempt' = 0
          /\ request_id' \in RequestId /\ outcome' = outcome
          /\ connection' = conn /\ requests' \subseteq Request
          /\ tried' = Untried
      BY <1>0, <2>1, <2>3, SendTypes
    <3>1. TypeOK'
      BY <1>0, <2>1, <2>2, <2>3, <3>0, UntriedTypes DEF TypeOK, world, Path
    <3>2. step' = "waiting"
      BY <2>3 DEF Send
    <3> QED
      BY <3>1, <3>2, NotDialling DEF Dialling
  <2>4. CASE /\ step = "waiting" /\ connection' = conn
             /\ UNCHANGED <<clientVars, requests, tried>>
    <3>1. TypeOK'
      BY <1>0, <2>1, <2>2, <2>4 DEF TypeOK, world, clientVars
    <3> QED
      BY <2>4, <3>1, NotDialling DEF clientVars, Dialling
  <2> QED
    BY <1>4, <2>3, <2>4 DEF Connected
<1>5. CASE DialError
  <2>1. faults' \in 0..MaxFaults
    BY <1>0, <1>5, FaultTypes DEF DialError
  <2> QED
    BY <1>5, <2>1, DialFailed DEF DialError
<1>6. CASE DialTimeout
  <2>1. faults' \in 0..MaxFaults
    BY <1>0, <1>6, FaultTypes DEF DialTimeout
  <2> QED
    BY <1>6, <2>1, DialFailed DEF DialTimeout
<1>7. ASSUME NEW r \in requests, Answered(r) PROVE DialInv'
  <2>1. r.answer \in {"ok", "rejected"}
    BY <1>0, <1>7 DEF Answered, TypeOK, Request
  <2>2. TypeOK'
    BY <1>0, <1>7, <2>1, UntriedTypes DEF Answered, Return, TypeOK, world, Path
  <2> QED
    BY <1>7, <2>2, NotDialling DEF Answered, Return, Dialling
<1>8. ASSUME NEW r \in requests, LateAnswer(r) PROVE DialInv'
  <2>1. TypeOK'
    BY <1>0, <1>8 DEF LateAnswer, TypeOK, world, clientVars
  <2> QED
    BY <1>8, <2>1, NotDialling DEF LateAnswer, Dialling, clientVars
<1>9. ASSUME NEW p \in Path, ClosedNoticed(p) PROVE DialInv'
  <2> DEFINE conn == [connection EXCEPT ![p] = "none"]
  <2>1. conn \in [Path -> {"none", "open", "lost", "closing"}]
    BY <1>0 DEF TypeOK
  <2>2. /\ requests' \subseteq Request /\ step = "waiting"
        /\ UNCHANGED <<world, faults>> /\ faults' \in 0..MaxFaults
    BY <1>0, <1>9 DEF ClosedNoticed, TypeOK
  <2>3. CASE request_failed(conn)
    BY <1>0, <2>1, <2>2, <2>3, RequestFailed
  <2>4. CASE connection' = conn /\ UNCHANGED <<clientVars, dials, tried>>
    <3>1. TypeOK'
      BY <1>0, <2>1, <2>2, <2>4 DEF TypeOK, world, clientVars
    <3> QED
      BY <2>2, <2>4, <3>1, NotDialling DEF clientVars, Dialling
  <2> QED
    BY <1>9, <2>3, <2>4 DEF ClosedNoticed
<1>10. CASE RequestError
  <2>1. /\ faults' \in 0..MaxFaults /\ requests' \subseteq Request
        /\ connection \in [Path -> {"none", "open", "lost", "closing"}]
    BY <1>0, <1>10, FaultTypes DEF RequestError, TypeOK
  <2> QED
    BY <1>0, <1>10, <2>1, RequestFailed DEF RequestError
<1>11. CASE Deadline
  <2>1. /\ faults' \in 0..MaxFaults /\ requests' \subseteq Request
        /\ connection \in [Path -> {"none", "open", "lost", "closing"}]
    BY <1>0, <1>11, FaultTypes DEF Deadline, TypeOK
  <2> QED
    BY <1>0, <1>11, <2>1, RequestFailed DEF Deadline
<1>12. ASSUME NEW r \in requests, NEW how \in {"ok", "rejected"},
              Serve(r, how)
       PROVE  DialInv'
  <2>1. [r EXCEPT !.answer = how] \in Request
    BY <1>0 DEF TypeOK, Request
  <2>2. TypeOK'
    BY <1>0, <1>12, <2>1 DEF Serve, TypeOK, world, clientVars
  <2> QED
    BY <1>12, <2>2, SameDial DEF Serve, world, clientVars
<1>13. ASSUME NEW d \in Dial, OtherDialError(d) PROVE DialInv'
  <2>1. TypeOK'
    BY <1>0, <1>13 DEF OtherDialError, TypeOK, world, clientVars
  <2> QED
    BY <1>13, <2>1, SameDial DEF OtherDialError, world, clientVars
<1>14. CASE PunchHole
  <2>1. TypeOK'
    BY <1>0, <1>14 DEF PunchHole, TypeOK, world, clientVars, Dial
  <2> QED
    BY <1>14, <2>1, SameDial DEF PunchHole, world, clientVars
<1>15. ASSUME NEW p \in Path, Lost(p) PROVE DialInv'
  <2>1. faults' \in 0..MaxFaults
    BY <1>0, <1>15, FaultTypes DEF Lost
  <2>2. TypeOK'
    BY <1>0, <1>15, <2>1 DEF Lost, TypeOK, world, clientVars
  <2>3. ~ Dialling
    BY <1>15 DEF Lost, DialInv, DialsWhenDisconnected, Listed
  <2> QED
    BY <1>15, <2>2, <2>3, NotDialling DEF Lost, clientVars, Dialling
<1>16. CASE UNCHANGED vars
  <2>1. TypeOK'
    BY <1>0, <1>16 DEF TypeOK, vars, world, clientVars, swarmVars
  <2> QED
    BY <1>16, <2>1, SameDial DEF vars, world, clientVars, swarmVars
<1> QED
  BY <1>1, <1>2, <1>3, <1>4, <1>5, <1>6, <1>7, <1>8, <1>9, <1>10, <1>11,
     <1>12, <1>13, <1>14, <1>15, <1>16
  DEF Next, Dialed, Waited, Served, Network

LEMMA DialInvAlways == Spec => []DialInv
  BY InitInv, StepInv, PTL DEF Spec

-----------------------------------------------------------------------------
\* Every variable keeps its type; in particular no call makes more attempts
\* than the policy allows and no path is dialled more than DIAL_ATTEMPTS times.
THEOREM DialingTypes == Spec => []TypeOK
<1>1. DialInv => TypeOK
  BY DEF DialInv
<1> QED
  BY <1>1, DialInvAlways, PTL

\* The client dials only while the swarm lists no connection, so that no dial
\* is refused by PeerCondition::Disconnected (dial_once).
THEOREM NoDialRefused == Spec => []DialsWhenDisconnected
<1>1. DialInv => DialsWhenDisconnected
  BY DEF DialInv
<1> QED
  BY <1>1, DialInvAlways, PTL

\* The relay comes after all direct dials, and a call fails for want of a
\* connection only after all dials of all paths it has addresses for
\* (ensure_connected, dial_with_retries).
THEOREM AllPathsTried == Spec => PathsInOrder
<1>1. ASSUME DialInv, Next, Dialling, step' = "idle"
      PROVE  \A p \in addrs : tried[p] = DIAL_ATTEMPTS
  <2>0. TypeOK
    BY <1>1 DEF DialInv
  <2>1. \E others : dial_failed(others)
    BY <1>1 DEF Next, Dialling, Call, Redial, Retry, dial_once, Dialed,
       Connected, Send, DialError, DialTimeout, Waited, Answered, LateAnswer,
       ClosedNoticed, Deadline, Served, Serve, Network, OtherDialError,
       RequestError, PunchHole, Lost, clientVars
  <2>2. /\ dial_attempt + 1 >= DIAL_ATTEMPTS
        /\ ~ (path = "direct" /\ "relay" \in addrs)
    BY <1>1, <2>1 DEF dial_failed, dial_once
  <2>3. tried[path] = DIAL_ATTEMPTS
    BY <1>1, <2>0, <2>2, DialingAssumption DEF DialInv, TriedInv, TypeOK
  <2> QED
    BY <1>1, <2>0, <2>2, <2>3 DEF DialInv, DirectFirst, TypeOK, Path
<1>2. ASSUME DialInv, Next, path # "relay", path' = "relay",
             "direct" \in addrs
      PROVE  tried["direct"] = DIAL_ATTEMPTS
  <2>1. \E others : dial_failed(others)
    <3>1. ~ \E n : ensure_connected(n)
      BY <1>2 DEF ensure_connected, Send, dial_once, FirstPath, Return
    <3>2. ~ Redial /\ ~ \E conn : Send(conn)
      BY <1>2 DEF Redial, dial_once, Send
    <3>3. ~ (\E conn : request_failed(conn)) /\ ~ \E how : Return(how)
      BY <1>2 DEF request_failed, Return
    <3> QED
      BY <1>2, <3>1, <3>2, <3>3 DEF Next, Call, Retry, Dialed, Connected,
         DialError, DialTimeout, Waited, Answered, LateAnswer, ClosedNoticed,
         Deadline, Served, Serve, Network, OtherDialError, RequestError,
         PunchHole, Lost, clientVars
  <2>2. PICK others : dial_failed(others)
    BY <2>1
  <2>3. step = "dialing"
    BY <1>2, <2>1 DEF Next, Call, Redial, Retry, ensure_connected, Send,
       dial_once, FirstPath, Return, Dialed, Connected, DialError,
       DialTimeout, Waited, Answered, LateAnswer, ClosedNoticed, Deadline,
       request_failed, Served, Serve, Network, OtherDialError, RequestError,
       PunchHole, Lost, clientVars
  <2>4. dial_attempt + 1 >= DIAL_ATTEMPTS /\ path = "direct"
    BY <1>2, <2>2 DEF dial_failed, Return
  <2> QED
    BY <1>2, <2>3, <2>4, DialingAssumption DEF DialInv, TriedInv, TypeOK,
       Dialling
<1>3. ASSUME DialInv, [Next]_vars
      PROVE  [/\ path # "relay" /\ path' = "relay" /\ "direct" \in addrs
                   => tried["direct"] = DIAL_ATTEMPTS
              /\ Dialling /\ step' = "idle"
                   => \A p \in addrs : tried[p] = DIAL_ATTEMPTS]_vars
  BY <1>1, <1>2, <1>3
<1> QED
  BY <1>3, DialInvAlways, PTL DEF Spec, PathsInOrder
-----------------------------------------------------------------------------
(* What a fault costs.  Attempts fail for nothing only over connections     *)
(* that are listed although they are lost or being closed, and each of      *)
(* these was paid for by the fault before it.                               *)

\* disconnect_peer_id closes all connections and ends all dials, so nothing
\* else is listed beside one that is being closed.
ClosingAlone ==
    (\E p \in Path : connection[p] = "closing")
      => /\ dials = {}
         /\ \A p \in Path : connection[p] \in {"none", "closing"}

\* The attempts that faults pay for.
Paying == 3 * faults

\* Every fault pays for three failed attempts: those made, the one that will
\* fail on each connection being closed, and on a lost one the one it fails
\* and those on the two connections that this will close.
PaidFor ==
    /\ attempt <= Paying
    /\ (\E p \in Path : connection[p] = "closing")
         => attempt + 1 <= Paying
    /\ (\A p \in Path : connection[p] = "closing")
         => attempt + 2 <= Paying
    /\ (\E p \in Path : connection[p] = "lost")
         => attempt + 3 <= Paying

Paid == answering => PaidFor

\* Every dial of a path that leads to the peer failed by a fault, or is still
\* awaited.
DialsPaid ==
    Dialling => \A p \in addrs \cap reachable :
      \/ tried[p] <= faults
      \/ step = "dialing" /\ path = p /\ tried[p] <= faults + 1

CostInv == DialInv /\ ClosingAlone /\ Paid /\ DialsPaid /\ FaultsTolerated

LEMMA PathCardinality == Cardinality(Path) = 2
<1>1. IsFiniteSet({"direct"}) /\ Cardinality({"direct"}) = 1
  BY FS_Singleton
<1>2. Cardinality({"direct"} \cup {"relay"}) = Cardinality({"direct"}) + 1
  BY <1>1, FS_AddElement
<1>3. {"direct"} \cup {"relay"} = Path
  BY DEF Path
<1> QED
  BY <1>1, <1>2, <1>3

LEMMA TripleFacts ==
    ASSUME NEW m \in Nat, NEW n \in Nat, n >= m
    PROVE  /\ 3 * m \in Nat /\ 3 * n \in Nat
           /\ 3 * n >= 3 * m
           /\ 3 * (m + 1) = 3 * m + 3
  OBVIOUS

LEMMA PayingFacts ==
    ASSUME TypeOK, TypeOK', faults' >= faults
    PROVE  /\ Paying \in Nat /\ Paying' \in Nat
           /\ Paying' >= Paying
           /\ faults' = faults => Paying' = Paying
           /\ faults' = faults + 1 => Paying' = Paying + 3
<1>1. faults \in Nat /\ faults' \in Nat
  BY DialingAssumption DEF TypeOK
<1> QED
  BY <1>1, TripleFacts DEF Paying

\* A step that changes no connection and makes no further attempt.
LEMMA PaidSame ==
    ASSUME TypeOK, TypeOK', Paid, UNCHANGED <<answering, connection>>,
           attempt' <= attempt, faults' >= faults
    PROVE  Paid'
<1>1. attempt \in Nat /\ attempt' \in Nat
  BY DialingAssumption DEF TypeOK
<1>2. PaidFor => PaidFor'
  BY <1>1, PayingFacts DEF PaidFor
<1> QED
  BY <1>2, Zenon DEF Paid

\* A call fails after paid attempts, or by paid dials, or for want of
\* addresses; otherwise its outcome is not an error.
LEMMA Tolerated ==
    ASSUME TypeOK, TypeOK', FaultsTolerated, UNCHANGED world,
           faults' >= faults,
           \/ outcome' = outcome
           \/ outcome' # "error"
           \/ answering => Attempts <= Paying'
           \/ \E p \in addrs \cap reachable : DIAL_ATTEMPTS <= faults'
           \/ addrs = {}
    PROVE  FaultsTolerated'
<1>1. faults \in Nat /\ faults' \in Nat
  BY DialingAssumption DEF TypeOK
<1>2. Attempts \in Nat /\ DIAL_ATTEMPTS \in Nat
  BY DialingAssumption
<1>3. /\ faults * (1 + Cardinality(Path)) = Paying
      /\ faults' * (1 + Cardinality(Path)) = Paying'
  BY <1>1, PathCardinality DEF Paying
<1>4. UNCHANGED <<answering, addrs, reachable>>
  BY DEF world
<1>5. CASE outcome' = outcome
  <2> DEFINE Enough == \/ faults >= DIAL_ATTEMPTS
                       \/ faults * (1 + Cardinality(Path)) >= Attempts
  <2>1. Enough => Enough'
    BY <1>1, <1>2, <1>3, PayingFacts
  <2> QED
    BY <1>4, <1>5, <2>1, Zenon DEF FaultsTolerated
<1>6. CASE outcome' # "error"
  BY <1>6 DEF FaultsTolerated
<1>7. CASE answering => Attempts <= Paying'
  BY <1>1, <1>2, <1>3, <1>4, <1>7 DEF FaultsTolerated
<1>8. CASE \E p \in addrs \cap reachable : DIAL_ATTEMPTS <= faults'
  BY <1>1, <1>2, <1>4, <1>8 DEF FaultsTolerated
<1>9. CASE addrs = {}
  BY <1>4, <1>9 DEF FaultsTolerated
<1> QED
  BY <1>5, <1>6, <1>7, <1>8, <1>9

\* request_failed after an attempt that a fault, a lost connection or one
\* being closed has failed.
LEMMA RequestCost ==
    ASSUME CostInv, TypeOK', UNCHANGED world, step = "waiting",
           faults' >= faults,
           NEW conn \in [Path -> {"none", "open", "lost", "closing"}],
           request_failed(conn),
           \A p \in Path : conn[p] = "closing" =>
               \A q \in Path : conn[q] \in {"none", "closing"},
           (\E p \in Path : conn[p] = "closing") => dials = {},
           answering =>
             /\ attempt + 1 <= Paying'
             /\ (\E p \in Path : conn[p] # "none") => attempt + 2 <= Paying'
             /\ (\A p \in Path : conn[p] # "none") => attempt + 3 <= Paying'
             /\ (\E p \in Path : conn[p] = "lost") => attempt + 3 <= Paying'
    PROVE  ClosingAlone' /\ Paid' /\ DialsPaid' /\ FaultsTolerated'
<1>0. /\ TypeOK /\ attempt \in Nat /\ faults \in Nat /\ faults' \in Nat
      /\ Attempts \in Nat \ {0} /\ UNCHANGED answering
      /\ Paying' \in Nat
  BY DialingAssumption, PayingFacts DEF CostInv, DialInv, TypeOK, world
<1>1. CASE attempt + 1 < Attempts
  <2>1. /\ connection' = disconnect_peer_id(conn)
        /\ dials' = {} /\ step' = "backoff" /\ attempt' = attempt + 1
        /\ UNCHANGED outcome
    BY <1>0, <1>1 DEF request_failed
  <2>2. \A p \in Path : connection'[p] = IF conn[p] = "none" THEN "none"
                                                             ELSE "closing"
    BY <2>1 DEF disconnect_peer_id
  <2>3. ClosingAlone'
    BY <2>1, <2>2 DEF ClosingAlone
  <2>4. /\ (\E p \in Path : connection'[p] = "closing")
             => \E p \in Path : conn[p] # "none"
        /\ (\A p \in Path : connection'[p] = "closing")
             => \A p \in Path : conn[p] # "none"
        /\ \A p \in Path : connection'[p] # "lost"
    BY <2>2
  <2>. Paid'
    <3>1. ASSUME answering PROVE PaidFor'
      BY <1>0, <2>1, <2>4, <3>1 DEF PaidFor
    <3> QED
      BY <1>0, <3>1, Zenon DEF Paid
  <2>5. DialsPaid'
    BY <2>1 DEF DialsPaid, Dialling
  <2>6. FaultsTolerated'
    BY <1>0, <2>1, Tolerated DEF CostInv
  <2> QED
    BY <2>3, <2>5, <2>6
<1>2. CASE attempt + 1 >= Attempts
  <2>1. /\ connection' = conn /\ dials' = dials
        /\ step' = "idle" /\ outcome' = "error" /\ attempt' = 0
    BY <1>0, <1>2 DEF request_failed, Return
  <2>2. ClosingAlone'
    BY <2>1 DEF ClosingAlone
  <2>3. Paid'
    <3>1. /\ (\E p \in Path : connection'[p] = "closing")
               => \E p \in Path : conn[p] # "none"
          /\ (\A p \in Path : connection'[p] = "closing")
               => \A p \in Path : conn[p] # "none"
          /\ (\E p \in Path : connection'[p] = "lost")
               => \E p \in Path : conn[p] = "lost"
      BY <2>1
    <3>2. ASSUME answering PROVE PaidFor'
      BY <1>0, <2>1, <3>1, <3>2 DEF PaidFor
    <3> QED
      BY <1>0, <3>2, Zenon DEF Paid
  <2>4. DialsPaid'
    BY <2>1 DEF DialsPaid, Dialling
  <2>5. ASSUME answering PROVE Attempts <= Paying'
    BY <1>0, <1>2, <2>5
  <2>6. FaultsTolerated'
    BY <1>0, <2>5, Tolerated DEF CostInv
  <2> QED
    BY <2>2, <2>3, <2>4, <2>6
<1> QED
  BY <1>0, <1>1, <1>2

\* A call or a retry that looks for a connection.
LEMMA ConnectCost ==
    ASSUME CostInv, TypeOK', UNCHANGED <<world, faults>>,
           NEW n \in 0..attempt, ensure_connected(n)
    PROVE  ClosingAlone' /\ Paid' /\ DialsPaid' /\ FaultsTolerated'
<1>0. TypeOK /\ attempt \in Nat /\ n \in Nat /\ n <= attempt /\ faults \in Nat
  BY DEF CostInv, DialInv, TypeOK
<1>1. CASE is_connected /\ Send(connection) /\ attempt' = n /\ UNCHANGED dials
  <2>1. /\ UNCHANGED <<connection, dials, outcome, faults, answering>>
        /\ step' = "waiting"
    BY <1>1 DEF Send, world
  <2>2. ClosingAlone'
    BY <2>1 DEF CostInv, ClosingAlone
  <2>3. Paid'
    BY <1>0, <1>1, <2>1, PaidSame DEF CostInv
  <2>4. DialsPaid'
    BY <2>1 DEF DialsPaid, Dialling
  <2>5. FaultsTolerated'
    BY <1>0, <2>1, Tolerated DEF CostInv
  <2> QED
    BY <2>2, <2>3, <2>4, <2>5
<1>2. CASE /\ ~ is_connected /\ addrs # {}
           /\ dial_once(FirstPath, 0, dials, Untried) /\ attempt' = n
  <2>1. /\ UNCHANGED <<connection, outcome, faults, answering, addrs, reachable>>
        /\ step' = "dialing" /\ path' = FirstPath
        /\ tried' = [Untried EXCEPT ![FirstPath] = @ + 1]
    BY <1>2 DEF dial_once, world
  <2>2. ClosingAlone'
    BY <1>2, <2>1 DEF ClosingAlone, is_connected, Listed
  <2>3. Paid'
    BY <1>0, <1>2, <2>1, PaidSame DEF CostInv
  <2>4. \A p \in Path : tried'[p] = IF p = FirstPath THEN 1 ELSE 0
    BY <2>1 DEF Untried
  <2>5. DialsPaid'
    BY <1>0, <2>1, <2>4 DEF DialsPaid, TypeOK
  <2>6. FaultsTolerated'
    BY <1>0, <1>2, <2>1, Tolerated DEF CostInv
  <2> QED
    BY <2>2, <2>3, <2>5, <2>6
<1>3. CASE ~ is_connected /\ addrs = {} /\ Return("error") /\ UNCHANGED swarmVars
  <2>1. /\ UNCHANGED <<connection, dials, answering, faults>>
        /\ step' = "idle" /\ attempt' = 0
    BY <1>3 DEF Return, swarmVars, world
  <2>2. ClosingAlone'
    BY <2>1 DEF CostInv, ClosingAlone
  <2>3. Paid'
    BY <1>0, <2>1, PaidSame DEF CostInv
  <2>4. DialsPaid'
    BY <2>1 DEF DialsPaid, Dialling
  <2>5. FaultsTolerated'
    BY <1>0, <1>3, <2>1, Tolerated DEF CostInv
  <2> QED
    BY <2>2, <2>3, <2>4, <2>5
<1> QED
  BY <1>1, <1>2, <1>3 DEF ensure_connected

\* A dial that failed: of a path that leads to the peer only by a fault.
LEMMA DialCost ==
    ASSUME CostInv, TypeOK', UNCHANGED world, step = "dialing",
           FaultUnless(path \notin reachable),
           NEW others \in SUBSET dials, dial_failed(others)
    PROVE  ClosingAlone' /\ Paid' /\ DialsPaid' /\ FaultsTolerated'
<1>0. /\ TypeOK /\ attempt \in Nat /\ faults \in Nat /\ faults' \in Nat
      /\ dial_attempt \in Nat /\ DIAL_ATTEMPTS \in Nat \ {0}
      /\ path \in Path /\ \A p \in Path : tried[p] \in Nat
      /\ UNCHANGED <<addrs, reachable, answering>>
  BY DialingAssumption DEF CostInv, DialInv, TypeOK, world
<1>1. /\ faults' >= faults
      /\ path \in reachable => faults' = faults + 1
  BY <1>0 DEF FaultUnless, Fault
<1>2. /\ Dialling /\ Listed(connection) = {}
      /\ path \in addrs /\ tried[path] = dial_attempt + 1
      /\ path = "direct" => tried["relay"] = 0
  BY DEF CostInv, DialInv, DialsWhenDisconnected, TriedInv, Dialling
<1>3. \A p \in addrs \cap reachable : tried[p] <= faults'
  BY <1>0, <1>1, <1>2 DEF CostInv, DialsPaid, TypeOK
<1>4. connection' = connection /\ attempt' <= attempt
  BY <1>0 DEF dial_failed, dial_once, Return
<1>5. ClosingAlone'
  BY <1>2, <1>4 DEF ClosingAlone, Listed
<1>6. Paid'
  BY <1>0, <1>1, <1>4, PaidSame DEF CostInv
<1>7. CASE dial_attempt + 1 < DIAL_ATTEMPTS
  <2>1. step' = "dial_backoff" /\ UNCHANGED <<outcome, tried>>
    BY <1>0, <1>7 DEF dial_failed
  <2>2. DialsPaid'
    BY <1>0, <1>3, <2>1 DEF DialsPaid
  <2>3. FaultsTolerated'
    BY <1>0, <1>1, <2>1, Tolerated DEF CostInv
  <2> QED
    BY <1>5, <1>6, <2>2, <2>3
<1>8. CASE /\ dial_attempt + 1 >= DIAL_ATTEMPTS
           /\ path = "direct" /\ "relay" \in addrs
  <2>1. /\ step' = "dialing" /\ path' = "relay" /\ UNCHANGED outcome
        /\ tried' = [tried EXCEPT !["relay"] = @ + 1]
    BY <1>0, <1>8 DEF dial_failed, dial_once
  <2>2. tried'["relay"] = 1 /\ tried'["direct"] = tried["direct"]
    BY <1>0, <1>2, <1>8, <2>1 DEF TypeOK, Path
  <2>3. DialsPaid'
    BY <1>0, <1>3, <2>1, <2>2 DEF DialsPaid, TypeOK, Path
  <2>4. FaultsTolerated'
    BY <1>0, <1>1, <2>1, Tolerated DEF CostInv
  <2> QED
    BY <1>5, <1>6, <2>3, <2>4
<1>9. CASE /\ dial_attempt + 1 >= DIAL_ATTEMPTS
           /\ ~ (path = "direct" /\ "relay" \in addrs)
  <2>1. step' = "idle"
    BY <1>0, <1>9 DEF dial_failed, Return
  <2>2. DialsPaid'
    BY <2>1 DEF DialsPaid, Dialling
  <2>3. \A p \in addrs : tried[p] = DIAL_ATTEMPTS
    BY <1>0, <1>2, <1>9 DEF CostInv, DialInv, DirectFirst, TypeOK, Path
  <2>4. (\E p \in addrs \cap reachable : DIAL_ATTEMPTS <= faults')
          \/ addrs \cap reachable = {}
    BY <1>3, <2>3
  <2>5. FaultsTolerated'
    <3>1. CASE \E p \in addrs \cap reachable : DIAL_ATTEMPTS <= faults'
      BY <1>0, <1>1, <3>1, Tolerated DEF CostInv
    <3>2. CASE addrs \cap reachable = {}
      BY <1>0, <3>2 DEF FaultsTolerated
    <3> QED
      BY <2>4, <3>1, <3>2
  <2> QED
    BY <1>5, <1>6, <2>2, <2>5
<1> QED
  BY <1>0, <1>7, <1>8, <1>9

\* A step that changes neither the call, nor connections or dials but to take
\* some away.
LEMMA CostSame ==
    ASSUME CostInv, TypeOK', UNCHANGED <<world, clientVars, connection, tried>>,
           dials' \subseteq dials \/ \A p \in Path : connection[p] # "closing",
           faults' >= faults
    PROVE  ClosingAlone' /\ Paid' /\ DialsPaid' /\ FaultsTolerated'
<1>0. /\ TypeOK /\ faults \in Nat /\ faults' \in Nat /\ attempt \in Nat
      /\ \A p \in Path : tried[p] \in Nat
      /\ UNCHANGED <<answering, addrs, reachable, step, path, attempt, outcome>>
  BY DEF CostInv, DialInv, TypeOK, world, clientVars
<1>1. ClosingAlone'
  BY DEF CostInv, ClosingAlone
<1>2. Paid'
  BY <1>0, PaidSame DEF CostInv
<1>3. DialsPaid'
  BY <1>0 DEF CostInv, DialsPaid, Dialling, TypeOK
<1>4. FaultsTolerated'
  BY <1>0, Tolerated DEF CostInv
<1> QED
  BY <1>1, <1>2, <1>3, <1>4

LEMMA CostInit == Init => CostInv
<1> SUFFICES ASSUME Init PROVE CostInv
  OBVIOUS
<1>1. DialInv
  BY InitInv
<1>2. ClosingAlone
  BY DEF Init, ClosingAlone
<1>3. Paid
  <2>1. \E p \in Path : TRUE
    BY DEF Path
  <2> QED
    BY <2>1 DEF Init, Paid, PaidFor, Paying
<1>4. DialsPaid /\ FaultsTolerated
  BY DEF Init, DialsPaid, Dialling, FaultsTolerated
<1> QED
  BY <1>1, <1>2, <1>3, <1>4 DEF CostInv

LEMMA CostStep == CostInv /\ [Next]_vars => CostInv'
<1> SUFFICES ASSUME CostInv, [Next]_vars
             PROVE  ClosingAlone' /\ Paid' /\ DialsPaid' /\ FaultsTolerated'
  BY StepInv DEF CostInv
<1>. faults \in Nat /\ faults' >= faults
  <2>1. faults' = faults \/ faults' = faults + 1
    <3>1. CASE DialError \/ DialTimeout \/ Deadline \/ RequestError
      BY <3>1 DEF DialError, DialTimeout, Deadline, RequestError, Fault,
         FaultUnless
    <3>2. CASE Call \/ Redial \/ Retry \/ Served \/ PunchHole
      BY <3>2 DEF Call, Redial, Retry, Served, Serve, PunchHole
    <3>3. CASE \E d \in Dial : Connected(d) \/ OtherDialError(d)
      BY <3>3 DEF Connected, OtherDialError
    <3>4. CASE \E p \in Path : ClosedNoticed(p) \/ Lost(p)
      BY <3>4 DEF ClosedNoticed, Lost, Fault
    <3>5. CASE \E r \in requests : Answered(r) \/ LateAnswer(r)
      BY <3>5 DEF Answered, LateAnswer
    <3>6. CASE UNCHANGED vars
      BY <3>6 DEF vars
    <3> QED
      BY <3>1, <3>2, <3>3, <3>4, <3>5, <3>6 DEF Next, Dialed, Waited, Network
  <2>2. faults \in Nat
    BY DialingAssumption DEF CostInv, DialInv, TypeOK
  <2> QED
    BY <2>1, <2>2
<1>0. /\ TypeOK /\ TypeOK' /\ attempt \in Nat /\ faults \in Nat /\ faults' \in Nat
      /\ Paying \in Nat /\ Paying' \in Nat
      /\ faults' = faults => Paying' = Paying
      /\ faults' = faults + 1 => Paying' = Paying + 3
      /\ connection \in [Path -> {"none", "open", "lost", "closing"}]
      /\ ClosingAlone
  <2>1. TypeOK /\ TypeOK'
    BY StepInv DEF CostInv, DialInv
  <2> QED
    BY <2>1, PayingFacts, DialingAssumption DEF CostInv, TypeOK
<1>1. CASE Call
  BY <1>0, <1>1, ConnectCost DEF Call
<1>2. CASE Redial
  <2>1. /\ step = "dial_backoff" /\ UNCHANGED <<world, attempt, faults>>
        /\ dial_once(path, dial_attempt + 1, dials, tried)
    BY <1>2 DEF Redial
  <2>2. /\ step' = "dialing" /\ path' = path /\ path \in Path
        /\ UNCHANGED <<connection, outcome, addrs, reachable, answering, faults>>
        /\ tried' = [tried EXCEPT ![path] = @ + 1]
        /\ \A p \in Path : tried[p] \in Nat
    BY <1>0, <2>1, DialingAssumption DEF dial_once, world, TypeOK
  <2>3. ClosingAlone'
    BY <2>1, <2>2 DEF CostInv, DialInv, DialsWhenDisconnected, Dialling, Listed,
       ClosingAlone
  <2>4. Paid'
    BY <1>0, <2>1, <2>2, PaidSame DEF CostInv
  <2>5. \A p \in addrs \cap reachable : tried[p] <= faults
    BY <2>1 DEF CostInv, DialsPaid, Dialling
  <2>6. DialsPaid'
    BY <1>0, <2>2, <2>5 DEF DialsPaid, TypeOK
  <2>7. FaultsTolerated'
    BY <1>0, <2>1, <2>2, Tolerated DEF CostInv
  <2> QED
    BY <2>3, <2>4, <2>6, <2>7
<1>3. CASE Retry
  BY <1>0, <1>3, ConnectCost DEF Retry
<1>4. ASSUME NEW d \in Dial, Connected(d)
      PROVE  ClosingAlone' /\ Paid' /\ DialsPaid' /\ FaultsTolerated'
  <2> DEFINE p == IF d = "dcutr" THEN "direct" ELSE d
             conn == [connection EXCEPT ![p] = "open"]
  <2>1. p \in Path
    BY DEF Dial, Path
  <2>2. /\ UNCHANGED <<answering, faults>> /\ UNCHANGED world
        /\ attempt' = attempt /\ outcome' = outcome
        /\ step' = "waiting" /\ connection' = conn
    BY <1>4 DEF Connected, Send, clientVars, world
  <2>3. \A q \in Path : connection[q] # "closing"
    BY <1>0, <1>4 DEF Connected, ClosingAlone
  <2>4. \A q \in Path : /\ connection'[q] # "closing"
                        /\ connection'[q] = "lost" => connection[q] = "lost"
    BY <1>0, <2>1, <2>2, <2>3
  <2>5. ClosingAlone'
    BY <2>4 DEF ClosingAlone
  <2>6. Paid'
    <3>1. PaidFor => PaidFor'
      BY <1>0, <2>1, <2>2, <2>4 DEF PaidFor
    <3> QED
      BY <2>2, <3>1, Zenon DEF CostInv, Paid
  <2>7. DialsPaid'
    BY <2>2 DEF DialsPaid, Dialling
  <2>8. FaultsTolerated'
    BY <1>0, <2>2, Tolerated DEF CostInv
  <2> QED
    BY <2>5, <2>6, <2>7, <2>8
<1>5. CASE DialError
  BY <1>0, <1>5, DialCost DEF DialError
<1>6. CASE DialTimeout
  BY <1>0, <1>6, DialCost DEF DialTimeout
<1>7. ASSUME NEW r \in requests, Answered(r)
      PROVE  ClosingAlone' /\ Paid' /\ DialsPaid' /\ FaultsTolerated'
  <2>1. r.answer \in {"ok", "rejected"}
    BY <1>0, <1>7 DEF Answered, TypeOK, Request
  <2>2. /\ step' = "idle" /\ outcome' # "error" /\ attempt' = 0
        /\ UNCHANGED <<world, connection, dials, faults>> /\ UNCHANGED answering
    BY <1>7, <2>1 DEF Answered, Return, world
  <2>3. ClosingAlone'
    BY <1>0, <2>2 DEF ClosingAlone
  <2>4. Paid'
    BY <1>0, <2>2, PaidSame DEF CostInv
  <2>5. DialsPaid'
    BY <2>2 DEF DialsPaid, Dialling
  <2>6. FaultsTolerated'
    BY <1>0, <2>2, Tolerated DEF CostInv
  <2> QED
    BY <2>3, <2>4, <2>5, <2>6
<1>8. ASSUME NEW r \in requests, LateAnswer(r)
      PROVE  ClosingAlone' /\ Paid' /\ DialsPaid' /\ FaultsTolerated'
  BY <1>0, <1>8, CostSame DEF LateAnswer
<1>9. ASSUME NEW p \in Path, ClosedNoticed(p)
      PROVE  ClosingAlone' /\ Paid' /\ DialsPaid' /\ FaultsTolerated'
  <2> DEFINE conn == [connection EXCEPT ![p] = "none"]
  <2>1. conn \in [Path -> {"none", "open", "lost", "closing"}]
    BY <1>0
  <2>2. /\ \A q \in Path : conn[q] = IF q = p THEN "none" ELSE connection[q]
        /\ connection[p] \in {"lost", "closing"}
        /\ step = "waiting" /\ UNCHANGED world /\ UNCHANGED answering
        /\ faults' = faults
    BY <1>0, <1>9 DEF ClosedNoticed, world
  <2>3. CASE request_failed(conn)
    <3>1. /\ \A q \in Path : conn[q] = "closing" =>
               \A o \in Path : conn[o] \in {"none", "closing"}
          /\ (\E q \in Path : conn[q] = "closing") => dials = {}
      BY <1>0, <2>2 DEF ClosingAlone
    <3>2. ASSUME answering
          PROVE  /\ attempt + 1 <= Paying'
                 /\ (\E q \in Path : conn[q] # "none") => attempt + 2 <= Paying'
                 /\ (\A q \in Path : conn[q] # "none") => attempt + 3 <= Paying'
                 /\ (\E q \in Path : conn[q] = "lost") => attempt + 3 <= Paying'
      <4>0. PaidFor /\ conn[p] = "none"
        BY <2>2, <3>2 DEF CostInv, Paid
      <4>1. CASE connection[p] = "lost"
        BY <1>0, <2>2, <4>0, <4>1 DEF PaidFor
      <4>2. CASE connection[p] = "closing"
        <5>1. \A q \in Path : connection[q] \in {"none", "closing"}
          BY <1>0, <4>2 DEF ClosingAlone
        <5>2. /\ ~ \E q \in Path : conn[q] = "lost"
              /\ ~ \A q \in Path : conn[q] # "none"
          BY <2>2, <4>0, <5>1
        <5>3. attempt + 1 <= Paying'
          BY <1>0, <2>2, <4>0, <4>2 DEF PaidFor
        <5>4. ASSUME NEW q \in Path, conn[q] # "none"
              PROVE  attempt + 2 <= Paying'
          <6>1. q # p /\ connection[q] = "closing"
            BY <2>2, <5>1, <5>4
          <6>2. \A o \in Path : connection[o] = "closing"
            BY <4>2, <6>1 DEF Path
          <6> QED
            BY <1>0, <2>2, <4>0, <6>2 DEF PaidFor
        <5> QED
          BY <5>2, <5>3, <5>4
      <4> QED
        BY <2>2, <4>1, <4>2
    <3> HIDE DEF conn
    <3> QED
      BY <1>0, <2>1, <2>2, <2>3, <3>1, <3>2, RequestCost
  <2>4. CASE connection' = conn /\ UNCHANGED <<clientVars, dials, tried>>
    <3>1. /\ step' = "waiting" /\ attempt' = attempt /\ outcome' = outcome
          /\ dials' = dials
      BY <2>2, <2>4 DEF clientVars
    <3>2. ClosingAlone'
      BY <1>0, <2>2, <2>4, <3>1 DEF ClosingAlone
    <3>3. Paid'
      <4>1. /\ \A q \in Path : connection'[q] \in {connection[q], "none"}
            /\ ~ \A q \in Path : connection'[q] = "closing"
        BY <2>2, <2>4
      <4>2. PaidFor => PaidFor'
        BY <1>0, <2>2, <3>1, <4>1 DEF PaidFor
      <4> QED
        BY <2>2, <4>2, Zenon DEF CostInv, Paid
    <3>4. DialsPaid'
      BY <3>1 DEF DialsPaid, Dialling
    <3>5. FaultsTolerated'
      BY <1>0, <2>2, <3>1, Tolerated DEF CostInv
    <3> QED
      BY <3>2, <3>3, <3>4, <3>5
  <2> QED
    BY <1>9, <2>3, <2>4 DEF ClosedNoticed
<1>10. CASE RequestError \/ Deadline
  <2>0. /\ step = "waiting" /\ request_failed(connection) /\ UNCHANGED world
        /\ UNCHANGED answering
    BY <1>10 DEF RequestError, Deadline, world
  <2>1. \/ faults' = faults + 1
        \/ faults' = faults /\ \E q \in Path : connection[q] = "lost"
        \/ faults' = faults /\ ~ answering
    <3>1. \A r \in requests : r.path \in Path
      BY <1>0 DEF TypeOK, Request
    <3> QED
      BY <1>10, <3>1 DEF RequestError, Deadline, Fault, FaultUnless, Current
  <2>2. faults' >= faults
    BY <1>0, <2>1
  <2>3. ASSUME answering PROVE attempt + 3 <= Paying'
    <3>1. PaidFor
      BY <2>3 DEF CostInv, Paid
    <3>2. CASE faults' = faults + 1
      BY <1>0, <3>1, <3>2 DEF PaidFor
    <3>3. CASE faults' = faults /\ \E q \in Path : connection[q] = "lost"
      BY <1>0, <3>1, <3>3 DEF PaidFor
    <3> QED
      BY <2>1, <2>3, <3>2, <3>3
  <2>4. ASSUME answering
        PROVE  attempt + 1 <= Paying' /\ attempt + 2 <= Paying'
    BY <1>0, <2>3, <2>4
  <2> QED
    BY <1>0, <2>0, <2>2, <2>3, <2>4, RequestCost DEF ClosingAlone
<1>11. ASSUME NEW r \in requests, NEW how \in {"ok", "rejected"}, Serve(r, how)
       PROVE  ClosingAlone' /\ Paid' /\ DialsPaid' /\ FaultsTolerated'
  BY <1>0, <1>11, CostSame DEF Serve
<1>12. ASSUME NEW d \in Dial, OtherDialError(d)
       PROVE  ClosingAlone' /\ Paid' /\ DialsPaid' /\ FaultsTolerated'
  BY <1>0, <1>12, CostSame DEF OtherDialError
<1>13. CASE PunchHole
  <2>1. \A p \in Path : connection[p] # "closing"
    BY <1>0, <1>13 DEF PunchHole, ClosingAlone, Path
  <2> QED
    BY <1>0, <1>13, <2>1, CostSame DEF PunchHole
<1>14. ASSUME NEW p \in Path, Lost(p)
       PROVE  ClosingAlone' /\ Paid' /\ DialsPaid' /\ FaultsTolerated'
  <2>1. /\ faults' = faults + 1 /\ UNCHANGED world /\ UNCHANGED answering
        /\ connection[p] = "open"
        /\ connection' = [connection EXCEPT ![p] = "lost"]
        /\ UNCHANGED <<step, attempt, outcome>>
    BY <1>14 DEF Lost, Fault, world, clientVars
  <2>2. ~ Dialling
    BY <2>1 DEF CostInv, DialInv, DialsWhenDisconnected, Listed
  <2>3. \A q \in Path : connection[q] # "closing"
    BY <1>0, <2>1 DEF ClosingAlone
  <2>4. \A q \in Path : connection'[q] # "closing"
    BY <1>0, <2>1, <2>3
  <2>5. ClosingAlone'
    BY <2>4 DEF ClosingAlone
  <2>6. Paid'
    <3>1. PaidFor => PaidFor'
      BY <1>0, <2>1, <2>4 DEF PaidFor
    <3> QED
      BY <2>1, <3>1, Zenon DEF CostInv, Paid
  <2>7. DialsPaid'
    BY <2>1, <2>2 DEF DialsPaid, Dialling
  <2>8. FaultsTolerated'
    BY <1>0, <2>1, Tolerated DEF CostInv
  <2> QED
    BY <2>5, <2>6, <2>7, <2>8
<1>15. CASE UNCHANGED vars
  BY <1>0, <1>15, CostSame DEF vars, swarmVars
<1> QED
  BY <1>1, <1>2, <1>3, <1>4, <1>5, <1>6, <1>7, <1>8, <1>9, <1>10, <1>11,
     <1>12, <1>13, <1>14, <1>15
  DEF Next, Dialed, Waited, Served, Network

\* A call to a peer that answers and can be reached fails only if faults hit
\* all dials of a path, or all attempts: one fault fails no more than its own
\* attempt and one on each of two connections (pull_batch_with_retries,
\* push_batch_with_retries, disconnect_peer_id).
THEOREM FaultsAreTolerated == Spec => []FaultsTolerated
<1>1. CostInv => FaultsTolerated
  BY DEF CostInv
<1> QED
  BY <1>1, CostInit, CostStep, PTL DEF Spec

=============================================================================
