--------------------------- MODULE PiServerProofs ---------------------------
(***************************************************************************)
(* Theorems about PiServer, for any number of connections, listeners,      *)
(* requests, updates and failures.                                         *)
(*                                                                         *)
(* The invariant has three parts: a connection, whose transport, stage and *)
(* handshake say together how far it is; a request, whose pc says what has *)
(* been done about it and what waits for it; and the wire of a connection, *)
(* what may be on it at that point of the other two.                       *)
(***************************************************************************)
EXTENDS PiServer, FiniteSetTheorems, SequenceTheorems, TLAPS

Connected == {"awaitingHello", "handshaking", "ready", "closing"}

ConnectionInv(c) ==
  /\ c \in connections <=> transport[c] = "open"
  /\ stage[c] \in Connected <=> transport[c] = "open"
  /\ c \in disconnected <=> stage[c] = "closed"
  /\ transport[c] = "unclosed" => c \in disconnected
  /\ transport[c] \in {"none", "refused"} => stage[c] = "none"
  /\ handshake[c] # "no" => stage[c] \notin {"none", "awaitingHello"}
  /\ services[c] = "attached" => handshake[c] # "no" /\ c \notin disconnected

\* Nothing is written for a connection that is gone, and no request of it goes on.
GoneInv(c) == c \in disconnected => wire[c] = <<>> /\ \A i \in Ids : active[c][i] = None

ShutdownInv ==
  /\ closeCalled \/ shutdown # "no" => closing
  /\ shutdown = "connections" => connections \subseteq snapshot
  /\ shutdown \in {"router", "done"} => connections = {}
  /\ startup = "no" => up = 0
  /\ startup = "starting" => up < Listeners

Admitted ==
  {"refused", "running", "failing", "responding", "losing", "stuck", "subscribed", "done"}

\* What has been published to r and does not wait: sent, or lost.
Sent(r) == published[r] - Len(pending[r])

RequestInv(r) ==
  /\ pc[r] = "no" <=> asked[r] = None
  /\ pc[r] \in Admitted => stage[From(r)] \in {"ready", "closing", "closed"}
  /\ pc[r] \in {"running", "failing", "responding"} /\ From(r) \notin disconnected =>
       active[From(r)][asked[r].id] = r

PublishedInv(r) ==
  /\ pc[r] = "subscribed" \/ pending[r] # <<>> => asked[r] # None /\ asked[r].call = "subscribe"
  /\ pc[r] = "subscribed" => pending[r] = <<>>
  /\ pc[r] \in {"no", "held", "refused", "running"} => Sent(r) = 0
  /\ Len(pending[r]) <= published[r]
  /\ \A k \in 1..Len(pending[r]) : pending[r][k] = Sent(r) + k

ActiveInv ==
  \A c \in Connections, i \in Ids : active[c][i] # None =>
    /\ pc[active[c][i]] \in Admitted /\ From(active[c][i]) = c

HeldInv(c) ==
  /\ \A k \in 1..Len(held[c]) : pc[held[c][k]] = "held" /\ From(held[c][k]) = c
  /\ \A j, k \in 1..Len(held[c]) : held[c][j] = held[c][k] => j = k

\* The n-th request to arrive is request n.
AskedInv ==
  \E n \in 0..MaxRequests : \A r \in Requests : asked[r] # None <=> r <= n

EncoderInv(c) ==
  encoder[c] # None =>
    /\ asked[encoder[c]] # None /\ From(encoder[c]) = c /\ asked[encoder[c]].call = "subscribe"
    /\ pc[encoder[c]] \in {"responding", "losing", "stuck", "subscribed", "done"}

HasHello(c) == \E k \in 1..Len(wire[c]) : wire[c][k].type = "hello"

\* Whoever is served has been greeted; before that, there are attachments at most.
GreetingInv(c) ==
  /\ GreetedFirst(c)
  /\ handshake[c] \in {"no", "attaching"} /\ stage[c] \notin {"closing", "closed"} =>
       \A k \in 1..Len(wire[c]) : wire[c][k].type = "attachment"
  /\ stage[c] = "ready" => handshake[c] = "done"
  /\ c \notin disconnected =>
       /\ handshake[c] = "greeting" \/ stage[c] = "ready" => HasHello(c)
       /\ \A r \in Requests : pc[r] \in Admitted /\ From(r) = c => HasHello(c)

AnsweredAt == {"refused", "failing", "responding", "losing", "stuck", "subscribed", "done"}

\* r has one answer at most, and none before it is answered.
AnswersInv(c) ==
  \A r \in Requests :
    /\ Answers(c, r) # {} => From(r) = c /\ pc[r] \in AnsweredAt
    /\ \A j, k \in Answers(c, r) : j = k
    /\ pc[r] \in {"responding", "subscribed"} /\ From(r) = c /\ c \notin disconnected =>
         Snapshots(c, r) # {}

\* The updates of r that r's own encoder made are there in order, and while it has it, all of them
\* but the lost.
Numbered(c, r) ==
  /\ InOrder(c, r)
  /\ \A k \in UpdatesOf(c, r) : wire[c][k].n \in 1..Sent(r)
  /\ encoder[c] = r /\ c \notin disconnected =>
       \A m \in 1..Sent(r) \ lost[r] : \E j \in UpdatesOf(c, r) : wire[c][j].n = m

NumbersInv(c) == \A r \in Requests : Numbered(c, r)

\* An update comes after its snapshot, and is encoded against no earlier one; so is the next.
BasesInv(c) ==
  /\ \A k \in 1..Len(wire[c]) : wire[c][k].type = "update" =>
       /\ \E j \in Snapshots(c, wire[c][k].request) : j < k
       /\ \A i \in Snapshots(c, wire[c][k].request), j \in Snapshots(c, wire[c][k].encoder) : i <= j
  /\ encoder[c] # None => \A r \in Requests : asked[r] # None /\ asked[r].call = "subscribe" =>
       \A i \in Snapshots(c, r), j \in Snapshots(c, encoder[c]) : i <= j

ServerInv ==
  /\ TypeOK /\ ShutdownInv /\ AskedInv /\ ActiveInv
  /\ \A c \in Connections : ConnectionInv(c) /\ GoneInv(c) /\ HeldInv(c) /\ EncoderInv(c)
  /\ \A r \in Requests : RequestInv(r) /\ PublishedInv(r)

WireInv ==
  \A c \in Connections : GreetingInv(c) /\ AnswersInv(c) /\ NumbersInv(c) /\ BasesInv(c)

Inv == ServerInv /\ WireInv

-----------------------------------------------------------------------------
(* Types *)

LEMMA MessageTyped ==
  /\ [type |-> "hello"] \in Message /\ [type |-> "hello_error"] \in Message
  /\ [type |-> "attachment"] \in Message
  /\ \A r \in Requests : \A result \in {"ok", "error", "cancelled", "duplicate", "invalid"} :
       Response(r, result) \in Message
  /\ \A q, r \in Requests : \A n \in 1..MaxUpdates :
       [type |-> "update", encoder |-> q, request |-> r, n |-> n] \in Message
  BY DEF Message, Response

Results == {"ok", "error", "cancelled", "duplicate", "invalid"}

\* Sends(c, m): c's wire may grow by m, no other changes.
Sends(c, m) ==
  \A d \in Connections : wire'[d] = IF d = c /\ Sendable(c) THEN Append(wire[c], m) ELSE wire[d]

LEMMA SendTyped ==
  ASSUME wire \in [Connections -> Seq(Message)], NEW c \in Connections, NEW m \in Message, Send(c, m)
  PROVE  wire' \in [Connections -> Seq(Message)] /\ Sends(c, m)
<1>1. Append(wire[c], m) \in Seq(Message)
  OBVIOUS
<1> QED
  BY <1>1 DEF Send, Sends

LEMMA ResponseTyped ==
  ASSUME wire \in [Connections -> Seq(Message)], NEW c \in Connections, NEW r \in Requests,
         NEW result \in Results, Send(c, Response(r, result))
  PROVE  wire' \in [Connections -> Seq(Message)] /\ Sends(c, Response(r, result))
<1>1. Response(r, result) \in Message
  BY DEF Message, Response, Results
<1> QED
  BY <1>1, SendTyped

\* Refusing a protocol closes a connection that is not closing already, with a last frame.
FailsProtocol(c) ==
  \/ Terminal(c) /\ UNCHANGED <<stage, dropping, wire>>
  \/ /\ ~Terminal(c) /\ stage' = [stage EXCEPT ![c] = "closing"]
     /\ dropping' = dropping \cup {c} /\ Sends(c, [type |-> "hello_error"])

LEMMA FailProtocolTyped ==
  ASSUME TypeOK, NEW c \in Connections, FailProtocol(c)
  PROVE  /\ stage' \in [Connections ->
                       {"none", "awaitingHello", "handshaking", "ready", "closing", "closed"}]
         /\ dropping' \subseteq Connections /\ wire' \in [Connections -> Seq(Message)]
         /\ FailsProtocol(c)
<1>1. wire \in [Connections -> Seq(Message)] /\ [type |-> "hello_error"] \in Message
  BY MessageTyped DEF TypeOK, ServerTypes, ConnectionTypes, RequestTypes
<1>2. CASE Terminal(c)
  BY <1>2 DEF FailProtocol, FailsProtocol, TypeOK, ServerTypes, ConnectionTypes, RequestTypes
<1>3. CASE ~Terminal(c)
  <2>1. Send(c, [type |-> "hello_error"])
    BY <1>3 DEF FailProtocol
  <2>2. wire' \in [Connections -> Seq(Message)] /\ Sends(c, [type |-> "hello_error"])
    BY <1>1, <2>1, SendTyped
  <2>3. stage' = [stage EXCEPT ![c] = "closing"] /\ dropping' = dropping \cup {c}
    BY <1>3 DEF FailProtocol
  <2>4. FailsProtocol(c)
    BY <1>3, <2>2, <2>3 DEF FailsProtocol
  <2> QED
    BY <2>2, <2>3, <2>4 DEF TypeOK, ServerTypes, ConnectionTypes, RequestTypes
<1> QED
  BY <1>2, <1>3

\* The next request has the next number.
Next1 == Cardinality(Asked) + 1

LEMMA NextRequest ==
  ASSUME AskedInv
  PROVE  /\ Next1 \in 1..(MaxRequests + 1)
         /\ \A q \in Requests : asked[q] # None <=> q < Next1
<1>1. PICK n \in 0..MaxRequests : \A r \in Requests : asked[r] # None <=> r <= n
  BY DEF AskedInv
<1>2. {q \in Requests : asked[q] # None} = 1..n
  BY <1>1, ServerAssumption DEF Requests
<1>3. Cardinality(1..n) = n
  <2>1. Cardinality(1..n) = IF 1 > n THEN 0 ELSE n - 1 + 1
    BY FS_Interval
  <2> QED
    BY <2>1
<1>4. Next1 = n + 1
  BY <1>2, <1>3 DEF Next1, Asked
<1> QED
  BY <1>1, <1>4, ServerAssumption DEF Requests

LEMMA DisconnectTyped ==
  ASSUME TypeOK, NEW S \in SUBSET Connections, Disconnect(S)
  PROVE  /\ disconnected' \subseteq Connections /\ connections' \subseteq Connections \ disconnected'
         /\ stage' \in [Connections ->
                       {"none", "awaitingHello", "handshaking", "ready", "closing", "closed"}]
         /\ aborted' \subseteq Requests /\ encoder' \in [Connections -> Requests \cup {None}]
         /\ active' \in [Connections -> [Ids -> Requests \cup {None}]]
         /\ wire' \in [Connections -> Seq(Message)]
         /\ services' \in [Connections -> {"no", "attached", "releasing", "released"}]
<1>1. disconnected' = disconnected \cup (S \ disconnected) /\ connections' = connections \ (S \ disconnected)
  BY DEF Disconnect
<1>2. stage' \in [Connections ->
                       {"none", "awaitingHello", "handshaking", "ready", "closing", "closed"}]
  BY DEF Disconnect, TypeOK, ServerTypes, ConnectionTypes, RequestTypes
<1>3. aborted' \subseteq Requests
  BY DEF Disconnect, TypeOK, ServerTypes, ConnectionTypes, RequestTypes
<1>4. encoder' \in [Connections -> Requests \cup {None}]
  BY DEF Disconnect, TypeOK, ServerTypes, ConnectionTypes, RequestTypes
<1>5. active' \in [Connections -> [Ids -> Requests \cup {None}]]
  BY DEF Disconnect, TypeOK, ServerTypes, ConnectionTypes, RequestTypes
<1>6. wire' \in [Connections -> Seq(Message)]
  <2>1. <<>> \in Seq(Message)
    OBVIOUS
  <2> QED
    BY <2>1 DEF Disconnect, TypeOK, ServerTypes, ConnectionTypes, RequestTypes
<1>7. services' \in [Connections -> {"no", "attached", "releasing", "released"}]
  BY DEF Disconnect, TypeOK, ServerTypes, ConnectionTypes, RequestTypes
<1> QED
  BY <1>1, <1>2, <1>3, <1>4, <1>5, <1>6, <1>7 DEF TypeOK, ServerTypes, ConnectionTypes, RequestTypes

\* What handling r does: it is refused at once, runs, or, its subscription being taken, fails.
Handles(c, r) ==
  LET i == asked'[r].id IN
  \/ /\ At(r, "refused") /\ UNCHANGED active
     /\ \E result \in Results \ {"ok"} : Sends(c, Response(r, result))
  \/ /\ active[c][i] = None /\ active' = [active EXCEPT ![c][i] = r]
     /\ \/ At(r, "failing") /\ Sends(c, Response(r, "error"))
        \/ At(r, "running") /\ UNCHANGED wire

LEMMA HandleTyped ==
  ASSUME TypeOK, NEW c \in Connections, NEW r \in Requests, Handle(c, r),
         asked'[r] \in [from : Connections, id : Ids, call : Calls]
  PROVE  /\ active' \in [Connections -> [Ids -> Requests \cup {None}]]
         /\ pc' \in [Requests -> {"no", "held", "refused", "running", "failing", "responding",
                                 "losing", "stuck", "subscribed", "done"}]
         /\ wire' \in [Connections -> Seq(Message)]
         /\ Handles(c, r)
<1> DEFINE i == asked'[r].id
<1>0. wire \in [Connections -> Seq(Message)] /\ i \in Ids
  BY DEF TypeOK, ServerTypes, ConnectionTypes, RequestTypes
<1>1. CASE At(r, "refused") /\ UNCHANGED active /\ \E result \in Results \ {"ok"} : Send(c, Response(r, result))
  <2>1. PICK result \in Results \ {"ok"} : Send(c, Response(r, result))
    BY <1>1
  <2>2. wire' \in [Connections -> Seq(Message)] /\ Sends(c, Response(r, result))
    BY <1>0, <2>1, ResponseTyped
  <2> QED
    BY <1>0, <1>1, <2>2 DEF Handles, At, TypeOK, ServerTypes, ConnectionTypes, RequestTypes
<1>2. CASE /\ active[c][i] = None /\ active' = [active EXCEPT ![c][i] = r]
           /\ At(r, "failing") /\ Send(c, Response(r, "error"))
  <2>1. wire' \in [Connections -> Seq(Message)] /\ Sends(c, Response(r, "error"))
    BY <1>0, <1>2, ResponseTyped DEF Results
  <2> QED
    BY <1>0, <1>2, <2>1 DEF Handles, At, TypeOK, ServerTypes, ConnectionTypes, RequestTypes
<1>3. CASE /\ active[c][i] = None /\ active' = [active EXCEPT ![c][i] = r]
           /\ At(r, "running") /\ UNCHANGED wire
  BY <1>0, <1>3 DEF Handles, At, TypeOK, ServerTypes, ConnectionTypes, RequestTypes
<1>4. \/ /\ active[c][i] # None \/ asked'[r].call = "invalid"
         /\ At(r, "refused") /\ UNCHANGED active
         /\ Send(c, Response(r, IF active[c][i] # None THEN "duplicate" ELSE "invalid"))
      \/ /\ active[c][i] = None /\ active' = [active EXCEPT ![c][i] = r]
         /\ \/ At(r, "failing") /\ Send(c, Response(r, "error"))
            \/ At(r, "running") /\ UNCHANGED wire
  BY DEF Handle
<1> QED
  BY <1>1, <1>2, <1>3, <1>4 DEF Results

LEMMA SendUpdateTyped ==
  ASSUME TypeOK, NEW r \in Requests, From(r) \in Connections, NEW n \in 1..MaxUpdates,
         SendUpdate(r, n)
  PROVE  /\ wire' \in [Connections -> Seq(Message)]
         /\ \/ encoder[From(r)] = None /\ UNCHANGED wire
            \/ /\ encoder[From(r)] \in Requests
               /\ Sends(From(r), [type |-> "update", encoder |-> encoder[From(r)], request |-> r, n |-> n])
<1> DEFINE q == encoder[From(r)]
<1> DEFINE m == [type |-> "update", encoder |-> q, request |-> r, n |-> n]
<1>1. wire \in [Connections -> Seq(Message)] /\ q \in Requests \cup {None}
  BY DEF TypeOK, ServerTypes, ConnectionTypes, RequestTypes
<1>2. CASE q = None
  BY <1>1, <1>2 DEF SendUpdate
<1>3. CASE q # None
  <2>1. m \in Message
    BY <1>1, <1>3, MessageTyped
  <2>2. Send(From(r), m)
    BY <1>3 DEF SendUpdate
  <2>3. wire' \in [Connections -> Seq(Message)] /\ Sends(From(r), m)
    BY <1>1, <2>1, <2>2, SendTyped
  <2> QED
    BY <1>1, <1>3, <2>3
<1> QED
  BY <1>2, <1>3

LEMMA UpdateTyped ==
  ASSUME TypeOK, NEW r \in Requests, From(r) \in Connections, NEW n \in 1..MaxUpdates,
         Update(r, n)
  PROVE  wire' \in [Connections -> Seq(Message)] /\ pending' \in [Requests -> Seq(1..MaxUpdates)]
<1>1. CASE pc[r] = "subscribed"
  BY <1>1, SendUpdateTyped DEF Update, TypeOK, ServerTypes, ConnectionTypes, RequestTypes
<1>2. CASE pc[r] # "subscribed"
  <2>1. pending' = [pending EXCEPT ![r] = Append(@, n)] /\ UNCHANGED wire
    BY <1>2 DEF Update
  <2>2. pending \in [Requests -> Seq(1..MaxUpdates)] /\ wire \in [Connections -> Seq(Message)]
    BY DEF TypeOK, ConnectionTypes, RequestTypes
  <2>3. Append(pending[r], n) \in Seq(1..MaxUpdates)
    BY <2>2
  <2> QED
    BY <2>1, <2>2, <2>3
<1> QED
  BY <1>1, <1>2

LEMMA TypeStep ==
  ASSUME ServerInv, [Next]_vars
  PROVE  TypeOK'
<1>0. TypeOK /\ ServerTypes /\ ConnectionTypes /\ RequestTypes
  BY DEF ServerInv, TypeOK
<1>1. ASSUME NEW c \in Connections, Accept(c) PROVE ServerTypes' /\ ConnectionTypes' /\ RequestTypes'
  <2>T1. ServerTypes'
    BY <1>0, <1>1 DEF ServerTypes, Accept, serverVars, connectionVars, handshakeVars, requestVars, subscriptionVars
  <2>a. transport[c] = "none" /\ ConnectionInv(c)
    BY <1>1 DEF Accept, ServerInv
  <2>0. c \notin disconnected
    BY <2>a DEF ConnectionInv
  <2>b. /\ transport' \in [Connections -> {"none", "open", "refused", "unclosed", "closed"}]
        /\ stage' \in [Connections ->
                       {"none", "awaitingHello", "handshaking", "ready", "closing", "closed"}]
    BY <1>0, <1>1 DEF ConnectionTypes, Accept
  <2>c. connections' \subseteq Connections \ disconnected /\ UNCHANGED <<disconnected, dropping, handshakeVars, wire>>
    BY <1>0, <1>1, <2>0 DEF ConnectionTypes, Accept
  <2>T2. ConnectionTypes'
    BY <1>0, <2>b, <2>c DEF ConnectionTypes, handshakeVars
  <2>T3. RequestTypes'
    BY <1>0, <1>1 DEF RequestTypes, Accept, serverVars, connectionVars, handshakeVars, requestVars, subscriptionVars
  <2> QED
    BY <2>T1, <2>T2, <2>T3
<1>2. ASSUME NEW c \in Connections, Hello(c) PROVE ServerTypes' /\ ConnectionTypes' /\ RequestTypes'
  <2>T1. ServerTypes'
    BY <1>0, <1>2 DEF ServerTypes, Hello, serverVars, connectionVars, handshakeVars, requestVars, subscriptionVars
  <2>T2. ConnectionTypes'
    BY <1>0, <1>2 DEF ConnectionTypes, Hello, serverVars, connectionVars, handshakeVars, requestVars, subscriptionVars
  <2>T3. RequestTypes'
    BY <1>0, <1>2 DEF RequestTypes, Hello, serverVars, connectionVars, handshakeVars, requestVars, subscriptionVars
  <2> QED
    BY <2>T1, <2>T2, <2>T3
<1>3. ASSUME NEW c \in Connections, Greeted(c) PROVE ServerTypes' /\ ConnectionTypes' /\ RequestTypes'
  <2>T1. ServerTypes'
    BY <1>0, <1>3 DEF ServerTypes, Greeted, serverVars, connectionVars, handshakeVars, requestVars, subscriptionVars
  <2>T2. ConnectionTypes'
    BY <1>0, <1>3 DEF ConnectionTypes, Greeted, serverVars, connectionVars, handshakeVars, requestVars, subscriptionVars
  <2>T3. RequestTypes'
    BY <1>0, <1>3 DEF RequestTypes, Greeted, serverVars, connectionVars, handshakeVars, requestVars, subscriptionVars
  <2> QED
    BY <2>T1, <2>T2, <2>T3
<1>4. ASSUME NEW c \in Connections, EndpointReleased(c) PROVE ServerTypes' /\ ConnectionTypes' /\ RequestTypes'
  <2>T1. ServerTypes'
    BY <1>0, <1>4 DEF ServerTypes, EndpointReleased, serverVars, connectionVars, handshakeVars, requestVars, subscriptionVars
  <2>T2. ConnectionTypes'
    BY <1>0, <1>4 DEF ConnectionTypes, EndpointReleased, serverVars, connectionVars, handshakeVars, requestVars, subscriptionVars
  <2>T3. RequestTypes'
    BY <1>0, <1>4 DEF RequestTypes, EndpointReleased, serverVars, connectionVars, handshakeVars, requestVars, subscriptionVars
  <2> QED
    BY <2>T1, <2>T2, <2>T3
<1>5. ASSUME NEW c \in Connections, TransportError(c) PROVE ServerTypes' /\ ConnectionTypes' /\ RequestTypes'
  <2>T1. ServerTypes'
    BY <1>0, <1>5 DEF ServerTypes, TransportError, Drop, serverVars, connectionVars, handshakeVars, requestVars, subscriptionVars
  <2>T2. ConnectionTypes'
    BY <1>0, <1>5 DEF ConnectionTypes, TransportError, Drop, serverVars, connectionVars, handshakeVars, requestVars, subscriptionVars
  <2>T3. RequestTypes'
    BY <1>0, <1>5 DEF RequestTypes, TransportError, Drop, serverVars, connectionVars, handshakeVars, requestVars, subscriptionVars
  <2> QED
    BY <2>T1, <2>T2, <2>T3
<1>6. ASSUME NEW c \in Connections, GreetingLost(c) PROVE ServerTypes' /\ ConnectionTypes' /\ RequestTypes'
  <2>T1. ServerTypes'
    BY <1>0, <1>6 DEF ServerTypes, GreetingLost, Drop, serverVars, connectionVars, handshakeVars, requestVars, subscriptionVars
  <2>T2. ConnectionTypes'
    BY <1>0, <1>6 DEF ConnectionTypes, GreetingLost, Drop, serverVars, connectionVars, handshakeVars, requestVars, subscriptionVars
  <2>T3. RequestTypes'
    BY <1>0, <1>6 DEF RequestTypes, GreetingLost, Drop, serverVars, connectionVars, handshakeVars, requestVars, subscriptionVars
  <2> QED
    BY <2>T1, <2>T2, <2>T3
<1>7. ASSUME NEW c \in Connections, BadMessage(c) PROVE ServerTypes' /\ ConnectionTypes' /\ RequestTypes'
  <2>T1. ServerTypes'
    BY <1>0, <1>7 DEF ServerTypes, BadMessage, serverVars, connectionVars, handshakeVars, requestVars, subscriptionVars
  <2>T2. ConnectionTypes'
    BY <1>0, <1>7, FailProtocolTyped DEF ConnectionTypes, BadMessage, serverVars, connectionVars, handshakeVars, requestVars, subscriptionVars
  <2>T3. RequestTypes'
    BY <1>0, <1>7 DEF RequestTypes, BadMessage, serverVars, connectionVars, handshakeVars, requestVars, subscriptionVars
  <2> QED
    BY <2>T1, <2>T2, <2>T3
<1>8. ASSUME NEW c \in Connections, HandshakeTimeout(c) PROVE ServerTypes' /\ ConnectionTypes' /\ RequestTypes'
  <2>T1. ServerTypes'
    BY <1>0, <1>8 DEF ServerTypes, HandshakeTimeout, serverVars, connectionVars, handshakeVars, requestVars, subscriptionVars
  <2>T2. ConnectionTypes'
    BY <1>0, <1>8, FailProtocolTyped DEF ConnectionTypes, HandshakeTimeout, serverVars, connectionVars, handshakeVars, requestVars, subscriptionVars
  <2>T3. RequestTypes'
    BY <1>0, <1>8 DEF RequestTypes, HandshakeTimeout, serverVars, connectionVars, handshakeVars, requestVars, subscriptionVars
  <2> QED
    BY <2>T1, <2>T2, <2>T3
<1>9. ASSUME NEW c \in Connections, EndpointRefused(c) PROVE ServerTypes' /\ ConnectionTypes' /\ RequestTypes'
  <2>T1. ServerTypes'
    BY <1>0, <1>9 DEF ServerTypes, EndpointRefused, serverVars, connectionVars, handshakeVars, requestVars, subscriptionVars
  <2>T2. ConnectionTypes'
    BY <1>0, <1>9, FailProtocolTyped DEF ConnectionTypes, EndpointRefused, serverVars, connectionVars, handshakeVars, requestVars, subscriptionVars
  <2>T3. RequestTypes'
    BY <1>0, <1>9 DEF RequestTypes, EndpointRefused, serverVars, connectionVars, handshakeVars, requestVars, subscriptionVars
  <2> QED
    BY <2>T1, <2>T2, <2>T3
<1>10. ASSUME NEW c \in Connections, TransportClosed(c) PROVE ServerTypes' /\ ConnectionTypes' /\ RequestTypes'
  <2>1. {c} \in SUBSET Connections /\ Disconnect({c})
    BY <1>10 DEF TransportClosed
  <2>T1. ServerTypes'
    BY <1>0, <1>10, <2>1 DEF ServerTypes, TransportClosed, serverVars, connectionVars, handshakeVars, requestVars, subscriptionVars
  <2>T2. ConnectionTypes'
    BY <1>0, <1>10, <2>1, DisconnectTyped DEF ConnectionTypes, TransportClosed, Closes, serverVars, connectionVars, handshakeVars, requestVars, subscriptionVars
  <2>T3. RequestTypes'
    BY <1>0, <1>10, <2>1, DisconnectTyped DEF RequestTypes, TransportClosed, serverVars, connectionVars, handshakeVars, requestVars, subscriptionVars
  <2> QED
    BY <2>T1, <2>T2, <2>T3
<1>11. ASSUME NEW c \in Connections, NEW F \in SUBSET Connections, Dropped(c, F) PROVE ServerTypes' /\ ConnectionTypes' /\ RequestTypes'
  <2>1. {c} \in SUBSET Connections /\ Disconnect({c})
    BY <1>11 DEF Dropped
  <2>T1. ServerTypes'
    BY <1>0, <1>11, <2>1 DEF ServerTypes, Dropped, serverVars, connectionVars, handshakeVars, requestVars, subscriptionVars
  <2>T2. ConnectionTypes'
    BY <1>0, <1>11, <2>1, DisconnectTyped DEF ConnectionTypes, Dropped, Closes, serverVars, connectionVars, handshakeVars, requestVars, subscriptionVars
  <2>T3. RequestTypes'
    BY <1>0, <1>11, <2>1, DisconnectTyped DEF RequestTypes, Dropped, serverVars, connectionVars, handshakeVars, requestVars, subscriptionVars
  <2> QED
    BY <2>T1, <2>T2, <2>T3
<1>12. ASSUME NEW c \in Connections, EndpointGiven(c) PROVE ServerTypes' /\ ConnectionTypes' /\ RequestTypes'
  <2>1. wire' \in [Connections -> Seq(Message)]
    BY <1>0, <1>12, SendTyped, MessageTyped DEF ConnectionTypes, EndpointGiven
  <2>T1. ServerTypes'
    BY <1>0, <1>12 DEF ServerTypes, EndpointGiven, serverVars, connectionVars, handshakeVars, requestVars, subscriptionVars
  <2>T2. ConnectionTypes'
    BY <1>0, <1>12, <2>1 DEF ConnectionTypes, EndpointGiven, serverVars, connectionVars, handshakeVars, requestVars, subscriptionVars
  <2>T3. RequestTypes'
    BY <1>0, <1>12 DEF RequestTypes, EndpointGiven, serverVars, connectionVars, handshakeVars, requestVars, subscriptionVars
  <2> QED
    BY <2>T1, <2>T2, <2>T3
<1>13. ASSUME NEW c \in Connections, NEW i \in Ids, Cancel(c, i) PROVE ServerTypes' /\ ConnectionTypes' /\ RequestTypes'
  <2>T1. ServerTypes'
    BY <1>0, <1>13 DEF ServerTypes, Cancel, serverVars, connectionVars, handshakeVars, requestVars, subscriptionVars
  <2>T2. ConnectionTypes'
    BY <1>0, <1>13 DEF ConnectionTypes, Cancel, serverVars, connectionVars, handshakeVars, requestVars, subscriptionVars
  <2>T3. RequestTypes'
    BY <1>0, <1>13 DEF RequestTypes, Cancel, serverVars, connectionVars, handshakeVars, requestVars, subscriptionVars
  <2> QED
    BY <2>T1, <2>T2, <2>T3
<1>14. ASSUME NEW c \in Connections, NEW i \in Ids, NEW call \in Calls, Receive(c, i, call) PROVE ServerTypes' /\ ConnectionTypes' /\ RequestTypes'
  <2>1. /\ Next1 \in Requests
        /\ asked' = [asked EXCEPT ![Next1] = [from |-> c, id |-> i, call |-> call]]
        /\ \/ held' = [held EXCEPT ![c] = Append(@, Next1)] /\ At(Next1, "held") /\ UNCHANGED <<active, wire>>
           \/ Handle(c, Next1) /\ UNCHANGED held
    BY <1>14 DEF Receive, Next1
  <2>2. asked'[Next1] \in [from : Connections, id : Ids, call : Calls]
    BY <1>0, <2>1 DEF RequestTypes
  <2>a. asked' \in [Requests -> [from : Connections, id : Ids, call : Calls] \cup {None}]
    BY <1>0, <2>1 DEF RequestTypes
  <2>b. Append(held[c], Next1) \in Seq(Requests)
    BY <1>0, <2>1 DEF RequestTypes
  <2>c. held' \in [Connections -> Seq(Requests)]
    BY <1>0, <2>1, <2>b DEF RequestTypes
  <2>3. /\ asked' \in [Requests -> [from : Connections, id : Ids, call : Calls] \cup {None}]
        /\ held' \in [Connections -> Seq(Requests)]
    BY <2>a, <2>c
  <2>4. /\ active' \in [Connections -> [Ids -> Requests \cup {None}]]
        /\ pc' \in [Requests -> {"no", "held", "refused", "running", "failing", "responding",
                                 "losing", "stuck", "subscribed", "done"}]
        /\ wire' \in [Connections -> Seq(Message)]
    BY <1>0, <2>1, <2>2, HandleTyped DEF RequestTypes, ConnectionTypes, At
  <2>T1. ServerTypes'
    BY <1>0, <1>14 DEF ServerTypes, Receive, serverVars, connectionVars, handshakeVars, requestVars, subscriptionVars
  <2>T2. ConnectionTypes'
    BY <1>0, <1>14, <2>4 DEF ConnectionTypes, Receive, serverVars, connectionVars, handshakeVars, requestVars, subscriptionVars
  <2>T3. RequestTypes'
    BY <1>0, <1>14, <2>3, <2>4 DEF RequestTypes, Receive, serverVars, connectionVars, handshakeVars, requestVars, subscriptionVars
  <2> QED
    BY <2>T1, <2>T2, <2>T3
<1>15. ASSUME NEW c \in Connections, HandleHeld(c) PROVE ServerTypes' /\ ConnectionTypes' /\ RequestTypes'
  <2> DEFINE r == Head(held[c])
  <2>1. /\ held[c] \in Seq(Requests) /\ held[c] # <<>> /\ asked' = asked
        /\ held' = [held EXCEPT ![c] = Tail(@)] /\ Handle(c, r)
    BY <1>0, <1>15 DEF HandleHeld, RequestTypes
  <2>2. r \in Requests /\ Tail(held[c]) \in Seq(Requests) /\ 1 \in 1..Len(held[c]) /\ r = held[c][1]
    BY <2>1
  <2>a. pc[r] = "held" /\ RequestInv(r)
    BY <2>2 DEF ServerInv, HeldInv
  <2>3. asked'[r] \in [from : Connections, id : Ids, call : Calls]
    BY <1>0, <2>1, <2>2, <2>a DEF RequestTypes, RequestInv
  <2>4. /\ active' \in [Connections -> [Ids -> Requests \cup {None}]]
        /\ pc' \in [Requests -> {"no", "held", "refused", "running", "failing", "responding",
                                 "losing", "stuck", "subscribed", "done"}]
        /\ wire' \in [Connections -> Seq(Message)]
    BY <1>0, <2>1, <2>2, <2>3, HandleTyped
  <2>5. held' \in [Connections -> Seq(Requests)]
    BY <1>0, <2>1, <2>2 DEF RequestTypes
  <2> HIDE DEF r
  <2>T1. ServerTypes'
    BY <1>0, <1>15 DEF ServerTypes, HandleHeld, serverVars, connectionVars, handshakeVars, requestVars, subscriptionVars
  <2>T2. ConnectionTypes'
    BY <1>0, <1>15, <2>4 DEF ConnectionTypes, HandleHeld, serverVars, connectionVars, handshakeVars, requestVars, subscriptionVars
  <2>T3. RequestTypes'
    BY <1>0, <1>15, <2>1, <2>4, <2>5 DEF RequestTypes, HandleHeld, serverVars, connectionVars, handshakeVars, requestVars, subscriptionVars
  <2> QED
    BY <2>T1, <2>T2, <2>T3
<1>16. ASSUME NEW r \in Requests, Answered(r) PROVE ServerTypes' /\ ConnectionTypes' /\ RequestTypes'
  <2>1. asked[r] \in [from : Connections, id : Ids, call : Calls]
    BY <1>0, <1>16 DEF Answered, RequestTypes, ServerInv, RequestInv
  <2>2. wire' \in [Connections -> Seq(Message)]
    BY <1>0, <1>16, <2>1, ResponseTyped DEF Answered, ConnectionTypes, From, Results
  <2>3. encoder' \in [Connections -> Requests \cup {None}]
    BY <1>0, <1>16, <2>1 DEF Answered, Subscribes, RequestTypes, From
  <2>T1. ServerTypes'
    BY <1>0, <1>16 DEF ServerTypes, Answered, serverVars, connectionVars, handshakeVars, requestVars, subscriptionVars
  <2>T2. ConnectionTypes'
    BY <1>0, <1>16, <2>2 DEF ConnectionTypes, Answered, serverVars, connectionVars, handshakeVars, requestVars, subscriptionVars
  <2>T3. RequestTypes'
    BY <1>0, <1>16, <2>3 DEF RequestTypes, Answered, At, serverVars, connectionVars, handshakeVars, requestVars, subscriptionVars
  <2> QED
    BY <2>T1, <2>T2, <2>T3
<1>17. ASSUME NEW r \in Requests, Failed(r) PROVE ServerTypes' /\ ConnectionTypes' /\ RequestTypes'
  <2>1. asked[r] \in [from : Connections, id : Ids, call : Calls]
    BY <1>0, <1>17 DEF Failed, RequestTypes, ServerInv, RequestInv
  <2>2. wire' \in [Connections -> Seq(Message)]
    BY <1>0, <1>17, <2>1, ResponseTyped DEF Failed, ConnectionTypes, From, Results
  <2>T1. ServerTypes'
    BY <1>0, <1>17 DEF ServerTypes, Failed, serverVars, connectionVars, handshakeVars, requestVars, subscriptionVars
  <2>T2. ConnectionTypes'
    BY <1>0, <1>17, <2>2 DEF ConnectionTypes, Failed, serverVars, connectionVars, handshakeVars, requestVars, subscriptionVars
  <2>T3. RequestTypes'
    BY <1>0, <1>17 DEF RequestTypes, Failed, At, serverVars, connectionVars, handshakeVars, requestVars, subscriptionVars
  <2> QED
    BY <2>T1, <2>T2, <2>T3
<1>18. ASSUME NEW r \in Requests, ResponseLost(r) PROVE ServerTypes' /\ ConnectionTypes' /\ RequestTypes'
  <2>1. asked[r] \in [from : Connections, id : Ids, call : Calls]
    BY <1>0, <1>18 DEF ResponseLost, RequestTypes, ServerInv, RequestInv
  <2>3. encoder' \in [Connections -> Requests \cup {None}]
    BY <1>0, <1>18, <2>1 DEF ResponseLost, Subscribes, RequestTypes, From
  <2>T1. ServerTypes'
    BY <1>0, <1>18 DEF ServerTypes, ResponseLost, serverVars, connectionVars, handshakeVars, requestVars, subscriptionVars
  <2>T2. ConnectionTypes'
    BY <1>0, <1>18, <2>1 DEF ConnectionTypes, ResponseLost, Drop, From, serverVars, connectionVars, handshakeVars, requestVars, subscriptionVars
  <2>T3. RequestTypes'
    BY <1>0, <1>18, <2>3 DEF RequestTypes, ResponseLost, At, serverVars, connectionVars, handshakeVars, requestVars, subscriptionVars
  <2> QED
    BY <2>T1, <2>T2, <2>T3
<1>19. ASSUME NEW r \in Requests, Publish(r) PROVE ServerTypes' /\ ConnectionTypes' /\ RequestTypes'
  <2> DEFINE n == published[r] + 1
  <2>0. published[r] < MaxUpdates /\ published' = [published EXCEPT ![r] = @ + 1] /\ Update(r, n)
    BY <1>19 DEF Publish, Publishes
  <2>1. n \in 1..MaxUpdates /\ published' = [published EXCEPT ![r] = n] /\ Update(r, n)
    BY <1>0, <2>0, ServerAssumption DEF RequestTypes
  <2>2. From(r) \in Connections
    BY <1>0, <1>19 DEF Publish, Publishes, RequestTypes, From
  <2>3. wire' \in [Connections -> Seq(Message)] /\ pending' \in [Requests -> Seq(1..MaxUpdates)]
    BY <1>0, <2>1, <2>2, UpdateTyped
  <2>4. published' \in [Requests -> 0..MaxUpdates]
    BY <1>0, <2>1 DEF RequestTypes
  <2> HIDE DEF n
  <2>T1. ServerTypes'
    BY <1>0, <1>19 DEF ServerTypes, Publish, serverVars, connectionVars, handshakeVars, requestVars, subscriptionVars
  <2>T2. ConnectionTypes'
    BY <1>0, <1>19, <2>3 DEF ConnectionTypes, Publish, serverVars, connectionVars, handshakeVars, requestVars, subscriptionVars
  <2>T3. RequestTypes'
    BY <1>0, <1>19, <2>3, <2>4 DEF RequestTypes, Publish, serverVars, connectionVars, handshakeVars, requestVars, subscriptionVars
  <2> QED
    BY <2>T1, <2>T2, <2>T3
<1>20. ASSUME NEW r \in Requests, SendEnds(r) PROVE ServerTypes' /\ ConnectionTypes' /\ RequestTypes'
  <2>1. asked[r] \in [from : Connections, id : Ids, call : Calls]
    BY <1>0, <1>20 DEF SendEnds, RequestTypes, ServerInv, RequestInv
  <2>2. CASE /\ pending[r] # <<>> /\ SendUpdate(r, Head(pending[r]))
             /\ pending' = [pending EXCEPT ![r] = Tail(@)] /\ UNCHANGED <<pc, active>>
    <3>1. pending[r] \in Seq(1..MaxUpdates)
      BY <1>0 DEF RequestTypes
    <3>2. Head(pending[r]) \in 1..MaxUpdates /\ Tail(pending[r]) \in Seq(1..MaxUpdates)
      <4>1. pending[r] # <<>>
        BY <2>2
      <4> QED
        BY <3>1, <4>1, HeadTailProperties
    <3>3. pending' \in [Requests -> Seq(1..MaxUpdates)]
      BY <1>0, <2>2, <3>2 DEF RequestTypes
    <3>4. wire' \in [Connections -> Seq(Message)]
      BY <1>0, <2>1, <2>2, <3>2, SendUpdateTyped DEF From
    <3>5. ServerTypes'
      BY <1>0, <1>20 DEF ServerTypes, SendEnds, serverVars
    <3>6. ConnectionTypes'
      BY <1>0, <1>20, <3>4 DEF ConnectionTypes, SendEnds, connectionVars, handshakeVars
    <3>7. RequestTypes'
      BY <1>0, <1>20, <2>2, <3>3 DEF RequestTypes, SendEnds
    <3> QED
      BY <3>5, <3>6, <3>7
  <2>3. CASE Over(r) /\ UNCHANGED <<wire, pending>>
    <3>5. ServerTypes'
      BY <1>0, <1>20 DEF ServerTypes, SendEnds, serverVars
    <3>6. ConnectionTypes'
      BY <1>0, <1>20, <2>3 DEF ConnectionTypes, SendEnds, connectionVars, handshakeVars
    <3>7. active' \in [Connections -> [Ids -> Requests \cup {None}]]
      BY <1>0, <2>1, <2>3 DEF RequestTypes, Over, From
    <3>8. pc' \in [Requests -> {"no", "held", "refused", "running", "failing", "responding",
                                 "losing", "stuck", "subscribed", "done"}]
      BY <1>0, <2>3 DEF RequestTypes, Over, At
    <3>9. RequestTypes'
      BY <1>0, <1>20, <2>3, <3>7, <3>8 DEF RequestTypes, SendEnds
    <3> QED
      BY <3>5, <3>6, <3>9
  <2> QED
    BY <1>20, <2>2, <2>3 DEF SendEnds
<1>21. ASSUME Start PROVE ServerTypes' /\ ConnectionTypes' /\ RequestTypes'
  <2>T1. ServerTypes'
    BY <1>0, <1>21 DEF ServerTypes, Start, serverVars, connectionVars, handshakeVars, requestVars, subscriptionVars
  <2>T2. ConnectionTypes'
    BY <1>0, <1>21 DEF ConnectionTypes, Start, serverVars, connectionVars, handshakeVars, requestVars, subscriptionVars
  <2>T3. RequestTypes'
    BY <1>0, <1>21 DEF RequestTypes, Start, serverVars, connectionVars, handshakeVars, requestVars, subscriptionVars
  <2> QED
    BY <2>T1, <2>T2, <2>T3
<1>22. ASSUME ListenerFails PROVE ServerTypes' /\ ConnectionTypes' /\ RequestTypes'
  <2>T1. ServerTypes'
    BY <1>0, <1>22 DEF ServerTypes, ListenerFails, serverVars, connectionVars, handshakeVars, requestVars, subscriptionVars
  <2>T2. ConnectionTypes'
    BY <1>0, <1>22 DEF ConnectionTypes, ListenerFails, serverVars, connectionVars, handshakeVars, requestVars, subscriptionVars
  <2>T3. RequestTypes'
    BY <1>0, <1>22 DEF RequestTypes, ListenerFails, serverVars, connectionVars, handshakeVars, requestVars, subscriptionVars
  <2> QED
    BY <2>T1, <2>T2, <2>T3
<1>23. ASSUME Close PROVE ServerTypes' /\ ConnectionTypes' /\ RequestTypes'
  <2>T1. ServerTypes'
    BY <1>0, <1>23 DEF ServerTypes, Close, serverVars, connectionVars, handshakeVars, requestVars, subscriptionVars
  <2>T2. ConnectionTypes'
    BY <1>0, <1>23 DEF ConnectionTypes, Close, serverVars, connectionVars, handshakeVars, requestVars, subscriptionVars
  <2>T3. RequestTypes'
    BY <1>0, <1>23 DEF RequestTypes, Close, serverVars, connectionVars, handshakeVars, requestVars, subscriptionVars
  <2> QED
    BY <2>T1, <2>T2, <2>T3
<1>24. ASSUME CloseProceeds PROVE ServerTypes' /\ ConnectionTypes' /\ RequestTypes'
  <2>T1. ServerTypes'
    BY <1>0, <1>24 DEF ServerTypes, CloseProceeds, serverVars, connectionVars, handshakeVars, requestVars, subscriptionVars
  <2>T2. ConnectionTypes'
    BY <1>0, <1>24 DEF ConnectionTypes, CloseProceeds, serverVars, connectionVars, handshakeVars, requestVars, subscriptionVars
  <2>T3. RequestTypes'
    BY <1>0, <1>24 DEF RequestTypes, CloseProceeds, serverVars, connectionVars, handshakeVars, requestVars, subscriptionVars
  <2> QED
    BY <2>T1, <2>T2, <2>T3
<1>25. ASSUME ListenerStarts PROVE ServerTypes' /\ ConnectionTypes' /\ RequestTypes'
  <2>T1. ServerTypes'
    BY <1>0, <1>25, ServerAssumption DEF ServerTypes, ListenerStarts, ServerInv, ShutdownInv, serverVars, connectionVars, handshakeVars, requestVars, subscriptionVars
  <2>T2. ConnectionTypes'
    BY <1>0, <1>25 DEF ConnectionTypes, ListenerStarts, serverVars, connectionVars, handshakeVars, requestVars, subscriptionVars
  <2>T3. RequestTypes'
    BY <1>0, <1>25 DEF RequestTypes, ListenerStarts, serverVars, connectionVars, handshakeVars, requestVars, subscriptionVars
  <2> QED
    BY <2>T1, <2>T2, <2>T3
<1>26. ASSUME NEW ok \in BOOLEAN, ListenersClosed(ok) PROVE ServerTypes' /\ ConnectionTypes' /\ RequestTypes'
  <2>T1. ServerTypes'
    BY <1>0, <1>26, ServerAssumption DEF ServerTypes, ListenersClosed, ConnectionTypes, serverVars, connectionVars, handshakeVars, requestVars, subscriptionVars
  <2>T2. ConnectionTypes'
    BY <1>0, <1>26 DEF ConnectionTypes, ListenersClosed, serverVars, connectionVars, handshakeVars, requestVars, subscriptionVars
  <2>T3. RequestTypes'
    BY <1>0, <1>26 DEF RequestTypes, ListenersClosed, serverVars, connectionVars, handshakeVars, requestVars, subscriptionVars
  <2> QED
    BY <2>T1, <2>T2, <2>T3
<1>27. ASSUME NEW F \in SUBSET Connections, ConnectionsClosed(F) PROVE ServerTypes' /\ ConnectionTypes' /\ RequestTypes'
  <2>1. snapshot \in SUBSET Connections /\ Disconnect(snapshot)
    BY <1>0, <1>27 DEF ConnectionsClosed, ServerTypes
  <2>T1. ServerTypes'
    BY <1>0, <1>27, <2>1 DEF ServerTypes, ConnectionsClosed, serverVars, connectionVars, handshakeVars, requestVars, subscriptionVars
  <2>T2. ConnectionTypes'
    BY <1>0, <1>27, <2>1, DisconnectTyped DEF ConnectionTypes, ConnectionsClosed, Closes, serverVars, connectionVars, handshakeVars, requestVars, subscriptionVars
  <2>T3. RequestTypes'
    BY <1>0, <1>27, <2>1, DisconnectTyped DEF RequestTypes, ConnectionsClosed, serverVars, connectionVars, handshakeVars, requestVars, subscriptionVars
  <2> QED
    BY <2>T1, <2>T2, <2>T3
<1>28. ASSUME NEW ok \in BOOLEAN, RouterClosed(ok) PROVE ServerTypes' /\ ConnectionTypes' /\ RequestTypes'
  <2>T1. ServerTypes'
    BY <1>0, <1>28 DEF ServerTypes, RouterClosed, serverVars, connectionVars, handshakeVars, requestVars, subscriptionVars
  <2>T2. ConnectionTypes'
    BY <1>0, <1>28 DEF ConnectionTypes, RouterClosed, serverVars, connectionVars, handshakeVars, requestVars, subscriptionVars
  <2>T3. RequestTypes'
    BY <1>0, <1>28 DEF RequestTypes, RouterClosed, serverVars, connectionVars, handshakeVars, requestVars, subscriptionVars
  <2> QED
    BY <2>T1, <2>T2, <2>T3
<1>29. ASSUME UNCHANGED vars PROVE ServerTypes' /\ ConnectionTypes' /\ RequestTypes'
  <2>T1. ServerTypes'
    BY <1>0, <1>29 DEF ServerTypes, vars, serverVars, connectionVars, handshakeVars, requestVars, subscriptionVars
  <2>T2. ConnectionTypes'
    BY <1>0, <1>29 DEF ConnectionTypes, vars, serverVars, connectionVars, handshakeVars, requestVars, subscriptionVars
  <2>T3. RequestTypes'
    BY <1>0, <1>29 DEF RequestTypes, vars, serverVars, connectionVars, handshakeVars, requestVars, subscriptionVars
  <2> QED
    BY <2>T1, <2>T2, <2>T3
<1>31. ASSUME NEW c \in Connections, LeftoverCloses(c) PROVE ServerTypes' /\ ConnectionTypes' /\ RequestTypes'
  <2>T1. ServerTypes'
    BY <1>0, <1>31 DEF ServerTypes, LeftoverCloses, serverVars, connectionVars, handshakeVars, requestVars, subscriptionVars
  <2>T2. ConnectionTypes'
    BY <1>0, <1>31 DEF ConnectionTypes, LeftoverCloses, Closes, serverVars, connectionVars, handshakeVars, requestVars, subscriptionVars
  <2>T3. RequestTypes'
    BY <1>0, <1>31 DEF RequestTypes, LeftoverCloses, serverVars, connectionVars, handshakeVars, requestVars, subscriptionVars
  <2> QED
    BY <2>T1, <2>T2, <2>T3
<1>32. ASSUME NEW c \in Connections, PublishAttachment(c) PROVE ServerTypes' /\ ConnectionTypes' /\ RequestTypes'
  <2>1. wire' \in [Connections -> Seq(Message)]
    BY <1>0, <1>32, SendTyped, MessageTyped DEF ConnectionTypes, PublishAttachment
  <2>T1. ServerTypes'
    BY <1>0, <1>32 DEF ServerTypes, PublishAttachment, serverVars, connectionVars, handshakeVars, requestVars, subscriptionVars
  <2>T2. ConnectionTypes'
    BY <1>0, <1>32, <2>1 DEF ConnectionTypes, PublishAttachment, serverVars, connectionVars, handshakeVars, requestVars, subscriptionVars
  <2>T3. RequestTypes'
    BY <1>0, <1>32 DEF RequestTypes, PublishAttachment, serverVars, connectionVars, handshakeVars, requestVars, subscriptionVars
  <2> QED
    BY <2>T1, <2>T2, <2>T3
<1>33. ASSUME NEW r \in Requests, PublishLost(r) PROVE ServerTypes' /\ ConnectionTypes' /\ RequestTypes'
  <2> DEFINE n == published[r] + 1
  <2>0. published[r] < MaxUpdates /\ published' = [published EXCEPT ![r] = @ + 1] /\ Loses(r, n)
    BY <1>33 DEF PublishLost, Publishes
  <2>a. n \in 1..MaxUpdates /\ published' = [published EXCEPT ![r] = n]
    BY <1>0, <2>0, ServerAssumption DEF RequestTypes
  <2>b. From(r) \in Connections
    BY <1>0, <1>33 DEF PublishLost, Publishes, RequestTypes, From
  <2> HIDE DEF n
  <2>1. published' \in [Requests -> 0..MaxUpdates]
    BY <1>0, <2>a DEF RequestTypes
  <2>2. lost' \in [Requests -> SUBSET (1..MaxUpdates)]
    BY <1>0, <2>0, <2>a DEF RequestTypes, Loses
  <2>T1. ServerTypes'
    BY <1>0, <1>33 DEF ServerTypes, PublishLost, serverVars, connectionVars, handshakeVars, requestVars, subscriptionVars
  <2>T2. ConnectionTypes'
    BY <1>0, <1>33, <2>b DEF ConnectionTypes, PublishLost, Drop, serverVars, connectionVars, handshakeVars, requestVars, subscriptionVars
  <2>T3. RequestTypes'
    BY <1>0, <1>33, <2>1, <2>2 DEF RequestTypes, PublishLost, serverVars, connectionVars, handshakeVars, requestVars, subscriptionVars
  <2> QED
    BY <2>T1, <2>T2, <2>T3
<1>34. ASSUME NEW r \in Requests, PendingLost(r) PROVE ServerTypes' /\ ConnectionTypes' /\ RequestTypes'
  <2>1. pending[r] \in Seq(1..MaxUpdates) /\ pending[r] # <<>>
    BY <1>0, <1>34 DEF RequestTypes, PendingLost
  <2>b. From(r) \in Connections
    BY <1>0, <1>34 DEF PendingLost, RequestTypes, From, ServerInv, RequestInv
  <2>a. Head(pending[r]) \in 1..MaxUpdates /\ Tail(pending[r]) \in Seq(1..MaxUpdates)
    BY <2>1, HeadTailProperties
  <2>2. pending' \in [Requests -> Seq(1..MaxUpdates)]
    BY <1>0, <1>34, <2>a DEF RequestTypes, PendingLost
  <2>3. lost' \in [Requests -> SUBSET (1..MaxUpdates)]
    BY <1>0, <1>34, <2>a DEF RequestTypes, PendingLost, Loses
  <2>4. pc' \in [Requests -> {"no", "held", "refused", "running", "failing", "responding",
                           "losing", "stuck", "subscribed", "done"}]
    BY <1>0, <1>34 DEF RequestTypes, PendingLost, At
  <2>T1. ServerTypes'
    BY <1>0, <1>34 DEF ServerTypes, PendingLost, serverVars, connectionVars, handshakeVars, requestVars, subscriptionVars
  <2>T2. ConnectionTypes'
    BY <1>0, <1>34, <2>b DEF ConnectionTypes, PendingLost, Drop, serverVars, connectionVars, handshakeVars, requestVars, subscriptionVars
  <2>T3. RequestTypes'
    BY <1>0, <1>34, <2>2, <2>3, <2>4 DEF RequestTypes, PendingLost, serverVars, connectionVars, handshakeVars, requestVars, subscriptionVars
  <2> QED
    BY <2>T1, <2>T2, <2>T3
<1>30. fails' \in 0..MaxFails
  BY <1>0, ServerAssumption DEF TypeOK, Next, Stopped, vars
<1>35. snapshot \subseteq Connections
  BY <1>0 DEF ServerTypes
<1> QED
  BY <1>1, <1>2, <1>3, <1>4, <1>5, <1>6, <1>7, <1>8, <1>9, <1>10, <1>11, <1>12, <1>13, <1>14, <1>15, <1>16, <1>17, <1>18, <1>19, <1>20, <1>21, <1>22, <1>23, <1>24, <1>25, <1>26, <1>27, <1>28, <1>29, <1>30, <1>31, <1>32, <1>33, <1>34, <1>35 DEF TypeOK, Next, Clients, Works, Failure, Stopped

-----------------------------------------------------------------------------
(* Connections *)

ConnectionBase == ConnectionTypes /\ \A c \in Connections : ConnectionInv(c) /\ GoneInv(c)

\* What disconnecting S does to a connection of S, and to another.
Disconnects(S) ==
  /\ disconnected' = disconnected \cup S /\ connections' = connections \ S
  /\ \A d \in Connections :
       IF d \in S
       THEN /\ stage'[d] = "closed" /\ wire'[d] = <<>> /\ services'[d] # "attached"
            /\ \A i \in Ids : active'[d][i] = None
            /\ encoder'[d] \in {None, encoder[d]}
       ELSE /\ stage'[d] = stage[d] /\ wire'[d] = wire[d] /\ services'[d] = services[d]
            /\ active'[d] = active[d] /\ encoder'[d] = encoder[d]

LEMMA DisconnectEffect ==
  ASSUME ServerInv, NEW S \in SUBSET Connections, Disconnect(S)
  PROVE  Disconnects(S)
<1>0. ConnectionTypes /\ RequestTypes
  BY DEF ServerInv, TypeOK
<1>1. disconnected' = disconnected \cup S /\ connections' = connections \ S
  BY <1>0 DEF Disconnect, ConnectionTypes
<1>2. ASSUME NEW d \in Connections, d \in S
      PROVE  /\ stage'[d] = "closed" /\ wire'[d] = <<>> /\ services'[d] # "attached"
             /\ \A i \in Ids : active'[d][i] = None
             /\ encoder'[d] \in {None, encoder[d]}
  <2>1. ConnectionInv(d) /\ GoneInv(d)
    BY DEF ServerInv
  <2>2. stage'[d] = "closed" /\ wire'[d] = <<>>
    BY <1>0, <1>2, <2>1 DEF Disconnect, ConnectionInv, GoneInv
  <2>3. services'[d] # "attached"
    BY <1>0, <1>2, <2>1 DEF Disconnect, ConnectionInv, ConnectionTypes
  <2>4. ASSUME NEW i \in Ids PROVE active'[d][i] = None
    BY <1>0, <1>2, <2>1 DEF Disconnect, GoneInv
  <2>5. encoder'[d] \in {None, encoder[d]}
    BY <1>0, <1>2 DEF Disconnect
  <2> QED
    BY <2>2, <2>3, <2>4, <2>5
<1>3. ASSUME NEW d \in Connections, d \notin S
      PROVE  /\ stage'[d] = stage[d] /\ wire'[d] = wire[d] /\ services'[d] = services[d]
             /\ active'[d] = active[d] /\ encoder'[d] = encoder[d]
  BY <1>3 DEF Disconnect
<1> QED
  BY <1>1, <1>2, <1>3 DEF Disconnects

LEMMA ConnectionStep ==
  ASSUME ServerInv, [Next]_vars, NEW d \in Connections
  PROVE  ConnectionInv(d)'
<1>0. ConnectionTypes /\ ConnectionInv(d) /\ ServerTypes /\ ShutdownInv
  BY DEF ServerInv, TypeOK
<1>1. ASSUME NEW c \in Connections, Accept(c) PROVE ConnectionInv(d)'
  BY <1>0, <1>1 DEF Accept, ConnectionInv, Connected, ConnectionTypes, connectionVars, handshakeVars
<1>2. ASSUME NEW c \in Connections, Hello(c) PROVE ConnectionInv(d)'
  BY <1>0, <1>2 DEF Hello, ConnectionInv, Connected, ConnectionTypes, connectionVars, handshakeVars
<1>3. ASSUME NEW c \in Connections, Greeted(c) PROVE ConnectionInv(d)'
  BY <1>0, <1>3 DEF Greeted, ConnectionInv, Connected, ConnectionTypes, connectionVars, handshakeVars
<1>4. ASSUME NEW c \in Connections, EndpointReleased(c) PROVE ConnectionInv(d)'
  BY <1>0, <1>4 DEF EndpointReleased, ConnectionInv, Connected, ConnectionTypes, connectionVars, handshakeVars
<1>5. ASSUME NEW c \in Connections, EndpointGiven(c) PROVE ConnectionInv(d)'
  BY <1>0, <1>5 DEF EndpointGiven, ConnectionInv, Connected, ConnectionTypes, connectionVars, handshakeVars, TooLate, Terminal
<1>6. ASSUME NEW c \in Connections, BadMessage(c) PROVE ConnectionInv(d)'
  <2>1. FailsProtocol(c)
    BY <1>6, FailProtocolTyped DEF BadMessage, ServerInv
  <2>2. /\ \/ stage' = stage
           \/ stage[c] \notin {"closing", "closed"} /\ stage' = [stage EXCEPT ![c] = "closing"]
        /\ transport[c] = "open" \/ stage[c] \in Connected \/ handshake[c] = "attaching"
    BY <1>0, <1>6, <2>1 DEF BadMessage, FailsProtocol, Terminal, Connected
  <2>3. UNCHANGED <<connections, transport, disconnected, services>>
    BY <1>6 DEF BadMessage, handshakeVars
  <2>4. \/ handshake' = handshake
        \/ handshake[c] = "attaching" /\ handshake' = [handshake EXCEPT ![c] = "done"]
    BY <1>6 DEF BadMessage, handshakeVars
  <2>5. ConnectionInv(c)
    BY DEF ServerInv
  <2> QED
    BY <1>0, <2>2, <2>3, <2>4, <2>5 DEF ConnectionInv, ConnectionTypes, Connected
<1>7. ASSUME NEW c \in Connections, HandshakeTimeout(c) PROVE ConnectionInv(d)'
  <2>1. FailsProtocol(c)
    BY <1>7, FailProtocolTyped DEF HandshakeTimeout, ServerInv
  <2>2. /\ \/ stage' = stage
           \/ stage[c] \notin {"closing", "closed"} /\ stage' = [stage EXCEPT ![c] = "closing"]
        /\ transport[c] = "open" \/ stage[c] \in Connected \/ handshake[c] = "attaching"
    BY <1>0, <1>7, <2>1 DEF HandshakeTimeout, FailsProtocol, Terminal, Connected
  <2>3. UNCHANGED <<connections, transport, disconnected, services>>
    BY <1>7 DEF HandshakeTimeout, handshakeVars
  <2>4. \/ handshake' = handshake
        \/ handshake[c] = "attaching" /\ handshake' = [handshake EXCEPT ![c] = "done"]
    BY <1>7 DEF HandshakeTimeout, handshakeVars
  <2>5. ConnectionInv(c)
    BY DEF ServerInv
  <2> QED
    BY <1>0, <2>2, <2>3, <2>4, <2>5 DEF ConnectionInv, ConnectionTypes, Connected
<1>8. ASSUME NEW c \in Connections, EndpointRefused(c) PROVE ConnectionInv(d)'
  <2>1. FailsProtocol(c)
    BY <1>8, FailProtocolTyped DEF EndpointRefused, ServerInv
  <2>2. /\ \/ stage' = stage
           \/ stage[c] \notin {"closing", "closed"} /\ stage' = [stage EXCEPT ![c] = "closing"]
        /\ transport[c] = "open" \/ stage[c] \in Connected \/ handshake[c] = "attaching"
    BY <1>0, <1>8, <2>1 DEF EndpointRefused, FailsProtocol, Terminal, Connected
  <2>3. UNCHANGED <<connections, transport, disconnected, services>>
    BY <1>8 DEF EndpointRefused, handshakeVars
  <2>4. \/ handshake' = handshake
        \/ handshake[c] = "attaching" /\ handshake' = [handshake EXCEPT ![c] = "done"]
    BY <1>8 DEF EndpointRefused, handshakeVars
  <2>5. ConnectionInv(c)
    BY DEF ServerInv
  <2> QED
    BY <1>0, <2>2, <2>3, <2>4, <2>5 DEF ConnectionInv, ConnectionTypes, Connected
<1>9. ASSUME NEW c \in Connections, TransportClosed(c) PROVE ConnectionInv(d)'
  <2>1. Disconnects({c})
    BY <1>9, DisconnectEffect DEF TransportClosed
  <2>2. transport' = [transport EXCEPT ![c] = "closed"] /\ UNCHANGED handshake
    BY <1>0, <1>9 DEF TransportClosed, Closes, ConnectionTypes
  <2> QED
    BY <1>0, <2>1, <2>2 DEF Disconnects, ConnectionInv, ConnectionTypes, Connected
<1>10. ASSUME NEW c \in Connections, NEW F, Dropped(c, F) PROVE ConnectionInv(d)'
  <2>1. Disconnects({c})
    BY <1>10, DisconnectEffect DEF Dropped
  <2>2. UNCHANGED handshake /\ transport'[d] \in {"closed", "unclosed", transport[d]}
    BY <1>0, <1>10 DEF Dropped, Closes
  <2>3. d = c => transport'[d] \in {"closed", "unclosed"}
    BY <1>0, <1>10 DEF Dropped, Closes
  <2>4. d # c => transport'[d] = transport[d]
    BY <1>0, <1>10 DEF Dropped, Closes
  <2> QED
    BY <1>0, <2>1, <2>2, <2>3, <2>4 DEF Disconnects, ConnectionInv, ConnectionTypes, Connected
<1>11. ASSUME NEW ok \in BOOLEAN, ListenersClosed(ok) PROVE ConnectionInv(d)'
  BY <1>0, <1>11 DEF ListenersClosed, ConnectionInv, Connected, ConnectionTypes, handshakeVars
<1>12. ASSUME NEW F, ConnectionsClosed(F) PROVE ConnectionInv(d)'
  <2>1. Disconnects(snapshot)
    BY <1>0, <1>12, DisconnectEffect DEF ConnectionsClosed, ServerTypes
  <2>2. UNCHANGED handshake
    BY <1>12 DEF ConnectionsClosed
  <2>3. d \in snapshot => transport'[d] \in {"closed", "unclosed"}
    BY <1>12 DEF ConnectionsClosed, Closes
  <2>4. d \notin snapshot => transport'[d] = transport[d]
    BY <1>12 DEF ConnectionsClosed, Closes
  <2> QED
    BY <1>0, <2>1, <2>2, <2>3, <2>4 DEF Disconnects, ConnectionInv, ConnectionTypes, Connected
<1>13. ASSUME NEW ok \in BOOLEAN, RouterClosed(ok) PROVE ConnectionInv(d)'
  BY <1>0, <1>13 DEF RouterClosed, ConnectionInv, ShutdownInv, handshakeVars
<1>16. ASSUME NEW c \in Connections, LeftoverCloses(c) PROVE ConnectionInv(d)'
  <2>1. UNCHANGED <<connections, stage, disconnected, handshake, services>>
    BY <1>16 DEF LeftoverCloses, handshakeVars
  <2>2. \/ transport'[d] = transport[d]
        \/ transport[d] \in {"refused", "unclosed"} /\ transport'[d] = "closed"
    BY <1>0, <1>16 DEF LeftoverCloses, Closes
  <2> QED
    BY <1>0, <2>1, <2>2 DEF ConnectionInv
<1>14. CASE UNCHANGED <<connections, transport, stage, disconnected, handshakeVars>>
  BY <1>0, <1>14 DEF ConnectionInv, handshakeVars
<1>15. ASSUME NEW c \in Connections, GreetingLost(c) PROVE ConnectionInv(d)'
  BY <1>0, <1>15 DEF GreetingLost, Drop, ConnectionInv, Connected, ConnectionTypes
<1> QED
  BY <1>1, <1>2, <1>3, <1>4, <1>5, <1>6, <1>7, <1>8, <1>9, <1>10, <1>11, <1>12, <1>13, <1>14, <1>15, <1>16 DEF Next, Clients, Works, Failure, Stopped, TransportError, Cancel, Receive, HandleHeld, Answered, Failed, ResponseLost, Publish, PublishLost,
     PendingLost, PublishAttachment, SendEnds, Start, ListenerStarts, ListenerFails, Close, CloseProceeds, Drop, connectionVars, handshakeVars, vars

LEMMA ShutdownStep ==
  ASSUME ServerInv, [Next]_vars
  PROVE  ShutdownInv'
<1>0. ConnectionTypes /\ ServerTypes /\ ShutdownInv
  BY DEF ServerInv, TypeOK
<1>1. ASSUME NEW c \in Connections, Accept(c) PROVE ShutdownInv'
  BY <1>0, <1>1 DEF Accept, ShutdownInv, serverVars
<1>2. ASSUME NEW c \in Connections, TransportClosed(c) PROVE ShutdownInv'
  <2>1. Disconnects({c}) /\ UNCHANGED serverVars
    BY <1>2, DisconnectEffect DEF TransportClosed
  <2> QED
    BY <1>0, <2>1 DEF Disconnects, ShutdownInv, serverVars
<1>3. ASSUME NEW c \in Connections, NEW F, Dropped(c, F) PROVE ShutdownInv'
  <2>1. Disconnects({c}) /\ UNCHANGED serverVars
    BY <1>3, DisconnectEffect DEF Dropped
  <2> QED
    BY <1>0, <2>1 DEF Disconnects, ShutdownInv, serverVars
<1>4. CASE Start
  BY <1>0, <1>4, ServerAssumption DEF Start, ShutdownInv, ServerTypes, connectionVars
<1>5. CASE ListenerStarts
  BY <1>0, <1>5, ServerAssumption DEF ListenerStarts, ShutdownInv, ServerTypes, connectionVars
<1>6. CASE ListenerFails
  BY <1>0, <1>6, ServerAssumption DEF ListenerFails, ShutdownInv, ServerTypes, connectionVars
<1>7. CASE Close
  BY <1>0, <1>7, ServerAssumption DEF Close, ShutdownInv, ServerTypes, connectionVars
<1>8. CASE CloseProceeds
  BY <1>0, <1>8, ServerAssumption DEF CloseProceeds, ShutdownInv, ServerTypes, connectionVars
<1>9. ASSUME NEW ok \in BOOLEAN, ListenersClosed(ok) PROVE ShutdownInv'
  BY <1>0, <1>9, ServerAssumption DEF ListenersClosed, ShutdownInv, ServerTypes
<1>10. ASSUME NEW F, ConnectionsClosed(F) PROVE ShutdownInv'
  <2>1. Disconnects(snapshot)
    BY <1>0, <1>10, DisconnectEffect DEF ConnectionsClosed, ServerTypes
  <2> QED
    BY <1>0, <1>10, <2>1 DEF ConnectionsClosed, Disconnects, ShutdownInv
<1>11. ASSUME NEW ok \in BOOLEAN, RouterClosed(ok) PROVE ShutdownInv'
  BY <1>0, <1>11 DEF RouterClosed, ShutdownInv, ServerTypes
<1>12. CASE UNCHANGED <<serverVars, connections>>
  BY <1>0, <1>12 DEF ShutdownInv, serverVars
<1> QED
  BY <1>1, <1>2, <1>3, <1>4, <1>5, <1>6, <1>7, <1>8, <1>9, <1>10, <1>11, <1>12 DEF Next, Clients, Works, Failure, Stopped, TransportError, BadMessage, Hello, HandshakeTimeout,
     EndpointGiven, EndpointRefused, Greeted, GreetingLost, EndpointReleased, Cancel, Receive, HandleHeld,
     Answered, Failed, ResponseLost, Publish, PublishLost, PendingLost, PublishAttachment, LeftoverCloses,
     SendEnds, Drop, connectionVars, vars

-----------------------------------------------------------------------------
(* What a step does to the requests *)

RequestsAlone == UNCHANGED <<asked, active, pc, held, encoder, pending, published, lost>>

RequestsGone(S) == Disconnects(S) /\ UNCHANGED <<asked, pc, held, pending, published, lost, handshake>>

\* A step that leaves the requests alone writes no more than a greeting, its refusal or an attachment.
Quiet ==
  \/ UNCHANGED <<disconnected, stage, wire, handshake>>
  \/ \E c \in Connections : Accept(c) \/ Hello(c) \/ Greeted(c) \/ EndpointGiven(c) \/ GreetingLost(c)
  \/ \E c \in Connections : PublishAttachment(c)
  \/ \E c \in Connections : BadMessage(c) \/ HandshakeTimeout(c) \/ EndpointRefused(c)
  \/ \E ok \in BOOLEAN : ListenersClosed(ok)

LEMMA RequestCases ==
  ASSUME ServerInv, [Next]_vars
  PROVE  \/ RequestsAlone /\ Quiet
         \/ \E S \in SUBSET Connections : RequestsGone(S)
         \/ \E c \in Connections :
              HandleHeld(c) \/ \E i \in Ids, call \in Calls : Receive(c, i, call)
         \/ \E r \in Requests :
              Answered(r) \/ Failed(r) \/ ResponseLost(r) \/ Publish(r) \/ PublishLost(r)
                \/ PendingLost(r) \/ SendEnds(r)
<1>1. ASSUME NEW c \in Connections, NEW F, TransportClosed(c) \/ Dropped(c, F) PROVE RequestsGone({c})
  BY <1>1, DisconnectEffect DEF TransportClosed, Dropped, RequestsGone
<1>2. ASSUME NEW F, ConnectionsClosed(F) PROVE \E S \in SUBSET Connections : RequestsGone(S)
  <2>1. RequestsGone(snapshot) /\ snapshot \in SUBSET Connections
    BY <1>2, DisconnectEffect DEF ConnectionsClosed, RequestsGone, ServerInv, TypeOK, ServerTypes
  <2> QED
    BY <2>1
<1>3. ASSUME NEW c \in Connections,
             \/ Accept(c) \/ BadMessage(c) \/ Hello(c) \/ TransportError(c) \/ GreetingLost(c)
             \/ EndpointGiven(c) \/ EndpointRefused(c) \/ Greeted(c) \/ EndpointReleased(c)
             \/ HandshakeTimeout(c) \/ PublishAttachment(c) \/ LeftoverCloses(c)
             \/ \E i \in Ids : Cancel(c, i)
      PROVE  RequestsAlone
  BY <1>3 DEF Accept, BadMessage, Hello, TransportError, GreetingLost, EndpointGiven, EndpointRefused,
              Greeted, EndpointReleased, HandshakeTimeout, PublishAttachment, LeftoverCloses, Cancel,
              RequestsAlone, requestVars,
              subscriptionVars
<1>4. ASSUME \/ Start \/ Close \/ ListenerStarts \/ CloseProceeds \/ ListenerFails
             \/ \E ok \in BOOLEAN : ListenersClosed(ok) \/ RouterClosed(ok)
             \/ UNCHANGED vars
      PROVE  RequestsAlone
  BY <1>4 DEF Start, Close, ListenerStarts, CloseProceeds, ListenerFails, ListenersClosed, RouterClosed,
              RequestsAlone, requestVars, subscriptionVars, vars
<1>5. ASSUME NEW c \in Connections,
             \/ Accept(c) \/ BadMessage(c) \/ Hello(c) \/ TransportError(c) \/ GreetingLost(c)
             \/ EndpointGiven(c) \/ EndpointRefused(c) \/ Greeted(c) \/ EndpointReleased(c)
             \/ HandshakeTimeout(c) \/ PublishAttachment(c) \/ LeftoverCloses(c)
             \/ \E i \in Ids : Cancel(c, i)
      PROVE  Quiet
  BY <1>5 DEF Quiet, TransportError, Drop, EndpointReleased, LeftoverCloses, Cancel, connectionVars,
              handshakeVars
<1>6. ASSUME \/ Start \/ Close \/ ListenerStarts \/ CloseProceeds \/ ListenerFails
             \/ \E ok \in BOOLEAN : ListenersClosed(ok) \/ RouterClosed(ok)
             \/ UNCHANGED vars
      PROVE  Quiet
  BY <1>6 DEF Quiet, Start, Close, ListenerStarts, CloseProceeds, ListenerFails, RouterClosed,
              connectionVars, handshakeVars, vars
<1> QED
  BY <1>1, <1>2, <1>3, <1>4, <1>5, <1>6 DEF Next, Clients, Works, Failure, Stopped

\* A connection that has been ready does not go back.
LEMMA StageKept ==
  ASSUME ServerInv, [Next]_vars, NEW d \in Connections, stage[d] \in {"ready", "closing", "closed"}
  PROVE  stage'[d] \in {"ready", "closing", "closed"} /\ disconnected \subseteq disconnected'
<1>0. ConnectionTypes /\ ConnectionInv(d)
  BY DEF ServerInv, TypeOK
<1>1. ASSUME NEW c \in Connections, Accept(c) PROVE stage'[d] \in {"ready", "closing", "closed"} /\ disconnected \subseteq disconnected'
  BY <1>0, <1>1 DEF Accept, ConnectionInv, Connected, ConnectionTypes
<1>2. ASSUME NEW c \in Connections, Hello(c) PROVE stage'[d] \in {"ready", "closing", "closed"} /\ disconnected \subseteq disconnected'
  BY <1>0, <1>2 DEF Hello, ConnectionInv, Connected, ConnectionTypes
<1>3. ASSUME NEW c \in Connections, Greeted(c) PROVE stage'[d] \in {"ready", "closing", "closed"} /\ disconnected \subseteq disconnected'
  BY <1>0, <1>3 DEF Greeted, ConnectionInv, Connected, ConnectionTypes
<1>4. ASSUME NEW c \in Connections, BadMessage(c) PROVE stage'[d] \in {"ready", "closing", "closed"} /\ disconnected \subseteq disconnected'
  <2>1. FailsProtocol(c) /\ UNCHANGED disconnected
    BY <1>4, FailProtocolTyped DEF BadMessage, ServerInv
  <2> QED
    BY <1>0, <2>1 DEF FailsProtocol, ConnectionTypes
<1>5. ASSUME NEW c \in Connections, HandshakeTimeout(c) PROVE stage'[d] \in {"ready", "closing", "closed"} /\ disconnected \subseteq disconnected'
  <2>1. FailsProtocol(c) /\ UNCHANGED disconnected
    BY <1>5, FailProtocolTyped DEF HandshakeTimeout, ServerInv
  <2> QED
    BY <1>0, <2>1 DEF FailsProtocol, ConnectionTypes
<1>6. ASSUME NEW c \in Connections, EndpointRefused(c) PROVE stage'[d] \in {"ready", "closing", "closed"} /\ disconnected \subseteq disconnected'
  <2>1. FailsProtocol(c) /\ UNCHANGED disconnected
    BY <1>6, FailProtocolTyped DEF EndpointRefused, ServerInv
  <2> QED
    BY <1>0, <2>1 DEF FailsProtocol, ConnectionTypes
<1>7. ASSUME NEW c \in Connections, TransportClosed(c) PROVE stage'[d] \in {"ready", "closing", "closed"} /\ disconnected \subseteq disconnected'
  <2>1. Disconnects({c})
    BY <1>7, DisconnectEffect DEF TransportClosed
  <2> QED
    BY <2>1 DEF Disconnects
<1>8. ASSUME NEW c \in Connections, NEW F, Dropped(c, F) PROVE stage'[d] \in {"ready", "closing", "closed"} /\ disconnected \subseteq disconnected'
  <2>1. Disconnects({c})
    BY <1>8, DisconnectEffect DEF Dropped
  <2> QED
    BY <2>1 DEF Disconnects
<1>9. ASSUME NEW F, ConnectionsClosed(F) PROVE stage'[d] \in {"ready", "closing", "closed"} /\ disconnected \subseteq disconnected'
  <2>1. Disconnects(snapshot)
    BY <1>9, DisconnectEffect DEF ConnectionsClosed, ServerInv, TypeOK, ServerTypes
  <2> QED
    BY <2>1 DEF Disconnects
<1>10. ASSUME NEW ok \in BOOLEAN, ListenersClosed(ok) PROVE stage'[d] \in {"ready", "closing", "closed"} /\ disconnected \subseteq disconnected'
  BY <1>10 DEF ListenersClosed
<1>11. CASE UNCHANGED <<stage, disconnected>>
  BY <1>11
<1> QED
  BY <1>1, <1>2, <1>3, <1>4, <1>5, <1>6, <1>7, <1>8, <1>9, <1>10, <1>11 DEF Next, Clients, Works, Failure, Stopped, TransportError, Drop, GreetingLost,
     EndpointGiven, EndpointReleased, Cancel, Receive, HandleHeld, Answered, Failed, ResponseLost, Publish,
     PublishLost, PendingLost, PublishAttachment, LeftoverCloses, SendEnds, Start, Close, ListenerStarts, ListenerFails, CloseProceeds, RouterClosed, connectionVars, vars

Asking == [from : Connections, id : Ids, call : Calls]

\* r, at one of the points after its admission, is a request of a connection.
LEMMA RequestTyped ==
  ASSUME ServerInv, NEW r \in Requests, pc[r] # "no"
  PROVE  asked[r] \in Asking /\ From(r) \in Connections /\ asked[r].id \in Ids /\ asked[r] # None
<1>1. RequestInv(r) /\ RequestTypes
  BY DEF ServerInv, TypeOK
<1>2. asked[r] \in Asking /\ asked[r] # None
  BY <1>1 DEF RequestInv, RequestTypes, Asking
<1> QED
  BY <1>2 DEF Asking, From

\* The update n of r is sent, if its subscription has an encoder.
SendsUpdate(r, n) ==
  \/ encoder[From(r)] = None /\ UNCHANGED wire
  \/ /\ encoder[From(r)] \in Requests
     /\ Sends(From(r), [type |-> "update", encoder |-> encoder[From(r)], request |-> r, n |-> n])

Takes(c, r) ==
  /\ pc[r] = "held" /\ asked[r] # None /\ From(r) = c /\ asked' = asked /\ stage[c] = "ready"
  /\ held[c] # <<>> /\ r = held[c][1] /\ held' = [held EXCEPT ![c] = Tail(@)]
  /\ Handles(c, r)
  /\ UNCHANGED <<disconnected, encoder, pending, published, lost>>

LEMMA HandleHeldEffect ==
  ASSUME ServerInv, NEW c \in Connections, HandleHeld(c)
  PROVE  \E r \in Requests : Takes(c, r) /\ asked[r].id \in Ids
<1> DEFINE r == Head(held[c])
<1>0. RequestTypes /\ TypeOK /\ HeldInv(c)
  BY DEF ServerInv, TypeOK
<1>1. /\ held[c] \in Seq(Requests) /\ held[c] # <<>> /\ asked' = asked /\ stage[c] = "ready"
      /\ held' = [held EXCEPT ![c] = Tail(@)] /\ Handle(c, r)
      /\ UNCHANGED <<disconnected, encoder, pending, published, lost>>
  BY <1>0 DEF HandleHeld, RequestTypes, connectionVars, subscriptionVars
<1>2. r \in Requests /\ 1 \in 1..Len(held[c]) /\ r = held[c][1]
  BY <1>1
<1>3. pc[r] = "held" /\ From(r) = c
  BY <1>0, <1>2 DEF HeldInv
<1>4. asked[r] \in Asking /\ asked[r].id \in Ids /\ asked[r] # None
  BY <1>2, <1>3, RequestTyped
<1>5. Handles(c, r)
  BY <1>0, <1>1, <1>2, <1>4, HandleTyped DEF Asking
<1> HIDE DEF r
<1> QED
  BY <1>1, <1>2, <1>3, <1>4, <1>5 DEF Takes

Comes(c, i, call, r) ==
  /\ pc[r] = "no" /\ asked[r] = None
  /\ asked' = [asked EXCEPT ![r] = [from |-> c, id |-> i, call |-> call]]
  /\ \/ stage[c] = "handshaking" /\ held' = [held EXCEPT ![c] = Append(@, r)]
        /\ At(r, "held") /\ UNCHANGED <<active, wire>>
     \/ stage[c] = "ready" /\ held[c] = <<>> /\ Handles(c, r) /\ UNCHANGED held
  /\ UNCHANGED <<disconnected, encoder, pending, published, lost>>

LEMMA ReceiveEffect ==
  ASSUME ServerInv, NEW c \in Connections, NEW i \in Ids, NEW call \in Calls, Receive(c, i, call)
  PROVE  \E r \in Requests : Comes(c, i, call, r) /\ r = Next1
<1> DEFINE r == Next1
<1>0. RequestTypes /\ TypeOK /\ AskedInv
  BY DEF ServerInv, TypeOK
<1>1. /\ r \in Requests
      /\ asked' = [asked EXCEPT ![r] = [from |-> c, id |-> i, call |-> call]]
      /\ \/ stage[c] = "handshaking" /\ held' = [held EXCEPT ![c] = Append(@, r)]
            /\ At(r, "held") /\ UNCHANGED <<active, wire>>
         \/ stage[c] = "ready" /\ held[c] = <<>> /\ Handle(c, r) /\ UNCHANGED held
      /\ UNCHANGED <<disconnected, encoder, pending, published, lost>>
  BY DEF Receive, Next1, connectionVars, subscriptionVars
<1>2. asked[r] = None
  BY <1>0, <1>1, NextRequest DEF Requests
<1>3. pc[r] = "no"
  BY <1>1, <1>2 DEF ServerInv, RequestInv
<1>4. asked'[r] \in Asking
  BY <1>0, <1>1 DEF RequestTypes, Asking
<1>5. ASSUME Handle(c, r) PROVE Handles(c, r)
  BY <1>0, <1>1, <1>4, <1>5, HandleTyped DEF Asking
<1>6. r = Next1
  OBVIOUS
<1> HIDE DEF r
<1> QED
  BY <1>1, <1>2, <1>3, <1>5, <1>6 DEF Comes

LEMMA AnsweredEffect ==
  ASSUME ServerInv, NEW r \in Requests, Answered(r)
  PROVE  From(r) \in Connections /\ asked[r] # None /\ Sends(From(r), Response(r, "ok"))
<1>1. From(r) \in Connections /\ asked[r] # None
  BY RequestTyped DEF Answered
<1> QED
  BY <1>1, ResponseTyped DEF Answered, Results, ServerInv, TypeOK, ConnectionTypes

LEMMA FailedEffect ==
  ASSUME ServerInv, NEW r \in Requests, Failed(r)
  PROVE  /\ From(r) \in Connections /\ asked[r] # None
         /\ \E result \in Results \ {"ok"} : Sends(From(r), Response(r, result))
<1>1. From(r) \in Connections /\ asked[r] # None
  BY RequestTyped DEF Failed
<1> DEFINE result == IF r \in aborted THEN "cancelled" ELSE "error"
<1>2. result \in Results \ {"ok"} /\ Send(From(r), Response(r, result))
  BY DEF Failed, Results
<1> HIDE DEF result
<1>3. Sends(From(r), Response(r, result))
  BY <1>1, <1>2, ResponseTyped DEF ServerInv, TypeOK, ConnectionTypes
<1> QED
  BY <1>1, <1>2, <1>3

PublishedTo(r) ==
  LET n == published[r] + 1 IN
  /\ asked[r] # None /\ asked[r].call = "subscribe"
  /\ pc[r] \in {"running", "responding", "losing", "stuck", "subscribed"} /\ From(r) \notin disconnected
  /\ published' = [published EXCEPT ![r] = n] /\ n \in 1..MaxUpdates
  /\ \/ pc[r] = "subscribed" /\ SendsUpdate(r, n) /\ UNCHANGED pending
     \/ pc[r] # "subscribed" /\ pending' = [pending EXCEPT ![r] = Append(@, n)] /\ UNCHANGED wire
  /\ UNCHANGED <<held, disconnected, asked, active, pc, encoder, lost>>

LEMMA PublishEffect ==
  ASSUME ServerInv, NEW r \in Requests, Publish(r)
  PROVE  From(r) \in Connections /\ PublishedTo(r)
<1> DEFINE n == published[r] + 1
<1>0. TypeOK /\ RequestTypes /\ From(r) \in Connections
  BY RequestTyped DEF ServerInv, TypeOK, Publish, Publishes
<1>1. /\ asked[r] # None /\ asked[r].call = "subscribe"
      /\ pc[r] \in {"running", "responding", "losing", "stuck", "subscribed"} /\ From(r) \notin disconnected
      /\ published[r] < MaxUpdates /\ published' = [published EXCEPT ![r] = n] /\ Update(r, n)
      /\ UNCHANGED <<held, disconnected, asked, active, pc, encoder, lost>>
  BY DEF Publish, Publishes, connectionVars, requestVars
<1>2. n \in 1..MaxUpdates
  BY <1>0, <1>1, ServerAssumption DEF RequestTypes
<1> HIDE DEF n
<1>3. CASE pc[r] = "subscribed"
  <2>1. SendUpdate(r, n) /\ UNCHANGED pending
    BY <1>1, <1>3 DEF Update
  <2>2. SendsUpdate(r, n)
    BY <1>0, <1>2, <2>1, SendUpdateTyped DEF SendsUpdate
  <2> QED
    BY <1>0, <1>1, <1>2, <1>3, <2>1, <2>2 DEF PublishedTo, n
<1>4. CASE pc[r] # "subscribed"
  BY <1>0, <1>1, <1>2, <1>4 DEF PublishedTo, Update, n
<1> QED
  BY <1>3, <1>4

SendsWaiting(r) ==
  /\ pending[r] # <<>> /\ SendsUpdate(r, Head(pending[r]))
  /\ pending' = [pending EXCEPT ![r] = Tail(@)]
  /\ UNCHANGED <<pc, active>>

LEMMA SendEndsEffect ==
  ASSUME ServerInv, NEW r \in Requests, SendEnds(r)
  PROVE  /\ From(r) \in Connections /\ asked[r] # None
         /\ \/ pc[r] \in {"refused", "failing", "responding"}
            \/ pc[r] \in {"losing", "stuck"} /\ From(r) \in disconnected
         /\ \/ pc[r] \in {"responding", "losing"} /\ SendsWaiting(r)
            \/ /\ pending[r] = <<>> \/ pc[r] \in {"refused", "failing", "stuck"}
               /\ Over(r) /\ UNCHANGED <<wire, pending>>
         /\ UNCHANGED <<held, disconnected, asked, encoder, published, lost>>
<1>1. From(r) \in Connections /\ asked[r] # None
  BY RequestTyped DEF SendEnds
<1>2. /\ \/ pc[r] \in {"refused", "failing", "responding"}
         \/ pc[r] \in {"losing", "stuck"} /\ From(r) \in disconnected
      /\ UNCHANGED <<held, disconnected, asked, encoder, published, lost>>
  BY DEF SendEnds, connectionVars
<1>3. CASE pc[r] \in {"responding", "losing"} /\ pending[r] # <<>>
  <2>1. /\ SendUpdate(r, Head(pending[r])) /\ pending' = [pending EXCEPT ![r] = Tail(@)]
        /\ UNCHANGED <<pc, active>>
    BY <1>3 DEF SendEnds
  <2>2. Head(pending[r]) \in 1..MaxUpdates
    BY <1>3, HeadTailProperties DEF ServerInv, TypeOK, RequestTypes
  <2>3. SendsUpdate(r, Head(pending[r]))
    BY <1>1, <2>1, <2>2, SendUpdateTyped DEF SendsUpdate, ServerInv
  <2> QED
    BY <1>1, <1>2, <1>3, <2>1, <2>3 DEF SendsWaiting
<1>4. CASE ~(pc[r] \in {"responding", "losing"} /\ pending[r] # <<>>)
  <2>1. Over(r) /\ UNCHANGED <<wire, pending>>
    BY <1>4 DEF SendEnds
  <2> QED
    BY <1>1, <1>2, <1>4, <2>1
<1> QED
  BY <1>3, <1>4

\* An update is lost: one that is published, or the first of those that wait.
LosesPublished(r) ==
  LET n == published[r] + 1 IN
  /\ pc[r] = "subscribed" /\ published' = [published EXCEPT ![r] = n] /\ n \in 1..MaxUpdates
  /\ lost' = [lost EXCEPT ![r] = @ \cup {n}]
  /\ UNCHANGED <<held, disconnected, asked, active, pc, encoder, pending, wire>>

LosesWaiting(r) ==
  /\ pc[r] = "responding" /\ pending[r] # <<>> /\ pending' = [pending EXCEPT ![r] = Tail(@)]
  /\ At(r, "stuck") \/ At(r, "losing")
  /\ lost' = [lost EXCEPT ![r] = @ \cup {Head(pending[r])}]
  /\ UNCHANGED <<held, disconnected, asked, active, encoder, published, wire>>

LEMMA LostEffect ==
  ASSUME ServerInv, NEW r \in Requests
  PROVE  /\ PublishLost(r) => LosesPublished(r) /\ UNCHANGED <<stage, handshake>>
         /\ PendingLost(r) => LosesWaiting(r) /\ UNCHANGED <<stage, handshake>>
<1>0. RequestTypes
  BY DEF ServerInv, TypeOK
<1>1. ASSUME PublishLost(r) PROVE LosesPublished(r) /\ UNCHANGED <<stage, handshake>>
  <2> DEFINE n == published[r] + 1
  <2>1. /\ published[r] < MaxUpdates /\ published' = [published EXCEPT ![r] = n] /\ pc[r] = "subscribed"
        /\ lost' = [lost EXCEPT ![r] = @ \cup {n}]
    BY <1>1 DEF PublishLost, Publishes, Loses
  <2>2. UNCHANGED <<held, disconnected, asked, active, pc, encoder, pending, wire, stage, handshake>>
    BY <1>1 DEF PublishLost, Drop, connectionVars, handshakeVars, requestVars
  <2>3. n \in 1..MaxUpdates
    BY <1>0, <2>1, ServerAssumption DEF RequestTypes
  <2> QED
    BY <2>1, <2>2, <2>3 DEF LosesPublished
<1>2. ASSUME PendingLost(r) PROVE LosesWaiting(r) /\ UNCHANGED <<stage, handshake>>
  BY <1>2 DEF PendingLost, LosesWaiting, Loses, Drop, handshakeVars
<1> QED
  BY <1>1, <1>2

LEMMA DisconnectedKept ==
  ASSUME ServerInv, [Next]_vars
  PROVE  disconnected \subseteq disconnected'
<1>1. SUFFICES ASSUME NEW d \in disconnected PROVE d \in disconnected'
  OBVIOUS
<1>2. d \in Connections /\ stage[d] = "closed"
  BY <1>1 DEF ServerInv, TypeOK, ConnectionTypes, ConnectionInv
<1> QED
  BY <1>1, <1>2, StageKept

-----------------------------------------------------------------------------
(* Requests *)

\* What handling r, a request of c, does to a request q, and to what is active.
LEMMA HandlesEffect ==
  ASSUME ServerInv, NEW c \in Connections, NEW r \in Requests, Handles(c, r), asked'[r].id \in Ids
  PROVE  /\ pc'[r] \in {"refused", "failing", "running"}
         /\ \A q \in Requests : q # r => pc'[q] = pc[q]
         /\ \A d \in Connections, i \in Ids :
              \/ active'[d][i] = active[d][i]
              \/ /\ d = c /\ i = asked'[r].id /\ active[d][i] = None /\ active'[d][i] = r
                 /\ pc'[r] # "refused"
         /\ pc'[r] # "refused" => active'[c][asked'[r].id] = r
<1>1. RequestTypes
  BY DEF ServerInv, TypeOK
<1>2. CASE At(r, "refused") /\ UNCHANGED active
  BY <1>1, <1>2 DEF At, RequestTypes
<1>3. CASE /\ active[c][asked'[r].id] = None
           /\ active' = [active EXCEPT ![c][asked'[r].id] = r]
           /\ At(r, "failing") \/ At(r, "running")
  BY <1>1, <1>3 DEF At, RequestTypes
<1> QED
  BY <1>2, <1>3 DEF Handles

\* What an end of r does to a request q, and to what is active.
LEMMA OverEffect ==
  ASSUME ServerInv, NEW r \in Requests, Over(r), pc[r] # "no"
  PROVE  /\ pc'[r] \in {"done", "subscribed"}
         /\ pc'[r] = "subscribed" =>
              pc[r] \in {"responding", "losing"} /\ asked[r].call = "subscribe"
         /\ asked[r].call = "subscribe" /\ pc[r] \in {"responding", "losing"} => pc'[r] = "subscribed"
         /\ \A q \in Requests : q # r => pc'[q] = pc[q]
         /\ \A d \in Connections, i \in Ids :
              \/ active'[d][i] = active[d][i]
              \/ active[d][i] = r /\ active'[d][i] = None
<1>1. RequestTypes /\ From(r) \in Connections
  BY RequestTyped DEF ServerInv, TypeOK
<1> QED
  BY <1>1 DEF Over, At, RequestTypes

LEMMA RequestStep ==
  ASSUME ServerInv, [Next]_vars, NEW q \in Requests
  PROVE  RequestInv(q)'
<1>0. RequestTypes /\ ConnectionTypes /\ RequestInv(q)
  BY DEF ServerInv, TypeOK
<1>1. /\ disconnected \subseteq disconnected'
      /\ pc[q] \in Admitted => From(q) \in Connections /\ asked[q].id \in Ids
           /\ stage'[From(q)] \in {"ready", "closing", "closed"}
  <2>1. CASE pc[q] \in Admitted
    BY <1>0, <2>1, RequestTyped, StageKept DEF RequestInv, Admitted
  <2>2. CASE pc[q] \notin Admitted
    BY <2>2, DisconnectedKept
  <2> QED
    BY <2>1, <2>2
<1>2. CASE RequestsAlone
  BY <1>0, <1>1, <1>2 DEF RequestsAlone, RequestInv, From
<1>3. ASSUME NEW S \in SUBSET Connections, RequestsGone(S) PROVE RequestInv(q)'
  BY <1>0, <1>1, <1>3 DEF RequestsGone, Disconnects, RequestInv, From, Admitted
<1>4. ASSUME NEW c \in Connections, NEW i \in Ids, NEW call \in Calls, Receive(c, i, call)
      PROVE  RequestInv(q)'
  <2>1. PICK r \in Requests : Comes(c, i, call, r)
    BY <1>4, ReceiveEffect
  <2>2. CASE q = r
    <3>1. asked'[q] = [from |-> c, id |-> i, call |-> call] /\ asked'[q] # None /\ From(q)' = c
      BY <1>0, <2>1, <2>2, ServerAssumption DEF Comes, From, RequestTypes
    <3>2. CASE At(r, "held")
      <4>1. pc'[q] = "held"
        BY <1>0, <2>2, <3>2 DEF At, RequestTypes
      <4> QED
        BY <3>1, <4>1 DEF RequestInv, Admitted
    <3>3. CASE stage[c] = "ready" /\ Handles(c, r)
      <4>1. /\ pc'[r] \in {"refused", "failing", "running"}
            /\ pc'[r] # "refused" => active'[c][i] = r
        BY <2>2, <3>1, <3>3, HandlesEffect
      <4>2. stage'[c] \in {"ready", "closing", "closed"}
        BY <3>3, StageKept
      <4> QED
        BY <2>2, <3>1, <4>1, <4>2 DEF RequestInv, Admitted
    <3> QED
      BY <2>1, <3>2, <3>3 DEF Comes
  <2>3. CASE q # r
    <3>1. asked'[q] = asked[q] /\ From(q)' = From(q)
      BY <1>0, <2>1, <2>3 DEF Comes, From, RequestTypes
    <3>2. CASE At(r, "held") /\ UNCHANGED active
      BY <1>0, <1>1, <2>3, <3>1, <3>2 DEF RequestInv, At, RequestTypes
    <3>3. CASE Handles(c, r)
      <4>1. pc'[q] = pc[q]
        BY <1>0, <2>1, <2>3, <3>3, HandlesEffect DEF Comes, RequestTypes
      <4>2. asked'[r].id \in Ids
        BY <1>0, <2>1 DEF Comes, RequestTypes
      <4>3. pc[q] \in Admitted => active'[From(q)][asked[q].id] \in {active[From(q)][asked[q].id], r}
             /\ (active[From(q)][asked[q].id] # None =>
                   active'[From(q)][asked[q].id] = active[From(q)][asked[q].id])
        BY <1>1, <3>3, <4>2, HandlesEffect
      <4> QED
        BY <1>0, <1>1, <3>1, <4>1, <4>3, ServerAssumption DEF RequestInv, Admitted
    <3> QED
      BY <2>1, <3>2, <3>3 DEF Comes
  <2> QED
    BY <2>2, <2>3
<1>5. ASSUME NEW c \in Connections, HandleHeld(c) PROVE RequestInv(q)'
  <2>1. PICK r \in Requests : Takes(c, r) /\ asked[r].id \in Ids
    BY <1>5, HandleHeldEffect
  <2>2. /\ pc'[r] \in {"refused", "failing", "running"}
        /\ \A p \in Requests : p # r => pc'[p] = pc[p]
        /\ \A d \in Connections, i \in Ids :
             \/ active'[d][i] = active[d][i]
             \/ d = c /\ i = asked[r].id /\ active[d][i] = None
        /\ pc'[r] # "refused" => active'[c][asked[r].id] = r
    BY <2>1, HandlesEffect DEF Takes
  <2>3. CASE q = r
    <3>1. stage'[c] \in {"ready", "closing", "closed"}
      BY <2>1, StageKept DEF Takes
    <3> QED
      BY <2>1, <2>2, <2>3, <3>1 DEF RequestInv, Takes, From, Admitted
  <2>4. CASE q # r
    BY <1>0, <1>1, <2>1, <2>2, <2>4, ServerAssumption DEF RequestInv, Takes, From, Admitted
  <2> QED
    BY <2>3, <2>4
<1>6. ASSUME NEW r \in Requests, Answered(r) \/ Failed(r) \/ ResponseLost(r) PROVE RequestInv(q)'
  BY <1>0, <1>1, <1>6 DEF Answered, Failed, ResponseLost, RequestInv, At, From, Admitted, connectionVars,
     Drop, RequestTypes
<1>7. ASSUME NEW r \in Requests, Publish(r) PROVE RequestInv(q)'
  BY <1>0, <1>1, <1>7, PublishEffect DEF PublishedTo, RequestInv, From
<1>8. ASSUME NEW r \in Requests, SendEnds(r) PROVE RequestInv(q)'
  <2>1. UNCHANGED <<asked, disconnected>> /\ pc[r] \in Admitted /\ pc[r] # "no"
    BY <1>8, SendEndsEffect DEF Admitted
  <2>2. CASE UNCHANGED <<pc, active>>
    BY <1>0, <1>1, <2>1, <2>2 DEF RequestInv, From
  <2>3. CASE Over(r)
    BY <1>0, <1>1, <2>1, <2>3, OverEffect DEF RequestInv, From, Admitted
  <2> QED
    BY <1>8, <2>2, <2>3, SendEndsEffect DEF SendsWaiting
<1>9. ASSUME NEW r \in Requests, PublishLost(r) PROVE RequestInv(q)'
  BY <1>0, <1>1, <1>9, LostEffect DEF LosesPublished, RequestInv, From
<1>10. ASSUME NEW r \in Requests, PendingLost(r) PROVE RequestInv(q)'
  <2>1. /\ UNCHANGED <<asked, disconnected, active>> /\ pc[r] = "responding"
        /\ At(r, "stuck") \/ At(r, "losing")
    BY <1>10, LostEffect DEF LosesWaiting
  <2> QED
    BY <1>0, <1>1, <2>1 DEF RequestInv, At, From, Admitted, RequestTypes
<1> QED
  BY <1>2, <1>3, <1>4, <1>5, <1>6, <1>7, <1>8, <1>9, <1>10, RequestCases

\* What a step publishes to q, and what of it is sent.
LEMMA PublishedStep ==
  ASSUME ServerInv, [Next]_vars, NEW q \in Requests
  PROVE  PublishedInv(q)'
<1>0. RequestTypes /\ PublishedInv(q) /\ RequestInv(q) /\ RequestInv(q)'
  BY RequestStep DEF ServerInv, TypeOK
<1>1. pending[q] \in Seq(1..MaxUpdates) /\ published[q] \in Nat /\ Len(pending[q]) \in Nat
  <2>1. pending[q] \in Seq(1..MaxUpdates) /\ published[q] \in Nat
    BY <1>0, ServerAssumption DEF RequestTypes
  <2> QED
    BY <2>1, LenProperties
<1>2. CASE RequestsAlone
  BY <1>0, <1>2 DEF RequestsAlone, PublishedInv, Sent
<1>3. ASSUME NEW S \in SUBSET Connections, RequestsGone(S) PROVE PublishedInv(q)'
  BY <1>0, <1>3 DEF RequestsGone, PublishedInv, Sent
<1>4. ASSUME UNCHANGED <<pending, published>>,
             asked'[q] = asked[q] \/ asked[q] = None,
             \/ pc'[q] = pc[q]
             \/ pc[q] \in {"no", "held", "running"} /\ pc'[q] # "subscribed"
      PROVE  PublishedInv(q)'
  BY <1>0, <1>4 DEF PublishedInv, Sent
<1>5. ASSUME NEW c \in Connections, NEW i \in Ids, NEW call \in Calls, Receive(c, i, call)
      PROVE  PublishedInv(q)'
  <2>1. PICK r \in Requests : Comes(c, i, call, r)
    BY <1>5, ReceiveEffect
  <2>2. /\ \A p \in Requests : p # r => pc'[p] = pc[p] /\ asked'[p] = asked[p]
        /\ asked'[r] # None /\ pc'[r] \in {"held", "refused", "failing", "running"}
        /\ UNCHANGED <<pending, published>> /\ asked[r] = None /\ pc[r] = "no"
    <3>1. /\ asked'[r].id \in Ids /\ \A p \in Requests : p # r => asked'[p] = asked[p]
          /\ asked'[r] # None
      BY <1>0, <2>1, ServerAssumption DEF Comes, RequestTypes
    <3>2. CASE At(r, "held")
      BY <1>0, <2>1, <3>1, <3>2 DEF At, Comes, RequestTypes
    <3>3. CASE Handles(c, r)
      BY <2>1, <3>1, <3>3, HandlesEffect DEF Comes
    <3> QED
      BY <2>1, <3>2, <3>3 DEF Comes
  <2>3. asked'[q] = asked[q] \/ asked[q] = None
    BY <2>2
  <2>4. \/ pc'[q] = pc[q]
        \/ pc[q] \in {"no", "held", "running"} /\ pc'[q] # "subscribed"
    BY <2>2
  <2> QED
    BY <1>4, <2>2, <2>3, <2>4
<1>6. ASSUME NEW c \in Connections, HandleHeld(c) PROVE PublishedInv(q)'
  <2>1. PICK r \in Requests : Takes(c, r) /\ asked[r].id \in Ids
    BY <1>6, HandleHeldEffect
  <2>2. /\ pc'[r] \in {"refused", "failing", "running"}
        /\ \A p \in Requests : p # r => pc'[p] = pc[p]
    BY <2>1, HandlesEffect DEF Takes
  <2>3. UNCHANGED <<asked, pending, published>> /\ pc[r] = "held"
    BY <2>1 DEF Takes
  <2>4. \/ pc'[q] = pc[q]
        \/ pc[q] \in {"no", "held", "running"} /\ pc'[q] # "subscribed"
    BY <2>2, <2>3
  <2> QED
    BY <1>4, <2>3, <2>4
<1>7. ASSUME NEW r \in Requests, Answered(r) \/ Failed(r) \/ ResponseLost(r) PROVE PublishedInv(q)'
  <2>1. UNCHANGED <<asked, pending, published>> /\ pc[r] = "running"
    BY <1>7 DEF Answered, Failed, ResponseLost, subscriptionVars
  <2>2. At(r, "responding") \/ At(r, "failing") \/ At(r, "losing")
    BY <1>7 DEF Answered, Failed, ResponseLost
  <2>3. pc'[r] \in {"responding", "failing", "losing"} /\ \A p \in Requests : p # r => pc'[p] = pc[p]
    BY <1>0, <2>2 DEF At, RequestTypes
  <2>4. \/ pc'[q] = pc[q]
        \/ pc[q] \in {"no", "held", "running"} /\ pc'[q] # "subscribed"
    BY <2>1, <2>3
  <2> QED
    BY <1>4, <2>1, <2>4
<1>8. ASSUME NEW r \in Requests, Publish(r) PROVE PublishedInv(q)'
  <2> DEFINE n == published[r] + 1
  <2>1. /\ asked[r] # None /\ asked[r].call = "subscribe" /\ UNCHANGED <<asked, pc>>
        /\ pc[r] \in {"running", "responding", "losing", "stuck", "subscribed"}
        /\ published' = [published EXCEPT ![r] = n] /\ n \in 1..MaxUpdates
        /\ \/ pc[r] = "subscribed" /\ UNCHANGED pending
           \/ pc[r] # "subscribed" /\ pending' = [pending EXCEPT ![r] = Append(@, n)]
    BY <1>8, PublishEffect DEF PublishedTo
  <2>2. CASE q # r
    BY <1>0, <2>1, <2>2 DEF PublishedInv, Sent, RequestTypes
  <2>3. CASE q = r /\ pc[r] = "subscribed"
    <3>1. published'[q] = published[q] + 1 /\ pending'[q] = pending[q]
      BY <1>0, <2>1, <2>3 DEF RequestTypes
    <3> QED
      BY <1>0, <1>1, <2>1, <2>3, <3>1 DEF PublishedInv, Sent
  <2>4. CASE q = r /\ pc[r] # "subscribed"
    <3>1. published'[q] = published[q] + 1 /\ pending'[q] = Append(pending[q], published[q] + 1)
      BY <1>0, <2>1, <2>4 DEF RequestTypes
    <3>2. /\ Len(pending'[q]) = Len(pending[q]) + 1 /\ pending'[q][Len(pending[q]) + 1] = published[q] + 1
          /\ \A k \in 1..Len(pending[q]) : pending'[q][k] = pending[q][k]
      <4>1. published[q] + 1 \in 1..MaxUpdates
        BY <2>1, <2>4
      <4> QED
        BY <1>1, <3>1, <4>1, AppendProperties
    <3>3. Sent(q)' = Sent(q) /\ Sent(q) \in Int /\ Len(pending[q]) \in Nat
      BY <1>1, <3>1, <3>2 DEF Sent
    <3>4. \A k \in 1..Len(pending'[q]) : pending'[q][k] = Sent(q)' + k
      <4>1. SUFFICES ASSUME NEW k \in 1..Len(pending'[q]) PROVE pending'[q][k] = Sent(q)' + k
        OBVIOUS
      <4>2. CASE k = Len(pending[q]) + 1
        BY <1>1, <3>2, <3>3, <4>2 DEF Sent
      <4>3. CASE k \in 1..Len(pending[q])
        BY <1>0, <3>2, <3>3, <4>3 DEF PublishedInv
      <4> QED
        BY <3>2, <3>3, <4>2, <4>3
    <3> QED
      <4>1. asked'[q] # None /\ asked'[q].call = "subscribe" /\ pc'[q] = pc[q] /\ pc[q] # "subscribed"
        BY <2>1, <2>4
      <4>2. Len(pending'[q]) <= published'[q]
        BY <1>0, <1>1, <3>1, <3>2 DEF PublishedInv
      <4> QED
        BY <1>0, <3>3, <3>4, <4>1, <4>2 DEF PublishedInv
  <2> QED
    BY <2>1, <2>2, <2>3, <2>4
<1>10. ASSUME NEW r \in Requests, pc[r] \in {"responding", "losing"}, pending[r] # <<>>,
              pending' = [pending EXCEPT ![r] = Tail(@)], UNCHANGED <<asked, published>>,
              \A p \in Requests : p # r => pc'[p] = pc[p],
              pc'[r] \in {"responding", "losing", "stuck"}
       PROVE  PublishedInv(q)'
  <2>1. CASE q # r
    BY <1>0, <1>10, <2>1 DEF PublishedInv, Sent, RequestTypes
  <2>2. CASE q = r
    <3>1. pending[q] # <<>> /\ pending'[q] = Tail(pending[q])
      BY <1>0, <1>10, <2>2 DEF RequestTypes
    <3>2. /\ Len(pending'[q]) = Len(pending[q]) - 1 /\ Len(pending[q]) \in Nat
          /\ \A k \in 1..Len(pending'[q]) : pending'[q][k] = pending[q][k + 1]
      <4>1. /\ Len(Tail(pending[q])) = Len(pending[q]) - 1
            /\ \A k \in 1..Len(Tail(pending[q])) : Tail(pending[q])[k] = pending[q][k + 1]
        BY <1>1, <3>1, HeadTailProperties
      <4> QED
        BY <1>1, <3>1, <4>1
    <3>3. Sent(q)' = Sent(q) + 1 /\ Sent(q) \in Int
      <4>1. Sent(q) = published[q] - Len(pending[q]) /\ Sent(q)' = published[q] - Len(pending'[q])
        BY <1>10 DEF Sent
      <4>2. published[q] \in Nat
        BY <1>1
      <4> QED
        BY <3>2, <4>1, <4>2
    <3> QED
      <4>1. \A k \in 1..Len(pending'[q]) : pending'[q][k] = Sent(q)' + k
        BY <1>0, <3>2, <3>3 DEF PublishedInv
      <4>2. pc'[q] \notin {"no", "held", "refused", "running", "subscribed"} /\ asked'[q] = asked[q] /\ published'[q] = published[q]
        BY <1>10, <2>2
      <4>3. asked[q] # None /\ asked[q].call = "subscribe" /\ Len(pending'[q]) <= published'[q]
        BY <1>0, <1>1, <3>1, <3>2, <4>2 DEF PublishedInv
      <4> QED
        BY <4>1, <4>2, <4>3 DEF PublishedInv
  <2> QED
    BY <2>1, <2>2
<1>9. ASSUME NEW r \in Requests, SendEnds(r) PROVE PublishedInv(q)'
  <2>1. /\ pc[r] \in {"refused", "failing", "responding", "losing", "stuck"}
        /\ \/ pc[r] \in {"responding", "losing"} /\ SendsWaiting(r)
           \/ /\ pending[r] = <<>> \/ pc[r] \in {"refused", "failing", "stuck"}
              /\ Over(r) /\ UNCHANGED <<wire, pending>>
        /\ UNCHANGED <<asked, published>> /\ asked[r] # None
    BY <1>9, SendEndsEffect
  <2>2. CASE pc[r] \in {"responding", "losing"} /\ SendsWaiting(r)
    <3>1. pending' = [pending EXCEPT ![r] = Tail(@)] /\ pending[r] # <<>> /\ pc' = pc
      BY <2>2 DEF SendsWaiting
    <3> QED
      BY <1>10, <2>1, <2>2, <3>1
  <2>3. CASE /\ pending[r] = <<>> \/ pc[r] \in {"refused", "failing", "stuck"}
             /\ Over(r) /\ UNCHANGED <<wire, pending>>
    <3>1. /\ pc'[r] \in {"done", "subscribed"}
          /\ pc'[r] = "subscribed" => pc[r] \in {"responding", "losing"} /\ asked[r].call = "subscribe"
          /\ \A p \in Requests : p # r => pc'[p] = pc[p]
      BY <2>1, <2>3, OverEffect
    <3> QED
      BY <1>0, <2>1, <2>3, <3>1 DEF PublishedInv, Sent
  <2> QED
    BY <2>1, <2>2, <2>3
<1>11. ASSUME NEW r \in Requests, PublishLost(r) PROVE PublishedInv(q)'
  <2>1. /\ pc[r] = "subscribed" /\ published' = [published EXCEPT ![r] = published[r] + 1]
        /\ UNCHANGED <<asked, pc, pending>>
    BY <1>11, LostEffect DEF LosesPublished
  <2>2. CASE q # r
    BY <1>0, <2>1, <2>2 DEF PublishedInv, Sent, RequestTypes
  <2>3. CASE q = r
    <3>1. published'[q] = published[q] + 1 /\ pending'[q] = pending[q]
      BY <1>0, <2>1, <2>3 DEF RequestTypes
    <3> QED
      BY <1>0, <1>1, <2>1, <2>3, <3>1 DEF PublishedInv, Sent
  <2> QED
    BY <2>2, <2>3
<1>12. ASSUME NEW r \in Requests, PendingLost(r) PROVE PublishedInv(q)'
  <2>1. /\ pc[r] = "responding" /\ pending[r] # <<>> /\ pending' = [pending EXCEPT ![r] = Tail(@)]
        /\ UNCHANGED <<asked, published>>
        /\ At(r, "stuck") \/ At(r, "losing")
    BY <1>12, LostEffect DEF LosesWaiting
  <2>2. pc'[r] \in {"responding", "losing", "stuck"} /\ \A p \in Requests : p # r => pc'[p] = pc[p]
    BY <1>0, <2>1 DEF At, RequestTypes
  <2> QED
    BY <1>10, <2>1, <2>2
<1> QED
  BY <1>2, <1>3, <1>5, <1>6, <1>7, <1>8, <1>9, <1>11, <1>12, RequestCases

\* A request that is active has been admitted, on the connection where it is.
LEMMA ActiveStep ==
  ASSUME ServerInv, [Next]_vars
  PROVE  ActiveInv'
<1>0. RequestTypes /\ ActiveInv /\ None \notin Requests
  BY ServerAssumption DEF ServerInv, TypeOK
<1>1. SUFFICES ASSUME NEW d \in Connections, NEW i \in Ids, active'[d][i] # None
               PROVE  pc'[active'[d][i]] \in Admitted /\ asked'[active'[d][i]].from = d
  BY DEF ActiveInv, From
<1> DEFINE a == active[d][i]
<1>2. a \in Requests \cup {None} /\ (a # None => pc[a] \in Admitted /\ From(a) = d)
  BY <1>0 DEF ActiveInv, RequestTypes
<1> HIDE DEF a
<1>3. CASE RequestsAlone
  BY <1>1, <1>2, <1>3 DEF RequestsAlone, From, a
<1>4. ASSUME NEW S \in SUBSET Connections, RequestsGone(S)
      PROVE  pc'[active'[d][i]] \in Admitted /\ asked'[active'[d][i]].from = d
  BY <1>1, <1>2, <1>4 DEF RequestsGone, Disconnects, From, a
<1>5. ASSUME NEW c \in Connections, NEW j \in Ids, NEW call \in Calls, Receive(c, j, call)
      PROVE  pc'[active'[d][i]] \in Admitted /\ asked'[active'[d][i]].from = d
  <2>1. PICK r \in Requests : Comes(c, j, call, r)
    BY <1>5, ReceiveEffect
  <2>2. /\ asked'[r].id \in Ids /\ asked'[r].from = c /\ pc[r] = "no"
        /\ \A q \in Requests : q # r => asked'[q] = asked[q]
    <3>1. asked'[r] = [from |-> c, id |-> j, call |-> call] /\ pc[r] = "no"
      BY <1>0, <2>1 DEF Comes, RequestTypes
    <3>2. \A q \in Requests : q # r => asked'[q] = asked[q]
      BY <1>0, <2>1 DEF Comes, RequestTypes
    <3> QED
      BY <3>1, <3>2
  <2>3. a # r
    BY <1>0, <1>2, <2>2 DEF Admitted
  <2>4. CASE At(r, "held") /\ UNCHANGED active
    <3>1. active'[d][i] = a /\ a \in Requests /\ pc'[a] = pc[a]
      BY <1>0, <1>1, <1>2, <2>3, <2>4 DEF At, RequestTypes, a
    <3> QED
      BY <1>0, <1>2, <2>2, <2>3, <3>1 DEF From
  <2>5. CASE Handles(c, r)
    <3>1. /\ \A q \in Requests : q # r => pc'[q] = pc[q]
          /\ pc'[r] \in {"refused", "failing", "running"}
          /\ \/ active'[d][i] = a
             \/ d = c /\ active'[d][i] = r
      BY <2>2, <2>5, HandlesEffect DEF a
    <3>2. CASE active'[d][i] = a
      BY <1>0, <1>1, <1>2, <2>2, <2>3, <3>1, <3>2 DEF From
    <3>3. CASE d = c /\ active'[d][i] = r
      BY <2>2, <3>1, <3>3 DEF Admitted
    <3> QED
      BY <3>1, <3>2, <3>3
  <2> QED
    BY <2>1, <2>4, <2>5 DEF Comes
<1>6. ASSUME NEW c \in Connections, HandleHeld(c)
      PROVE  pc'[active'[d][i]] \in Admitted /\ asked'[active'[d][i]].from = d
  <2>1. PICK r \in Requests : Takes(c, r) /\ asked[r].id \in Ids
    BY <1>6, HandleHeldEffect
  <2>2. Handles(c, r) /\ asked' = asked /\ pc[r] = "held" /\ From(r) = c
    BY <2>1 DEF Takes
  <2>3. /\ \A q \in Requests : q # r => pc'[q] = pc[q]
        /\ pc'[r] \in {"refused", "failing", "running"}
        /\ \/ active'[d][i] = a
           \/ d = c /\ active'[d][i] = r
    BY <2>1, <2>2, HandlesEffect DEF a
  <2> QED
    BY <1>0, <1>1, <1>2, <2>2, <2>3 DEF Admitted, From
<1>7. ASSUME NEW r \in Requests, Answered(r) \/ Failed(r) \/ ResponseLost(r)
      PROVE  pc'[active'[d][i]] \in Admitted /\ asked'[active'[d][i]].from = d
  BY <1>0, <1>1, <1>2, <1>7 DEF Answered, Failed, ResponseLost, At, From, Admitted, a, RequestTypes
<1>8. ASSUME NEW r \in Requests, Publish(r)
      PROVE  pc'[active'[d][i]] \in Admitted /\ asked'[active'[d][i]].from = d
  BY <1>1, <1>2, <1>8, PublishEffect DEF PublishedTo, From, a
<1>9. ASSUME NEW r \in Requests, SendEnds(r)
      PROVE  pc'[active'[d][i]] \in Admitted /\ asked'[active'[d][i]].from = d
  <2>1. UNCHANGED asked /\ pc[r] \in Admitted /\ pc[r] # "no"
    BY <1>9, SendEndsEffect DEF Admitted
  <2>2. CASE UNCHANGED <<pc, active>>
    BY <1>1, <1>2, <2>1, <2>2 DEF From, a
  <2>3. CASE Over(r)
    <3>1. active'[d][i] = a /\ pc'[r] \in {"done", "subscribed"}
          /\ \A q \in Requests : q # r => pc'[q] = pc[q]
      BY <1>1, <2>1, <2>3, OverEffect DEF a
    <3> QED
      BY <1>0, <1>1, <1>2, <2>1, <3>1 DEF Admitted, From
  <2> QED
    BY <1>9, <2>2, <2>3, SendEndsEffect DEF SendsWaiting
<1>10. ASSUME NEW r \in Requests, PublishLost(r) \/ PendingLost(r)
       PROVE  pc'[active'[d][i]] \in Admitted /\ asked'[active'[d][i]].from = d
  BY <1>0, <1>1, <1>2, <1>10, LostEffect DEF LosesPublished, LosesWaiting, At, From, Admitted, a, RequestTypes
<1> QED
  BY <1>3, <1>4, <1>5, <1>6, <1>7, <1>8, <1>9, <1>10, RequestCases

\* What waits behind a handshake waits once, and there alone.
LEMMA HeldStep ==
  ASSUME ServerInv, [Next]_vars, NEW d \in Connections
  PROVE  HeldInv(d)'
<1>0. RequestTypes /\ HeldInv(d) /\ held[d] \in Seq(Requests) /\ Len(held[d]) \in Nat
  <2>1. RequestTypes /\ HeldInv(d) /\ held[d] \in Seq(Requests)
    BY DEF ServerInv, TypeOK, RequestTypes
  <2> QED
    BY <2>1, LenProperties
<1>1. \A k \in 1..Len(held[d]) : held[d][k] \in Requests
  BY <1>0, LenProperties
<1>2. ASSUME held'[d] = held[d], UNCHANGED <<asked>>,
             \A q \in Requests : pc'[q] = pc[q] \/ pc[q] # "held"
      PROVE  HeldInv(d)'
  BY <1>0, <1>1, <1>2 DEF HeldInv, From
<1>3. CASE RequestsAlone
  BY <1>2, <1>3 DEF RequestsAlone
<1>4. ASSUME NEW S \in SUBSET Connections, RequestsGone(S) PROVE HeldInv(d)'
  BY <1>2, <1>4 DEF RequestsGone
<1>5. ASSUME NEW c \in Connections, NEW j \in Ids, NEW call \in Calls, Receive(c, j, call)
      PROVE  HeldInv(d)'
  <2>1. PICK r \in Requests : Comes(c, j, call, r)
    BY <1>5, ReceiveEffect
  <2>2. asked'[r].from = c /\ pc[r] = "no" /\ \A q \in Requests : q # r => asked'[q] = asked[q]
    BY <1>0, <2>1 DEF Comes, RequestTypes
  <2>3. \A q \in Requests : q # r => pc'[q] = pc[q]
    <3>1. asked'[r].id \in Ids
      BY <1>0, <2>1 DEF Comes, RequestTypes
    <3>2. CASE At(r, "held")
      BY <1>0, <3>2 DEF At, RequestTypes
    <3> QED
      BY <2>1, <3>1, <3>2, HandlesEffect DEF Comes
  <2>4. \A k \in 1..Len(held[d]) : held[d][k] # r /\ pc'[held[d][k]] = "held" /\ asked'[held[d][k]].from = d
    BY <1>0, <1>1, <2>2, <2>3 DEF HeldInv, From
  <2>5. CASE held'[d] = held[d]
    BY <1>0, <2>4, <2>5 DEF HeldInv, From
  <2>6. CASE held'[d] = Append(held[d], r) /\ c = d /\ At(r, "held")
    <3>1. /\ Len(held'[d]) = Len(held[d]) + 1 /\ held'[d][Len(held[d]) + 1] = r
          /\ \A k \in 1..Len(held[d]) : held'[d][k] = held[d][k]
      BY <1>0, <2>6, AppendProperties
    <3>2. pc'[r] = "held"
      BY <1>0, <2>6 DEF At, RequestTypes
    <3>3. \A k \in 1..Len(held'[d]) : k \in 1..Len(held[d]) \/ k = Len(held[d]) + 1
      BY <1>0, <3>1
    <3>4. \A k \in 1..Len(held'[d]) : pc'[held'[d][k]] = "held" /\ asked'[held'[d][k]].from = d
      BY <2>2, <2>4, <2>6, <3>1, <3>2, <3>3
    <3>5. \A k, l \in 1..Len(held'[d]) : held'[d][k] = held'[d][l] => k = l
      BY <1>0, <2>4, <3>1, <3>3 DEF HeldInv
    <3> QED
      BY <3>4, <3>5 DEF HeldInv, From
  <2> QED
    BY <1>0, <2>1, <2>5, <2>6 DEF Comes, RequestTypes
<1>6. ASSUME NEW c \in Connections, HandleHeld(c) PROVE HeldInv(d)'
  <2>1. PICK r \in Requests : Takes(c, r) /\ asked[r].id \in Ids
    BY <1>6, HandleHeldEffect
  <2>2. From(r) = c /\ asked' = asked /\ held[c] # <<>> /\ r = held[c][1]
        /\ \A q \in Requests : q # r => pc'[q] = pc[q]
    BY <2>1, HandlesEffect DEF Takes
  <2>3. CASE d = c
    <3>1. held'[d] = Tail(held[d])
      BY <1>0, <2>1, <2>3 DEF Takes, RequestTypes
    <3>2. /\ Len(Tail(held[d])) = Len(held[d]) - 1
          /\ \A k \in 1..Len(Tail(held[d])) : Tail(held[d])[k] = held[d][k + 1]
      BY <1>0, <2>2, <2>3, HeadTailProperties
    <3>3. \A k \in 1..Len(held'[d]) : held'[d][k] = held[d][k + 1] /\ k + 1 \in 1..Len(held[d])
      BY <1>0, <3>1, <3>2
    <3>4. 1 \in 1..Len(held[d])
      BY <1>0, <2>2, <2>3
    <3>5. \A k \in 1..Len(held'[d]) : held'[d][k] # r
      <4>1. SUFFICES ASSUME NEW k \in 1..Len(held'[d]), held'[d][k] = r PROVE FALSE
        OBVIOUS
      <4>2. held[d][k + 1] = held[d][1] /\ k + 1 \in 1..Len(held[d])
        BY <2>2, <2>3, <3>3, <4>1
      <4>3. k + 1 = 1
        BY <1>0, <3>4, <4>2 DEF HeldInv
      <4> QED
        BY <4>3
    <3>6. \A k \in 1..Len(held'[d]) : pc'[held'[d][k]] = "held" /\ asked[held'[d][k]].from = d
      <4>1. SUFFICES ASSUME NEW k \in 1..Len(held'[d])
                     PROVE  pc'[held'[d][k]] = "held" /\ asked[held'[d][k]].from = d
        OBVIOUS
      <4> DEFINE q == held[d][k + 1]
      <4>2. held'[d][k] = q /\ k + 1 \in 1..Len(held[d]) /\ q # r
        BY <3>3, <3>5
      <4>3. pc[q] = "held" /\ asked[q].from = d
        BY <1>0, <4>2 DEF HeldInv, From
      <4>4. q \in Requests
        BY <1>0, <4>2 DEF RequestTypes
      <4> HIDE DEF q
      <4> QED
        BY <2>2, <4>2, <4>3, <4>4
    <3>7. \A k, l \in 1..Len(held'[d]) : held'[d][k] = held'[d][l] => k = l
      <4>1. SUFFICES ASSUME NEW k \in 1..Len(held'[d]), NEW l \in 1..Len(held'[d]),
                            held'[d][k] = held'[d][l]
                     PROVE  k = l
        OBVIOUS
      <4>2. k + 1 = l + 1
        BY <1>0, <3>3, <4>1 DEF HeldInv
      <4> QED
        BY <4>2
    <3> QED
      BY <2>2, <3>6, <3>7 DEF HeldInv, From
  <2>4. CASE d # c
    <3>1. held'[d] = held[d]
      BY <1>0, <2>1, <2>4 DEF Takes, RequestTypes
    <3>2. \A k \in 1..Len(held[d]) : held[d][k] # r
      BY <1>0, <2>2, <2>4 DEF HeldInv
    <3> QED
      BY <1>0, <1>1, <2>2, <3>1, <3>2 DEF HeldInv, From
  <2> QED
    BY <2>3, <2>4
<1>7. ASSUME NEW r \in Requests, Answered(r) \/ Failed(r) \/ ResponseLost(r) PROVE HeldInv(d)'
  <2>1. /\ UNCHANGED <<asked, held>> /\ pc[r] = "running"
        /\ At(r, "responding") \/ At(r, "failing") \/ At(r, "losing")
    BY <1>7 DEF Answered, Failed, ResponseLost
  <2>2. \A q \in Requests : pc'[q] = pc[q] \/ pc[q] # "held"
    BY <1>0, <2>1 DEF At, RequestTypes
  <2> QED
    BY <1>2, <2>1, <2>2
<1>8. ASSUME NEW r \in Requests, Publish(r) PROVE HeldInv(d)'
  BY <1>2, <1>8, PublishEffect DEF PublishedTo
<1>9. ASSUME NEW r \in Requests, SendEnds(r) PROVE HeldInv(d)'
  <2>1. UNCHANGED <<asked, held>> /\ pc[r] # "held" /\ pc[r] # "no"
    BY <1>9, SendEndsEffect
  <2>2. \A q \in Requests : pc'[q] = pc[q] \/ pc[q] # "held"
    BY <1>9, <2>1, SendEndsEffect, OverEffect DEF SendsWaiting
  <2> QED
    BY <1>2, <2>1, <2>2
<1>10. ASSUME NEW r \in Requests, PublishLost(r) \/ PendingLost(r) PROVE HeldInv(d)'
  <2>1. UNCHANGED <<asked, held>>
    BY <1>10, LostEffect DEF LosesPublished, LosesWaiting
  <2>2. \A q \in Requests : pc'[q] = pc[q] \/ pc[q] # "held"
    BY <1>0, <1>10, LostEffect DEF LosesPublished, LosesWaiting, At, RequestTypes
  <2> QED
    BY <1>2, <2>1, <2>2
<1> QED
  BY <1>3, <1>4, <1>5, <1>6, <1>7, <1>8, <1>9, <1>10, RequestCases

\* Requests are numbered as they arrive.
LEMMA AskedStep ==
  ASSUME ServerInv, [Next]_vars
  PROVE  AskedInv'
<1>0. AskedInv /\ RequestTypes
  BY DEF ServerInv, TypeOK
<1>1. CASE UNCHANGED asked
  BY <1>0, <1>1 DEF AskedInv
<1>2. ASSUME NEW c \in Connections, NEW j \in Ids, NEW call \in Calls, Receive(c, j, call)
      PROVE  AskedInv'
  <2>1. PICK r \in Requests : Comes(c, j, call, r) /\ r = Next1
    BY <1>2, ReceiveEffect
  <2>2. \A q \in Requests : asked[q] # None <=> q < r
    BY <1>0, <2>1, NextRequest
  <2>3. asked'[r] # None /\ \A q \in Requests : q # r => asked'[q] = asked[q]
    BY <1>0, <2>1, ServerAssumption DEF Comes, RequestTypes
  <2>4. \A q \in Requests : asked'[q] # None <=> q <= r
    BY <2>2, <2>3, ServerAssumption DEF Requests
  <2>5. r \in 0..MaxRequests
    BY ServerAssumption DEF Requests
  <2> QED
    BY <2>4, <2>5 DEF AskedInv
<1> QED
  BY <1>1, <1>2, RequestCases, HandleHeldEffect, PublishEffect, SendEndsEffect, LostEffect
     DEF RequestsAlone, RequestsGone, Takes, Answered, Failed, ResponseLost, PublishedTo, LosesPublished,
         LosesWaiting

\* The encoder a subscription has is that of a request that subscribed on its connection.
LEMMA EncoderStep ==
  ASSUME ServerInv, [Next]_vars, NEW d \in Connections
  PROVE  EncoderInv(d)'
<1>0. RequestTypes /\ EncoderInv(d) /\ encoder[d] \in Requests \cup {None} /\ None \notin Requests
  BY ServerAssumption DEF ServerInv, TypeOK, RequestTypes
<1>1. ASSUME encoder'[d] \in {None, encoder[d]},
             encoder[d] # None => /\ asked'[encoder[d]] = asked[encoder[d]]
                                  /\ pc'[encoder[d]] \in {"responding", "losing", "stuck", "subscribed", "done"}
      PROVE  EncoderInv(d)'
  BY <1>0, <1>1 DEF EncoderInv, From
<1>2. CASE RequestsAlone
  BY <1>0, <1>1, <1>2 DEF RequestsAlone, EncoderInv
<1>3. ASSUME NEW S \in SUBSET Connections, RequestsGone(S) PROVE EncoderInv(d)'
  <2>1. encoder'[d] \in {None, encoder[d]} /\ UNCHANGED <<asked, pc>>
    BY <1>3 DEF RequestsGone, Disconnects
  <2> QED
    BY <1>0, <1>1, <2>1 DEF EncoderInv
<1>4. ASSUME NEW c \in Connections, NEW j \in Ids, NEW call \in Calls, Receive(c, j, call)
      PROVE  EncoderInv(d)'
  <2>1. PICK r \in Requests : Comes(c, j, call, r)
    BY <1>4, ReceiveEffect
  <2>2. /\ asked'[r].id \in Ids /\ pc[r] = "no" /\ encoder' = encoder
        /\ \A q \in Requests : q # r => asked'[q] = asked[q]
    BY <1>0, <2>1 DEF Comes, RequestTypes
  <2>3. \A q \in Requests : q # r => pc'[q] = pc[q]
    <3>2. CASE At(r, "held")
      BY <1>0, <3>2 DEF At, RequestTypes
    <3> QED
      BY <2>1, <2>2, <3>2, HandlesEffect DEF Comes
  <2> QED
    BY <1>0, <1>1, <2>2, <2>3 DEF EncoderInv
<1>5. ASSUME NEW c \in Connections, HandleHeld(c) PROVE EncoderInv(d)'
  <2>1. PICK r \in Requests : Takes(c, r) /\ asked[r].id \in Ids
    BY <1>5, HandleHeldEffect
  <2>2. /\ asked' = asked /\ encoder' = encoder /\ pc[r] = "held"
        /\ \A q \in Requests : q # r => pc'[q] = pc[q]
    BY <2>1, HandlesEffect DEF Takes
  <2> QED
    BY <1>0, <1>1, <2>2 DEF EncoderInv
<1>6. ASSUME NEW r \in Requests, Answered(r) \/ Failed(r) \/ ResponseLost(r) PROVE EncoderInv(d)'
  <2>1. /\ UNCHANGED asked /\ pc[r] = "running"
        /\ \/ At(r, "responding") /\ Subscribes(r)
           \/ At(r, "losing") /\ (Subscribes(r) \/ UNCHANGED encoder)
           \/ At(r, "failing") /\ UNCHANGED encoder
    BY <1>6 DEF Answered, Failed, ResponseLost, subscriptionVars
  <2>2. /\ pc'[r] \in {"responding", "losing", "failing"} /\ \A q \in Requests : q # r => pc'[q] = pc[q]
        /\ pc'[r] = "failing" => encoder' = encoder
    BY <1>0, <2>1 DEF At, RequestTypes
  <2>3. CASE encoder'[d] \in {None, encoder[d]}
    BY <1>0, <1>1, <2>1, <2>2, <2>3 DEF EncoderInv
  <2>4. CASE encoder'[d] \notin {None, encoder[d]}
    <3>1. Subscribes(r) /\ asked[r] # None
      BY <2>1, <2>4, RequestTyped
    <3>2. encoder'[d] = r /\ asked[r].call = "subscribe" /\ From(r) = d
      BY <1>0, <2>4, <3>1 DEF Subscribes, RequestTypes
    <3> QED
      BY <2>1, <2>2, <2>4, <3>1, <3>2 DEF EncoderInv, From
  <2> QED
    BY <2>3, <2>4
<1>7. ASSUME NEW r \in Requests, Publish(r) PROVE EncoderInv(d)'
  BY <1>0, <1>1, <1>7, PublishEffect DEF PublishedTo, EncoderInv
<1>8. ASSUME NEW r \in Requests, SendEnds(r) PROVE EncoderInv(d)'
  <2>1. UNCHANGED <<asked, encoder>> /\ pc[r] \in {"refused", "failing", "responding", "losing", "stuck"}
    BY <1>8, SendEndsEffect
  <2>2. CASE UNCHANGED pc
    BY <1>0, <1>1, <2>1, <2>2 DEF EncoderInv
  <2>3. CASE Over(r)
    BY <1>0, <1>1, <2>1, <2>3, OverEffect DEF EncoderInv
  <2> QED
    BY <1>8, <2>2, <2>3, SendEndsEffect DEF SendsWaiting
<1>9. ASSUME NEW r \in Requests, PublishLost(r) \/ PendingLost(r) PROVE EncoderInv(d)'
  <2>1. UNCHANGED <<asked, encoder>>
    BY <1>9, LostEffect DEF LosesPublished, LosesWaiting
  <2>2. \A q \in Requests : \/ pc'[q] = pc[q]
                          \/ pc'[q] \in {"losing", "stuck"}
    BY <1>0, <1>9, LostEffect DEF LosesPublished, LosesWaiting, At, RequestTypes
  <2> QED
    BY <1>0, <1>1, <2>1, <2>2 DEF EncoderInv
<1> QED
  BY <1>2, <1>3, <1>4, <1>5, <1>6, <1>7, <1>8, <1>9, RequestCases

LEMMA QuietEffect ==
  ASSUME ServerInv, Quiet
  PROVE  /\ UNCHANGED disconnected
         /\ \/ UNCHANGED wire
            \/ \E c \in Connections :
                 \/ Sends(c, [type |-> "hello_error"]) \/ Sends(c, [type |-> "hello"])
                 \/ Sends(c, [type |-> "attachment"])
<1>0. TypeOK /\ ConnectionTypes
  BY DEF ServerInv, TypeOK
<1>1. ASSUME NEW c \in Connections, EndpointGiven(c)
      PROVE  UNCHANGED wire \/ Sends(c, [type |-> "hello"])
  BY <1>0, <1>1, SendTyped, MessageTyped DEF EndpointGiven, ConnectionTypes
<1>2. ASSUME NEW c \in Connections, BadMessage(c) \/ HandshakeTimeout(c) \/ EndpointRefused(c)
      PROVE  UNCHANGED wire \/ Sends(c, [type |-> "hello_error"])
  <2>1. FailsProtocol(c)
    BY <1>0, <1>2, FailProtocolTyped DEF BadMessage, HandshakeTimeout, EndpointRefused
  <2> QED
    BY <2>1 DEF FailsProtocol
<1>3. UNCHANGED disconnected
  BY DEF Quiet, Accept, Hello, Greeted, EndpointGiven, GreetingLost, Drop, BadMessage, HandshakeTimeout,
         PublishAttachment, EndpointRefused, ListenersClosed, connectionVars
<1>4. ASSUME NEW c \in Connections, Accept(c) \/ Hello(c) \/ Greeted(c) \/ GreetingLost(c)
      PROVE  UNCHANGED wire
  BY <1>4 DEF Accept, Hello, Greeted, GreetingLost, Drop
<1>5. ASSUME NEW ok \in BOOLEAN, ListenersClosed(ok) PROVE UNCHANGED wire
  BY <1>5 DEF ListenersClosed
<1>6. ASSUME NEW c \in Connections, PublishAttachment(c) PROVE Sends(c, [type |-> "attachment"])
  BY <1>0, <1>6, SendTyped, MessageTyped DEF PublishAttachment, ConnectionTypes
<1> QED
  BY <1>1, <1>2, <1>3, <1>4, <1>5, <1>6 DEF Quiet

LEMMA GoneStep ==
  ASSUME ServerInv, [Next]_vars, NEW d \in Connections
  PROVE  GoneInv(d)'
<1>0. GoneInv(d) /\ ConnectionInv(d) /\ RequestTypes /\ ConnectionTypes
  BY DEF ServerInv, TypeOK
<1>1. ASSUME NEW S \in SUBSET Connections, RequestsGone(S) PROVE GoneInv(d)'
  BY <1>0, <1>1 DEF RequestsGone, Disconnects, GoneInv
<1>2. ASSUME d \notin disconnected, UNCHANGED disconnected PROVE GoneInv(d)'
  BY <1>2 DEF GoneInv
<1>3. ASSUME NEW m, NEW c \in Connections, Sends(c, m), d \in disconnected PROVE wire'[d] = wire[d]
  BY <1>3 DEF Sends, Sendable
<1>4. ASSUME d \in disconnected, NEW c \in Connections, NEW r \in Requests, Handles(c, r),
             asked'[r].id \in Ids, stage[c] = "ready"
      PROVE  wire'[d] = wire[d] /\ \A i \in Ids : active'[d][i] = active[d][i]
  <2>1. c # d
    BY <1>0, <1>4 DEF ConnectionInv
  <2>2. \A i \in Ids : active'[d][i] = active[d][i]
    BY <1>4, <2>1, HandlesEffect
  <2>3. wire'[d] = wire[d]
    BY <1>3, <1>4 DEF Handles
  <2> QED
    BY <2>2, <2>3
<1>5. ASSUME d \in disconnected, wire'[d] = wire[d],
             \A i \in Ids : active'[d][i] \in {None, active[d][i]}
      PROVE  GoneInv(d)'
  BY <1>0, <1>5 DEF GoneInv
<1>6. ASSUME NEW c \in Connections, NEW j \in Ids, NEW call \in Calls, Receive(c, j, call)
      PROVE  GoneInv(d)'
  <2>1. PICK r \in Requests : Comes(c, j, call, r)
    BY <1>6, ReceiveEffect
  <2>2. UNCHANGED disconnected /\ asked'[r].id \in Ids
    BY <1>0, <2>1 DEF Comes, RequestTypes
  <2>3. \/ UNCHANGED <<active, wire>>
        \/ stage[c] = "ready" /\ Handles(c, r)
    BY <2>1 DEF Comes
  <2>4. CASE d \in disconnected
    BY <1>4, <1>5, <2>2, <2>3, <2>4
  <2> QED
    BY <1>2, <2>2, <2>4
<1>7. ASSUME NEW c \in Connections, HandleHeld(c) PROVE GoneInv(d)'
  <2>1. PICK r \in Requests : Takes(c, r) /\ asked[r].id \in Ids
    BY <1>7, HandleHeldEffect
  <2>2. UNCHANGED disconnected /\ asked'[r].id \in Ids /\ stage[c] = "ready" /\ Handles(c, r)
    BY <2>1 DEF Takes
  <2>4. CASE d \in disconnected
    BY <1>4, <1>5, <2>2, <2>4
  <2> QED
    BY <1>2, <2>2, <2>4
<1>8. ASSUME NEW r \in Requests, Answered(r) \/ Failed(r) \/ ResponseLost(r) PROVE GoneInv(d)'
  <2>1. UNCHANGED <<active, disconnected>>
    BY <1>8 DEF Answered, Failed, ResponseLost, connectionVars, Drop
  <2>2. d \in disconnected => wire'[d] = wire[d]
    BY <1>3, <1>8, AnsweredEffect, FailedEffect DEF ResponseLost, Drop
  <2> QED
    BY <1>2, <1>5, <2>1, <2>2
<1>9. ASSUME NEW r \in Requests, NEW n, SendsUpdate(r, n), From(r) \in Connections, d \in disconnected
      PROVE  wire'[d] = wire[d]
  BY <1>3, <1>9 DEF SendsUpdate
<1>10. ASSUME NEW r \in Requests, Publish(r) PROVE GoneInv(d)'
  <2>1. UNCHANGED <<active, disconnected>> /\ From(r) \in Connections /\ PublishedTo(r)
    BY <1>10, PublishEffect DEF PublishedTo
  <2>2. d \in disconnected => wire'[d] = wire[d]
    BY <1>9, <2>1 DEF PublishedTo
  <2> QED
    BY <1>2, <1>5, <2>1, <2>2
<1>11. ASSUME NEW r \in Requests, SendEnds(r) PROVE GoneInv(d)'
  <2>1. /\ UNCHANGED disconnected /\ From(r) \in Connections /\ pc[r] # "no"
        /\ \/ SendsWaiting(r)
           \/ Over(r) /\ UNCHANGED <<wire, pending>>
    BY <1>11, SendEndsEffect
  <2>2. ASSUME d \in disconnected
        PROVE  wire'[d] = wire[d] /\ \A i \in Ids : active'[d][i] \in {None, active[d][i]}
    <3>1. CASE SendsWaiting(r)
      BY <1>9, <2>1, <2>2, <3>1 DEF SendsWaiting
    <3>2. CASE Over(r) /\ UNCHANGED <<wire, pending>>
      BY <2>1, <3>2, OverEffect
    <3> QED
      BY <2>1, <3>1, <3>2
  <2> QED
    BY <1>2, <1>5, <2>1, <2>2
<1>12. ASSUME RequestsAlone, Quiet PROVE GoneInv(d)'
  <2>1. UNCHANGED <<active, disconnected>>
    BY <1>12, QuietEffect DEF RequestsAlone
  <2>2. d \in disconnected => wire'[d] = wire[d]
    BY <1>12, QuietEffect, <1>3
  <2> QED
    BY <1>2, <1>5, <2>1, <2>2
<1>13. ASSUME NEW r \in Requests, PublishLost(r) \/ PendingLost(r) PROVE GoneInv(d)'
  <2>1. UNCHANGED <<active, disconnected, wire>>
    BY <1>13, LostEffect DEF LosesPublished, LosesWaiting
  <2> QED
    BY <1>2, <1>5, <2>1
<1> QED
  BY <1>1, <1>6, <1>7, <1>8, <1>10, <1>11, <1>12, <1>13, RequestCases

-----------------------------------------------------------------------------
(* The server *)

LEMMA ServerInit ==
  ASSUME Init
  PROVE  ServerInv
<1>1. ServerTypes /\ ConnectionTypes /\ RequestTypes /\ fails \in 0..MaxFails
  <2>0. up \in 0..Listeners /\ fails \in 0..MaxFails
    BY ServerAssumption DEF Init
  <2>1. ServerTypes /\ fails \in 0..MaxFails
    BY <2>0, Zenon DEF Init, ServerTypes
  <2>2. ConnectionTypes
    BY DEF Init, ConnectionTypes
  <2>3. RequestTypes
    BY ServerAssumption DEF Init, RequestTypes
  <2> QED
    BY <2>1, <2>2, <2>3
<1>2. ShutdownInv
  BY DEF Init, ShutdownInv
<1>3. AskedInv
  <2>1. 0 \in 0..MaxRequests /\ \A r \in Requests : asked[r] # None <=> r <= 0
    BY ServerAssumption DEF Init, Requests
  <2> QED
    BY <2>1 DEF AskedInv
<1>4. ActiveInv
  BY DEF Init, ActiveInv
<1>5. ASSUME NEW c \in Connections PROVE ConnectionInv(c) /\ GoneInv(c) /\ HeldInv(c) /\ EncoderInv(c)
  BY DEF Init, ConnectionInv, GoneInv, HeldInv, EncoderInv, Connected
<1>6. ASSUME NEW r \in Requests PROVE RequestInv(r) /\ PublishedInv(r)
  BY DEF Init, RequestInv, PublishedInv, Sent, Admitted
<1> QED
  BY <1>1, <1>2, <1>3, <1>4, <1>5, <1>6 DEF ServerInv, TypeOK

LEMMA ServerStep ==
  ASSUME ServerInv, [Next]_vars
  PROVE  ServerInv'
BY TypeStep, ConnectionStep, GoneStep, ShutdownStep, RequestStep, PublishedStep, ActiveStep, HeldStep,
   AskedStep, EncoderStep DEF ServerInv

-----------------------------------------------------------------------------
(* The wire *)

\* A connection's wire is as it was, or one frame longer.
LEMMA SendsCases ==
  ASSUME NEW c \in Connections, NEW m, Sends(c, m), NEW d \in Connections
  PROVE  \/ wire'[d] = wire[d]
         \/ d = c /\ Sendable(d) /\ d \notin disconnected /\ wire'[d] = Append(wire[d], m)
BY DEF Sends, Sendable

LEMMA WireTyped ==
  ASSUME ServerInv, NEW d \in Connections
  PROVE  /\ wire[d] \in Seq(Message) /\ Len(wire[d]) \in Nat /\ DOMAIN wire[d] = 1..Len(wire[d])
         /\ \A k \in 1..Len(wire[d]) :
              /\ wire[d][k] \in Message
              /\ wire[d][k].type = "response" => wire[d][k].request \in Requests
              /\ wire[d][k].type = "update" =>
                   wire[d][k].request \in Requests /\ wire[d][k].encoder \in Requests /\ wire[d][k].n \in Nat
<1>1. wire[d] \in Seq(Message)
  BY DEF ServerInv, TypeOK, ConnectionTypes
<1>2. Len(wire[d]) \in Nat /\ DOMAIN wire[d] = 1..Len(wire[d]) /\ wire[d] \in [1..Len(wire[d]) -> Message]
  BY <1>1, LenProperties
<1>3. \A m \in Message : /\ m.type = "response" => m.request \in Requests
                         /\ m.type = "update" => m.request \in Requests /\ m.encoder \in Requests /\ m.n \in Nat
  BY ServerAssumption DEF Message
<1> QED
  BY <1>1, <1>2, <1>3

LEMMA Grown ==
  ASSUME ServerInv, NEW d \in Connections, NEW m \in Message, wire'[d] = Append(wire[d], m)
  PROVE  /\ Len(wire'[d]) = Len(wire[d]) + 1 /\ wire'[d][Len(wire[d]) + 1] = m /\ wire'[d] # <<>>
         /\ DOMAIN wire'[d] = 1..(Len(wire[d]) + 1)
         /\ \A k \in 1..Len(wire[d]) : wire'[d][k] = wire[d][k]
         /\ \A k \in 1..Len(wire'[d]) : k \in 1..Len(wire[d]) \/ k = Len(wire[d]) + 1
<1>1. wire[d] \in Seq(Message) /\ Len(wire[d]) \in Nat
  BY WireTyped
<1>2. /\ Len(wire'[d]) = Len(wire[d]) + 1 /\ wire'[d][Len(wire[d]) + 1] = m /\ wire'[d] # <<>>
      /\ \A k \in 1..Len(wire[d]) : wire'[d][k] = wire[d][k]
  BY <1>1, AppendProperties
<1>3. wire'[d] \in Seq(Message)
  BY <1>1, AppendProperties
<1>4. DOMAIN wire'[d] = 1..Len(wire'[d])
  BY <1>3, LenProperties
<1> QED
  BY <1>1, <1>2, <1>4

\* What one more frame adds to the answers, snapshots and updates on a wire.
LEMMA GrownMembers ==
  ASSUME ServerInv, NEW d \in Connections, NEW m \in Message, wire'[d] = Append(wire[d], m), NEW r
  PROVE  /\ Answers(d, r)' = Answers(d, r) \cup
              (IF m.type = "response" /\ m.request = r THEN {Len(wire[d]) + 1} ELSE {})
         /\ Snapshots(d, r)' = Snapshots(d, r) \cup
              (IF m.type = "response" /\ m.request = r /\ m.result = "ok" THEN {Len(wire[d]) + 1} ELSE {})
         /\ UpdatesOf(d, r)' = UpdatesOf(d, r) \cup
              (IF m.type = "update" /\ m.request = r /\ m.encoder = r THEN {Len(wire[d]) + 1} ELSE {})
<1> DEFINE l == Len(wire[d])
<1>1. /\ l \in Nat /\ DOMAIN wire[d] = 1..l /\ DOMAIN wire'[d] = 1..(l + 1)
      /\ wire'[d][l + 1] = m /\ \A k \in 1..l : wire'[d][k] = wire[d][k]
  BY WireTyped, Grown
<1> HIDE DEF l
<1>2. 1..(l + 1) = 1..l \cup {l + 1} /\ l + 1 \notin 1..l
  BY <1>1
<1>3. Answers(d, r)' = Answers(d, r) \cup (IF m.type = "response" /\ m.request = r THEN {l + 1} ELSE {})
  BY <1>1, <1>2 DEF Answers
<1>4. Snapshots(d, r)' = Snapshots(d, r) \cup
        (IF m.type = "response" /\ m.request = r /\ m.result = "ok" THEN {l + 1} ELSE {})
  BY <1>1, <1>2 DEF Answers, Snapshots
<1>5. UpdatesOf(d, r)' = UpdatesOf(d, r) \cup
        (IF m.type = "update" /\ m.request = r /\ m.encoder = r THEN {l + 1} ELSE {})
  BY <1>1, <1>2 DEF UpdatesOf
<1> QED
  BY <1>3, <1>4, <1>5 DEF l

LEMMA MembersTyped ==
  ASSUME ServerInv, NEW d \in Connections, NEW r
  PROVE  /\ Answers(d, r) \subseteq 1..Len(wire[d]) /\ Snapshots(d, r) \subseteq Answers(d, r)
         /\ UpdatesOf(d, r) \subseteq 1..Len(wire[d]) /\ Len(wire[d]) \in Nat
BY WireTyped DEF Answers, Snapshots, UpdatesOf

\* A connection that is not gone and has been ready has an open transport.
LEMMA Open ==
  ASSUME ServerInv, NEW d \in Connections, d \notin disconnected,
         stage[d] \in {"ready", "closing", "closed"}
  PROVE  Sendable(d)
BY DEF ServerInv, ConnectionInv, Connected, Sendable

\* The greeting on a wire that is as it was, and on one with another frame.
LEMMA GreetedSame ==
  ASSUME NEW d, wire'[d] = wire[d]
  PROVE  /\ GreetedFirst(d) => GreetedFirst(d)'
         /\ HasHello(d) => HasHello(d)'
BY DEF GreetedFirst, HasHello

LEMMA GreetedGrown ==
  ASSUME ServerInv, NEW d \in Connections, GreetedFirst(d), NEW m \in Message,
         wire'[d] = Append(wire[d], m),
         m.type = "hello" => \A k \in 1..Len(wire[d]) : wire[d][k].type = "attachment",
         m.type \in {"response", "update"} => HasHello(d)
  PROVE  /\ GreetedFirst(d)'
         /\ HasHello(d) \/ m.type = "hello" => HasHello(d)'
<1> DEFINE l == Len(wire[d])
<1>1. /\ l \in Nat /\ DOMAIN wire[d] = 1..l /\ DOMAIN wire'[d] = 1..(l + 1) /\ Len(wire'[d]) = l + 1
      /\ wire'[d][l + 1] = m /\ \A k \in 1..l : wire'[d][k] = wire[d][k]
  BY WireTyped, Grown
<1> HIDE DEF l
<1>2. HasHello(d) => \E j \in 1..l : wire'[d][j].type = "hello"
  BY <1>1 DEF HasHello, l
<1>3. ASSUME NEW k \in 1..(l + 1)
      PROVE  /\ wire'[d][k].type = "hello" => \A j \in 1..(k - 1) : wire'[d][j].type = "attachment"
             /\ wire'[d][k].type \in {"response", "update"} => \E j \in 1..(k - 1) : wire'[d][j].type = "hello"
  <2>1. CASE k \in 1..l
    <3>1. \A j \in 1..(k - 1) : wire'[d][j] = wire[d][j]
      BY <1>1, <2>1
    <3>2. wire'[d][k] = wire[d][k] /\ k \in DOMAIN wire[d]
      BY <1>1, <2>1
    <3> QED
      BY <3>1, <3>2 DEF GreetedFirst
  <2>2. CASE k = l + 1
    <3>1. 1..(k - 1) = 1..l
      BY <1>1, <2>2
    <3> QED
      BY <1>1, <1>2, <2>2, <3>1 DEF l
  <2> QED
    BY <1>1, <2>1, <2>2
<1>4. GreetedFirst(d)'
  BY <1>1, <1>3 DEF GreetedFirst
<1>5. ASSUME HasHello(d) \/ m.type = "hello" PROVE HasHello(d)'
  <2>1. \E j \in 1..(l + 1) : wire'[d][j].type = "hello"
    BY <1>1, <1>2, <1>5
  <2> QED
    BY <1>1, <2>1 DEF HasHello
<1> QED
  BY <1>4, <1>5

LEMMA GreetingStep ==
  ASSUME ServerInv, WireInv, [Next]_vars, NEW d \in Connections
  PROVE  GreetingInv(d)'
<1>0. /\ GreetingInv(d) /\ ConnectionInv(d) /\ GoneInv(d) /\ ConnectionTypes /\ RequestTypes /\ TypeOK
      /\ Len(wire[d]) \in Nat
  BY WireTyped DEF ServerInv, WireInv, TypeOK
<1>1. ASSUME wire'[d] = wire[d], stage'[d] = stage[d], handshake'[d] = handshake[d],
             d \in disconnected <=> d \in disconnected',
             \A r \in Requests : pc'[r] \in Admitted /\ asked'[r].from = d => pc[r] \in Admitted /\ From(r) = d
      PROVE  GreetingInv(d)'
  <2>1. GreetedFirst(d)' /\ (HasHello(d) => HasHello(d)')
    BY <1>0, <1>1, GreetedSame DEF GreetingInv
  <2> QED
    BY <1>0, <1>1, <2>1 DEF GreetingInv, From
<1>2. ASSUME stage'[d] = stage[d], handshake'[d] = handshake[d], HasHello(d),
             \/ wire'[d] = wire[d]
             \/ \E m \in Message : m.type \in {"response", "update"} /\ wire'[d] = Append(wire[d], m)
      PROVE  GreetingInv(d)'
  <2>1. GreetedFirst(d)' /\ HasHello(d)'
    <3>1. CASE wire'[d] = wire[d]
      BY <1>0, <1>2, <3>1, GreetedSame DEF GreetingInv
    <3>2. CASE \E m \in Message : m.type \in {"response", "update"} /\ wire'[d] = Append(wire[d], m)
      <4>1. PICK m \in Message : m.type \in {"response", "update"} /\ wire'[d] = Append(wire[d], m)
        BY <3>2
      <4>2. m.type # "hello"
        BY <4>1
      <4> QED
        BY <1>0, <1>2, <4>1, <4>2, GreetedGrown DEF GreetingInv
    <3> QED
      BY <1>2, <3>1, <3>2
  <2>2. ~(handshake[d] \in {"no", "attaching"} /\ stage[d] \notin {"closing", "closed"})
    BY <1>0, <1>2 DEF GreetingInv, HasHello
  <2> QED
    BY <1>0, <1>2, <2>1, <2>2 DEF GreetingInv
<1>3. ASSUME NEW r \in Requests, pc[r] \in Admitted, From(r) = d, d \notin disconnected PROVE HasHello(d)
  BY <1>0, <1>3 DEF GreetingInv
<1>4. ASSUME NEW c \in Connections, NEW r \in Requests, Handles(c, r), asked'[r].id \in Ids,
             stage[c] = "ready", asked'[r].from = c, \A q \in Requests : q # r => asked'[q] = asked[q],
             UNCHANGED <<stage, handshake, disconnected>>
      PROVE  GreetingInv(d)'
  <2>1. CASE d = c
    <3>1. HasHello(d)
      BY <1>0, <1>4, <2>1 DEF GreetingInv, ConnectionInv
    <3>2. \/ wire'[d] = wire[d]
          \/ \E result \in Results : wire'[d] = Append(wire[d], Response(r, result))
      BY <1>4, SendsCases DEF Handles, Results
    <3>3. \A result \in Results : Response(r, result) \in Message /\ Response(r, result).type = "response"
      BY DEF Response, Message, Results
    <3> QED
      BY <1>2, <1>4, <3>1, <3>2, <3>3
  <2>2. CASE d # c
    <3>1. wire'[d] = wire[d]
      BY <1>4, <2>2, SendsCases DEF Handles
    <3>2. \A q \in Requests : pc'[q] \in Admitted /\ asked'[q].from = d => pc[q] \in Admitted /\ From(q) = d
      BY <1>4, <2>2, HandlesEffect DEF From
    <3> QED
      BY <1>1, <1>4, <3>1, <3>2
  <2> QED
    BY <2>1, <2>2
<1>5. ASSUME NEW c \in Connections, NEW j \in Ids, NEW call \in Calls, Receive(c, j, call)
      PROVE  GreetingInv(d)'
  <2>1. PICK r \in Requests : Comes(c, j, call, r)
    BY <1>5, ReceiveEffect
  <2>2. /\ asked'[r].id \in Ids /\ asked'[r].from = c /\ pc[r] = "no"
        /\ \A q \in Requests : q # r => asked'[q] = asked[q]
    <3>1. asked'[r] = [from |-> c, id |-> j, call |-> call] /\ pc[r] = "no"
      BY <1>0, <2>1 DEF Comes, RequestTypes
    <3>2. \A q \in Requests : q # r => asked'[q] = asked[q]
      BY <1>0, <2>1 DEF Comes, RequestTypes
    <3> QED
      BY <3>1, <3>2
  <2>3. UNCHANGED <<stage, handshake, disconnected>>
    BY <1>5 DEF Receive, connectionVars, handshakeVars
  <2>4. CASE At(r, "held") /\ UNCHANGED wire
    <3>1. \A q \in Requests : pc'[q] \in Admitted /\ asked'[q].from = d => pc[q] \in Admitted /\ From(q) = d
      BY <1>0, <2>2, <2>4 DEF At, RequestTypes, Admitted, From
    <3> QED
      BY <1>1, <2>3, <2>4, <3>1
  <2>5. CASE stage[c] = "ready" /\ Handles(c, r)
    BY <1>4, <2>2, <2>3, <2>5
  <2> QED
    BY <2>1, <2>4, <2>5 DEF Comes
<1>6. ASSUME NEW c \in Connections, HandleHeld(c) PROVE GreetingInv(d)'
  <2>1. PICK r \in Requests : Takes(c, r) /\ asked[r].id \in Ids
    BY <1>6, HandleHeldEffect
  <2>2. /\ asked'[r].id \in Ids /\ asked'[r].from = c /\ stage[c] = "ready" /\ Handles(c, r)
        /\ \A q \in Requests : q # r => asked'[q] = asked[q]
    BY <2>1 DEF Takes, From
  <2>3. UNCHANGED <<stage, handshake, disconnected>>
    BY <1>6 DEF HandleHeld, connectionVars, handshakeVars
  <2> QED
    BY <1>4, <2>2, <2>3
<1>7. ASSUME NEW r \in Requests, pc[r] \in Admitted, UNCHANGED <<stage, handshake, disconnected, asked>>,
             \A q \in Requests : q # r => pc'[q] = pc[q],
             \/ wire'[d] = wire[d]
             \/ /\ d = From(r) /\ d \notin disconnected
                /\ \E m \in Message : m.type \in {"response", "update"} /\ wire'[d] = Append(wire[d], m)
      PROVE  GreetingInv(d)'
  <2>1. CASE wire'[d] = wire[d]
    <3>1. \A q \in Requests : pc'[q] \in Admitted /\ asked'[q].from = d => pc[q] \in Admitted /\ From(q) = d
      BY <1>7 DEF From
    <3> QED
      BY <1>1, <1>7, <2>1, <3>1
  <2>2. CASE wire'[d] # wire[d]
    BY <1>2, <1>3, <1>7, <2>2
  <2> QED
    BY <2>1, <2>2
<1>8. ASSUME NEW r \in Requests, Answered(r) \/ Failed(r) \/ ResponseLost(r) PROVE GreetingInv(d)'
  <2>1. /\ UNCHANGED <<stage, handshake, disconnected, asked>> /\ pc[r] \in Admitted
        /\ At(r, "responding") \/ At(r, "failing") \/ At(r, "losing")
    BY <1>8 DEF Answered, Failed, ResponseLost, Drop, connectionVars, handshakeVars, Admitted
  <2>2. \A q \in Requests : q # r => pc'[q] = pc[q]
    BY <1>0, <2>1 DEF At, RequestTypes
  <2>3. \/ wire'[d] = wire[d]
        \/ /\ d = From(r) /\ d \notin disconnected
           /\ \E result \in Results : wire'[d] = Append(wire[d], Response(r, result))
    BY <1>8, AnsweredEffect, FailedEffect, SendsCases DEF ResponseLost, Drop, Results
  <2>4. \A result \in Results : Response(r, result) \in Message /\ Response(r, result).type = "response"
    BY DEF Response, Message, Results
  <2> QED
    BY <1>7, <2>1, <2>2, <2>3, <2>4
<1>9. ASSUME NEW r \in Requests, NEW n \in 1..MaxUpdates, SendsUpdate(r, n), From(r) \in Connections
      PROVE  \/ wire'[d] = wire[d]
             \/ /\ d = From(r) /\ d \notin disconnected
                /\ \E m \in Message : m.type \in {"response", "update"} /\ wire'[d] = Append(wire[d], m)
  <2>1. CASE UNCHANGED wire
    BY <2>1
  <2> DEFINE m == [type |-> "update", encoder |-> encoder[From(r)], request |-> r, n |-> n]
  <2>2. CASE encoder[From(r)] \in Requests /\ Sends(From(r), m)
    <3>1. m \in Message /\ m.type = "update"
      BY <2>2 DEF Message
    <3> HIDE DEF m
    <3> QED
      BY <1>9, <2>2, <3>1, SendsCases
  <2> QED
    BY <1>9, <2>1, <2>2 DEF SendsUpdate
<1>10. ASSUME NEW r \in Requests, Publish(r) PROVE GreetingInv(d)'
  <2>1. From(r) \in Connections /\ PublishedTo(r) /\ published[r] + 1 \in 1..MaxUpdates
    BY <1>10, PublishEffect DEF PublishedTo
  <2>2. /\ UNCHANGED <<stage, handshake, disconnected, asked>> /\ pc[r] \in Admitted /\ pc' = pc
    BY <1>10 DEF Publish, Publishes, connectionVars, handshakeVars, requestVars, Admitted
  <2>3. \/ wire'[d] = wire[d]
        \/ /\ d = From(r) /\ d \notin disconnected
           /\ \E m \in Message : m.type \in {"response", "update"} /\ wire'[d] = Append(wire[d], m)
    BY <1>9, <2>1 DEF PublishedTo
  <2> QED
    BY <1>7, <2>2, <2>3
<1>11. ASSUME NEW r \in Requests, SendEnds(r) PROVE GreetingInv(d)'
  <2>1. /\ UNCHANGED <<stage, handshake, disconnected, asked>> /\ pc[r] \in Admitted /\ pc[r] # "no"
        /\ From(r) \in Connections
    BY <1>11, SendEndsEffect DEF SendEnds, connectionVars, handshakeVars, Admitted
  <2>2. CASE SendsWaiting(r)
    <3>1. Head(pending[r]) \in 1..MaxUpdates
      BY <1>0, <2>2, HeadTailProperties DEF SendsWaiting, RequestTypes
    <3>2. \/ wire'[d] = wire[d]
          \/ /\ d = From(r) /\ d \notin disconnected
             /\ \E m \in Message : m.type \in {"response", "update"} /\ wire'[d] = Append(wire[d], m)
      BY <1>9, <2>1, <2>2, <3>1 DEF SendsWaiting
    <3> QED
      BY <1>7, <2>1, <2>2, <3>2 DEF SendsWaiting
  <2>3. CASE Over(r) /\ UNCHANGED <<wire, pending>>
    BY <1>7, <2>1, <2>3, OverEffect
  <2> QED
    BY <1>11, <2>2, <2>3, SendEndsEffect
<1>12. ASSUME NEW r \in Requests, PublishLost(r) \/ PendingLost(r) PROVE GreetingInv(d)'
  <2>1. /\ UNCHANGED <<stage, handshake, disconnected, asked>> /\ pc[r] \in Admitted /\ wire' = wire
        /\ pc' = pc \/ At(r, "stuck") \/ At(r, "losing")
    BY <1>12, LostEffect DEF LosesPublished, LosesWaiting, Admitted
  <2>2. \A q \in Requests : q # r => pc'[q] = pc[q]
    BY <1>0, <2>1 DEF At, RequestTypes
  <2> QED
    BY <1>7, <2>1, <2>2
<1>13. ASSUME NEW S \in SUBSET Connections, RequestsGone(S) PROVE GreetingInv(d)'
  <2>1. CASE d \in S
    <3>1. wire'[d] = <<>> /\ stage'[d] = "closed" /\ d \in disconnected'
      BY <1>13, <2>1 DEF RequestsGone, Disconnects
    <3>2. DOMAIN wire'[d] = {}
      BY <3>1
    <3> QED
      BY <3>1, <3>2 DEF GreetingInv, GreetedFirst
  <2>2. CASE d \notin S
    BY <1>1, <1>13, <2>2 DEF RequestsGone, Disconnects, From
  <2> QED
    BY <2>1, <2>2
<1>14. ASSUME UNCHANGED <<disconnected, asked, pc>>, wire'[d] = wire[d],
              handshake'[d] \in {"no", "attaching"} =>
                \/ handshake[d] \in {"no", "attaching"} /\ stage[d] \notin {"closing", "closed"}
                \/ stage'[d] \in {"closing", "closed"},
              stage'[d] = "ready" => handshake'[d] = "done",
              handshake'[d] = "greeting" \/ stage'[d] = "ready" => handshake[d] = "greeting" \/ stage[d] = "ready"
       PROVE  GreetingInv(d)'
  <2>1. GreetedFirst(d)' /\ (HasHello(d) => HasHello(d)')
    BY <1>0, <1>14, GreetedSame DEF GreetingInv
  <2> QED
    BY <1>0, <1>14, <2>1 DEF GreetingInv, From
<1>15. CASE RequestsAlone /\ Quiet
  <2>0. UNCHANGED <<asked, pc>>
    BY <1>15 DEF RequestsAlone
  <2>1. ASSUME UNCHANGED <<disconnected, stage, wire, handshake>> PROVE GreetingInv(d)'
    BY <1>1, <2>0, <2>1 DEF From
  <2>2. ASSUME NEW c \in Connections, Accept(c) \/ Hello(c) \/ Greeted(c) \/ GreetingLost(c)
        PROVE  GreetingInv(d)'
    <3>1. UNCHANGED <<disconnected, wire>>
      BY <2>2 DEF Accept, Hello, Greeted, GreetingLost, Drop
    <3>2. CASE Accept(c)
      BY <1>0, <1>14, <2>0, <3>1, <3>2 DEF Accept, GreetingInv, ConnectionInv, ConnectionTypes, handshakeVars
    <3>3. CASE Hello(c)
      BY <1>0, <1>14, <2>0, <3>1, <3>3 DEF Hello, GreetingInv, ConnectionInv, ConnectionTypes
    <3>4. CASE Greeted(c)
      BY <1>0, <1>14, <2>0, <3>1, <3>4 DEF Greeted, GreetingInv, ConnectionTypes
    <3>5. CASE GreetingLost(c)
      BY <1>0, <1>14, <2>0, <3>1, <3>5 DEF GreetingLost, Drop, GreetingInv, ConnectionTypes
    <3> QED
      BY <2>2, <3>2, <3>3, <3>4, <3>5
  <2>3. ASSUME NEW c \in Connections, EndpointGiven(c) PROVE GreetingInv(d)'
    <3>1. /\ UNCHANGED <<stage, disconnected>>
          /\ handshake[c] = "attaching" /\ handshake'[c] \in {"greeting", "done"}
          /\ \A b \in Connections : b # c => handshake'[b] = handshake[b]
      BY <1>0, <2>3 DEF EndpointGiven, connectionVars, ConnectionTypes
    <3>2. CASE TooLate(c)
      <4>1. UNCHANGED wire /\ handshake'[c] = "done"
        BY <1>0, <2>3, <3>2 DEF EndpointGiven, ConnectionTypes
      <4> QED
        BY <1>0, <1>14, <2>0, <3>1, <4>1 DEF GreetingInv
    <3>3. CASE ~TooLate(c)
      <4>1. Sends(c, [type |-> "hello"])
        BY <1>0, <2>3, <3>3, SendTyped, MessageTyped DEF EndpointGiven, ConnectionTypes
      <4>2. CASE d # c
        <5>1. wire'[d] = wire[d]
          BY <4>1, <4>2, SendsCases
        <5> QED
          BY <1>0, <1>14, <2>0, <3>1, <4>2, <5>1 DEF GreetingInv
      <4>3. CASE d = c
        <5>1. stage[d] = "handshaking" /\ transport[d] = "open" /\ d \notin disconnected
          BY <1>0, <3>1, <3>3, <4>3 DEF TooLate, Terminal, GreetingInv, ConnectionInv, ConnectionTypes, Connected
        <5>2. \A k \in 1..Len(wire[d]) : wire[d][k].type = "attachment"
          BY <1>0, <3>1, <4>3, <5>1 DEF GreetingInv
        <5>3. wire'[d] = Append(wire[d], [type |-> "hello"])
          BY <4>1, <4>3, <5>1 DEF Sends, Sendable
        <5>4. GreetedFirst(d)' /\ HasHello(d)'
          <6> DEFINE m == [type |-> "hello"]
          <6>1. m \in Message /\ m.type = "hello"
            BY MessageTyped
          <6> HIDE DEF m
          <6> QED
            BY <1>0, <5>2, <5>3, <6>1, GreetedGrown DEF GreetingInv, m
        <5>5. handshake'[d] = "greeting"
          BY <1>0, <2>3, <3>3, <4>3 DEF EndpointGiven, ConnectionTypes
        <5> QED
          BY <3>1, <5>1, <5>4, <5>5 DEF GreetingInv
      <4> QED
        BY <4>2, <4>3
    <3> QED
      BY <3>2, <3>3
  <2>4. ASSUME NEW c \in Connections, BadMessage(c) \/ HandshakeTimeout(c) \/ EndpointRefused(c)
        PROVE  GreetingInv(d)'
    <3>1. /\ UNCHANGED disconnected /\ FailsProtocol(c)
          /\ \A b \in Connections : handshake'[b] = handshake[b] \/ handshake'[b] = "done"
      BY <1>0, <2>4, FailProtocolTyped DEF BadMessage, HandshakeTimeout, EndpointRefused,
         handshakeVars, ConnectionTypes
    <3>2. CASE wire'[d] = wire[d] /\ stage'[d] = stage[d]
      BY <1>0, <1>14, <2>0, <3>1, <3>2 DEF GreetingInv
    <3>3. CASE wire'[d] = wire[d] /\ stage'[d] = "closing"
      BY <1>0, <1>14, <2>0, <3>1, <3>3 DEF GreetingInv
    <3>4. CASE wire'[d] = Append(wire[d], [type |-> "hello_error"]) /\ stage'[d] = "closing"
      <4>1. GreetedFirst(d)' /\ (HasHello(d) => HasHello(d)')
        <5> DEFINE m == [type |-> "hello_error"]
        <5>1. m \in Message /\ m.type = "hello_error"
          BY MessageTyped
        <5> HIDE DEF m
        <5> QED
          BY <1>0, <3>4, <5>1, GreetedGrown DEF GreetingInv, m
      <4> QED
        BY <1>0, <2>0, <3>1, <3>4, <4>1 DEF GreetingInv, From
    <3>5. \/ wire'[d] = wire[d] /\ stage'[d] \in {stage[d], "closing"}
          \/ wire'[d] = Append(wire[d], [type |-> "hello_error"]) /\ stage'[d] = "closing"
      BY <1>0, <3>1, SendsCases DEF FailsProtocol, ConnectionTypes
    <3> QED
      BY <3>2, <3>3, <3>4, <3>5
  <2>5. ASSUME NEW c \in Connections, PublishAttachment(c) PROVE GreetingInv(d)'
    <3> DEFINE m == [type |-> "attachment"]
    <3>1. m \in Message /\ m.type = "attachment"
      BY MessageTyped
    <3>2. Sends(c, m) /\ UNCHANGED <<stage, disconnected, handshake>>
      BY <1>0, <2>5, <3>1, SendTyped DEF PublishAttachment, connectionVars, handshakeVars, ConnectionTypes
    <3> HIDE DEF m
    <3>3. CASE wire'[d] = wire[d]
      BY <1>1, <2>0, <3>2, <3>3 DEF From
    <3>4. CASE wire'[d] = Append(wire[d], m)
      <4>1. GreetedFirst(d)' /\ (HasHello(d) => HasHello(d)')
        BY <1>0, <3>1, <3>4, GreetedGrown DEF GreetingInv
      <4>2. (\A k \in 1..Len(wire[d]) : wire[d][k].type = "attachment")
              => \A k \in 1..Len(wire'[d]) : wire'[d][k].type = "attachment"
        BY <3>1, <3>4, Grown
      <4> QED
        BY <1>0, <2>0, <3>2, <4>1, <4>2 DEF GreetingInv, From
    <3> QED
      BY <3>2, <3>3, <3>4, SendsCases
  <2>6. ASSUME NEW ok \in BOOLEAN, ListenersClosed(ok) PROVE GreetingInv(d)'
    BY <1>0, <1>14, <2>0, <2>6 DEF ListenersClosed, GreetingInv,
       ConnectionInv, Connected, ConnectionTypes, handshakeVars
  <2> QED
    BY <1>15, <2>1, <2>2, <2>3, <2>4, <2>5, <2>6 DEF Quiet
<1> QED
  BY <1>5, <1>6, <1>8, <1>10, <1>11, <1>12, <1>13, <1>15, RequestCases

\* What is on a wire does not change.
LEMMA SameMembers ==
  ASSUME NEW d, wire'[d] = wire[d], NEW r
  PROVE  /\ Answers(d, r)' = Answers(d, r) /\ Snapshots(d, r)' = Snapshots(d, r)
         /\ UpdatesOf(d, r)' = UpdatesOf(d, r)
BY DEF Answers, Snapshots, UpdatesOf

\* How a request that has been answered goes on.
GoesOn(q, d) ==
  /\ From(q) = d /\ pc[q] \in AnsweredAt => asked'[q] = asked[q] /\ pc'[q] \in AnsweredAt
  /\ pc'[q] \in {"responding", "subscribed"} /\ asked'[q].from = d /\ d \notin disconnected' =>
       pc[q] \in {"responding", "subscribed"} /\ From(q) = d /\ d \notin disconnected

LEMMA AnswersStep ==
  ASSUME ServerInv, WireInv, [Next]_vars, NEW d \in Connections
  PROVE  AnswersInv(d)'
<1>0. AnswersInv(d) /\ ConnectionTypes /\ RequestTypes /\ TypeOK
  BY DEF ServerInv, WireInv, TypeOK
<1>1. ASSUME NEW q \in Requests, GoesOn(q, d),
             Answers(d, q)' = Answers(d, q), Snapshots(d, q)' = Snapshots(d, q)
      PROVE  /\ Answers(d, q)' # {} => asked'[q].from = d /\ pc'[q] \in AnsweredAt
             /\ \A j, k \in Answers(d, q)' : j = k
             /\ pc'[q] \in {"responding", "subscribed"} /\ asked'[q].from = d /\ d \notin disconnected' =>
                  Snapshots(d, q)' # {}
  BY <1>0, <1>1 DEF AnswersInv, GoesOn, From
<1>2. ASSUME \A q \in Requests : GoesOn(q, d),
             \/ wire'[d] = wire[d]
             \/ \E m \in Message : m.type # "response" /\ wire'[d] = Append(wire[d], m)
      PROVE  AnswersInv(d)'
  <2>1. ASSUME NEW q \in Requests
        PROVE  Answers(d, q)' = Answers(d, q) /\ Snapshots(d, q)' = Snapshots(d, q)
    <3>1. CASE wire'[d] = wire[d]
      BY <3>1, SameMembers
    <3>2. CASE \E m \in Message : m.type # "response" /\ wire'[d] = Append(wire[d], m)
      <4>1. PICK m \in Message : m.type # "response" /\ wire'[d] = Append(wire[d], m)
        BY <3>2
      <4>2. /\ Answers(d, q)' = Answers(d, q) \cup
                 (IF m.type = "response" /\ m.request = q THEN {Len(wire[d]) + 1} ELSE {})
            /\ Snapshots(d, q)' = Snapshots(d, q) \cup
                 (IF m.type = "response" /\ m.request = q /\ m.result = "ok" THEN {Len(wire[d]) + 1} ELSE {})
        BY <4>1, GrownMembers
      <4> QED
        BY <4>1, <4>2
    <3> QED
      BY <1>2, <3>1, <3>2
  <2> QED
    BY <1>1, <1>2, <2>1 DEF AnswersInv, From
\* r is answered with result, on d's wire or, when nothing can be sent, nowhere.
<1>3. ASSUME NEW c \in Connections, NEW r \in Requests, NEW result \in Results,
             Sends(c, Response(r, result)), asked'[r].from = c, pc'[r] \in AnsweredAt,
             pc[r] \notin AnsweredAt, stage[c] \in {"ready", "closing", "closed"}, UNCHANGED disconnected,
             result = "ok" \/ pc'[r] \notin {"responding", "subscribed"},
             \A q \in Requests : q # r => asked'[q] = asked[q] /\ pc'[q] = pc[q]
      PROVE  AnswersInv(d)'
  <2>1. Answers(d, r) = {}
    BY <1>0, <1>3 DEF AnswersInv
  <2>2. \A q \in Requests : q # r => GoesOn(q, d)
    BY <1>3 DEF GoesOn, From
  <2>3. CASE wire'[d] = wire[d]
    <3>1. \A q \in Requests : Answers(d, q)' = Answers(d, q) /\ Snapshots(d, q)' = Snapshots(d, q)
      BY <2>3, SameMembers
    <3>2. d = c => d \in disconnected
      <4>1. SUFFICES ASSUME d = c, d \notin disconnected PROVE FALSE
        OBVIOUS
      <4>2. wire'[d] = Append(wire[d], Response(r, result))
        BY <1>3, <4>1, Open DEF Sends
      <4>3. Response(r, result) \in Message
        BY DEF Response, Message, Results
      <4>4. Len(wire'[d]) = Len(wire[d]) + 1 /\ Len(wire[d]) \in Nat
        BY <4>2, <4>3, Grown, WireTyped
      <4> QED
        BY <2>3, <4>4
    <3>3. ASSUME NEW q \in Requests
          PROVE  /\ Answers(d, q)' # {} => asked'[q].from = d /\ pc'[q] \in AnsweredAt
                 /\ \A j, k \in Answers(d, q)' : j = k
                 /\ pc'[q] \in {"responding", "subscribed"} /\ asked'[q].from = d /\ d \notin disconnected' =>
                      Snapshots(d, q)' # {}
      <4>1. CASE q = r
        BY <1>3, <2>1, <3>1, <3>2, <4>1
      <4>2. CASE q # r
        BY <1>1, <2>2, <3>1, <4>2
      <4> QED
        BY <4>1, <4>2
    <3> QED
      BY <3>3 DEF AnswersInv, From
  <2>4. CASE d = c /\ wire'[d] = Append(wire[d], Response(r, result))
    <3>1. Response(r, result) \in Message
      BY DEF Response, Message, Results
    <3>2. /\ Response(r, result).type = "response" /\ Response(r, result).request = r
          /\ Response(r, result).result = result
      BY DEF Response
    <3>a. ASSUME NEW q \in Requests
          PROVE  /\ Answers(d, q)' = Answers(d, q) \cup (IF r = q THEN {Len(wire[d]) + 1} ELSE {})
                 /\ Snapshots(d, q)' = Snapshots(d, q) \cup
                      (IF r = q /\ result = "ok" THEN {Len(wire[d]) + 1} ELSE {})
      <4> DEFINE m == Response(r, result)
      <4>1. m \in Message /\ m.type = "response" /\ m.request = r /\ m.result = result
        BY <3>1, <3>2
      <4>2. wire'[d] = Append(wire[d], m)
        BY <2>4
      <4> HIDE DEF m
      <4>3. /\ Answers(d, q)' = Answers(d, q) \cup
                 (IF m.type = "response" /\ m.request = q THEN {Len(wire[d]) + 1} ELSE {})
            /\ Snapshots(d, q)' = Snapshots(d, q) \cup
                 (IF m.type = "response" /\ m.request = q /\ m.result = "ok" THEN {Len(wire[d]) + 1} ELSE {})
        BY <4>1, <4>2, GrownMembers
      <4> QED
        BY <4>1, <4>3
    <3>3. ASSUME NEW q \in Requests, q # r
          PROVE  Answers(d, q)' = Answers(d, q) /\ Snapshots(d, q)' = Snapshots(d, q)
      BY <3>3, <3>a
    <3>4. Answers(d, r)' = {Len(wire[d]) + 1} /\ (result = "ok" => Snapshots(d, r)' # {})
      BY <2>1, <3>a
    <3>5. ASSUME NEW q \in Requests
          PROVE  /\ Answers(d, q)' # {} => asked'[q].from = d /\ pc'[q] \in AnsweredAt
                 /\ \A j, k \in Answers(d, q)' : j = k
                 /\ pc'[q] \in {"responding", "subscribed"} /\ asked'[q].from = d /\ d \notin disconnected' =>
                      Snapshots(d, q)' # {}
      <4>1. CASE q = r
        BY <1>3, <2>4, <3>4, <4>1
      <4>2. CASE q # r
        BY <1>1, <2>2, <3>3, <4>2
      <4> QED
        BY <4>1, <4>2
    <3> QED
      BY <3>5 DEF AnswersInv, From
  <2> QED
    BY <1>3, <2>3, <2>4, SendsCases
<1>4. ASSUME NEW c \in Connections, NEW r \in Requests, Handles(c, r), asked'[r].id \in Ids,
             stage[c] = "ready", asked'[r].from = c, \A q \in Requests : q # r => asked'[q] = asked[q],
             UNCHANGED disconnected, pc[r] \in {"no", "held"}
      PROVE  AnswersInv(d)'
  <2>1. /\ pc'[r] \in {"refused", "failing", "running"} /\ pc[r] \notin AnsweredAt
        /\ \A q \in Requests : q # r => pc'[q] = pc[q]
    BY <1>4, HandlesEffect DEF AnsweredAt
  <2>2. \/ \E result \in Results : Sends(c, Response(r, result)) /\ pc'[r] \in {"refused", "failing"}
        \/ UNCHANGED wire
    BY <1>0, <1>4 DEF Handles, At, RequestTypes, Results
  <2>3. ASSUME NEW result \in Results, Sends(c, Response(r, result)), pc'[r] \in {"refused", "failing"}
        PROVE  AnswersInv(d)'
    <3>1. pc'[r] \in AnsweredAt /\ pc'[r] \notin {"responding", "subscribed"}
      BY <2>3 DEF AnsweredAt
    <3> QED
      BY <1>3, <1>4, <2>1, <2>3, <3>1
  <2>4. CASE UNCHANGED wire
    <3>1. \A q \in Requests : GoesOn(q, d)
      BY <1>4, <2>1 DEF GoesOn, AnsweredAt, From
    <3> QED
      BY <1>2, <2>4, <3>1
  <2> QED
    BY <2>2, <2>3, <2>4
<1>5. ASSUME NEW c \in Connections, NEW j \in Ids, NEW call \in Calls, Receive(c, j, call)
      PROVE  AnswersInv(d)'
  <2>1. PICK r \in Requests : Comes(c, j, call, r)
    BY <1>5, ReceiveEffect
  <2>2. /\ asked'[r].id \in Ids /\ asked'[r].from = c /\ pc[r] = "no"
        /\ \A q \in Requests : q # r => asked'[q] = asked[q]
    <3>1. asked'[r] = [from |-> c, id |-> j, call |-> call] /\ pc[r] = "no"
      BY <1>0, <2>1 DEF Comes, RequestTypes
    <3>2. \A q \in Requests : q # r => asked'[q] = asked[q]
      BY <1>0, <2>1 DEF Comes, RequestTypes
    <3> QED
      BY <3>1, <3>2
  <2>3. UNCHANGED disconnected
    BY <2>1 DEF Comes
  <2>4. CASE At(r, "held") /\ UNCHANGED wire
    <3>1. \A q \in Requests : GoesOn(q, d)
      BY <1>0, <2>2, <2>3, <2>4 DEF At, RequestTypes, AnsweredAt, From, GoesOn
    <3> QED
      BY <1>2, <2>4, <3>1
  <2>5. CASE stage[c] = "ready" /\ Handles(c, r)
    BY <1>4, <2>2, <2>3, <2>5
  <2> QED
    BY <2>1, <2>4, <2>5 DEF Comes
<1>6. ASSUME NEW c \in Connections, HandleHeld(c) PROVE AnswersInv(d)'
  <2>1. PICK r \in Requests : Takes(c, r) /\ asked[r].id \in Ids
    BY <1>6, HandleHeldEffect
  <2>2. /\ asked'[r].id \in Ids /\ asked'[r].from = c /\ stage[c] = "ready" /\ Handles(c, r)
        /\ \A q \in Requests : q # r => asked'[q] = asked[q]
        /\ UNCHANGED disconnected /\ pc[r] = "held"
    BY <2>1 DEF Takes, From
  <2> QED
    BY <1>4, <2>2
<1>7. ASSUME NEW r \in Requests, Answered(r) \/ Failed(r) PROVE AnswersInv(d)'
  <2>1. /\ UNCHANGED <<disconnected, asked>> /\ pc[r] = "running"
        /\ \/ Answered(r) /\ At(r, "responding")
           \/ Failed(r) /\ At(r, "failing")
    BY <1>7 DEF Answered, Failed, connectionVars
  <2>2. /\ \A q \in Requests : q # r => pc'[q] = pc[q]
        /\ \/ Answered(r) /\ pc'[r] = "responding"
           \/ Failed(r) /\ pc'[r] = "failing"
    BY <1>0, <2>1 DEF At, RequestTypes
  <2>3. From(r) \in Connections /\ stage[From(r)] \in {"ready", "closing", "closed"}
    BY <2>1, RequestTyped DEF ServerInv, RequestInv, Admitted
  <2>4. PICK result \in Results : /\ Sends(From(r), Response(r, result))
                                  /\ result = "ok" \/ pc'[r] = "failing"
    BY <2>2, AnsweredEffect, FailedEffect DEF Results
  <2>5. pc'[r] \in AnsweredAt /\ pc[r] \notin AnsweredAt
    BY <2>1, <2>2 DEF AnsweredAt
  <2>6. result = "ok" \/ pc'[r] \notin {"responding", "subscribed"}
    BY <2>4
  <2>7. asked'[r].from = From(r)
    BY <2>1 DEF From
  <2> QED
    BY <1>3, <2>1, <2>2, <2>3, <2>4, <2>5, <2>6, <2>7
<1>8. ASSUME NEW r \in Requests, ResponseLost(r) PROVE AnswersInv(d)'
  <2>1. UNCHANGED <<disconnected, asked, wire>> /\ pc[r] = "running" /\ At(r, "losing")
    BY <1>8 DEF ResponseLost, Drop
  <2>2. \A q \in Requests : GoesOn(q, d)
    BY <1>0, <2>1 DEF At, RequestTypes, GoesOn, AnsweredAt, From
  <2> QED
    BY <1>2, <2>1, <2>2
<1>9. ASSUME NEW r \in Requests, NEW n \in 1..MaxUpdates, SendsUpdate(r, n), From(r) \in Connections
      PROVE  \/ wire'[d] = wire[d]
             \/ \E m \in Message : m.type # "response" /\ wire'[d] = Append(wire[d], m)
  <2>1. CASE UNCHANGED wire
    BY <2>1
  <2> DEFINE m == [type |-> "update", encoder |-> encoder[From(r)], request |-> r, n |-> n]
  <2>2. CASE encoder[From(r)] \in Requests /\ Sends(From(r), m)
    <3>1. m \in Message /\ m.type # "response"
      BY <2>2 DEF Message
    <3> HIDE DEF m
    <3> QED
      BY <1>9, <2>2, <3>1, SendsCases
  <2> QED
    BY <1>9, <2>1, <2>2 DEF SendsUpdate
<1>10. ASSUME NEW r \in Requests, Publish(r) PROVE AnswersInv(d)'
  <2>1. /\ From(r) \in Connections /\ PublishedTo(r) /\ published[r] + 1 \in 1..MaxUpdates
        /\ UNCHANGED <<disconnected, asked, pc>>
    BY <1>10, PublishEffect DEF PublishedTo
  <2>2. \/ wire'[d] = wire[d]
        \/ \E m \in Message : m.type # "response" /\ wire'[d] = Append(wire[d], m)
    BY <1>9, <2>1 DEF PublishedTo
  <2>3. \A q \in Requests : GoesOn(q, d)
    BY <2>1 DEF GoesOn, From
  <2> QED
    BY <1>2, <2>2, <2>3
<1>11. ASSUME NEW r \in Requests, SendEnds(r) PROVE AnswersInv(d)'
  <2>1. /\ UNCHANGED <<disconnected, asked>> /\ pc[r] # "no" /\ From(r) \in Connections
        /\ \/ pc[r] \in {"refused", "failing", "responding"}
           \/ pc[r] \in {"losing", "stuck"} /\ From(r) \in disconnected
    BY <1>11, SendEndsEffect
  <2>2. CASE SendsWaiting(r)
    <3>1. Head(pending[r]) \in 1..MaxUpdates
      BY <1>0, <2>2, HeadTailProperties DEF SendsWaiting, RequestTypes
    <3>2. \/ wire'[d] = wire[d]
          \/ \E m \in Message : m.type # "response" /\ wire'[d] = Append(wire[d], m)
      BY <1>9, <2>1, <2>2, <3>1 DEF SendsWaiting
    <3>3. \A q \in Requests : GoesOn(q, d)
      BY <2>1, <2>2 DEF GoesOn, From, SendsWaiting
    <3> QED
      BY <1>2, <3>2, <3>3
  <2>3. CASE Over(r) /\ UNCHANGED <<wire, pending>>
    <3>1. \A q \in Requests : GoesOn(q, d)
      BY <2>1, <2>3, OverEffect DEF GoesOn, From, AnsweredAt
    <3> QED
      BY <1>2, <2>3, <3>1
  <2> QED
    BY <1>11, <2>2, <2>3, SendEndsEffect
<1>12. ASSUME NEW S \in SUBSET Connections, RequestsGone(S) PROVE AnswersInv(d)'
  <2>1. CASE d \in S
    <3>1. wire'[d] = <<>> /\ d \in disconnected'
      BY <1>12, <2>1 DEF RequestsGone, Disconnects
    <3>2. \A r \in Requests : Answers(d, r)' = {}
      BY <3>1 DEF Answers
    <3> QED
      BY <3>1, <3>2 DEF AnswersInv
  <2>2. CASE d \notin S
    <3>1. wire'[d] = wire[d] /\ UNCHANGED <<asked, pc>> /\ (d \in disconnected' <=> d \in disconnected)
      BY <1>12, <2>2 DEF RequestsGone, Disconnects
    <3>2. \A q \in Requests : GoesOn(q, d)
      BY <3>1 DEF GoesOn, From
    <3> QED
      BY <1>2, <3>1, <3>2
  <2> QED
    BY <2>1, <2>2
<1>13. CASE RequestsAlone /\ Quiet
  <2>1. \A q \in Requests : GoesOn(q, d)
    BY <1>13, QuietEffect DEF GoesOn, RequestsAlone, From
  <2>2. \/ wire'[d] = wire[d]
        \/ \E m \in Message : m.type # "response" /\ wire'[d] = Append(wire[d], m)
    <3>1. \A type \in {"hello", "hello_error", "attachment"} :
            [type |-> type] \in Message /\ [type |-> type].type # "response"
      BY DEF Message
    <3> QED
      BY <1>13, <3>1, QuietEffect, SendsCases
  <2> QED
    BY <1>2, <2>1, <2>2
<1>14. ASSUME NEW r \in Requests, PublishLost(r) \/ PendingLost(r) PROVE AnswersInv(d)'
  <2>1. /\ UNCHANGED <<disconnected, asked, wire>>
        /\ \/ pc' = pc
           \/ pc[r] = "responding" /\ (At(r, "stuck") \/ At(r, "losing"))
    BY <1>14, LostEffect DEF LosesPublished, LosesWaiting
  <2>2. \A q \in Requests : GoesOn(q, d)
    BY <1>0, <2>1 DEF At, RequestTypes, GoesOn, AnsweredAt, From
  <2> QED
    BY <1>2, <2>1, <2>2
<1> QED
  BY <1>5, <1>6, <1>7, <1>8, <1>10, <1>11, <1>12, <1>13, <1>14, RequestCases

\* What is sent of what has been published.
Advances(r) ==
  /\ SendsUpdate(r, Sent(r) + 1) /\ Sent(r) + 1 \in 1..MaxUpdates /\ From(r) \in Connections
  /\ Sent(r)' = Sent(r) + 1 /\ \A q \in Requests : q # r => Sent(q)' = Sent(q)
  /\ UNCHANGED <<asked, encoder, disconnected, pc, lost>>
  /\ pc[r] \in {"responding", "subscribed"} \/ From(r) \in disconnected
  /\ pc[r] \in {"responding", "losing", "subscribed"} /\ asked[r] # None /\ asked[r].call = "subscribe"

LEMMA SentTyped ==
  ASSUME ServerInv, NEW r \in Requests
  PROVE  /\ Sent(r) \in Nat /\ published[r] \in Nat /\ pending[r] \in Seq(1..MaxUpdates)
         /\ Len(pending[r]) \in Nat /\ PublishedInv(r) /\ RequestTypes
<1>1. pending[r] \in Seq(1..MaxUpdates) /\ published[r] \in Nat /\ PublishedInv(r) /\ RequestTypes
  BY ServerAssumption DEF ServerInv, TypeOK, RequestTypes
<1>2. Len(pending[r]) \in Nat
  BY <1>1, LenProperties
<1>3. Sent(r) = published[r] - Len(pending[r]) /\ Len(pending[r]) <= published[r]
  BY <1>1 DEF Sent, PublishedInv
<1>4. Sent(r) \in Nat
  BY <1>1, <1>2, <1>3
<1> QED
  BY <1>1, <1>2, <1>4

LEMMA PublishSends ==
  ASSUME ServerInv, NEW r \in Requests, Publish(r)
  PROVE  \/ Advances(r)
         \/ /\ \A q \in Requests : Sent(q)' = Sent(q)
            /\ UNCHANGED <<wire, asked, encoder, disconnected, pc, lost>>
<1>1. PublishedTo(r) /\ From(r) \in Connections
  BY PublishEffect
<1>2. /\ Sent(r) \in Nat /\ published[r] \in Nat /\ pending[r] \in Seq(1..MaxUpdates)
      /\ Len(pending[r]) \in Nat /\ PublishedInv(r) /\ RequestTypes
  BY SentTyped
<1>3. \A q \in Requests : q # r => published'[q] = published[q]
  BY <1>1, <1>2 DEF PublishedTo, RequestTypes
<1>4. published'[r] = published[r] + 1
  BY <1>1, <1>2 DEF PublishedTo, RequestTypes
<1>5. CASE pc[r] = "subscribed"
  <2>1. pending' = pending /\ SendsUpdate(r, published[r] + 1)
    BY <1>1, <1>5 DEF PublishedTo
  <2>2. Len(pending[r]) = 0
    BY <1>2, <1>5 DEF PublishedInv
  <2>3. Sent(r) = published[r] /\ Sent(r)' = Sent(r) + 1
    BY <1>2, <1>4, <2>1, <2>2 DEF Sent
  <2>4. \A q \in Requests : q # r => Sent(q)' = Sent(q)
    BY <1>3, <2>1 DEF Sent
  <2> QED
    BY <1>1, <1>5, <2>1, <2>3, <2>4 DEF Advances, PublishedTo
<1>6. CASE pc[r] # "subscribed"
  <2>1. pending' = [pending EXCEPT ![r] = Append(@, published[r] + 1)] /\ UNCHANGED wire
        /\ published[r] + 1 \in 1..MaxUpdates
    BY <1>1, <1>6 DEF PublishedTo
  <2>2. pending'[r] = Append(pending[r], published[r] + 1)
        /\ \A q \in Requests : q # r => pending'[q] = pending[q]
    BY <1>2, <2>1 DEF RequestTypes
  <2>3. Len(pending'[r]) = Len(pending[r]) + 1
    BY <1>2, <2>1, <2>2, AppendProperties
  <2>4. Sent(r)' = Sent(r) /\ \A q \in Requests : q # r => Sent(q)' = Sent(q)
    BY <1>2, <1>3, <1>4, <2>2, <2>3 DEF Sent
  <2> QED
    BY <1>1, <2>1, <2>4 DEF PublishedTo
<1> QED
  BY <1>5, <1>6

LEMMA SendEndsSends ==
  ASSUME ServerInv, NEW r \in Requests, SendEnds(r)
  PROVE  \/ Advances(r)
         \/ /\ \A q \in Requests : Sent(q)' = Sent(q)
            /\ UNCHANGED <<wire, asked, encoder, disconnected, lost>>
<1>1. /\ From(r) \in Connections /\ asked[r] # None
      /\ \/ pc[r] \in {"refused", "failing", "responding"}
         \/ pc[r] \in {"losing", "stuck"} /\ From(r) \in disconnected
      /\ \/ pc[r] \in {"responding", "losing"} /\ SendsWaiting(r)
         \/ Over(r) /\ UNCHANGED <<wire, pending>>
      /\ UNCHANGED <<held, disconnected, asked, encoder, published, lost>>
  BY SendEndsEffect
<1>2. /\ Sent(r) \in Nat /\ published[r] \in Nat /\ pending[r] \in Seq(1..MaxUpdates)
      /\ Len(pending[r]) \in Nat /\ PublishedInv(r) /\ RequestTypes
  BY SentTyped
<1>3. CASE pc[r] \in {"responding", "losing"} /\ SendsWaiting(r)
  <2>1. pending[r] # <<>> /\ pending'[r] = Tail(pending[r])
        /\ \A q \in Requests : q # r => pending'[q] = pending[q]
    BY <1>2, <1>3 DEF SendsWaiting, RequestTypes
  <2>2. /\ Len(pending'[r]) = Len(pending[r]) - 1 /\ Head(pending[r]) \in 1..MaxUpdates
        /\ Head(pending[r]) = pending[r][1] /\ 1 \in 1..Len(pending[r])
    <3>1. Len(Tail(pending[r])) = Len(pending[r]) - 1 /\ Head(pending[r]) \in 1..MaxUpdates
      BY <1>2, <2>1, HeadTailProperties
    <3>2. Head(pending[r]) = pending[r][1] /\ 1 \in 1..Len(pending[r])
      BY <1>2, <2>1
    <3> QED
      BY <2>1, <3>1, <3>2
  <2>3. Head(pending[r]) = Sent(r) + 1
    BY <1>2, <2>2 DEF PublishedInv
  <2>4. Sent(r)' = Sent(r) + 1 /\ \A q \in Requests : q # r => Sent(q)' = Sent(q)
    BY <1>1, <1>2, <2>1, <2>2 DEF Sent
  <2>5. asked[r].call = "subscribe"
    BY <1>2, <2>1 DEF PublishedInv
  <2> QED
    BY <1>1, <1>3, <2>2, <2>3, <2>4, <2>5 DEF Advances, SendsWaiting
<1>4. CASE UNCHANGED <<wire, pending>>
  BY <1>1, <1>4 DEF Sent
<1> QED
  BY <1>1, <1>3, <1>4

\* What an update that is sent does to a wire.
LEMMA AdvancesWire ==
  ASSUME ServerInv, NEW r \in Requests, Advances(r), NEW d \in Connections
  PROVE  \/ wire'[d] = wire[d] /\ (d = From(r) /\ encoder[d] # None => d \in disconnected)
         \/ /\ d = From(r) /\ d \notin disconnected /\ encoder[d] \in Requests
            /\ \E m \in Message : /\ m.type = "update" /\ m.encoder = encoder[d] /\ m.request = r
                                  /\ m.n = Sent(r) + 1 /\ wire'[d] = Append(wire[d], m)
<1>1. From(r) \in Connections /\ Sent(r) + 1 \in 1..MaxUpdates /\ SendsUpdate(r, Sent(r) + 1)
  BY DEF Advances
<1>2. stage[From(r)] \in {"ready", "closing", "closed"}
  BY DEF Advances, ServerInv, RequestInv, Admitted
<1>3. CASE encoder[From(r)] = None /\ UNCHANGED wire
  BY <1>3
<1> DEFINE m == [type |-> "update", encoder |-> encoder[From(r)], request |-> r, n |-> Sent(r) + 1]
<1>4. CASE encoder[From(r)] \in Requests /\ Sends(From(r), m)
  <2>1. m \in Message
    BY <1>1, <1>4 DEF Message
  <2>2. m.type = "update" /\ m.encoder = encoder[From(r)] /\ m.request = r /\ m.n = Sent(r) + 1
    OBVIOUS
  <2> HIDE DEF m
  <2>3. CASE d # From(r)
    BY <1>1, <1>4, <2>3, SendsCases
  <2>4. CASE d = From(r) /\ d \in disconnected
    BY <1>1, <1>4, <2>4, SendsCases
  <2>5. CASE d = From(r) /\ d \notin disconnected
    <3>1. Sendable(d)
      BY <1>2, <2>5, Open
    <3> QED
      BY <1>4, <2>1, <2>2, <2>5, <3>1 DEF Sends
  <2> QED
    BY <2>3, <2>4, <2>5
<1> QED
  BY <1>1, <1>3, <1>4 DEF SendsUpdate

\* What a response, sent or lost, does to a subscription.
LEMMA SubscribesEffect ==
  ASSUME ServerInv, NEW r \in Requests, pc[r] = "running", Subscribes(r) \/ UNCHANGED encoder,
         NEW d \in Connections
  PROVE  \/ encoder'[d] \in {None, encoder[d]}
         \/ encoder'[d] = r /\ From(r) = d /\ asked[r].call = "subscribe"
<1>1. RequestTypes /\ From(r) \in Connections
  BY RequestTyped DEF ServerInv, TypeOK
<1> QED
  BY <1>1 DEF Subscribes, RequestTypes

\* The next update of r is lost.
Skips(r) ==
  /\ Sent(r)' = Sent(r) + 1 /\ \A q \in Requests : q # r => Sent(q)' = Sent(q)
  /\ lost' = [lost EXCEPT ![r] = @ \cup {Sent(r) + 1}]
  /\ UNCHANGED <<wire, asked, encoder, disconnected>>

LEMMA LostSkips ==
  ASSUME ServerInv, NEW r \in Requests, PublishLost(r) \/ PendingLost(r)
  PROVE  Skips(r)
<1>1. /\ Sent(r) \in Nat /\ published[r] \in Nat /\ pending[r] \in Seq(1..MaxUpdates)
      /\ Len(pending[r]) \in Nat /\ PublishedInv(r) /\ RequestTypes
  BY SentTyped
<1>2. CASE LosesPublished(r)
  <2>1. /\ published'[r] = published[r] + 1 /\ \A q \in Requests : q # r => published'[q] = published[q]
        /\ pending' = pending /\ lost' = [lost EXCEPT ![r] = @ \cup {published[r] + 1}]
        /\ UNCHANGED <<wire, asked, encoder, disconnected>>
    BY <1>1, <1>2 DEF LosesPublished, RequestTypes
  <2>2. Len(pending[r]) = 0
    BY <1>1, <1>2 DEF LosesPublished, PublishedInv
  <2>3. Sent(r) = published[r] /\ Sent(r)' = Sent(r) + 1
    BY <1>1, <2>1, <2>2 DEF Sent
  <2>4. \A q \in Requests : q # r => Sent(q)' = Sent(q)
    BY <2>1 DEF Sent
  <2> QED
    BY <2>1, <2>3, <2>4 DEF Skips
<1>3. CASE LosesWaiting(r)
  <2>1. /\ pending[r] # <<>> /\ pending'[r] = Tail(pending[r])
        /\ \A q \in Requests : q # r => pending'[q] = pending[q]
        /\ published' = published /\ lost' = [lost EXCEPT ![r] = @ \cup {Head(pending[r])}]
        /\ UNCHANGED <<wire, asked, encoder, disconnected>>
    BY <1>1, <1>3 DEF LosesWaiting, RequestTypes
  <2>2. /\ Len(Tail(pending[r])) = Len(pending[r]) - 1
        /\ Head(pending[r]) = pending[r][1] /\ 1 \in 1..Len(pending[r])
    BY <1>1, <2>1, HeadTailProperties
  <2>3. Head(pending[r]) = Sent(r) + 1
    BY <1>1, <2>2 DEF PublishedInv
  <2>4. Sent(r)' = Sent(r) + 1 /\ \A q \in Requests : q # r => Sent(q)' = Sent(q)
    BY <1>1, <2>1, <2>2 DEF Sent
  <2> QED
    BY <2>1, <2>3, <2>4 DEF Skips
<1> QED
  BY <1>2, <1>3, LostEffect

\* A step that writes no update and no answer to a call that went well.
Plain(d) ==
  /\ \A q \in Requests : Sent(q)' = Sent(q) /\ (asked'[q] = asked[q] \/ asked[q] = None)
  /\ UNCHANGED <<disconnected, lost>>
  /\ UNCHANGED encoder \/ \E r \in Requests : ResponseLost(r)
  /\ \/ wire'[d] = wire[d]
     \/ \E m \in Message : /\ m.type # "update" /\ (m.type = "response" => m.result # "ok")
                           /\ wire'[d] = Append(wire[d], m)

LEMMA WireCases ==
  ASSUME ServerInv, [Next]_vars, NEW d \in Connections
  PROVE  \/ Plain(d)
         \/ \E S \in SUBSET Connections : RequestsGone(S)
         \/ \E r \in Requests : Answered(r) \/ Advances(r) \/ Skips(r)
<1>0. RequestTypes /\ TypeOK
  BY DEF ServerInv, TypeOK
<1>1. ASSUME NEW c \in Connections, NEW r \in Requests, NEW result \in Results \ {"ok"},
             Sends(c, Response(r, result))
      PROVE  \/ wire'[d] = wire[d]
             \/ \E m \in Message : /\ m.type # "update" /\ (m.type = "response" => m.result # "ok")
                                   /\ wire'[d] = Append(wire[d], m)
  <2> DEFINE m == Response(r, result)
  <2>1. m \in Message /\ m.type # "update" /\ m.result # "ok"
    BY DEF Message, Response, Results
  <2> HIDE DEF m
  <2>2. Sends(c, m)
    BY <1>1 DEF m
  <2> QED
    BY <2>1, <2>2, SendsCases
<1>2. ASSUME UNCHANGED <<pending, published>> PROVE \A q \in Requests : Sent(q)' = Sent(q)
  BY <1>2 DEF Sent
<1>3. ASSUME NEW c \in Connections, NEW r \in Requests, Handles(c, r)
      PROVE  \/ wire'[d] = wire[d]
             \/ \E m \in Message : /\ m.type # "update" /\ (m.type = "response" => m.result # "ok")
                                   /\ wire'[d] = Append(wire[d], m)
  BY <1>1, <1>3 DEF Handles, Results
<1>4. ASSUME NEW c \in Connections, NEW j \in Ids, NEW call \in Calls, Receive(c, j, call)
      PROVE  Plain(d)
  <2>1. PICK r \in Requests : Comes(c, j, call, r)
    BY <1>4, ReceiveEffect
  <2>2. \A q \in Requests : asked'[q] = asked[q] \/ asked[q] = None
    BY <1>0, <2>1 DEF Comes, RequestTypes
  <2>3. UNCHANGED <<disconnected, encoder, pending, published, lost>> /\ (UNCHANGED wire \/ Handles(c, r))
    BY <2>1 DEF Comes
  <2> QED
    BY <1>2, <1>3, <2>2, <2>3 DEF Plain
<1>5. ASSUME NEW c \in Connections, HandleHeld(c) PROVE Plain(d)
  <2>1. PICK r \in Requests : Takes(c, r) /\ asked[r].id \in Ids
    BY <1>5, HandleHeldEffect
  <2>2. UNCHANGED <<asked, disconnected, encoder, pending, published, lost>> /\ Handles(c, r)
    BY <2>1 DEF Takes
  <2> QED
    BY <1>2, <1>3, <2>2 DEF Plain
<1>6. ASSUME NEW r \in Requests, Failed(r) PROVE Plain(d)
  <2>1. UNCHANGED <<asked, disconnected, encoder, pending, published, lost>>
    BY <1>6 DEF Failed, connectionVars, subscriptionVars
  <2>2. PICK result \in Results \ {"ok"} : Sends(From(r), Response(r, result))
    BY <1>6, FailedEffect
  <2>3. From(r) \in Connections
    BY <1>6, FailedEffect
  <2> QED
    BY <1>1, <1>2, <2>1, <2>2, <2>3 DEF Plain
<1>7. ASSUME NEW r \in Requests, ResponseLost(r) PROVE Plain(d)
  BY <1>2, <1>7 DEF ResponseLost, Drop, Plain
<1>8. CASE RequestsAlone /\ Quiet
  <2>1. UNCHANGED <<asked, disconnected, encoder, pending, published, lost>>
    BY <1>8, QuietEffect DEF RequestsAlone
  <2>2. \A type \in {"hello", "hello_error", "attachment"} :
          [type |-> type] \in Message /\ [type |-> type].type \notin {"update", "response"}
    BY DEF Message
  <2>3. \/ wire'[d] = wire[d]
        \/ \E m \in Message : /\ m.type # "update" /\ (m.type = "response" => m.result # "ok")
                              /\ wire'[d] = Append(wire[d], m)
    BY <1>8, <2>2, QuietEffect, SendsCases
  <2> QED
    BY <1>2, <2>1, <2>3 DEF Plain
<1>9. ASSUME NEW r \in Requests, Publish(r) \/ SendEnds(r) PROVE Plain(d) \/ Advances(r)
  BY <1>9, PublishSends, SendEndsSends DEF Plain
<1>10. ASSUME NEW r \in Requests, PublishLost(r) \/ PendingLost(r) PROVE Skips(r)
  BY <1>10, LostSkips
<1> QED
  BY <1>4, <1>5, <1>6, <1>7, <1>8, <1>9, <1>10, RequestCases

\* The updates of r by its own encoder are those there were.
LEMMA NumbersKept ==
  ASSUME ServerInv, WireInv, NEW d \in Connections, NEW r \in Requests, Sent(r)' \in Nat,
         \/ wire'[d] = wire[d]
         \/ \E m \in Message : /\ m.type # "update" \/ m.request # r \/ m.encoder # r
                               /\ wire'[d] = Append(wire[d], m),
         Sent(r) <= Sent(r)', lost[r] \subseteq lost'[r]
  PROVE  /\ InOrder(d, r)'
         /\ \A k \in UpdatesOf(d, r)' : wire'[d][k].n \in 1..Sent(r)'
         /\ encoder[d] = r /\ d \notin disconnected =>
              \A m \in 1..Sent(r) \ lost'[r] : \E j \in UpdatesOf(d, r)' : wire'[d][j].n = m
<1>1. UpdatesOf(d, r)' = UpdatesOf(d, r) /\ \A k \in UpdatesOf(d, r) : wire'[d][k] = wire[d][k]
  <2>1. CASE wire'[d] = wire[d]
    BY <2>1, SameMembers
  <2>2. CASE \E m \in Message : /\ m.type # "update" \/ m.request # r \/ m.encoder # r
                                /\ wire'[d] = Append(wire[d], m)
    <3>1. PICK m \in Message : /\ m.type # "update" \/ m.request # r \/ m.encoder # r
                               /\ wire'[d] = Append(wire[d], m)
      BY <2>2
    <3>2. UpdatesOf(d, r)' = UpdatesOf(d, r) \cup
              (IF m.type = "update" /\ m.request = r /\ m.encoder = r THEN {Len(wire[d]) + 1} ELSE {})
      BY <3>1, GrownMembers
    <3>3. \A k \in 1..Len(wire[d]) : wire'[d][k] = wire[d][k]
      BY <3>1, Grown
    <3>4. UpdatesOf(d, r) \subseteq 1..Len(wire[d])
      BY MembersTyped
    <3> QED
      BY <3>1, <3>2, <3>3, <3>4
  <2> QED
    BY <2>1, <2>2
<1>2. /\ InOrder(d, r) /\ \A k \in UpdatesOf(d, r) : wire[d][k].n \in 1..Sent(r)
      /\ encoder[d] = r /\ d \notin disconnected =>
           \A m \in 1..Sent(r) \ lost[r] : \E j \in UpdatesOf(d, r) : wire[d][j].n = m
  BY DEF WireInv, NumbersInv, Numbered
<1>3. InOrder(d, r)'
  BY <1>1, <1>2 DEF InOrder
<1>4. Sent(r) \in Nat
  BY SentTyped
<1>5. \A k \in UpdatesOf(d, r)' : wire'[d][k].n \in 1..Sent(r)'
  BY <1>1, <1>2, <1>4
<1>6. encoder[d] = r /\ d \notin disconnected =>
        \A m \in 1..Sent(r) \ lost'[r] : \E j \in UpdatesOf(d, r)' : wire'[d][j].n = m
  BY <1>1, <1>2
<1> QED
  BY <1>3, <1>5, <1>6

LEMMA Below ==
  ASSUME NEW n \in Nat, NEW k \in 1..n
  PROVE  k \in Nat /\ k < n + 1 /\ k # n + 1
  OBVIOUS

\* One more update of r by its own encoder, the next.
LEMMA NumbersGrown ==
  ASSUME ServerInv, WireInv, NEW d \in Connections, NEW r \in Requests, encoder[d] = r, d \notin disconnected,
         NEW m \in Message, m.type = "update", m.request = r, m.encoder = r, m.n = Sent(r) + 1,
         wire'[d] = Append(wire[d], m), Sent(r)' = Sent(r) + 1,
         lost'[r] = lost[r]
  PROVE  /\ InOrder(d, r)'
         /\ \A k \in UpdatesOf(d, r)' : wire'[d][k].n \in 1..Sent(r)'
         /\ \A i \in 1..Sent(r)' \ lost'[r] : \E j \in UpdatesOf(d, r)' : wire'[d][j].n = i
<1> DEFINE l == Len(wire[d])
<1>1. /\ UpdatesOf(d, r)' = UpdatesOf(d, r) \cup {l + 1} /\ wire'[d][l + 1] = m
      /\ UpdatesOf(d, r) \subseteq 1..l /\ l \in Nat /\ \A k \in 1..l : wire'[d][k] = wire[d][k]
  BY GrownMembers, Grown, MembersTyped
<1> HIDE DEF l
<1>2. /\ InOrder(d, r) /\ \A k \in UpdatesOf(d, r) : wire[d][k].n \in 1..Sent(r)
      /\ \A i \in 1..Sent(r) \ lost[r] : \E j \in UpdatesOf(d, r) : wire[d][j].n = i
  BY DEF WireInv, NumbersInv, Numbered
<1>3. Sent(r) \in Nat /\ 1..Sent(r)' = 1..Sent(r) \cup {Sent(r) + 1}
  <2>1. Sent(r) \in Nat
    BY SentTyped
  <2>2. 1..(Sent(r) + 1) = 1..Sent(r) \cup {Sent(r) + 1}
    BY <2>1
  <2> QED
    BY <2>1, <2>2
<1>4. ASSUME NEW k \in UpdatesOf(d, r)
      PROVE  k \in Nat /\ k < l + 1 /\ wire'[d][k] = wire[d][k] /\ k # l + 1
  <2>1. k \in 1..l /\ l \in Nat /\ wire'[d][k] = wire[d][k]
    BY <1>1
  <2>2. k \in Nat /\ k < l + 1 /\ k # l + 1
    BY <2>1, Below
  <2> QED
    BY <2>1, <2>2
<1>5. ASSUME NEW k \in UpdatesOf(d, r)' PROVE wire'[d][k].n \in 1..Sent(r)'
  <2>1. CASE k = l + 1
    BY <1>1, <1>3, <2>1
  <2>2. CASE k \in UpdatesOf(d, r)
    BY <1>2, <1>3, <1>4, <2>2
  <2> QED
    BY <1>1, <2>1, <2>2
<1>6. \A i \in 1..Sent(r)' \ lost'[r] : \E j \in UpdatesOf(d, r)' : wire'[d][j].n = i
  <2>1. SUFFICES ASSUME NEW i \in 1..Sent(r)' \ lost'[r] PROVE \E j \in UpdatesOf(d, r)' : wire'[d][j].n = i
    OBVIOUS
  <2>2. CASE i = Sent(r) + 1
    BY <1>1, <2>2
  <2>3. CASE i \in 1..Sent(r)
    BY <1>1, <1>2, <1>4, <2>3
  <2> QED
    BY <1>3, <2>1, <2>2, <2>3
<1>7. ASSUME NEW k \in UpdatesOf(d, r)'
      PROVE  /\ \A j \in UpdatesOf(d, r)' : j < k => wire'[d][j].n < wire'[d][k].n
             /\ \A i \in 1..(wire'[d][k].n - 1) \ lost'[r] :
                  \E j \in UpdatesOf(d, r)' : j < k /\ wire'[d][j].n = i
  <2>1. CASE k = l + 1
    <3>1. wire'[d][k].n = Sent(r) + 1
      BY <1>1, <2>1
    <3>2. \A j \in UpdatesOf(d, r)' : j < k => j \in UpdatesOf(d, r)
      BY <1>1, <2>1
    <3>3. \A j \in UpdatesOf(d, r) : wire'[d][j].n \in 1..Sent(r)
      BY <1>2, <1>4
    <3>4. \A i \in 1..Sent(r) \ lost'[r] : \E j \in UpdatesOf(d, r)' : j < k /\ wire'[d][j].n = i
      BY <1>1, <1>2, <1>4, <2>1
    <3>5. 1..(wire'[d][k].n - 1) = 1..Sent(r)
      BY <1>3, <3>1
    <3>6. ASSUME NEW j \in UpdatesOf(d, r)', j < k PROVE wire'[d][j].n < wire'[d][k].n
      <4>1. wire'[d][j].n \in 1..Sent(r)
        BY <3>2, <3>3, <3>6
      <4>2. wire'[d][j].n < Sent(r) + 1
        BY <1>3, <4>1, Below
      <4> QED
        BY <3>1, <4>2
    <3> QED
      BY <3>4, <3>5, <3>6
  <2>2. CASE k \in UpdatesOf(d, r)
    <3>1. \A j \in UpdatesOf(d, r)' : j < k => j \in UpdatesOf(d, r)
      BY <1>1, <2>2
    <3>2. /\ \A j \in UpdatesOf(d, r) : j < k => wire[d][j].n < wire[d][k].n
          /\ \A i \in 1..(wire[d][k].n - 1) \ lost[r] : \E j \in UpdatesOf(d, r) : j < k /\ wire[d][j].n = i
      BY <1>2, <2>2 DEF InOrder
    <3>3. wire'[d][k] = wire[d][k]
      BY <1>4, <2>2
    <3>4. \A j \in UpdatesOf(d, r)' : j < k => wire'[d][j].n < wire'[d][k].n
      BY <1>4, <3>1, <3>2, <3>3
    <3>5. \A i \in 1..(wire'[d][k].n - 1) \ lost'[r] : \E j \in UpdatesOf(d, r)' : j < k /\ wire'[d][j].n = i
      BY <1>1, <1>4, <3>2, <3>3
    <3> QED
      BY <3>4, <3>5
  <2> QED
    BY <1>1, <2>1, <2>2
<1>8. InOrder(d, r)'
  BY <1>7 DEF InOrder
<1> QED
  BY <1>5, <1>6, <1>8

LEMMA NumbersStep ==
  ASSUME ServerInv, WireInv, [Next]_vars, NEW d \in Connections
  PROVE  NumbersInv(d)'
<1>1. ASSUME NEW r \in Requests, Sent(r)' = Sent(r), d \in disconnected <=> d \in disconnected',
             lost'[r] = lost[r],
             encoder'[d] = r => encoder[d] = r \/ Sent(r) = 0,
             \/ wire'[d] = wire[d]
             \/ \E m \in Message : /\ m.type # "update" \/ m.request # r \/ m.encoder # r
                                   /\ wire'[d] = Append(wire[d], m)
      PROVE  Numbered(d, r)'
  <2>1. Sent(r)' \in Nat /\ Sent(r) <= Sent(r)'
    BY <1>1, SentTyped
  <2>2. /\ InOrder(d, r)'
        /\ \A k \in UpdatesOf(d, r)' : wire'[d][k].n \in 1..Sent(r)'
        /\ encoder[d] = r /\ d \notin disconnected =>
             \A m \in 1..Sent(r) \ lost'[r] : \E j \in UpdatesOf(d, r)' : wire'[d][j].n = m
    BY <1>1, <2>1, NumbersKept
  <2>3. Sent(r) = 0 => 1..Sent(r)' = {}
    BY <1>1
  <2> QED
    BY <1>1, <2>2, <2>3 DEF Numbered
<1>2. ASSUME NEW q \in Requests, pc[q] = "running", Subscribes(q) \/ UNCHANGED encoder,
             NEW r \in Requests, encoder'[d] = r
      PROVE  encoder[d] = r \/ Sent(r) = 0
  <2>1. r # None
    BY ServerAssumption
  <2>2. encoder[d] = r \/ q = r
    BY <1>2, <2>1, SubscribesEffect
  <2>3. q = r => Sent(r) = 0
    BY <1>2 DEF ServerInv, PublishedInv
  <2> QED
    BY <2>2, <2>3
<1>3. CASE Plain(d)
  <2>1. SUFFICES ASSUME NEW r \in Requests PROVE Numbered(d, r)'
    BY DEF NumbersInv
  <2>2. encoder'[d] = r => encoder[d] = r \/ Sent(r) = 0
    BY <1>2, <1>3 DEF Plain, ResponseLost
  <2> QED
    BY <1>1, <1>3, <2>2 DEF Plain
<1>4. ASSUME NEW S \in SUBSET Connections, RequestsGone(S) PROVE NumbersInv(d)'
  <2>1. CASE d \in S
    <3>1. wire'[d] = <<>> /\ d \in disconnected'
      BY <1>4, <2>1 DEF RequestsGone, Disconnects
    <3>2. \A r \in Requests : UpdatesOf(d, r)' = {}
      BY <3>1 DEF UpdatesOf
    <3> QED
      BY <3>1, <3>2 DEF NumbersInv, Numbered, InOrder
  <2>2. CASE d \notin S
    <3>1. /\ wire'[d] = wire[d] /\ encoder'[d] = encoder[d] /\ UNCHANGED <<pending, published, lost>>
          /\ d \in disconnected' <=> d \in disconnected
      BY <1>4, <2>2 DEF RequestsGone, Disconnects
    <3>2. \A r \in Requests : Sent(r)' = Sent(r)
      BY <3>1 DEF Sent
    <3> QED
      BY <1>1, <3>1, <3>2 DEF NumbersInv
  <2> QED
    BY <2>1, <2>2
<1>5. ASSUME NEW q \in Requests, Answered(q) PROVE NumbersInv(d)'
  <2>1. UNCHANGED <<disconnected, pending, published, lost>> /\ pc[q] = "running" /\ Subscribes(q)
    BY <1>5 DEF Answered, connectionVars
  <2>2. Response(q, "ok") \in Message /\ Response(q, "ok").type = "response"
    BY DEF Response, Message
  <2>3. \/ wire'[d] = wire[d]
        \/ \E m \in Message : m.type = "response" /\ wire'[d] = Append(wire[d], m)
    BY <1>5, <2>2, AnsweredEffect, SendsCases
  <2>4. \A r \in Requests : Sent(r)' = Sent(r)
    BY <2>1 DEF Sent
  <2> QED
    BY <1>1, <1>2, <2>1, <2>3, <2>4 DEF NumbersInv
<1>6. ASSUME NEW q \in Requests, Advances(q) PROVE NumbersInv(d)'
  <2>1. /\ UNCHANGED <<encoder, disconnected, lost>> /\ Sent(q)' = Sent(q) + 1
        /\ \A r \in Requests : r # q => Sent(r)' = Sent(r)
    BY <1>6 DEF Advances
  <2>2. Sent(q)' \in Nat /\ Sent(q) <= Sent(q)' /\ Sent(q)' # Sent(q)
    <3>1. Sent(q) \in Nat
      BY SentTyped
    <3> QED
      BY <2>1, <3>1
  <2>3. \/ wire'[d] = wire[d] /\ (d = From(q) /\ encoder[d] # None => d \in disconnected)
        \/ /\ d = From(q) /\ d \notin disconnected /\ encoder[d] \in Requests
           /\ \E m \in Message : /\ m.type = "update" /\ m.encoder = encoder[d] /\ m.request = q
                                 /\ m.n = Sent(q) + 1 /\ wire'[d] = Append(wire[d], m)
    BY <1>6, AdvancesWire
  <2>4. SUFFICES ASSUME NEW r \in Requests PROVE Numbered(d, r)'
    BY DEF NumbersInv
  <2>5. CASE r # q
    BY <1>1, <2>1, <2>3, <2>5
  <2>6. CASE r = q /\ wire'[d] = wire[d] /\ (d = From(q) /\ encoder[d] # None => d \in disconnected)
    <3>1. ~(encoder[d] = r /\ d \notin disconnected)
      <4>1. r # None /\ (encoder[d] # None => From(encoder[d]) = d)
        BY ServerAssumption DEF ServerInv, EncoderInv
      <4> QED
        BY <2>6, <4>1
    <3> QED
      BY <2>1, <2>2, <2>6, <3>1, NumbersKept DEF Numbered
  <2>7. CASE r = q /\ d \notin disconnected /\ encoder[d] = r
    <3>1. d = From(q)
      <4>1. r # None /\ (encoder[d] # None => From(encoder[d]) = d)
        BY ServerAssumption DEF ServerInv, EncoderInv
      <4> QED
        BY <2>7, <4>1
    <3>2. PICK m \in Message : /\ m.type = "update" /\ m.encoder = r /\ m.request = r
                               /\ m.n = Sent(r) + 1 /\ wire'[d] = Append(wire[d], m)
      BY <2>3, <2>7, <3>1, ServerAssumption
    <3>3. Sent(r)' = Sent(r) + 1 /\ lost'[r] = lost[r]
      BY <2>1, <2>7
    <3>4. /\ InOrder(d, r)'
          /\ \A k \in UpdatesOf(d, r)' : wire'[d][k].n \in 1..Sent(r)'
          /\ \A i \in 1..Sent(r)' \ lost'[r] : \E j \in UpdatesOf(d, r)' : wire'[d][j].n = i
      BY <2>7, <3>2, <3>3, NumbersGrown
    <3> QED
      BY <3>4 DEF Numbered
  <2>8. CASE r = q /\ encoder[d] # r /\ wire'[d] # wire[d]
    <3>1. \E m \in Message : m.encoder # r /\ wire'[d] = Append(wire[d], m)
      BY <2>3, <2>8
    <3> QED
      BY <2>1, <2>2, <2>8, <3>1, NumbersKept DEF Numbered
  <2> QED
    BY <2>3, <2>5, <2>6, <2>7, <2>8
<1>7. ASSUME NEW q \in Requests, Skips(q) PROVE NumbersInv(d)'
  <2>1. /\ UNCHANGED <<wire, encoder, disconnected>> /\ Sent(q)' = Sent(q) + 1
        /\ \A r \in Requests : r # q => Sent(r)' = Sent(r) /\ lost'[r] = lost[r]
        /\ lost'[q] = lost[q] \cup {Sent(q) + 1}
    BY <1>7 DEF Skips, ServerInv, TypeOK, RequestTypes
  <2>2. SUFFICES ASSUME NEW r \in Requests PROVE Numbered(d, r)'
    BY DEF NumbersInv
  <2>3. CASE r # q
    BY <1>1, <2>1, <2>3
  <2>4. CASE r = q
    <3>1. Sent(r) \in Nat
      BY SentTyped
    <3>2. Sent(r)' \in Nat /\ Sent(r) <= Sent(r)'
      BY <2>1, <2>4, <3>1
    <3>3. 1..Sent(r)' \ lost'[r] \subseteq 1..Sent(r) \ lost'[r]
      <4>1. 1..(Sent(r) + 1) = 1..Sent(r) \cup {Sent(r) + 1}
        BY <3>1
      <4> QED
        BY <2>1, <2>4, <4>1
    <3>4. /\ InOrder(d, r)'
          /\ \A k \in UpdatesOf(d, r)' : wire'[d][k].n \in 1..Sent(r)'
          /\ encoder[d] = r /\ d \notin disconnected =>
               \A m \in 1..Sent(r) \ lost'[r] : \E j \in UpdatesOf(d, r)' : wire'[d][j].n = m
      BY <2>1, <2>4, <3>2, NumbersKept
    <3> QED
      BY <2>1, <3>3, <3>4 DEF Numbered
  <2> QED
    BY <2>3, <2>4
<1> QED
  BY <1>3, <1>4, <1>5, <1>6, <1>7, WireCases

\* The update at k is after its snapshot, which is not after that of its encoder.
Based(c, k) ==
  wire[c][k].type = "update" =>
    /\ \E j \in Snapshots(c, wire[c][k].request) : j < k
    /\ \A i \in Snapshots(c, wire[c][k].request), j \in Snapshots(c, wire[c][k].encoder) : i <= j

LEMMA NoSnapshots ==
  ASSUME ServerInv, WireInv, NEW d \in Connections, NEW r \in Requests, pc[r] \notin AnsweredAt
  PROVE  Snapshots(d, r) = {}
BY MembersTyped DEF WireInv, AnswersInv

\* Without a new snapshot and a new update, every update stays based.
LEMMA BasesKept ==
  ASSUME ServerInv, WireInv, NEW d \in Connections,
         \/ wire'[d] = wire[d]
         \/ \E m \in Message : /\ m.type # "update" /\ (m.type = "response" => m.result # "ok")
                               /\ wire'[d] = Append(wire[d], m)
  PROVE  /\ \A r : Snapshots(d, r)' = Snapshots(d, r)
         /\ \A k \in 1..Len(wire'[d]) : Based(d, k)'
<1>1. \A k \in 1..Len(wire[d]) : Based(d, k)
  BY DEF WireInv, BasesInv, Based
<1>2. ASSUME NEW k, wire'[d][k] = wire[d][k], Based(d, k), \A r : Snapshots(d, r)' = Snapshots(d, r)
      PROVE  Based(d, k)'
  BY <1>2 DEF Based
<1>3. CASE wire'[d] = wire[d]
  <2>1. \A r : Snapshots(d, r)' = Snapshots(d, r)
    BY <1>3 DEF Snapshots, Answers
  <2> QED
    BY <1>1, <1>2, <1>3, <2>1
<1>4. CASE \E m \in Message : /\ m.type # "update" /\ (m.type = "response" => m.result # "ok")
                              /\ wire'[d] = Append(wire[d], m)
  <2>1. PICK m \in Message : /\ m.type # "update" /\ (m.type = "response" => m.result # "ok")
                             /\ wire'[d] = Append(wire[d], m)
    BY <1>4
  <2>2. ASSUME NEW r PROVE Snapshots(d, r)' = Snapshots(d, r)
    <3>1. Snapshots(d, r)' = Snapshots(d, r) \cup
            (IF m.type = "response" /\ m.request = r /\ m.result = "ok" THEN {Len(wire[d]) + 1} ELSE {})
      BY <2>1, GrownMembers
    <3> QED
      BY <2>1, <3>1
  <2>3. ASSUME NEW k \in 1..Len(wire'[d]) PROVE Based(d, k)'
    <3>1. k \in 1..Len(wire[d]) \/ k = Len(wire[d]) + 1
      BY <2>1, Grown
    <3>2. CASE k \in 1..Len(wire[d])
      <4>1. wire'[d][k] = wire[d][k]
        BY <2>1, <3>2, Grown
      <4> QED
        BY <1>1, <1>2, <2>2, <3>2, <4>1
    <3>3. CASE k = Len(wire[d]) + 1
      <4>1. wire'[d][k] = m
        BY <2>1, <3>3, Grown
      <4> QED
        BY <2>1, <4>1 DEF Based
    <3> QED
      BY <3>1, <3>2, <3>3
  <2> QED
    BY <2>2, <2>3
<1> QED
  BY <1>3, <1>4

LEMMA BasesStep ==
  ASSUME ServerInv, WireInv, [Next]_vars, NEW d \in Connections
  PROVE  BasesInv(d)'
<1>0. BasesInv(d) /\ \A k \in 1..Len(wire[d]) : Based(d, k)
  BY DEF WireInv, BasesInv, Based
<1>1. ASSUME \A k \in 1..Len(wire'[d]) : Based(d, k)',
             ASSUME NEW r \in Requests, NEW e \in Requests, encoder'[d] = e, asked'[r] # None,
                    asked'[r].call = "subscribe", NEW i \in Snapshots(d, r)', NEW j \in Snapshots(d, e)'
             PROVE  i <= j
      PROVE  BasesInv(d)'
  <2>1. encoder'[d] # None => encoder'[d] \in Requests
    <3>1. TypeOK'
      BY TypeStep DEF ServerInv
    <3> QED
      BY <3>1 DEF TypeOK, RequestTypes
  <2> QED
    BY <1>1, <2>1 DEF BasesInv, Based
<1>2. ASSUME NEW r \in Requests, NEW e \in Requests, encoder[d] = e, asked[r] # None,
             asked[r].call = "subscribe", NEW i \in Snapshots(d, r), NEW j \in Snapshots(d, e)
      PROVE  i <= j
  BY <1>0, <1>2, ServerAssumption DEF BasesInv
<1>3. CASE Plain(d)
  <2>1. (\A r : Snapshots(d, r)' = Snapshots(d, r)) /\ \A k \in 1..Len(wire'[d]) : Based(d, k)'
    BY <1>3, BasesKept DEF Plain
  <2>2. ASSUME NEW r \in Requests, NEW e \in Requests, encoder'[d] = e, asked'[r] # None,
               asked'[r].call = "subscribe", NEW i \in Snapshots(d, r)', NEW j \in Snapshots(d, e)'
        PROVE  i <= j
    <3>1. i \in Snapshots(d, r) /\ j \in Snapshots(d, e)
      BY <2>1
    <3>2. pc[r] \in AnsweredAt /\ pc[e] \in AnsweredAt
      BY <3>1, NoSnapshots
    <3>3. asked[r] # None
      BY <3>2 DEF AnsweredAt, ServerInv, RequestInv
    <3>4. asked'[r] = asked[r]
      BY <1>3, <3>3 DEF Plain
    <3>5. encoder[d] = e
      <4>1. CASE UNCHANGED encoder
        BY <2>2, <4>1
      <4>2. ASSUME NEW q \in Requests, ResponseLost(q) PROVE encoder[d] = e
        <5>1. pc[q] = "running" /\ (Subscribes(q) \/ UNCHANGED encoder) /\ e # None
          BY <4>2, ServerAssumption DEF ResponseLost
        <5>2. e # q
          BY <3>2, <5>1 DEF AnsweredAt
        <5> QED
          BY <2>2, <5>1, <5>2, SubscribesEffect
      <4> QED
        BY <1>3, <4>1, <4>2 DEF Plain
    <3> QED
      BY <1>2, <2>2, <3>1, <3>3, <3>4, <3>5
  <2> QED
    BY <1>1, <2>1, <2>2
<1>4. ASSUME NEW S \in SUBSET Connections, RequestsGone(S) PROVE BasesInv(d)'
  <2>1. CASE d \in S
    <3>1. wire'[d] = <<>>
      BY <1>4, <2>1 DEF RequestsGone, Disconnects
    <3>2. (\A r : Snapshots(d, r)' = {}) /\ Len(wire'[d]) = 0
      BY <3>1 DEF Snapshots, Answers
    <3> QED
      BY <3>2 DEF BasesInv
  <2>2. CASE d \notin S
    <3>1. wire'[d] = wire[d] /\ encoder'[d] = encoder[d] /\ asked' = asked
      BY <1>4, <2>2 DEF RequestsGone, Disconnects
    <3>2. (\A r : Snapshots(d, r)' = Snapshots(d, r)) /\ \A k \in 1..Len(wire'[d]) : Based(d, k)'
      BY <3>1, BasesKept
    <3> QED
      BY <1>1, <1>2, <3>1, <3>2
  <2> QED
    BY <2>1, <2>2
<1>5. ASSUME NEW q \in Requests, Answered(q) PROVE BasesInv(d)'
  <2>1. UNCHANGED asked /\ pc[q] = "running" /\ Subscribes(q) /\ Sends(From(q), Response(q, "ok"))
        /\ From(q) \in Connections
    BY <1>5, AnsweredEffect DEF Answered
  <2>2. Snapshots(d, q) = {}
    BY <2>1, NoSnapshots DEF AnsweredAt
  <2>3. ASSUME NEW e \in Requests, encoder'[d] = e PROVE e = encoder[d] \/ e = q
    BY <2>1, <2>3, SubscribesEffect, ServerAssumption
  <2>4. CASE wire'[d] = wire[d]
    <3>1. (\A r : Snapshots(d, r)' = Snapshots(d, r)) /\ \A k \in 1..Len(wire'[d]) : Based(d, k)'
      BY <2>4, BasesKept
    <3> QED
      BY <1>1, <1>2, <2>1, <2>2, <2>3, <3>1
  <2>5. CASE wire'[d] # wire[d]
    <3> DEFINE m == Response(q, "ok")
               l == Len(wire[d])
    <3>1. m \in Message /\ m.type = "response" /\ m.request = q /\ m.result = "ok"
      BY DEF Response, Message
    <3>2. d = From(q) /\ wire'[d] = Append(wire[d], m)
      BY <2>1, <2>5, SendsCases
    <3> HIDE DEF m
    <3>3. ASSUME NEW r PROVE Snapshots(d, r)' = Snapshots(d, r) \cup (IF r = q THEN {l + 1} ELSE {})
      <4>1. Snapshots(d, r)' = Snapshots(d, r) \cup
              (IF m.type = "response" /\ m.request = r /\ m.result = "ok" THEN {Len(wire[d]) + 1} ELSE {})
        BY <3>1, <3>2, GrownMembers
      <4> QED
        BY <3>1, <4>1
    <3>4. l \in Nat /\ \A r : Snapshots(d, r) \subseteq 1..l
      BY MembersTyped
    <3>5. \A r : \A i \in Snapshots(d, r)' : i <= l + 1
      <4>1. ASSUME NEW r, NEW i \in Snapshots(d, r) PROVE i <= l + 1
        <5>1. i \in 1..l
          BY <3>4
        <5> QED
          BY <3>4, <5>1
      <4>2. l + 1 <= l + 1
        BY <3>4
      <4> QED
        BY <3>3, <4>1, <4>2
    <3>6. Snapshots(d, q)' = {l + 1} /\ \A r : r # q => Snapshots(d, r)' = Snapshots(d, r)
      BY <2>2, <3>3
    <3>7. ASSUME NEW k \in 1..Len(wire'[d]) PROVE Based(d, k)'
      <4>1. k \in 1..l \/ k = l + 1
        BY <3>1, <3>2, Grown
      <4>2. CASE k = l + 1
        <5>1. wire'[d][k] = m
          BY <3>1, <3>2, <4>2, Grown
        <5> QED
          BY <3>1, <5>1 DEF Based
      <4>3. CASE k \in 1..l
        <5>1. wire'[d][k] = wire[d][k] /\ Based(d, k)
          BY <1>0, <3>1, <3>2, <4>3, Grown
        <5>2. SUFFICES ASSUME wire[d][k].type = "update"
                       PROVE  /\ \E j \in Snapshots(d, wire[d][k].request)' : j < k
                              /\ \A i \in Snapshots(d, wire[d][k].request)',
                                    j \in Snapshots(d, wire[d][k].encoder)' : i <= j
          BY <5>1 DEF Based
        <5>3. wire[d][k].request # q
          BY <2>2, <5>1, <5>2 DEF Based
        <5> QED
          BY <3>5, <3>6, <5>1, <5>2, <5>3 DEF Based
      <4> QED
        BY <4>1, <4>2, <4>3
    <3>8. ASSUME NEW r \in Requests, NEW e \in Requests, encoder'[d] = e, asked'[r] # None,
                 asked'[r].call = "subscribe", NEW i \in Snapshots(d, r)', NEW j \in Snapshots(d, e)'
          PROVE  i <= j
      <4>1. CASE e = q
        BY <3>5, <3>6, <3>8, <4>1
      <4>2. CASE e # q
        <5>1. r # q
          <6>1. encoder \in [Connections -> Requests \cup {None}]
            BY DEF ServerInv, TypeOK, RequestTypes
          <6> QED
            BY <2>1, <3>2, <3>8, <4>2, <6>1 DEF Subscribes
        <5>2. i \in Snapshots(d, r) /\ j \in Snapshots(d, e) /\ encoder[d] = e /\ asked'[r] = asked[r]
          BY <2>1, <2>3, <3>6, <3>8, <4>2, <5>1
        <5> QED
          BY <1>2, <3>8, <5>2
      <4> QED
        BY <4>1, <4>2
    <3> QED
      BY <1>1, <3>7, <3>8
  <2> QED
    BY <2>4, <2>5
<1>6. ASSUME NEW q \in Requests, Advances(q) PROVE BasesInv(d)'
  <2>1. UNCHANGED <<encoder, asked>>
    BY <1>6 DEF Advances
  <2>2. CASE wire'[d] = wire[d]
    <3>1. (\A r : Snapshots(d, r)' = Snapshots(d, r)) /\ \A k \in 1..Len(wire'[d]) : Based(d, k)'
      BY <2>2, BasesKept
    <3> QED
      BY <1>1, <1>2, <2>1, <3>1
  <2>3. CASE wire'[d] # wire[d]
    <3>1. d = From(q) /\ d \notin disconnected /\ encoder[d] \in Requests
      BY <1>6, <2>3, AdvancesWire
    <3>2. PICK m \in Message : /\ m.type = "update" /\ m.encoder = encoder[d] /\ m.request = q
                               /\ wire'[d] = Append(wire[d], m)
      BY <1>6, <2>3, AdvancesWire
    <3> DEFINE l == Len(wire[d])
    <3>3. ASSUME NEW r PROVE Snapshots(d, r)' = Snapshots(d, r)
      <4>1. Snapshots(d, r)' = Snapshots(d, r) \cup
              (IF m.type = "response" /\ m.request = r /\ m.result = "ok" THEN {Len(wire[d]) + 1} ELSE {})
        BY <3>2, GrownMembers
      <4> QED
        BY <3>2, <4>1
    <3>4. l \in Nat /\ \A r : Snapshots(d, r) \subseteq 1..l
      BY MembersTyped
    <3>5. Snapshots(d, q) # {} /\ asked[q] # None /\ asked[q].call = "subscribe"
      BY <1>6, <3>1 DEF Advances, WireInv, AnswersInv
    <3>6. ASSUME NEW k \in 1..Len(wire'[d]) PROVE Based(d, k)'
      <4>1. k \in 1..l \/ k = l + 1
        BY <3>2, Grown
      <4>2. CASE k = l + 1
        <5>1. wire'[d][k] = m
          BY <3>2, <4>2, Grown
        <5>2. PICK j \in Snapshots(d, q) : TRUE
          BY <3>5
        <5>3. j < k
          <6>1. j \in 1..l
            BY <3>4, <5>2
          <6> QED
            BY <3>4, <4>2, <6>1, Below
        <5>4. \A i \in Snapshots(d, q), h \in Snapshots(d, encoder[d]) : i <= h
          BY <1>2, <3>1, <3>5
        <5> QED
          BY <3>2, <3>3, <5>1, <5>2, <5>3, <5>4 DEF Based
      <4>3. CASE k \in 1..l
        <5>1. wire'[d][k] = wire[d][k] /\ Based(d, k)
          BY <1>0, <3>2, <4>3, Grown
        <5> QED
          BY <3>3, <5>1 DEF Based
      <4> QED
        BY <4>1, <4>2, <4>3
    <3> QED
      BY <1>1, <1>2, <2>1, <3>3, <3>6
  <2> QED
    BY <2>2, <2>3
<1>7. ASSUME NEW q \in Requests, Skips(q) PROVE BasesInv(d)'
  <2>1. UNCHANGED <<wire, encoder, asked>>
    BY <1>7 DEF Skips
  <2>2. (\A r : Snapshots(d, r)' = Snapshots(d, r)) /\ \A k \in 1..Len(wire'[d]) : Based(d, k)'
    BY <2>1, BasesKept
  <2> QED
    BY <1>1, <1>2, <2>1, <2>2
<1> QED
  BY <1>3, <1>4, <1>5, <1>6, <1>7, WireCases

LEMMA WireInit ==
  ASSUME Init
  PROVE  WireInv
<1>1. SUFFICES ASSUME NEW d \in Connections
               PROVE  GreetingInv(d) /\ AnswersInv(d) /\ NumbersInv(d) /\ BasesInv(d)
  BY DEF WireInv
<1>2. wire[d] = <<>> /\ encoder[d] = None /\ \A r \in Requests : pc[r] = "no"
  BY DEF Init
<1>3. /\ Len(wire[d]) = 0
      /\ \A r : Answers(d, r) = {} /\ Snapshots(d, r) = {} /\ UpdatesOf(d, r) = {}
  BY <1>2 DEF Answers, Snapshots, UpdatesOf
<1>4. GreetingInv(d)
  <2>1. DOMAIN wire[d] = {} /\ stage[d] = "none" /\ handshake[d] = "no"
    BY <1>2 DEF Init
  <2> QED
    BY <1>2, <1>3, <2>1 DEF GreetingInv, GreetedFirst, Admitted
<1>5. AnswersInv(d)
  BY <1>2, <1>3 DEF AnswersInv
<1>6. NumbersInv(d)
  <2>1. \A r \in Requests : encoder[d] # r
    BY <1>2, ServerAssumption
  <2> QED
    BY <1>3, <2>1 DEF NumbersInv, Numbered, InOrder
<1>7. BasesInv(d)
  BY <1>2, <1>3 DEF BasesInv
<1> QED
  BY <1>4, <1>5, <1>6, <1>7

LEMMA InvStep ==
  ASSUME Inv, [Next]_vars
  PROVE  Inv'
BY ServerStep, GreetingStep, AnswersStep, NumbersStep, BasesStep DEF Inv, WireInv

LEMMA Invariant == Spec => []Inv
<1>1. Init => Inv
  BY ServerInit, WireInit DEF Inv
<1> QED
  BY <1>1, InvStep, PTL DEF Spec

-----------------------------------------------------------------------------
(* What the server promises *)

(* Every variable of the server, of its connections and of their requests  *)
(* keeps its type: what is on a wire is a frame of the protocol, what an   *)
(* id stands for is a request (the Maps of docs/refs/pi-server-server.ts). *)
THEOREM TypeCorrect == Spec => []TypeOK
<1>1. Inv => TypeOK
  BY DEF Inv, ServerInv
<1> QED
  BY <1>1, Invariant, PTL

(* A client reads in order: nothing but attachments before the greeting,   *)
(* no request answered twice, the updates of a subscription in the order   *)
(* they were published, after the snapshot they are encoded against, and   *)
(* no earlier one missing but those that could not be encoded or sent,     *)
(* while others were sent (finishHandshake, publishAttachment,             *)
(* handleRequest, publish and flush of docs/refs/pi-server-server.ts).     *)
THEOREM WireStaysInOrder == Spec => []WireInOrder
<1>1. ASSUME Inv PROVE WireInOrder
  <2>1. SUFFICES ASSUME NEW c \in Connections
                 PROVE
          /\ GreetedFirst(c)
          /\ \A r \in Requests : Cardinality(Answers(c, r)) <= 1
          /\ \A r \in Requests : InOrder(c, r)
          /\ \A k \in DOMAIN wire[c] : wire[c][k].type = "update" =>
               /\ \E j \in Snapshots(c, wire[c][k].request) : j < k
               /\ \A i \in Snapshots(c, wire[c][k].request), j \in Snapshots(c, wire[c][k].encoder) :
                    i <= j
    BY DEF WireInOrder
  <2>2. DOMAIN wire[c] = 1..Len(wire[c])
    BY <1>1, WireTyped DEF Inv
  <2>3. GreetingInv(c) /\ AnswersInv(c) /\ NumbersInv(c) /\ BasesInv(c)
    BY <1>1 DEF Inv, WireInv
  <2>4. ASSUME NEW r \in Requests PROVE Cardinality(Answers(c, r)) <= 1
    <3>1. \A j, k \in Answers(c, r) : j = k
      BY <2>3 DEF AnswersInv
    <3>2. CASE Answers(c, r) = {}
      BY <3>2, FS_EmptySet
    <3>3. CASE Answers(c, r) # {}
      <4>1. PICK k : Answers(c, r) = {k}
        BY <3>1, <3>3
      <4> QED
        BY <4>1, FS_Singleton
    <3> QED
      BY <3>2, <3>3
  <2>5. GreetedFirst(c)
    BY <2>3 DEF GreetingInv
  <2>6. \A r \in Requests : InOrder(c, r)
    BY <2>3 DEF NumbersInv, Numbered
  <2>7. \A k \in DOMAIN wire[c] : wire[c][k].type = "update" =>
          /\ \E j \in Snapshots(c, wire[c][k].request) : j < k
          /\ \A i \in Snapshots(c, wire[c][k].request), j \in Snapshots(c, wire[c][k].encoder) : i <= j
    BY <2>2, <2>3 DEF BasesInv
  <2> QED
    BY <2>4, <2>5, <2>6, <2>7
<1> QED
  BY <1>1, Invariant, PTL

(* A cancel aborts the request it means: the id of one that is being       *)
(* served stays its own until it is answered (activeRequests of            *)
(* docs/refs/pi-server-server.ts).                                         *)
THEOREM CancelsMeetTheirRequest == Spec => []ActiveById
<1>1. Inv => ActiveById
  BY DEF Inv, ServerInv, RequestInv, ActiveById
<1> QED
  BY <1>1, Invariant, PTL

(* When the shutdown has passed the connections, the server holds none:    *)
(* whatever was accepted, whatever handshake was waiting for its endpoint  *)
(* when it began, whatever close failed.  What it took is disconnected and *)
(* its transport closed, unless that very close failed; what it refused it *)
(* never took, and has begun to close (accept, finishHandshake,            *)
(* closeConnection and closeServerState of docs/refs/pi-server-server.ts). *)
THEOREM NothingIsLeftOpen == Spec => []NothingLeftOpen
<1>1. ASSUME Inv, shutdown \in {"router", "done"}
      PROVE  /\ closing /\ connections = {}
             /\ \A c \in Connections :
                  /\ services[c] # "attached" /\ \A i \in Ids : active[c][i] = None
                  /\ IF stage[c] = "none" THEN transport[c] # "open" /\ c \notin disconnected
                     ELSE transport[c] \in {"closed", "unclosed"} /\ c \in disconnected
  <2>1. closing /\ connections = {}
    BY <1>1 DEF Inv, ServerInv, ShutdownInv
  <2>2. ASSUME NEW c \in Connections
        PROVE  /\ services[c] # "attached" /\ \A i \in Ids : active[c][i] = None
               /\ IF stage[c] = "none" THEN transport[c] # "open" /\ c \notin disconnected
                  ELSE transport[c] \in {"closed", "unclosed"} /\ c \in disconnected
    <3>1. /\ ConnectionInv(c) /\ GoneInv(c)
          /\ stage[c] \in {"none", "awaitingHello", "handshaking", "ready", "closing", "closed"}
          /\ transport[c] \in {"none", "open", "refused", "unclosed", "closed"}
      BY <1>1 DEF Inv, ServerInv, TypeOK, ConnectionTypes
    <3>2. transport[c] # "open" /\ stage[c] \notin Connected
      BY <2>1, <3>1 DEF ConnectionInv
    <3>3. stage[c] \in {"none", "closed"}
      BY <3>1, <3>2 DEF Connected
    <3>4. services[c] # "attached"
      BY <3>1, <3>3 DEF ConnectionInv
    <3>5. ASSUME NEW i \in Ids, active[c][i] # None PROVE FALSE
      <4>1. /\ active[c][i] \in Requests /\ pc[active[c][i]] \in Admitted /\ From(active[c][i]) = c
        BY <1>1, <3>5 DEF Inv, ServerInv, ActiveInv, TypeOK, RequestTypes
      <4>2. stage[c] \in {"ready", "closing", "closed"}
        BY <1>1, <4>1 DEF Inv, ServerInv, RequestInv
      <4> QED
        BY <3>1, <3>3, <3>5, <4>2 DEF ConnectionInv, GoneInv
    <3>6. IF stage[c] = "none" THEN transport[c] # "open" /\ c \notin disconnected
          ELSE transport[c] \in {"closed", "unclosed"} /\ c \in disconnected
      BY <3>1, <3>2, <3>3 DEF ConnectionInv
    <3> QED
      BY <3>4, <3>5, <3>6
  <2> QED
    BY <2>1, <2>2
<1>2. Inv => NothingLeftOpen
  BY <1>1 DEF NothingLeftOpen
<1> QED
  BY <1>2, Invariant, PTL

=============================================================================
