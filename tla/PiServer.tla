------------------------------ MODULE PiServer ------------------------------
(***************************************************************************)
(* The pi server kept under docs/refs (docs/refs/pi-server-server.ts with  *)
(* its connection.ts): a connection's life from accept to disconnect, its  *)
(* handshake, its requests and subscriptions, and the shutdown of the      *)
(* whole, whether a failed start or a close begins it.  One action is the  *)
(* code between two awaits.  The session router behind it is               *)
(* SessionRouter: here only when it is closed; a call on a session is, for *)
(* the server, a call like one on the connection's own endpoint.           *)
(***************************************************************************)
EXTENDS Naturals, Sequences, FiniteSets, Functions

CONSTANTS
  Connections,  \* byte connections the listeners hand over
  Listeners,    \* number of listeners
  MaxRequests,  \* bound: requests, with the attachments told on a wire
  MaxUpdates,   \* bound: updates published to one subscription
  MaxFails,     \* bound: frames that are lost, closes, listeners and endpoints that fail
  MaxEvents,    \* bound: requests, updates and failures together, attachments on a wire too
  None          \* undefined

Requests == 1..MaxRequests

(* Request ids are only compared: the n-th request has one of the first n. *)
Ids == 1..MaxRequests

(* Every subscription asks for the same subscription id: the interesting   *)
(* case.  "invalid" is a call that does not parse; one that is addressed   *)
(* to another server or to nobody is among those that fail.                *)
Calls == {"call", "subscribe", "unsubscribe", "invalid"}

ASSUME ServerAssumption ==
  /\ Listeners \in Nat \ {0} /\ MaxRequests \in Nat /\ MaxUpdates \in Nat
  /\ MaxFails \in Nat /\ MaxEvents \in Nat
  /\ None \notin Requests \cup Connections \cup [from : Connections, id : Ids, call : Calls]

VARIABLES
  (* the server *)
  closing, startup,
  up,                \* listeners that have started and have not been closed
  closeCalled,       \* close() has been called
  shutdown,          \* where closeInternal, or the cleanup of startInternal, is
  snapshot,          \* the connections closeServerState found
  errors,            \* something of the shutdown failed
  settled,           \* the closed promise
  router,            \* the session router: open, closed, or its close failed
  connections,       \* the set of live ConnectionStates
  (* a connection *)
  transport,         \* connection -> is its ByteConnection open; "refused" while one
                     \* that nobody took is being closed, "unclosed" when a close failed
  stage, disconnected,
  dropping,          \* connections being closed, to be disconnected after it
  handshake,         \* connection -> where finishHandshake is
  services,          \* connection -> state of the endpoint the host gave it
  held,              \* connection -> requests behind its handshake
  wire,              \* connection -> what has been sent on it, until disconnected
  (* a request *)
  asked,             \* request -> who sent it, its id, its call
  active,            \* connection -> id -> the active request
  pc,                \* request -> where handleRequest is
  aborted,           \* requests whose signal is aborted
  encoder,           \* connection -> request whose encoder the subscription has
  pending,           \* request -> updates that wait for its response
  published,         \* request -> number of updates published to it
  lost,              \* request -> updates that could not be encoded or sent
  fails

serverVars == <<closing, startup, up, closeCalled, shutdown, snapshot, errors, settled, router>>
connectionVars == <<connections, transport, stage, disconnected, dropping>>
handshakeVars == <<handshake, services>>
requestVars == <<asked, active, pc, aborted>>
subscriptionVars == <<encoder, pending, published, lost>>
vars == <<serverVars, connectionVars, handshakeVars, held, wire, requestVars,
          subscriptionVars, fails>>

Init ==
  /\ closing = FALSE /\ startup = "no" /\ up = 0 /\ closeCalled = FALSE
  /\ shutdown = "no" /\ snapshot = {} /\ errors = FALSE /\ settled = "no"
  /\ router = "open"
  /\ connections = {} /\ transport = [c \in Connections |-> "none"]
  /\ stage = [c \in Connections |-> "none"] /\ disconnected = {} /\ dropping = {}
  /\ handshake = [c \in Connections |-> "no"] /\ services = [c \in Connections |-> "no"]
  /\ held = [c \in Connections |-> <<>>] /\ wire = [c \in Connections |-> <<>>]
  /\ asked = [r \in Requests |-> None]
  /\ active = [c \in Connections |-> [i \in Ids |-> None]]
  /\ pc = [r \in Requests |-> "no"] /\ aborted = {}
  /\ encoder = [c \in Connections |-> None]
  /\ pending = [r \in Requests |-> <<>>] /\ published = [r \in Requests |-> 0]
  /\ lost = [r \in Requests |-> {}] /\ fails = 0

----------------------------------------------------------------------------
(* sendMessage, closeConnection, disconnect, failProtocol *)

Sendable(c) == c \notin disconnected /\ transport[c] = "open"

(* A frame on the wire, when the connection still takes one.               *)
Send(c, message) ==
  wire' = IF Sendable(c) THEN [wire EXCEPT ![c] = Append(@, message)] ELSE wire

(* The frame cannot be encoded or sent: the connection is closed, and when *)
(* it is, disconnected.                                                    *)
Drop(c) ==
  /\ dropping' = dropping \cup {c}
  /\ UNCHANGED <<connections, transport, stage, disconnected, wire>>

(* Disconnecting S: requests are aborted and forgotten, subscriptions and  *)
(* the endpoint let go.                                                    *)
Disconnect(S) ==
  LET gone == S \ disconnected
      cut == {r \in Requests : \E c \in gone, i \in Ids : active[c][i] = r}
  IN  /\ disconnected' = disconnected \cup gone
      /\ stage' = [c \in Connections |-> IF c \in gone THEN "closed" ELSE stage[c]]
      /\ aborted' = aborted \cup cut
      /\ active' = [c \in Connections |-> IF c \in gone THEN [i \in Ids |-> None] ELSE active[c]]
      /\ encoder' = [c \in Connections |-> IF c \in gone THEN None ELSE encoder[c]]
      /\ connections' = connections \ gone
      /\ wire' = [c \in Connections |-> IF c \in gone THEN <<>> ELSE wire[c]]
      /\ services' = [c \in Connections |-> IF c \in gone /\ services[c] = "attached"
                                            THEN "releasing" ELSE services[c]]

Terminal(c) == c \in disconnected \/ stage[c] \in {"closing", "closed"}

FailProtocol(c) ==
  IF Terminal(c)
  THEN UNCHANGED <<stage, dropping, wire>>
  ELSE /\ stage' = [stage EXCEPT ![c] = "closing"]
       /\ dropping' = dropping \cup {c}
       /\ Send(c, [type |-> "hello_error"])

(* closeConnection swallows a failing close: the transport may stay open.  *)
Closes(S, failing) ==
  transport' = [c \in Connections |->
                  IF c \notin S \/ transport[c] = "closed" THEN transport[c]
                  ELSE IF c \in failing THEN "unclosed" ELSE "closed"]

(* The close of a connection is through, or its peer has closed it.        *)
Dropped(c, failing) ==
  /\ c \in dropping
  /\ Closes({c}, failing) /\ dropping' = dropping \ {c}
  /\ Disconnect({c})
  /\ UNCHANGED <<serverVars, handshake, held, asked, pc, pending, published, lost>>

TransportClosed(c) ==
  /\ transport[c] = "open"
  /\ Closes({c}, {})
  /\ Disconnect({c})
  /\ UNCHANGED <<serverVars, dropping, handshake, held, asked, pc, pending, published, lost>>

(* The close of a refused connection is through, or one that the server    *)
(* could not close is closed after all.  The server looks at neither.      *)
LeftoverCloses(c) ==
  /\ transport[c] \in {"refused", "unclosed"}
  /\ Closes({c}, {})
  /\ UNCHANGED <<serverVars, connections, stage, disconnected, dropping, handshakeVars, held,
                 wire, requestVars, subscriptionVars>>

(* The transport reports an error: the connection serves on until closed.  *)
TransportError(c) ==
  /\ transport[c] = "open" /\ c \notin dropping
  /\ Drop(c)
  /\ UNCHANGED <<serverVars, handshakeVars, held, requestVars, subscriptionVars>>

----------------------------------------------------------------------------
(* accept and the handshake *)

Listening == startup = "starting" \/ up > 0

\* Mutant of Accept: it does not look whether the server is closing.
AcceptAlways(c) ==
  /\ transport[c] = "none" /\ Listening
  /\ transport' = [transport EXCEPT ![c] = "open"]
  /\ stage' = [stage EXCEPT ![c] = "awaitingHello"] /\ connections' = connections \cup {c}
  /\ UNCHANGED <<serverVars, disconnected, dropping, handshakeVars, held, wire, requestVars,
                 subscriptionVars>>

(* A connection that comes while the server closes is refused: its close   *)
(* begins, and nobody waits for it.                                        *)
Accept(c) ==
  /\ transport[c] = "none" /\ Listening
  /\ IF closing
     THEN /\ transport' = [transport EXCEPT ![c] = "refused"]
          /\ UNCHANGED <<stage, connections>>
     ELSE /\ transport' = [transport EXCEPT ![c] = "open"]
          /\ stage' = [stage EXCEPT ![c] = "awaitingHello"]
          /\ connections' = connections \cup {c}
  /\ UNCHANGED <<serverVars, disconnected, dropping, handshakeVars, held, wire, requestVars,
                 subscriptionVars>>

Asked == {r \in Requests : asked[r] # None}

Attachments(c) == {k \in DOMAIN wire[c] : wire[c][k].type = "attachment"}

Busy(c) == Cardinality(Asked) + Cardinality(Attachments(c))

(* A message that is not understood, not expected, or does not come.       *)
BadMessage(c) ==
  /\ transport[c] = "open" /\ ~Terminal(c)
  /\ FailProtocol(c)
  /\ UNCHANGED <<serverVars, connections, transport, disconnected, handshakeVars, held,
                 requestVars, subscriptionVars>>

HandshakeTimeout(c) ==
  /\ stage[c] \in {"awaitingHello", "handshaking"}
  /\ FailProtocol(c)
  /\ UNCHANGED <<serverVars, connections, transport, disconnected, handshakeVars, held,
                 requestVars, subscriptionVars>>

Hello(c) ==
  /\ transport[c] = "open" /\ stage[c] = "awaitingHello"
  /\ stage' = [stage EXCEPT ![c] = "handshaking"]
  /\ handshake' = [handshake EXCEPT ![c] = IF closing THEN @ ELSE "attaching"]
  /\ UNCHANGED <<serverVars, connections, transport, disconnected, dropping, services, held,
                 wire, requestVars, subscriptionVars>>

(* The host's endpoint is there: kept and the client greeted, or given     *)
(* back when it comes too late.                                            *)
TooLate(c) == closing \/ Terminal(c) \/ transport[c] = "closed"

\* Mutant of EndpointGiven: it does not look again after the wait.
EndpointGivenUnchecked(c) ==
  /\ handshake[c] = "attaching"
  /\ services' = [services EXCEPT ![c] = "attached"]
  /\ handshake' = [handshake EXCEPT ![c] = "greeting"]
  /\ Send(c, [type |-> "hello"])
  /\ UNCHANGED <<serverVars, connectionVars, held, requestVars, subscriptionVars>>

EndpointGiven(c) ==
  /\ handshake[c] = "attaching"
  /\ IF TooLate(c)
     THEN /\ services' = [services EXCEPT ![c] = "releasing"]
          /\ handshake' = [handshake EXCEPT ![c] = "done"]
          /\ UNCHANGED wire
     ELSE /\ services' = [services EXCEPT ![c] = "attached"]
          /\ handshake' = [handshake EXCEPT ![c] = "greeting"]
          /\ Send(c, [type |-> "hello"])
  /\ UNCHANGED <<serverVars, connectionVars, held, requestVars, subscriptionVars>>

EndpointRefused(c) ==
  /\ handshake[c] = "attaching"
  /\ handshake' = [handshake EXCEPT ![c] = "done"]
  /\ FailProtocol(c)
  /\ UNCHANGED <<serverVars, connections, transport, disconnected, services, held, requestVars,
                 subscriptionVars>>

Greeted(c) ==
  /\ handshake[c] = "greeting"
  /\ handshake' = [handshake EXCEPT ![c] = "done"]
  /\ stage' = IF c \notin disconnected /\ stage[c] = "handshaking"
              THEN [stage EXCEPT ![c] = "ready"] ELSE stage
  /\ UNCHANGED <<serverVars, connections, transport, disconnected, dropping, services, held,
                 wire, requestVars, subscriptionVars>>

GreetingLost(c) ==
  /\ handshake[c] = "greeting"
  /\ handshake' = [handshake EXCEPT ![c] = "done"]
  /\ Drop(c)
  /\ UNCHANGED <<serverVars, services, held, requestVars, subscriptionVars>>

(* The router tells a client what it is attached to: from the handshake on *)
(* the host may attach it to a session, before it is greeted as well.      *)
PublishAttachment(c) ==
  /\ handshake[c] # "no" /\ Sendable(c) /\ Busy(c) < MaxRequests
  /\ Send(c, [type |-> "attachment"])
  /\ UNCHANGED <<serverVars, connectionVars, handshakeVars, held, requestVars,
                 subscriptionVars>>

EndpointReleased(c) ==
  /\ services[c] = "releasing"
  /\ services' = [services EXCEPT ![c] = "released"]
  /\ UNCHANGED <<serverVars, connectionVars, handshake, held, wire, requestVars,
                 subscriptionVars>>

----------------------------------------------------------------------------
(* handleRequest *)

Response(r, result) == [type |-> "response", request |-> r, result |-> result]

At(r, where) == pc' = [pc EXCEPT ![r] = where]

\* Mutant of Handle: the id is not looked up.
HandleAnyway(c, r) ==
  /\ active' = [active EXCEPT ![c][asked'[r].id] = r] /\ At(r, "running")
  /\ UNCHANGED wire

(* Up to its first await: refused at once, or admitted under its id.       *)
Handle(c, r) ==
  LET q == asked'[r]
      refusal == IF active[c][q.id] # None THEN "duplicate" ELSE "invalid"
  IN  \/ /\ active[c][q.id] # None \/ q.call = "invalid"
         /\ At(r, "refused") /\ Send(c, Response(r, refusal))
         /\ UNCHANGED active
      \/ /\ active[c][q.id] = None /\ q.call # "invalid"
         /\ active' = [active EXCEPT ![c][q.id] = r]
         /\ IF q.call = "subscribe" /\ encoder[c] # None
            THEN At(r, "failing") /\ Send(c, Response(r, "error"))
            ELSE At(r, "running") /\ UNCHANGED wire

(* A request arrives: behind the handshake, or to be handled.              *)
Receive(c, i, call) ==
  LET r == Cardinality(Asked) + 1 IN
  /\ transport[c] = "open" /\ Busy(c) < MaxRequests /\ r \in Requests /\ i <= r
  /\ asked' = [asked EXCEPT ![r] = [from |-> c, id |-> i, call |-> call]]
  /\ \/ /\ stage[c] = "handshaking" /\ held' = [held EXCEPT ![c] = Append(@, r)]
        /\ At(r, "held") /\ UNCHANGED <<active, wire>>
     \/ /\ stage[c] = "ready" /\ held[c] = <<>>
        /\ Handle(c, r) /\ UNCHANGED held
  /\ UNCHANGED <<serverVars, connectionVars, handshakeVars, aborted, subscriptionVars>>

(* The handshake is over: what waited for it is handled in order.          *)
HandleHeld(c) ==
  LET r == Head(held[c]) IN
  /\ stage[c] = "ready" /\ held[c] # <<>>
  /\ held' = [held EXCEPT ![c] = Tail(@)]
  /\ UNCHANGED asked
  /\ Handle(c, r)
  /\ UNCHANGED <<serverVars, connectionVars, handshakeVars, aborted, subscriptionVars>>

(* A cancel aborts the request that has its id and target at the moment.   *)
Cancel(c, i) ==
  /\ transport[c] = "open" /\ stage[c] = "ready" /\ held[c] = <<>>
  /\ active[c][i] # None /\ active[c][i] \notin aborted
  /\ aborted' = aborted \cup {active[c][i]}
  /\ UNCHANGED <<serverVars, connectionVars, handshakeVars, held, wire, asked, active, pc,
                 subscriptionVars>>

From(r) == asked[r].from

Subscribes(r) ==
  encoder' = CASE asked[r].call = "subscribe" -> [encoder EXCEPT ![From(r)] = r]
               [] asked[r].call = "unsubscribe" -> [encoder EXCEPT ![From(r)] = None]
               [] OTHER -> encoder

(* The call is answered: a subscription gets its encoder in the same step  *)
(* in which its snapshot is sent.                                          *)
Answered(r) ==
  /\ pc[r] = "running" /\ At(r, "responding")
  /\ Send(From(r), Response(r, "ok"))
  /\ Subscribes(r)
  /\ UNCHANGED <<serverVars, connectionVars, handshakeVars, held, asked, active, aborted,
                 pending, published, lost>>

Failed(r) ==
  /\ pc[r] = "running" /\ At(r, "failing")
  /\ Send(From(r), Response(r, IF r \in aborted THEN "cancelled" ELSE "error"))
  /\ UNCHANGED <<serverVars, connectionVars, handshakeVars, held, asked, active, aborted,
                 subscriptionVars>>

(* The response cannot be sent.                                            *)
ResponseLost(r) ==
  /\ pc[r] = "running" /\ Sendable(From(r)) /\ At(r, "losing")
  /\ Drop(From(r))
  /\ Subscribes(r) \/ UNCHANGED encoder
  /\ UNCHANGED <<serverVars, handshakeVars, held, asked, active, aborted, pending, published,
                 lost>>

(* The request is over: its id is free, unless it is another's by now.     *)
Over(r) ==
  /\ At(r, IF asked[r].call = "subscribe" /\ pc[r] \in {"responding", "losing"}
           THEN "subscribed" ELSE "done")
  /\ active' = [active EXCEPT ![From(r)] =
                  [i \in Ids |-> IF @[i] = r THEN None ELSE @[i]]]

\* Mutant of Update: what is published before the response is sent at once.
UpdateAtOnce(r, n) ==
  /\ pending' = pending
  /\ IF encoder[From(r)] = None THEN UNCHANGED wire
     ELSE Send(From(r), [type |-> "update", encoder |-> encoder[From(r)], request |-> r, n |-> n])

SendUpdate(r, n) ==
  IF encoder[From(r)] = None THEN UNCHANGED wire
  ELSE Send(From(r), [type |-> "update", encoder |-> encoder[From(r)], request |-> r, n |-> n])

(* The endpoint publishes to a subscription; before the response is sent   *)
(* and what waited for it is through, the update waits.                    *)
Update(r, n) ==
  IF pc[r] = "subscribed" THEN SendUpdate(r, n) /\ UNCHANGED pending
  ELSE pending' = [pending EXCEPT ![r] = Append(@, n)] /\ UNCHANGED wire

Publishes(r) ==
  /\ asked[r] # None /\ asked[r].call = "subscribe"
  /\ pc[r] \in {"running", "responding", "losing", "stuck", "subscribed"}
  /\ From(r) \notin disconnected
  /\ published[r] < MaxUpdates
  /\ published' = [published EXCEPT ![r] = @ + 1]

Publish(r) ==
  /\ Publishes(r)
  /\ Update(r, published[r] + 1)
  /\ UNCHANGED <<serverVars, connectionVars, handshakeVars, held, requestVars, encoder, lost>>

Loses(r, n) == encoder[From(r)] # None /\ lost' = [lost EXCEPT ![r] = @ \cup {n}]

(* An update cannot be encoded, and the endpoint is told so; or its frame  *)
(* cannot be encoded or sent, and the connection is closed, while it still *)
(* takes what is published next.                                           *)
PublishLost(r) ==
  /\ Publishes(r) /\ pc[r] = "subscribed"
  /\ Loses(r, published[r] + 1)
  /\ \/ UNCHANGED <<connectionVars, wire>>
     \/ Sendable(From(r)) /\ Drop(From(r))
  /\ UNCHANGED <<serverVars, handshakeVars, held, requestVars, encoder, pending>>

(* The same of an update that waited.  When it cannot be encoded, those    *)
(* behind it are never sent.                                               *)
PendingLost(r) ==
  /\ pc[r] = "responding" /\ pending[r] # <<>>
  /\ Loses(r, Head(pending[r])) /\ pending' = [pending EXCEPT ![r] = Tail(@)]
  /\ \/ At(r, "stuck")
     \/ Sendable(From(r)) /\ At(r, "losing")
  /\ Drop(From(r))
  /\ UNCHANGED <<serverVars, handshakeVars, held, asked, active, aborted, encoder, published>>

(* A send is through.  A subscription sends what waited, one by one.       *)
SendEnds(r) ==
  /\ \/ pc[r] \in {"refused", "failing", "responding"}
     \/ pc[r] \in {"losing", "stuck"} /\ From(r) \in disconnected
  /\ IF pc[r] \in {"responding", "losing"} /\ pending[r] # <<>>
     THEN /\ SendUpdate(r, Head(pending[r])) /\ pending' = [pending EXCEPT ![r] = Tail(@)]
          /\ UNCHANGED <<pc, active>>
     ELSE Over(r) /\ UNCHANGED <<wire, pending>>
  /\ UNCHANGED <<serverVars, connectionVars, handshakeVars, held, asked, aborted, encoder,
                 published, lost>>

----------------------------------------------------------------------------
(* start and close *)

\* Mutant of Start: it does not look whether it has been started.
StartAgain ==
  /\ startup \in {"no", "started"} /\ ~closing
  /\ startup' = "starting"
  /\ UNCHANGED <<closing, up, closeCalled, shutdown, snapshot, errors, settled, router,
                 connectionVars, handshakeVars, held, wire, requestVars, subscriptionVars>>

Start ==
  /\ startup = "no" /\ ~closing
  /\ startup' = "starting"
  /\ UNCHANGED <<closing, up, closeCalled, shutdown, snapshot, errors, settled, router, connectionVars,
                 handshakeVars, held, wire, requestVars, subscriptionVars>>

ListenerStarts ==
  /\ startup = "starting"
  /\ up' = up + 1 /\ startup' = IF up' = Listeners THEN "started" ELSE startup
  /\ UNCHANGED <<closing, closeCalled, shutdown, snapshot, errors, settled, router, connectionVars,
                 handshakeVars, held, wire, requestVars, subscriptionVars>>

(* The start failed: it closes what it has started.                        *)
ListenerFails ==
  /\ startup = "starting"
  /\ startup' = "cleaning" /\ closing' = TRUE /\ shutdown' = "listeners"
  /\ UNCHANGED <<up, closeCalled, snapshot, errors, settled, router, connectionVars, handshakeVars,
                 held, wire, requestVars, subscriptionVars>>

Close ==
  /\ ~closeCalled /\ closeCalled' = TRUE /\ closing' = TRUE
  /\ UNCHANGED <<startup, up, shutdown, snapshot, errors, settled, router, connectionVars,
                 handshakeVars, held, wire, requestVars, subscriptionVars>>

(* closeInternal waits for a start that is under way.                      *)
CloseProceeds ==
  /\ closeCalled /\ startup \notin {"starting", "cleaning", "closed"}
  /\ startup' = "closed" /\ shutdown' = "listeners" /\ errors' = FALSE
  /\ UNCHANGED <<closing, up, closeCalled, snapshot, settled, router, connectionVars, handshakeVars,
                 held, wire, requestVars, subscriptionVars>>

(* The listeners are closed, or one refuses to; closeServerState begins    *)
(* with the connections there are.                                         *)
ListenersClosed(ok) ==
  /\ shutdown = "listeners"
  /\ up' = (IF ok THEN 0 ELSE up) /\ errors' = ~ok
  /\ shutdown' = "connections" /\ snapshot' = connections
  /\ stage' = [c \in Connections |-> IF c \in connections THEN "closing" ELSE stage[c]]
  /\ UNCHANGED <<closing, startup, closeCalled, settled, router, connections, transport, disconnected,
                 dropping, handshakeVars, held, wire, requestVars, subscriptionVars>>

ConnectionsClosed(failing) ==
  /\ shutdown = "connections" /\ shutdown' = "router"
  /\ Closes(snapshot, failing)
  /\ Disconnect(snapshot)
  /\ snapshot' = {}
  /\ UNCHANGED <<closing, startup, up, closeCalled, errors, settled, router, dropping,
                 handshake, held, asked, pc, pending, published, lost>>

(* The router is closed, and with it the server.  A close that failed is   *)
(* what a second one gets as well.                                         *)
RouterClosed(ok) ==
  /\ shutdown = "router" /\ shutdown' = "done"
  /\ router' = IF ok THEN "closed" ELSE "failed"
  /\ router # "open" => router' = router
  /\ startup' = IF startup = "cleaning" THEN "failed" ELSE startup
  /\ connections' = {}
  /\ errors' = (errors \/ ~ok)
  /\ settled' = CASE settled # "no" -> settled [] errors' -> "rejected" [] OTHER -> "resolved"
  /\ UNCHANGED <<closing, up, closeCalled, snapshot, transport, stage, disconnected, dropping,
                 handshakeVars, held, wire, requestVars, subscriptionVars>>

----------------------------------------------------------------------------

Clients ==
  \/ \E c \in Connections :
       \/ Accept(c) \/ BadMessage(c) \/ Hello(c) \/ TransportClosed(c) \/ TransportError(c)
       \/ LeftoverCloses(c) \/ PublishAttachment(c)
       \/ \E i \in Ids : Cancel(c, i) \/ \E call \in Calls : Receive(c, i, call)
  \/ Start \/ Close
  \/ \E r \in Requests : Publish(r)

(* What goes on by itself, when the host and the transports answer.        *)
Works ==
  \/ \E c \in Connections : \/ Dropped(c, {}) \/ EndpointGiven(c) \/ Greeted(c)
                            \/ EndpointReleased(c) \/ HandleHeld(c) \/ HandshakeTimeout(c)
  \/ \E r \in Requests : Answered(r) \/ Failed(r) \/ SendEnds(r)
  \/ ListenerStarts \/ CloseProceeds \/ ListenersClosed(TRUE) \/ ConnectionsClosed({})
  \/ RouterClosed(router # "failed")

Failure ==
  \/ \E c \in Connections : EndpointRefused(c) \/ GreetingLost(c) \/ Dropped(c, {c})
  \/ \E r \in Requests : ResponseLost(r) \/ PublishLost(r) \/ PendingLost(r)
  \/ \E c \in snapshot : ConnectionsClosed({c})
  \/ ListenerFails \/ ListenersClosed(FALSE) \/ RouterClosed(FALSE)

(* Closed, and nothing in flight: the only state where nothing happens.    *)
Stopped == startup = "closed" /\ shutdown = "done" /\ UNCHANGED vars

Events ==
  Cardinality(Asked) + FoldFunction(+, 0, published) + fails
    + Cardinality(UNION {{c} \X Attachments(c) : c \in Connections})

Next ==
  \/ Clients /\ UNCHANGED fails /\ Events' <= MaxEvents
  \/ Works /\ UNCHANGED fails
  \/ Failure /\ fails < MaxFails /\ fails' = fails + 1 /\ Events' <= MaxEvents
  \/ Stopped

(* The host, the transports and the listeners answer; timers fire.         *)
Spec == Init /\ [][Next]_vars /\ WF_vars(Works /\ UNCHANGED fails)
----------------------------------------------------------------------------

Message ==
  [type : {"hello", "hello_error", "attachment"}] \cup
  [type : {"response"}, request : Requests,
   result : {"ok", "error", "cancelled", "duplicate", "invalid"}] \cup
  [type : {"update"}, encoder : Requests, request : Requests, n : 1..MaxUpdates]

ServerTypes ==
  /\ closing \in BOOLEAN /\ closeCalled \in BOOLEAN /\ errors \in BOOLEAN
  /\ startup \in {"no", "starting", "started", "cleaning", "failed", "closed"}
  /\ up \in 0..Listeners /\ snapshot \subseteq Connections
  /\ shutdown \in {"no", "listeners", "connections", "router", "done"}
  /\ settled \in {"no", "resolved", "rejected"} /\ router \in {"open", "closed", "failed"}

ConnectionTypes ==
  /\ connections \subseteq Connections \ disconnected
  /\ disconnected \subseteq Connections /\ dropping \subseteq Connections
  /\ transport \in [Connections -> {"none", "open", "refused", "unclosed", "closed"}]
  /\ stage \in [Connections ->
                 {"none", "awaitingHello", "handshaking", "ready", "closing", "closed"}]
  /\ handshake \in [Connections -> {"no", "attaching", "greeting", "done"}]
  /\ services \in [Connections -> {"no", "attached", "releasing", "released"}]
  /\ wire \in [Connections -> Seq(Message)]

RequestTypes ==
  /\ asked \in [Requests -> [from : Connections, id : Ids, call : Calls] \cup {None}]
  /\ held \in [Connections -> Seq(Requests)]
  /\ active \in [Connections -> [Ids -> Requests \cup {None}]]
  /\ pc \in [Requests -> {"no", "held", "refused", "running", "failing", "responding",
                          "losing", "stuck", "subscribed", "done"}]
  /\ aborted \subseteq Requests /\ encoder \in [Connections -> Requests \cup {None}]
  /\ pending \in [Requests -> Seq(1..MaxUpdates)]
  /\ published \in [Requests -> 0..MaxUpdates] /\ lost \in [Requests -> SUBSET (1..MaxUpdates)]

TypeOK == ServerTypes /\ ConnectionTypes /\ RequestTypes /\ fails \in 0..MaxFails

(* What a client reads is in order.  Only the router's attachments may     *)
(* come before the greeting; no request is answered twice; the updates of  *)
(* a subscription are in the order they were published, and after the      *)
(* snapshot they build on, also those published before it was sent or      *)
(* while others waited.  None is missing before one that is there, but     *)
(* those that could not be encoded or sent.  An update coded against the   *)
(* state of another subscription (the id taken twice) is one against a     *)
(* later snapshot.                                                         *)
Answers(c, r) == {k \in DOMAIN wire[c] : wire[c][k].type = "response" /\ wire[c][k].request = r}

Snapshots(c, r) == {k \in Answers(c, r) : wire[c][k].result = "ok"}

UpdatesOf(c, r) ==
  {k \in DOMAIN wire[c] : wire[c][k].type = "update" /\ wire[c][k].encoder = r /\ wire[c][k].request = r}

\* Each has a higher number than those before it, which have all lower ones but the lost.
InOrder(c, r) ==
  \A k \in UpdatesOf(c, r) :
    /\ \A j \in UpdatesOf(c, r) : j < k => wire[c][j].n < wire[c][k].n
    /\ \A m \in 1..(wire[c][k].n - 1) \ lost[r] : \E j \in UpdatesOf(c, r) : j < k /\ wire[c][j].n = m

\* The greeting, or the refusal, comes before all that is not an attachment.
GreetedFirst(c) ==
  \A k \in DOMAIN wire[c] :
    /\ wire[c][k].type = "hello" => \A j \in 1..(k - 1) : wire[c][j].type = "attachment"
    /\ wire[c][k].type \in {"response", "update"} => \E j \in 1..(k - 1) : wire[c][j].type = "hello"

WireInOrder ==
  \A c \in Connections :
    /\ GreetedFirst(c)
    /\ \A r \in Requests : Cardinality(Answers(c, r)) <= 1
    /\ \A r \in Requests : InOrder(c, r)
    /\ \A k \in DOMAIN wire[c] : wire[c][k].type = "update" =>
         /\ \E j \in Snapshots(c, wire[c][k].request) : j < k
         /\ \A i \in Snapshots(c, wire[c][k].request), j \in Snapshots(c, wire[c][k].encoder) :
              i <= j

(* A cancel reaches the request it means: as long as its connection lives, *)
(* a request that has not been answered is the active one of its id, so    *)
(* that no two of one id are.                                              *)
ActiveById ==
  \A r \in Requests :
    pc[r] \in {"running", "failing", "responding"} /\ From(r) \notin disconnected
      => active[From(r)][asked[r].id] = r

(* The router is closed after every connection is gone, which is what it   *)
(* relies on, and once the server says it is closed nothing it accepted is *)
(* left over, whether it was accepted while the server started, failed to  *)
(* start or closed: no connection, endpoint or request is in its hands, and*)
(* no transport is open but one whose close failed, or one that was refused*)
(* at the end and for whose close nobody waits.                            *)
NothingLeftOpen ==
  shutdown \in {"router", "done"} =>
    /\ closing /\ connections = {}
    /\ \A c \in Connections :
         /\ services[c] # "attached" /\ \A i \in Ids : active[c][i] = None
         /\ IF stage[c] = "none" THEN transport[c] # "open" /\ c \notin disconnected
            ELSE transport[c] \in {"closed", "unclosed"} /\ c \in disconnected

(* A shutdown, whatever began it and whatever fails in it, comes to an end *)
(* that is announced, and every endpoint the host gave, or gives meanwhile,*)
(* is released.                                                            *)
ShutdownCompletes ==
  closing ~> /\ settled # "no"
             /\ \A c \in Connections :
                  services[c] \notin {"attached", "releasing"} /\ handshake[c] # "attaching"
=============================================================================
