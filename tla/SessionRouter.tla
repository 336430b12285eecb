--------------------------- MODULE SessionRouter ---------------------------
(***************************************************************************)
(* The session router of the pi server kept under docs/refs                *)
(* (docs/refs/pi-server-session-router.ts): which client is attached to    *)
(* which hosted session.  One action is the code between two awaits of one *)
(* of its asynchronous functions; the calls it makes on the host (open a   *)
(* session, acquire and release a lease, run a service call, close a       *)
(* handle) end in any order, and may fail.                                 *)
(***************************************************************************)
EXTENDS Naturals, Sequences, FiniteSets

CONSTANTS
  Clients,   \* the connections, which the router knows as objects
  Sessions,  \* the durable session ids
  Removals,  \* the calls of removeSession
  MaxOps,    \* bound: requests of the clients, without the disconnects
  MaxOpens,  \* bound: handles opened for one session
  MaxCalls,  \* bound: service calls in flight on one attachment
  MaxFails,  \* bound: calls on the host that fail, workers that die
  MaxEvents, \* bound: requests, removals and failures together
  None       \* undefined

(* The attachment a client makes in the n-th request, and the n-th hosting *)
(* of a session: the objects ClientAttachment and HostedSession, which the    *)
(* code compares by identity.                                              *)
Attachment == Clients \X (1..MaxOps)
Hosting == Sessions \X (1..MaxOpens)

ASSUME BoundsAssumption ==
  /\ MaxOps \in Nat /\ MaxOpens \in Nat /\ MaxCalls \in Nat /\ MaxFails \in Nat
  /\ MaxEvents \in Nat
  /\ None \notin Sessions \cup Attachment \cup Hosting

Operation ==
  [op : {"attach"}, to : Sessions, n : 1..MaxOps] \cup
  [op : {"call"}, to : Attachment, n : 1..MaxOps] \cup
  [op : {"detach", "disconnect"}, to : {None}, n : 0..MaxOps]

VARIABLES
  closing,             \* what isClosing() says
  hostedSessions,      \* session -> the hosting it is mapped to
  openingSessions,     \* session -> where its pending open is
  handle,              \* hosting -> state of its RoutedSessionHandle
  clientOperations,    \* client -> its operations, the first is the running one
  issued,              \* requests so far
  lost,                \* clients whose connection has been reported lost
  disconnectedClients, \* clients whose disconnect is not through
  pc,                  \* client -> where its first operation is
  got,                 \* client -> the hosting that acquire gave it
  current,             \* client -> the attachment its operation waits for
  session,             \* attachment -> its hosting
  attachmentsByClient, \* client -> its attachment
  told,                \* client -> the attachment last published to it
  lease,               \* attachment -> state of its lease
  releasing,           \* attachment -> state of its releasing promise
  quiet,               \* attachments whose release publishes nothing
  calls,               \* attachment -> calls in flight its release waits for
  late,                \* attachment -> calls in flight admitted during its release
  removal,             \* call of removeSession -> where it is
  removed,             \* call of removeSession -> the hosting it found
  waiting,             \* call of removeSession -> the attachments it released
  closer,              \* where closeInternal is
  settling,            \* client -> operations closeInternal waits for
  closingWaits,        \* attachments closeInternal released
  closingHosts,        \* hostings whose handles closeInternal closes
  fails                \* failures of the host so far

hostVars == <<hostedSessions, openingSessions, handle>>
requestVars == <<issued, lost>>
clientVars == <<clientOperations, pc, got, current, settling>>
routeVars == <<attachmentsByClient, told>>
releaseVars == <<releasing, quiet>>
callVars == <<calls, late>>
removeVars == <<removal, removed, waiting>>
closeVars == <<closing, closer, closingWaits, closingHosts>>
vars == <<hostVars, requestVars, clientVars, disconnectedClients, session, routeVars, lease,
          releaseVars, callVars, removeVars, closeVars, fails>>

Init ==
  /\ closing = FALSE /\ closer = "no" /\ closingWaits = {} /\ closingHosts = {} /\ fails = 0
  /\ hostedSessions = [s \in Sessions |-> None]
  /\ openingSessions = [s \in Sessions |-> "no"] /\ handle = [h \in Hosting |-> "none"]
  /\ clientOperations = [c \in Clients |-> <<>>] /\ pc = [c \in Clients |-> "idle"]
  /\ got = [c \in Clients |-> None] /\ current = [c \in Clients |-> None]
  /\ issued = 0 /\ lost = {} /\ disconnectedClients = {}
  /\ session = [a \in Attachment |-> None]
  /\ attachmentsByClient = [c \in Clients |-> None] /\ told = [c \in Clients |-> None]
  /\ lease = [a \in Attachment |-> "none"]
  /\ calls = [a \in Attachment |-> 0] /\ late = [a \in Attachment |-> 0]
  /\ releasing = [a \in Attachment |-> "no"] /\ quiet = {}
  /\ removal = [r \in Removals |-> "no"] /\ removed = [r \in Removals |-> None]
  /\ waiting = [r \in Removals |-> {}]
  /\ settling = [c \in Clients |-> 0]

Released(a) == releasing[a] \in {"done", "failed"}

(* HostedSession.attachments: added when made, deleted when the lease is   *)
(* refused or the release is through.                                      *)
AttachmentsOf(h) == {a \in Attachment : session[a] = h /\ lease[a] # "refused" /\ ~Released(a)}

Hosted == {s \in Sessions : hostedSessions[s] # None}

----------------------------------------------------------------------------
(* Requests: runForClient chains an operation behind the client's others.  *)

Chain(c, o) == clientOperations' = [clientOperations EXCEPT ![c] = Append(@, o)]

Request(c, op, to) ==
  /\ issued < MaxOps
  /\ issued' = issued + 1
  /\ Chain(c, [op |-> op, to |-> to, n |-> issued'])
  /\ UNCHANGED <<lost, hostVars, pc, got, current, settling, disconnectedClients, session,
                 routeVars, lease, releaseVars, callVars, removeVars, closeVars>>

AttachClient(c, s) == ~closing /\ Request(c, "attach", s)

DetachClient(c) == Request(c, "detach", None)

(* A service call names the attachment the client was last told of.        *)
ExecuteServiceCall(c) == told[c] # None /\ Request(c, "call", told[c])

\* Mutant of Disconnect: the connection is not marked.
DisconnectUnmarked(c) ==
  /\ c \notin lost /\ disconnectedClients' = disconnectedClients \cup {c}
  /\ Chain(c, [op |-> "disconnect", to |-> None, n |-> 0])
  /\ UNCHANGED <<requestVars, hostVars, pc, got, current, settling, session, routeVars, lease,
                 releaseVars, callVars, removeVars, closeVars>>

(* The connection is lost.  A server service that still runs for it may go *)
(* on asking the router on its behalf.                                     *)
Disconnect(c) ==
  /\ c \notin lost
  /\ lost' = lost \cup {c} /\ disconnectedClients' = disconnectedClients \cup {c}
  /\ Chain(c, [op |-> "disconnect", to |-> None, n |-> 0])
  /\ UNCHANGED <<issued, hostVars, pc, got, current, settling, session, routeVars, lease,
                 releaseVars, callVars, removeVars, closeVars>>

Starts(c, op) ==
  pc[c] \in {"idle", "left"} /\ clientOperations[c] # <<>> /\ Head(clientOperations[c]).op = op

This(c) == Head(clientOperations[c])

(* The operation is over; closeInternal may have been waiting for it.      *)
Ends(c, at) ==
  /\ clientOperations' = [clientOperations EXCEPT ![c] = Tail(@)]
  /\ pc' = [pc EXCEPT ![c] = at]
  /\ got' = [got EXCEPT ![c] = None] /\ current' = [current EXCEPT ![c] = None]
  /\ settling' = [settling EXCEPT ![c] = IF @ = 0 THEN 0 ELSE @ - 1]

Goes(c, at, h, a) ==
  /\ pc' = [pc EXCEPT ![c] = at]
  /\ got' = [got EXCEPT ![c] = h] /\ current' = [current EXCEPT ![c] = a]
  /\ UNCHANGED <<clientOperations, settling>>

----------------------------------------------------------------------------
(* releaseAttachment: one releasing promise per attachment, whoever asks.  *)

Release(S, silent) ==
  LET fresh == {a \in S : releasing[a] = "no"}
  IN  /\ releasing' = [a \in Attachment |-> IF a \in fresh THEN "draining" ELSE releasing[a]]
      /\ quiet' = IF silent THEN quiet \cup fresh ELSE quiet

\* Mutant of Drained: it does not wait for the calls.
DrainedAtOnce(a) ==
  /\ releasing[a] = "draining" /\ lease[a] = "held"
  /\ releasing' = [releasing EXCEPT ![a] = "releasing"]
  /\ UNCHANGED <<hostVars, requestVars, clientVars, disconnectedClients, session, routeVars,
                 lease, quiet, callVars, removeVars, closeVars>>

(* The calls it found are settled: it releases the lease, if there is one. *)
Drained(a) ==
  /\ releasing[a] = "draining" /\ calls[a] = 0 /\ lease[a] = "held"
  /\ releasing' = [releasing EXCEPT ![a] = "releasing"]
  /\ UNCHANGED <<hostVars, requestVars, clientVars, disconnectedClients, session, routeVars,
                 lease, quiet, callVars, removeVars, closeVars>>

\* Mutant of Clear: nobody is told.
ClearUntold(a, result) ==
  /\ releasing' = [releasing EXCEPT ![a] = result]
  /\ attachmentsByClient' =
       [c \in Clients |-> IF attachmentsByClient[c] = a THEN None ELSE attachmentsByClient[c]]
  /\ UNCHANGED <<hostVars, requestVars, clientVars, disconnectedClients, session, told, quiet,
                 callVars, removeVars, closeVars>>

(* clearAttachment, in the finally block: the route goes, and the client   *)
(* is told unless this release is a quiet one.                             *)
Clear(a, result) ==
  /\ releasing' = [releasing EXCEPT ![a] = result]
  /\ LET routed == {c \in Clients : attachmentsByClient[c] = a}
     IN  /\ attachmentsByClient' =
              [c \in Clients |-> IF c \in routed THEN None ELSE attachmentsByClient[c]]
         /\ told' = [c \in Clients |-> IF c \in routed /\ a \notin quiet THEN None ELSE told[c]]
  /\ UNCHANGED <<hostVars, requestVars, clientVars, disconnectedClients, session, quiet,
                 callVars, removeVars, closeVars>>

LeaseReleased(a, result) ==
  /\ releasing[a] = "releasing"
  /\ lease' = [lease EXCEPT ![a] = "released"]
  /\ Clear(a, result)

NothingToRelease(a) ==
  /\ releasing[a] = "draining" /\ calls[a] = 0 /\ lease[a] = "refused"
  /\ UNCHANGED lease
  /\ Clear(a, "failed")

----------------------------------------------------------------------------
(* attachClientNow *)

(* Too late, or attached to this session already.                          *)
AttachReturns(c) ==
  /\ Starts(c, "attach")
  /\ \/ closing \/ c \in disconnectedClients
     \/ /\ attachmentsByClient[c] # None
        /\ session[attachmentsByClient[c]][1] = This(c).to
  /\ Ends(c, "idle")
  /\ UNCHANGED <<hostVars, requestVars, disconnectedClients, session, routeVars, lease,
                 releaseVars, callVars, removeVars, closeVars>>

(* acquire: the session is hosted, or being opened, or this one opens it.  *)
Acquire(c) ==
  LET s == This(c).to IN
  /\ Starts(c, "attach")
  /\ ~closing /\ c \notin disconnectedClients
  /\ attachmentsByClient[c] # None => session[attachmentsByClient[c]][1] # s
  /\ IF hostedSessions[s] # None
     THEN /\ Goes(c, "acquired", hostedSessions[s], attachmentsByClient[c])
          /\ UNCHANGED openingSessions
     ELSE /\ Goes(c, "acquiring", None, attachmentsByClient[c])
          /\ openingSessions' = [openingSessions EXCEPT ![s] = IF @ = "no" THEN "opening" ELSE @]
  /\ UNCHANGED <<hostedSessions, handle, requestVars, disconnectedClients, session, routeVars,
                 lease, releaseVars, callVars, removeVars, closeVars>>

Opening(s) == {c \in Clients : pc[c] = "acquiring" /\ This(c).to = s}

Fresh(s, h) ==
  /\ h[1] = s /\ handle[h] = "none"
  /\ \A g \in Hosting : g[1] = s /\ g[2] < h[2] => handle[g] # "none"

(* The session is open: hosted, and everyone who waited for it goes on.    *)
OpenSucceeds(s, h) ==
  /\ openingSessions[s] = "opening" /\ ~closing
  /\ Fresh(s, h)
  /\ handle' = [handle EXCEPT ![h] = "open"]
  /\ hostedSessions' = [hostedSessions EXCEPT ![s] = h]
  /\ openingSessions' = [openingSessions EXCEPT ![s] = "no"]
  /\ pc' = [c \in Clients |-> IF c \in Opening(s) THEN "acquired" ELSE pc[c]]
  /\ got' = [c \in Clients |-> IF c \in Opening(s) THEN h ELSE got[c]]
  /\ UNCHANGED <<requestVars, clientOperations, current, settling, disconnectedClients,
                 session, routeVars, lease, releaseVars, callVars, removeVars, closeVars>>

(* The server began to close meanwhile: the handle is closed again.        *)
OpenedWhileClosing(s, h) ==
  /\ openingSessions[s] = "opening" /\ closing
  /\ Fresh(s, h)
  /\ handle' = [handle EXCEPT ![h] = "closing"]
  /\ openingSessions' = [openingSessions EXCEPT ![s] = "draining"]
  /\ UNCHANGED <<hostedSessions, requestVars, clientVars, disconnectedClients, session,
                 routeVars, lease, releaseVars, callVars, removeVars, closeVars>>

(* The open was refused, or its handle has been closed again: everyone who *)
(* waited for it fails.                                                    *)
OpenEnds(s) ==
  /\ openingSessions' = [openingSessions EXCEPT ![s] = "no"]
  /\ clientOperations' =
       [c \in Clients |-> IF c \in Opening(s) THEN Tail(clientOperations[c])
                                              ELSE clientOperations[c]]
  /\ pc' = [c \in Clients |-> IF c \in Opening(s) THEN "idle" ELSE pc[c]]
  /\ current' = [c \in Clients |-> IF c \in Opening(s) THEN None ELSE current[c]]
  /\ settling' = [c \in Clients |-> IF c \in Opening(s) /\ settling[c] > 0
                                    THEN settling[c] - 1 ELSE settling[c]]
  /\ UNCHANGED <<hostedSessions, requestVars, got, disconnectedClients, session, routeVars,
                 lease, releaseVars, callVars, removeVars, closeVars>>

OpenFails(s) ==
  /\ openingSessions[s] = "opening"
  /\ OpenEnds(s)
  /\ UNCHANGED handle

OpenDrained(s, h, result) ==
  /\ openingSessions[s] = "draining" /\ h[1] = s /\ handle[h] = "closing"
  /\ \A g \in Hosting : g[1] = s /\ g[2] > h[2] => handle[g] = "none"
  /\ handle' = [handle EXCEPT ![h] = result]
  /\ OpenEnds(s)

(* A new attachment in the hosting's set, its lease asked for.             *)
MakeAttachment(c) ==
  LET a == <<c, This(c).n>> IN
  /\ session' = [session EXCEPT ![a] = got[c]]
  /\ lease' = [lease EXCEPT ![a] = "acquiring"]
  /\ Goes(c, "attaching", None, a)

Draining(c) == closing \/ c \in disconnectedClients

AcquiredTooLate(c) ==
  /\ pc[c] = "acquired" /\ Draining(c)
  /\ Ends(c, "idle")
  /\ UNCHANGED <<hostVars, requestVars, disconnectedClients, session, routeVars, lease,
                 releaseVars, callVars, removeVars, closeVars>>

SwitchFrom(c) ==
  /\ pc[c] = "acquired" /\ ~Draining(c) /\ current[c] # None
  /\ Release({current[c]}, TRUE)
  /\ Goes(c, "switching", got[c], current[c])
  /\ UNCHANGED <<hostVars, requestVars, disconnectedClients, session, routeVars, lease,
                 callVars, removeVars, closeVars>>

\* Mutant of AttachTo: it does not wait for the release of the old attachment.
AttachToAtOnce(c) ==
  /\ (pc[c] = "acquired" /\ ~Draining(c)) \/ pc[c] = "switching"
  /\ MakeAttachment(c)
  /\ UNCHANGED <<hostVars, requestVars, disconnectedClients, routeVars, releaseVars,
                 callVars, removeVars, closeVars>>

AttachTo(c) ==
  /\ \/ pc[c] = "acquired" /\ ~Draining(c) /\ current[c] = None
     \/ pc[c] = "switching" /\ releasing[current[c]] = "done"
  /\ MakeAttachment(c)
  /\ UNCHANGED <<hostVars, requestVars, disconnectedClients, routeVars, releaseVars,
                 callVars, removeVars, closeVars>>

\* Mutant of LeaseGranted: it does not look whether the session is still hosted.
LeaseGrantedUnchecked(c) ==
  /\ pc[c] = "attaching"
  /\ lease' = [lease EXCEPT ![current[c]] = "held"]
  /\ attachmentsByClient' = [attachmentsByClient EXCEPT ![c] = current[c]]
  /\ told' = [told EXCEPT ![c] = current[c]]
  /\ Ends(c, "idle")
  /\ UNCHANGED <<hostVars, requestVars, disconnectedClients, session, releaseVars, callVars,
                 removeVars, closeVars>>

(* The lease is there.  Nothing may have changed while it was acquired,    *)
(* otherwise it is released again.                                         *)
LeaseGranted(c) ==
  LET a == current[c] IN
  /\ pc[c] = "attaching"
  /\ lease' = [lease EXCEPT ![a] = "held"]
  /\ \/ /\ hostedSessions[session[a][1]] = session[a] /\ a \in AttachmentsOf(session[a])
        /\ ~Draining(c)
        /\ attachmentsByClient' = [attachmentsByClient EXCEPT ![c] = a]
        /\ told' = [told EXCEPT ![c] = a]
        /\ Ends(c, "idle")
        /\ UNCHANGED releaseVars
     \/ /\ \/ hostedSessions[session[a][1]] # session[a] \/ a \notin AttachmentsOf(session[a])
           \/ Draining(c)
        /\ Release({a}, FALSE)
        /\ Goes(c, "undoing", None, a)
        /\ UNCHANGED routeVars
  /\ UNCHANGED <<hostVars, requestVars, disconnectedClients, session, callVars, removeVars,
                 closeVars>>

LeaseRefused(c) ==
  /\ pc[c] = "attaching"
  /\ lease' = [lease EXCEPT ![current[c]] = "refused"]
  /\ Ends(c, "idle")
  /\ UNCHANGED <<hostVars, requestVars, disconnectedClients, session, routeVars, releaseVars,
                 callVars, removeVars, closeVars>>

(* The release an operation waited for is through; a switch goes on only   *)
(* when it did not fail.                                                   *)
ReleaseAwaited(c) ==
  /\ \/ pc[c] \in {"undoing", "detaching"} /\ Released(current[c])
     \/ pc[c] = "switching" /\ releasing[current[c]] = "failed"
  /\ Ends(c, "idle")
  /\ UNCHANGED <<hostVars, requestVars, disconnectedClients, session, routeVars, lease,
                 releaseVars, callVars, removeVars, closeVars>>

----------------------------------------------------------------------------
(* detachClient, disconnect and the service calls *)

Detach(c) ==
  /\ Starts(c, "detach") /\ attachmentsByClient[c] # None
  /\ Release({attachmentsByClient[c]}, FALSE)
  /\ Goes(c, "detaching", None, attachmentsByClient[c])
  /\ UNCHANGED <<hostVars, requestVars, disconnectedClients, session, routeVars, lease,
                 callVars, removeVars, closeVars>>

NothingToDetach(c) ==
  /\ Starts(c, "detach") /\ attachmentsByClient[c] = None
  /\ Ends(c, "idle")
  /\ UNCHANGED <<hostVars, requestVars, disconnectedClients, session, routeVars, lease,
                 releaseVars, callVars, removeVars, closeVars>>

Leave(c) ==
  /\ Starts(c, "disconnect") /\ attachmentsByClient[c] # None
  /\ Release({attachmentsByClient[c]}, TRUE)
  /\ Goes(c, "leaving", None, attachmentsByClient[c])
  /\ UNCHANGED <<hostVars, requestVars, disconnectedClients, session, routeVars, lease,
                 callVars, removeVars, closeVars>>

Left(c) ==
  /\ \/ Starts(c, "disconnect") /\ attachmentsByClient[c] = None
     \/ pc[c] = "leaving" /\ Released(current[c])
  /\ disconnectedClients' = disconnectedClients \ {c}
  /\ Ends(c, "left")
  /\ UNCHANGED <<hostVars, requestVars, session, routeVars, lease, releaseVars, callVars,
                 removeVars, closeVars>>

(* requireAttachment: the route the call names is the client's live one.   *)
Routed(c) == ~Draining(c) /\ attachmentsByClient[c] = This(c).to

StartServiceCall(c) ==
  LET a == This(c).to IN
  /\ Starts(c, "call") /\ Routed(c) /\ calls[a] + late[a] < MaxCalls
  /\ calls' = [calls EXCEPT ![a] = IF releasing[a] = "no" THEN @ + 1 ELSE @]
  /\ late' = [late EXCEPT ![a] = IF releasing[a] = "no" THEN @ ELSE @ + 1]
  /\ Ends(c, "idle")
  /\ UNCHANGED <<hostVars, requestVars, disconnectedClients, session, routeVars, lease,
                 releaseVars, removeVars, closeVars>>

CallRejected(c) ==
  /\ Starts(c, "call") /\ ~Routed(c)
  /\ Ends(c, "idle")
  /\ UNCHANGED <<hostVars, requestVars, disconnectedClients, session, routeVars, lease,
                 releaseVars, callVars, removeVars, closeVars>>

CallSettles(a) ==
  /\ \/ calls[a] > 0 /\ calls' = [calls EXCEPT ![a] = @ - 1] /\ UNCHANGED late
     \/ late[a] > 0 /\ late' = [late EXCEPT ![a] = @ - 1] /\ UNCHANGED calls
  /\ UNCHANGED <<hostVars, requestVars, clientVars, disconnectedClients, session, routeVars,
                 lease, releaseVars, removeVars, closeVars>>

----------------------------------------------------------------------------
(* removeSession and invalidate *)

\* Mutant of RemoveSession: the session is unmapped first, not last.
RemoveSessionFirst(r, s) ==
  LET h == hostedSessions[s] IN
  /\ ~closing /\ h # None
  /\ removal[r] = "no" /\ removal' = [removal EXCEPT ![r] = "releasing"]
  /\ hostedSessions' = [hostedSessions EXCEPT ![s] = None]
  /\ removed' = [removed EXCEPT ![r] = h]
  /\ waiting' = [waiting EXCEPT ![r] = AttachmentsOf(h)]
  /\ Release(AttachmentsOf(h), FALSE)
  /\ UNCHANGED <<openingSessions, handle, requestVars, clientVars, disconnectedClients, session,
                 routeVars, lease, callVars, closeVars>>

(* A session may be removed again while it is being removed: it is mapped  *)
(* until one of the calls is through.                                      *)
RemoveSession(r, s) ==
  LET h == hostedSessions[s] IN
  /\ ~closing /\ h # None
  /\ removal[r] = "no" /\ removal' = [removal EXCEPT ![r] = "releasing"]
  /\ removed' = [removed EXCEPT ![r] = h]
  /\ waiting' = [waiting EXCEPT ![r] = AttachmentsOf(h)]
  /\ Release(AttachmentsOf(h), FALSE)
  /\ UNCHANGED <<hostVars, requestVars, clientVars, disconnectedClients, session, routeVars,
                 lease, callVars, closeVars>>

RemoveCloses(r) ==
  /\ removal[r] = "releasing" /\ \A a \in waiting[r] : Released(a)
  /\ removal' = [removal EXCEPT ![r] = "closing"] /\ waiting' = [waiting EXCEPT ![r] = {}]
  /\ handle' = [handle EXCEPT ![removed[r]] = IF @ = "open" THEN "closing" ELSE @]
  /\ UNCHANGED <<hostedSessions, openingSessions, requestVars, clientVars,
                 disconnectedClients, session, routeVars, lease, releaseVars, callVars,
                 removed, closeVars>>

(* Who else has called close on the handle, and waits for it.              *)
ClosedToo(r) ==
  \/ \E q \in Removals \ {r} : removal[q] = "closing" /\ removed[q] = removed[r]
  \/ closer = "closing" /\ removed[r] \in closingHosts

\* A handle that is being closed is closed, or its close has failed.
HandleEnds(h, result) == handle' = [handle EXCEPT ![h] = IF @ = "closing" THEN result ELSE @]

(* The close of the handle ends.  When several calls close one handle, one *)
(* may return, or reject, while the handle still closes for another.       *)
RemoveEnds(r, result) ==
  /\ removal[r] = "closing"
  /\ removal' = [removal EXCEPT ![r] = "done"]
  /\ \/ HandleEnds(removed[r], result)
     \/ ClosedToo(r) /\ UNCHANGED handle
  /\ hostedSessions' = [s \in Sessions |-> IF hostedSessions[s] = removed[r] THEN None
                                            ELSE hostedSessions[s]]
  /\ UNCHANGED <<openingSessions, requestVars, clientVars, disconnectedClients, session,
                 routeVars, lease, releaseVars, callVars, removed, waiting, closeVars>>

(* The handle's terminated promise: its worker is gone, after a close or   *)
(* before it.                                                              *)
Invalidate(s, states) ==
  LET h == hostedSessions[s] IN
  /\ h # None /\ handle[h] \in states
  /\ hostedSessions' = [hostedSessions EXCEPT ![s] = None]
  /\ handle' = [handle EXCEPT ![h] = IF @ = "open" THEN "dead" ELSE "closed"]
  /\ Release(AttachmentsOf(h), FALSE)
  /\ UNCHANGED <<openingSessions, requestVars, clientVars, disconnectedClients, session,
                 routeVars, lease, callVars, removeVars, closeVars>>

----------------------------------------------------------------------------
(* close: the server sets its flag, disconnects every connection, then     *)
(* closes the router.                                                      *)

BeginClosing ==
  /\ ~closing /\ closing' = TRUE
  /\ UNCHANGED <<hostVars, requestVars, clientVars, disconnectedClients, session, routeVars,
                 lease, releaseVars, callVars, removeVars, closer, closingWaits, closingHosts>>

Close ==
  /\ closing /\ closer = "no" /\ lost = Clients
  /\ closer' = "settling"
  /\ settling' = [c \in Clients |-> Len(clientOperations[c])]
  /\ UNCHANGED <<hostVars, requestVars, clientOperations, pc, got, current,
                 disconnectedClients, session, routeVars, lease, releaseVars, callVars,
                 removeVars, closing, closingWaits, closingHosts>>

CloseReleases ==
  LET all == UNION {AttachmentsOf(hostedSessions[s]) : s \in Hosted} IN
  /\ closer = "settling" /\ \A c \in Clients : settling[c] = 0
  /\ \A s \in Sessions : openingSessions[s] = "no"
  /\ closer' = "releasing" /\ closingWaits' = all
  /\ Release(all, FALSE)
  /\ UNCHANGED <<hostVars, requestVars, clientVars, disconnectedClients, session, routeVars,
                 lease, callVars, removeVars, closing, closingHosts>>

CloseHandles ==
  /\ closer = "releasing" /\ \A a \in closingWaits : Released(a)
  /\ closer' = "closing" /\ closingWaits' = {}
  /\ closingHosts' = {hostedSessions[s] : s \in Hosted}
  /\ handle' = [h \in Hosting |-> IF h \in closingHosts' /\ handle[h] = "open"
                                  THEN "closing" ELSE handle[h]]
  /\ UNCHANGED <<hostedSessions, openingSessions, requestVars, clientVars,
                 disconnectedClients, session, routeVars, lease, releaseVars, callVars,
                 removeVars, closing>>

(* Its calls of close have all ended.  The handles are closed but for those*)
(* whose close fails, which stay hosted, and those which still close for a *)
(* removal.                                                                *)
CloseEnds(failing) ==
  LET shared == {h \in closingHosts :
                   \E r \in Removals : removal[r] = "closing" /\ removed[r] = h}
  IN
  /\ closer = "closing" /\ closer' = "done" /\ closingHosts' = {}
  /\ \E still \in SUBSET shared :
       handle' = [h \in Hosting |->
                    IF h \in closingHosts \ still /\ handle[h] = "closing"
                    THEN IF h[1] \in failing THEN "failed" ELSE "closed" ELSE handle[h]]
  /\ hostedSessions' = [s \in Sessions |->
                          IF hostedSessions[s] \in closingHosts /\ s \notin failing
                          THEN None ELSE hostedSessions[s]]
  /\ attachmentsByClient' = [c \in Clients |-> None]
  /\ UNCHANGED <<openingSessions, requestVars, clientVars, disconnectedClients, session, told,
                 lease, releaseVars, callVars, removeVars, closing, closingWaits>>

----------------------------------------------------------------------------

Requests(c) ==
  \/ \E s \in Sessions : AttachClient(c, s)
  \/ DetachClient(c) \/ ExecuteServiceCall(c) \/ Disconnect(c)

(* What a client's operation does when the promise it awaits is settled.   *)
Continues(c) ==
  \/ AttachReturns(c) \/ Acquire(c) \/ AcquiredTooLate(c) \/ SwitchFrom(c) \/ AttachTo(c)
  \/ ReleaseAwaited(c) \/ Detach(c) \/ NothingToDetach(c) \/ Leave(c) \/ Left(c)
  \/ StartServiceCall(c) \/ CallRejected(c)

(* What the host's answers lead to.                                        *)
Opens(s) ==
  \/ \E h \in Hosting : \/ OpenSucceeds(s, h) \/ OpenedWhileClosing(s, h)
                        \/ OpenDrained(s, h, "closed")
  \/ (\A h \in Hosting : h[1] = s => handle[h] # "none") /\ OpenFails(s)

Releases(a) ==
  Drained(a) \/ NothingToRelease(a) \/ LeaseReleased(a, "done") \/ CallSettles(a)

Removes(r) == RemoveCloses(r) \/ RemoveEnds(r, "closed")

Closes == Close \/ CloseReleases \/ CloseHandles \/ CloseEnds({})

Works ==
  \/ \E c \in Clients : Continues(c) \/ LeaseGranted(c)
  \/ \E s \in Sessions : Opens(s)
  \/ \E a \in Attachment : Releases(a)
  \/ \E r \in Removals : Removes(r)
  \/ Closes

(* What the host may refuse or lose.                                       *)
Failure ==
  \/ \E c \in Clients : LeaseRefused(c)
  \/ \E s \in Sessions : OpenFails(s) \/ Invalidate(s, {"open"})
  \/ \E s \in Sessions, h \in Hosting : OpenDrained(s, h, "failed")
  \/ \E a \in Attachment : LeaseReleased(a, "failed")
  \/ \E r \in Removals : RemoveEnds(r, "failed")
  \/ \E s \in Hosted : CloseEnds({s})

(* Closed, with nothing in flight: the only state where nothing happens.   *)
Stopped ==
  /\ closer = "done" /\ \A c \in Clients : clientOperations[c] = <<>>
  /\ UNCHANGED vars

Events == issued + Cardinality({r \in Removals : removal[r] # "no"}) + fails

Next ==
  \/ /\ \/ \E c \in Clients : Requests(c)
        \/ \E r \in Removals, s \in Sessions : RemoveSession(r, s)
     /\ UNCHANGED fails /\ Events' <= MaxEvents
  \/ /\ \/ \E s \in Sessions : Invalidate(s, {"closing", "closed"})
        \/ BeginClosing \/ Works
     /\ UNCHANGED fails
  \/ Failure /\ fails < MaxFails /\ fails' = fails + 1 /\ Events' <= MaxEvents
  \/ Stopped

Spec == Init /\ [][Next]_vars
----------------------------------------------------------------------------

TypeOK ==
  /\ closing \in BOOLEAN /\ fails \in 0..MaxFails /\ issued \in 0..MaxOps
  /\ closer \in {"no", "settling", "releasing", "closing", "done"}
  /\ hostedSessions \in [Sessions -> Hosting \cup {None}]
  /\ openingSessions \in [Sessions -> {"no", "opening", "draining"}]
  /\ handle \in [Hosting -> {"none", "open", "closing", "closed", "failed", "dead"}]
  /\ clientOperations \in [Clients -> Seq(Operation)]
  /\ lost \subseteq Clients /\ disconnectedClients \subseteq lost
  /\ pc \in [Clients -> {"idle", "left", "acquiring", "acquired", "switching", "attaching",
                         "undoing", "detaching", "leaving"}]
  /\ got \in [Clients -> Hosting \cup {None}]
  /\ current \in [Clients -> Attachment \cup {None}]
  /\ session \in [Attachment -> Hosting \cup {None}]
  /\ attachmentsByClient \in [Clients -> Attachment \cup {None}]
  /\ told \in [Clients -> Attachment \cup {None}]
  /\ lease \in [Attachment -> {"none", "acquiring", "held", "refused", "released"}]
  /\ releasing \in [Attachment -> {"no", "draining", "releasing", "done", "failed"}]
  /\ quiet \subseteq Attachment /\ closingWaits \subseteq Attachment
  /\ calls \in [Attachment -> Nat] /\ late \in [Attachment -> Nat]
  /\ settling \in [Clients -> Nat]
  /\ removal \in [Removals -> {"no", "releasing", "closing", "done"}]
  /\ removed \in [Removals -> Hosting \cup {None}]
  /\ waiting \in [Removals -> SUBSET Attachment] /\ closingHosts \subseteq Hosting

Live(a) == lease[a] \in {"acquiring", "held"}

(* A connection never has two leases, being acquired or held, at a time:   *)
(* switching sessions waits for the release of the attachment it leaves,   *)
(* and operations of one client run one after the other whatever else is   *)
(* going on.  One whose disconnect is through has none.                    *)
OneLeasePerClient ==
  \A a, b \in Attachment : Live(a) /\ Live(b) /\ a[1] = b[1] => a = b

LeftHoldsNothing ==
  \A c \in Clients : pc[c] = "left" =>
    attachmentsByClient[c] = None /\ \A a \in Attachment : a[1] = c => ~Live(a)

ClientLeases == OneLeasePerClient /\ LeftHoldsNothing

(* The worker of a session: whatever attaches, removals, lost workers and  *)
(* shutdown do at the same time, a handle is opened only when the one      *)
(* before it is closed (or its close failed) or dead, with one exception.  *)
(* A session removed twice at a time has its handle closed twice, and when *)
(* one of the two calls returns early the session may be opened again      *)
(* while the other still closes it.  Two are never open.                   *)
RemovedTwice(h) ==
  \E q, r \in Removals :
    removed[q] = h /\ removed[r] = h /\ removal[q] = "done" /\ removal[r] = "closing"

OneHandlePerSession ==
  \A g, h \in Hosting :
    /\ handle[g] \in {"open", "closing"} /\ handle[h] \in {"open", "closing"}
    /\ g[1] = h[1] /\ g[2] < h[2]
    => handle[g] = "closing" /\ RemovedTwice(g)

Removing(h) == \E r \in Removals : removed[r] = h

(* A lease is given back only after the calls admitted on it have settled. *)
(* What is admitted during the release itself is a call on a session that  *)
(* somebody removes or that has lost its worker; a client's own detach,    *)
(* switch or disconnect admits none.                                       *)
DrainedBeforeRelease ==
  \A a \in Attachment :
    /\ releasing[a] \in {"releasing", "done", "failed"} => calls[a] = 0
    /\ late[a] > 0 => \/ Removing(session[a])
                      \/ hostedSessions[session[a][1]] # session[a]

(* What a client was last told is its live route.  It is wrong only when   *)
(* the route went quietly: with the connection, with the router, or in a   *)
(* switch whose second half has not happened.                              *)
RouteIsTold ==
  \A c \in Clients :
    /\ attachmentsByClient[c] # None => told[c] = attachmentsByClient[c]
    /\ told[c] # None /\ attachmentsByClient[c] = None => told[c] \in quiet \/ closer = "done"

(* A lease that nobody has begun to release is one on a hosted session,    *)
(* unless a removal of the session is through: one granted while the       *)
(* removal closes the handle is found by nobody.                           *)
StrandedByRemovalOnly ==
  \A a \in Attachment :
    lease[a] = "held" /\ releasing[a] = "no" /\ hostedSessions[session[a][1]] # session[a]
      => \E r \in Removals : removal[r] = "done" /\ removed[r] = session[a]
============================================================================
