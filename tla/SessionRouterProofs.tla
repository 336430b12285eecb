------------------------ MODULE SessionRouterProofs ------------------------
(***************************************************************************)
(* Proofs about SessionRouter, for any number of clients, sessions,        *)
(* requests, handles, calls and failures.                                  *)
(***************************************************************************)
EXTENDS SessionRouter, SequenceTheorems, TLAPS

(* What an operation has in its hands at each of its awaits.               *)
Attaching == {"acquiring", "acquired", "switching", "attaching", "undoing"}

Placed(c) ==
  /\ pc[c] \in Attaching => clientOperations[c] # <<>> /\ This(c).op = "attach"
  /\ pc[c] = "detaching" => clientOperations[c] # <<>> /\ This(c).op = "detach"
  /\ pc[c] = "leaving" => clientOperations[c] # <<>> /\ This(c).op = "disconnect"
  /\ pc[c] \in {"acquired", "switching"} => got[c] \in Hosting
  /\ pc[c] \in {"switching", "attaching", "undoing", "detaching", "leaving"} =>
       current[c] \in Attachment

Typed == TypeOK /\ \A c \in Clients : Placed(c)

----------------------------------------------------------------------------
(* Queues of operations *)

LEMMA Chained ==
  ASSUME NEW q \in Seq(Operation), NEW o \in Operation
  PROVE  /\ Append(q, o) \in Seq(Operation) /\ Append(q, o) # <<>>
         /\ Len(Append(q, o)) = Len(q) + 1
         /\ \A i \in 1..Len(q) : Append(q, o)[i] = q[i]
         /\ Append(q, o)[Len(q) + 1] = o
         /\ q # <<>> => Head(Append(q, o)) = Head(q)
<1>1. /\ Append(q, o) \in Seq(Operation) /\ Append(q, o) # <<>>
      /\ Len(Append(q, o)) = Len(q) + 1
      /\ \A i \in 1..Len(q) : Append(q, o)[i] = q[i]
      /\ Append(q, o)[Len(q) + 1] = o
  BY AppendProperties
<1>2. ASSUME q # <<>> PROVE Head(Append(q, o)) = Head(q)
  <2>1. Len(q) \in Nat /\ Len(q) # 0
    BY <1>2, EmptySeq, LenProperties
  <2>2. Head(q) = q[1] /\ Head(Append(q, o)) = Append(q, o)[1]
    BY <1>1, <1>2, HeadTailProperties
  <2> QED
    BY <1>1, <2>1, <2>2
<1> QED
  BY <1>1, <1>2

LEMMA Shortened ==
  ASSUME NEW q \in Seq(Operation), q # <<>>
  PROVE  /\ Head(q) \in Operation /\ Tail(q) \in Seq(Operation) /\ Len(Tail(q)) = Len(q) - 1
         /\ \A i \in 1..Len(Tail(q)) : Tail(q)[i] = q[i + 1]
  OBVIOUS

LEMMA AttachOperation ==
  ASSUME NEW o \in Operation
  PROVE  /\ o.op = "attach" => o.to \in Sessions /\ o.n \in 1..MaxOps
         /\ o.op = "call" => o.to \in Attachment
         /\ o.n \in 0..MaxOps
  BY BoundsAssumption DEF Operation

LEMMA Requested ==
  ASSUME NEW n \in 1..MaxOps
  PROVE  /\ \A s \in Sessions : [op |-> "attach", to |-> s, n |-> n] \in Operation
         /\ \A a \in Attachment : [op |-> "call", to |-> a, n |-> n] \in Operation
         /\ [op |-> "detach", to |-> None, n |-> n] \in Operation
  BY BoundsAssumption DEF Operation

LEMMA DisconnectRequested == [op |-> "disconnect", to |-> None, n |-> 0] \in Operation
  BY BoundsAssumption DEF Operation
----------------------------------------------------------------------------
(* Types *)

ClientsTyped ==
  /\ clientOperations \in [Clients -> Seq(Operation)]
  /\ pc \in [Clients -> {"idle", "left", "acquiring", "acquired", "switching", "attaching",
                         "undoing", "detaching", "leaving"}]
  /\ got \in [Clients -> Hosting \cup {None}]
  /\ current \in [Clients -> Attachment \cup {None}]
  /\ settling \in [Clients -> Nat]

LEMMA EndsTyped ==
  ASSUME ClientsTyped, \A d \in Clients : Placed(d), NEW c \in Clients,
         clientOperations[c] # <<>>, NEW at \in {"idle", "left"}, Ends(c, at)
  PROVE  ClientsTyped' /\ \A d \in Clients : Placed(d)'
<1>1. Tail(clientOperations[c]) \in Seq(Operation)
  BY Shortened DEF ClientsTyped
<1>2. ClientsTyped'
  BY <1>1 DEF ClientsTyped, Ends
<1>3. ASSUME NEW d \in Clients PROVE Placed(d)'
  <2>1. CASE d = c
    BY <2>1 DEF Placed, ClientsTyped, Ends, Attaching
  <2>2. CASE d # c
    BY <2>2 DEF Placed, ClientsTyped, Ends, This
  <2> QED
    BY <2>1, <2>2
<1> QED
  BY <1>2, <1>3

LEMMA GoesTyped ==
  ASSUME ClientsTyped, \A d \in Clients : Placed(d), NEW c \in Clients,
         clientOperations[c] # <<>>,
         NEW at \in {"acquiring", "acquired", "switching", "attaching", "undoing",
                     "detaching", "leaving"},
         NEW h \in Hosting \cup {None}, NEW a \in Attachment \cup {None}, Goes(c, at, h, a),
         at \in Attaching => This(c).op = "attach",
         at = "detaching" => This(c).op = "detach",
         at = "leaving" => This(c).op = "disconnect",
         at \in {"acquired", "switching"} => h \in Hosting,
         at \notin {"acquiring", "acquired"} => a \in Attachment
  PROVE  ClientsTyped' /\ \A d \in Clients : Placed(d)'
<1>1. ClientsTyped'
  BY DEF ClientsTyped, Goes
<1>2. ASSUME NEW d \in Clients PROVE Placed(d)'
  <2>1. CASE d = c
    BY <2>1 DEF Placed, ClientsTyped, Goes, Attaching, This
  <2>2. CASE d # c
    BY <2>2 DEF Placed, ClientsTyped, Goes, This
  <2> QED
    BY <2>1, <2>2
<1> QED
  BY <1>1, <1>2

LEMMA ChainTyped ==
  ASSUME ClientsTyped, \A d \in Clients : Placed(d), NEW c \in Clients,
         NEW o \in Operation, Chain(c, o), UNCHANGED <<pc, got, current, settling>>
  PROVE  ClientsTyped' /\ \A d \in Clients : Placed(d)'
<1>1. /\ Append(clientOperations[c], o) \in Seq(Operation)
      /\ Append(clientOperations[c], o) # <<>>
      /\ clientOperations[c] # <<>> =>
           Head(Append(clientOperations[c], o)) = Head(clientOperations[c])
  BY Chained DEF ClientsTyped
<1>2. ClientsTyped'
  BY <1>1 DEF ClientsTyped, Chain
<1>3. ASSUME NEW d \in Clients PROVE Placed(d)'
  <2>1. CASE d = c
    BY <1>1, <2>1 DEF Placed, ClientsTyped, Chain, This
  <2>2. CASE d # c
    BY <2>2 DEF Placed, ClientsTyped, Chain, This
  <2> QED
    BY <2>1, <2>2
<1> QED
  BY <1>2, <1>3
LEMMA ReleaseTyped ==
  ASSUME NEW S \in SUBSET Attachment, NEW silent \in BOOLEAN, Release(S, silent),
         releasing \in [Attachment -> {"no", "draining", "releasing", "done", "failed"}],
         quiet \subseteq Attachment
  PROVE  /\ releasing' \in [Attachment -> {"no", "draining", "releasing", "done", "failed"}]
         /\ quiet' \subseteq Attachment
  BY DEF Release

LEMMA AttachmentsTyped == \A h : AttachmentsOf(h) \subseteq Attachment
  BY DEF AttachmentsOf

RestTyped ==
  /\ closing \in BOOLEAN /\ issued \in 0..MaxOps
  /\ closer \in {"no", "settling", "releasing", "closing", "done"}
  /\ hostedSessions \in [Sessions -> Hosting \cup {None}]
  /\ openingSessions \in [Sessions -> {"no", "opening", "draining"}]
  /\ handle \in [Hosting -> {"none", "open", "closing", "closed", "failed", "dead"}]
  /\ lost \subseteq Clients /\ disconnectedClients \subseteq lost
  /\ session \in [Attachment -> Hosting \cup {None}]
  /\ attachmentsByClient \in [Clients -> Attachment \cup {None}]
  /\ told \in [Clients -> Attachment \cup {None}]
  /\ lease \in [Attachment -> {"none", "acquiring", "held", "refused", "released"}]
  /\ releasing \in [Attachment -> {"no", "draining", "releasing", "done", "failed"}]
  /\ quiet \subseteq Attachment /\ closingWaits \subseteq Attachment
  /\ calls \in [Attachment -> Nat] /\ late \in [Attachment -> Nat]
  /\ removal \in [Removals -> {"no", "releasing", "closing", "done"}]
  /\ removed \in [Removals -> Hosting \cup {None}]
  /\ waiting \in [Removals -> SUBSET Attachment] /\ closingHosts \subseteq Hosting

LEMMA TypeParts == TypeOK <=> ClientsTyped /\ RestTyped /\ fails \in 0..MaxFails
  BY DEF TypeOK, ClientsTyped, RestTyped

LEMMA TypedParts ==
  ClientsTyped' /\ RestTyped' /\ fails' \in 0..MaxFails /\ (\A c \in Clients : Placed(c)') => Typed'
<1>1. ClientsTyped' /\ RestTyped' /\ fails' \in 0..MaxFails => TypeOK'
  BY DEF TypeOK, ClientsTyped, RestTyped
<1> QED
  BY <1>1 DEF Typed

LEMMA OpenEndsTyped ==
  ASSUME ClientsTyped, \A d \in Clients : Placed(d), NEW s \in Sessions, OpenEnds(s)
  PROVE  ClientsTyped' /\ \A d \in Clients : Placed(d)'
<1>1. ASSUME NEW c \in Clients, c \in Opening(s)
      PROVE  Tail(clientOperations[c]) \in Seq(Operation)
  BY <1>1, Shortened DEF ClientsTyped, Opening, Placed, Attaching
<1>2. \A c \in Clients : settling[c] \in Nat /\ (settling[c] > 0 => settling[c] - 1 \in Nat)
  BY DEF ClientsTyped
<1>3. ClientsTyped'
  BY <1>1, <1>2 DEF ClientsTyped, OpenEnds
<1>4. \A d \in Clients : Placed(d)'
  BY DEF OpenEnds, Placed, ClientsTyped, This, Attaching
<1> QED
  BY <1>3, <1>4

LEMMA TypedStep ==
  ASSUME Typed, Next
  PROVE  ClientsTyped' /\ RestTyped' /\ \A d \in Clients : Placed(d)'
<1> USE DEF hostVars, requestVars, clientVars, routeVars, releaseVars, callVars, removeVars,
            closeVars
<1>t. ClientsTyped /\ RestTyped /\ \A d \in Clients : Placed(d)
  BY TypeParts DEF Typed
<1>u. ASSUME UNCHANGED <<clientOperations, pc, got, current, settling>>
      PROVE  ClientsTyped' /\ \A d \in Clients : Placed(d)'
  BY <1>t, <1>u DEF ClientsTyped, Placed, This
<1>1. ASSUME NEW c \in Clients, NEW s \in Sessions, AttachClient(c, s)
      PROVE  ClientsTyped' /\ RestTyped' /\ \A d \in Clients : Placed(d)'
  <2>0. issued + 1 \in 1..MaxOps
    BY <1>t, <1>1, BoundsAssumption DEF AttachClient, Request, RestTyped
  <2>1. [op |-> "attach", to |-> s, n |-> issued + 1] \in Operation
    BY <2>0, Requested
  <2>2. /\ Chain(c, [op |-> "attach", to |-> s, n |-> issued + 1])
        /\ UNCHANGED <<pc, got, current, settling>>
    BY <1>1 DEF AttachClient, Request
  <2>3. ClientsTyped' /\ \A d \in Clients : Placed(d)'
    BY <1>t, <2>1, <2>2, ChainTyped
  <2>4. RestTyped'
    BY <1>t, <1>1, BoundsAssumption DEF AttachClient, Request, RestTyped
  <2> QED
    BY <2>3, <2>4
<1>2. ASSUME NEW c \in Clients, DetachClient(c)
      PROVE  ClientsTyped' /\ RestTyped' /\ \A d \in Clients : Placed(d)'
  <2>0. issued + 1 \in 1..MaxOps
    BY <1>t, <1>2, BoundsAssumption DEF DetachClient, Request, RestTyped
  <2>1. [op |-> "detach", to |-> None, n |-> issued + 1] \in Operation
    BY <2>0, Requested
  <2>2. /\ Chain(c, [op |-> "detach", to |-> None, n |-> issued + 1])
        /\ UNCHANGED <<pc, got, current, settling>>
    BY <1>2 DEF DetachClient, Request
  <2>3. ClientsTyped' /\ \A d \in Clients : Placed(d)'
    BY <1>t, <2>1, <2>2, ChainTyped
  <2>4. RestTyped'
    BY <1>t, <1>2, BoundsAssumption DEF DetachClient, Request, RestTyped
  <2> QED
    BY <2>3, <2>4
<1>3. ASSUME NEW c \in Clients, ExecuteServiceCall(c)
      PROVE  ClientsTyped' /\ RestTyped' /\ \A d \in Clients : Placed(d)'
  <2>0. issued + 1 \in 1..MaxOps /\ told[c] \in Attachment
    BY <1>t, <1>3, BoundsAssumption DEF ExecuteServiceCall, Request, RestTyped
  <2>1. [op |-> "call", to |-> told[c], n |-> issued + 1] \in Operation
    BY <2>0, Requested
  <2>2. /\ Chain(c, [op |-> "call", to |-> told[c], n |-> issued + 1])
        /\ UNCHANGED <<pc, got, current, settling>>
    BY <1>3 DEF ExecuteServiceCall, Request
  <2>3. ClientsTyped' /\ \A d \in Clients : Placed(d)'
    BY <1>t, <2>1, <2>2, ChainTyped
  <2>4. RestTyped'
    BY <1>t, <1>3, BoundsAssumption DEF ExecuteServiceCall, Request, RestTyped
  <2> QED
    BY <2>3, <2>4
<1>4. ASSUME NEW c \in Clients, Disconnect(c)
      PROVE  ClientsTyped' /\ RestTyped' /\ \A d \in Clients : Placed(d)'
  <2>1. ClientsTyped' /\ \A d \in Clients : Placed(d)'
    BY <1>t, <1>4, ChainTyped, DisconnectRequested DEF Disconnect
  <2>2. RestTyped'
    BY <1>t, <1>4 DEF Disconnect, RestTyped
  <2> QED
    BY <2>1, <2>2
<1>5. ASSUME NEW c \in Clients, AttachReturns(c)
      PROVE  ClientsTyped' /\ RestTyped' /\ \A d \in Clients : Placed(d)'
  <2>1. clientOperations[c] # <<>> /\ Ends(c, "idle")
    BY <1>t, <1>5 DEF AttachReturns, Starts, Placed, Attaching
  <2>2. ClientsTyped' /\ \A d \in Clients : Placed(d)'
    BY <1>t, <2>1, EndsTyped
  <2>3. RestTyped'
    BY <1>t, <1>5 DEF AttachReturns, RestTyped
  <2> QED
    BY <2>2, <2>3
<1>6. ASSUME NEW c \in Clients, Acquire(c)
      PROVE  ClientsTyped' /\ RestTyped' /\ \A d \in Clients : Placed(d)'
  <2> DEFINE s == This(c).to
  <2>1. s \in Sessions /\ clientOperations[c] # <<>> /\ This(c).op = "attach"
    BY <1>t, <1>6, Shortened, AttachOperation DEF Acquire, Starts, This, ClientsTyped
  <2>2. CASE hostedSessions[s] # None
    <3>1. /\ Goes(c, "acquired", hostedSessions[s], attachmentsByClient[c])
          /\ hostedSessions[s] \in Hosting /\ attachmentsByClient[c] \in Attachment \cup {None}
      BY <1>t, <1>6, <2>1, <2>2 DEF Acquire, RestTyped
    <3> QED
      BY <1>t, <1>6, <2>1, <2>2, <3>1, GoesTyped DEF Acquire, RestTyped, Attaching
  <2>3. CASE hostedSessions[s] = None
    <3>1. /\ Goes(c, "acquiring", None, attachmentsByClient[c])
          /\ attachmentsByClient[c] \in Attachment \cup {None}
      BY <1>t, <1>6, <2>1, <2>3 DEF Acquire, RestTyped
    <3>2. ClientsTyped' /\ \A d \in Clients : Placed(d)'
      BY <1>t, <2>1, <3>1, GoesTyped DEF Attaching
    <3>3. openingSessions' =
            [openingSessions EXCEPT ![s] = IF @ = "no" THEN "opening" ELSE @]
      BY <1>6, <2>3 DEF Acquire
    <3>4. RestTyped'
      BY <1>t, <1>6, <2>1, <3>3 DEF Acquire, RestTyped
    <3> QED
      BY <3>2, <3>4
  <2> QED
    BY <2>2, <2>3
<1>7. ASSUME NEW c \in Clients, AcquiredTooLate(c)
      PROVE  ClientsTyped' /\ RestTyped' /\ \A d \in Clients : Placed(d)'
  <2>1. clientOperations[c] # <<>> /\ Ends(c, "idle")
    BY <1>t, <1>7 DEF AcquiredTooLate, Starts, Placed, Attaching
  <2>2. ClientsTyped' /\ \A d \in Clients : Placed(d)'
    BY <1>t, <2>1, EndsTyped
  <2>3. RestTyped'
    BY <1>t, <1>7 DEF AcquiredTooLate, RestTyped
  <2> QED
    BY <2>2, <2>3
<1>8. ASSUME NEW c \in Clients, SwitchFrom(c)
      PROVE  ClientsTyped' /\ RestTyped' /\ \A d \in Clients : Placed(d)'
  <2>1. /\ clientOperations[c] # <<>> /\ Goes(c, "switching", got[c], current[c])
        /\ got[c] \in Hosting \cup {None} /\ current[c] \in Attachment \cup {None}
    BY <1>t, <1>8 DEF SwitchFrom, Starts, Placed, Attaching, RestTyped, ClientsTyped
  <2>2. ClientsTyped' /\ \A d \in Clients : Placed(d)'
    BY <1>t, <1>8, <2>1, GoesTyped DEF SwitchFrom, Starts, Placed, Attaching, This, RestTyped
  <2>3. RestTyped'
    BY <1>t, <1>8, ReleaseTyped, BoundsAssumption DEF SwitchFrom, RestTyped, ClientsTyped, Release
  <2> QED
    BY <2>2, <2>3
<1>9. ASSUME NEW c \in Clients, AttachTo(c)
      PROVE  ClientsTyped' /\ RestTyped' /\ \A d \in Clients : Placed(d)'
  <2> DEFINE a == <<c, This(c).n>>
  <2>1. /\ clientOperations[c] # <<>> /\ This(c).op = "attach" /\ got[c] \in Hosting
        /\ Goes(c, "attaching", None, a)
    BY <1>t, <1>9 DEF AttachTo, MakeAttachment, Placed, Attaching
  <2>2. a \in Attachment
    BY <1>t, <2>1, Shortened, AttachOperation DEF This, ClientsTyped, Attachment
  <2>3. ClientsTyped' /\ \A d \in Clients : Placed(d)'
    BY <1>t, <2>1, <2>2, GoesTyped
  <2>4. RestTyped'
    BY <1>t, <1>9, <2>1, <2>2 DEF AttachTo, MakeAttachment, RestTyped
  <2> QED
    BY <2>3, <2>4
<1>10. ASSUME NEW c \in Clients, LeaseGranted(c)
      PROVE  ClientsTyped' /\ RestTyped' /\ \A d \in Clients : Placed(d)'
  <2>1. clientOperations[c] # <<>> /\ This(c).op = "attach" /\ current[c] \in Attachment
    BY <1>t, <1>10 DEF LeaseGranted, Placed, Attaching
  <2>2. CASE Ends(c, "idle") /\ UNCHANGED releaseVars
    <3>1. ClientsTyped' /\ \A d \in Clients : Placed(d)'
      BY <1>t, <2>1, <2>2, EndsTyped
    <3> QED
      BY <1>t, <1>10, <2>1, <2>2, <3>1 DEF LeaseGranted, RestTyped
  <2>3. CASE Release({current[c]}, FALSE) /\ Goes(c, "undoing", None, current[c])
    <3>1. ClientsTyped' /\ \A d \in Clients : Placed(d)'
      BY <1>t, <2>1, <2>3, GoesTyped DEF Attaching
    <3>2. /\ releasing' \in [Attachment -> {"no", "draining", "releasing", "done", "failed"}]
          /\ quiet' \subseteq Attachment
      BY <1>t, <2>1, <2>3, ReleaseTyped DEF RestTyped
    <3>3. /\ lease' \in [Attachment -> {"none", "acquiring", "held", "refused", "released"}]
          /\ attachmentsByClient' \in [Clients -> Attachment \cup {None}]
          /\ told' \in [Clients -> Attachment \cup {None}]
      BY <1>t, <1>10, <2>1 DEF LeaseGranted, RestTyped
    <3>4. UNCHANGED <<hostVars, requestVars, disconnectedClients, session, callVars, removeVars, closeVars>>
      BY <1>10 DEF LeaseGranted
    <3>5. RestTyped'
      BY <1>t, <3>2, <3>3, <3>4 DEF RestTyped
    <3> QED
      BY <3>1, <3>5
  <2> QED
    BY <1>10, <2>2, <2>3 DEF LeaseGranted
<1>11. ASSUME NEW c \in Clients, LeaseRefused(c)
      PROVE  ClientsTyped' /\ RestTyped' /\ \A d \in Clients : Placed(d)'
  <2>1. clientOperations[c] # <<>> /\ Ends(c, "idle")
    BY <1>t, <1>11 DEF LeaseRefused, Starts, Placed, Attaching
  <2>2. ClientsTyped' /\ \A d \in Clients : Placed(d)'
    BY <1>t, <2>1, EndsTyped
  <2>3. RestTyped'
    BY <1>t, <1>11 DEF LeaseRefused, RestTyped
  <2> QED
    BY <2>2, <2>3
<1>12. ASSUME NEW c \in Clients, ReleaseAwaited(c)
      PROVE  ClientsTyped' /\ RestTyped' /\ \A d \in Clients : Placed(d)'
  <2>1. clientOperations[c] # <<>> /\ Ends(c, "idle")
    BY <1>t, <1>12 DEF ReleaseAwaited, Starts, Placed, Attaching
  <2>2. ClientsTyped' /\ \A d \in Clients : Placed(d)'
    BY <1>t, <2>1, EndsTyped
  <2>3. RestTyped'
    BY <1>t, <1>12 DEF ReleaseAwaited, RestTyped
  <2> QED
    BY <2>2, <2>3
<1>13. ASSUME NEW c \in Clients, Detach(c)
      PROVE  ClientsTyped' /\ RestTyped' /\ \A d \in Clients : Placed(d)'
  <2>1. /\ clientOperations[c] # <<>> /\ Goes(c, "detaching", None, attachmentsByClient[c])
        /\ None \in Hosting \cup {None} /\ attachmentsByClient[c] \in Attachment \cup {None}
    BY <1>t, <1>13 DEF Detach, Starts, Placed, Attaching, RestTyped, ClientsTyped
  <2>2. attachmentsByClient[c] \in Attachment /\ This(c).op = "detach"
    BY <1>13, <2>1 DEF Detach, Starts, This
  <2>3. ClientsTyped' /\ \A d \in Clients : Placed(d)'
    BY <1>t, <2>1, <2>2, GoesTyped DEF Attaching
  <2>4. RestTyped'
    BY <1>t, <1>13 DEF Detach, RestTyped, Release
  <2> QED
    BY <2>3, <2>4
<1>14. ASSUME NEW c \in Clients, NothingToDetach(c)
      PROVE  ClientsTyped' /\ RestTyped' /\ \A d \in Clients : Placed(d)'
  <2>1. clientOperations[c] # <<>> /\ Ends(c, "idle")
    BY <1>t, <1>14 DEF NothingToDetach, Starts, Placed, Attaching
  <2>2. ClientsTyped' /\ \A d \in Clients : Placed(d)'
    BY <1>t, <2>1, EndsTyped
  <2>3. RestTyped'
    BY <1>t, <1>14 DEF NothingToDetach, RestTyped
  <2> QED
    BY <2>2, <2>3
<1>15. ASSUME NEW c \in Clients, Leave(c)
      PROVE  ClientsTyped' /\ RestTyped' /\ \A d \in Clients : Placed(d)'
  <2>1. /\ clientOperations[c] # <<>> /\ Goes(c, "leaving", None, attachmentsByClient[c])
        /\ None \in Hosting \cup {None} /\ attachmentsByClient[c] \in Attachment \cup {None}
    BY <1>t, <1>15 DEF Leave, Starts, Placed, Attaching, RestTyped, ClientsTyped
  <2>2. attachmentsByClient[c] \in Attachment /\ This(c).op = "disconnect"
    BY <1>15, <2>1 DEF Leave, Starts, This
  <2>3. ClientsTyped' /\ \A d \in Clients : Placed(d)'
    BY <1>t, <2>1, <2>2, GoesTyped DEF Attaching
  <2>4. RestTyped'
    BY <1>t, <1>15 DEF Leave, RestTyped, Release
  <2> QED
    BY <2>3, <2>4
<1>16. ASSUME NEW c \in Clients, Left(c)
      PROVE  ClientsTyped' /\ RestTyped' /\ \A d \in Clients : Placed(d)'
  <2>1. clientOperations[c] # <<>> /\ Ends(c, "left")
    BY <1>t, <1>16 DEF Left, Starts, Placed, Attaching
  <2>2. ClientsTyped' /\ \A d \in Clients : Placed(d)'
    BY <1>t, <2>1, EndsTyped
  <2>3. RestTyped'
    BY <1>t, <1>16 DEF Left, RestTyped
  <2> QED
    BY <2>2, <2>3
<1>17. ASSUME NEW c \in Clients, StartServiceCall(c)
      PROVE  ClientsTyped' /\ RestTyped' /\ \A d \in Clients : Placed(d)'
  <2>1. /\ clientOperations[c] # <<>> /\ Ends(c, "idle")
        /\ This(c) \in Operation /\ This(c).op = "call"
    BY <1>t, <1>17, Shortened DEF StartServiceCall, Starts, This, ClientsTyped
  <2>2. This(c).to \in Attachment
    BY <2>1, AttachOperation
  <2>3. ClientsTyped' /\ \A d \in Clients : Placed(d)'
    BY <1>t, <2>1, EndsTyped
  <2>4. RestTyped'
    BY <1>t, <1>17, <2>2 DEF StartServiceCall, RestTyped
  <2> QED
    BY <2>3, <2>4
<1>18. ASSUME NEW c \in Clients, CallRejected(c)
      PROVE  ClientsTyped' /\ RestTyped' /\ \A d \in Clients : Placed(d)'
  <2>1. clientOperations[c] # <<>> /\ Ends(c, "idle")
    BY <1>t, <1>18 DEF CallRejected, Starts, Placed, Attaching
  <2>2. ClientsTyped' /\ \A d \in Clients : Placed(d)'
    BY <1>t, <2>1, EndsTyped
  <2>3. RestTyped'
    BY <1>t, <1>18 DEF CallRejected, RestTyped
  <2> QED
    BY <2>2, <2>3
<1>19. ASSUME NEW a \in Attachment, CallSettles(a)
      PROVE  ClientsTyped' /\ RestTyped' /\ \A d \in Clients : Placed(d)'
  <2>1. UNCHANGED <<clientOperations, pc, got, current, settling>>
    BY <1>19 DEF CallSettles
  <2>2. RestTyped'
    BY <1>t, <1>19 DEF CallSettles, RestTyped
  <2> QED
    BY <1>u, <2>1, <2>2
<1>20. ASSUME NEW s \in Sessions, NEW h \in Hosting, OpenSucceeds(s, h)
      PROVE  ClientsTyped' /\ RestTyped' /\ \A d \in Clients : Placed(d)'
  <2>1. ClientsTyped'
    BY <1>t, <1>20 DEF OpenSucceeds, ClientsTyped
  <2>2. \A d \in Clients : Placed(d)'
    BY <1>t, <1>20 DEF OpenSucceeds, Opening, Placed, ClientsTyped, This, Attaching
  <2>3. RestTyped'
    BY <1>t, <1>20 DEF OpenSucceeds, RestTyped
  <2> QED
    BY <2>1, <2>2, <2>3
<1>21. ASSUME NEW s \in Sessions, NEW h \in Hosting, OpenedWhileClosing(s, h)
      PROVE  ClientsTyped' /\ RestTyped' /\ \A d \in Clients : Placed(d)'
  <2>1. UNCHANGED <<clientOperations, pc, got, current, settling>>
    BY <1>21 DEF OpenedWhileClosing
  <2>2. RestTyped'
    BY <1>t, <1>21 DEF OpenedWhileClosing, RestTyped
  <2> QED
    BY <1>u, <2>1, <2>2
<1>22. ASSUME NEW s \in Sessions, OpenFails(s)
      PROVE  ClientsTyped' /\ RestTyped' /\ \A d \in Clients : Placed(d)'
  <2>1. ClientsTyped' /\ \A d \in Clients : Placed(d)'
    BY <1>t, <1>22, OpenEndsTyped DEF OpenFails
  <2>2. RestTyped'
    BY <1>t, <1>22 DEF OpenFails, OpenEnds, RestTyped
  <2> QED
    BY <2>1, <2>2
<1>23. ASSUME NEW s \in Sessions, NEW h \in Hosting, NEW r \in {"closed", "failed"}, OpenDrained(s, h, r)
      PROVE  ClientsTyped' /\ RestTyped' /\ \A d \in Clients : Placed(d)'
  <2>1. ClientsTyped' /\ \A d \in Clients : Placed(d)'
    BY <1>t, <1>23, OpenEndsTyped DEF OpenDrained
  <2>2. RestTyped'
    BY <1>t, <1>23 DEF OpenDrained, OpenEnds, RestTyped
  <2> QED
    BY <2>1, <2>2
<1>24. ASSUME NEW a \in Attachment, Drained(a)
      PROVE  ClientsTyped' /\ RestTyped' /\ \A d \in Clients : Placed(d)'
  <2>1. UNCHANGED <<clientOperations, pc, got, current, settling>>
    BY <1>24 DEF Drained
  <2>2. RestTyped'
    BY <1>t, <1>24 DEF Drained, RestTyped
  <2> QED
    BY <1>u, <2>1, <2>2
<1>25. ASSUME NEW a \in Attachment, NothingToRelease(a)
      PROVE  ClientsTyped' /\ RestTyped' /\ \A d \in Clients : Placed(d)'
  <2>1. UNCHANGED <<clientOperations, pc, got, current, settling>>
    BY <1>25 DEF NothingToRelease, Clear
  <2>2. RestTyped'
    BY <1>t, <1>25 DEF NothingToRelease, RestTyped, Clear
  <2> QED
    BY <1>u, <2>1, <2>2
<1>26. ASSUME NEW a \in Attachment, NEW r \in {"done", "failed"}, LeaseReleased(a, r)
      PROVE  ClientsTyped' /\ RestTyped' /\ \A d \in Clients : Placed(d)'
  <2>1. UNCHANGED <<clientOperations, pc, got, current, settling>>
    BY <1>26 DEF LeaseReleased, Clear
  <2>2. RestTyped'
    BY <1>t, <1>26 DEF LeaseReleased, RestTyped, Clear
  <2> QED
    BY <1>u, <2>1, <2>2
<1>27. ASSUME NEW q \in Removals, NEW s \in Sessions, RemoveSession(q, s)
      PROVE  ClientsTyped' /\ RestTyped' /\ \A d \in Clients : Placed(d)'
  <2>1. UNCHANGED <<clientOperations, pc, got, current, settling>>
    BY <1>27 DEF RemoveSession, Release
  <2>2. RestTyped'
    BY <1>t, <1>27, AttachmentsTyped, BoundsAssumption DEF RemoveSession, RestTyped, Release
  <2> QED
    BY <1>u, <2>1, <2>2
<1>28. ASSUME NEW q \in Removals, RemoveCloses(q)
      PROVE  ClientsTyped' /\ RestTyped' /\ \A d \in Clients : Placed(d)'
  <2>1. UNCHANGED <<clientOperations, pc, got, current, settling>>
    BY <1>28 DEF RemoveCloses
  <2>2. RestTyped'
    BY <1>t, <1>28 DEF RemoveCloses, RestTyped
  <2> QED
    BY <1>u, <2>1, <2>2
<1>29. ASSUME NEW q \in Removals, NEW r \in {"closed", "failed"}, RemoveEnds(q, r)
      PROVE  ClientsTyped' /\ RestTyped' /\ \A d \in Clients : Placed(d)'
  <2>1. UNCHANGED <<clientOperations, pc, got, current, settling>>
    BY <1>29 DEF RemoveEnds
  <2>2. RestTyped'
    BY <1>t, <1>29 DEF RemoveEnds, HandleEnds, RestTyped
  <2> QED
    BY <1>u, <2>1, <2>2
<1>30. ASSUME NEW s \in Sessions, NEW T, Invalidate(s, T)
      PROVE  ClientsTyped' /\ RestTyped' /\ \A d \in Clients : Placed(d)'
  <2>1. UNCHANGED <<clientOperations, pc, got, current, settling>>
    BY <1>30 DEF Invalidate, Release
  <2>2. RestTyped'
    BY <1>t, <1>30 DEF Invalidate, RestTyped, Release
  <2> QED
    BY <1>u, <2>1, <2>2
<1>31. ASSUME BeginClosing
      PROVE  ClientsTyped' /\ RestTyped' /\ \A d \in Clients : Placed(d)'
  <2>1. UNCHANGED <<clientOperations, pc, got, current, settling>>
    BY <1>31 DEF BeginClosing
  <2>2. RestTyped'
    BY <1>t, <1>31 DEF BeginClosing, RestTyped
  <2> QED
    BY <1>u, <2>1, <2>2
<1>32. ASSUME Close
      PROVE  ClientsTyped' /\ RestTyped' /\ \A d \in Clients : Placed(d)'
  <2>1. ClientsTyped' /\ \A d \in Clients : Placed(d)'
    BY <1>t, <1>32, LenProperties DEF Close, ClientsTyped, Placed, This
  <2>2. RestTyped'
    BY <1>t, <1>32 DEF Close, RestTyped
  <2> QED
    BY <2>1, <2>2
<1>33. ASSUME CloseReleases
      PROVE  ClientsTyped' /\ RestTyped' /\ \A d \in Clients : Placed(d)'
  <2>1. UNCHANGED <<clientOperations, pc, got, current, settling>>
    BY <1>33 DEF CloseReleases, Release
  <2>2. RestTyped'
    BY <1>t, <1>33, AttachmentsTyped DEF CloseReleases, RestTyped, Release
  <2> QED
    BY <1>u, <2>1, <2>2
<1>34. ASSUME CloseHandles
      PROVE  ClientsTyped' /\ RestTyped' /\ \A d \in Clients : Placed(d)'
  <2>1. UNCHANGED <<clientOperations, pc, got, current, settling>>
    BY <1>34 DEF CloseHandles
  <2>2. RestTyped'
    BY <1>t, <1>34 DEF CloseHandles, Hosted, RestTyped
  <2> QED
    BY <1>u, <2>1, <2>2
<1>35. ASSUME NEW F \in SUBSET Hosted, CloseEnds(F)
      PROVE  ClientsTyped' /\ RestTyped' /\ \A d \in Clients : Placed(d)'
  <2>1. UNCHANGED <<clientOperations, pc, got, current, settling>>
    BY <1>35 DEF CloseEnds
  <2>2. RestTyped'
    BY <1>t, <1>35 DEF CloseEnds, RestTyped
  <2> QED
    BY <1>u, <2>1, <2>2
<1>36. ASSUME Stopped
      PROVE  ClientsTyped' /\ RestTyped' /\ \A d \in Clients : Placed(d)'
  BY <1>t, <1>u, <1>36 DEF Stopped, vars, RestTyped
<1> QED
  BY <1>1, <1>2, <1>3, <1>4, <1>5, <1>6, <1>7, <1>8, <1>9, <1>10, <1>11, <1>12, <1>13, <1>14, <1>15, <1>16, <1>17, <1>18, <1>19, <1>20, <1>21, <1>22, <1>23, <1>24, <1>25, <1>26, <1>27, <1>28, <1>29, <1>30, <1>31, <1>32, <1>33, <1>34, <1>35, <1>36
     DEF Next, Requests, Continues, Opens, Releases, Removes, Closes, Works, Failure

LEMMA TypedInit == Init => Typed
<1> USE BoundsAssumption
<1>1. ASSUME Init PROVE ClientsTyped /\ \A c \in Clients : Placed(c)
  <2>1. <<>> \in Seq(Operation)
    OBVIOUS
  <2>2. ClientsTyped
    BY <1>1, <2>1 DEF Init, ClientsTyped
  <2>3. \A c \in Clients : pc[c] = "idle"
    <3>1. pc = [c \in Clients |-> "idle"]
      BY <1>1 DEF Init
    <3> QED
      BY <3>1
  <2> QED
    BY <2>2, <2>3 DEF Placed, Attaching
<1>2. ASSUME Init PROVE RestTyped /\ fails \in 0..MaxFails
  <2>1. issued \in 0..MaxOps /\ fails \in 0..MaxFails
    BY <1>2 DEF Init
  <2>2. /\ calls \in [Attachment -> Nat] /\ late \in [Attachment -> Nat]
        /\ waiting \in [Removals -> SUBSET Attachment]
        /\ removed \in [Removals -> Hosting \cup {None}]
        /\ removal \in [Removals -> {"no", "releasing", "closing", "done"}]
    BY <1>2 DEF Init
  <2> QED
    BY <1>2, <2>1, <2>2 DEF Init, RestTyped
<1> QED
  BY <1>1, <1>2, TypeParts DEF Typed

LEMMA TypedNext == Typed /\ [Next]_vars => Typed'
<1> SUFFICES ASSUME Typed, [Next]_vars PROVE Typed'
  OBVIOUS
<1>1. CASE Next
  <2>1. fails \in 0..MaxFails
    BY TypeParts DEF Typed
  <2>2. \/ fails' = fails
        \/ fails < MaxFails /\ fails' = fails + 1
    BY <1>1 DEF Next, Stopped, vars
  <2>3. fails' \in 0..MaxFails
    BY <2>1, <2>2, BoundsAssumption
  <2> QED
    BY <1>1, <2>3, TypedStep, TypedParts
<1>2. CASE UNCHANGED vars
  BY <1>2 DEF Typed, TypeOK, Placed, This, vars, hostVars, requestVars, clientVars, routeVars,
              releaseVars, callVars, removeVars, closeVars
<1> QED
  BY <1>1, <1>2

(* Every variable has its type, and an operation that waits has in its     *)
(* hands what it goes on with: nothing the router does with a hosting or   *)
(* an attachment finds it undefined.                                       *)
THEOREM TypeCorrect == Spec => []TypeOK
<1>1. Typed => TypeOK
  BY DEF Typed
<1> QED
  BY TypedInit, TypedNext, <1>1, PTL DEF Spec

----------------------------------------------------------------------------
(* Handles.  A handle that works is the one its session is mapped to, or   *)
(* the one that a pending open of its session closes again, and then it is *)
(* the last one made; or it is being closed, by a second removal or for    *)
(* the shutdown, after which none is made.  A session has no open pending  *)
(* while it is mapped.                                                     *)

Working(h) == handle[h] \in {"open", "closing"}

Last(h) == \A g \in Hosting : g[1] = h[1] /\ g[2] > h[2] => handle[g] = "none"

MadeInOrder ==
  \A g, h \in Hosting : g[1] = h[1] /\ g[2] < h[2] /\ handle[h] # "none" => handle[g] # "none"

MappedAreMade ==
  \A s \in Sessions : hostedSessions[s] # None =>
    /\ hostedSessions[s] \in Hosting /\ hostedSessions[s][1] = s
    /\ handle[hostedSessions[s]] # "none" /\ Last(hostedSessions[s])
    /\ openingSessions[s] = "no"

Stopping == closer \in {"closing", "done"}

Leaving(h) == handle[h] = "closing" /\ (RemovedTwice(h) \/ (Stopping /\ Last(h)))

WorkingAreMapped ==
  \A h \in Hosting : Working(h) =>
    \/ hostedSessions[h[1]] = h
    \/ openingSessions[h[1]] = "draining" /\ Last(h)
    \/ Leaving(h)

RemovedAreClosed ==
  \A r \in Removals :
    /\ removal[r] = "no" => removed[r] = None
    /\ removal[r] # "no" => removed[r] \in Hosting /\ handle[removed[r]] # "none"
    /\ removal[r] = "closing" => handle[removed[r]] # "open"

ClosedAreClosed ==
  /\ closer # "no" => closing
  /\ closer \in {"releasing", "closing", "done"} =>
       \A s \in Sessions : openingSessions[s] = "no"
  /\ Stopping =>
       \A s \in Sessions : hostedSessions[s] # None => handle[hostedSessions[s]] # "open"
  /\ closer # "closing" => closingHosts = {}
  /\ \A h \in closingHosts : h \in Hosting /\ Last(h)

HandleInv ==
  MappedAreMade /\ WorkingAreMapped /\ MadeInOrder /\ RemovedAreClosed /\ ClosedAreClosed

\* Of two handles of a session that work, the earlier is not the last one made.
LEMMA OneHandle == HandleInv => OneHandlePerSession
<1> SUFFICES ASSUME HandleInv, NEW g \in Hosting, NEW h \in Hosting, Working(g), Working(h),
                    g[1] = h[1], g[2] < h[2]
             PROVE  handle[g] = "closing" /\ RemovedTwice(g)
  BY DEF OneHandlePerSession, Working
<1>1. ~Last(g)
  <2>1. handle[h] # "none"
    BY DEF Working
  <2>2. g[2] \in Nat /\ h[2] \in Nat
    BY BoundsAssumption DEF Hosting
  <2>3. h[2] > g[2]
    BY <2>2
  <2> QED
    BY <2>1, <2>3 DEF Last
<1>2. hostedSessions[g[1]] # g
  <2>1. g[1] \in Sessions /\ g # None
    BY BoundsAssumption DEF Hosting
  <2> QED
    BY <1>1, <2>1 DEF HandleInv, MappedAreMade
<1>3. Leaving(g)
  BY <1>1, <1>2 DEF HandleInv, WorkingAreMapped
<1> QED
  BY <1>1, <1>3 DEF Leaving

\* Steps that concern clients and attachments only, and what goes on besides.
LEMMA QuietStep ==
  ASSUME HandleInv,
         UNCHANGED <<hostedSessions, handle, removal, removed, closer, closingHosts>>,
         closing => closing',
         openingSessions' = openingSessions \/ ~closing,
         \A s \in Sessions : openingSessions'[s] = openingSessions[s] \/ hostedSessions[s] = None,
         \A s \in Sessions : openingSessions[s] # "no" => openingSessions'[s] = openingSessions[s]
  PROVE  HandleInv'
<1>l. \A h : Last(h)' <=> Last(h)
  BY DEF Last
<1>1. MappedAreMade'
  BY <1>l DEF HandleInv, MappedAreMade
<1>2. WorkingAreMapped'
  <2>1. \A h : Leaving(h)' <=> Leaving(h)
    BY <1>l DEF Leaving, RemovedTwice, Stopping
  <2> QED
    BY <1>l, <2>1 DEF HandleInv, WorkingAreMapped, Working, Hosting
<1>3. MadeInOrder' /\ RemovedAreClosed'
  BY DEF HandleInv, MadeInOrder, RemovedAreClosed
<1>4. ClosedAreClosed'
  BY <1>l DEF HandleInv, ClosedAreClosed, Stopping
<1> QED
  BY <1>1, <1>2, <1>3, <1>4 DEF HandleInv

\* A removal goes on; what two of them close stays closed twice, or is no longer at work.
RemovalsGoOn ==
  /\ \A r \in Removals :
       \/ removal'[r] = removal[r] /\ removed'[r] = removed[r]
       \/ removal[r] # "no" /\ removal'[r] \in {"closing", "done"} /\ removed'[r] = removed[r]
          /\ (removal'[r] = "closing" => handle'[removed[r]] # "open")
  /\ \A h \in Hosting : RemovedTwice(h) /\ handle'[h] = "closing" => Leaving(h)'

\* Handles that stop working, or begin to close, in sessions that stay mapped
\* or are taken off the map with their handle no longer at work, or leaving.
LEMMA StoppingStep ==
  ASSUME RestTyped, HandleInv,
         handle' \in [Hosting -> {"none", "open", "closing", "closed", "failed", "dead"}],
         \A h \in Hosting : /\ handle'[h] = "none" <=> handle[h] = "none"
                            /\ handle'[h] = "open" => handle[h] = "open"
                            /\ handle'[h] = "closing" => handle[h] \in {"open", "closing"},
         \A s \in Sessions :
           \/ hostedSessions'[s] = hostedSessions[s]
           \/ /\ hostedSessions'[s] = None
              /\ \A h \in Hosting : h = hostedSessions[s] /\ Working(h)' => Leaving(h)',
         \A s \in Sessions :
           \/ openingSessions'[s] = openingSessions[s]
           \/ /\ openingSessions'[s] = "no"
              /\ \A h \in Hosting : h[1] = s /\ Working(h)' => Leaving(h),
         RemovalsGoOn,
         closing' = closing,
         \/ closer' = closer
         \/ /\ closer \in {"releasing", "closing"} /\ closer' \in {"closing", "done"}
            /\ \A s \in Sessions : hostedSessions[s] # None => handle'[hostedSessions[s]] # "open",
         closer' # "closing" => closingHosts' = {},
         \A h \in closingHosts' : h \in closingHosts \/ \E s \in Sessions : h = hostedSessions[s] /\ h # None
  PROVE  HandleInv'
<1>l. \A h : Last(h) => Last(h)'
  BY DEF Last
<1>1. MappedAreMade'
  BY <1>l DEF HandleInv, MappedAreMade
<1>2. \A h \in Hosting : Working(h)' => Working(h)
  BY DEF Working
<1>s. Stopping => Stopping'
  BY DEF Stopping
<1>k. ASSUME NEW h \in Hosting, Leaving(h), Working(h)' PROVE Leaving(h)'
  <2>1. handle'[h] = "closing"
    BY <1>k DEF Leaving, Working
  <2>2. CASE RemovedTwice(h)
    BY <2>1, <2>2 DEF RemovalsGoOn
  <2>3. CASE Stopping /\ Last(h)
    BY <1>l, <1>s, <2>1, <2>3 DEF Leaving
  <2> QED
    BY <1>k, <2>2, <2>3 DEF Leaving
<1>3. WorkingAreMapped'
  <2> SUFFICES ASSUME NEW h \in Hosting, Working(h)'
               PROVE  \/ hostedSessions'[h[1]] = h
                      \/ openingSessions'[h[1]] = "draining" /\ Last(h)'
                      \/ Leaving(h)'
    BY DEF WorkingAreMapped
  <2>1. h[1] \in Sessions
    BY DEF Hosting
  <2>2. CASE hostedSessions[h[1]] = h
    BY <2>1, <2>2
  <2>3. CASE openingSessions[h[1]] = "draining" /\ Last(h)
    <3>1. CASE openingSessions'[h[1]] = openingSessions[h[1]]
      BY <1>l, <2>3, <3>1
    <3>2. CASE Leaving(h)
      BY <1>k, <3>2
    <3> QED
      BY <2>1, <3>1, <3>2
  <2>4. CASE Leaving(h)
    BY <1>k, <2>4
  <2> QED
    BY <1>2, <2>2, <2>3, <2>4 DEF HandleInv, WorkingAreMapped
<1>4. MadeInOrder'
  BY DEF HandleInv, MadeInOrder
<1>5. RemovedAreClosed'
  BY DEF HandleInv, RemovedAreClosed, RemovalsGoOn
<1>6. ClosedAreClosed'
  <2>1. closer' # "no" => closing'
    BY DEF HandleInv, ClosedAreClosed
  <2>2. ASSUME closer' \in {"closing", "done"}, NEW s \in Sessions, hostedSessions'[s] # None
        PROVE  handle'[hostedSessions'[s]] # "open"
    <3>1. hostedSessions'[s] = hostedSessions[s] /\ hostedSessions[s] \in Hosting
      BY <2>2 DEF HandleInv, MappedAreMade
    <3> QED
      BY <2>2, <3>1 DEF HandleInv, ClosedAreClosed, Stopping
  <2>3. closer' \in {"releasing", "closing", "done"} => \A s \in Sessions : openingSessions'[s] = "no"
    BY DEF HandleInv, ClosedAreClosed
  <2>4. \A h \in closingHosts' : h \in Hosting /\ Last(h)'
    BY <1>l DEF HandleInv, ClosedAreClosed, MappedAreMade
  <2> QED
    BY <2>1, <2>2, <2>3, <2>4 DEF ClosedAreClosed, Stopping
<1> QED
  BY <1>1, <1>3, <1>4, <1>5, <1>6 DEF HandleInv

\* A session whose open is pending has no handle at work but what others still close.
LEMMA NoneWhileOpening ==
  ASSUME HandleInv, NEW s \in Sessions, openingSessions[s] = "opening",
         NEW g \in Hosting, g[1] = s, Working(g)
  PROVE  Leaving(g)
<1>1. g # None
  BY BoundsAssumption DEF Hosting
<1> QED
  BY <1>1 DEF HandleInv, MappedAreMade, WorkingAreMapped

\* A handle is made, mapped or to be closed again.
LEMMA OpeningStep ==
  ASSUME RestTyped, HandleInv, NEW s \in Sessions, NEW h \in Hosting,
         openingSessions[s] = "opening", Fresh(s, h),
         \/ /\ ~closing /\ handle' = [handle EXCEPT ![h] = "open"]
            /\ hostedSessions' = [hostedSessions EXCEPT ![s] = h]
            /\ openingSessions' = [openingSessions EXCEPT ![s] = "no"]
         \/ /\ handle' = [handle EXCEPT ![h] = "closing"] /\ hostedSessions' = hostedSessions
            /\ openingSessions' = [openingSessions EXCEPT ![s] = "draining"],
         UNCHANGED <<removal, removed, closing, closer, closingHosts>>
  PROVE  HandleInv'
<1>f. h[1] = s /\ handle[h] = "none" /\ \A g \in Hosting : g[1] = s /\ g[2] < h[2] => handle[g] # "none"
  BY DEF Fresh
<1>n. \A g \in Hosting : g[1] \in Sessions /\ g[2] \in Nat /\ g # None
  BY BoundsAssumption DEF Hosting
<1>0. h # None /\ hostedSessions[s] = None
  BY <1>n DEF HandleInv, MappedAreMade
<1>c. closer \notin {"releasing", "closing", "done"} /\ ~Stopping
  BY DEF HandleInv, ClosedAreClosed, Stopping
<1>1. /\ handle'[h] \in {"open", "closing"} /\ \A g \in Hosting : g # h => handle'[g] = handle[g]
      /\ \A r \in Sessions : r # s => /\ hostedSessions'[r] = hostedSessions[r]
                                      /\ openingSessions'[r] = openingSessions[r]
      /\ \/ handle'[h] = "open" /\ hostedSessions'[s] = h /\ openingSessions'[s] = "no" /\ ~closing
         \/ handle'[h] = "closing" /\ hostedSessions'[s] = None /\ openingSessions'[s] = "draining"
  BY <1>0 DEF RestTyped
<1>l. Last(h)' /\ \A g \in Hosting : g[1] # s /\ Last(g) => Last(g)'
  <2>1. \A g \in Hosting : g[1] = s /\ g[2] > h[2] => handle[g] = "none"
    <3> SUFFICES ASSUME NEW g \in Hosting, g[1] = s, g[2] > h[2] PROVE handle[g] = "none"
      OBVIOUS
    <3>1. h[2] < g[2]
      BY <1>n
    <3> QED
      BY <1>f, <3>1 DEF HandleInv, MadeInOrder
  <2>2. \A g \in Hosting : g[2] > h[2] => g # h
    BY <1>n
  <2> QED
    BY <1>f, <1>1, <2>1, <2>2 DEF Last
<1>k. \A g \in Hosting : Leaving(g) => g # h /\ Leaving(g)'
  BY <1>c, <1>f, <1>1 DEF Leaving, RemovedTwice
<1>3. MappedAreMade'
  <2> SUFFICES ASSUME NEW r \in Sessions, NEW g, g = hostedSessions'[r], g # None
               PROVE  /\ g \in Hosting /\ g[1] = r /\ handle'[g] # "none"
                      /\ \A k \in Hosting : k[1] = g[1] /\ k[2] > g[2] => handle'[k] = "none"
                      /\ openingSessions'[r] = "no"
    BY DEF MappedAreMade, Last
  <2>1. CASE r = s
    <3>1. g = h /\ openingSessions'[r] = "no"
      BY <1>0, <1>1, <2>1
    <3> QED
      BY <1>f, <1>l, <1>1, <2>1, <3>1 DEF Last
  <2>2. CASE r # s
    <3>1. /\ g \in Hosting /\ g[1] = r /\ handle[g] # "none" /\ Last(g)
          /\ openingSessions'[r] = "no"
      BY <1>1, <2>2 DEF HandleInv, MappedAreMade
    <3>2. \A k \in Hosting : k[1] = g[1] /\ k[2] > g[2] => handle'[k] = "none"
      BY <1>l, <2>2, <3>1 DEF Last
    <3> QED
      BY <1>f, <1>1, <2>2, <3>1, <3>2
  <2> QED
    BY <2>1, <2>2
<1>4. WorkingAreMapped'
  <2> SUFFICES ASSUME NEW g \in Hosting, Working(g)'
               PROVE  \/ hostedSessions'[g[1]] = g
                      \/ openingSessions'[g[1]] = "draining" /\ Last(g)'
                      \/ Leaving(g)'
    BY DEF WorkingAreMapped
  <2>1. CASE g = h
    BY <1>f, <1>l, <1>1, <2>1
  <2>2. CASE g # h
    <3>1. Working(g)
      BY <1>1, <2>2 DEF Working
    <3>2. CASE g[1] = s
      BY <1>k, <3>1, <3>2, NoneWhileOpening
    <3>3. CASE g[1] # s
      BY <1>k, <1>l, <1>n, <1>1, <3>1, <3>3 DEF HandleInv, WorkingAreMapped
    <3> QED
      BY <3>2, <3>3
  <2> QED
    BY <2>1, <2>2
<1>5. MadeInOrder'
  <2> SUFFICES ASSUME NEW g \in Hosting, NEW k \in Hosting, g[1] = k[1], g[2] < k[2],
                      handle'[k] # "none"
               PROVE  handle'[g] # "none"
    BY DEF MadeInOrder
  <2>1. CASE k = h
    BY <1>f, <1>1, <2>1
  <2>2. CASE k # h
    BY <1>1, <2>2 DEF HandleInv, MadeInOrder
  <2> QED
    BY <2>1, <2>2
<1>6. RemovedAreClosed'
  BY <1>f, <1>1 DEF HandleInv, RemovedAreClosed
<1>7. ClosedAreClosed'
  <2>1. closingHosts' = {}
    BY <1>c DEF HandleInv, ClosedAreClosed
  <2> QED
    BY <1>c, <1>1, <2>1 DEF HandleInv, ClosedAreClosed, MappedAreMade, Stopping
<1> QED
  BY <1>3, <1>4, <1>5, <1>6, <1>7 DEF HandleInv

LEMMA HandleInit == Init => HandleInv
  BY BoundsAssumption
  DEF Init, HandleInv, MappedAreMade, WorkingAreMapped, Working, MadeInOrder,
      RemovedAreClosed, ClosedAreClosed, Stopping

LEMMA HandleNext == Typed /\ HandleInv /\ [Next]_vars => HandleInv'
<1> SUFFICES ASSUME Typed, HandleInv, [Next]_vars PROVE HandleInv'
  OBVIOUS
<1> USE DEF hostVars, requestVars, clientVars, routeVars, releaseVars, callVars, removeVars,
            closeVars
<1>t. RestTyped
  BY TypeParts DEF Typed
<1>n. \A g \in Hosting : g[1] \in Sessions /\ g[2] \in Nat /\ g # None
  BY BoundsAssumption DEF Hosting
<1> DEFINE Same == UNCHANGED <<hostVars, removal, removed, closer, closing, closingHosts>>
<1> DEFINE Settled == /\ \A q \in Removals : removal'[q] = removal[q] /\ removed'[q] = removed[q]
                      /\ closer' = closer \/ closer' \in {"closing", "done"}
<1>1. CASE Same
  BY <1>1, QuietStep
<1>0. ASSUME Settled, \A h \in Hosting : handle'[h] = "none" <=> handle[h] = "none" PROVE RemovalsGoOn
  <2>1. \A h : RemovedTwice(h) => RemovedTwice(h)'
    BY <1>0 DEF RemovedTwice
  <2> QED
    BY <1>0, <2>1 DEF RemovalsGoOn, Leaving
<1>2. ASSUME NEW c \in Clients, Acquire(c) PROVE HandleInv'
  <2>1. clientOperations[c] # <<>> /\ This(c).op = "attach"
    BY <1>2 DEF Acquire, Starts, This
  <2>2. This(c).to \in Sessions
    BY <2>1, Shortened, AttachOperation, TypeParts DEF This, ClientsTyped, Typed
  <2>3. /\ \A s \in Sessions : openingSessions'[s] = openingSessions[s] \/ hostedSessions[s] = None
        /\ \A s \in Sessions : openingSessions[s] # "no" => openingSessions'[s] = openingSessions[s]
    BY <1>2, <1>t, <2>2 DEF Acquire, RestTyped
  <2>4. UNCHANGED <<hostedSessions, handle, removal, removed, closer, closing, closingHosts>> /\ ~closing
    BY <1>2 DEF Acquire
  <2> QED
    BY <2>3, <2>4, QuietStep
<1>3. ASSUME NEW s \in Sessions, NEW h \in Hosting, OpenSucceeds(s, h) PROVE HandleInv'
  BY <1>3, <1>t, OpeningStep DEF OpenSucceeds
<1>4. ASSUME NEW s \in Sessions, NEW h \in Hosting, OpenedWhileClosing(s, h) PROVE HandleInv'
  BY <1>4, <1>t, OpeningStep DEF OpenedWhileClosing
<1>5. ASSUME NEW s \in Sessions, OpenFails(s) PROVE HandleInv'
  <2>2. UNCHANGED <<hostedSessions, handle, removal, removed, closing, closer, closingHosts>>
    BY <1>5 DEF OpenFails, OpenEnds
  <2>1. \A g \in Hosting : g[1] = s /\ Working(g)' => Leaving(g)
    BY <1>5, <2>2, NoneWhileOpening DEF OpenFails, Working
  <2>3. \A r \in Sessions :
          \/ openingSessions'[r] = openingSessions[r]
          \/ openingSessions'[r] = "no" /\ \A h \in Hosting : h[1] = r /\ Working(h)' => Leaving(h)
    BY <1>5, <1>t, <2>1 DEF OpenFails, OpenEnds, RestTyped
  <2>4. /\ handle' \in [Hosting -> {"none", "open", "closing", "closed", "failed", "dead"}]
        /\ \A h \in Hosting : handle'[h] = handle[h]
    BY <1>t, <2>2 DEF RestTyped
  <2>5. RemovalsGoOn
    BY <1>0, <2>2
  <2>6. closer' # "closing" => closingHosts' = {}
    BY <2>2 DEF HandleInv, ClosedAreClosed
  <2> QED
    BY <1>t, <2>2, <2>3, <2>4, <2>5, <2>6, StoppingStep
<1>6. ASSUME NEW s \in Sessions, NEW h \in Hosting, NEW r \in {"closed", "failed"}, OpenDrained(s, h, r)
      PROVE  HandleInv'
  <2>1. /\ UNCHANGED <<hostedSessions, removal, removed, closing, closer, closingHosts>>
        /\ handle' = [handle EXCEPT ![h] = r] /\ h[1] = s /\ handle[h] = "closing"
        /\ \A g \in Hosting : g[1] = s /\ g[2] > h[2] => handle[g] = "none"
        /\ openingSessions[s] = "draining"
        /\ openingSessions' = [openingSessions EXCEPT ![s] = "no"]
    BY <1>6 DEF OpenDrained, OpenEnds
  <2>2. \A g \in Hosting : g[1] = s /\ Working(g)' => Leaving(g)
    <3> SUFFICES ASSUME NEW g \in Hosting, g[1] = s, Working(g)', ~Leaving(g) PROVE FALSE
      OBVIOUS
    <3>1. g # h /\ Working(g)
      BY <1>t, <2>1 DEF Working, RestTyped
    <3>2. hostedSessions[s] # g
      BY <1>n, <2>1 DEF HandleInv, MappedAreMade
    <3>3. Last(g)
      BY <3>1, <3>2 DEF HandleInv, WorkingAreMapped
    <3>4. ~(h[2] > g[2]) /\ ~(g[2] > h[2])
      BY <2>1, <3>1, <3>3 DEF Last, Working
    <3>5. h[2] = g[2]
      BY <1>n, <3>4
    <3> QED
      BY <2>1, <3>1, <3>5 DEF Hosting
  <2>3. \A q \in Sessions :
          \/ openingSessions'[q] = openingSessions[q]
          \/ openingSessions'[q] = "no" /\ \A g \in Hosting : g[1] = q /\ Working(g)' => Leaving(g)
    BY <1>t, <2>1, <2>2 DEF RestTyped
  <2>4. handle' \in [Hosting -> {"none", "open", "closing", "closed", "failed", "dead"}]
    BY <1>t, <2>1 DEF RestTyped
  <2>5. \A g \in Hosting : /\ handle'[g] = "none" <=> handle[g] = "none"
                           /\ handle'[g] = "open" => handle[g] = "open"
                           /\ handle'[g] = "closing" => handle[g] \in {"open", "closing"}
    BY <1>t, <2>1 DEF RestTyped
  <2>6. RemovalsGoOn
    BY <1>0, <2>1, <2>5
  <2>7. closer' # "closing" => closingHosts' = {}
    BY <2>1 DEF HandleInv, ClosedAreClosed
  <2> QED
    BY <1>t, <2>1, <2>3, <2>4, <2>5, <2>6, <2>7, StoppingStep
<1>7. ASSUME NEW q \in Removals, NEW s \in Sessions, RemoveSession(q, s) PROVE HandleInv'
  <2>1. /\ UNCHANGED <<hostedSessions, openingSessions, handle, closing, closer, closingHosts>>
        /\ hostedSessions[s] \in Hosting /\ handle[hostedSessions[s]] # "none"
        /\ removal[q] = "no" /\ removal' = [removal EXCEPT ![q] = "releasing"]
        /\ removed' = [removed EXCEPT ![q] = hostedSessions[s]]
    BY <1>7 DEF RemoveSession, HandleInv, MappedAreMade
  <2>2. RemovedAreClosed'
    BY <1>t, <2>1 DEF HandleInv, RemovedAreClosed, RestTyped
  <2>3. \A h : RemovedTwice(h) => RemovedTwice(h)'
    BY <1>t, <2>1 DEF RemovedTwice, RestTyped
  <2>4. \A h : (Last(h)' <=> Last(h)) /\ (Leaving(h) => Leaving(h)')
    BY <2>1, <2>3 DEF Last, Leaving, Stopping
  <2>5. MappedAreMade' /\ WorkingAreMapped'
    BY <2>1, <2>4 DEF HandleInv, MappedAreMade, WorkingAreMapped, Working
  <2>6. MadeInOrder' /\ ClosedAreClosed'
    BY <2>1, <2>4 DEF HandleInv, MadeInOrder, ClosedAreClosed, Stopping
  <2> QED
    BY <2>2, <2>5, <2>6 DEF HandleInv
<1>8. ASSUME NEW q \in Removals, RemoveCloses(q) PROVE HandleInv'
  <2>0. PICK h : h = removed[q]
    OBVIOUS
  <2>1. /\ UNCHANGED <<hostedSessions, openingSessions, closing, closer, closingHosts, removed>>
        /\ removal[q] = "releasing" /\ removal' = [removal EXCEPT ![q] = "closing"]
        /\ handle' = [handle EXCEPT ![h] = IF handle[h] = "open" THEN "closing" ELSE handle[h]]
    BY <1>8, <2>0 DEF RemoveCloses
  <2>h. h \in Hosting
    BY <2>0, <2>1 DEF HandleInv, RemovedAreClosed
  <2>2. /\ handle' \in [Hosting -> {"none", "open", "closing", "closed", "failed", "dead"}]
        /\ \A g \in Hosting : /\ handle'[g] = "none" <=> handle[g] = "none"
                              /\ handle'[g] = "open" => handle[g] = "open" /\ g # h
                              /\ handle'[g] = "closing" => handle[g] \in {"open", "closing"}
    BY <1>t, <2>1, <2>h DEF RestTyped
  <2>3. \A p \in Removals : IF p = q THEN removal'[p] = "closing" ELSE removal'[p] = removal[p]
    BY <1>t, <2>1 DEF RestTyped
  <2>4. \A g : RemovedTwice(g) => RemovedTwice(g)'
    BY <2>1, <2>3 DEF RemovedTwice
  <2>5. RemovalsGoOn
    BY <2>0, <2>1, <2>2, <2>3, <2>4, <2>h DEF RemovalsGoOn, Leaving
  <2>6. closer' # "closing" => closingHosts' = {}
    BY <2>1 DEF HandleInv, ClosedAreClosed
  <2> QED
    BY <1>t, <2>1, <2>2, <2>5, <2>6, StoppingStep
<1>9. ASSUME NEW q \in Removals, NEW r \in {"closed", "failed"}, RemoveEnds(q, r) PROVE HandleInv'
  <2>0. PICK h : h = removed[q]
    OBVIOUS
  <2>1. /\ UNCHANGED <<openingSessions, closing, closer, closingHosts, removed>>
        /\ removal[q] = "closing" /\ removal' = [removal EXCEPT ![q] = "done"]
        /\ \/ handle' = [handle EXCEPT ![h] = IF handle[h] = "closing" THEN r ELSE handle[h]]
           \/ ClosedToo(q) /\ UNCHANGED handle
        /\ hostedSessions' = [s \in Sessions |-> IF hostedSessions[s] = h THEN None
                                                                          ELSE hostedSessions[s]]
    BY <1>9, <2>0 DEF RemoveEnds, HandleEnds
  <2>h. h \in Hosting /\ handle[h] # "open"
    BY <2>0, <2>1 DEF HandleInv, RemovedAreClosed
  <2>2. /\ handle' \in [Hosting -> {"none", "open", "closing", "closed", "failed", "dead"}]
        /\ \A g \in Hosting : /\ handle'[g] = "none" <=> handle[g] = "none"
                              /\ handle'[g] = "open" => handle[g] = "open"
                              /\ handle'[g] = "closing" => handle[g] \in {"open", "closing"}
    BY <1>t, <2>1, <2>h DEF RestTyped
  <2>3. \A p \in Removals : IF p = q THEN removal'[p] = "done" ELSE removal'[p] = removal[p]
    BY <1>t, <2>1 DEF RestTyped
  <2>4. \A g \in Hosting : g # h /\ RemovedTwice(g) => RemovedTwice(g)'
    <3>1. UNCHANGED removed
      BY <2>1
    <3> QED
      BY <2>0, <2>3, <3>1 DEF RemovedTwice
  <2>5. Working(h)' => Leaving(h)'
    <3> SUFFICES ASSUME Working(h)' PROVE Leaving(h)'
      OBVIOUS
    <3>1. UNCHANGED handle /\ ClosedToo(q) /\ handle'[h] = "closing"
      BY <1>t, <2>1, <2>h DEF Working, RestTyped
    <3>2. ASSUME NEW p \in Removals \ {q}, removal[p] = "closing", removed[p] = h
          PROVE  RemovedTwice(h)'
      BY <2>0, <2>1, <2>3, <3>2 DEF RemovedTwice
    <3>3. ASSUME closer = "closing", h \in closingHosts
          PROVE  Stopping' /\ Last(h)'
      BY <2>1, <3>1, <3>3 DEF HandleInv, ClosedAreClosed, Stopping, Last
    <3> QED
      BY <2>0, <3>1, <3>2, <3>3 DEF ClosedToo, Leaving
  <2>6. RemovalsGoOn
    <3>1. \A g \in Hosting : RemovedTwice(g) /\ handle'[g] = "closing" => Leaving(g)'
      BY <2>4, <2>5 DEF Leaving, Working
    <3> QED
      BY <2>0, <2>1, <2>2, <2>3, <2>h, <3>1 DEF RemovalsGoOn
  <2>7. closer' # "closing" => closingHosts' = {}
    BY <2>1 DEF HandleInv, ClosedAreClosed
  <2>8. \A s \in Sessions : \/ hostedSessions'[s] = hostedSessions[s]
                            \/ hostedSessions'[s] = None /\ hostedSessions[s] = h
    BY <2>1
  <2>9. \A s \in Sessions :
          \/ hostedSessions'[s] = hostedSessions[s]
          \/ /\ hostedSessions'[s] = None
             /\ \A g \in Hosting : g = hostedSessions[s] /\ Working(g)' => Leaving(g)'
    BY <2>5, <2>8
  <2> QED
    BY <1>t, <2>1, <2>2, <2>6, <2>7, <2>9, StoppingStep
<1>10. ASSUME NEW s \in Sessions, NEW T, Invalidate(s, T) PROVE HandleInv'
  <2>0. PICK h : h = hostedSessions[s]
    OBVIOUS
  <2>1. /\ UNCHANGED <<openingSessions, removal, removed, closing, closer, closingHosts>>
        /\ h \in Hosting /\ handle[h] # "none"
        /\ handle' = [handle EXCEPT ![h] = IF handle[h] = "open" THEN "dead" ELSE "closed"]
        /\ hostedSessions' = [hostedSessions EXCEPT ![s] = None]
    BY <1>10, <2>0 DEF Invalidate, HandleInv, MappedAreMade
  <2>2. /\ handle' \in [Hosting -> {"none", "open", "closing", "closed", "failed", "dead"}]
        /\ handle'[h] \in {"dead", "closed"}
        /\ \A g \in Hosting : /\ handle'[g] = "none" <=> handle[g] = "none"
                              /\ handle'[g] = "open" => handle[g] = "open"
                              /\ handle'[g] = "closing" => handle[g] \in {"open", "closing"}
    BY <1>t, <2>1 DEF RestTyped
  <2>3. \A r \in Sessions :
          \/ hostedSessions'[r] = hostedSessions[r]
          \/ /\ hostedSessions'[r] = None
             /\ \A g \in Hosting : g = hostedSessions[r] /\ Working(g)' => Leaving(g)'
    BY <1>t, <2>0, <2>1, <2>2 DEF RestTyped, Working
  <2>4. RemovalsGoOn
    BY <1>0, <2>1, <2>2
  <2>5. closer' # "closing" => closingHosts' = {}
    BY <2>1 DEF HandleInv, ClosedAreClosed
  <2> QED
    BY <1>t, <2>1, <2>2, <2>3, <2>4, <2>5, StoppingStep
<1>11. ASSUME Close \/ CloseReleases PROVE HandleInv'
  <2>1. /\ UNCHANGED <<hostedSessions, openingSessions, handle, removal, removed, closing, closingHosts>>
        /\ closing /\ closer # "closing" /\ closer \notin {"releasing", "closing", "done"}
        /\ closer' = "settling" \/ (closer' = "releasing" /\ \A s \in Sessions : openingSessions[s] = "no")
    BY <1>11 DEF Close, CloseReleases, HandleInv, ClosedAreClosed
  <2>2. \A h : (Last(h)' <=> Last(h)) /\ (Leaving(h) => Leaving(h)')
    BY <2>1 DEF Last, Leaving, Stopping, RemovedTwice
  <2>3. MappedAreMade' /\ WorkingAreMapped'
    BY <2>1, <2>2 DEF HandleInv, MappedAreMade, WorkingAreMapped, Working
  <2>4. MadeInOrder' /\ ClosedAreClosed' /\ RemovedAreClosed'
    BY <2>1, <2>2 DEF HandleInv, MadeInOrder, ClosedAreClosed, RemovedAreClosed, Stopping
  <2> QED
    BY <2>3, <2>4 DEF HandleInv
<1>13. ASSUME CloseHandles PROVE HandleInv'
  <2>1. /\ UNCHANGED <<hostedSessions, openingSessions, removal, removed, closing>>
        /\ closer = "releasing" /\ closer' = "closing"
        /\ closingHosts' = {hostedSessions[s] : s \in Hosted}
        /\ handle' = [h \in Hosting |-> IF h \in closingHosts' /\ handle[h] = "open"
                                        THEN "closing" ELSE handle[h]]
    BY <1>13 DEF CloseHandles
  <2>2. /\ handle' \in [Hosting -> {"none", "open", "closing", "closed", "failed", "dead"}]
        /\ \A g \in Hosting : /\ handle'[g] = "none" <=> handle[g] = "none"
                              /\ handle'[g] = "open" => handle[g] = "open"
                              /\ handle'[g] = "closing" => handle[g] \in {"open", "closing"}
    BY <1>t, <2>1 DEF RestTyped
  <2>3. \A s \in Sessions : hostedSessions[s] # None => handle'[hostedSessions[s]] # "open"
    BY <2>1 DEF HandleInv, MappedAreMade, Hosted
  <2>4. RemovalsGoOn
    BY <1>0, <2>1, <2>2
  <2>5. \A h \in closingHosts' : \E s \in Sessions : h = hostedSessions[s] /\ h # None
    BY <2>1 DEF Hosted
  <2> QED
    BY <1>t, <2>1, <2>2, <2>3, <2>4, <2>5, StoppingStep
<1>14. ASSUME NEW F \in SUBSET Hosted, CloseEnds(F) PROVE HandleInv'
  <2> DEFINE shared == {h \in closingHosts :
                          \E r \in Removals : removal[r] = "closing" /\ removed[r] = h}
  <2>1. /\ UNCHANGED <<openingSessions, removal, removed, closing>>
        /\ closer = "closing" /\ closer' = "done" /\ closingHosts' = {}
        /\ \E still \in SUBSET shared :
             handle' = [h \in Hosting |->
                          IF h \in closingHosts \ still /\ handle[h] = "closing"
                          THEN IF h[1] \in F THEN "failed" ELSE "closed" ELSE handle[h]]
        /\ hostedSessions' = [s \in Sessions |->
                                IF hostedSessions[s] \in closingHosts /\ s \notin F
                                THEN None ELSE hostedSessions[s]]
    BY <1>14 DEF CloseEnds
  <2>2. /\ handle' \in [Hosting -> {"none", "open", "closing", "closed", "failed", "dead"}]
        /\ \A g \in Hosting : /\ handle'[g] = "none" <=> handle[g] = "none"
                              /\ handle'[g] = "open" => handle[g] = "open"
                              /\ handle'[g] = "closing" => handle[g] \in {"open", "closing"}
    BY <1>t, <2>1 DEF RestTyped
  <2>l. \A h : Last(h) => Last(h)'
    BY <2>2 DEF Last
  <2>3. \A s \in Sessions : hostedSessions[s] # None =>
          hostedSessions[s] \in Hosting /\ Last(hostedSessions[s]) /\ handle[hostedSessions[s]] # "open"
    BY <2>1 DEF HandleInv, MappedAreMade, ClosedAreClosed, Stopping
  <2>4. \A h \in Hosting : Last(h) /\ handle[h] # "open" /\ Working(h)' => Leaving(h)'
    BY <2>1, <2>2, <2>l DEF Working, Leaving, Stopping
  <2>5. \A s \in Sessions : \/ hostedSessions'[s] = hostedSessions[s]
                            \/ hostedSessions'[s] = None /\ hostedSessions[s] # None
    BY <2>1
  <2>6. \A s \in Sessions :
          \/ hostedSessions'[s] = hostedSessions[s]
          \/ /\ hostedSessions'[s] = None
             /\ \A h \in Hosting : h = hostedSessions[s] /\ Working(h)' => Leaving(h)'
    BY <2>3, <2>4, <2>5
  <2>7. RemovalsGoOn
    BY <1>0, <2>1, <2>2
  <2>8. \A s \in Sessions : hostedSessions[s] # None => handle'[hostedSessions[s]] # "open"
    BY <2>2, <2>3
  <2> HIDE DEF shared
  <2> QED
    BY <1>t, <2>1, <2>2, <2>6, <2>7, <2>8, StoppingStep
<1>15. ASSUME NEW c \in Clients,
              Requests(c) \/ (Continues(c) /\ ~Acquire(c)) \/ LeaseGranted(c) \/ LeaseRefused(c)
       PROVE  Same
  <2>1. ASSUME Requests(c) PROVE Same
    BY <2>1 DEF Requests, AttachClient, DetachClient, ExecuteServiceCall, Disconnect, Request
  <2>2. ASSUME AttachReturns(c) \/ AcquiredTooLate(c) \/ SwitchFrom(c) \/ AttachTo(c) PROVE Same
    BY <2>2 DEF AttachReturns, AcquiredTooLate, SwitchFrom, AttachTo
  <2>3. ASSUME LeaseGranted(c) \/ LeaseRefused(c) \/ ReleaseAwaited(c) PROVE Same
    BY <2>3 DEF LeaseGranted, LeaseRefused, ReleaseAwaited
  <2>4. ASSUME Detach(c) \/ NothingToDetach(c) \/ Leave(c) \/ Left(c) PROVE Same
    BY <2>4 DEF Detach, NothingToDetach, Leave, Left
  <2>5. ASSUME StartServiceCall(c) \/ CallRejected(c) PROVE Same
    BY <2>5 DEF StartServiceCall, CallRejected
  <2> QED
    BY <1>15, <2>1, <2>2, <2>3, <2>4, <2>5 DEF Continues
<1>16. ASSUME NEW a \in Attachment, NEW r \in {"done", "failed"},
              Drained(a) \/ NothingToRelease(a) \/ LeaseReleased(a, r) \/ CallSettles(a)
       PROVE  Same
  BY <1>16 DEF Drained, NothingToRelease, LeaseReleased, CallSettles, Clear
<1>17. ASSUME BeginClosing \/ Stopped \/ UNCHANGED vars
       PROVE  HandleInv'
  <2>1. CASE BeginClosing
    BY <2>1, QuietStep DEF BeginClosing
  <2>2. CASE Stopped \/ UNCHANGED vars
    BY <1>1, <2>2 DEF Stopped, vars
  <2> QED
    BY <1>17, <2>1, <2>2
<1>18. ASSUME NEW s \in Sessions, Opens(s) PROVE HandleInv'
  BY <1>3, <1>4, <1>5, <1>6, <1>18 DEF Opens
<1>19. ASSUME Works PROVE HandleInv'
  BY <1>1, <1>2, <1>8, <1>9, <1>11, <1>13, <1>14, <1>15, <1>16, <1>18, <1>19
  DEF Works, Releases, Removes, Closes
<1>20. ASSUME Failure PROVE HandleInv'
  <2>1. \A s \in Hosted : {s} \in SUBSET Hosted
    OBVIOUS
  <2> QED
    BY <1>1, <1>5, <1>6, <1>9, <1>10, <1>14, <1>15, <1>16, <1>20, <2>1 DEF Failure
<1> QED
  BY <1>1, <1>7, <1>10, <1>15, <1>17, <1>19, <1>20 DEF Next

(* No two handles of a session work at a time (pi-server-session-router.ts:*)
(* 261-300) but where the session was removed twice (72-89) and one of the *)
(* two calls that close the earlier handle came back before the other: for *)
(* any number of clients, sessions and removals, and in whatever order     *)
(* opens, removals, lost workers and the shutdown meet.                    *)
THEOREM OneWorkerPerSession == Spec => []OneHandlePerSession
<1> QED
  BY TypedInit, TypedNext, HandleInit, HandleNext, OneHandle, PTL DEF Spec

----------------------------------------------------------------------------
(* What a step does to the attachments and to the clients.                 *)

\* Steps one by one, whoever takes them and whatever they count.
LEMMA StepCases ==
  ASSUME [Next]_vars
  PROVE  \/ \E c \in Clients : Requests(c) \/ Continues(c) \/ LeaseGranted(c) \/ LeaseRefused(c)
         \/ \E s \in Sessions : OpenFails(s) \/ \E T : Invalidate(s, T)
         \/ \E q \in Removals, s \in Sessions : RemoveSession(q, s)
         \/ \E s \in Sessions, h \in Hosting :
              \/ OpenSucceeds(s, h) \/ OpenedWhileClosing(s, h)
              \/ \E r \in {"closed", "failed"} : OpenDrained(s, h, r)
         \/ \E a \in Attachment :
              \/ Drained(a) \/ NothingToRelease(a) \/ CallSettles(a)
              \/ \E r \in {"done", "failed"} : LeaseReleased(a, r)
         \/ \E q \in Removals : RemoveCloses(q) \/ \E r \in {"closed", "failed"} : RemoveEnds(q, r)
         \/ BeginClosing \/ Close \/ CloseReleases \/ CloseHandles
         \/ \E F \in SUBSET Sessions : CloseEnds(F)
         \/ UNCHANGED vars
<1>1. \A s \in Hosted : {s} \in SUBSET Sessions
  BY DEF Hosted
<1>2. ASSUME Works
      PROVE  \/ \E c \in Clients : Continues(c) \/ LeaseGranted(c)
             \/ \E s \in Sessions : OpenFails(s)
             \/ \E s \in Sessions, h \in Hosting :
                  OpenSucceeds(s, h) \/ OpenedWhileClosing(s, h) \/ OpenDrained(s, h, "closed")
             \/ \E a \in Attachment :
                  Drained(a) \/ NothingToRelease(a) \/ CallSettles(a) \/ LeaseReleased(a, "done")
             \/ \E q \in Removals : RemoveCloses(q) \/ RemoveEnds(q, "closed")
             \/ Close \/ CloseReleases \/ CloseHandles \/ CloseEnds({})
  BY <1>2 DEF Works, Opens, Releases, Removes, Closes
<1>3. ASSUME Failure
      PROVE  \/ \E c \in Clients : LeaseRefused(c)
             \/ \E s \in Sessions : OpenFails(s) \/ Invalidate(s, {"open"})
             \/ \E s \in Sessions, h \in Hosting : OpenDrained(s, h, "failed")
             \/ \E a \in Attachment : LeaseReleased(a, "failed")
             \/ \E q \in Removals : RemoveEnds(q, "failed")
             \/ \E F \in SUBSET Sessions : CloseEnds(F)
  BY <1>1, <1>3 DEF Failure
<1>4. \/ \E c \in Clients : Requests(c)
      \/ \E q \in Removals, s \in Sessions : RemoveSession(q, s)
      \/ \E s \in Sessions : Invalidate(s, {"closing", "closed"})
      \/ BeginClosing \/ Works \/ Failure \/ UNCHANGED vars
  BY DEF Next, Stopped
<1>5. {} \in SUBSET Sessions
  OBVIOUS
<1> QED
  BY <1>2, <1>3, <1>4, <1>5

\* What is over stays over: a handle once made, a removal begun, a hosting off the map.
HostsPersist ==
  /\ closing => closing'
  /\ closer = "done" => closer' = "done"
  /\ \A h \in Hosting : /\ handle[h] # "none" => handle'[h] # "none"
                        /\ Removing(h) => Removing(h)'
                        /\ handle[h] # "none" /\ hostedSessions[h[1]] # h => hostedSessions'[h[1]] # h

LEMMA HostsKept ==
  ASSUME Typed, HandleInv, [Next]_vars
  PROVE  HostsPersist
<1> USE DEF hostVars, requestVars, clientVars, routeVars, releaseVars, callVars, removeVars,
            closeVars
<1>t. RestTyped /\ \A h \in Hosting : h[1] \in Sessions /\ h # None
  BY TypeParts, BoundsAssumption DEF Typed, Hosting
<1>0. ASSUME UNCHANGED <<hostedSessions, handle, removed, closer, closing>> PROVE HostsPersist
  BY <1>0 DEF HostsPersist, Removing
<1>1. ASSUME NEW c \in Clients, Requests(c) \/ Continues(c) \/ LeaseGranted(c) \/ LeaseRefused(c)
      PROVE  HostsPersist
  <2>1. ASSUME Requests(c) PROVE HostsPersist
    BY <1>0, <2>1 DEF Requests, AttachClient, DetachClient, ExecuteServiceCall, Disconnect, Request
  <2>2. ASSUME AttachReturns(c) \/ Acquire(c) \/ AcquiredTooLate(c) \/ SwitchFrom(c) \/ AttachTo(c)
        PROVE  HostsPersist
    BY <1>0, <2>2 DEF AttachReturns, Acquire, AcquiredTooLate, SwitchFrom, AttachTo
  <2>3. ASSUME LeaseGranted(c) \/ LeaseRefused(c) \/ ReleaseAwaited(c) PROVE HostsPersist
    BY <1>0, <2>3 DEF LeaseGranted, LeaseRefused, ReleaseAwaited
  <2>4. ASSUME Detach(c) \/ NothingToDetach(c) \/ Leave(c) \/ Left(c) PROVE HostsPersist
    BY <1>0, <2>4 DEF Detach, NothingToDetach, Leave, Left
  <2>5. ASSUME StartServiceCall(c) \/ CallRejected(c) PROVE HostsPersist
    BY <1>0, <2>5 DEF StartServiceCall, CallRejected
  <2> QED
    BY <1>1, <2>1, <2>2, <2>3, <2>4, <2>5 DEF Continues
<1>2. ASSUME NEW s \in Sessions, OpenFails(s) PROVE HostsPersist
  BY <1>0, <1>2 DEF OpenFails, OpenEnds
<1>3. ASSUME NEW q \in Removals, NEW s \in Sessions, RemoveSession(q, s) PROVE HostsPersist
  <2>1. removed[q] = None /\ \A p \in Removals : p # q => removed'[p] = removed[p]
    BY <1>t, <1>3 DEF RemoveSession, RestTyped, HandleInv, RemovedAreClosed
  <2>2. \A h \in Hosting : Removing(h) => Removing(h)'
    BY <1>t, <2>1 DEF Removing
  <2> QED
    BY <1>3, <2>2 DEF RemoveSession, HostsPersist
<1>4. ASSUME NEW s \in Sessions, NEW T, Invalidate(s, T) PROVE HostsPersist
  BY <1>t, <1>4 DEF Invalidate, HostsPersist, RestTyped, Removing
<1>5. ASSUME NEW s \in Sessions, NEW h \in Hosting,
             OpenSucceeds(s, h) \/ OpenedWhileClosing(s, h) \/ \E r \in {"closed", "failed"} : OpenDrained(s, h, r)
      PROVE  HostsPersist
  BY <1>t, <1>5 DEF OpenSucceeds, OpenedWhileClosing, OpenDrained, OpenEnds, Fresh, HostsPersist, RestTyped, Removing
<1>6. ASSUME NEW a \in Attachment, NEW r,
             Drained(a) \/ NothingToRelease(a) \/ CallSettles(a) \/ LeaseReleased(a, r)
      PROVE  HostsPersist
  BY <1>0, <1>6 DEF Drained, NothingToRelease, LeaseReleased, CallSettles, Clear
<1>7. ASSUME NEW q \in Removals, RemoveCloses(q) \/ \E r \in {"closed", "failed"} : RemoveEnds(q, r)
      PROVE  HostsPersist
  BY <1>t, <1>7 DEF RemoveCloses, RemoveEnds, HandleEnds, HostsPersist, RestTyped, Removing
<1>8. ASSUME BeginClosing \/ Close \/ CloseReleases \/ CloseHandles PROVE HostsPersist
  <2>1. CASE BeginClosing
    BY <1>t, <2>1 DEF BeginClosing, HostsPersist, RestTyped, Removing
  <2>2. CASE Close \/ CloseReleases
    <3>1. UNCHANGED <<hostedSessions, handle, removed, closing>> /\ closer # "done"
      BY <2>2 DEF Close, CloseReleases
    <3> QED
      BY <3>1 DEF HostsPersist, Removing
  <2>3. CASE CloseHandles
    <3>1. UNCHANGED <<hostedSessions, removed, closing>> /\ closer # "done"
      BY <2>3 DEF CloseHandles
    <3>2. \A h \in Hosting : handle[h] # "none" => handle'[h] # "none"
      BY <2>3 DEF CloseHandles
    <3> QED
      BY <3>1, <3>2 DEF HostsPersist, Removing
  <2> QED
    BY <1>8, <2>1, <2>2, <2>3
<1>9. ASSUME NEW F \in SUBSET Sessions, CloseEnds(F) PROVE HostsPersist
  BY <1>t, <1>9 DEF CloseEnds, HostsPersist, RestTyped, Removing
<1>10. CASE UNCHANGED vars
  BY <1>0, <1>10 DEF vars
<1> QED
  BY <1>1, <1>2, <1>3, <1>4, <1>5, <1>6, <1>7, <1>8, <1>9, <1>10, StepCases

\* A client's operation begins, goes on or ends without touching an attachment.
Idles(c) ==
  \/ pc'[c] = pc[c] /\ current'[c] = current[c]
  \/ /\ pc[c] \in {"idle", "left"} /\ pc'[c] \in {"acquiring", "acquired"} /\ ~closing
     /\ current'[c] = attachmentsByClient[c]
  \/ pc[c] = "acquiring" /\ pc'[c] = "acquired" /\ current'[c] = current[c]
  \/ /\ pc'[c] \in {"idle", "left"} /\ current'[c] = None
     /\ \/ pc[c] \in {"idle", "left", "acquiring", "acquired"}
        \/ pc[c] \in {"undoing", "detaching", "switching", "leaving"} /\ Released(current[c])
     /\ pc'[c] = "left" => /\ clientOperations[c] # <<>> /\ This(c).op = "disconnect"
                           /\ attachmentsByClient[c] = None \/ pc[c] = "leaving"

Others(c) == \A d \in Clients : d # c => pc'[d] = pc[d] /\ current'[d] = current[d]

\* The releases of S begin, but for those begun already.
Begun(S) ==
  \A b \in Attachment : releasing'[b] = IF b \in S /\ releasing[b] = "no" THEN "draining" ELSE releasing[b]

Rests ==
  UNCHANGED <<session, lease, releasing, attachmentsByClient>> /\ \A c \in Clients : Idles(c)

\* c lets go of a, makes a, is granted a, gives it back at once, is refused it.
Lets(c, a) ==
  /\ \/ pc[c] = "acquired" /\ a = current[c]
     \/ pc[c] \in {"idle", "left"} /\ a = attachmentsByClient[c]
  /\ pc'[c] \in {"switching", "detaching", "leaving"} /\ current'[c] = a /\ Others(c)
  /\ Begun({a})
  /\ UNCHANGED <<session, lease, attachmentsByClient>>

Makes(c, a) ==
  /\ clientOperations[c] # <<>> /\ This(c).op = "attach" /\ a = <<c, This(c).n>> /\ got[c] \in Hosting
  /\ \/ pc[c] = "acquired" /\ current[c] = None /\ ~closing
     \/ pc[c] = "switching" /\ releasing[current[c]] = "done"
  /\ pc'[c] = "attaching" /\ current'[c] = a /\ Others(c)
  /\ session'[a] = got[c] /\ lease'[a] = "acquiring"
  /\ \A b \in Attachment : b # a => session'[b] = session[b] /\ lease'[b] = lease[b]
  /\ UNCHANGED <<releasing, attachmentsByClient>>

Grants(c, a) ==
  /\ pc[c] = "attaching" /\ a = current[c]
  /\ hostedSessions[session[a][1]] = session[a] /\ ~Released(a) /\ ~closing
  /\ pc'[c] = "idle" /\ current'[c] = None /\ Others(c)
  /\ lease'[a] = "held" /\ \A b \in Attachment : b # a => lease'[b] = lease[b]
  /\ attachmentsByClient'[c] = a
  /\ \A d \in Clients : d # c => attachmentsByClient'[d] = attachmentsByClient[d]
  /\ UNCHANGED <<session, releasing>>

Undoes(c, a) ==
  /\ pc[c] = "attaching" /\ a = current[c]
  /\ pc'[c] = "undoing" /\ current'[c] = a /\ Others(c)
  /\ lease'[a] = "held" /\ \A b \in Attachment : b # a => lease'[b] = lease[b]
  /\ Begun({a})
  /\ UNCHANGED <<session, attachmentsByClient>>

Refuses(c, a) ==
  /\ pc[c] = "attaching" /\ a = current[c]
  /\ pc'[c] = "idle" /\ current'[c] = None /\ Others(c)
  /\ lease'[a] = "refused" /\ \A b \in Attachment : b # a => lease'[b] = lease[b]
  /\ UNCHANGED <<session, releasing, attachmentsByClient>>

\* The calls on a have settled; its release is through.
Drains(a) ==
  /\ releasing[a] = "draining" /\ calls[a] = 0 /\ lease[a] = "held" /\ releasing'[a] = "releasing"
  /\ \A b \in Attachment : b # a => releasing'[b] = releasing[b]
  /\ UNCHANGED <<session, lease, attachmentsByClient, pc, current>>

Clears(a) ==
  /\ \/ releasing[a] = "releasing" /\ lease'[a] = "released"
     \/ releasing[a] = "draining" /\ calls[a] = 0 /\ lease[a] = "refused" /\ lease'[a] = "refused"
  /\ releasing'[a] \in {"done", "failed"}
  /\ \A b \in Attachment : b # a => lease'[b] = lease[b] /\ releasing'[b] = releasing[b]
  /\ \A c \in Clients :
       attachmentsByClient'[c] = IF attachmentsByClient[c] = a THEN None ELSE attachmentsByClient[c]
  /\ UNCHANGED <<session, pc, current>>

\* A removal, a lost worker or the shutdown releases all of a session; the router ends.
Frees(S) ==
  /\ \A a \in S : /\ session[a] \in Hosting
                  /\ \/ Removing(session[a])' \/ hostedSessions'[session[a][1]] # session[a]
                     \/ closing
  /\ Begun(S)
  /\ UNCHANGED <<session, lease, attachmentsByClient, pc, current>>

Ceases ==
  /\ closer = "closing" /\ closer' = "done"
  /\ \A c \in Clients : attachmentsByClient'[c] = None
  /\ UNCHANGED <<session, lease, releasing, pc, current>>

Kind ==
  \/ Rests \/ Ceases
  \/ \E c \in Clients, a \in Attachment :
       Lets(c, a) \/ Makes(c, a) \/ Grants(c, a) \/ Undoes(c, a) \/ Refuses(c, a)
  \/ \E a \in Attachment : Drains(a) \/ Clears(a)
  \/ \E S \in SUBSET Attachment : Frees(S)

LEMMA ReleaseBegins ==
  ASSUME RestTyped, NEW S \in SUBSET Attachment, NEW silent, Release(S, silent)
  PROVE  Begun(S)
BY DEF Release, Begun, RestTyped

LEMMA EndsIdles ==
  ASSUME ClientsTyped, NEW c \in Clients, NEW at \in {"idle", "left"}, Ends(c, at),
         \/ pc[c] \in {"idle", "left", "acquiring", "acquired"}
         \/ pc[c] \in {"undoing", "detaching", "switching", "leaving"} /\ Released(current[c]),
         at = "left" => /\ clientOperations[c] # <<>> /\ This(c).op = "disconnect"
                        /\ attachmentsByClient[c] = None \/ pc[c] = "leaving"
  PROVE  \A d \in Clients : Idles(d)
<1>1. pc'[c] = at /\ current'[c] = None /\ Others(c)
  BY DEF Ends, ClientsTyped, Others
<1>2. Idles(c)
  BY <1>1 DEF Idles
<1>3. \A d \in Clients : d # c => Idles(d)
  BY <1>1 DEF Others, Idles
<1> QED
  BY <1>2, <1>3

LEMMA GoesThere ==
  ASSUME ClientsTyped, NEW c \in Clients, NEW at, NEW h, NEW a, Goes(c, at, h, a)
  PROVE  pc'[c] = at /\ current'[c] = a /\ Others(c) /\ UNCHANGED clientOperations
BY DEF Goes, ClientsTyped, Others

LEMMA Kinds ==
  ASSUME Typed, HandleInv, [Next]_vars
  PROVE  Kind
<1> USE DEF hostVars, requestVars, clientVars, routeVars, releaseVars, callVars, removeVars,
            closeVars
<1>t. RestTyped /\ ClientsTyped /\ \A c \in Clients : Placed(c)
  BY TypeParts DEF Typed
<1>0. ASSUME UNCHANGED <<session, lease, releasing, attachmentsByClient, pc, current>> PROVE Kind
  BY <1>0 DEF Kind, Rests, Idles
<1>1. ASSUME NEW c \in Clients, Requests(c) PROVE Kind
  BY <1>0, <1>1 DEF Requests, AttachClient, DetachClient, ExecuteServiceCall, Disconnect, Request
<1>2. ASSUME NEW c \in Clients, AttachReturns(c) \/ AcquiredTooLate(c) \/ NothingToDetach(c) \/ CallRejected(c)
                                \/ StartServiceCall(c)
      PROVE  Kind
  <2>1. /\ UNCHANGED <<session, lease, releasing, attachmentsByClient>> /\ Ends(c, "idle")
        /\ pc[c] \in {"idle", "left", "acquired"}
    BY <1>2 DEF AttachReturns, AcquiredTooLate, NothingToDetach, CallRejected, StartServiceCall, Starts
  <2> QED
    BY <1>t, <2>1, EndsIdles DEF Kind, Rests
<1>3. ASSUME NEW c \in Clients, ReleaseAwaited(c) PROVE Kind
  <2>1. /\ UNCHANGED <<session, lease, releasing, attachmentsByClient>> /\ Ends(c, "idle")
        /\ pc[c] \in {"undoing", "detaching", "switching"} /\ Released(current[c])
    BY <1>3 DEF ReleaseAwaited, Released
  <2> QED
    BY <1>t, <2>1, EndsIdles DEF Kind, Rests
<1>4. ASSUME NEW c \in Clients, Left(c) PROVE Kind
  <2>1. /\ UNCHANGED <<session, lease, releasing, attachmentsByClient>> /\ Ends(c, "left")
        /\ \/ pc[c] \in {"idle", "left"} /\ attachmentsByClient[c] = None
           \/ pc[c] = "leaving" /\ Released(current[c])
        /\ clientOperations[c] # <<>> /\ This(c).op = "disconnect"
    BY <1>t, <1>4 DEF Left, Starts, This, Placed
  <2> QED
    BY <1>t, <2>1, EndsIdles DEF Kind, Rests
<1>5. ASSUME NEW c \in Clients, Acquire(c) PROVE Kind
  <2>1. /\ UNCHANGED <<session, lease, releasing, attachmentsByClient>> /\ ~closing
        /\ pc[c] \in {"idle", "left"}
        /\ \E at \in {"acquiring", "acquired"} : \E h : Goes(c, at, h, attachmentsByClient[c])
    BY <1>5 DEF Acquire, Starts
  <2>2. pc'[c] \in {"acquiring", "acquired"} /\ current'[c] = attachmentsByClient[c] /\ Others(c)
    BY <1>t, <2>1, GoesThere
  <2>3. \A d \in Clients : Idles(d)
    BY <2>1, <2>2 DEF Idles, Others
  <2> QED
    BY <2>1, <2>3 DEF Kind, Rests
<1>6. ASSUME NEW c \in Clients, NEW a \in Attachment, NEW silent, Release({a}, silent),
             UNCHANGED <<session, lease, attachmentsByClient>>,
             NEW at \in {"switching", "detaching", "leaving"}, NEW h, Goes(c, at, h, a),
             \/ pc[c] = "acquired" /\ a = current[c]
             \/ pc[c] \in {"idle", "left"} /\ a = attachmentsByClient[c]
      PROVE  Kind
  <2>1. pc'[c] = at /\ current'[c] = a /\ Others(c)
    BY <1>t, <1>6, GoesThere
  <2>2. Begun({a})
    BY <1>t, <1>6, ReleaseBegins
  <2>3. Lets(c, a)
    BY <1>6, <2>1, <2>2 DEF Lets
  <2> QED
    BY <2>3 DEF Kind
<1>7. ASSUME NEW c \in Clients, SwitchFrom(c) PROVE Kind
  <2>1. current[c] \in Attachment
    BY <1>t, <1>7 DEF SwitchFrom, ClientsTyped
  <2> QED
    BY <1>6, <1>7, <2>1 DEF SwitchFrom
<1>8. ASSUME NEW c \in Clients, Detach(c) \/ Leave(c) PROVE Kind
  <2>1. attachmentsByClient[c] \in Attachment /\ pc[c] \in {"idle", "left"}
    BY <1>t, <1>8 DEF Detach, Leave, RestTyped, Starts
  <2> QED
    BY <1>6, <1>8, <2>1 DEF Detach, Leave
<1>9. ASSUME NEW c \in Clients, AttachTo(c) PROVE Kind
  <2> DEFINE a == <<c, This(c).n>>
  <2>1. /\ clientOperations[c] # <<>> /\ This(c).op = "attach" /\ got[c] \in Hosting
        /\ Goes(c, "attaching", None, a) /\ UNCHANGED <<releasing, attachmentsByClient>>
        /\ session' = [session EXCEPT ![a] = got[c]] /\ lease' = [lease EXCEPT ![a] = "acquiring"]
        /\ \/ pc[c] = "acquired" /\ current[c] = None /\ ~closing
           \/ pc[c] = "switching" /\ releasing[current[c]] = "done"
    BY <1>t, <1>9 DEF AttachTo, MakeAttachment, Placed, Attaching, Draining
  <2>2. a \in Attachment
    BY <1>t, <2>1, Shortened, AttachOperation DEF This, ClientsTyped, Attachment
  <2>3. pc'[c] = "attaching" /\ current'[c] = a /\ Others(c)
    BY <1>t, <2>1, GoesThere
  <2>4. /\ session'[a] = got[c] /\ lease'[a] = "acquiring"
        /\ \A b \in Attachment : b # a => session'[b] = session[b] /\ lease'[b] = lease[b]
    BY <1>t, <2>1, <2>2 DEF RestTyped
  <2>5. Makes(c, a)
    BY <2>1, <2>3, <2>4 DEF Makes
  <2> QED
    BY <2>2, <2>5 DEF Kind
<1>10. ASSUME NEW c \in Clients, LeaseGranted(c) PROVE Kind
  <2> DEFINE a == current[c]
  <2>1. /\ a \in Attachment /\ pc[c] = "attaching" /\ lease' = [lease EXCEPT ![a] = "held"]
        /\ UNCHANGED session
    BY <1>t, <1>10 DEF LeaseGranted, Placed
  <2>2. lease'[a] = "held" /\ \A b \in Attachment : b # a => lease'[b] = lease[b]
    BY <1>t, <2>1 DEF RestTyped
  <2>3. CASE /\ hostedSessions[session[a][1]] = session[a] /\ a \in AttachmentsOf(session[a])
             /\ ~Draining(c) /\ Ends(c, "idle") /\ UNCHANGED releaseVars
             /\ attachmentsByClient' = [attachmentsByClient EXCEPT ![c] = a]
    <3>1. ~closing /\ ~Released(a)
      BY <2>3 DEF Draining, AttachmentsOf
    <3>2. pc'[c] = "idle" /\ current'[c] = None /\ Others(c)
      BY <1>t, <2>3 DEF Ends, ClientsTyped, Others
    <3>3. /\ attachmentsByClient'[c] = a
          /\ \A d \in Clients : d # c => attachmentsByClient'[d] = attachmentsByClient[d]
      BY <1>t, <2>3 DEF RestTyped
    <3>4. Grants(c, a)
      BY <2>1, <2>2, <2>3, <3>1, <3>2, <3>3 DEF Grants
    <3> QED
      BY <2>1, <3>4 DEF Kind
  <2>4. CASE Release({a}, FALSE) /\ Goes(c, "undoing", None, a) /\ UNCHANGED routeVars
    <3>1. pc'[c] = "undoing" /\ current'[c] = a /\ Others(c)
      BY <1>t, <2>4, GoesThere
    <3>2. Begun({a})
      BY <1>t, <2>1, <2>4, ReleaseBegins
    <3>3. Undoes(c, a)
      BY <2>1, <2>2, <2>4, <3>1, <3>2 DEF Undoes
    <3> QED
      BY <2>1, <3>3 DEF Kind
  <2> QED
    BY <1>10, <2>3, <2>4 DEF LeaseGranted
<1>11. ASSUME NEW c \in Clients, LeaseRefused(c) PROVE Kind
  <2> DEFINE a == current[c]
  <2>1. /\ a \in Attachment /\ pc[c] = "attaching" /\ lease' = [lease EXCEPT ![a] = "refused"]
        /\ UNCHANGED <<session, releasing, attachmentsByClient>> /\ Ends(c, "idle")
    BY <1>t, <1>11 DEF LeaseRefused, Placed
  <2>2. lease'[a] = "refused" /\ \A b \in Attachment : b # a => lease'[b] = lease[b]
    BY <1>t, <2>1 DEF RestTyped
  <2>3. pc'[c] = "idle" /\ current'[c] = None /\ Others(c)
    BY <1>t, <2>1 DEF Ends, ClientsTyped, Others
  <2> QED
    BY <2>1, <2>2, <2>3 DEF Kind, Refuses
<1>12. ASSUME NEW c \in Clients, Continues(c) PROVE Kind
  BY <1>2, <1>3, <1>4, <1>5, <1>7, <1>8, <1>9, <1>12 DEF Continues
<1>13. ASSUME NEW s \in Sessions, NEW h \in Hosting, OpenSucceeds(s, h) PROVE Kind
  <2>1. \A c \in Clients : Idles(c)
    BY <1>t, <1>13 DEF OpenSucceeds, Opening, Idles
  <2> QED
    BY <1>13, <2>1 DEF OpenSucceeds, Kind, Rests
<1>14. ASSUME NEW s \in Sessions, OpenEnds(s) PROVE Kind
  <2>1. \A c \in Clients : Idles(c)
    BY <1>t, <1>14 DEF OpenEnds, Opening, Idles
  <2> QED
    BY <1>14, <2>1 DEF OpenEnds, Kind, Rests
<1>15. ASSUME NEW s \in Sessions, NEW h \in Hosting,
              OpenedWhileClosing(s, h) \/ \E r \in {"closed", "failed"} : OpenDrained(s, h, r)
       PROVE  Kind
  BY <1>0, <1>14, <1>15 DEF OpenedWhileClosing, OpenDrained
<1>16. ASSUME NEW S \in SUBSET Attachment, NEW silent, Release(S, silent),
              UNCHANGED <<session, lease, attachmentsByClient, pc, current>>,
              \A a \in S : /\ session[a] \in Hosting
                           /\ \/ Removing(session[a])'
                              \/ hostedSessions'[session[a][1]] # session[a]
                              \/ closing
       PROVE  Kind
  <2>1. Begun(S)
    BY <1>t, <1>16, ReleaseBegins
  <2> QED
    BY <1>16, <2>1 DEF Kind, Frees
<1>17. ASSUME NEW s \in Sessions, hostedSessions[s] # None
       PROVE  /\ hostedSessions[s] \in Hosting /\ hostedSessions[s][1] = s
              /\ AttachmentsOf(hostedSessions[s]) \subseteq Attachment
              /\ \A a \in AttachmentsOf(hostedSessions[s]) : session[a] = hostedSessions[s]
  BY <1>17 DEF HandleInv, MappedAreMade, AttachmentsOf
<1>18. ASSUME NEW q \in Removals, NEW s \in Sessions, RemoveSession(q, s) PROVE Kind
  <2> DEFINE S == AttachmentsOf(hostedSessions[s])
  <2>1. /\ hostedSessions[s] # None /\ Release(S, FALSE)
        /\ UNCHANGED <<session, lease, attachmentsByClient, pc, current>>
        /\ removed' = [removed EXCEPT ![q] = hostedSessions[s]]
    BY <1>18 DEF RemoveSession
  <2>2. removed'[q] = hostedSessions[s]
    BY <1>t, <2>1 DEF RestTyped
  <2>3. \A a \in S : session[a] \in Hosting /\ Removing(session[a])'
    BY <1>17, <2>1, <2>2 DEF Removing
  <2> QED
    BY <1>16, <1>17, <2>1, <2>3
<1>19. ASSUME NEW s \in Sessions, NEW T, Invalidate(s, T) PROVE Kind
  <2> DEFINE S == AttachmentsOf(hostedSessions[s])
  <2>1. /\ hostedSessions[s] # None /\ Release(S, FALSE)
        /\ UNCHANGED <<session, lease, attachmentsByClient, pc, current>>
        /\ hostedSessions' = [hostedSessions EXCEPT ![s] = None]
    BY <1>19 DEF Invalidate
  <2>2. hostedSessions'[s] # hostedSessions[s]
    BY <1>t, <2>1 DEF RestTyped
  <2>3. /\ S \in SUBSET Attachment
        /\ \A a \in S : session[a] \in Hosting /\ hostedSessions'[session[a][1]] # session[a]
    BY <1>17, <2>1, <2>2
  <2> HIDE DEF S
  <2> QED
    BY <1>16, <2>1, <2>3
<1>20. CASE CloseReleases
  <2> DEFINE all == UNION {AttachmentsOf(hostedSessions[s]) : s \in Hosted}
  <2>1. Release(all, FALSE) /\ UNCHANGED <<session, lease, attachmentsByClient, pc, current>> /\ closer # "no"
    BY <1>20 DEF CloseReleases
  <2>2. closing
    BY <2>1 DEF HandleInv, ClosedAreClosed
  <2>3. all \in SUBSET Attachment /\ \A a \in all : session[a] \in Hosting
    BY <1>17 DEF Hosted
  <2> HIDE DEF all
  <2> QED
    BY <1>16, <2>1, <2>2, <2>3
<1>21. ASSUME NEW a \in Attachment, Drained(a) PROVE Kind
  <2>1. Drains(a)
    BY <1>t, <1>21 DEF Drained, Drains, RestTyped
  <2> QED
    BY <2>1 DEF Kind
<1>22. ASSUME NEW a \in Attachment, NEW r \in {"done", "failed"}, LeaseReleased(a, r) \/ NothingToRelease(a)
       PROVE  Kind
  <2>1. /\ \E q \in {"done", "failed"} : releasing' = [releasing EXCEPT ![a] = q]
        /\ attachmentsByClient' = [c \in Clients |-> IF c \in {d \in Clients : attachmentsByClient[d] = a}
                                                     THEN None ELSE attachmentsByClient[c]]
        /\ UNCHANGED <<session, pc, current>>
        /\ \/ releasing[a] = "releasing" /\ lease' = [lease EXCEPT ![a] = "released"]
           \/ releasing[a] = "draining" /\ calls[a] = 0 /\ lease[a] = "refused" /\ lease' = lease
    BY <1>22 DEF LeaseReleased, NothingToRelease, Clear
  <2>2. Clears(a)
    BY <1>t, <2>1 DEF Clears, RestTyped
  <2> QED
    BY <2>2 DEF Kind
<1>23. ASSUME NEW a \in Attachment, CallSettles(a) PROVE Kind
  BY <1>0, <1>23 DEF CallSettles
<1>24. ASSUME NEW q \in Removals, RemoveCloses(q) \/ \E r \in {"closed", "failed"} : RemoveEnds(q, r) PROVE Kind
  BY <1>0, <1>24 DEF RemoveCloses, RemoveEnds
<1>25. CASE BeginClosing \/ Close \/ CloseHandles \/ UNCHANGED vars
  BY <1>0, <1>25 DEF BeginClosing, Close, CloseHandles, vars
<1>26. ASSUME NEW F \in SUBSET Sessions, CloseEnds(F) PROVE Kind
  BY <1>26 DEF CloseEnds, Kind, Ceases
<1> QED
  BY <1>1, <1>10, <1>11, <1>12, <1>13, <1>14, <1>15, <1>18, <1>19, <1>20, <1>21, <1>22, <1>23, <1>24,
     <1>25, <1>26, StepCases DEF OpenFails

----------------------------------------------------------------------------
(* Attachments, routes and leases                                          *)

\* What is a client's is its own, and has been made.
Own(c) ==
  /\ attachmentsByClient[c] # None =>
       attachmentsByClient[c][1] = c /\ lease[attachmentsByClient[c]] # "none"
  /\ current[c] # None => current[c][1] = c /\ lease[current[c]] # "none"

\* How far the lease of a and its release are.
Made(a) ==
  /\ lease[a] = "none" <=> session[a] = None
  /\ lease[a] = "none" => releasing[a] = "no"
  /\ lease[a] = "acquiring" => releasing[a] \in {"no", "draining"}
  /\ Released(a) => ~Live(a) /\ \A c \in Clients : attachmentsByClient[c] # a

\* No two attachments are made under one number: the requests that wait have numbers of their own.
Numbered(c) ==
  /\ \A i \in 1..Len(clientOperations[c]) :
       /\ clientOperations[c][i].n <= issued
       /\ clientOperations[c][i].op = "attach" =>
            /\ \/ lease[<<c, clientOperations[c][i].n>>] = "none"
               \/ i = 1 /\ pc[c] \in {"attaching", "undoing"}
            /\ \A j \in 1..Len(clientOperations[c]) :
                 j # i /\ clientOperations[c][j].op = "attach" =>
                   clientOperations[c][j].n # clientOperations[c][i].n
  /\ \A n \in 1..MaxOps : n > issued => lease[<<c, n>>] = "none"

\* While an operation of c is under way, its route is the one it found, or gone.
Route(c) ==
  /\ pc[c] \in {"acquiring", "acquired", "switching", "detaching", "leaving"} =>
       attachmentsByClient[c] \in {None, current[c]}
  /\ pc[c] \in {"attaching", "undoing"} => attachmentsByClient[c] = None
  /\ pc[c] = "attaching" => lease[current[c]] = "acquiring"

\* A lease is routed, or in the hands of the operation that asked for it.
Holds(a) ==
  Live(a) => \/ attachmentsByClient[a[1]] = a
             \/ pc[a[1]] \in {"attaching", "undoing"} /\ current[a[1]] = a
             \/ closer = "done"

\* The shutdown waits for what was under way, the disconnects among it.
Settles(c) ==
  /\ closer # "no" => lost = Clients
  /\ closer # "no" /\ pc[c] \in Attaching => closer = "settling" /\ settling[c] > 0
  /\ \A i \in 1..Len(clientOperations[c]) : clientOperations[c][i].op = "disconnect" =>
       \/ closer = "no"
       \/ closer = "settling" /\ i <= settling[c]

RouterInv ==
  /\ Typed /\ HandleInv
  /\ \A c \in Clients : Own(c) /\ Numbered(c) /\ Route(c) /\ Settles(c)
  /\ \A a \in Attachment : Made(a) /\ Holds(a)
  /\ ClientLeases

LEMMA AttachmentTyped ==
  /\ \A a \in Attachment : a[1] \in Clients /\ a # None
  /\ \A c \in Clients : \A n \in 1..MaxOps : <<c, n>> \in Attachment /\ <<c, n>>[1] = c
BY BoundsAssumption DEF Attachment

\* c's state, where its types matter.
LEMMA ClientTyped ==
  ASSUME Typed, NEW c \in Clients
  PROVE  /\ attachmentsByClient[c] \in Attachment \cup {None} /\ current[c] \in Attachment \cup {None}
         /\ pc[c] \in {"attaching", "undoing", "switching", "detaching", "leaving"} =>
              current[c] \in Attachment /\ clientOperations[c] # <<>>
         /\ clientOperations[c] \in Seq(Operation) /\ Len(clientOperations[c]) \in Nat
         /\ settling[c] \in Nat /\ got[c] \in Hosting \cup {None}
<1>1. ClientsTyped /\ RestTyped /\ Placed(c)
  BY TypeParts DEF Typed
<1>2. clientOperations[c] \in Seq(Operation)
  BY <1>1 DEF ClientsTyped
<1>3. Len(clientOperations[c]) \in Nat
  BY <1>2, LenProperties
<1> QED
  BY <1>1, <1>2, <1>3 DEF ClientsTyped, RestTyped, Placed, Attaching

\* An attachment is made once, when its client has no other.
LEMMA MakesFresh ==
  ASSUME RouterInv, NEW c \in Clients, NEW a \in Attachment, Makes(c, a)
  PROVE  /\ a[1] = c /\ lease[a] = "none" /\ session[a] = None /\ releasing[a] = "no"
         /\ attachmentsByClient[c] = None /\ closer \in {"no", "settling"}
         /\ \A b \in Attachment : b[1] = c => ~Live(b)
<1>0. /\ Own(c) /\ Numbered(c) /\ Route(c) /\ Settles(c) /\ Made(a) /\ Typed
      /\ pc[c] \in {"acquired", "switching"}
  BY DEF RouterInv, Makes
<1>1. 1 \in 1..Len(clientOperations[c]) /\ This(c) = clientOperations[c][1]
  <2>1. Len(clientOperations[c]) # 0 /\ Len(clientOperations[c]) \in Nat
    BY <1>0, ClientTyped, EmptySeq DEF Makes
  <2> QED
    BY <1>0, <2>1, ClientTyped, HeadTailProperties DEF This, Makes
<1>2. lease[a] = "none" /\ a[1] = c
  BY <1>0, <1>1 DEF Numbered, Makes
<1>3. session[a] = None /\ releasing[a] = "no"
  BY <1>0, <1>2 DEF Made
<1>4. attachmentsByClient[c] = None
  <2>1. CASE current[c] = None
    BY <1>0, <2>1 DEF Route
  <2>2. CASE pc[c] = "switching" /\ releasing[current[c]] = "done"
    <3>1. current[c] \in Attachment
      BY <1>0, <2>2, ClientTyped
    <3>2. attachmentsByClient[c] # current[c]
      BY <2>2, <3>1 DEF RouterInv, Made, Released
    <3> QED
      BY <1>0, <3>2 DEF Route
  <2> QED
    BY <2>1, <2>2 DEF Makes
<1>5. closer \in {"no", "settling"}
  BY <1>0 DEF Settles, Attaching
<1>6. \A b \in Attachment : b[1] = c => ~Live(b)
  BY <1>0, <1>4, <1>5, AttachmentTyped DEF RouterInv, Holds
<1> QED
  BY <1>2, <1>3, <1>4, <1>5, <1>6

\* What an operation in the middle of an attach has in its hands.
LEMMA InHand ==
  ASSUME RouterInv, NEW c \in Clients, pc[c] \in {"attaching", "undoing", "switching", "detaching", "leaving"}
  PROVE  current[c] \in Attachment /\ current[c][1] = c /\ lease[current[c]] # "none"
BY ClientTyped, AttachmentTyped DEF RouterInv, Own

\* The lease of an attachment is asked for by the operation that makes it, and no other is touched.
LEMMA LeaseSteps ==
  ASSUME RouterInv, Kind, NEW a \in Attachment
  PROVE  /\ lease[a] # "none" => lease'[a] # "none" /\ session'[a] = session[a]
         /\ lease[a] = "none" /\ lease'[a] # "none" => \E c \in Clients : Makes(c, a)
         /\ Live(a)' => Live(a) \/ \E c \in Clients : Makes(c, a)
<1>0. Made(a) /\ \A c \in Clients : pc[c] = "attaching" => lease[current[c]] = "acquiring"
  BY DEF RouterInv, Route
<1>1. ASSUME NEW c \in Clients, NEW b \in Attachment, Makes(c, b)
      PROVE  /\ lease[a] # "none" => lease'[a] # "none" /\ session'[a] = session[a]
             /\ lease[a] = "none" /\ lease'[a] # "none" => \E d \in Clients : Makes(d, a)
             /\ Live(a)' => Live(a) \/ \E d \in Clients : Makes(d, a)
  <2>1. CASE a = b
    BY <1>1, <2>1, MakesFresh
  <2>2. CASE a # b
    BY <1>1, <2>2 DEF Makes, Live
  <2> QED
    BY <2>1, <2>2
<1>2. CASE Rests \/ Ceases \/ \E S \in SUBSET Attachment : Frees(S)
  BY <1>2 DEF Rests, Ceases, Frees, Live
<1>3. ASSUME NEW c \in Clients, NEW b \in Attachment,
             Lets(c, b) \/ Grants(c, b) \/ Undoes(c, b) \/ Refuses(c, b)
      PROVE  /\ lease[a] # "none" => lease'[a] # "none"
             /\ lease[a] = "none" => lease'[a] = "none"
             /\ Live(a)' => Live(a)
             /\ session' = session
  BY <1>0, <1>3 DEF Lets, Grants, Undoes, Refuses, Live
<1>4. ASSUME NEW b \in Attachment, Drains(b) \/ Clears(b)
      PROVE  /\ lease[a] # "none" => lease'[a] # "none"
             /\ lease[a] = "none" => lease'[a] = "none"
             /\ Live(a)' => Live(a)
             /\ session' = session
  BY <1>0, <1>4 DEF Drains, Clears, Live, Made
<1> QED
  BY <1>1, <1>2, <1>3, <1>4 DEF Kind

LEMMA OwnStep ==
  ASSUME RouterInv, Kind, NEW c \in Clients
  PROVE  Own(c)'
<1>0. Own(c) /\ \A a \in Attachment : lease[a] # "none" => lease'[a] # "none"
  BY LeaseSteps DEF RouterInv
<1>1. attachmentsByClient[c] \in Attachment \cup {None} /\ current[c] \in Attachment \cup {None}
  BY ClientTyped DEF RouterInv
<1>2. /\ attachmentsByClient'[c] \in {None, attachmentsByClient[c], current[c]}
      /\ \/ current'[c] \in {None, current[c], attachmentsByClient[c]}
         \/ \E a \in Attachment : Makes(c, a) /\ current'[c] = a
  <2>1. CASE Rests \/ Ceases \/ \E S \in SUBSET Attachment : Frees(S)
    BY <2>1 DEF Rests, Ceases, Frees, Idles
  <2>2. ASSUME NEW d \in Clients, NEW b \in Attachment, Lets(d, b) \/ Grants(d, b) \/ Undoes(d, b) \/ Refuses(d, b)
        PROVE  /\ attachmentsByClient'[c] \in {None, attachmentsByClient[c], current[c]}
               /\ current'[c] \in {None, current[c], attachmentsByClient[c]}
    <3>1. CASE d = c
      BY <2>2, <3>1 DEF Lets, Grants, Undoes, Refuses
    <3>2. CASE d # c
      BY <2>2, <3>2 DEF Lets, Grants, Undoes, Refuses, Others
    <3> QED
      BY <3>1, <3>2
  <2>3. ASSUME NEW d \in Clients, NEW b \in Attachment, Makes(d, b)
        PROVE  /\ attachmentsByClient'[c] \in {None, attachmentsByClient[c], current[c]}
               /\ \/ current'[c] \in {None, current[c], attachmentsByClient[c]}
                  \/ \E a \in Attachment : Makes(c, a) /\ current'[c] = a
    <3>1. attachmentsByClient' = attachmentsByClient /\ current'[d] = b /\ (d # c => current'[c] = current[c])
      BY <2>3 DEF Makes, Others
    <3> QED
      BY <2>3, <3>1
  <2>4. ASSUME NEW b \in Attachment, Drains(b) \/ Clears(b)
        PROVE  /\ attachmentsByClient'[c] \in {None, attachmentsByClient[c], current[c]}
               /\ current'[c] \in {None, current[c], attachmentsByClient[c]}
    BY <2>4 DEF Drains, Clears
  <2> QED
    BY <2>1, <2>2, <2>3, <2>4 DEF Kind
<1>3. ASSUME NEW a \in Attachment, Makes(c, a) PROVE a[1] = c /\ lease'[a] # "none"
  BY <1>3, MakesFresh DEF Makes
<1> QED
  BY <1>0, <1>1, <1>2, <1>3 DEF Own

LEMMA MadeStep ==
  ASSUME RouterInv, Kind, NEW a \in Attachment
  PROVE  Made(a)'
<1>0. /\ Made(a) /\ \A c \in Clients : Own(c) /\ Route(c)
      /\ \A c \in Clients : attachmentsByClient[c] \in Attachment \cup {None}
      /\ a # None /\ releasing[a] \in {"no", "draining", "releasing", "done", "failed"}
  BY ClientTyped, AttachmentTyped, TypeParts DEF RouterInv, RestTyped, Typed
<1>1. CASE Rests
  BY <1>0, <1>1 DEF Rests, Made, Released, Live
<1>2. CASE Ceases
  BY <1>0, <1>2 DEF Ceases, Made, Released, Live
<1>3. ASSUME NEW S \in SUBSET Attachment, Begun(S), UNCHANGED <<session, lease, attachmentsByClient>>,
             a \in S => lease[a] # "none"
      PROVE  Made(a)'
  <2>1. releasing'[a] = releasing[a] \/ (releasing[a] = "no" /\ releasing'[a] = "draining" /\ lease[a] # "none")
    BY <1>0, <1>3 DEF Begun
  <2> QED
    BY <1>0, <1>3, <2>1 DEF Made, Released, Live
<1>4. ASSUME NEW S \in SUBSET Attachment, Frees(S) PROVE Made(a)'
  <2>1. a \in S => lease[a] # "none"
    BY <1>0, <1>4, BoundsAssumption DEF Frees, Made
  <2> QED
    BY <1>3, <1>4, <2>1 DEF Frees
<1>5. ASSUME NEW c \in Clients, NEW b \in Attachment, Lets(c, b) PROVE Made(a)'
  <2>1. lease[b] # "none"
    BY <1>0, <1>5, AttachmentTyped DEF Lets, Own
  <2> QED
    BY <1>3, <1>5, <2>1 DEF Lets
<1>6. ASSUME NEW c \in Clients, NEW b \in Attachment, Makes(c, b) PROVE Made(a)'
  <2>1. CASE a = b
    <3>1. /\ lease'[a] = "acquiring" /\ session'[a] \in Hosting /\ releasing'[a] = "no"
      BY <1>6, <2>1, MakesFresh DEF Makes
    <3> QED
      BY <3>1, BoundsAssumption DEF Made, Released
  <2>2. CASE a # b
    BY <1>0, <1>6, <2>2 DEF Makes, Made, Released, Live
  <2> QED
    BY <2>1, <2>2
<1>7. ASSUME NEW c \in Clients, NEW b \in Attachment, Grants(c, b) \/ Refuses(c, b) PROVE Made(a)'
  <2>1. lease[b] = "acquiring"
    BY <1>0, <1>7 DEF Grants, Refuses, Route
  <2>2. CASE a = b
    BY <1>0, <1>7, <2>1, <2>2 DEF Grants, Refuses, Made, Released, Live
  <2>3. CASE a # b
    BY <1>0, <1>7, <2>3 DEF Grants, Refuses, Made, Released, Live
  <2> QED
    BY <2>2, <2>3
<1>8. ASSUME NEW c \in Clients, NEW b \in Attachment, Undoes(c, b) PROVE Made(a)'
  <2>1. lease[b] = "acquiring"
    BY <1>0, <1>8 DEF Undoes, Route
  <2>2. CASE a = b
    BY <1>0, <1>8, <2>1, <2>2 DEF Undoes, Begun, Made, Released, Live
  <2>3. CASE a # b
    BY <1>0, <1>8, <2>3 DEF Undoes, Begun, Made, Released, Live
  <2> QED
    BY <2>2, <2>3
<1>9. ASSUME NEW b \in Attachment, Drains(b) PROVE Made(a)'
  BY <1>0, <1>9 DEF Drains, Made, Released, Live
<1>10. ASSUME NEW b \in Attachment, Clears(b) PROVE Made(a)'
  <2>1. CASE a = b
    BY <1>0, <1>10, <2>1 DEF Clears, Made, Released, Live
  <2>2. CASE a # b
    BY <1>0, <1>10, <2>2 DEF Clears, Made, Released, Live
  <2> QED
    BY <2>1, <2>2
<1> QED
  BY <1>1, <1>2, <1>4, <1>5, <1>6, <1>7, <1>8, <1>9, <1>10 DEF Kind

LEMMA RouteStep ==
  ASSUME RouterInv, Kind, NEW c \in Clients
  PROVE  Route(c)'
<1>0. /\ Route(c) /\ Own(c) /\ attachmentsByClient[c] \in Attachment \cup {None}
      /\ \A a \in Attachment : Made(a)
      /\ \A d \in Clients : pc[d] \in {"attaching", "undoing", "switching", "detaching", "leaving"} =>
           current[d] \in Attachment /\ current[d][1] = d
  BY ClientTyped, InHand DEF RouterInv
<1>1. CASE Rests
  <2>1. UNCHANGED <<lease, attachmentsByClient>> /\ Idles(c)
    BY <1>1 DEF Rests
  <2> QED
    BY <1>0, <2>1 DEF Idles, Route
<1>2. ASSUME pc'[c] = pc[c], current'[c] = current[c],
             attachmentsByClient'[c] \in {None, attachmentsByClient[c]},
             pc[c] = "attaching" => lease'[current[c]] = lease[current[c]]
      PROVE  Route(c)'
  BY <1>0, <1>2 DEF Route
<1>3. CASE Ceases \/ \E S \in SUBSET Attachment : Frees(S)
  BY <1>2, <1>3 DEF Ceases, Frees
<1>4. ASSUME NEW d \in Clients, NEW a \in Attachment,
             Lets(d, a) \/ Makes(d, a) \/ Grants(d, a) \/ Undoes(d, a) \/ Refuses(d, a), d # c
      PROVE  Route(c)'
  <2>1. /\ pc'[c] = pc[c] /\ current'[c] = current[c] /\ attachmentsByClient'[c] = attachmentsByClient[c]
        /\ \A b \in Attachment : b # a => lease'[b] = lease[b]
    BY <1>4 DEF Lets, Makes, Grants, Undoes, Refuses, Others
  <2>2. a[1] = d \/ lease' = lease
    <3>1. ASSUME Makes(d, a) PROVE a[1] = d
      BY <3>1, MakesFresh
    <3> QED
      BY <1>0, <1>4, <3>1 DEF Lets, Grants, Undoes, Refuses
  <2> QED
    BY <1>0, <1>2, <1>4, <2>1, <2>2
<1>5. ASSUME NEW a \in Attachment, Lets(c, a) \/ Makes(c, a) \/ Grants(c, a) \/ Undoes(c, a) \/ Refuses(c, a)
      PROVE  Route(c)'
  <2>1. CASE Lets(c, a)
    BY <1>0, <2>1 DEF Lets, Route
  <2>2. CASE Makes(c, a)
    BY <2>2, MakesFresh DEF Makes, Route
  <2>3. CASE Grants(c, a) \/ Undoes(c, a) \/ Refuses(c, a)
    BY <1>0, <2>3 DEF Grants, Undoes, Refuses, Route
  <2> QED
    BY <1>5, <2>1, <2>2, <2>3
<1>6. ASSUME NEW a \in Attachment, Drains(a) \/ Clears(a) PROVE Route(c)'
  <2>1. /\ pc' = pc /\ current' = current /\ attachmentsByClient'[c] \in {None, attachmentsByClient[c]}
        /\ \A b \in Attachment : b # a => lease'[b] = lease[b]
        /\ lease' = lease \/ releasing[a] = "releasing" \/ lease[a] = "refused"
    BY <1>6 DEF Drains, Clears
  <2>2. lease' = lease \/ lease[a] # "acquiring"
    BY <1>0, <2>1 DEF Made
  <2>3. pc[c] = "attaching" => lease'[current[c]] = lease[current[c]]
    BY <1>0, <2>1, <2>2 DEF Route
  <2> QED
    BY <1>2, <2>1, <2>3
<1> QED
  BY <1>1, <1>3, <1>4, <1>5, <1>6 DEF Kind

LEMMA HoldsStep ==
  ASSUME RouterInv, Kind, HostsPersist, NEW a \in Attachment
  PROVE  Holds(a)'
<1>0. /\ Holds(a) /\ Made(a) /\ a[1] \in Clients /\ a # None
      /\ \A d \in Clients : Route(d)
      /\ closer = "done" => closer' = "done"
  BY AttachmentTyped DEF RouterInv, HostsPersist
<1> SUFFICES ASSUME Live(a)', closer' # "done"
             PROVE  \/ attachmentsByClient'[a[1]] = a
                    \/ pc'[a[1]] \in {"attaching", "undoing"} /\ current'[a[1]] = a
  BY DEF Holds
<1>1. ASSUME Live(a), pc'[a[1]] = pc[a[1]], current'[a[1]] = current[a[1]],
             attachmentsByClient'[a[1]] = attachmentsByClient[a[1]]
      PROVE  \/ attachmentsByClient'[a[1]] = a
             \/ pc'[a[1]] \in {"attaching", "undoing"} /\ current'[a[1]] = a
  BY <1>0, <1>1 DEF Holds
<1>2. CASE Rests
  <2>1. Live(a) /\ Idles(a[1]) /\ attachmentsByClient'[a[1]] = attachmentsByClient[a[1]]
    BY <1>0, <1>2 DEF Rests, Live
  <2>2. \/ attachmentsByClient[a[1]] = a
        \/ pc[a[1]] \in {"attaching", "undoing"} /\ current[a[1]] = a /\ ~Released(current[a[1]])
    BY <1>0, <2>1 DEF Holds, Made
  <2> QED
    BY <2>1, <2>2 DEF Idles
<1>3. CASE Ceases
  BY <1>3 DEF Ceases
<1>4. CASE \E S \in SUBSET Attachment : Frees(S)
  BY <1>1, <1>4 DEF Frees, Live
<1>5. ASSUME NEW b \in Attachment, Drains(b) \/ Clears(b)
      PROVE  \/ attachmentsByClient'[a[1]] = a
             \/ pc'[a[1]] \in {"attaching", "undoing"} /\ current'[a[1]] = a
  <2>1. CASE Drains(b)
    BY <1>1, <2>1 DEF Drains, Live
  <2>2. CASE Clears(b)
    <3>1. a # b
      BY <2>2 DEF Clears, Live
    <3>2. Live(a) /\ UNCHANGED <<pc, current>>
      BY <2>2, <3>1 DEF Clears, Live
    <3>3. attachmentsByClient[a[1]] = a => attachmentsByClient'[a[1]] = a
      BY <1>0, <2>2, <3>1 DEF Clears
    <3> QED
      BY <1>0, <3>2, <3>3 DEF Holds
  <2> QED
    BY <1>5, <2>1, <2>2
<1>6. ASSUME NEW d \in Clients, NEW b \in Attachment,
             Lets(d, b) \/ Makes(d, b) \/ Grants(d, b) \/ Undoes(d, b) \/ Refuses(d, b), d # a[1]
      PROVE  \/ attachmentsByClient'[a[1]] = a
             \/ pc'[a[1]] \in {"attaching", "undoing"} /\ current'[a[1]] = a
  <2>1. /\ pc'[a[1]] = pc[a[1]] /\ current'[a[1]] = current[a[1]]
        /\ attachmentsByClient'[a[1]] = attachmentsByClient[a[1]]
    BY <1>0, <1>6 DEF Lets, Makes, Grants, Undoes, Refuses, Others
  <2>2. Live(a)
    <3>1. ~Makes(d, a)
      BY <1>6, MakesFresh
    <3>2. ASSUME NEW e \in Clients, Makes(e, a) PROVE e = d
      <4>1. e = a[1] /\ pc'[e] = "attaching" /\ pc[e] # "attaching"
        BY <3>2, MakesFresh DEF Makes
      <4> QED
        BY <2>1, <4>1
    <3> QED
      BY <3>1, <3>2, LeaseSteps
  <2> QED
    BY <1>1, <2>1, <2>2
<1>7. ASSUME NEW b \in Attachment,
             Lets(a[1], b) \/ Makes(a[1], b) \/ Grants(a[1], b) \/ Undoes(a[1], b) \/ Refuses(a[1], b)
      PROVE  \/ attachmentsByClient'[a[1]] = a
             \/ pc'[a[1]] \in {"attaching", "undoing"} /\ current'[a[1]] = a
  <2>1. CASE Lets(a[1], b)
    <3>1. /\ Live(a) /\ pc[a[1]] \notin {"attaching", "undoing"}
          /\ attachmentsByClient'[a[1]] = attachmentsByClient[a[1]]
      BY <2>1 DEF Lets, Live
    <3> QED
      BY <1>0, <3>1 DEF Holds
  <2>2. CASE Makes(a[1], b)
    <3>1. a = b
      <4>1. a # b => lease'[a] = lease[a] /\ ~Live(a)
        BY <1>0, <2>2, MakesFresh DEF Makes
      <4> QED
        BY <4>1 DEF Live
    <3> QED
      BY <2>2, <3>1 DEF Makes
  <2>3. CASE Grants(a[1], b) \/ Undoes(a[1], b) \/ Refuses(a[1], b)
    <3>1. /\ pc[a[1]] = "attaching" /\ b = current[a[1]] /\ attachmentsByClient[a[1]] = None
          /\ a # b => lease'[a] = lease[a]
      BY <1>0, <2>3 DEF Grants, Undoes, Refuses, Route
    <3>2. a = b
      BY <1>0, <3>1 DEF Live, Holds
    <3> QED
      BY <2>3, <3>2 DEF Grants, Undoes, Refuses, Live
  <2> QED
    BY <1>7, <2>1, <2>2, <2>3
<1> QED
  BY <1>0, <1>2, <1>3, <1>4, <1>5, <1>6, <1>7 DEF Kind

----------------------------------------------------------------------------
(* What a step does to the queues of operations and to the shutdown.       *)

\* The operations of c wait, the first of them ends, or a new one waits behind them.
Waits(c) ==
  /\ clientOperations'[c] = clientOperations[c]
  /\ pc[c] \in {"attaching", "undoing"} => pc'[c] \in {"attaching", "undoing"}
  /\ pc'[c] \in Attaching => pc[c] \in Attaching \/ ~closing

Shortens(c) ==
  /\ clientOperations[c] # <<>> /\ clientOperations'[c] = Tail(clientOperations[c])
  /\ pc'[c] \in {"idle", "left"}
  /\ settling'[c] = IF settling[c] = 0 THEN 0 ELSE settling[c] - 1

Lengthens(c) ==
  /\ pc'[c] = pc[c] /\ settling'[c] = settling[c]
  /\ \E o \in Operation :
       /\ clientOperations'[c] = Append(clientOperations[c], o)
       /\ \/ o.op # "disconnect" /\ o.n = issued' /\ issued' = issued + 1
          \/ o.op = "disconnect" /\ o.n = 0 /\ c \notin lost

\* The shutdown begins, or goes on, once every client is lost and what was under way is over.
Shuts ==
  \/ /\ closer = "no" /\ closer' = "settling" /\ lost = Clients
     /\ \A c \in Clients : settling'[c] = Len(clientOperations[c])
  \/ closer = "settling" /\ closer' = "releasing" /\ \A c \in Clients : settling[c] = 0 /\ settling'[c] = 0
  \/ /\ closer \in {"releasing", "closing"} /\ closer' \in {"closing", "done"}
     /\ UNCHANGED settling

Pace ==
  /\ issued' \in {issued, issued + 1} /\ lost \subseteq lost'
  /\ \/ /\ UNCHANGED closer
        /\ \A c \in Clients : Shortens(c) \/ Lengthens(c) \/ (Waits(c) /\ settling'[c] = settling[c])
     \/ Shuts /\ UNCHANGED pc /\ \A c \in Clients : Waits(c)

LEMMA Paces ==
  ASSUME Typed, [Next]_vars
  PROVE  Pace
<1> USE DEF hostVars, requestVars, clientVars, routeVars, releaseVars, callVars, removeVars,
            closeVars
<1>t. RestTyped /\ ClientsTyped /\ \A c \in Clients : Placed(c)
  BY TypeParts DEF Typed
<1>0. ASSUME UNCHANGED <<clientOperations, pc, settling, closer, lost>>, issued' \in {issued, issued + 1}
      PROVE  Pace
  BY <1>0 DEF Pace, Waits
<1>1. ASSUME NEW c \in Clients, NEW at \in {"idle", "left"}, Ends(c, at), clientOperations[c] # <<>>,
             UNCHANGED <<issued, lost, closer>>
      PROVE  Pace
  <2>1. Shortens(c)
    BY <1>t, <1>1 DEF Ends, ClientsTyped, Shortens
  <2>2. \A d \in Clients : d # c => Waits(d) /\ settling'[d] = settling[d]
    BY <1>t, <1>1 DEF Ends, ClientsTyped, Waits
  <2> QED
    BY <1>1, <2>1, <2>2 DEF Pace
<1>2. ASSUME NEW c \in Clients, NEW at, NEW h, NEW a, Goes(c, at, h, a), UNCHANGED <<issued, lost, closer>>,
             pc[c] \in {"attaching", "undoing"} => at \in {"attaching", "undoing"},
             at \in Attaching => pc[c] \in Attaching \/ ~closing
      PROVE  Pace
  <2>1. \A d \in Clients : Waits(d) /\ settling'[d] = settling[d]
    BY <1>t, <1>2 DEF Goes, ClientsTyped, Waits
  <2> QED
    BY <1>2, <2>1 DEF Pace
<1>3. ASSUME NEW c \in Clients, NEW o \in Operation, Chain(c, o), UNCHANGED <<pc, settling, closer>>,
             lost \subseteq lost',
             \/ o.op # "disconnect" /\ o.n = issued' /\ issued' = issued + 1
             \/ o.op = "disconnect" /\ o.n = 0 /\ c \notin lost /\ issued' = issued
      PROVE  Pace
  <2>1. clientOperations'[c] = Append(clientOperations[c], o)
    BY <1>t, <1>3 DEF Chain, ClientsTyped
  <2>2. Lengthens(c)
    BY <1>3, <2>1 DEF Lengthens
  <2>3. \A d \in Clients : d # c => Waits(d) /\ settling'[d] = settling[d]
    BY <1>t, <1>3 DEF Chain, ClientsTyped, Waits
  <2> QED
    BY <1>3, <2>2, <2>3 DEF Pace
<1>4. ASSUME NEW c \in Clients, NEW op \in {"attach", "call", "detach"}, NEW to, Request(c, op, to),
             [op |-> op, to |-> to, n |-> issued'] \in Operation
      PROVE  Pace
  <2> DEFINE o == [op |-> op, to |-> to, n |-> issued']
  <2>1. o.op # "disconnect" /\ o.n = issued'
    OBVIOUS
  <2>2. o \in Operation /\ Chain(c, o) /\ UNCHANGED <<pc, settling, closer, lost>> /\ issued' = issued + 1
    BY <1>4 DEF Request
  <2> HIDE DEF o
  <2> QED
    BY <1>3, <2>1, <2>2
<1>5. ASSUME NEW c \in Clients, Requests(c) PROVE Pace
  <2>1. ASSUME NEW op, NEW to, Request(c, op, to) PROVE issued' \in 1..MaxOps
    BY <1>t, <2>1, BoundsAssumption DEF Request, RestTyped
  <2>2. CASE \E s \in Sessions : AttachClient(c, s)
    BY <1>4, <2>1, <2>2, Requested DEF AttachClient
  <2>3. CASE DetachClient(c)
    BY <1>4, <2>1, <2>3, Requested DEF DetachClient
  <2>4. CASE ExecuteServiceCall(c)
    <3>1. told[c] \in Attachment
      BY <1>t, <2>4 DEF ExecuteServiceCall, RestTyped
    <3> QED
      BY <1>4, <2>1, <2>4, <3>1, Requested DEF ExecuteServiceCall
  <2>5. CASE Disconnect(c)
    <3> DEFINE o == [op |-> "disconnect", to |-> None, n |-> 0]
    <3>1. o \in Operation /\ o.op = "disconnect" /\ o.n = 0
      BY DisconnectRequested
    <3>2. Chain(c, o) /\ UNCHANGED <<pc, settling, closer, issued>> /\ c \notin lost /\ lost \subseteq lost'
      BY <2>5 DEF Disconnect
    <3> HIDE DEF o
    <3> QED
      BY <1>3, <3>1, <3>2
  <2> QED
    BY <1>5, <2>2, <2>3, <2>4, <2>5 DEF Requests
<1>6. ASSUME NEW c \in Clients, Continues(c) PROVE Pace
  <2>1. CASE AttachReturns(c) \/ NothingToDetach(c) \/ CallRejected(c) \/ StartServiceCall(c)
    BY <1>1, <2>1 DEF AttachReturns, NothingToDetach, CallRejected, StartServiceCall, Starts
  <2>2. CASE AcquiredTooLate(c) \/ ReleaseAwaited(c)
    <3>1. clientOperations[c] # <<>>
      BY <1>t, <2>2 DEF AcquiredTooLate, ReleaseAwaited, Placed, Attaching
    <3> QED
      BY <1>1, <2>2, <3>1 DEF AcquiredTooLate, ReleaseAwaited
  <2>3. CASE Left(c)
    <3>1. clientOperations[c] # <<>>
      BY <1>t, <2>3 DEF Left, Placed, Starts
    <3> QED
      BY <1>1, <2>3, <3>1 DEF Left
  <2>4. CASE Acquire(c)
    BY <1>2, <2>4 DEF Acquire, Starts
  <2>5. CASE SwitchFrom(c)
    BY <1>2, <2>5 DEF SwitchFrom, Attaching
  <2>6. CASE AttachTo(c)
    BY <1>2, <2>6 DEF AttachTo, MakeAttachment, Attaching
  <2>7. CASE Detach(c) \/ Leave(c)
    BY <1>2, <2>7 DEF Detach, Leave, Starts, Attaching
  <2> QED
    BY <1>6, <2>1, <2>2, <2>3, <2>4, <2>5, <2>6, <2>7 DEF Continues
<1>7. ASSUME NEW c \in Clients, LeaseGranted(c) \/ LeaseRefused(c) PROVE Pace
  <2>1. clientOperations[c] # <<>> /\ UNCHANGED <<issued, lost, closer>> /\ pc[c] = "attaching"
    BY <1>t, <1>7 DEF LeaseGranted, LeaseRefused, Placed, Attaching
  <2>2. Ends(c, "idle") \/ Goes(c, "undoing", None, current[c])
    BY <1>7 DEF LeaseGranted, LeaseRefused
  <2> QED
    BY <1>1, <1>2, <2>1, <2>2 DEF Attaching
<1>8. ASSUME NEW s \in Sessions, OpenEnds(s) PROVE Pace
  <2>1. ASSUME NEW c \in Clients, c \in Opening(s) PROVE Shortens(c)
    BY <1>t, <1>8, <2>1 DEF OpenEnds, Shortens, Opening, Placed, Attaching, ClientsTyped
  <2>2. ASSUME NEW c \in Clients, c \notin Opening(s) PROVE Waits(c) /\ settling'[c] = settling[c]
    BY <1>t, <1>8, <2>2 DEF OpenEnds, Waits, ClientsTyped
  <2> QED
    BY <1>8, <2>1, <2>2 DEF Pace, OpenEnds
<1>9. ASSUME NEW s \in Sessions, NEW h \in Hosting, OpenSucceeds(s, h) PROVE Pace
  <2>1. \A c \in Clients : Waits(c) /\ settling'[c] = settling[c]
    BY <1>9 DEF OpenSucceeds, Waits, Opening, Attaching
  <2> QED
    BY <1>9, <2>1 DEF Pace, OpenSucceeds
<1>10. ASSUME NEW s \in Sessions, NEW h \in Hosting, OpenedWhileClosing(s, h) PROVE Pace
  BY <1>0, <1>10 DEF OpenedWhileClosing
<1>11. ASSUME NEW q \in Removals, NEW s \in Sessions, RemoveSession(q, s) PROVE Pace
  BY <1>0, <1>11 DEF RemoveSession
<1>12. ASSUME NEW s \in Sessions, NEW T, Invalidate(s, T) PROVE Pace
  BY <1>0, <1>12 DEF Invalidate
<1>13. ASSUME NEW a \in Attachment, NEW r,
              Drained(a) \/ NothingToRelease(a) \/ CallSettles(a) \/ LeaseReleased(a, r)
       PROVE  Pace
  BY <1>0, <1>13 DEF Drained, NothingToRelease, LeaseReleased, CallSettles, Clear
<1>14. ASSUME NEW q \in Removals, NEW r, RemoveCloses(q) \/ RemoveEnds(q, r) PROVE Pace
  BY <1>0, <1>14 DEF RemoveCloses, RemoveEnds
<1>15. CASE BeginClosing
  BY <1>0, <1>15 DEF BeginClosing
<1>16. ASSUME UNCHANGED <<clientOperations, pc, issued, lost>>, Shuts PROVE Pace
  BY <1>16 DEF Pace, Waits
<1>17. CASE Close
  BY <1>16, <1>17 DEF Close, Shuts
<1>18. CASE CloseReleases \/ CloseHandles
  BY <1>16, <1>18 DEF CloseReleases, CloseHandles, Shuts
<1>19. ASSUME NEW F, CloseEnds(F) PROVE Pace
  BY <1>16, <1>19 DEF CloseEnds, Shuts
<1>20. CASE UNCHANGED vars
  BY <1>0, <1>20 DEF vars
<1> QED
  BY <1>5, <1>6, <1>7, <1>8, <1>9, <1>10, <1>11, <1>12, <1>13, <1>14, <1>15, <1>17, <1>18, <1>19, <1>20,
     StepCases DEF OpenFails, OpenDrained

\* The operations of c are operations, before the step and after.
LEMMA Operations ==
  ASSUME Typed, NEW c \in Clients
  PROVE  /\ issued \in Nat /\ settling[c] \in Nat
         /\ \A i \in 1..Len(clientOperations[c]) : clientOperations[c][i] \in Operation
         /\ Waits(c) => clientOperations'[c] = clientOperations[c]
         /\ Shortens(c) => /\ Len(clientOperations'[c]) = Len(clientOperations[c]) - 1
                           /\ \A i \in 1..Len(clientOperations'[c]) :
                                clientOperations'[c][i] = clientOperations[c][i + 1]
         /\ Lengthens(c) => /\ Len(clientOperations'[c]) = Len(clientOperations[c]) + 1
                            /\ \A i \in 1..Len(clientOperations[c]) :
                                 clientOperations'[c][i] = clientOperations[c][i]
<1>1. clientOperations[c] \in Seq(Operation) /\ settling[c] \in Nat
  BY ClientTyped
<1>2. issued \in Nat
  BY TypeParts, BoundsAssumption DEF Typed, RestTyped
<1>3. Shortens(c) => /\ Len(clientOperations'[c]) = Len(clientOperations[c]) - 1
                     /\ \A i \in 1..Len(clientOperations'[c]) :
                          clientOperations'[c][i] = clientOperations[c][i + 1]
  BY <1>1, Shortened DEF Shortens
<1>4. Lengthens(c) => /\ Len(clientOperations'[c]) = Len(clientOperations[c]) + 1
                      /\ \A i \in 1..Len(clientOperations[c]) :
                           clientOperations'[c][i] = clientOperations[c][i]
  BY <1>1, Chained DEF Lengthens
<1>5. \A i \in 1..Len(clientOperations[c]) : clientOperations[c][i] \in Operation
  BY <1>1
<1> QED
  BY <1>1, <1>2, <1>3, <1>4, <1>5 DEF Waits

LEMMA NumberedStep ==
  ASSUME RouterInv, Kind, Pace, NEW c \in Clients
  PROVE  Numbered(c)'
<1> DEFINE q == clientOperations[c]
           p == clientOperations'[c]
<1>0. /\ Numbered(c) /\ Typed /\ Len(q) \in Nat /\ issued \in Nat /\ issued' \in {issued, issued + 1}
      /\ \A i \in 1..Len(q) : q[i] \in Operation
  BY ClientTyped, Operations DEF RouterInv, Pace
<1>1. ASSUME NEW n \in 1..MaxOps, lease[<<c, n>>] = "none", lease'[<<c, n>>] # "none"
      PROVE  /\ Len(q) >= 1 /\ q[1].op = "attach" /\ q[1].n = n
             /\ pc[c] \in {"acquired", "switching"} /\ pc'[c] = "attaching"
  <2>1. <<c, n>> \in Attachment /\ <<c, n>>[1] = c
    BY AttachmentTyped
  <2>2. PICK d \in Clients : Makes(d, <<c, n>>)
    BY <1>1, <2>1, LeaseSteps
  <2>3. d = c
    BY <2>1, <2>2, MakesFresh
  <2>4. q # <<>> /\ Head(q).op = "attach" /\ <<c, n>> = <<c, Head(q).n>>
    BY <2>2, <2>3 DEF Makes, This
  <2>5. q \in Seq(Operation)
    BY <1>0, ClientTyped
  <2>6. Len(q) # 0 /\ Head(q) = q[1]
    BY <2>4, <2>5, EmptySeq, HeadTailProperties
  <2>7. q[1].op = "attach" /\ q[1].n = n /\ Len(q) >= 1
    BY <1>0, <2>4, <2>6
  <2> QED
    BY <2>2, <2>3, <2>7 DEF Makes
<1>2. ASSUME NEW n \in 1..MaxOps, n > issued' PROVE lease'[<<c, n>>] = "none"
  <2>1. n > issued
    BY <1>0, <1>2
  <2>2. lease[<<c, n>>] = "none"
    BY <1>0, <2>1 DEF Numbered
  <2>3. Len(q) >= 1 => 1 \in 1..Len(q)
    BY <1>0
  <2>4. Len(q) >= 1 => q[1].n <= issued
    BY <1>0, <2>3 DEF Numbered
  <2>5. ASSUME Len(q) >= 1, q[1].n = n PROVE FALSE
    <3>1. q[1].n <= issued
      BY <2>4, <2>5
    <3> QED
      BY <1>0, <2>1, <2>5, <3>1
  <2> QED
    BY <1>1, <2>2, <2>5
\* What is in the queue already.
<1>3. ASSUME NEW i \in 1..Len(q)
      PROVE  /\ q[i].n <= issued'
             /\ q[i].op = "attach" =>
                  /\ \/ lease'[<<c, q[i].n>>] = "none"
                     \/ i = 1 /\ pc'[c] = "attaching"
                     \/ i = 1 /\ pc[c] \in {"attaching", "undoing"}
                  /\ \A j \in 1..Len(q) : j # i /\ q[j].op = "attach" => q[j].n # q[i].n
  <2>1. q[i].n \in 0..MaxOps /\ (q[i].op = "attach" => q[i].n \in 1..MaxOps) /\ q[i].n <= issued
    BY <1>0, <1>3, AttachOperation DEF Numbered
  <2>2. q[i].n <= issued'
    BY <1>0, <2>1, BoundsAssumption
  <2>3. ASSUME q[i].op = "attach"
        PROVE  /\ \/ lease[<<c, q[i].n>>] = "none"
                  \/ i = 1 /\ pc[c] \in {"attaching", "undoing"}
               /\ \A j \in 1..Len(q) : j # i /\ q[j].op = "attach" => q[j].n # q[i].n
    BY <1>0, <1>3, <2>3 DEF Numbered
  <2>4. ASSUME q[i].op = "attach", lease[<<c, q[i].n>>] = "none", lease'[<<c, q[i].n>>] # "none"
        PROVE  i = 1 /\ pc'[c] = "attaching"
    <3>1. 1 \in 1..Len(q) /\ q[1].op = "attach" /\ q[1].n = q[i].n /\ pc'[c] = "attaching"
      BY <1>0, <1>1, <2>1, <2>4
    <3> QED
      BY <2>3, <2>4, <3>1
  <2> QED
    BY <2>2, <2>3, <2>4
<1> HIDE DEF q, p
<1>4. CASE Waits(c)
  <2>1. p = q /\ (pc[c] \in {"attaching", "undoing"} => pc'[c] \in {"attaching", "undoing"})
    BY <1>4 DEF Waits, p, q
  <2>2. \A i \in 1..Len(p) :
          /\ p[i].n <= issued'
          /\ p[i].op = "attach" =>
               /\ lease'[<<c, p[i].n>>] = "none" \/ (i = 1 /\ pc'[c] \in {"attaching", "undoing"})
               /\ \A j \in 1..Len(p) : j # i /\ p[j].op = "attach" => p[j].n # p[i].n
    BY <1>3, <2>1
  <2> QED
    BY <1>2, <2>2 DEF Numbered, p
<1>5. CASE Shortens(c)
  <2>1. /\ Len(p) = Len(q) - 1 /\ \A i \in 1..Len(p) : p[i] = q[i + 1]
        /\ pc'[c] \in {"idle", "left"}
    BY <1>0, <1>5, Operations DEF Shortens, p, q
  <2>2. \A i \in 1..Len(p) : i + 1 \in 1..Len(q) /\ i + 1 # 1 /\ p[i] = q[i + 1]
    BY <1>0, <2>1
  <2>3. \A i, j \in 1..Len(p) : j # i => j + 1 # i + 1
    BY <1>0, <2>1
  <2>4. ASSUME NEW i \in 1..Len(p)
        PROVE  /\ p[i].n <= issued'
               /\ p[i].op = "attach" =>
                    /\ lease'[<<c, p[i].n>>] = "none" \/ (i = 1 /\ pc'[c] \in {"attaching", "undoing"})
                    /\ \A j \in 1..Len(p) : j # i /\ p[j].op = "attach" => p[j].n # p[i].n
    <3>1. /\ p[i].n <= issued'
          /\ p[i].op = "attach" => lease'[<<c, p[i].n>>] = "none" \/ pc[c] \in {"attaching", "undoing"}
          /\ p[i].op = "attach" =>
               \A j \in 1..Len(q) : j # i + 1 /\ q[j].op = "attach" => q[j].n # p[i].n
      BY <1>3, <2>2
    <3>2. p[i].op = "attach" => lease'[<<c, p[i].n>>] = "none"
      BY <1>3, <2>1, <2>2, <2>4
    <3>3. ASSUME p[i].op = "attach", NEW j \in 1..Len(p), j # i, p[j].op = "attach"
          PROVE  p[j].n # p[i].n
      BY <2>2, <2>3, <3>1, <3>3
    <3> QED
      BY <3>1, <3>2, <3>3
  <2> QED
    BY <1>2, <2>4 DEF Numbered, p
<1>6. CASE Lengthens(c)
  <2>1. PICK o \in Operation :
          /\ p = Append(q, o) /\ pc'[c] = pc[c]
          /\ \/ o.op # "disconnect" /\ o.n = issued' /\ issued' = issued + 1
             \/ o.op = "disconnect" /\ o.n = 0
    BY <1>6 DEF Lengthens, p, q
  <2>2. q \in Seq(Operation)
    BY <1>0, ClientTyped DEF q
  <2>3. Len(p) = Len(q) + 1 /\ p[Len(q) + 1] = o /\ \A i \in 1..Len(q) : p[i] = q[i]
    BY <2>1, <2>2, Chained
  <2>4. o.n <= issued' /\ (o.op = "attach" => o.n = issued + 1 /\ o.n \in 1..MaxOps)
    BY <1>0, <2>1, AttachOperation
  <2>5. o.op = "attach" => lease'[<<c, o.n>>] = "none"
    <3>1. ASSUME o.op = "attach" PROVE lease[<<c, o.n>>] = "none"
      BY <1>0, <2>4, <3>1 DEF Numbered
    <3> QED
      BY <1>1, <2>1, <2>4, <3>1
  <2>6. \A i \in 1..Len(q) : q[i].op = "attach" /\ o.op = "attach" => q[i].n # o.n
    <3>1. ASSUME NEW i \in 1..Len(q) PROVE q[i].n <= issued /\ q[i].n \in 0..MaxOps
      BY <1>0, <3>1, AttachOperation DEF Numbered, q
    <3> QED
      BY <1>0, <2>4, <3>1
  <2>7. \A i \in 1..Len(p) : i = Len(q) + 1 \/ i \in 1..Len(q)
    BY <1>0, <2>3
  <2>8. ASSUME NEW i \in 1..Len(p)
        PROVE  /\ p[i].n <= issued'
               /\ p[i].op = "attach" =>
                    /\ lease'[<<c, p[i].n>>] = "none" \/ (i = 1 /\ pc'[c] \in {"attaching", "undoing"})
                    /\ \A j \in 1..Len(p) : j # i /\ p[j].op = "attach" => p[j].n # p[i].n
    <3>1. CASE i = Len(q) + 1
      <4>1. p[i] = o /\ \A j \in 1..Len(p) : j # i => j \in 1..Len(q) /\ p[j] = q[j]
        BY <2>3, <2>7, <3>1
      <4> QED
        BY <2>4, <2>5, <2>6, <4>1
    <3>2. CASE i \in 1..Len(q)
      <4>1. p[i] = q[i] /\ \A j \in 1..Len(p) : p[j] = o \/ (j \in 1..Len(q) /\ p[j] = q[j])
        BY <2>3, <2>7, <3>2
      <4>2. /\ p[i].n <= issued'
            /\ p[i].op = "attach" =>
                 lease'[<<c, p[i].n>>] = "none" \/ (i = 1 /\ pc'[c] \in {"attaching", "undoing"})
        BY <1>3, <2>1, <3>2, <4>1
      <4>3. ASSUME p[i].op = "attach", NEW j \in 1..Len(p), j # i, p[j].op = "attach"
            PROVE  p[j].n # p[i].n
        <5>1. CASE p[j] = o
          BY <2>6, <3>2, <4>1, <4>3, <5>1
        <5>2. CASE j \in 1..Len(q) /\ p[j] = q[j]
          <6>1. q[i].op = "attach" /\ q[j].op = "attach"
            BY <4>1, <4>3, <5>2
          <6>2. q[j].n # q[i].n
            BY <1>3, <3>2, <4>3, <5>2, <6>1
          <6> QED
            BY <4>1, <5>2, <6>2
        <5> QED
          BY <4>1, <5>1, <5>2
      <4> QED
        BY <4>2, <4>3
    <3> QED
      BY <2>7, <3>1, <3>2
  <2> QED
    BY <1>2, <2>8 DEF Numbered, p
<1> QED
  BY <1>4, <1>5, <1>6 DEF Pace

LEMMA SettlesStep ==
  ASSUME RouterInv, Typed', Pace, NEW c \in Clients
  PROVE  Settles(c)'
<1> DEFINE q == clientOperations[c]
           p == clientOperations'[c]
<1>0. /\ Settles(c) /\ Typed /\ Len(q) \in Nat /\ lost' \subseteq Clients /\ lost \subseteq lost'
      /\ settling[c] \in Nat /\ (closer # "no" => closing)
      /\ pc[c] \in Attaching => Len(q) > 0
  <2>1. Typed /\ ClosedAreClosed /\ Placed(c)
    BY DEF RouterInv, HandleInv, Typed
  <2>2. q \in Seq(Operation) /\ Len(q) \in Nat /\ settling[c] \in Nat
    BY <2>1, ClientTyped
  <2>3. pc[c] \in Attaching => Len(q) # 0
    BY <2>1, <2>2, EmptySeq DEF Placed
  <2>4. lost' \subseteq Clients
    BY DEF Typed, TypeOK
  <2> QED
    BY <2>1, <2>2, <2>3, <2>4 DEF RouterInv, Pace, ClosedAreClosed
<1> HIDE DEF q, p
<1>1. ASSUME UNCHANGED closer, pc'[c] \in Attaching => closer = "no" \/ (pc[c] \in Attaching /\ settling'[c] = settling[c]),
             \A i \in 1..Len(p) : p[i].op = "disconnect" =>
               \/ closer = "no"
               \/ closer = "settling" /\ i <= settling'[c]
      PROVE  Settles(c)'
  <2>1. closer' # "no" => lost' = Clients
    BY <1>0, <1>1 DEF Settles
  <2>2. closer' # "no" /\ pc'[c] \in Attaching => closer' = "settling" /\ settling'[c] > 0
    BY <1>0, <1>1 DEF Settles
  <2> QED
    BY <1>1, <2>1, <2>2 DEF Settles, p
<1>2. CASE UNCHANGED closer /\ Waits(c) /\ settling'[c] = settling[c]
  <2>1. p = q /\ (pc'[c] \in Attaching => closer = "no" \/ pc[c] \in Attaching)
    BY <1>0, <1>2 DEF Waits, p, q
  <2> QED
    BY <1>0, <1>1, <1>2, <2>1 DEF Settles, q
<1>3. CASE UNCHANGED closer /\ Shortens(c)
  <2>1. /\ Len(p) = Len(q) - 1 /\ \A i \in 1..Len(p) : p[i] = q[i + 1]
        /\ pc'[c] \notin Attaching /\ settling'[c] = IF settling[c] = 0 THEN 0 ELSE settling[c] - 1
    BY <1>0, <1>3, Operations DEF Shortens, Attaching, p, q
  <2>2. ASSUME NEW i \in 1..Len(p), p[i].op = "disconnect", closer # "no"
        PROVE  closer = "settling" /\ i <= settling'[c]
    <3>1. i + 1 \in 1..Len(q) /\ q[i + 1].op = "disconnect"
      BY <1>0, <2>1, <2>2
    <3>2. closer = "settling" /\ i + 1 <= settling[c]
      BY <1>0, <2>2, <3>1 DEF Settles, q
    <3> QED
      BY <1>0, <2>1, <3>2
  <2> QED
    BY <1>1, <1>3, <2>1, <2>2
<1>4. CASE UNCHANGED closer /\ Lengthens(c)
  <2>1. PICK o \in Operation :
          p = Append(q, o) /\ (o.op = "disconnect" => c \notin lost) /\ pc'[c] = pc[c] /\ settling'[c] = settling[c]
    BY <1>4 DEF Lengthens, p, q
  <2>2. q \in Seq(Operation)
    BY <1>0, ClientTyped DEF q
  <2>3. Len(p) = Len(q) + 1 /\ p[Len(q) + 1] = o /\ \A i \in 1..Len(q) : p[i] = q[i]
    BY <2>1, <2>2, Chained
  <2>4. ASSUME NEW i \in 1..Len(p), p[i].op = "disconnect", closer # "no"
        PROVE  closer = "settling" /\ i <= settling'[c]
    <3>1. i = Len(q) + 1 \/ i \in 1..Len(q)
      BY <1>0, <2>3
    <3>2. i # Len(q) + 1
      BY <1>0, <2>1, <2>3, <2>4 DEF Settles
    <3> QED
      BY <1>0, <2>1, <2>3, <2>4, <3>1, <3>2 DEF Settles, q
  <2> QED
    BY <1>1, <1>4, <2>1, <2>4
<1>5. CASE Shuts /\ UNCHANGED pc /\ Waits(c)
  <2>1. p = q
    BY <1>5 DEF Waits, p, q
  <2>2. CASE closer = "no" /\ closer' = "settling" /\ lost = Clients /\ settling'[c] = Len(q)
    <3>1. closer' # "no" /\ pc'[c] \in Attaching => settling'[c] > 0
      BY <1>0, <1>5, <2>2
    <3>2. \A i \in 1..Len(p) : closer' = "settling" /\ i <= settling'[c]
      BY <1>0, <2>1, <2>2
    <3>3. closer' # "no" => lost' = Clients
      BY <1>0, <1>5, <2>2 DEF Shuts
    <3> QED
      BY <2>2, <3>1, <3>2, <3>3 DEF Settles, p
  <2>3. CASE closer # "no" /\ closer' # "no" /\ (closer = "settling" => settling[c] = 0)
    <3>0. closer # "settling" \/ settling[c] = 0
      BY <2>3
    <3>1. lost' = Clients /\ pc[c] \notin Attaching
      <4>1. lost = Clients /\ lost' = Clients
        BY <1>0, <2>3 DEF Settles
      <4>2. pc[c] \in Attaching => closer = "settling" /\ settling[c] > 0
        BY <1>0, <2>3 DEF Settles
      <4>3. ~(settling[c] > 0) \/ settling[c] # 0
        BY <1>0
      <4> QED
        BY <3>0, <4>1, <4>2, <4>3
    <3>2. \A i \in 1..Len(q) : q[i].op # "disconnect"
      <4>1. ASSUME NEW i \in 1..Len(q), q[i].op = "disconnect" PROVE closer = "settling" /\ i <= settling[c]
        BY <1>0, <2>3, <4>1 DEF Settles, q
      <4>2. \A i \in 1..Len(q) : i <= settling[c] => settling[c] # 0
        BY <1>0
      <4> QED
        BY <3>0, <4>1, <4>2
    <3> QED
      BY <1>5, <2>1, <2>3, <3>1, <3>2 DEF Settles, p
  <2> QED
    BY <1>5, <2>2, <2>3 DEF Shuts, q
<1> QED
  BY <1>2, <1>3, <1>4, <1>5 DEF Pace

LEMMA OneLeaseStep ==
  ASSUME RouterInv, Kind
  PROVE  OneLeasePerClient'
<1> SUFFICES ASSUME NEW a \in Attachment, NEW b \in Attachment, Live(a)', Live(b)', a[1] = b[1]
             PROVE  a = b
  BY DEF OneLeasePerClient
<1>1. Live(a) \/ \E c \in Clients : Makes(c, a)
  BY LeaseSteps
<1>2. Live(b) \/ \E c \in Clients : Makes(c, b)
  BY LeaseSteps
<1>3. CASE Live(a) /\ Live(b)
  BY <1>3 DEF RouterInv, ClientLeases, OneLeasePerClient
<1>4. ASSUME NEW c \in Clients, Makes(c, a) PROVE a = b
  <2>1. a[1] = c /\ ~Live(b)
    BY <1>4, MakesFresh
  <2>2. PICK d \in Clients : Makes(d, b)
    BY <1>2, <2>1
  <2>3. d = c
    BY <2>1, <2>2, MakesFresh
  <2> QED
    BY <1>4, <2>2, <2>3 DEF Makes
<1>5. ASSUME NEW c \in Clients, Makes(c, b) PROVE a = b
  <2>1. b[1] = c /\ ~Live(a)
    BY <1>5, MakesFresh
  <2> QED
    BY <1>1, <1>4, <2>1
<1> QED
  BY <1>1, <1>2, <1>3, <1>4, <1>5

LEMMA LeftStep ==
  ASSUME RouterInv, Kind
  PROVE  LeftHoldsNothing'
<1> SUFFICES ASSUME NEW c \in Clients, pc'[c] = "left"
             PROVE  attachmentsByClient'[c] = None /\ \A a \in Attachment : a[1] = c => ~Live(a)'
  BY DEF LeftHoldsNothing
<1>1. ASSUME NEW a \in Attachment, a[1] = c, Live(a)' PROVE Live(a)
  <2>1. ASSUME NEW d \in Clients, Makes(d, a) PROVE FALSE
    <3>1. d = c /\ pc'[d] = "attaching"
      BY <1>1, <2>1, MakesFresh DEF Makes
    <3> QED
      BY <3>1
  <2> QED
    BY <1>1, <2>1, LeaseSteps
<1>2. ASSUME pc[c] = "left", attachmentsByClient'[c] \in {None, attachmentsByClient[c]}
      PROVE  attachmentsByClient'[c] = None /\ \A a \in Attachment : a[1] = c => ~Live(a)'
  BY <1>1, <1>2 DEF RouterInv, ClientLeases, LeftHoldsNothing
<1>3. CASE Rests
  <2>1. attachmentsByClient'[c] = attachmentsByClient[c] /\ Idles(c)
    BY <1>3 DEF Rests
  <2>2. CASE pc[c] = "left"
    BY <1>2, <2>1, <2>2
  <2>3. CASE pc[c] # "left"
    <3>1. /\ clientOperations[c] # <<>> /\ This(c).op = "disconnect"
          /\ attachmentsByClient[c] = None \/ pc[c] = "leaving"
          /\ pc[c] # "attaching"
          /\ pc[c] \in {"undoing", "leaving"} => Released(current[c])
      BY <2>1, <2>3 DEF Idles
    <3>2. /\ Route(c) /\ Settles(c) /\ clientOperations[c] \in Seq(Operation)
          /\ Len(clientOperations[c]) \in Nat
          /\ pc[c] \in {"undoing", "leaving"} => current[c] \in Attachment
      BY ClientTyped DEF RouterInv
    <3>3. attachmentsByClient[c] = None
      <4>1. pc[c] = "leaving" => attachmentsByClient[c] # current[c]
        BY <3>1, <3>2 DEF RouterInv, Made
      <4> QED
        BY <3>1, <3>2, <4>1 DEF Route
    <3>4. closer # "done"
      <4>1. Len(clientOperations[c]) # 0 /\ This(c) = clientOperations[c][1]
        BY <3>1, <3>2, EmptySeq, HeadTailProperties DEF This
      <4>2. 1 \in 1..Len(clientOperations[c])
        BY <3>2, <4>1
      <4> QED
        BY <3>1, <3>2, <4>1, <4>2 DEF Settles
    <3>5. ASSUME NEW a \in Attachment, a[1] = c PROVE ~Live(a)
      <4>1. Holds(a) /\ Made(a) /\ a # None
        BY AttachmentTyped DEF RouterInv
      <4> QED
        BY <3>1, <3>3, <3>4, <3>5, <4>1 DEF Holds, Made
    <3> QED
      BY <1>1, <2>1, <3>3, <3>5
  <2> QED
    BY <2>2, <2>3
<1>4. CASE Ceases
  BY <1>2, <1>4 DEF Ceases
<1>5. CASE \E S \in SUBSET Attachment : Frees(S)
  BY <1>2, <1>5 DEF Frees
<1>6. ASSUME NEW a \in Attachment, Drains(a) \/ Clears(a)
      PROVE  attachmentsByClient'[c] = None /\ \A b \in Attachment : b[1] = c => ~Live(b)'
  BY <1>2, <1>6 DEF Drains, Clears
<1>7. ASSUME NEW d \in Clients, NEW a \in Attachment,
             Lets(d, a) \/ Makes(d, a) \/ Grants(d, a) \/ Undoes(d, a) \/ Refuses(d, a)
      PROVE  attachmentsByClient'[c] = None /\ \A b \in Attachment : b[1] = c => ~Live(b)'
  <2>1. d # c
    BY <1>7 DEF Lets, Makes, Grants, Undoes, Refuses
  <2>2. pc'[c] = pc[c] /\ attachmentsByClient'[c] = attachmentsByClient[c]
    BY <1>7, <2>1 DEF Lets, Makes, Grants, Undoes, Refuses, Others
  <2> QED
    BY <1>2, <2>2
<1> QED
  BY <1>3, <1>4, <1>5, <1>6, <1>7 DEF Kind

LEMMA RouterInit == Init => RouterInv
<1> SUFFICES ASSUME Init PROVE RouterInv
  OBVIOUS
<1>1. Typed /\ HandleInv
  BY TypedInit, HandleInit
<1>2. ASSUME NEW c \in Clients PROVE Own(c) /\ Numbered(c) /\ Route(c) /\ Settles(c)
  <2>1. \A n \in 1..MaxOps : <<c, n>> \in Attachment
    BY AttachmentTyped
  <2>2. clientOperations[c] = <<>> /\ Len(clientOperations[c]) = 0 /\ pc[c] = "idle"
    BY DEF Init
  <2>3. 1..Len(clientOperations[c]) = {}
    BY <2>2
  <2> QED
    BY <2>1, <2>2, <2>3 DEF Init, Own, Numbered, Route, Settles, Attaching
<1>3. ASSUME NEW a \in Attachment PROVE Made(a) /\ Holds(a)
  BY DEF Init, Made, Holds, Live, Released
<1>4. ClientLeases
  BY DEF Init, ClientLeases, OneLeasePerClient, LeftHoldsNothing, Live
<1> QED
  BY <1>1, <1>2, <1>3, <1>4 DEF RouterInv

LEMMA RouterNext == RouterInv /\ [Next]_vars => RouterInv'
<1> SUFFICES ASSUME RouterInv, [Next]_vars PROVE RouterInv'
  OBVIOUS
<1>1. Typed /\ HandleInv
  BY DEF RouterInv
<1>2. Typed' /\ HandleInv' /\ Kind /\ Pace /\ HostsPersist
  BY <1>1, TypedNext, HandleNext, Kinds, Paces, HostsKept
<1>3. \A c \in Clients : Own(c)' /\ Numbered(c)' /\ Route(c)' /\ Settles(c)'
  BY <1>2, OwnStep, NumberedStep, RouteStep, SettlesStep
<1>4. \A a \in Attachment : Made(a)' /\ Holds(a)'
  BY <1>2, MadeStep, HoldsStep
<1>5. ClientLeases'
  BY <1>2, OneLeaseStep, LeftStep DEF ClientLeases
<1> QED
  BY <1>2, <1>3, <1>4, <1>5 DEF RouterInv

\* A connection never holds two leases, and one whose disconnect is through holds none
\* (attachClientNow, disconnect and releaseAttachment, docs/refs/pi-server-session-router.ts).
THEOREM OneLeaseAtATime == Spec => []ClientLeases
<1>1. RouterInv => ClientLeases
  BY DEF RouterInv
<1> QED
  BY RouterInit, RouterNext, <1>1, PTL DEF Spec

----------------------------------------------------------------------------
(* What clients are told                                                   *)

LEMMA ToldStep ==
  ASSUME Typed, HandleInv, RouteIsTold, [Next]_vars
  PROVE  RouteIsTold'
<1> USE DEF hostVars, requestVars, clientVars, routeVars, releaseVars, callVars, removeVars,
            closeVars
<1>t. /\ RestTyped /\ (closer = "done" => closer' = "done")
      /\ \A a \in Attachment : a # None
  BY HostsKept, TypeParts, AttachmentTyped DEF Typed, HostsPersist
<1>0. ASSUME UNCHANGED <<attachmentsByClient, told>>, quiet \subseteq quiet' PROVE RouteIsTold'
  BY <1>t, <1>0 DEF RouteIsTold
<1>1. ASSUME NEW S, NEW silent, Release(S, silent) PROVE quiet \subseteq quiet'
  BY <1>1 DEF Release
<1>2. ASSUME NEW c \in Clients, Requests(c) PROVE RouteIsTold'
  BY <1>0, <1>2 DEF Requests, AttachClient, DetachClient, ExecuteServiceCall, Disconnect, Request
<1>3. ASSUME NEW c \in Clients, Continues(c) PROVE RouteIsTold'
  <2>1. CASE AttachReturns(c) \/ Acquire(c) \/ AcquiredTooLate(c) \/ AttachTo(c) \/ ReleaseAwaited(c)
    BY <1>0, <2>1 DEF AttachReturns, Acquire, AcquiredTooLate, AttachTo, ReleaseAwaited
  <2>2. CASE SwitchFrom(c) \/ Detach(c) \/ Leave(c)
    BY <1>0, <1>1, <2>2 DEF SwitchFrom, Detach, Leave
  <2>3. CASE NothingToDetach(c) \/ Left(c) \/ StartServiceCall(c) \/ CallRejected(c)
    BY <1>0, <2>3 DEF NothingToDetach, Left, StartServiceCall, CallRejected
  <2> QED
    BY <1>3, <2>1, <2>2, <2>3 DEF Continues
<1>4. ASSUME NEW c \in Clients, LeaseGranted(c) PROVE RouteIsTold'
  <2>1. \/ /\ attachmentsByClient' = [attachmentsByClient EXCEPT ![c] = current[c]]
           /\ told' = [told EXCEPT ![c] = current[c]] /\ quiet' = quiet
           /\ pc[c] = "attaching"
        \/ Release({current[c]}, FALSE) /\ UNCHANGED routeVars
    BY <1>4 DEF LeaseGranted
  <2>2. pc[c] = "attaching" => current[c] # None
    BY <1>t, ClientTyped
  <2>3. CASE /\ attachmentsByClient' = [attachmentsByClient EXCEPT ![c] = current[c]]
             /\ told' = [told EXCEPT ![c] = current[c]] /\ quiet' = quiet
             /\ pc[c] = "attaching"
    <3>1. attachmentsByClient'[c] = current[c] /\ told'[c] = current[c] /\ current[c] # None
      BY <1>t, <2>2, <2>3 DEF RestTyped
    <3>2. \A d \in Clients : d # c => attachmentsByClient'[d] = attachmentsByClient[d] /\ told'[d] = told[d]
      BY <1>t, <2>3 DEF RestTyped
    <3> QED
      BY <1>t, <2>3, <3>1, <3>2 DEF RouteIsTold
  <2> QED
    BY <1>0, <1>1, <2>1, <2>3
<1>5. ASSUME NEW c \in Clients, LeaseRefused(c) PROVE RouteIsTold'
  BY <1>0, <1>5 DEF LeaseRefused
<1>6. ASSUME NEW s \in Sessions, OpenFails(s) \/ (\E q \in Removals : RemoveSession(q, s)) \/ \E T : Invalidate(s, T)
      PROVE  RouteIsTold'
  BY <1>0, <1>1, <1>6 DEF OpenFails, OpenEnds, RemoveSession, Invalidate
<1>7. ASSUME NEW s \in Sessions, NEW h \in Hosting,
             OpenSucceeds(s, h) \/ OpenedWhileClosing(s, h) \/ \E r : OpenDrained(s, h, r)
      PROVE  RouteIsTold'
  BY <1>0, <1>7 DEF OpenSucceeds, OpenedWhileClosing, OpenDrained, OpenEnds
<1>8. ASSUME NEW a \in Attachment, NEW r, Clear(a, r) PROVE RouteIsTold'
  <2>1. ASSUME NEW c \in Clients
        PROVE  /\ quiet' = quiet
               /\ attachmentsByClient'[c] = IF attachmentsByClient[c] = a THEN None ELSE attachmentsByClient[c]
               /\ told'[c] = IF attachmentsByClient[c] = a /\ a \notin quiet THEN None ELSE told[c]
    BY <1>8 DEF Clear
  <2> QED
    BY <1>t, <2>1 DEF RouteIsTold
<1>9. ASSUME NEW a \in Attachment, Drained(a) \/ CallSettles(a) PROVE RouteIsTold'
  BY <1>0, <1>9 DEF Drained, CallSettles
<1>10. ASSUME NEW q \in Removals, RemoveCloses(q) \/ \E r : RemoveEnds(q, r) PROVE RouteIsTold'
  BY <1>0, <1>10 DEF RemoveCloses, RemoveEnds
<1>11. ASSUME BeginClosing \/ Close \/ CloseReleases \/ CloseHandles PROVE RouteIsTold'
  BY <1>0, <1>1, <1>11 DEF BeginClosing, Close, CloseReleases, CloseHandles
<1>12. ASSUME NEW F, CloseEnds(F) PROVE RouteIsTold'
  <2>1. closer' = "done" /\ \A c \in Clients : attachmentsByClient'[c] = None
    BY <1>12 DEF CloseEnds
  <2> QED
    BY <2>1 DEF RouteIsTold
<1>13. CASE UNCHANGED vars
  BY <1>0, <1>13 DEF vars
<1> QED
  BY <1>2, <1>3, <1>4, <1>5, <1>6, <1>7, <1>8, <1>9, <1>10, <1>11, <1>12, <1>13, StepCases
  DEF NothingToRelease, LeaseReleased

\* What a client was last told is its route, but where the route went quietly: with the
\* connection, with the router, or in a switch (publishAttachment and clearAttachment,
\* docs/refs/pi-server-session-router.ts).
THEOREM ClientsAreTold == Spec => []RouteIsTold
<1>1. Init => RouteIsTold
  BY DEF Init, RouteIsTold
<1> QED
  BY TypedInit, TypedNext, HandleInit, HandleNext, ToldStep, <1>1, PTL DEF Spec

----------------------------------------------------------------------------
(* Calls, and what a release of their attachment is due to                 *)

\* The hostings that operations and attachments name have been made.
GotMade == \A c \in Clients : got[c] # None => handle[got[c]] # "none"

SessionsMade == \A a \in Attachment : session[a] # None => handle[session[a]] # "none"

\* Why a release has begun: the session goes, the router ends, it is over, or its client waits for it.
Reason(a) ==
  releasing[a] # "no" =>
    \/ Removing(session[a]) \/ hostedSessions[session[a][1]] # session[a]
    \/ closing \/ Released(a)
    \/ pc[a[1]] \in {"switching", "detaching", "leaving", "undoing"} /\ current[a[1]] = a

CallInv ==
  /\ RouterInv /\ GotMade /\ SessionsMade
  /\ \A a \in Attachment : Reason(a) /\ (late[a] > 0 => lease[a] # "none")
  /\ DrainedBeforeRelease

LEMMA GotStep ==
  ASSUME Typed, HandleInv, GotMade, [Next]_vars
  PROVE  GotMade'
<1> USE DEF hostVars, requestVars, clientVars, routeVars, releaseVars, callVars, removeVars,
            closeVars
<1>t. RestTyped /\ ClientsTyped /\ HostsPersist /\ MappedAreMade
  BY HostsKept, TypeParts DEF Typed, HandleInv
<1>0. ASSUME \A c \in Clients : got'[c] \in {None, got[c]} \/ (got'[c] \in Hosting /\ handle'[got'[c]] # "none")
      PROVE  GotMade'
  BY <1>t, <1>0 DEF GotMade, HostsPersist, ClientsTyped
<1>1. ASSUME UNCHANGED got PROVE GotMade'
  BY <1>0, <1>1
<1>2. ASSUME NEW c \in Clients, NEW at, Ends(c, at) PROVE GotMade'
  BY <1>0, <1>2, <1>t DEF Ends, ClientsTyped
<1>3. ASSUME NEW c \in Clients, NEW at, NEW a, NEW h \in {None, got[c]}, Goes(c, at, h, a) PROVE GotMade'
  BY <1>0, <1>3, <1>t DEF Goes, ClientsTyped
<1>4. ASSUME NEW c \in Clients, Requests(c) PROVE GotMade'
  BY <1>1, <1>4 DEF Requests, AttachClient, DetachClient, ExecuteServiceCall, Disconnect, Request
<1>5. ASSUME NEW c \in Clients, Continues(c) PROVE GotMade'
  <2>1. CASE AttachReturns(c) \/ AcquiredTooLate(c) \/ ReleaseAwaited(c) \/ NothingToDetach(c) \/ Left(c)
    BY <1>2, <2>1 DEF AttachReturns, AcquiredTooLate, ReleaseAwaited, NothingToDetach, Left
  <2>2. CASE StartServiceCall(c) \/ CallRejected(c)
    BY <1>2, <2>2 DEF StartServiceCall, CallRejected
  <2>3. CASE SwitchFrom(c) \/ AttachTo(c) \/ Detach(c) \/ Leave(c)
    BY <1>3, <2>3 DEF SwitchFrom, AttachTo, MakeAttachment, Detach, Leave
  <2>4. CASE Acquire(c)
    <3>1. CASE hostedSessions[This(c).to] = None
      BY <1>3, <2>4, <3>1 DEF Acquire
    <3>2. CASE hostedSessions[This(c).to] # None
      <4>1. PICK h : h = hostedSessions[This(c).to] /\ Goes(c, "acquired", h, attachmentsByClient[c])
        BY <2>4, <3>2 DEF Acquire
      <4>2. This(c).to \in Sessions /\ handle' = handle
        <5>1. clientOperations[c] \in Seq(Operation) /\ clientOperations[c] # <<>> /\ This(c).op = "attach"
          BY <1>t, <2>4 DEF Acquire, Starts, ClientsTyped, This
        <5>2. This(c) \in Operation
          BY <5>1, Shortened DEF This
        <5> QED
          BY <2>4, <5>1, <5>2, AttachOperation DEF Acquire
      <4>3. h \in Hosting /\ handle'[h] # "none"
        BY <1>t, <3>2, <4>1, <4>2 DEF MappedAreMade
      <4>4. got'[c] = h /\ \A d \in Clients : d # c => got'[d] = got[d]
        BY <1>t, <4>1 DEF Goes, ClientsTyped
      <4> QED
        BY <1>0, <4>3, <4>4
    <3> QED
      BY <3>1, <3>2
  <2> QED
    BY <1>5, <2>1, <2>2, <2>3, <2>4 DEF Continues
<1>6. ASSUME NEW c \in Clients, LeaseGranted(c) \/ LeaseRefused(c) PROVE GotMade'
  BY <1>2, <1>3, <1>6 DEF LeaseGranted, LeaseRefused
<1>7. ASSUME NEW s \in Sessions, OpenFails(s) \/ (\E q \in Removals : RemoveSession(q, s)) \/ \E T : Invalidate(s, T)
      PROVE  GotMade'
  BY <1>1, <1>7 DEF OpenFails, OpenEnds, RemoveSession, Invalidate
<1>8. ASSUME NEW s \in Sessions, NEW h \in Hosting, OpenSucceeds(s, h) PROVE GotMade'
  <2>1. handle'[h] # "none" /\ \A c \in Clients : got'[c] = IF c \in Opening(s) THEN h ELSE got[c]
    BY <1>t, <1>8 DEF OpenSucceeds, RestTyped
  <2> QED
    BY <1>0, <2>1
<1>9. ASSUME NEW s \in Sessions, NEW h \in Hosting, OpenedWhileClosing(s, h) \/ \E r : OpenDrained(s, h, r)
      PROVE  GotMade'
  BY <1>1, <1>9 DEF OpenedWhileClosing, OpenDrained, OpenEnds
<1>10. ASSUME NEW a \in Attachment, NEW r,
              Drained(a) \/ NothingToRelease(a) \/ CallSettles(a) \/ LeaseReleased(a, r)
       PROVE  GotMade'
  BY <1>1, <1>10 DEF Drained, NothingToRelease, LeaseReleased, CallSettles, Clear
<1>11. ASSUME NEW q \in Removals, RemoveCloses(q) \/ \E r : RemoveEnds(q, r) PROVE GotMade'
  BY <1>1, <1>11 DEF RemoveCloses, RemoveEnds
<1>12. ASSUME BeginClosing \/ Close \/ CloseReleases \/ CloseHandles \/ \E F : CloseEnds(F) PROVE GotMade'
  BY <1>1, <1>12 DEF BeginClosing, Close, CloseReleases, CloseHandles, CloseEnds
<1>13. CASE UNCHANGED vars
  BY <1>1, <1>13 DEF vars
<1> QED
  BY <1>4, <1>5, <1>6, <1>7, <1>8, <1>9, <1>10, <1>11, <1>12, <1>13, StepCases

LEMMA SessionsStep ==
  ASSUME Typed, GotMade, SessionsMade, Kind, HostsPersist
  PROVE  SessionsMade'
<1> SUFFICES ASSUME NEW a \in Attachment, session'[a] # None PROVE handle'[session'[a]] # "none"
  BY DEF SessionsMade
<1>0. session[a] \in Hosting \cup {None}
  BY TypeParts DEF Typed, RestTyped
<1>1. \/ session'[a] = session[a]
      \/ \E c \in Clients : got[c] \in Hosting /\ session'[a] = got[c]
  <2>1. CASE \E c \in Clients, b \in Attachment : Makes(c, b)
    BY <2>1 DEF Makes
  <2>2. ASSUME NEW c \in Clients, NEW b \in Attachment,
               Lets(c, b) \/ Grants(c, b) \/ Undoes(c, b) \/ Refuses(c, b)
        PROVE  session' = session
    BY <2>2 DEF Lets, Grants, Undoes, Refuses
  <2>3. ASSUME NEW b \in Attachment, Drains(b) \/ Clears(b)
        PROVE  session' = session
    BY <2>3 DEF Drains, Clears
  <2>4. CASE Rests \/ Ceases \/ \E S \in SUBSET Attachment : Frees(S)
    BY <2>4 DEF Rests, Ceases, Frees
  <2> QED
    BY <2>1, <2>2, <2>3, <2>4 DEF Kind
<1>2. \A h \in Hosting : h # None
  BY BoundsAssumption
<1> QED
  BY <1>0, <1>1, <1>2 DEF SessionsMade, GotMade, HostsPersist

\* Calls are admitted while no release has begun; later only by the client whose route it still is.
LEMMA CallSteps ==
  ASSUME Typed, [Next]_vars, NEW a \in Attachment
  PROVE  /\ calls[a] = 0 /\ releasing[a] # "no" => calls'[a] = 0
         /\ late[a] = 0 /\ late'[a] > 0 =>
              \E c \in Clients : /\ attachmentsByClient[c] = a /\ ~closing /\ pc[c] \in {"idle", "left"}
                                 /\ releasing[a] # "no"
<1> USE DEF hostVars, requestVars, clientVars, routeVars, releaseVars, callVars, removeVars,
            closeVars
<1> DEFINE Goal == /\ calls[a] = 0 /\ releasing[a] # "no" => calls'[a] = 0
                   /\ late[a] = 0 /\ late'[a] > 0 =>
                        \E c \in Clients : /\ attachmentsByClient[c] = a /\ ~closing /\ pc[c] \in {"idle", "left"}
                                           /\ releasing[a] # "no"
<1>t. RestTyped
  BY TypeParts DEF Typed
<1>0. ASSUME UNCHANGED <<calls, late>> PROVE Goal
  <2>1. ~(late[a] = 0 /\ late'[a] > 0)
    BY <1>0
  <2> QED
    BY <1>0, <2>1
<1>1. ASSUME NEW c \in Clients, StartServiceCall(c) PROVE Goal
  <2>1. ~closing /\ attachmentsByClient[c] = This(c).to /\ pc[c] \in {"idle", "left"}
    BY <1>1 DEF StartServiceCall, Routed, Draining, Starts
  <2>2. CASE a # This(c).to
    <3>1. calls'[a] = calls[a] /\ late'[a] = late[a]
      BY <1>t, <1>1, <2>2 DEF StartServiceCall, RestTyped
    <3>2. ~(late[a] = 0 /\ late'[a] > 0)
      BY <3>1
    <3> QED
      BY <3>1, <3>2
  <2>3. CASE a = This(c).to
    <3>1. CASE releasing[a] = "no"
      <4>1. late'[a] = late[a]
        BY <1>t, <1>1, <2>3, <3>1 DEF StartServiceCall, RestTyped
      <4>2. ~(late[a] = 0 /\ late'[a] > 0)
        BY <4>1
      <4> QED
        BY <3>1, <4>2
    <3>2. CASE releasing[a] # "no"
      <4>1. calls'[a] = calls[a]
        BY <1>t, <1>1, <2>3, <3>2 DEF StartServiceCall, RestTyped
      <4> QED
        BY <2>1, <2>3, <3>2, <4>1
    <3> QED
      BY <3>1, <3>2
  <2> QED
    BY <2>2, <2>3
<1>2. ASSUME NEW b \in Attachment, CallSettles(b) PROVE Goal
  <2>0. calls[a] \in Nat /\ late[a] \in Nat
    BY <1>t DEF RestTyped
  <2>1. calls'[a] = calls[a] \/ (calls[a] > 0 /\ calls'[a] = calls[a] - 1)
    BY <1>t, <1>2 DEF CallSettles, RestTyped
  <2>2. late'[a] = late[a] \/ (late[a] > 0 /\ late'[a] = late[a] - 1)
    BY <1>t, <1>2 DEF CallSettles, RestTyped
  <2>3. ~(late[a] = 0 /\ late'[a] > 0) /\ (calls[a] = 0 => calls'[a] = 0)
    BY <2>0, <2>1, <2>2
  <2> QED
    BY <2>3
<1> HIDE DEF Goal
<1>3. ASSUME NEW c \in Clients, Requests(c) PROVE Goal
  BY <1>0, <1>3 DEF Requests, AttachClient, DetachClient, ExecuteServiceCall, Disconnect, Request
<1>4. ASSUME NEW c \in Clients, Continues(c) PROVE Goal
  <2>1. CASE AttachReturns(c) \/ Acquire(c) \/ AcquiredTooLate(c) \/ SwitchFrom(c) \/ AttachTo(c)
    BY <1>0, <2>1 DEF AttachReturns, Acquire, AcquiredTooLate, SwitchFrom, AttachTo
  <2>2. CASE ReleaseAwaited(c) \/ Detach(c) \/ NothingToDetach(c) \/ Leave(c) \/ Left(c) \/ CallRejected(c)
    BY <1>0, <2>2 DEF ReleaseAwaited, Detach, NothingToDetach, Leave, Left, CallRejected
  <2> QED
    BY <1>1, <1>4, <2>1, <2>2 DEF Continues
<1>5. ASSUME NEW c \in Clients, LeaseGranted(c) \/ LeaseRefused(c) PROVE Goal
  BY <1>0, <1>5 DEF LeaseGranted, LeaseRefused
<1>6. ASSUME NEW s \in Sessions, OpenFails(s) \/ (\E q \in Removals : RemoveSession(q, s)) \/ \E T : Invalidate(s, T)
      PROVE  Goal
  BY <1>0, <1>6 DEF OpenFails, OpenEnds, RemoveSession, Invalidate
<1>7. ASSUME NEW s \in Sessions, NEW h \in Hosting,
             OpenSucceeds(s, h) \/ OpenedWhileClosing(s, h) \/ \E r : OpenDrained(s, h, r)
      PROVE  Goal
  BY <1>0, <1>7 DEF OpenSucceeds, OpenedWhileClosing, OpenDrained, OpenEnds
<1>8. ASSUME NEW b \in Attachment, NEW r, Drained(b) \/ NothingToRelease(b) \/ LeaseReleased(b, r)
      PROVE  Goal
  BY <1>0, <1>8 DEF Drained, NothingToRelease, LeaseReleased, Clear
<1>9. ASSUME NEW q \in Removals, RemoveCloses(q) \/ \E r : RemoveEnds(q, r) PROVE Goal
  BY <1>0, <1>9 DEF RemoveCloses, RemoveEnds
<1>10. ASSUME BeginClosing \/ Close \/ CloseReleases \/ CloseHandles \/ \E F : CloseEnds(F) PROVE Goal
  BY <1>0, <1>10 DEF BeginClosing, Close, CloseReleases, CloseHandles, CloseEnds
<1>11. ASSUME UNCHANGED vars PROVE Goal
  BY <1>0, <1>11 DEF vars
<1>12. Goal
  BY <1>2, <1>3, <1>4, <1>5, <1>6, <1>7, <1>8, <1>9, <1>10, <1>11, StepCases
<1> QED
  BY <1>12 DEF Goal

\* A release goes forward, step by step.
LEMMA ReleasingSteps ==
  ASSUME Typed, Kind, NEW a \in Attachment
  PROVE  /\ releasing[a] # "no" => releasing'[a] # "no"
         /\ Released(a) => Released(a)'
         /\ releasing'[a] \in {"releasing", "done", "failed"} =>
              \/ releasing[a] \in {"releasing", "done", "failed"}
              \/ releasing[a] = "draining" /\ calls[a] = 0
<1>0. releasing[a] \in {"no", "draining", "releasing", "done", "failed"}
  BY TypeParts DEF Typed, RestTyped
<1>1. ASSUME UNCHANGED releasing
      PROVE  /\ releasing[a] # "no" => releasing'[a] # "no"
             /\ Released(a) => Released(a)'
             /\ releasing'[a] \in {"releasing", "done", "failed"} =>
                  \/ releasing[a] \in {"releasing", "done", "failed"}
                  \/ releasing[a] = "draining" /\ calls[a] = 0
  BY <1>1 DEF Released
<1>2. ASSUME NEW S, Begun(S)
      PROVE  /\ releasing[a] # "no" => releasing'[a] # "no"
             /\ Released(a) => Released(a)'
             /\ releasing'[a] \in {"releasing", "done", "failed"} =>
                  releasing[a] \in {"releasing", "done", "failed"}
  BY <1>0, <1>2 DEF Begun, Released
<1>3. ASSUME NEW b \in Attachment, Drains(b) \/ Clears(b)
      PROVE  /\ releasing[a] # "no" => releasing'[a] # "no"
             /\ Released(a) => Released(a)'
             /\ releasing'[a] \in {"releasing", "done", "failed"} =>
                  \/ releasing[a] \in {"releasing", "done", "failed"}
                  \/ releasing[a] = "draining" /\ calls[a] = 0
  <2>1. CASE a = b
    BY <1>3, <2>1 DEF Drains, Clears, Released
  <2>2. CASE a # b
    <3>1. releasing'[a] = releasing[a]
      BY <1>3, <2>2 DEF Drains, Clears
    <3> QED
      BY <3>1 DEF Released
  <2> QED
    BY <2>1, <2>2
<1>4. CASE Rests \/ Ceases
  BY <1>1, <1>4 DEF Rests, Ceases
<1>5. ASSUME NEW c \in Clients, NEW b \in Attachment, Makes(c, b) \/ Grants(c, b) \/ Refuses(c, b)
      PROVE  UNCHANGED releasing
  BY <1>5 DEF Makes, Grants, Refuses
<1>6. ASSUME NEW c \in Clients, NEW b \in Attachment, Lets(c, b) \/ Undoes(c, b)
      PROVE  Begun({b})
  BY <1>6 DEF Lets, Undoes
<1>7. \A S \in SUBSET Attachment : Frees(S) => Begun(S)
  BY DEF Frees
<1> QED
  BY <1>1, <1>2, <1>3, <1>4, <1>5, <1>6, <1>7 DEF Kind

\* What ends the wait of a client for a release is that it is through.
LEMMA AwaitedStep ==
  ASSUME RouterInv, Kind, NEW c \in Clients,
         pc[c] \in {"switching", "detaching", "leaving", "undoing"}, ~Released(current[c])
  PROVE  pc'[c] = pc[c] /\ current'[c] = current[c]
<1>1. CASE Rests
  BY <1>1 DEF Rests, Idles
<1>2. CASE Ceases \/ (\E S \in SUBSET Attachment : Frees(S)) \/ \E a \in Attachment : Drains(a) \/ Clears(a)
  BY <1>2 DEF Ceases, Frees, Drains, Clears
<1>3. ASSUME NEW d \in Clients, NEW a \in Attachment,
             Lets(d, a) \/ Makes(d, a) \/ Grants(d, a) \/ Undoes(d, a) \/ Refuses(d, a)
      PROVE  pc'[c] = pc[c] /\ current'[c] = current[c]
  <2>1. d # c
    BY <1>3 DEF Lets, Makes, Grants, Undoes, Refuses, Released
  <2> QED
    BY <1>3, <2>1 DEF Lets, Makes, Grants, Undoes, Refuses, Others
<1> QED
  BY <1>1, <1>2, <1>3 DEF Kind

\* A hosting that is being removed, or off the map, stays so.
LEMMA GoneStays ==
  ASSUME Typed, SessionsMade, HostsPersist, NEW a \in Attachment, lease[a] # "none", Made(a), session'[a] = session[a]
  PROVE  /\ session[a] \in Hosting /\ handle[session[a]] # "none"
         /\ Removing(session[a]) => Removing(session[a])'
         /\ hostedSessions[session[a][1]] # session[a] => hostedSessions'[session'[a][1]] # session'[a]
<1>1. session[a] \in Hosting
  BY TypeParts DEF Typed, RestTyped, Made
<1>2. handle[session[a]] # "none"
  BY <1>1, BoundsAssumption DEF SessionsMade
<1>3. Removing(session[a]) => Removing(session[a])'
  <2>1. PICK h \in Hosting : h = session[a]
    BY <1>1
  <2>2. Removing(h) => Removing(h)'
    BY DEF HostsPersist
  <2> QED
    BY <2>1, <2>2 DEF Removing
<1> QED
  BY <1>1, <1>2, <1>3 DEF HostsPersist

LEMMA ReasonStep ==
  ASSUME CallInv, Kind, HostsPersist, NEW a \in Attachment
  PROVE  Reason(a)'
<1>0. /\ RouterInv /\ Typed /\ SessionsMade /\ Reason(a) /\ Made(a) /\ a[1] \in Clients
      /\ \A c \in Clients : Own(c)
  BY AttachmentTyped DEF CallInv, RouterInv
<1>1. CASE releasing[a] # "no"
  <2>1. lease[a] # "none"
    BY <1>0, <1>1 DEF Made
  <2>2. session'[a] = session[a]
    BY <1>0, <2>1, LeaseSteps
  <2>3. /\ Removing(session[a]) => Removing(session[a])'
        /\ hostedSessions[session[a][1]] # session[a] => hostedSessions'[session'[a][1]] # session'[a]
        /\ closing => closing'
        /\ Released(a) => Released(a)'
    BY <1>0, <2>1, <2>2, GoneStays, ReleasingSteps DEF HostsPersist
  <2>4. ASSUME pc[a[1]] \in {"switching", "detaching", "leaving", "undoing"}, current[a[1]] = a, ~Released(a)
        PROVE  pc'[a[1]] \in {"switching", "detaching", "leaving", "undoing"} /\ current'[a[1]] = a
    BY <1>0, <2>4, AwaitedStep
  <2> QED
    BY <1>0, <1>1, <2>3, <2>4 DEF Reason
<1>2. CASE releasing[a] = "no" /\ releasing'[a] # "no"
  <2>1. CASE Rests \/ Ceases
    BY <1>2, <2>1 DEF Rests, Ceases
  <2>2. ASSUME NEW S \in SUBSET Attachment, Frees(S) PROVE Reason(a)'
    <3>1. a \in S /\ session' = session
      BY <1>2, <2>2 DEF Frees, Begun
    <3>2. \/ Removing(session[a])' \/ hostedSessions'[session'[a][1]] # session'[a]
          \/ closing'
      BY <2>2, <3>1 DEF Frees, HostsPersist
    <3> QED
      BY <3>2 DEF Reason
  <2>3. ASSUME NEW c \in Clients, NEW b \in Attachment, Lets(c, b) \/ Undoes(c, b) PROVE Reason(a)'
    <3>1. a = b
      BY <1>2, <2>3 DEF Lets, Undoes, Begun
    <3>2. a[1] = c
      BY <1>0, <2>3, <3>1, AttachmentTyped DEF Lets, Undoes, Own
    <3> QED
      BY <2>3, <3>1, <3>2 DEF Lets, Undoes, Reason
  <2>4. ASSUME NEW c \in Clients, NEW b \in Attachment, Makes(c, b) \/ Grants(c, b) \/ Refuses(c, b) PROVE FALSE
    BY <1>2, <2>4 DEF Makes, Grants, Refuses
  <2>5. ASSUME NEW b \in Attachment, Drains(b) \/ Clears(b) PROVE FALSE
    <3>1. a # b
      BY <1>2, <2>5 DEF Drains, Clears
    <3> QED
      BY <1>2, <2>5, <3>1 DEF Drains, Clears
  <2> QED
    BY <2>1, <2>2, <2>3, <2>4, <2>5 DEF Kind
<1>3. CASE releasing'[a] = "no"
  BY <1>3 DEF Reason
<1> QED
  BY <1>1, <1>2, <1>3

LEMMA CallNext == CallInv /\ [Next]_vars => CallInv'
<1> SUFFICES ASSUME CallInv, [Next]_vars PROVE CallInv'
  OBVIOUS
<1>1. RouterInv /\ Typed /\ HandleInv /\ GotMade /\ SessionsMade
  BY DEF CallInv, RouterInv
<1>2. Kind /\ HostsPersist /\ RouterInv'
  BY <1>1, Kinds, HostsKept, RouterNext
<1>3. GotMade' /\ SessionsMade'
  BY <1>1, <1>2, GotStep, SessionsStep
<1>4. \A a \in Attachment : Reason(a)'
  BY <1>2, ReasonStep
<1>5. ASSUME NEW a \in Attachment
      PROVE  /\ late'[a] > 0 => lease'[a] # "none"
             /\ releasing'[a] \in {"releasing", "done", "failed"} => calls'[a] = 0
             /\ late'[a] > 0 => \/ Removing(session[a])'
                                \/ hostedSessions'[session'[a][1]] # session'[a]
  <2>0. /\ Made(a) /\ Reason(a) /\ a[1] \in Clients /\ a # None
        /\ late[a] > 0 => lease[a] # "none"
        /\ releasing[a] \in {"releasing", "done", "failed"} => calls[a] = 0
        /\ late[a] > 0 => \/ Removing(session[a])
                          \/ hostedSessions[session[a][1]] # session[a]
    BY AttachmentTyped DEF CallInv, RouterInv, DrainedBeforeRelease
  <2>1. ASSUME late[a] = 0, late'[a] > 0
        PROVE  lease[a] # "none" /\ (\/ Removing(session[a])
                                     \/ hostedSessions[session[a][1]] # session[a])
    <3>1. PICK c \in Clients : /\ attachmentsByClient[c] = a /\ ~closing /\ pc[c] \in {"idle", "left"}
                               /\ releasing[a] # "no"
      BY <1>1, <2>1, CallSteps
    <3>2. Own(c)
      BY <1>1 DEF RouterInv
    <3>3. a[1] = c /\ lease[a] # "none"
      BY <2>0, <3>1, <3>2 DEF Own
    <3>4. ~Released(a)
      BY <2>0, <3>1 DEF Made
    <3> QED
      BY <2>0, <3>1, <3>3, <3>4 DEF Reason
  <2>2. late[a] = 0 \/ late[a] > 0
    <3>1. late[a] \in Nat
      BY <1>1, TypeParts DEF Typed, RestTyped
    <3> QED
      BY <3>1
  <2>3. ASSUME late'[a] > 0
        PROVE  lease[a] # "none" /\ (\/ Removing(session[a])
                                     \/ hostedSessions[session[a][1]] # session[a])
    BY <2>0, <2>1, <2>2, <2>3
  <2>4. ASSUME late'[a] > 0
        PROVE  /\ lease'[a] # "none"
               /\ \/ Removing(session[a])'
                  \/ hostedSessions'[session'[a][1]] # session'[a]
    <3>1. lease'[a] # "none" /\ session'[a] = session[a]
      BY <1>1, <1>2, <2>3, <2>4, LeaseSteps
    <3> QED
      BY <1>1, <1>2, <2>0, <2>3, <2>4, <3>1, GoneStays
  <2>5. ASSUME releasing'[a] \in {"releasing", "done", "failed"} PROVE calls'[a] = 0
    <3>1. calls[a] = 0 /\ releasing[a] # "no"
      BY <1>1, <1>2, <2>0, <2>5, ReleasingSteps
    <3> QED
      BY <1>1, <3>1, CallSteps
  <2> QED
    BY <2>4, <2>5
<1>6. DrainedBeforeRelease'
  BY <1>5 DEF DrainedBeforeRelease
<1> QED
  BY <1>2, <1>3, <1>4, <1>5, <1>6 DEF CallInv

LEMMA CallInit == Init => CallInv
<1> SUFFICES ASSUME Init PROVE CallInv
  OBVIOUS
<1>1. RouterInv
  BY RouterInit
<1>2. \A a \in Attachment : ~(late[a] > 0) /\ releasing[a] = "no"
  BY DEF Init
<1>3. GotMade /\ SessionsMade
  BY DEF Init, GotMade, SessionsMade
<1> QED
  BY <1>1, <1>2, <1>3 DEF CallInv, Reason, DrainedBeforeRelease

\* A lease is given back only after the calls admitted on it have settled, and a call is
\* admitted during the release only when the session is removed or has lost its worker
\* (releaseAttachment and startServiceCall, docs/refs/pi-server-session-router.ts).
THEOREM CallsDrainFirst == Spec => []DrainedBeforeRelease
<1>1. CallInv => DrainedBeforeRelease
  BY DEF CallInv
<1> QED
  BY CallInit, CallNext, <1>1, PTL DEF Spec

----------------------------------------------------------------------------
(* Leases that nobody releases                                             *)

\* What the shutdown found is being released.
AllReleased ==
  closer \in {"releasing", "closing", "done"} =>
    \A a \in Attachment :
      Live(a) /\ hostedSessions[session[a][1]] = session[a] => releasing[a] # "no"

StrandedInv == CallInv /\ AllReleased /\ StrandedByRemovalOnly

\* A removal that is through stays so.
RemovalSteps ==
  \A q \in Removals : removal[q] = "done" => removal'[q] = "done" /\ removed'[q] = removed[q]

\* A session leaves the map with its leases being released, or a removal or the shutdown is through.
UnmapSteps ==
  \A a \in Attachment :
    /\ Live(a) /\ ~Released(a) /\ session[a] \in Hosting /\ hostedSessions[session[a][1]] = session[a]
    /\ hostedSessions'[session[a][1]] # session[a]
    => \/ releasing'[a] # "no" \/ closer = "closing"
       \/ \E q \in Removals : removal'[q] = "done" /\ removed'[q] = session[a]

\* The shutdown releases everything that is mapped.
ReleaseSteps ==
  closer \notin {"releasing", "closing", "done"} /\ closer' \in {"releasing", "closing", "done"} =>
    /\ UNCHANGED <<session, lease, hostedSessions>>
    /\ \A a \in Attachment :
         /\ Live(a) /\ ~Released(a) /\ session[a] \in Hosting
         /\ hostedSessions[session[a][1]] = session[a]
         => releasing'[a] # "no"

LEMMA ReleasesAll ==
  ASSUME RestTyped, NEW h \in Hosting, NEW S \in SUBSET Attachment, NEW silent, AttachmentsOf(h) \subseteq S,
         Release(S, silent), NEW a \in Attachment, Live(a), ~Released(a), session[a] = h
  PROVE  releasing'[a] # "no"
<1>1. a \in S
  BY DEF AttachmentsOf, Live
<1>2. releasing[a] \in {"no", "draining", "releasing", "done", "failed"} /\ Begun(S)
  BY ReleaseBegins DEF RestTyped
<1> QED
  BY <1>1, <1>2 DEF Begun

LEMMA LeavesSteps ==
  ASSUME Typed, HandleInv, [Next]_vars
  PROVE  RemovalSteps /\ UnmapSteps /\ ReleaseSteps
<1> USE DEF hostVars, requestVars, clientVars, routeVars, releaseVars, callVars, removeVars,
            closeVars
<1> DEFINE Goal == RemovalSteps /\ UnmapSteps /\ ReleaseSteps
<1>t. RestTyped /\ MappedAreMade
  BY TypeParts DEF Typed, HandleInv
<1>0. ASSUME UNCHANGED <<hostedSessions, removal, removed, closer>> PROVE Goal
  BY <1>0 DEF RemovalSteps, UnmapSteps, ReleaseSteps
<1>1. ASSUME NEW c \in Clients, Requests(c) PROVE Goal
  BY <1>0, <1>1 DEF Requests, AttachClient, DetachClient, ExecuteServiceCall, Disconnect, Request
<1>2. ASSUME NEW c \in Clients, Continues(c) PROVE Goal
  <2>1. CASE AttachReturns(c) \/ Acquire(c) \/ AcquiredTooLate(c) \/ SwitchFrom(c) \/ AttachTo(c)
    BY <1>0, <2>1 DEF AttachReturns, Acquire, AcquiredTooLate, SwitchFrom, AttachTo
  <2>2. CASE ReleaseAwaited(c) \/ Detach(c) \/ NothingToDetach(c) \/ Leave(c) \/ Left(c) \/ CallRejected(c)
    BY <1>0, <2>2 DEF ReleaseAwaited, Detach, NothingToDetach, Leave, Left, CallRejected
  <2>3. CASE StartServiceCall(c)
    BY <1>0, <2>3 DEF StartServiceCall
  <2> QED
    BY <1>2, <2>1, <2>2, <2>3 DEF Continues
<1>3. ASSUME NEW c \in Clients, LeaseGranted(c) \/ LeaseRefused(c) PROVE Goal
  BY <1>0, <1>3 DEF LeaseGranted, LeaseRefused
<1>4. ASSUME NEW s \in Sessions, NEW h \in Hosting, OpenedWhileClosing(s, h) \/ \E r : OpenDrained(s, h, r)
      PROVE  Goal
  BY <1>0, <1>4 DEF OpenedWhileClosing, OpenDrained, OpenEnds
<1>5. ASSUME NEW s \in Sessions, NEW h \in Hosting, OpenSucceeds(s, h) PROVE Goal
  <2>1. UNCHANGED <<removal, removed, closer>> /\ hostedSessions[s] = None
        /\ \A u \in Sessions : u # s => hostedSessions'[u] = hostedSessions[u]
    BY <1>t, <1>5 DEF OpenSucceeds, MappedAreMade, RestTyped
  <2>2. \A g \in Hosting : g[1] \in Sessions /\ g # None
    BY BoundsAssumption DEF Hosting
  <2>3. UnmapSteps
    BY <2>1, <2>2 DEF UnmapSteps
  <2> QED
    BY <2>1, <2>3 DEF RemovalSteps, ReleaseSteps
<1>6. ASSUME NEW s \in Sessions, OpenFails(s) PROVE Goal
  BY <1>0, <1>6 DEF OpenFails, OpenEnds
<1>7. ASSUME NEW q \in Removals, NEW s \in Sessions, RemoveSession(q, s) PROVE Goal
  <2>1. /\ removal[q] = "no" /\ UNCHANGED <<hostedSessions, closer>>
        /\ removal' = [removal EXCEPT ![q] = "releasing"]
        /\ removed' = [removed EXCEPT ![q] = hostedSessions[s]]
    BY <1>7 DEF RemoveSession
  <2>2. \A p \in Removals : p # q => removal'[p] = removal[p] /\ removed'[p] = removed[p]
    BY <1>t, <2>1 DEF RestTyped
  <2> QED
    BY <2>1, <2>2 DEF RemovalSteps, UnmapSteps, ReleaseSteps
<1>8. ASSUME NEW s \in Sessions, NEW T, Invalidate(s, T) PROVE Goal
  <2> DEFINE h == hostedSessions[s]
  <2>1. /\ h \in Hosting /\ h[1] = s /\ UNCHANGED <<removal, removed, closer>>
        /\ Release(AttachmentsOf(h), FALSE) /\ AttachmentsOf(h) \in SUBSET Attachment
        /\ \A u \in Sessions : u # s => hostedSessions'[u] = hostedSessions[u]
    <3>1. /\ h # None /\ UNCHANGED <<removal, removed, closer>> /\ Release(AttachmentsOf(h), FALSE)
          /\ hostedSessions' = [hostedSessions EXCEPT ![s] = None]
      BY <1>8 DEF Invalidate
    <3>2. h \in Hosting /\ h[1] = s
      BY <1>t, <3>1 DEF RestTyped, MappedAreMade
    <3>3. \A u \in Sessions : u # s => hostedSessions'[u] = hostedSessions[u]
      BY <1>t, <3>1 DEF RestTyped
    <3> QED
      BY <3>1, <3>2, <3>3, AttachmentsTyped
  <2>2. \A g \in Hosting : g[1] \in Sessions
    BY DEF Hosting
  <2>3. ASSUME NEW a \in Attachment, Live(a), ~Released(a), session[a] = h PROVE releasing'[a] # "no"
    BY <1>t, <2>1, <2>3, ReleasesAll
  <2>4. UnmapSteps
    BY <2>1, <2>2, <2>3 DEF UnmapSteps
  <2> QED
    BY <2>1, <2>4 DEF RemovalSteps, ReleaseSteps
<1>9. ASSUME NEW a \in Attachment, NEW r,
             Drained(a) \/ NothingToRelease(a) \/ CallSettles(a) \/ LeaseReleased(a, r)
      PROVE  Goal
  BY <1>0, <1>9 DEF Drained, NothingToRelease, CallSettles, LeaseReleased, Clear
<1>10. ASSUME NEW q \in Removals, RemoveCloses(q) PROVE Goal
  <2>1. /\ removal[q] = "releasing" /\ UNCHANGED <<hostedSessions, removed, closer>>
        /\ \A p \in Removals : p # q => removal'[p] = removal[p]
    BY <1>t, <1>10 DEF RemoveCloses, RestTyped
  <2> QED
    BY <2>1 DEF RemovalSteps, UnmapSteps, ReleaseSteps
<1>11. ASSUME NEW q \in Removals, NEW r, RemoveEnds(q, r) PROVE Goal
  <2>1. /\ removal[q] = "closing" /\ removal'[q] = "done" /\ UNCHANGED <<removed, closer>>
        /\ \A p \in Removals : p # q => removal'[p] = removal[p]
        /\ \A u \in Sessions : hostedSessions[u] # removed[q] => hostedSessions'[u] = hostedSessions[u]
    BY <1>t, <1>11 DEF RemoveEnds, RestTyped
  <2>2. \A g \in Hosting : g[1] \in Sessions
    BY DEF Hosting
  <2>3. UnmapSteps
    BY <2>1, <2>2 DEF UnmapSteps
  <2> QED
    BY <2>1, <2>3 DEF RemovalSteps, ReleaseSteps
<1>12. ASSUME BeginClosing \/ Close PROVE Goal
  <2>1. UNCHANGED <<hostedSessions, removal, removed>> /\ (closer' = closer \/ closer' = "settling")
    BY <1>12 DEF BeginClosing, Close
  <2> QED
    BY <2>1 DEF RemovalSteps, UnmapSteps, ReleaseSteps
<1>13. ASSUME CloseReleases PROVE Goal
  <2> DEFINE all == UNION {AttachmentsOf(hostedSessions[s]) : s \in Hosted}
  <2>1. /\ UNCHANGED <<hostedSessions, removal, removed, session, lease>>
        /\ Release(all, FALSE)
    BY <1>13 DEF CloseReleases
  <2>2. all \in SUBSET Attachment
    BY AttachmentsTyped
  <2>3. ASSUME NEW a \in Attachment, Live(a), ~Released(a), session[a] \in Hosting,
               hostedSessions[session[a][1]] = session[a]
        PROVE  releasing'[a] # "no"
    <3>1. session[a][1] \in Hosted
      BY <2>3, BoundsAssumption DEF Hosting, Hosted
    <3>2. AttachmentsOf(session[a]) \subseteq all
      BY <2>3, <3>1
    <3> HIDE DEF all
    <3> QED
      BY <1>t, <2>1, <2>2, <2>3, <3>2, ReleasesAll
  <2> QED
    BY <2>1, <2>3 DEF RemovalSteps, UnmapSteps, ReleaseSteps
<1>14. ASSUME CloseHandles PROVE Goal
  BY <1>14 DEF CloseHandles, RemovalSteps, UnmapSteps, ReleaseSteps
<1>15. ASSUME NEW F, CloseEnds(F) PROVE Goal
  BY <1>15 DEF CloseEnds, RemovalSteps, UnmapSteps, ReleaseSteps
<1>16. ASSUME UNCHANGED vars PROVE Goal
  BY <1>0, <1>16 DEF vars
<1> HIDE DEF Goal
<1>17. Goal
  BY <1>1, <1>2, <1>3, <1>4, <1>5, <1>6, <1>7, <1>8, <1>9, <1>10, <1>11, <1>12, <1>13, <1>14, <1>15,
     <1>16, StepCases
<1> QED
  BY <1>17 DEF Goal

LEMMA StrandedNext == StrandedInv /\ [Next]_vars => StrandedInv'
<1> SUFFICES ASSUME StrandedInv, [Next]_vars PROVE StrandedInv'
  OBVIOUS
<1>1. RouterInv /\ Typed /\ HandleInv /\ SessionsMade /\ CallInv' /\ \A a \in Attachment : Made(a)
  BY CallNext DEF StrandedInv, CallInv, RouterInv
<1>2. Kind /\ HostsPersist /\ Pace /\ RemovalSteps /\ UnmapSteps /\ ReleaseSteps
  BY <1>1, Kinds, HostsKept, Paces, LeavesSteps
<1>3. \A a \in Attachment : /\ releasing[a] # "no" => releasing'[a] # "no"
                            /\ releasing'[a] \in {"done", "failed"} <=> Released(a)'
  BY <1>1, <1>2, ReleasingSteps DEF Released
<1>5. ASSUME NEW a \in Attachment, lease[a] # "none"
      PROVE  /\ session[a] \in Hosting /\ session'[a] = session[a]
             /\ hostedSessions[session[a][1]] # session[a] => hostedSessions'[session[a][1]] # session[a]
  BY <1>1, <1>2, <1>5, LeaseSteps, GoneStays
<1>6. ASSUME NEW a \in Attachment, Live(a), releasing[a] = "no" PROVE ~Released(a) /\ lease[a] # "none"
  BY <1>6 DEF Live, Released
<1>7. AllReleased'
  <2> SUFFICES ASSUME closer' \in {"releasing", "closing", "done"}, NEW a \in Attachment, Live(a)',
                      hostedSessions'[session'[a][1]] = session'[a], releasing'[a] = "no"
               PROVE  FALSE
    BY DEF AllReleased
  <2>1. releasing[a] = "no"
    BY <1>3
  <2>2. CASE closer \in {"releasing", "closing", "done"}
    <3>1. ~\E c \in Clients : Makes(c, a)
      BY <1>1, <2>2, MakesFresh
    <3>2. Live(a)
      BY <1>1, <1>2, <3>1, LeaseSteps
    <3>3. lease[a] # "none"
      BY <3>2 DEF Live
    <3>4. hostedSessions[session[a][1]] = session[a]
      BY <1>5, <3>3
    <3> QED
      BY <2>1, <2>2, <3>2, <3>4 DEF StrandedInv, AllReleased
  <2>3. CASE closer \notin {"releasing", "closing", "done"}
    <3>1. UNCHANGED <<session, lease, hostedSessions>>
      BY <1>2, <2>3 DEF ReleaseSteps
    <3>2. Live(a)
      BY <3>1 DEF Live
    <3> QED
      BY <1>2, <1>5, <1>6, <2>1, <2>3, <3>1, <3>2 DEF ReleaseSteps
  <2> QED
    BY <2>2, <2>3
<1>8. StrandedByRemovalOnly'
  <2> SUFFICES ASSUME NEW a \in Attachment, lease'[a] = "held", releasing'[a] = "no",
                      hostedSessions'[session'[a][1]] # session'[a]
               PROVE  \E q \in Removals : removal'[q] = "done" /\ removed'[q] = session'[a]
    BY DEF StrandedByRemovalOnly
  <2>1. releasing[a] = "no"
    BY <1>3
  <2>2. ~\E c \in Clients : Makes(c, a)
    BY DEF Makes
  <2>3. Live(a)
    BY <1>1, <1>2, <2>2, LeaseSteps DEF Live
  <2>4. ~Released(a) /\ lease[a] # "none" /\ session[a] \in Hosting /\ session'[a] = session[a]
    BY <1>5, <1>6, <2>1, <2>3
  <2>5. CASE hostedSessions[session[a][1]] = session[a]
    <3>1. \/ closer = "closing"
          \/ \E q \in Removals : removal'[q] = "done" /\ removed'[q] = session[a]
      BY <1>2, <2>1, <2>3, <2>4, <2>5 DEF UnmapSteps
    <3>2. closer # "closing"
      BY <2>1, <2>3, <2>5 DEF StrandedInv, AllReleased
    <3> QED
      BY <2>4, <3>1, <3>2
  <2>6. CASE hostedSessions[session[a][1]] # session[a]
    <3>1. lease[a] = "held"
      <4>1. ASSUME lease[a] = "acquiring" PROVE FALSE
        <5>1. ASSUME NEW c \in Clients, NEW b \in Attachment, Grants(c, b) \/ Undoes(c, b) PROVE FALSE
          <6>1. a # b
            BY <2>1, <2>6, <5>1 DEF Grants, Undoes, Begun
          <6>2. lease'[a] = lease[a]
            BY <5>1, <6>1 DEF Grants, Undoes
          <6> QED
            BY <4>1, <6>2
        <5>2. ASSUME NEW c \in Clients, NEW b \in Attachment, Lets(c, b) \/ Makes(c, b) \/ Refuses(c, b) PROVE FALSE
          BY <2>2, <4>1, <5>2 DEF Lets, Makes, Refuses
        <5>3. ASSUME NEW b \in Attachment, Drains(b) \/ Clears(b) PROVE FALSE
          BY <4>1, <5>3 DEF Drains, Clears
        <5>4. CASE Rests \/ Ceases \/ \E S \in SUBSET Attachment : Frees(S)
          BY <4>1, <5>4 DEF Rests, Ceases, Frees
        <5> QED
          BY <1>2, <5>1, <5>2, <5>3, <5>4 DEF Kind
      <4> QED
        BY <2>3, <4>1 DEF Live
    <3>2. \E q \in Removals : removal[q] = "done" /\ removed[q] = session[a]
      BY <2>1, <2>6, <3>1 DEF StrandedInv, StrandedByRemovalOnly
    <3> QED
      BY <1>2, <2>4, <3>2 DEF RemovalSteps
  <2> QED
    BY <2>5, <2>6
<1> QED
  BY <1>1, <1>7, <1>8 DEF StrandedInv

\* A lease that nobody has begun to release is on a hosted session, unless a removal of
\* that session is through (removeSession, invalidate and closeInternal,
\* docs/refs/pi-server-session-router.ts).
THEOREM OnlyRemovalStrands == Spec => []StrandedByRemovalOnly
<1>1. Init => StrandedInv
  BY CallInit DEF Init, StrandedInv, AllReleased, StrandedByRemovalOnly
<1>2. StrandedInv => StrandedByRemovalOnly
  BY DEF StrandedInv
<1> QED
  BY StrandedNext, <1>1, <1>2, PTL DEF Spec

============================================================================
