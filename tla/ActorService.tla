---------------------------- MODULE ActorService ----------------------------
(***************************************************************************)
(* sec-cell/actor-service.mjs, the service that keeps its actors in memory *)
(* only. One JavaScript thread: requests that arrive in one packet of one  *)
(* connection are parsed together, so that each of them looks its actor up *)
(* before any of them has stored one; what follows an await runs after the *)
(* parser, in the order of the requests. The code an execute runs is       *)
(* awaited, too, and lets other packets in.                                *)
(***************************************************************************)
EXTENDS Naturals, Sequences, SequencesExt

CONSTANTS
  Ids,                     \* values of the id parameter
  Calls,                   \* requests; each stands for its code, if it has any
  MaxTogether,             \* bound: requests in one packet
  Nothing                  \* no actor

VARIABLES
  actors,                  \* manager.actors: id -> an actor of made, or Nothing
  made,                    \* the actors that createSecAgent has made, in order
  call,                    \* request -> its id, its actor and where it is
  packet                   \* request -> the requests it was parsed with

vars == <<actors, made, call, packet>>

New == [status |-> "ready", history |-> <<>>]
Unsent == [id |-> Nothing, actor |-> Nothing, at |-> "no"]

TypeOK ==
  /\ made \in Seq([status : {"ready", "executing"}, history : Seq(Calls)])
  /\ actors \in [Ids -> DOMAIN made \cup {Nothing}]
  /\ call \in [Calls -> [id : Ids \cup {Nothing}, actor : Nat \cup {Nothing},
                         at : {"no", "body", "running", "ended", "lost"}]]
  /\ packet \in [Calls -> Seq(Calls)]
  /\ \A c \in Calls : call[c].at \in {"body", "running"} => call[c].actor \in DOMAIN made

Init ==
  /\ actors = [i \in Ids |-> Nothing] /\ made = <<>>
  /\ call = [c \in Calls |-> Unsent]
  /\ packet = [c \in Calls |-> <<>>]

-----------------------------------------------------------------------------

\* Mutant of Creates: nobody asks whether the map has the actor.
CreatesAlways(id) == TRUE

\* getOrCreate's test, as each request of a packet makes it.
Creates(id) == actors[id] = Nothing

\* What a client sends: an execute, or one of the paths that only look (health,
\* status, history, or one that is not found); all look their actor up first.
Message == [call : Calls, id : Ids, wants : {"execute", "look"}]

\* The places in p of the messages that create an actor: the n-th of them makes
\* the n-th actor after those there are.
Creators(p) == {k \in DOMAIN p : Creates(p[k].id)}
MadeFor(p, k) == Len(made) + Cardinality({j \in Creators(p) : j <= k})

\* What the map holds when all of them have stored theirs: the last one's.
Stored(p, id) ==
  LET mine == {k \in Creators(p) : p[k].id = id}
  IN  IF mine = {} THEN actors[id] ELSE MadeFor(p, Max(mine))

\* What request k of p gets: the actor it has created, or found.
Gets(p, k) == IF k \in Creators(p) THEN MadeFor(p, k) ELSE actors[p[k].id]

\* A packet is parsed, and its requests are served up to their next await: an
\* execute waits for its body, everything else is answered.
Parse(p) ==
  /\ \A k \in DOMAIN p : call[p[k].call].at = "no"
  /\ made' = made \o [k \in 1..Cardinality(Creators(p)) |-> New]
  /\ actors' = [i \in Ids |-> Stored(p, i)]
  /\ call' = [c \in Calls |->
       IF ~\E k \in DOMAIN p : p[k].call = c THEN call[c]
       ELSE LET k == CHOOSE k \in DOMAIN p : p[k].call = c
            IN  [id |-> p[k].id, actor |-> Gets(p, k),
                 at |-> IF p[k].wants = "execute" THEN "body" ELSE "ended"]]
  /\ packet' = [c \in Calls |->
       IF \E k \in DOMAIN p : p[k].call = c THEN [k \in DOMAIN p |-> p[k].call] ELSE packet[c]]

Actor(c) == call[c].actor

\* The body is complete and JSON: execute records the code and runs it.
Execute(c) ==
  /\ call[c].at = "body"
  /\ made' = [made EXCEPT ![Actor(c)] =
                [status |-> "executing", history |-> Append(@.history, c)]]
  /\ call' = [call EXCEPT ![c].at = "running"]
  /\ UNCHANGED <<actors, packet>>

\* No JSON, or nothing that has a code: 400.
BadBody(c) ==
  /\ call[c].at = "body"
  /\ call' = [call EXCEPT ![c].at = "ended"]
  /\ UNCHANGED <<actors, made, packet>>

\* The code has returned or thrown: either way the actor is ready.
Executed(c) ==
  /\ call[c].at = "running"
  /\ made' = [made EXCEPT ![Actor(c)].status = "ready"]
  /\ call' = [call EXCEPT ![c].at = "ended"]
  /\ UNCHANGED <<actors, packet>>

\* The process ends, by itself or by the code it runs, and is started again:
\* nothing is kept.
Crash ==
  /\ actors' = [i \in Ids |-> Nothing] /\ made' = <<>>
  /\ call' = [c \in Calls |->
                IF call[c] = Unsent THEN Unsent
                ELSE [id |-> Nothing, actor |-> Nothing, at |-> "lost"]]
  /\ packet' = [c \in Calls |-> <<>>]

Packets ==
  {p \in SeqOf(Message, MaxTogether) :
     p # <<>> /\ IsInjective([k \in DOMAIN p |-> p[k].call])}

Next ==
  \/ Crash
  \/ \E p \in Packets : Parse(p)
  \/ \E c \in Calls : Execute(c) \/ BadBody(c) \/ Executed(c)

Spec == Init /\ [][Next]_vars

-----------------------------------------------------------------------------
(* Properties *)

\* Two requests of one packet for an actor nobody has asked for before: the
\* later one's actor is kept.
Replaced(c) ==
  \E d \in Range(packet[c]) \ {c} : call[d].id = call[c].id /\ Actor(d) = actors[call[c].id]

\* Code that runs is in the history that status and history show
\* of its actor, unless its request came in one packet with a later one for
\* the same new actor, which replaced it; and an actor says executing only
\* while it executes something (it may say ready all the same).
ExecutedIsShown ==
  /\ \A c \in Calls : call[c].at = "running" =>
       /\ c \in Range(made[Actor(c)].history)
       /\ Actor(c) = actors[call[c].id] \/ Replaced(c)
  /\ \A k \in DOMAIN made : made[k].status = "executing" =>
       \E c \in Calls : call[c].at = "running" /\ Actor(c) = k
=============================================================================
