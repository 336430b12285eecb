---------------------------- MODULE CellServices ----------------------------
(***************************************************************************)
(* The two services behind the cell, agentos-service.mjs and the older     *)
(* actor-service.mjs, listen on the same port (127.0.0.1:9878): the one    *)
(* that is started first has it, and the other cannot start. Only the      *)
(* first keeps its actors on disk.                                         *)
(***************************************************************************)
EXTENDS AgentService

CONSTANTS Calls, MaxTogether, Nothing

ASSUME NothingIsNoActor == MaxTogether \in Nat /\ Nothing \notin Nat \cup Actors

VARIABLES
  listening,               \* who has the port
  actors, made, call, packet

Memory == INSTANCE ActorService WITH Ids <- Actors

memoryVars == <<actors, made, call, packet>>
allVars == <<vars, listening, memoryVars>>

ServicesInit ==
  /\ listening \in {"agentos", "memory"}
  /\ Init /\ Memory!Init

AgentosStep == listening = "agentos" /\ Next /\ UNCHANGED <<listening, memoryVars>>
MemoryStep == listening = "memory" /\ Memory!Next /\ UNCHANGED <<listening, vars>>

ServicesSpec == ServicesInit /\ [][AgentosStep \/ MemoryStep]_allVars

-----------------------------------------------------------------------------
(* Properties *)

ServicesTypeOK == TypeOK /\ Memory!TypeOK /\ listening \in {"agentos", "memory"}

\* What the in-memory service promises of executed code (see ActorService):
\* it is in the history that is shown, unless its request came in one packet
\* with a later one for the same new actor (sec-cell/actor-service.mjs:18).
ExecutedIsShown == Memory!ExecutedIsShown
=============================================================================
