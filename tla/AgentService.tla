---------------------------- MODULE AgentService ----------------------------
(***************************************************************************)
(* sec-cell: a client posts code to /api/agent/execute of the cell         *)
(* (sec-cell/src/index.ts), which forwards it with a 30 s timeout to the   *)
(* agent service (agentos-service.mjs); the service keeps one state per    *)
(* actor in memory and in one JSON file per actor.                         *)
(*                                                                         *)
(* The service is one JavaScript thread: a handler runs to its next await  *)
(* without interruption, but the code it awaits (runInSandbox) lets other  *)
(* requests in, for the same actor too, and the process may die anywhere,  *)
(* also between the truncation and the write of writeFileSync.             *)
(***************************************************************************)
EXTENDS Naturals, Sequences, SequencesExt

CONSTANTS
  Actors,                  \* values of the id parameter
  Requests,                \* execute requests; each stands for its code
  NotLoaded,               \* an actor the manager's map does not have
  NoFile, Torn             \* no state file, a truncated one

VARIABLES
  up,                      \* the service's process runs
  mem,                     \* actor -> its state in the manager's map
  disk,                    \* actor -> what its state file holds
  handler,                 \* request -> where its handler in the service is
  target,                  \* request -> the actor it was sent to
  reply                    \* request -> what the client was told

vars == <<up, mem, disk, handler, target, reply>>

State == [status : {"ready", "executing"}, history : Seq(Requests)]
Default == [status |-> "ready", history |-> <<>>]

ASSUME MarkersOK ==
  /\ NotLoaded \notin State /\ NoFile \notin State /\ Torn \notin State
  /\ NoFile # Torn

TypeOK ==
  /\ up \in BOOLEAN
  /\ mem \in [Actors -> State \union {NotLoaded}]
  /\ disk \in [Actors -> State \union {NoFile, Torn}]
  /\ handler \in [Requests -> {"none", "body", "running", "ended"}]
  /\ target \in [Requests -> Actors]
  /\ reply \in [Requests -> {"none", "waiting", "result", "failed", "unavailable"}]
  /\ ~up => \A a \in Actors : mem[a] = NotLoaded

Init ==
  /\ up = TRUE
  /\ mem = [a \in Actors |-> NotLoaded]
  /\ disk = [a \in Actors |-> NoFile]
  /\ handler = [r \in Requests |-> "none"]
  /\ target \in [Requests -> Actors]
  /\ reply = [r \in Requests |-> "none"]

-----------------------------------------------------------------------------
(* Saving, and the process *)

\* Mutant of Recorded: the history starts anew with each request.
RecordedAlone(r) == [status |-> "executing", history |-> <<r>>]

\* The actor's state when it starts to execute r.
Recorded(r) ==
  [status |-> "executing", history |-> Append(mem[target[r]].history, r)]

\* The state a handler saves next.
Saving(r) ==
  IF handler[r] = "body" THEN Recorded(r) ELSE [mem[target[r]] EXCEPT !.status = "ready"]

\* The client is answered once; an answer after the timeout goes nowhere.
Answer(r, what) ==
  reply' = [reply EXCEPT ![r] = IF @ = "waiting" THEN what ELSE @]

\* The process dies with everything in memory; the cell's pending fetches fail.
Die ==
  /\ up' = FALSE
  /\ mem' = [a \in Actors |-> NotLoaded]
  /\ handler' = [r \in Requests |-> IF handler[r] = "none" THEN "none" ELSE "ended"]
  /\ reply' = [r \in Requests |->
                 IF reply[r] = "waiting" THEN "unavailable" ELSE reply[r]]

\* At any point between two steps.
Crash ==
  /\ up /\ Die
  /\ UNCHANGED <<disk, target>>

\* In the middle of a saveState, or between it and the answer.
CrashSaving(r) ==
  /\ up /\ handler[r] \in {"body", "running"}
  /\ disk' \in {[disk EXCEPT ![target[r]] = f] : f \in {Torn, Saving(r)}}
  /\ Die
  /\ UNCHANGED target

Restart ==
  /\ ~up
  /\ up' = TRUE
  /\ UNCHANGED <<mem, disk, handler, target, reply>>

-----------------------------------------------------------------------------
(* A request *)

\* Mutants of LoadState: an unreadable file counts as none, and no test whether
\* the file exists.
LoadStateLenient(a) == IF disk[a] \in State THEN disk[a] ELSE Default
LoadStateUnchecked(a) == disk[a]

\* loadState: Torn stands for the exception that JSON.parse throws.
LoadState(a) == IF disk[a] = NoFile THEN Default ELSE disk[a]

\* The cell forwards a request; the service finds or loads its actor first.
Arrive(r) ==
  /\ reply[r] = "none" /\ up
  /\ mem[target[r]] = NotLoaded => LoadState(target[r]) # Torn
  /\ mem' = [mem EXCEPT ![target[r]] = IF @ = NotLoaded THEN LoadState(target[r]) ELSE @]
  /\ handler' = [handler EXCEPT ![r] = "body"]
  /\ reply' = [reply EXCEPT ![r] = "waiting"]
  /\ UNCHANGED <<up, disk, target>>

\* loadState throws in the request handler, outside its try block: the
\* rejection is unhandled and ends the process.
ArriveKills(r) ==
  /\ reply[r] = "none" /\ up
  /\ mem[target[r]] = NotLoaded /\ LoadState(target[r]) = Torn
  /\ up' = FALSE
  /\ mem' = [a \in Actors |-> NotLoaded]
  /\ handler' = [q \in Requests |->
                   IF handler[q] = "none" /\ q # r THEN "none" ELSE "ended"]
  /\ reply' = [q \in Requests |->
                 IF reply[q] = "waiting" \/ q = r THEN "unavailable" ELSE reply[q]]
  /\ UNCHANGED <<disk, target>>

\* Nobody listens: the cell answers 503.
ArriveDown(r) ==
  /\ reply[r] = "none" /\ ~up
  /\ reply' = [reply EXCEPT ![r] = "unavailable"]
  /\ UNCHANGED <<up, mem, disk, handler, target>>

\* The body is complete: record the code, save, run the code.
Begin(r) ==
  /\ handler[r] = "body"
  /\ mem' = [mem EXCEPT ![target[r]] = Saving(r)]
  /\ disk' = [disk EXCEPT ![target[r]] = Saving(r)]
  /\ handler' = [handler EXCEPT ![r] = "running"]
  /\ UNCHANGED <<up, target, reply>>

\* The code has returned or thrown: mark the actor ready, save, answer.
Finish(r) ==
  /\ handler[r] = "running"
  /\ mem' = [mem EXCEPT ![target[r]] = Saving(r)]
  /\ disk' = [disk EXCEPT ![target[r]] = Saving(r)]
  /\ handler' = [handler EXCEPT ![r] = "ended"]
  /\ Answer(r, "result")
  /\ UNCHANGED <<up, target>>

\* The body is no JSON: nothing has changed yet.
BadBody(r) ==
  /\ handler[r] = "body"
  /\ handler' = [handler EXCEPT ![r] = "ended"]
  /\ Answer(r, "failed")
  /\ UNCHANGED <<up, mem, disk, target>>

\* saveState throws, before or after it truncated the file: 400, and the
\* state in memory is ahead of the file.
SaveThrows(r) ==
  /\ handler[r] \in {"body", "running"}
  /\ mem' = [mem EXCEPT ![target[r]] = Saving(r)]
  /\ disk' \in {disk, [disk EXCEPT ![target[r]] = Torn]}
  /\ handler' = [handler EXCEPT ![r] = "ended"]
  /\ Answer(r, "failed")
  /\ UNCHANGED <<up, target>>

\* 30 s have passed: the cell answers 503, and the service does not notice.
Timeout(r) ==
  /\ reply[r] = "waiting"
  /\ reply' = [reply EXCEPT ![r] = "unavailable"]
  /\ UNCHANGED <<up, mem, disk, handler, target>>

Next ==
  \/ Crash \/ Restart
  \/ \E r \in Requests :
       \/ Arrive(r) \/ ArriveKills(r) \/ ArriveDown(r)
       \/ Begin(r) \/ Finish(r) \/ BadBody(r) \/ SaveThrows(r) \/ CrashSaving(r)
       \/ Timeout(r)

Spec == Init /\ [][Next]_vars

-----------------------------------------------------------------------------
(* Properties *)

InHistory(r, state) == \E i \in 1..Len(state.history) : state.history[i] = r

\* Code whose result a client was given is in the actor's history on disk, so
\* that the history survives any later crash, unless that crash, or a failing
\* save, tears the file.
AnsweredIsDurable ==
  \A r \in Requests : reply[r] = "result" =>
    disk[target[r]] = Torn \/ InHistory(r, disk[target[r]])

\* A history on disk is only ever extended, over restarts too: a service that
\* cannot read the file does not start a new history over it. A torn file is
\* repaired by the process that tore it or not at all: once no running service
\* has the actor in its map, the file stays torn, and nobody gets the actor.
HistoryOnlyExtended ==
  [][\A a \in Actors :
       /\ disk[a] \in State /\ disk'[a] # Torn =>
            disk'[a] \in State /\ IsPrefix(disk[a].history, disk'[a].history)
       /\ disk[a] = Torn /\ mem[a] = NotLoaded =>
            disk'[a] = Torn /\ mem'[a] = NotLoaded]_vars
=============================================================================
