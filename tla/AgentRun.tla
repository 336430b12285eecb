------------------------------ MODULE AgentRun ------------------------------
(***************************************************************************)
(* A run of the agent: runAgent with its timer (index.ts), the turns of    *)
(* model and tools under the agent's policy, and the tools of              *)
(* tools/sec-tools.ts.  The engine that alternates between model and tools *)
(* is a dependency: here as far as the tools and the policy show it.       *)
(*                                                                         *)
(* read and edit are synchronous, each is one step of its process.  bash   *)
(* waits for a child process, websearch for a fetch, and neither passes an *)
(* interruption on: what a run no longer waits for goes on without it.     *)
(***************************************************************************)
EXTENDS Naturals

CONSTANTS
  Runs,
  MaxTurns, MaxToolCalls, ToolConcurrency    \* the policy: 5, 10 and 2

VARIABLE
  run                      \* Runs -> Run

Run == [
  phase    : {"idle", "model", "tools", "answered", "failed", "killed"},
  timer    : {"off", "armed", "fired"},
  turn     : 0..MaxTurns + 1,
  calls    : 0..MaxToolCalls + 1,   \* asked for; the last value is "too many"
  queued   : 0..MaxToolCalls,       \* not started
  children : 0..MaxToolCalls,       \* of bash
  fetches  : 0..MaxToolCalls]       \* of websearch

TypeOK == run \in [Runs -> Run]

Init ==
  run = [r \in Runs |-> [phase |-> "idle", timer |-> "off", turn |-> 0, calls |-> 0,
                         queued |-> 0, children |-> 0, fetches |-> 0]]

Becomes(r, state) == run' = [run EXCEPT ![r] = state]

-----------------------------------------------------------------------------
(* runAgent *)

Begin(r) ==
  /\ run[r].phase = "idle"
  /\ Becomes(r, [run[r] EXCEPT !.phase = "model", !.timer = "armed", !.turn = 1])

\* The abort reaches a controller whose signal nobody was given.
TimerFires(r) ==
  /\ run[r].timer = "armed"
  /\ Becomes(r, [run[r] EXCEPT !.timer = "fired"])

\* The promise settles; finally clears the timer.
Ended(r, how) == [run[r] EXCEPT !.phase = how, !.timer = "off", !.queued = 0]

-----------------------------------------------------------------------------
(* The model's turn *)

Answers(r) ==
  /\ run[r].phase = "model"
  /\ Becomes(r, Ended(r, "answered"))

\* No answer, one that is not the JSON asked for, tools in a turn without.
ModelFails(r) ==
  /\ run[r].phase = "model"
  /\ Becomes(r, Ended(r, "failed"))

\* One more turn is granted for the answer when turns or calls are used up.
MayCall(r) == run[r].turn <= MaxTurns /\ run[r].calls <= MaxToolCalls

ModelCalls(r, n) ==
  /\ run[r].phase = "model" /\ MayCall(r)
  /\ run[r].calls + n <= MaxToolCalls
  /\ Becomes(r, [run[r] EXCEPT !.phase = "tools", !.calls = @ + n, !.queued = n])

CallsRejected(r) ==
  /\ run[r].phase = "model" /\ MayCall(r)
  /\ Becomes(r, [run[r] EXCEPT !.calls = MaxToolCalls + 1, !.turn = @ + 1])

-----------------------------------------------------------------------------
(* The tools' turn *)

\* Mutant of InFlight: bash resolves when its child is spawned.
InFlightSpawned(r) == run[r].fetches

\* Calls whose promises have not resolved: bash's does when its child has
\* closed its streams, or could not be started.
InFlight(r) == run[r].children + run[r].fetches

MayStart(r) ==
  run[r].phase = "tools" /\ run[r].queued > 0 /\ InFlight(r) < ToolConcurrency

\* read, edit
FileTool(r) == MayStart(r) /\ Becomes(r, [run[r] EXCEPT !.queued = @ - 1])

\* No such file, the old text is not in it: failureMode is "error", so that
\* the failure is the run's.
FileToolFails(r) == MayStart(r) /\ Becomes(r, Ended(r, "failed"))

Bash(r) ==
  MayStart(r) /\ Becomes(r, [run[r] EXCEPT !.queued = @ - 1, !.children = @ + 1])

ChildEnds(r) ==
  /\ run[r].children > 0
  /\ Becomes(r, [run[r] EXCEPT !.children = @ - 1])

Search(r) ==
  MayStart(r) /\ Becomes(r, [run[r] EXCEPT !.queued = @ - 1, !.fetches = @ + 1])

FetchEnds(r) ==
  /\ run[r].fetches > 0
  /\ Becomes(r, [run[r] EXCEPT !.fetches = @ - 1])

\* No connection, an error status, no JSON: the exception of a promise is a
\* defect, and ends the run as a failure does.
SearchThrows(r) ==
  /\ run[r].phase = "tools" /\ run[r].fetches > 0
  /\ Becomes(r, [Ended(r, "failed") EXCEPT !.fetches = @ - 1])

BatchOver(r) ==
  /\ run[r].phase = "tools" /\ run[r].queued = 0 /\ InFlight(r) = 0
  /\ Becomes(r, [run[r] EXCEPT !.phase = "model", !.turn = @ + 1])

-----------------------------------------------------------------------------
(* The policy's maxDuration, and the end of the process *)

\* Mutant of Deadline: it is looked at between turns only.
DeadlineOfModel(r) ==
  /\ run[r].phase = "model"
  /\ Becomes(r, Ended(r, "failed"))

Deadline(r) ==
  /\ run[r].phase \in {"model", "tools"}
  /\ Becomes(r, Ended(r, "failed"))

\* Child processes go on.
Killed(r) ==
  Becomes(r, [run[r] EXCEPT !.phase = IF @ \in {"answered", "failed"} THEN @ ELSE "killed",
                            !.timer = "off", !.queued = 0, !.fetches = 0])

-----------------------------------------------------------------------------
(* What a step of a run can be, for the modules that compose runs *)

GoesOn(r) ==
  \/ TimerFires(r)
  \/ CallsRejected(r) \/ \E n \in 1..MaxToolCalls : ModelCalls(r, n)
  \/ FileTool(r) \/ Bash(r) \/ Search(r) \/ BatchOver(r)

Fails(r) == ModelFails(r) \/ FileToolFails(r) \/ SearchThrows(r)

\* With or without the run that started them.
ToolsEnd(r) == ChildEnds(r) \/ FetchEnds(r)
=============================================================================
