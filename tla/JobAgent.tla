------------------------------ MODULE JobAgent ------------------------------
(***************************************************************************)
(* Background jobs whose workers run the agent: Jobs composed with         *)
(* AgentRun.  Where Jobs lets the agent end in one way or the other, here  *)
(* the run has to come to that end: by its answer, by a failure of the     *)
(* model or of a tool, or by the policy's deadline.                        *)
(***************************************************************************)
EXTENDS Jobs

CONSTANTS MaxTurns, MaxToolCalls, ToolConcurrency

ASSUME PolicyAssumption ==
  MaxTurns \in Nat \ {0} /\ MaxToolCalls \in Nat /\ ToolConcurrency \in Nat \ {0}

VARIABLE run

Agent == INSTANCE AgentRun WITH Runs <- JobIds

allVars == <<vars, run>>

JobAgentInit == Init /\ Agent!Init

\* Steps that have nothing to do with the agent.
JobStep(j) ==
  /\ Launch(j) \/ SaveOpens(j) \/ SaveWrites(j) \/ Spawn(j) \/ Load(j) \/ SaveThrows(j) \/ Remove(j)
  /\ UNCHANGED run

WorkerRuns(j) ==
  /\ pc[j] = "agent"
  /\ Agent!Begin(j)
  /\ UNCHANGED vars

RunStep(j) == (Agent!GoesOn(j) \/ Agent!ToolsEnd(j)) /\ UNCHANGED vars

\* The ends of the run that AgentEnds stands for.
WorkerAnswered(j) == Agent!Answers(j) /\ AgentEnds(j) /\ job'[j].status = "completed"
WorkerFailed(j) == Agent!Fails(j) /\ AgentEnds(j) /\ job'[j].status = "failed"
WorkerTimesOut(j) == Agent!Deadline(j) /\ AgentEnds(j) /\ job'[j].status = "failed"

WorkerDies(j) == Crash(j) /\ Agent!Killed(j)

JobAgentNext ==
  \E j \in JobIds :
    \/ JobStep(j) \/ WorkerRuns(j) \/ RunStep(j)
    \/ WorkerAnswered(j) \/ WorkerFailed(j) \/ WorkerTimesOut(j) \/ WorkerDies(j)

JobAgentSpec == JobAgentInit /\ [][JobAgentNext]_allVars

\* What the code itself does next, the policy's deadline included: nothing is
\* assumed of the model, of a child process or of a fetch.
Scheduled(j) ==
  \/ (SaveOpens(j) \/ SaveWrites(j) \/ Spawn(j) \/ Load(j)) /\ UNCHANGED run
  \/ WorkerRuns(j) \/ WorkerTimesOut(j)

FairJobAgentSpec == JobAgentSpec /\ \A j \in JobIds : WF_allVars(Scheduled(j))

-----------------------------------------------------------------------------
(* Properties *)

JobAgentTypeOK == TypeOK /\ Agent!TypeOK

\* A job that `sec status` shows as completed is one whose run is over for
\* good: its run answered, no tool of it failed, and nothing that a tool
\* started (sec-tools.ts:132-149, 172-192) goes on behind the answer. Of a
\* failed job this is not so: children that a failure or the deadline left
\* behind run on.
CompletedIsQuiet ==
  \A j \in JobIds : file[j] \in Job /\ file[j].status = "completed" =>
    /\ run[j].phase = "answered"
    /\ run[j].children = 0 /\ run[j].fetches = 0
=============================================================================
