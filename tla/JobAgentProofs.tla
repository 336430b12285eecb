--------------------------- MODULE JobAgentProofs ---------------------------
(***************************************************************************)
(* Theorems about Jobs and JobAgent, for any number of jobs and any        *)
(* policy: the promises of Jobs, that JobAgent implements Jobs and so      *)
(* keeps them, and that a completed job leaves nothing running.            *)
(***************************************************************************)
EXTENDS JobAgent, TLAPS

(***************************************************************************)
(* Jobs: files and outcomes.                                               *)
(***************************************************************************)


\* What the label of a job says of its file and of the object in memory.
\* TornHasWriter and DoneShowsOutcome follow from it at once; it adds what the
\* worker holds while it works, which is what it will write.
JobInv(j) ==
  /\ pc[j] \in {"unused", "create"} => file[j] = NoFile
  /\ pc[j] \in Writing => file[j] \in {NoFile, Torn}
  /\ pc[j] \in {"unused", "create", "creating", "spawn", "load"} => job[j] = New
  /\ pc[j] \in {"spawn", "load", "mark"} =>
       file[j] = NoFile \/ file[j] = New
  /\ pc[j] \in {"mark", "marking", "agent"} => job[j] = [New EXCEPT !.status = "running"]
  /\ pc[j] \in {"finish", "finishing"} =>
       job[j] = [status |-> "completed", result |-> TRUE, error |-> FALSE]
  /\ pc[j] \in {"fail", "failing"} => job[j].status = "failed" /\ job[j].error
  /\ file[j] = Torn => pc[j] \in Writing \union {"fail", "dead"}
  /\ pc[j] \notin {"done", "dead"} => ~ShowsOutcome(j)
  /\ pc[j] = "done" => file[j] = NoFile \/ ShowsOutcome(j)
  /\ file[j] \in Job =>
       /\ file[j].status = "completed" => file[j].result /\ ~file[j].error
       /\ file[j].status = "failed" => file[j].error
       /\ file[j].status \in {"pending", "running"} => ~file[j].result /\ ~file[j].error

Inv == TypeOK /\ \A j \in JobIds : JobInv(j)

LEMMA InitInv == Init => Inv
  BY FilesOK DEF Init, Inv, TypeOK, JobInv, ShowsOutcome, Job, New, Writing

\* Every action works on one job and leaves the others as they are.
LEMMA OneJob ==
  ASSUME Inv, NEW j \in JobIds, TypeOK', JobInv(j)',
         \A k \in JobIds \ {j} : pc'[k] = pc[k] /\ file'[k] = file[k] /\ job'[k] = job[k]
  PROVE  Inv'
<1>1. ASSUME NEW k \in JobIds, k # j
      PROVE  JobInv(k)'
  BY <1>1 DEF Inv, JobInv, ShowsOutcome
<1> QED
  BY <1>1 DEF Inv

LEMMA StepInv == Inv /\ [Next]_vars => Inv'
<1> SUFFICES ASSUME Inv, [Next]_vars
             PROVE  Inv'
  OBVIOUS
<1> USE FilesOK
<1>1. CASE UNCHANGED vars
  BY <1>1 DEF vars, Inv, TypeOK, JobInv, ShowsOutcome
<1>2. ASSUME NEW j \in JobIds, Launch(j)
      PROVE  Inv'
  <2>1. pc[j] = "unused" /\ pc' = [pc EXCEPT ![j] = "create"] /\ UNCHANGED <<file, job>>
    BY <1>2 DEF Launch, Goto
  <2>2. TypeOK'
    BY <2>1 DEF Inv, TypeOK, Saving
  <2>3. pc'[j] = "create" /\ file'[j] = file[j] /\ job'[j] = job[j] /\ JobInv(j)
    BY <2>1 DEF Inv, TypeOK
  <2>4. JobInv(j)'
    BY <2>1, <2>3 DEF JobInv, ShowsOutcome, Writing
  <2> QED
    BY <2>1, <2>2, <2>4, OneJob DEF Inv, TypeOK
<1>3. ASSUME NEW j \in JobIds, SaveOpens(j)
      PROVE  Inv'
  <2>1. PICK label \in Writing :
          /\ \/ pc[j] = "create" /\ label = "creating"
             \/ pc[j] = "mark" /\ label = "marking"
             \/ pc[j] = "finish" /\ label = "finishing"
             \/ pc[j] = "fail" /\ label = "failing"
          /\ file' = [file EXCEPT ![j] = Torn] /\ pc' = [pc EXCEPT ![j] = label] /\ job' = job
    BY <1>3 DEF SaveOpens, Truncate, Goto, Writing
  <2>2. /\ pc'[j] = label /\ file'[j] = Torn /\ job'[j] = job[j] /\ JobInv(j)
        /\ \A k \in JobIds \ {j} : pc'[k] = pc[k] /\ file'[k] = file[k] /\ job'[k] = job[k]
    BY <2>1 DEF Inv, TypeOK
  <2>3. TypeOK'
    BY <2>1 DEF Inv, TypeOK, Saving, Writing
  <2>4. JobInv(j)'
    BY <2>1, <2>2 DEF JobInv, ShowsOutcome, Writing
  <2> QED
    BY <2>2, <2>3, <2>4, OneJob
<1>4. ASSUME NEW j \in JobIds, SaveWrites(j)
      PROVE  Inv'
  <2>1. file[j] \in {NoFile, Torn} /\ job[j] \in Job /\ pc[j] \in Writing
    BY <1>4 DEF SaveWrites, Inv, JobInv, TypeOK
  <2>2. /\ file' = [file EXCEPT ![j] = IF file[j] = Torn THEN job[j] ELSE file[j]]
        /\ pc' = [pc EXCEPT ![j] = After(pc[j])] /\ job' = job
    BY <1>4 DEF SaveWrites, Write, Goto
  <2>3. After(pc[j]) \in {"spawn", "agent", "done"}
    BY DEF After
  <2>4. TypeOK'
    BY <2>1, <2>2, <2>3 DEF Inv, TypeOK
  <2>5. pc'[j] = After(pc[j]) /\ job'[j] = job[j] /\ file'[j] \in {NoFile, job[j]}
    BY <2>1, <2>2 DEF Inv, TypeOK
  <2>6. JobInv(j)'
    BY <2>1, <2>5 DEF Inv, JobInv, ShowsOutcome, After, Writing, New, Job
  <2> QED
    BY <2>2, <2>4, <2>6, OneJob DEF Inv, TypeOK
<1>5. ASSUME NEW j \in JobIds, Spawn(j)
      PROVE  Inv'
  <2>1. TypeOK' /\ JobInv(j)'
    BY <1>5 DEF Spawn, Goto, Inv, TypeOK, JobInv, ShowsOutcome, Writing
  <2> QED
    BY <1>5, <2>1, OneJob DEF Spawn, Goto, Inv, TypeOK
<1>6. ASSUME NEW j \in JobIds, Load(j)
      PROVE  Inv'
  <2>1. file[j] \in {NoFile, New} /\ pc[j] = "load" /\ New \in Job
    BY <1>6 DEF Load, Inv, JobInv, New, Job
  <2>2. [New EXCEPT !.status = "running"] \in Job
    BY DEF New, Job
  <2>3. ASSUME file[j] \in Job
        PROVE  TypeOK' /\ JobInv(j)'
    <3>1. /\ pc' = [pc EXCEPT ![j] = "mark"] /\ file' = file
          /\ job' = [job EXCEPT ![j] = [New EXCEPT !.status = "running"]]
      BY <1>6, <2>1, <2>3 DEF Load, Goto
    <3>2. TypeOK'
      BY <2>2, <3>1 DEF Inv, TypeOK, Saving
    <3>3. /\ pc'[j] = "mark" /\ file'[j] = file[j]
          /\ job'[j] = [New EXCEPT !.status = "running"]
      BY <3>1 DEF Inv, TypeOK
    <3> QED
      <4>1. file'[j] = New
        BY <2>1, <2>3, <3>3
      <4>2. /\ New.status = "pending" /\ New # NoFile /\ New # Torn
            /\ ~New.result /\ ~New.error
        BY <2>1 DEF New
      <4>3. JobInv(j)'
        BY <3>3, <4>1, <4>2 DEF JobInv, ShowsOutcome, Writing
      <4> QED
        BY <3>2, <4>3
  <2>4. ASSUME file[j] \notin Job
        PROVE  TypeOK' /\ JobInv(j)'
    BY <1>6, <2>1, <2>4 DEF Load, Goto, Inv, TypeOK, JobInv, ShowsOutcome, Writing
  <2> QED
    BY <1>6, <2>3, <2>4, OneJob DEF Load, Goto, Inv, TypeOK
<1>7. ASSUME NEW j \in JobIds, AgentEnds(j)
      PROVE  Inv'
  <2>1. TypeOK' /\ JobInv(j)'
    BY <1>7 DEF AgentEnds, Goto, Inv, TypeOK, JobInv, ShowsOutcome, Saving, Writing, Job, New
  <2> QED
    BY <1>7, <2>1, OneJob DEF AgentEnds, Goto, Inv, TypeOK
<1>8. ASSUME NEW j \in JobIds, SaveThrows(j)
      PROVE  Inv'
  <2>1. TypeOK' /\ JobInv(j)'
    BY <1>8 DEF SaveThrows, Goto, Inv, TypeOK, JobInv, ShowsOutcome, Saving, Writing, Job
  <2> QED
    BY <1>8, <2>1, OneJob DEF SaveThrows, Goto, Inv, TypeOK
<1>9. ASSUME NEW j \in JobIds, Remove(j)
      PROVE  Inv'
  <2>1. TypeOK' /\ JobInv(j)'
    BY <1>9 DEF Remove, Inv, TypeOK, JobInv, ShowsOutcome, Writing
  <2> QED
    BY <1>9, <2>1, OneJob DEF Remove, Inv, TypeOK
<1>10. ASSUME NEW j \in JobIds, Crash(j)
       PROVE  Inv'
  <2>1. TypeOK' /\ JobInv(j)'
    BY <1>10 DEF Crash, Goto, Inv, TypeOK, JobInv, ShowsOutcome, Writing
  <2> QED
    BY <1>10, <2>1, OneJob DEF Crash, Goto, Inv, TypeOK
<1> QED
  BY <1>1, <1>2, <1>3, <1>4, <1>5, <1>6, <1>7, <1>8, <1>9, <1>10 DEF Next, Step

\* The labels tell the truth about file and object in every reachable state.
THEOREM InvHolds == Spec => []Inv
<1> QED
  BY InitInv, StepInv, PTL DEF Spec

\* What saveJob leaves on file is consistent: an outcome comes with its result
\* or its error, and a job that is still at work has neither.
THEOREM OutcomesAreConsistent == Spec => []OutcomeMatchesStatus
<1>1. Inv => OutcomeMatchesStatus
  BY DEF Inv, JobInv, OutcomeMatchesStatus
<1> QED
  BY <1>1, InvHolds, PTL

\* A worker that ran to its end left an outcome, unless the job was removed.
THEOREM EndedWorkersLeaveOutcomes == Spec => []DoneShowsOutcome
<1>1. Inv => DoneShowsOutcome
  BY DEF Inv, JobInv, DoneShowsOutcome
<1> QED
  BY <1>1, InvHolds, PTL

\* A file that does not parse has a writer, or had one that failed or died.
THEOREM TornFilesHaveWriters == Spec => []TornHasWriter
<1>1. Inv => TornHasWriter
  BY DEF Inv, JobInv, TornHasWriter
<1> QED
  BY <1>1, InvHolds, PTL

\* An outcome on file is never overwritten: only a worker that is through, or
\* dead, has one there.
THEOREM OutcomesStay == Spec => OutcomeStays
<1> DEFINE Stays == \A j \in JobIds : ShowsOutcome(j) => file'[j] \in {file[j], NoFile}
<1>1. Inv /\ [Next]_vars => Stays
  <2> SUFFICES ASSUME Inv, [Next]_vars, NEW j \in JobIds, ShowsOutcome(j)
               PROVE  file'[j] \in {file[j], NoFile}
    OBVIOUS
  <2>1. pc[j] \in {"done", "dead"}
    BY DEF Inv, JobInv
  <2>2. CASE UNCHANGED vars
    BY <2>2 DEF vars
  <2>3. ASSUME NEW k \in JobIds, Launch(k) \/ Step(k) \/ Remove(k) \/ Crash(k)
        PROVE  file'[j] \in {file[j], NoFile}
    BY <2>1, <2>3 DEF Launch, Step, Remove, Crash, SaveOpens, SaveWrites, Truncate, Write,
       Spawn, Load, AgentEnds, SaveThrows, Goto, Writing, Inv, TypeOK
  <2> QED
    BY <2>2, <2>3 DEF Next
<1>2. Inv /\ [Next]_vars => [Stays]_vars
  BY <1>1
<1> QED
  BY <1>2, InvHolds, PTL DEF Spec, OutcomeStays


(***************************************************************************)
(* JobAgent implements Jobs.                                               *)
(***************************************************************************)

LEMMA StepImplements == [JobAgentNext]_allVars => [Next]_vars
<1> SUFFICES ASSUME [JobAgentNext]_allVars
             PROVE  [Next]_vars
  OBVIOUS
<1>1. CASE UNCHANGED allVars
  BY <1>1 DEF allVars
<1>2. ASSUME NEW j \in JobIds, JobStep(j)
      PROVE  Next
  BY <1>2 DEF JobStep, Next, Step
<1>3. ASSUME NEW j \in JobIds, WorkerRuns(j) \/ RunStep(j)
      PROVE  UNCHANGED vars
  BY <1>3 DEF WorkerRuns, RunStep
<1>4. ASSUME NEW j \in JobIds, WorkerAnswered(j) \/ WorkerFailed(j) \/ WorkerTimesOut(j)
      PROVE  Next
  BY <1>4 DEF WorkerAnswered, WorkerFailed, WorkerTimesOut, Next, Step
<1>5. ASSUME NEW j \in JobIds, WorkerDies(j)
      PROVE  Next
  BY <1>5 DEF WorkerDies, Next
<1> QED
  BY <1>1, <1>2, <1>3, <1>4, <1>5 DEF JobAgentNext

\* Jobs abstracts the run to "it ends in one way or the other", and nothing
\* that a run does, or leaves behind, is a step of Jobs that Jobs does not
\* have (cmdJobRun, index.ts:165-176).
THEOREM ImplementsJobs == JobAgentSpec => Spec
<1>1. JobAgentInit => Init
  BY DEF JobAgentInit
<1> QED
  BY <1>1, StepImplements, PTL DEF JobAgentSpec, Spec

(***************************************************************************)
(* The run of a job.  Quiet phases have no tool at work, and what a label  *)
(* or a file says of an answer, the run has given.                         *)
(***************************************************************************)

RunInv(j) ==
  /\ run[j].phase \in {"idle", "model", "answered"} =>
       run[j].queued = 0 /\ run[j].children = 0 /\ run[j].fetches = 0
  /\ run[j].phase = "tools" => run[j].turn <= MaxTurns
  /\ run[j].queued + run[j].children + run[j].fetches <= MaxToolCalls

AnswerInv(j) ==
  /\ pc[j] \in {"finish", "finishing"} => run[j].phase = "answered"
  /\ file[j] \in Job /\ file[j].status = "completed" => run[j].phase = "answered"

AgentInv == Inv /\ Agent!TypeOK /\ \A j \in JobIds : RunInv(j) /\ AnswerInv(j)

LEMMA InitAgentInv == JobAgentInit => AgentInv
<1> SUFFICES ASSUME JobAgentInit
             PROVE  AgentInv
  OBVIOUS
<1> USE PolicyAssumption
<1>1. Inv
  BY InitInv DEF JobAgentInit
<1>2. Agent!TypeOK /\ \A j \in JobIds : RunInv(j)
  BY DEF JobAgentInit, Agent!Init, Agent!TypeOK, Agent!Run, RunInv
<1>3. \A j \in JobIds : AnswerInv(j)
  BY FilesOK DEF JobAgentInit, Init, AnswerInv
<1> QED
  BY <1>1, <1>2, <1>3 DEF AgentInv

\* The run of one job moves to a state that is well formed.
LEMMA OneRun ==
  ASSUME AgentInv, NEW j \in JobIds, NEW state \in Agent!Run,
         run' = [run EXCEPT ![j] = state],
         state.phase \in {"idle", "model", "answered"} =>
           state.queued = 0 /\ state.children = 0 /\ state.fetches = 0,
         state.phase = "tools" => state.turn <= MaxTurns,
         state.queued + state.children + state.fetches <= MaxToolCalls
  PROVE  Agent!TypeOK' /\ (\A k \in JobIds : RunInv(k)') /\ run'[j] = state
<1>1. run'[j] = state /\ \A k \in JobIds \ {j} : run'[k] = run[k]
  BY DEF AgentInv, Agent!TypeOK
<1>2. Agent!TypeOK'
  BY DEF AgentInv, Agent!TypeOK
<1>3. RunInv(j)'
  BY <1>1 DEF RunInv
<1>4. ASSUME NEW k \in JobIds, k # j
      PROVE  RunInv(k)'
  BY <1>1, <1>4 DEF AgentInv, RunInv
<1> QED
  BY <1>1, <1>2, <1>3, <1>4

\* What OneRun asks of the state a run moves to, and that an answer is final.
Follows(j, state) ==
  /\ state \in Agent!Run
  /\ state.phase \in {"idle", "model", "answered"} =>
       state.queued = 0 /\ state.children = 0 /\ state.fetches = 0
  /\ state.phase = "tools" => state.turn <= MaxTurns
  /\ state.queued + state.children + state.fetches <= MaxToolCalls
  /\ run[j].phase = "answered" => state.phase = "answered"

\* Each action of a run moves it to a state that follows. Every case names the
\* state, with the ranges of what is new in it, its type and its fields.
LEMMA RunMoves ==
  ASSUME AgentInv, NEW j \in JobIds,
         \/ Agent!Begin(j) \/ Agent!GoesOn(j) \/ Agent!ToolsEnd(j) \/ Agent!Answers(j)
         \/ Agent!Fails(j) \/ Agent!Deadline(j) \/ Agent!Killed(j)
  PROVE  \E state : Follows(j, state) /\ run' = [run EXCEPT ![j] = state]
<1> USE PolicyAssumption
<1> DEFINE Moved(state) == Follows(j, state) /\ run' = [run EXCEPT ![j] = state]
<1>t. run[j] \in Agent!Run /\ RunInv(j)
  BY DEF AgentInv, Agent!TypeOK
<1>b. /\ run[j].turn \in 0..MaxTurns + 1 /\ run[j].calls \in 0..MaxToolCalls + 1
      /\ run[j].queued \in 0..MaxToolCalls /\ run[j].children \in 0..MaxToolCalls
      /\ run[j].fetches \in 0..MaxToolCalls
      /\ MaxTurns \in Nat \ {0} /\ MaxToolCalls \in Nat
  BY <1>t DEF Agent!Run
<1>1. CASE Agent!Begin(j)
  <2> DEFINE s == [run[j] EXCEPT !.phase = "model", !.timer = "armed", !.turn = 1]
  <2>1. /\ run' = [run EXCEPT ![j] = s]
        /\ 1 \in 0..MaxTurns + 1 /\ run[j].phase = "idle"
    BY <1>t, <1>b, <1>1 DEF Agent!Begin, Agent!Becomes, RunInv
  <2>2. s \in Agent!Run
    BY <1>t, <2>1 DEF Agent!Run
  <2>3. /\ s.phase = "model" /\ s.turn = 1
        /\ s.queued = run[j].queued /\ s.children = run[j].children /\ s.fetches = run[j].fetches
    BY <1>t DEF Agent!Run
  <2> HIDE DEF s
  <2>4. Follows(j, s)
    BY <1>t, <1>b, <2>1, <2>2, <2>3 DEF Follows, RunInv
  <2> QED
    BY <2>1, <2>4
<1>2. CASE Agent!TimerFires(j)
  <2> DEFINE s == [run[j] EXCEPT !.timer = "fired"]
  <2>1. /\ run' = [run EXCEPT ![j] = s]
        /\ run[j].timer = "armed"
    BY <1>t, <1>b, <1>2 DEF Agent!TimerFires, Agent!Becomes, RunInv
  <2>2. s \in Agent!Run
    BY <1>t, <2>1 DEF Agent!Run
  <2>3. /\ s.phase = run[j].phase /\ s.turn = run[j].turn
        /\ s.queued = run[j].queued /\ s.children = run[j].children /\ s.fetches = run[j].fetches
    BY <1>t DEF Agent!Run
  <2> HIDE DEF s
  <2>4. Follows(j, s)
    BY <1>t, <1>b, <2>1, <2>2, <2>3 DEF Follows, RunInv
  <2> QED
    BY <2>1, <2>4
<1>3. CASE Agent!CallsRejected(j)
  <2> DEFINE s == [run[j] EXCEPT !.calls = MaxToolCalls + 1, !.turn = run[j].turn + 1]
  <2>1. /\ run' = [run EXCEPT ![j] = s]
        /\ run[j].turn + 1 \in 0..MaxTurns + 1 /\ MaxToolCalls + 1 \in 0..MaxToolCalls + 1
        /\ run[j].phase = "model"
    BY <1>t, <1>b, <1>3 DEF Agent!CallsRejected, Agent!MayCall, Agent!Becomes, RunInv
  <2>2. s \in Agent!Run
    BY <1>t, <2>1 DEF Agent!Run
  <2>3. /\ s.phase = run[j].phase /\ s.turn = run[j].turn + 1
        /\ s.queued = run[j].queued /\ s.children = run[j].children /\ s.fetches = run[j].fetches
    BY <1>t DEF Agent!Run
  <2> HIDE DEF s
  <2>4. Follows(j, s)
    BY <1>t, <1>b, <2>1, <2>2, <2>3 DEF Follows, RunInv
  <2> QED
    BY <2>1, <2>4
<1>4. ASSUME NEW n \in 1..MaxToolCalls, Agent!ModelCalls(j, n)
      PROVE  \E state : Moved(state)
  <2> DEFINE s == [run[j] EXCEPT !.phase = "tools", !.calls = run[j].calls + n, !.queued = n]
  <2>1. /\ run' = [run EXCEPT ![j] = s]
        /\ run[j].calls + n \in 0..MaxToolCalls + 1 /\ n \in 0..MaxToolCalls
        /\ run[j].phase = "model" /\ run[j].turn <= MaxTurns
    BY <1>t, <1>b, <1>4 DEF Agent!ModelCalls, Agent!MayCall, Agent!Becomes, RunInv
  <2>2. s \in Agent!Run
    BY <1>t, <2>1 DEF Agent!Run
  <2>3. /\ s.phase = "tools" /\ s.turn = run[j].turn
        /\ s.queued = n /\ s.children = run[j].children /\ s.fetches = run[j].fetches
    BY <1>t DEF Agent!Run
  <2> HIDE DEF s
  <2>4. Follows(j, s)
    BY <1>t, <1>b, <2>1, <2>2, <2>3 DEF Follows, RunInv
  <2> QED
    BY <2>1, <2>4
<1>5. CASE Agent!FileTool(j)
  <2> DEFINE s == [run[j] EXCEPT !.queued = run[j].queued - 1]
  <2>1. /\ run' = [run EXCEPT ![j] = s]
        /\ run[j].queued - 1 \in 0..MaxToolCalls
        /\ run[j].phase = "tools"
    BY <1>t, <1>b, <1>5 DEF Agent!FileTool, Agent!MayStart, Agent!Becomes, RunInv
  <2>2. s \in Agent!Run
    BY <1>t, <2>1 DEF Agent!Run
  <2>3. /\ s.phase = run[j].phase /\ s.turn = run[j].turn
        /\ s.queued = run[j].queued - 1 /\ s.children = run[j].children /\ s.fetches = run[j].fetches
    BY <1>t DEF Agent!Run
  <2> HIDE DEF s
  <2>4. Follows(j, s)
    BY <1>t, <1>b, <2>1, <2>2, <2>3 DEF Follows, RunInv
  <2> QED
    BY <2>1, <2>4
<1>6. CASE Agent!Bash(j)
  <2> DEFINE s == [run[j] EXCEPT !.queued = run[j].queued - 1, !.children = run[j].children + 1]
  <2>1. /\ run' = [run EXCEPT ![j] = s]
        /\ run[j].queued - 1 \in 0..MaxToolCalls /\ run[j].children + 1 \in 0..MaxToolCalls
        /\ run[j].phase = "tools"
    BY <1>t, <1>b, <1>6 DEF Agent!Bash, Agent!MayStart, Agent!Becomes, RunInv
  <2>2. s \in Agent!Run
    BY <1>t, <2>1 DEF Agent!Run
  <2>3. /\ s.phase = run[j].phase /\ s.turn = run[j].turn
        /\ s.queued = run[j].queued - 1 /\ s.children = run[j].children + 1 /\ s.fetches = run[j].fetches
    BY <1>t DEF Agent!Run
  <2> HIDE DEF s
  <2>4. Follows(j, s)
    BY <1>t, <1>b, <2>1, <2>2, <2>3 DEF Follows, RunInv
  <2> QED
    BY <2>1, <2>4
<1>7. CASE Agent!Search(j)
  <2> DEFINE s == [run[j] EXCEPT !.queued = run[j].queued - 1, !.fetches = run[j].fetches + 1]
  <2>1. /\ run' = [run EXCEPT ![j] = s]
        /\ run[j].queued - 1 \in 0..MaxToolCalls /\ run[j].fetches + 1 \in 0..MaxToolCalls
        /\ run[j].phase = "tools"
    BY <1>t, <1>b, <1>7 DEF Agent!Search, Agent!MayStart, Agent!Becomes, RunInv
  <2>2. s \in Agent!Run
    BY <1>t, <2>1 DEF Agent!Run
  <2>3. /\ s.phase = run[j].phase /\ s.turn = run[j].turn
        /\ s.queued = run[j].queued - 1 /\ s.children = run[j].children /\ s.fetches = run[j].fetches + 1
    BY <1>t DEF Agent!Run
  <2> HIDE DEF s
  <2>4. Follows(j, s)
    BY <1>t, <1>b, <2>1, <2>2, <2>3 DEF Follows, RunInv
  <2> QED
    BY <2>1, <2>4
<1>8. CASE Agent!BatchOver(j)
  <2> DEFINE s == [run[j] EXCEPT !.phase = "model", !.turn = run[j].turn + 1]
  <2>1. /\ run' = [run EXCEPT ![j] = s]
        /\ run[j].turn + 1 \in 0..MaxTurns + 1 /\ run[j].phase = "tools"
        /\ run[j].queued = 0 /\ run[j].children = 0 /\ run[j].fetches = 0
    <3>1. /\ run[j].phase = "tools" /\ run[j].queued = 0
          /\ run[j].children + run[j].fetches = 0
      BY <1>8 DEF Agent!BatchOver, Agent!InFlight
    <3>2. run[j].children = 0 /\ run[j].fetches = 0
      BY <1>b, <3>1
    <3>3. run[j].turn <= MaxTurns
      BY <1>t, <3>1 DEF RunInv
    <3>4. run[j].turn + 1 \in 0..MaxTurns + 1
      BY <1>b, <3>3
    <3> QED
      BY <1>8, <3>1, <3>2, <3>4 DEF Agent!BatchOver, Agent!Becomes
  <2>2. s \in Agent!Run
    BY <1>t, <2>1 DEF Agent!Run
  <2>3. /\ s.phase = "model" /\ s.turn = run[j].turn + 1
        /\ s.queued = run[j].queued /\ s.children = run[j].children /\ s.fetches = run[j].fetches
    BY <1>t DEF Agent!Run
  <2> HIDE DEF s
  <2>4. Follows(j, s)
    BY <1>t, <1>b, <2>1, <2>2, <2>3 DEF Follows, RunInv
  <2> QED
    BY <2>1, <2>4
<1>9. CASE Agent!ChildEnds(j)
  <2> DEFINE s == [run[j] EXCEPT !.children = run[j].children - 1]
  <2>1. /\ run' = [run EXCEPT ![j] = s]
        /\ run[j].children - 1 \in 0..MaxToolCalls
    BY <1>t, <1>b, <1>9 DEF Agent!ChildEnds, Agent!Becomes, RunInv
  <2>2. s \in Agent!Run
    BY <1>t, <2>1 DEF Agent!Run
  <2>3. /\ s.phase = run[j].phase /\ s.turn = run[j].turn
        /\ s.queued = run[j].queued /\ s.children = run[j].children - 1 /\ s.fetches = run[j].fetches
    BY <1>t DEF Agent!Run
  <2> HIDE DEF s
  <2>4. Follows(j, s)
    BY <1>t, <1>b, <2>1, <2>2, <2>3 DEF Follows, RunInv
  <2> QED
    BY <2>1, <2>4
<1>10. CASE Agent!FetchEnds(j)
  <2> DEFINE s == [run[j] EXCEPT !.fetches = run[j].fetches - 1]
  <2>1. /\ run' = [run EXCEPT ![j] = s]
        /\ run[j].fetches - 1 \in 0..MaxToolCalls
    BY <1>t, <1>b, <1>10 DEF Agent!FetchEnds, Agent!Becomes, RunInv
  <2>2. s \in Agent!Run
    BY <1>t, <2>1 DEF Agent!Run
  <2>3. /\ s.phase = run[j].phase /\ s.turn = run[j].turn
        /\ s.queued = run[j].queued /\ s.children = run[j].children /\ s.fetches = run[j].fetches - 1
    BY <1>t DEF Agent!Run
  <2> HIDE DEF s
  <2>4. Follows(j, s)
    BY <1>t, <1>b, <2>1, <2>2, <2>3 DEF Follows, RunInv
  <2> QED
    BY <2>1, <2>4
<1>11. CASE Agent!Answers(j)
  <2> DEFINE s == Agent!Ended(j, "answered")
  <2>1. /\ run' = [run EXCEPT ![j] = s]
        /\ run[j].phase = "model" /\ 0 \in 0..MaxToolCalls
    BY <1>t, <1>b, <1>11 DEF Agent!Answers, Agent!Becomes, RunInv
  <2>2. s \in Agent!Run
    BY <1>t, <2>1 DEF Agent!Run, Agent!Ended
  <2>3. /\ s.phase = "answered" /\ s.turn = run[j].turn
        /\ s.queued = 0 /\ s.children = run[j].children /\ s.fetches = run[j].fetches
    BY <1>t DEF Agent!Run, Agent!Ended
  <2> HIDE DEF s
  <2>4. Follows(j, s)
    BY <1>t, <1>b, <2>1, <2>2, <2>3 DEF Follows, RunInv
  <2> QED
    BY <2>1, <2>4
<1>12. CASE Agent!ModelFails(j) \/ Agent!FileToolFails(j) \/ Agent!Deadline(j)
  <2> DEFINE s == Agent!Ended(j, "failed")
  <2>1. /\ run' = [run EXCEPT ![j] = s]
        /\ run[j].phase \in {"model", "tools"} /\ 0 \in 0..MaxToolCalls
    <3>1. run[j].phase \in {"model", "tools"}
      BY <1>12 DEF Agent!ModelFails, Agent!FileToolFails, Agent!Deadline, Agent!MayStart
    <3>2. run' = [run EXCEPT ![j] = s]
      BY <1>12 DEF Agent!ModelFails, Agent!FileToolFails, Agent!Deadline, Agent!Becomes
    <3> QED
      BY <1>b, <3>1, <3>2
  <2>2. s \in Agent!Run
    BY <1>t, <2>1 DEF Agent!Run, Agent!Ended
  <2>3. /\ s.phase = "failed" /\ s.turn = run[j].turn
        /\ s.queued = 0 /\ s.children = run[j].children /\ s.fetches = run[j].fetches
    BY <1>t DEF Agent!Run, Agent!Ended
  <2> HIDE DEF s
  <2>4. Follows(j, s)
    BY <1>t, <1>b, <2>1, <2>2, <2>3 DEF Follows, RunInv
  <2> QED
    BY <2>1, <2>4
<1>13. CASE Agent!SearchThrows(j)
  <2> DEFINE s == [Agent!Ended(j, "failed") EXCEPT !.fetches = Agent!Ended(j, "failed").fetches - 1]
  <2>1. /\ run' = [run EXCEPT ![j] = s]
        /\ run[j].phase = "tools" /\ run[j].fetches > 0
    BY <1>t, <1>b, <1>13 DEF Agent!SearchThrows, Agent!Becomes, RunInv
  <2>2. s \in Agent!Run
    <3> 0 \in 0..MaxToolCalls
      BY <1>b
    <3>1. Agent!Ended(j, "failed") \in Agent!Run
      BY <1>t DEF Agent!Run, Agent!Ended
    <3>2. Agent!Ended(j, "failed").fetches = run[j].fetches
      BY <1>t DEF Agent!Run, Agent!Ended
    <3>3. run[j].fetches - 1 \in 0..MaxToolCalls
      BY <1>b, <2>1
    <3> QED
      BY <3>1, <3>2, <3>3 DEF Agent!Run
  <2>3. /\ s.phase = "failed" /\ s.turn = run[j].turn
        /\ s.queued = 0 /\ s.children = run[j].children /\ s.fetches = run[j].fetches - 1
    BY <1>t DEF Agent!Run, Agent!Ended
  <2> HIDE DEF s
  <2>4. Follows(j, s)
    BY <1>t, <1>b, <2>1, <2>2, <2>3 DEF Follows, RunInv
  <2> QED
    BY <2>1, <2>4
<1>14. CASE Agent!Killed(j)
  <2> DEFINE how == IF run[j].phase \in {"answered", "failed"} THEN run[j].phase ELSE "killed"
  <2> DEFINE s == [run[j] EXCEPT !.phase = how, !.timer = "off", !.queued = 0, !.fetches = 0]
  <2>1. /\ run' = [run EXCEPT ![j] = s]
        /\ 0 \in 0..MaxToolCalls
    BY <1>t, <1>b, <1>14 DEF Agent!Killed, Agent!Becomes, RunInv
  <2>2. s \in Agent!Run
    BY <1>t, <2>1 DEF Agent!Run
  <2>3. /\ s.phase = how /\ s.turn = run[j].turn
        /\ s.queued = 0 /\ s.children = run[j].children /\ s.fetches = 0
    BY <1>t DEF Agent!Run
  <2> HIDE DEF s
  <2>4. Follows(j, s)
    BY <1>t, <1>b, <2>1, <2>2, <2>3 DEF Follows, RunInv
  <2> QED
    BY <2>1, <2>4
<1> QED
  BY <1>1, <1>2, <1>3, <1>4, <1>5, <1>6, <1>7, <1>8, <1>9, <1>10, <1>11, <1>12, <1>13, <1>14
  DEF Agent!GoesOn, Agent!ToolsEnd, Agent!Fails

\* So no step of a run disturbs what the runs' invariant says, or an answer.
LEMMA RunKeeps ==
  ASSUME AgentInv, NEW j \in JobIds,
         \/ Agent!Begin(j) \/ Agent!GoesOn(j) \/ Agent!ToolsEnd(j) \/ Agent!Answers(j)
         \/ Agent!Fails(j) \/ Agent!Deadline(j) \/ Agent!Killed(j)
  PROVE  /\ Agent!TypeOK' /\ \A k \in JobIds : RunInv(k)'
         /\ \A k \in JobIds : run[k].phase = "answered" => run'[k].phase = "answered"
<1>1. PICK state : Follows(j, state) /\ run' = [run EXCEPT ![j] = state]
  BY RunMoves
<1>2. Agent!TypeOK' /\ (\A k \in JobIds : RunInv(k)') /\ run'[j] = state
  BY <1>1, OneRun DEF Follows
<1>3. \A k \in JobIds : run[k].phase = "answered" => run'[k].phase = "answered"
  BY <1>1, <1>2 DEF AgentInv, Agent!TypeOK, Follows
<1> QED
  BY <1>2, <1>3

(* Steps of the composition *)

\* A step of a job alone: what it saves as completed was finished before.
LEMMA JobStepKeeps ==
  ASSUME AgentInv, NEW j \in JobIds, JobStep(j)
  PROVE  \A k \in JobIds : AnswerInv(k)'
<1> USE FilesOK
<1> SUFFICES ASSUME NEW k \in JobIds
             PROVE  AnswerInv(k)'
  OBVIOUS
<1>1. run' = run /\ AnswerInv(k) /\ JobInv(k) /\ TypeOK
  BY DEF JobStep, AgentInv, Inv
<1>2. CASE Launch(j) \/ SaveOpens(j) \/ Spawn(j) \/ Load(j) \/ SaveThrows(j) \/ Remove(j)
  <2>1. pc'[k] \in {"finish", "finishing"} => pc[k] \in {"finish", "finishing"}
    BY <1>1, <1>2 DEF Launch, SaveOpens, Truncate, Spawn, Load, SaveThrows, Remove, Goto, TypeOK
  <2>2. file'[k] \in {file[k], Torn, NoFile}
    BY <1>1, <1>2 DEF Launch, SaveOpens, Truncate, Spawn, Load, SaveThrows, Remove, Goto, TypeOK
  <2> QED
    BY <1>1, <2>1, <2>2 DEF AnswerInv
<1>3. CASE SaveWrites(j)
  <2>1. pc'[k] \in {"finish", "finishing"} => pc[k] \in {"finish", "finishing"}
    BY <1>1, <1>3 DEF SaveWrites, Write, After, Goto, TypeOK
  <2>2. file'[k] = file[k] \/ (file'[k] = job[k] /\ pc[k] \in Writing)
    BY <1>1, <1>3 DEF SaveWrites, Write, Goto, TypeOK
  <2>3. pc[k] \in Writing /\ job[k].status = "completed" => pc[k] = "finishing"
    BY <1>1 DEF JobInv, Writing, New
  <2> QED
    BY <1>1, <2>1, <2>2, <2>3 DEF AnswerInv
<1> QED
  BY <1>2, <1>3 DEF JobStep

\* The end of a run, for the job: only an answer leads to "finish".
LEMMA EndKeeps ==
  ASSUME AgentInv, NEW j \in JobIds,
         WorkerAnswered(j) \/ WorkerFailed(j) \/ WorkerTimesOut(j),
         \A k \in JobIds : run[k].phase = "answered" => run'[k].phase = "answered"
  PROVE  \A k \in JobIds : AnswerInv(k)'
<1> SUFFICES ASSUME NEW k \in JobIds
             PROVE  AnswerInv(k)'
  OBVIOUS
<1>1. AnswerInv(k) /\ TypeOK /\ run \in [JobIds -> Agent!Run]
  BY DEF AgentInv, Inv, Agent!TypeOK
<1>2. file' = file /\ AgentEnds(j)
  BY DEF WorkerAnswered, WorkerFailed, WorkerTimesOut, AgentEnds
<1>3. CASE k # j
  <2>1. pc'[k] = pc[k]
    BY <1>1, <1>2, <1>3 DEF AgentEnds, Goto, TypeOK
  <2> QED
    BY <1>1, <1>2, <2>1 DEF AnswerInv
<1>4. CASE k = j /\ WorkerAnswered(j)
  <2>1. run'[j].phase = "answered"
    BY <1>1, <1>4 DEF WorkerAnswered, Agent!Answers, Agent!Becomes, Agent!Ended, Agent!Run
  <2> QED
    BY <1>4, <2>1 DEF AnswerInv
<1>5. CASE k = j /\ (WorkerFailed(j) \/ WorkerTimesOut(j))
  <2>1. job'[j].status = "failed"
    BY <1>5 DEF WorkerFailed, WorkerTimesOut
  <2>2. pc'[j] = "fail"
    BY <1>1, <1>2, <2>1 DEF AgentEnds, Goto, TypeOK, Job
  <2> QED
    BY <1>1, <1>2, <1>5, <2>2 DEF AnswerInv
<1> QED
  BY <1>3, <1>4, <1>5

LEMMA StepAgentInv == AgentInv /\ [JobAgentNext]_allVars => AgentInv'
<1> SUFFICES ASSUME AgentInv, [JobAgentNext]_allVars
             PROVE  AgentInv'
  OBVIOUS
<1>i. Inv'
  BY StepImplements, StepInv DEF AgentInv
<1>1. CASE UNCHANGED allVars
  <2>1. run' = run /\ pc' = pc /\ file' = file /\ job' = job
    BY <1>1 DEF allVars, vars
  <2> QED
    BY <1>i, <2>1 DEF AgentInv, Agent!TypeOK, RunInv, AnswerInv
<1>2. ASSUME NEW j \in JobIds, JobStep(j)
      PROVE  AgentInv'
  <2>1. Agent!TypeOK' /\ \A k \in JobIds : RunInv(k)'
    BY <1>2 DEF JobStep, AgentInv, Agent!TypeOK, RunInv
  <2> QED
    BY <1>i, <1>2, <2>1, JobStepKeeps DEF AgentInv
<1>3. ASSUME NEW j \in JobIds, WorkerRuns(j) \/ RunStep(j)
      PROVE  AgentInv'
  <2>1. Agent!Begin(j) \/ Agent!GoesOn(j) \/ Agent!ToolsEnd(j)
    BY <1>3 DEF WorkerRuns, RunStep
  <2>2. /\ Agent!TypeOK' /\ \A k \in JobIds : RunInv(k)'
        /\ \A k \in JobIds : run[k].phase = "answered" => run'[k].phase = "answered"
    BY <2>1, RunKeeps
  <2>3. \A k \in JobIds : AnswerInv(k)'
    BY <1>3, <2>2 DEF WorkerRuns, RunStep, vars, AgentInv, AnswerInv
  <2> QED
    BY <1>i, <2>2, <2>3 DEF AgentInv
<1>4. ASSUME NEW j \in JobIds, WorkerAnswered(j) \/ WorkerFailed(j) \/ WorkerTimesOut(j)
      PROVE  AgentInv'
  <2>1. Agent!Answers(j) \/ Agent!Fails(j) \/ Agent!Deadline(j)
    BY <1>4 DEF WorkerAnswered, WorkerFailed, WorkerTimesOut
  <2>2. /\ Agent!TypeOK' /\ \A k \in JobIds : RunInv(k)'
        /\ \A k \in JobIds : run[k].phase = "answered" => run'[k].phase = "answered"
    BY <2>1, RunKeeps
  <2> QED
    BY <1>i, <1>4, <2>2, EndKeeps DEF AgentInv
<1>5. ASSUME NEW j \in JobIds, WorkerDies(j)
      PROVE  AgentInv'
  <2>1. /\ Agent!TypeOK' /\ \A k \in JobIds : RunInv(k)'
        /\ \A k \in JobIds : run[k].phase = "answered" => run'[k].phase = "answered"
    BY <1>5, RunKeeps DEF WorkerDies
  <2>2. file' = file /\ \A k \in JobIds : pc'[k] \in {pc[k], "dead"}
    BY <1>5 DEF WorkerDies, Crash, Goto, AgentInv, Inv, TypeOK
  <2>3. \A k \in JobIds : AnswerInv(k)'
    BY <2>1, <2>2 DEF AgentInv, AnswerInv
  <2> QED
    BY <1>i, <2>1, <2>3 DEF AgentInv
<1> QED
  BY <1>1, <1>2, <1>3, <1>4, <1>5 DEF JobAgentNext

\* Types, of the jobs and of their runs within the bounds of the policy.
THEOREM JobAgentTypeCorrect == JobAgentSpec => []JobAgentTypeOK
<1>1. AgentInv => JobAgentTypeOK
  BY DEF AgentInv, Inv, JobAgentTypeOK
<1> QED
  BY <1>1, InitAgentInv, StepAgentInv, PTL DEF JobAgentSpec

\* A job shown as completed has answered and has nothing running behind it:
\* bash's promise resolves when its child has closed, and the run waits for
\* every promise of a batch before the model may answer.
THEOREM CompletedJobsAreQuiet == JobAgentSpec => []CompletedIsQuiet
<1>1. AgentInv => CompletedIsQuiet
  BY DEF AgentInv, RunInv, AnswerInv, CompletedIsQuiet
<1> QED
  BY <1>1, InitAgentInv, StepAgentInv, PTL DEF JobAgentSpec

\* What is proved of Jobs holds of jobs that run the agent.
THEOREM JobPromisesHold ==
  JobAgentSpec => [](OutcomeMatchesStatus /\ DoneShowsOutcome /\ TornHasWriter)
<1>1. Spec => [](OutcomeMatchesStatus /\ DoneShowsOutcome /\ TornHasWriter)
  BY OutcomesAreConsistent, EndedWorkersLeaveOutcomes, TornFilesHaveWriters, PTL
<1> QED
  BY <1>1, ImplementsJobs, PTL
=============================================================================
