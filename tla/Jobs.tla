-------------------------------- MODULE Jobs --------------------------------
(***************************************************************************)
(* Background jobs: `sec run --background` (the launcher), the detached    *)
(* worker `sec job run` it spawns, and `sec jobs rm`.  They share one JSON *)
(* file per job and nothing else.  writeFileSync truncates the file before *)
(* it writes it, so saveJob is two steps, and a reader, a crash or a       *)
(* removal can come between them.                                          *)
(*                                                                         *)
(* The launcher's last step starts the worker, so one label per job says   *)
(* where the two of them are.                                              *)
(***************************************************************************)
EXTENDS Naturals

CONSTANTS
  JobIds,                  \* the ids genJobId can return
  NoFile,                  \* no <id>.json in the runtime directory
  Torn                     \* a truncated file: JSON.parse throws on it

VARIABLES
  pc,                      \* next step of the job's launcher or worker
  file,                    \* what is in <id>.json
  job                      \* the object that process holds and saves

vars == <<pc, file, job>>

Job == [status : {"pending", "running", "completed", "failed"},
        result : BOOLEAN, error : BOOLEAN]

ASSUME FilesOK == NoFile # Torn /\ NoFile \notin Job /\ Torn \notin Job

New == [status |-> "pending", result |-> FALSE, error |-> FALSE]

\* Before a saveJob, and in the middle of it.
Saving == {"create", "mark", "finish", "fail"}
Writing == {"creating", "marking", "finishing", "failing"}

TypeOK ==
  /\ pc \in [JobIds -> Saving \union Writing
                         \union {"unused", "spawn", "load", "agent", "done", "dead"}]
  /\ file \in [JobIds -> Job \union {NoFile, Torn}]
  /\ job \in [JobIds -> Job]

Init ==
  /\ pc = [j \in JobIds |-> "unused"]
  /\ file = [j \in JobIds |-> NoFile]
  /\ job = [j \in JobIds |-> New]

Goto(j, label) == pc' = [pc EXCEPT ![j] = label]

-----------------------------------------------------------------------------
(* saveJob *)

\* open(O_CREAT | O_TRUNC): the file is there, and empty.
Truncate(j, label) ==
  /\ file' = [file EXCEPT ![j] = Torn]
  /\ Goto(j, label)
  /\ UNCHANGED job

\* Mutant of Write: a failing write goes unnoticed.
WriteIgnored(j, label) ==
  /\ Goto(j, label)
  /\ UNCHANGED <<file, job>>

\* The data go to the opened file: into nothing if it was removed meanwhile.
Write(j, label) ==
  /\ file' = [file EXCEPT ![j] = IF @ = Torn THEN job[j] ELSE @]
  /\ Goto(j, label)
  /\ UNCHANGED job

\* Mutant of After: the worker starts over when it has saved the outcome.
AfterAgain(label) ==
  CASE label = "creating" -> "spawn"
    [] label = "marking" -> "agent"
    [] OTHER -> "mark"

\* The label that follows a saveJob.
After(label) ==
  CASE label = "creating" -> "spawn"
    [] label = "marking" -> "agent"
    [] OTHER -> "done"

SaveOpens(j) ==
  \/ pc[j] = "create" /\ Truncate(j, "creating")
  \/ pc[j] = "mark" /\ Truncate(j, "marking")
  \/ pc[j] = "finish" /\ Truncate(j, "finishing")
  \/ pc[j] = "fail" /\ Truncate(j, "failing")

SaveWrites(j) == pc[j] \in Writing /\ Write(j, After(pc[j]))

-----------------------------------------------------------------------------
(* sec run --background *)

Launch(j) ==
  /\ pc[j] = "unused"
  /\ Goto(j, "create")
  /\ UNCHANGED <<file, job>>

Spawn(j) ==
  /\ pc[j] = "spawn"
  /\ Goto(j, "load")
  /\ UNCHANGED <<file, job>>

-----------------------------------------------------------------------------
(* sec job run *)

\* Mutant of Load: a missing job is not noticed.
LoadUnchecked(j) ==
  /\ pc[j] = "load"
  /\ job' = [job EXCEPT ![j] = file[j]]
  /\ Goto(j, "mark")
  /\ UNCHANGED file

\* loadJob; without a (readable) file the worker exits.
Load(j) ==
  /\ pc[j] = "load"
  /\ \/ /\ file[j] \in Job
        /\ job' = [job EXCEPT ![j] = [file[j] EXCEPT !.status = "running"]]
        /\ Goto(j, "mark")
     \/ file[j] \notin Job /\ Goto(j, "dead") /\ UNCHANGED job
  /\ UNCHANGED file

\* Mutant of AgentEnds: a failure is not saved.
AgentEndsSilently(j) ==
  /\ pc[j] = "agent"
  /\ \/ /\ job' = [job EXCEPT ![j].status = "completed", ![j].result = TRUE]
        /\ Goto(j, "finish")
     \/ /\ job' = [job EXCEPT ![j].status = "failed", ![j].error = TRUE]
        /\ Goto(j, "done")
  /\ UNCHANGED file

\* The agent answers, or runAgent throws.
AgentEnds(j) ==
  /\ pc[j] = "agent"
  /\ \/ /\ job' = [job EXCEPT ![j].status = "completed", ![j].result = TRUE]
        /\ Goto(j, "finish")
     \/ /\ job' = [job EXCEPT ![j].status = "failed", ![j].error = TRUE]
        /\ Goto(j, "fail")
  /\ UNCHANGED file

\* Mutant of SaveThrows: the catch block does not set the status.
SaveThrowsUnmarked(j) ==
  /\ pc[j] \in {"finish", "finishing"}
  /\ job' = [job EXCEPT ![j].error = TRUE]
  /\ Goto(j, "fail")
  /\ UNCHANGED file

\* Saving the result throws (disk full, directory gone): the catch block makes
\* it a failed job, whose result it keeps.
SaveThrows(j) ==
  /\ pc[j] \in {"finish", "finishing"}
  /\ job' = [job EXCEPT ![j].status = "failed", ![j].error = TRUE]
  /\ Goto(j, "fail")
  /\ UNCHANGED file

-----------------------------------------------------------------------------
(* sec jobs rm, and what may happen to a process at any step *)

Remove(j) ==
  /\ file[j] # NoFile
  /\ file' = [file EXCEPT ![j] = NoFile]
  /\ UNCHANGED <<pc, job>>

\* kill, power failure, an exception outside the worker's try block or in its
\* catch block.  Nothing restarts a job.
Crash(j) ==
  /\ pc[j] \notin {"unused", "done", "dead"}
  /\ Goto(j, "dead")
  /\ UNCHANGED <<file, job>>

Step(j) ==
  SaveOpens(j) \/ SaveWrites(j) \/ Spawn(j) \/ Load(j) \/ AgentEnds(j) \/ SaveThrows(j)

Next == \E j \in JobIds : Launch(j) \/ Step(j) \/ Remove(j) \/ Crash(j)

Spec == Init /\ [][Next]_vars

-----------------------------------------------------------------------------
(* Properties *)

\* `sec status j` shows an outcome.
ShowsOutcome(j) == file[j] \in Job /\ file[j].status \in {"completed", "failed"}

\* A job shown as completed has its result and no error, one shown as failed
\* has an error, and one shown as pending or running has neither yet.
OutcomeMatchesStatus ==
  \A j \in JobIds : file[j] \in Job =>
    /\ file[j].status = "completed" => file[j].result /\ ~file[j].error
    /\ file[j].status = "failed" => file[j].error
    /\ file[j].status \in {"pending", "running"} => ~file[j].result /\ ~file[j].error

\* When the worker is through, a job that was not removed shows its outcome:
\* no path through the two saves and the catch block leaves it "running".
DoneShowsOutcome ==
  \A j \in JobIds : pc[j] = "done" => file[j] = NoFile \/ ShowsOutcome(j)

\* An unreadable file is being written right now, or its writer failed or died
\* in the middle: nobody else ever truncates it.
TornHasWriter ==
  \A j \in JobIds : file[j] = Torn => pc[j] \in Writing \union {"fail", "dead"}

\* An outcome that was once readable stays readable until it is removed.
OutcomeStays ==
  [][\A j \in JobIds : ShowsOutcome(j) => file'[j] \in {file[j], NoFile}]_vars

\* A job that was launched ends with an outcome on file, unless it is removed
\* or one of its two processes dies.
JobSettles ==
  \A j \in JobIds : pc[j] = "create" ~>
    ShowsOutcome(j) \/ (pc[j] = "done" /\ file[j] = NoFile) \/ pc[j] = "dead"

\* A removed job stays removed.
RemovedStaysRemoved ==
  [][\A j \in JobIds : pc[j] \notin {"unused", "create"} /\ file[j] = NoFile
       => file'[j] = NoFile]_vars
=============================================================================
