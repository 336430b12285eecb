--------------------------- MODULE CelldSessions ---------------------------
(***************************************************************************)
(* The sec processes that share the SQLite store: `sec chat --use-sqlite`  *)
(* (cmdChatCelld), `sec run --session ID` (cmdRun) and `sec sqlite new|rm` *)
(* (cmdSqlite).  Each runs one command in one OS process.  A step is one   *)
(* SQLite statement with the synchronous code up to the next one, or the   *)
(* whole life of a child process or an agent call; between two steps of a  *)
(* process the others may take any number of theirs.                       *)
(*                                                                         *)
(* User inputs are numbered; an entry or an event carries the number of    *)
(* the input that it records or answers.                                   *)
(***************************************************************************)
EXTENDS CelldStore

CONSTANTS
  Procs,                   \* slots for concurrently running sec processes
  NoId                     \* the session of a slot that runs nothing

ASSUME NoIdOK == NoId \notin SessionIds

VARIABLES
  proc,                    \* per slot: next step, open session, its entries
                           \* in memory, the input worked on last (0: none)
  turns                    \* how many inputs users have typed

vars == <<sessions, runtime_events, issued, proc, turns>>

ChatPc == {"prompt", "child", "retry", "reply", "save", "failing"}
RunPc == {"agent", "logReply", "load", "runSave"}

Process == [pc : {"none"} \union ChatPc \union RunPc,
            sid : SessionIds \union {NoId}, mem : Seq(Entry), turn : 0..MaxTurns]

TypeOK ==
  /\ StoreTypeOK
  /\ turns \in 0..MaxTurns
  /\ proc \in [Procs -> Process]
  /\ \A p \in Procs : /\ proc[p].turn <= turns
                      /\ proc[p].pc # "none" => proc[p].sid \in issued
                      /\ proc[p].pc \notin {"none", "prompt"} => proc[p].turn # 0

NoProcess == [pc |-> "none", sid |-> NoId, mem |-> <<>>, turn |-> 0]

Init ==
  /\ StoreInit
  /\ proc = [p \in Procs |-> NoProcess]
  /\ turns = 0

-----------------------------------------------------------------------------
(* Parts of the commands *)

At(p, label) == proc[p].pc = label

Become(p, label, id, entries, t) ==
  proc' = [proc EXCEPT ![p] = [pc |-> label, sid |-> id, mem |-> entries, turn |-> t]]

Goto(p, label) == Become(p, label, proc[p].sid, proc[p].mem, proc[p].turn)

\* The OS process is gone, and what it held in memory with it.
Exit(p) == Become(p, "none", NoId, <<>>, 0)

Said(t, role) == [turn |-> t, role |-> role]

\* A user types one more input.
NextTurn == turns < MaxTurns /\ turns' = turns + 1

\* kill, `exit` or end of input at a chat's prompt, a power failure; also an exception that nothing
\* catches: every one of a run (exit code 1), and in a chat one thrown by the
\* input's own appendEvent, by `clear` or by the catch block.
Crash(p) ==
  /\ ~At(p, "none")
  /\ Exit(p)
  /\ UNCHANGED <<storeVars, turns>>

-----------------------------------------------------------------------------
(* sec chat --use-sqlite [--session ID] *)

\* Mutant of ChatOpen: the copy starts empty.
ChatOpenEmpty(p, id) ==
  /\ At(p, "none") /\ id \in DOMAIN sessions
  /\ Become(p, "prompt", id, <<>>, 0)
  /\ UNCHANGED <<storeVars, turns>>

\* --session names a row: work on a copy of its entries.
ChatOpen(p, id) ==
  /\ At(p, "none") /\ id \in DOMAIN sessions
  /\ Become(p, "prompt", id, sessions[id], 0)
  /\ UNCHANGED <<storeVars, turns>>

\* No --session, or one without a row: createSession inserts a row under an
\* id of its own making, then the session object is given another id.
ChatOpenNew(p, rowId, id) ==
  /\ At(p, "none") /\ id \in SessionIds \ (issued \union {rowId})
  /\ CreateSession(rowId)
  /\ issued' = issued \union {rowId, id}
  /\ Become(p, "prompt", id, <<>>, 0)
  /\ UNCHANGED <<runtime_events, turns>>

\* Mutant of ChatClear: only the copy is cleared.
ChatClearUnsaved(p) ==
  /\ At(p, "prompt")
  /\ Become(p, "prompt", proc[p].sid, <<>>, proc[p].turn)
  /\ UNCHANGED <<storeVars, turns>>

\* The `clear` command.
ChatClear(p) ==
  /\ At(p, "prompt")
  /\ UpdateSession(proc[p].sid, <<>>)
  /\ Become(p, "prompt", proc[p].sid, <<>>, proc[p].turn)
  /\ UNCHANGED <<runtime_events, issued, turns>>

\* An input line: log it, push it, start the child `sec run <input>`.
ChatLine(p) ==
  /\ At(p, "prompt") /\ NextTurn
  /\ AppendEvent(proc[p].sid, turns + 1, "user_message")
  /\ Become(p, "child", proc[p].sid, Append(proc[p].mem, Said(turns + 1, "user")), turns + 1)
  /\ UNCHANGED <<sessions, issued>>

\* Mutants of ChatChild: a missing second answer is no error, and retrying
\* without end.
ChatChildSilent(p) ==
  /\ \/ At(p, "child") /\ \E label \in {"reply", "retry"} : Goto(p, label)
     \/ At(p, "retry") /\ \E label \in {"reply", "prompt"} : Goto(p, label)
  /\ UNCHANGED <<storeVars, turns>>

ChatChildLoop(p) ==
  /\ \/ At(p, "child") /\ \E label \in {"reply", "retry"} : Goto(p, label)
     \/ At(p, "retry") /\ \E label \in {"reply", "child"} : Goto(p, label)
  /\ UNCHANGED <<storeVars, turns>>

\* A child ends, its timeout of 60 s at the latest.  The first one answers, or
\* is retried; without an answer from the second the handler throws.
ChatChild(p) ==
  /\ \/ At(p, "child") /\ \E label \in {"reply", "retry"} : Goto(p, label)
     \/ At(p, "retry") /\ \E label \in {"reply", "failing"} : Goto(p, label)
  /\ UNCHANGED <<storeVars, turns>>

\* Log the answer, then push it.
ChatReply(p) ==
  /\ At(p, "reply")
  /\ AppendEvent(proc[p].sid, proc[p].turn, "assistant_message")
  /\ Become(p, "save", proc[p].sid,
            Append(proc[p].mem, Said(proc[p].turn, "assistant")), proc[p].turn)
  /\ UNCHANGED <<sessions, issued, turns>>

\* updateSession overwrites the row with the chat's copy.
ChatSave(p) ==
  /\ At(p, "save")
  /\ UpdateSession(proc[p].sid, proc[p].mem)
  /\ Goto(p, "prompt")
  /\ UNCHANGED <<runtime_events, issued, turns>>

\* Mutant of ChatThrows: the answer was pushed before it was logged.
ChatThrowsPushed(p) ==
  /\ At(p, "reply") /\ UNCHANGED runtime_events
  /\ Become(p, "failing", proc[p].sid,
            Append(proc[p].mem, Said(proc[p].turn, "assistant")), proc[p].turn)
  /\ UNCHANGED <<sessions, issued, turns>>

\* A statement inside the try block throws; appendEvent's second one does so
\* after the answer's event went in.
ChatThrows(p) ==
  /\ \/ At(p, "reply") /\ AppendEvent(proc[p].sid, proc[p].turn, "assistant_message")
     \/ (At(p, "reply") \/ At(p, "save")) /\ UNCHANGED runtime_events
  /\ Goto(p, "failing")
  /\ UNCHANGED <<sessions, issued, turns>>

\* The catch block: log the error and prompt again.
ChatError(p) ==
  /\ At(p, "failing")
  /\ AppendEvent(proc[p].sid, proc[p].turn, "error")
  /\ Goto(p, "prompt")
  /\ UNCHANGED <<sessions, issued, turns>>

-----------------------------------------------------------------------------
(* sec run --session ID <prompt>, in the foreground.  The ID is one some    *)
(* command printed: its row may be gone, or may never have existed.         *)

\* Read the entries, the context of the prompt, and call the agent.
RunStart(p, id) ==
  /\ At(p, "none") /\ id \in issued /\ NextTurn
  /\ Become(p, "agent", id, IF id \in DOMAIN sessions THEN sessions[id] ELSE <<>>, turns + 1)
  /\ UNCHANGED storeVars

\* Mutant of RunLogPrompt: the answer goes first.
RunLogReplyFirst(p) ==
  /\ At(p, "agent")
  /\ AppendEvent(proc[p].sid, proc[p].turn, "assistant_message")
  /\ Goto(p, "logReply")
  /\ UNCHANGED <<sessions, issued, turns>>

\* The agent has answered: log the prompt ...
RunLogPrompt(p) ==
  /\ At(p, "agent")
  /\ AppendEvent(proc[p].sid, proc[p].turn, "user_message")
  /\ Goto(p, "logReply")
  /\ UNCHANGED <<sessions, issued, turns>>

\* ... and the answer.
RunLogReply(p) ==
  /\ At(p, "logReply")
  /\ AppendEvent(proc[p].sid, proc[p].turn, "assistant_message")
  /\ Goto(p, "load")
  /\ UNCHANGED <<sessions, issued, turns>>

\* Read the row again and push both entries, or leave if there is no row.
RunLoad(p) ==
  /\ At(p, "load")
  /\ \/ /\ proc[p].sid \in DOMAIN sessions
        /\ Become(p, "runSave", proc[p].sid,
                  Append(Append(sessions[proc[p].sid], Said(proc[p].turn, "user")),
                         Said(proc[p].turn, "assistant")), proc[p].turn)
     \/ proc[p].sid \notin DOMAIN sessions /\ Exit(p)
  /\ UNCHANGED <<storeVars, turns>>

RunSave(p) ==
  /\ At(p, "runSave")
  /\ UpdateSession(proc[p].sid, proc[p].mem)
  /\ Exit(p)
  /\ UNCHANGED <<runtime_events, issued, turns>>

-----------------------------------------------------------------------------
(* sec sqlite new | rm ID: a process that lives for one statement *)

SqliteNew(p, id) ==
  /\ At(p, "none") /\ CreateSession(id)
  /\ issued' = issued \union {id}
  /\ UNCHANGED <<runtime_events, proc, turns>>

\* Mutant of SqliteRm: the session's events go with its row.
SqliteRmPurge(p, id) ==
  /\ At(p, "none") /\ id \in DOMAIN sessions
  /\ DeleteSession(id)
  /\ runtime_events' = SelectSeq(runtime_events, LAMBDA e : e.sid # id)
  /\ UNCHANGED <<issued, proc, turns>>

SqliteRm(p, id) ==
  /\ At(p, "none") /\ id \in DOMAIN sessions
  /\ DeleteSession(id)
  /\ UNCHANGED <<runtime_events, issued, proc, turns>>

-----------------------------------------------------------------------------
\* What a command does by itself ...
Step(p) ==
  \/ ChatChild(p) \/ ChatReply(p) \/ ChatSave(p) \/ ChatThrows(p) \/ ChatError(p)
  \/ RunLogPrompt(p) \/ RunLogReply(p) \/ RunLoad(p) \/ RunSave(p)

\* ... and what its user, or the machine it runs on, does to it.
UserStep(p) ==
  \/ \E id \in SessionIds :
       \/ ChatOpen(p, id)
       \/ \E rowId \in SessionIds : ChatOpenNew(p, rowId, id)
       \/ RunStart(p, id) \/ SqliteNew(p, id) \/ SqliteRm(p, id)
  \/ ChatClear(p) \/ ChatLine(p) \/ Crash(p)

Next == \E p \in Procs : Step(p) \/ UserStep(p)

Spec == Init /\ [][Next]_vars

\* spawnSync has a timeout, the agent a maximal duration, and nothing else in
\* a handler waits: a command that is at work goes on working.
FairSpec == Spec /\ \A p \in Procs : WF_vars(Step(p))

-----------------------------------------------------------------------------
(* Properties *)

LogType(role) == IF role = "user" THEN "user_message" ELSE "assistant_message"

AllLogged(log, id, entries) ==
  \A i \in 1..Len(entries) : Logged(log, id, entries[i].turn, LogType(entries[i].role))

\* Whatever a session row shows was logged first, under the same session:
\* a crash, a failing statement or another process's stale copy can lose
\* entries, but never leaves one in the row that the log does not know.
EntriesBackedByLog ==
  \A id \in DOMAIN sessions : AllLogged(runtime_events, id, sessions[id])

\* An answer stands right behind the input it answers, and no input or answer
\* stands there twice.
Conversation(entries) ==
  /\ \A i \in 1..Len(entries) : entries[i].role = "assistant" =>
       i > 1 /\ entries[i - 1] = [turn |-> entries[i].turn, role |-> "user"]
  /\ \A i, j \in 1..Len(entries) : entries[i] = entries[j] => i = j

\* Every row reads as a conversation, whoever wrote it over whose copy: failed
\* turns leave inputs without an answer, never answers without their input.
RowsAreConversations == \A id \in DOMAIN sessions : Conversation(sessions[id])

\* In the log an answer or an error comes after the input it is about.
OutcomeAfterInput ==
  \A i \in 1..Len(runtime_events) : runtime_events[i].type # "user_message" =>
    \E j \in 1..(i - 1) :
      runtime_events[j] = [runtime_events[i] EXCEPT !.type = "user_message"]

\* A chat prompts again only when its last input has an answer or an error in
\* the log: the catch block lets no failed turn pass in silence.
TurnClosed(p) ==
  \/ Logged(runtime_events, proc[p].sid, proc[p].turn, "assistant_message")
  \/ Logged(runtime_events, proc[p].sid, proc[p].turn, "error")

NoSilentFailure ==
  \A p \in Procs : At(p, "prompt") /\ proc[p].turn # 0 => TurnClosed(p)

\* A session that was removed stays removed, even while a chat or a run that
\* opened it before goes on saving: its UPDATE finds no row.
NoResurrection ==
  [][\A id \in issued : id \notin DOMAIN sessions => id \notin DOMAIN sessions']_vars

\* The log is written once: events are appended one by one, never changed,
\* removed or recorded twice, although turns are retried and fail halfway.
Log == INSTANCE EventLog WITH log <- runtime_events
WriteOnceLog == Log!Spec

\* A row's history only grows, unless it is cleared or removed as a whole.
HistoryOnlyGrows ==
  [][\A id \in DOMAIN sessions \intersect DOMAIN sessions' :
       \/ sessions'[id] = <<>>
       \/ SubSeq(sessions'[id], 1, Len(sessions[id])) = sessions[id]]_vars

\* At the prompt the row holds what the chat shows, unless the last turn
\* failed (its input is then in memory only, and saved with the next turn).
StoredIsShown ==
  \A p \in Procs :
    At(p, "prompt") /\ proc[p].sid \in DOMAIN sessions
      /\ ~Logged(runtime_events, proc[p].sid, proc[p].turn, "error")
    => sessions[proc[p].sid] = proc[p].mem

\* A chat whose last turn was answered and saved is a session in the database.
AnsweredChatIsStored ==
  \A p \in Procs :
    At(p, "prompt") /\ Logged(runtime_events, proc[p].sid, proc[p].turn, "assistant_message")
      /\ ~Logged(runtime_events, proc[p].sid, proc[p].turn, "error")
    => proc[p].sid \in DOMAIN sessions

\* Every input gets its answer or its error, and the user the prompt, unless
\* the process dies.
InputIsClosed ==
  \A p \in Procs : At(p, "child") ~> (At(p, "prompt") /\ TurnClosed(p)) \/ At(p, "none")
=============================================================================
