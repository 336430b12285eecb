------------------------------ MODULE FileChat ------------------------------
(***************************************************************************)
(* `sec chat` without --use-sqlite (cmdChat), `sec session new` and        *)
(* `sec session rm`: one JSON file per session, read once when a chat      *)
(* opens and written whole at each save.                                   *)
(*                                                                         *)
(* The line handler is async and awaits the agent, so that readline hands  *)
(* it the next line while earlier ones still wait for their answers: any   *)
(* number of turns of one chat are in flight at a time, and their answers  *)
(* come in any order.                                                      *)
(*                                                                         *)
(* Inputs are numbered; a message is its input's number and its role.      *)
(***************************************************************************)
EXTENDS Naturals, Sequences, SequencesExt

CONSTANTS
  Chats,                   \* slots for concurrently running chats
  Ids,                     \* session ids
  MaxTurns,                \* bound on the number of inputs
  NoId, NoFile, Torn       \* a slot without chat; no <id>.json, a truncated one

ASSUME MaxTurnsOK == MaxTurns \in Nat

VARIABLES
  file,                    \* id -> messages in its file
  used,                    \* ids that had a file: genSessionId returns none of them
  open,                    \* chat -> the id of its session
  messages,                \* chat -> session.messages, in memory
  waiting,                 \* chat -> inputs whose runAgent has not settled
  turns                    \* number of inputs so far

vars == <<file, used, open, messages, waiting, turns>>

Turn == 1..MaxTurns
Message == [turn : Turn, role : {"user", "assistant"}]

ASSUME MarkersOK ==
  /\ NoId \notin Ids
  /\ NoFile # Torn /\ NoFile \notin Seq(Message) /\ Torn \notin Seq(Message)

TypeOK ==
  /\ file \in [Ids -> Seq(Message) \union {NoFile, Torn}]
  /\ used \subseteq Ids
  /\ open \in [Chats -> Ids \union {NoId}]
  /\ messages \in [Chats -> Seq(Message)]
  /\ waiting \in [Chats -> SUBSET Turn]
  /\ turns \in 0..MaxTurns
  /\ \A c \in Chats : open[c] = NoId => messages[c] = <<>> /\ waiting[c] = {}

Init ==
  /\ file = [i \in Ids |-> NoFile]
  /\ used = {}
  /\ open = [c \in Chats |-> NoId]
  /\ messages = [c \in Chats |-> <<>>]
  /\ waiting = [c \in Chats |-> {}]
  /\ turns = 0

-----------------------------------------------------------------------------
Said(t, role) == [turn |-> t, role |-> role]

IsOpen(c) == open[c] # NoId

\* Mutant of SaveSession: a save that extends the file.
SaveSessionAppends(i, msgs) ==
  file' = [file EXCEPT ![i] = IF @ \in {NoFile, Torn} THEN msgs ELSE @ \o msgs]

\* writeFileSync: whatever was there is replaced, or created.
SaveSession(i, msgs) == file' = [file EXCEPT ![i] = msgs]

\* The process is gone: exit, end of input, kill, an exception that nothing
\* catches.  Nobody waits for the turns in flight.
End(c) ==
  /\ open' = [open EXCEPT ![c] = NoId]
  /\ messages' = [messages EXCEPT ![c] = <<>>]
  /\ waiting' = [waiting EXCEPT ![c] = {}]

\* Mutant of Open: an exception of JSON.parse is swallowed.
OpenUnchecked(c, i) ==
  /\ ~IsOpen(c) /\ file[i] # NoFile
  /\ open' = [open EXCEPT ![c] = i]
  /\ messages' = [messages EXCEPT ![c] = file[i]]
  /\ UNCHANGED <<file, used, waiting, turns>>

\* A chat on a session file that parses; a torn one throws before the prompt.
Open(c, i) ==
  /\ ~IsOpen(c) /\ file[i] \notin {NoFile, Torn}
  /\ open' = [open EXCEPT ![c] = i]
  /\ messages' = [messages EXCEPT ![c] = file[i]]
  /\ UNCHANGED <<file, used, waiting, turns>>

\* A chat on a session without a file, which is created: a new id, or whatever
\* id --session named, one that was removed included.
OpenNew(c, i) ==
  /\ ~IsOpen(c) /\ file[i] = NoFile
  /\ SaveSession(i, <<>>)
  /\ used' = used \union {i}
  /\ open' = [open EXCEPT ![c] = i]
  /\ UNCHANGED <<messages, waiting, turns>>

\* Mutant of Line: the input is put in front.
LineFirst(c) ==
  /\ IsOpen(c) /\ turns < MaxTurns
  /\ turns' = turns + 1
  /\ messages' = [messages EXCEPT ![c] = <<Said(turns + 1, "user")>> \o @]
  /\ waiting' = [waiting EXCEPT ![c] = @ \union {turns + 1}]
  /\ UNCHANGED <<file, used, open>>

\* An input: push it and call the agent.
Line(c) ==
  /\ IsOpen(c) /\ turns < MaxTurns
  /\ turns' = turns + 1
  /\ messages' = [messages EXCEPT ![c] = Append(@, Said(turns + 1, "user"))]
  /\ waiting' = [waiting EXCEPT ![c] = @ \union {turns + 1}]
  /\ UNCHANGED <<file, used, open>>

\* Mutants of Answer: the turn is answered more than once, and the answer is
\* put in front.
AnswerAgain(c, t) ==
  /\ t \in waiting[c]
  /\ messages' = [messages EXCEPT ![c] = Append(@, Said(t, "assistant"))]
  /\ SaveSession(open[c], messages'[c])
  /\ UNCHANGED <<used, open, waiting, turns>>

AnswerFirst(c, t) ==
  /\ t \in waiting[c]
  /\ messages' = [messages EXCEPT ![c] = <<Said(t, "assistant")>> \o @]
  /\ waiting' = [waiting EXCEPT ![c] = @ \ {t}]
  /\ SaveSession(open[c], messages'[c])
  /\ UNCHANGED <<used, open, turns>>

\* The agent answers: push the answer and save everything.
Answer(c, t) ==
  /\ t \in waiting[c]
  /\ messages' = [messages EXCEPT ![c] = Append(@, Said(t, "assistant"))]
  /\ waiting' = [waiting EXCEPT ![c] = @ \ {t}]
  /\ SaveSession(open[c], messages'[c])
  /\ UNCHANGED <<used, open, turns>>

\* ... but the save fails, before or after it truncated the file.
AnswerUnsaved(c, t) ==
  /\ t \in waiting[c]
  /\ messages' = [messages EXCEPT ![c] = Append(@, Said(t, "assistant"))]
  /\ waiting' = [waiting EXCEPT ![c] = @ \ {t}]
  /\ file' \in {file, [file EXCEPT ![open[c]] = Torn]}
  /\ UNCHANGED <<used, open, turns>>

\* runAgent throws: an error message, and the input stays as it is.
Fail(c, t) ==
  /\ t \in waiting[c]
  /\ waiting' = [waiting EXCEPT ![c] = @ \ {t}]
  /\ UNCHANGED <<file, used, open, messages, turns>>

\* `clear`: the turns in flight go on.
Clear(c) ==
  /\ IsOpen(c)
  /\ messages' = [messages EXCEPT ![c] = <<>>]
  /\ SaveSession(open[c], <<>>)
  /\ UNCHANGED <<used, open, waiting, turns>>

Quit(c) ==
  /\ IsOpen(c)
  /\ End(c)
  /\ UNCHANGED <<file, used, turns>>

\* In the middle of a save.
CrashSaving(c) ==
  /\ IsOpen(c)
  /\ file' = [file EXCEPT ![open[c]] = Torn]
  /\ End(c)
  /\ UNCHANGED <<used, turns>>

\* sec session new, under a new id.
SessionNew(i) ==
  /\ i \notin used
  /\ SaveSession(i, <<>>)
  /\ used' = used \union {i}
  /\ UNCHANGED <<open, messages, waiting, turns>>

\* sec session rm.
SessionRm(i) ==
  /\ file[i] # NoFile
  /\ file' = [file EXCEPT ![i] = NoFile]
  /\ UNCHANGED <<used, open, messages, waiting, turns>>

-----------------------------------------------------------------------------
Next ==
  \/ \E c \in Chats :
       \/ \E i \in Ids : Open(c, i) \/ OpenNew(c, i)
       \/ \E t \in waiting[c] : Answer(c, t) \/ AnswerUnsaved(c, t) \/ Fail(c, t)
       \/ Line(c) \/ Clear(c) \/ Quit(c) \/ CrashSaving(c)
  \/ \E i \in Ids : SessionNew(i) \/ SessionRm(i)

Spec == Init /\ [][Next]_vars

-----------------------------------------------------------------------------
(* Properties *)

\* A history is in memory or on file.
Saved(i) == file[i] \notin {NoFile, Torn}

InEveryHistory(Good(_)) ==
  (\A c \in Chats : Good(messages[c])) /\ (\A i \in Ids : Saved(i) => Good(file[i]))

Ordered(h) ==
  \A k, l \in 1..Len(h) :
    k < l /\ h[k].role = "user" /\ h[l].role = "user" => h[k].turn < h[l].turn

\* Inputs stand in the order in which they were typed, in whatever order their
\* answers came and whichever chats wrote the file.
InputsInOrder == InEveryHistory(Ordered)

Single(h) ==
  \A k, l \in 1..Len(h) : h[k].role = "assistant" /\ h[l] = h[k] => k = l

\* No turn is answered twice.
AnswersOnce == InEveryHistory(Single)

Behind(h) ==
  \A k, l \in 1..Len(h) :
    h[k].role = "assistant" /\ h[l] = Said(h[k].turn, "user") => l < k

\* An answer never stands before its input (which `clear` may have removed).
AnswersAfterInputs == InEveryHistory(Behind)

\* With one chat at a time: the file is a beginning of what the chat shows, so
\* that a crash or a failing save loses the end of the history and nothing else,
\* although turns overlap and sessions are removed and created again meanwhile.
FileBehindChat ==
  \A c \in Chats : IsOpen(c) /\ Saved(open[c]) =>
    IsPrefix(file[open[c]], messages[c])

\* "clear to reset": the history starts anew, with inputs typed since.
AnswersHaveInputs ==
  \A c \in Chats : \A k \in 1..Len(messages[c]) :
    messages[c][k].role = "assistant" =>
      \E l \in 1..(k - 1) : messages[c][l] = Said(messages[c][k].turn, "user")
=============================================================================
