------------------------ MODULE CelldSessionsProofs ------------------------
(***************************************************************************)
(* Theorems about CelldSessions, for any number of processes, session ids  *)
(* and inputs.                                                             *)
(***************************************************************************)
EXTENDS CelldSessions, TLAPS

-----------------------------------------------------------------------------
(* Types *)

LEMMA InitTypeOK == Init => TypeOK
  BY MaxTurnsOK DEF Init, TypeOK, StoreInit, StoreTypeOK, NoProcess, Process, ChatPc,
     RunPc, Entry, Event, Turn

\* The one event a step may append is well typed.
LEMMA AppendEventType ==
  ASSUME runtime_events \in Seq(Event), NEW id \in SessionIds, NEW t \in Turn,
         NEW type \in {"user_message", "assistant_message", "error"},
         AppendEvent(id, t, type)
  PROVE  runtime_events' \in Seq(Event)
  BY DEF AppendEvent, Event

\* A step of p replaces p's record and leaves every other process alone.
LEMMA BecomeType ==
  ASSUME proc \in [Procs -> Process], NEW p \in Procs,
         NEW label \in {"none"} \union ChatPc \union RunPc,
         NEW id \in SessionIds \union {NoId}, NEW entries \in Seq(Entry),
         NEW t \in 0..MaxTurns, Become(p, label, id, entries, t)
  PROVE  /\ proc' \in [Procs -> Process]
         /\ proc'[p] = [pc |-> label, sid |-> id, mem |-> entries, turn |-> t]
         /\ \A q \in Procs : q # p => proc'[q] = proc[q]
<1>1. [pc |-> label, sid |-> id, mem |-> entries, turn |-> t] \in Process
  BY DEF Process
<1> QED
  BY <1>1 DEF Become

\* What TypeOK says of one process.
LEMMA ProcessType ==
  ASSUME TypeOK, NEW p \in Procs
  PROVE  /\ proc[p].pc \in {"none"} \union ChatPc \union RunPc
         /\ proc[p].sid \in SessionIds \union {NoId}
         /\ proc[p].pc # "none" => proc[p].sid \in SessionIds
         /\ proc[p].mem \in Seq(Entry)
         /\ proc[p].turn \in 0..MaxTurns
         /\ proc[p].pc \notin {"none", "prompt"} => proc[p].turn \in Turn
  BY MaxTurnsOK DEF TypeOK, StoreTypeOK, Process, Turn

\* A step of p keeps TypeOK when its new record fits the new store and counter.
LEMMA BecomeTypeOK ==
  ASSUME TypeOK, NEW p \in Procs, NEW label \in {"none"} \union ChatPc \union RunPc,
         NEW id \in SessionIds \union {NoId}, NEW entries \in Seq(Entry),
         NEW t \in 0..MaxTurns, Become(p, label, id, entries, t),
         StoreTypeOK', issued \subseteq issued',
         turns' \in 0..MaxTurns, turns <= turns', t <= turns',
         label # "none" => id \in issued',
         label \notin {"none", "prompt"} => t # 0
  PROVE  TypeOK'
<1>1. /\ proc' \in [Procs -> Process]
      /\ proc'[p] = [pc |-> label, sid |-> id, mem |-> entries, turn |-> t]
      /\ \A q \in Procs : q # p => proc'[q] = proc[q]
  BY BecomeType DEF TypeOK
<1>2. ASSUME NEW q \in Procs
      PROVE  /\ proc'[q].turn <= turns'
             /\ proc'[q].pc # "none" => proc'[q].sid \in issued'
             /\ proc'[q].pc \notin {"none", "prompt"} => proc'[q].turn # 0
  <2>1. CASE q = p
    BY <1>1, <2>1
  <2>2. CASE q # p
    <3>1. proc'[q] = proc[q] /\ proc[q].turn \in 0..MaxTurns
      BY <1>1, <2>2, ProcessType
    <3> QED
      BY <3>1, MaxTurnsOK DEF TypeOK
  <2> QED
    BY <2>1, <2>2
<1> QED
  BY <1>1, <1>2 DEF TypeOK

\* The same for the many steps that only move p on to its next label.
LEMMA GotoTypeOK ==
  ASSUME TypeOK, NEW p \in Procs, NEW label \in ChatPc \union RunPc,
         ~At(p, "none"), ~At(p, "prompt"), Goto(p, label),
         StoreTypeOK', issued' = issued, turns' = turns
  PROVE  TypeOK'
<1>1. turns \in 0..MaxTurns /\ proc[p].turn <= turns /\ proc[p].sid \in issued
  BY DEF TypeOK, At
<1>2. proc[p].turn # 0
  BY DEF TypeOK, At
<1> QED
  BY <1>1, <1>2, ProcessType, BecomeTypeOK, MaxTurnsOK DEF Goto

LEMMA ExitTypeOK ==
  ASSUME TypeOK, NEW p \in Procs, Exit(p), StoreTypeOK', issued' = issued, turns' = turns
  PROVE  TypeOK'
<1>1. Become(p, "none", NoId, <<>>, 0) /\ <<>> \in Seq(Entry)
  BY DEF Exit
<1>2. turns \in 0..MaxTurns /\ 0 \in 0..MaxTurns /\ 0 <= turns /\ turns <= turns
  BY MaxTurnsOK DEF TypeOK
<1> QED
  BY <1>1, <1>2, BecomeTypeOK

LEMMA StepTypeOK == TypeOK /\ [Next]_vars => TypeOK'
<1> SUFFICES ASSUME TypeOK, [Next]_vars
             PROVE  TypeOK'
  OBVIOUS
<1>a. StoreTypeOK /\ turns \in 0..MaxTurns
  BY DEF TypeOK
<1>b. {"none"} \union ChatPc \union RunPc =
         {"none", "prompt", "child", "retry", "reply", "save", "failing",
          "agent", "logReply", "load", "runSave"}
  BY DEF ChatPc, RunPc
<1>c. <<>> \in Seq(Entry) /\ turns <= turns
  BY <1>a, MaxTurnsOK
<1>1. CASE UNCHANGED vars
  BY <1>1 DEF vars, TypeOK, StoreTypeOK
<1>2. ASSUME NEW p \in Procs, NEW id \in SessionIds, ChatOpen(p, id)
      PROVE  TypeOK'
  <2>1. StoreTypeOK' /\ id \in issued /\ sessions[id] \in Seq(Entry)
    BY <1>2, <1>a DEF ChatOpen, StoreTypeOK, storeVars
  <2> QED
    BY <1>2, <2>1, <1>a, <1>b, BecomeTypeOK, MaxTurnsOK DEF ChatOpen, storeVars
<1>3. ASSUME NEW p \in Procs, NEW id \in SessionIds, NEW rowId \in SessionIds,
             ChatOpenNew(p, rowId, id)
      PROVE  TypeOK'
  <2>1. StoreTypeOK' /\ id \in issued' /\ issued \subseteq issued'
    BY <1>3, <1>a DEF ChatOpenNew, CreateSession, StoreTypeOK
  <2>2. Become(p, "prompt", id, <<>>, 0) /\ turns' = turns /\ 0 <= turns
    BY <1>3, <1>a, MaxTurnsOK DEF ChatOpenNew
  <2>3. 0 \in 0..MaxTurns
    BY MaxTurnsOK
  <2> QED
    BY <2>1, <2>2, <2>3, <1>a, <1>b, <1>c, BecomeTypeOK
<1>4. ASSUME NEW p \in Procs, ChatClear(p)
      PROVE  TypeOK'
  <2>1. StoreTypeOK'
    BY <1>4, <1>a DEF ChatClear, UpdateSession, StoreTypeOK
  <2>2. proc[p].turn <= turns /\ proc[p].sid \in issued
    BY <1>4 DEF ChatClear, At, TypeOK
  <2> QED
    BY <1>4, <2>1, <2>2, <1>a, <1>b, <1>c, ProcessType, BecomeTypeOK, MaxTurnsOK
    DEF ChatClear
<1>5. ASSUME NEW p \in Procs, ChatLine(p)
      PROVE  TypeOK'
  <2>1. proc[p].sid \in issued /\ proc[p].sid \in SessionIds /\ turns + 1 \in Turn
    BY <1>5, <1>a, MaxTurnsOK DEF ChatLine, NextTurn, Turn, At, TypeOK, StoreTypeOK
  <2>2. StoreTypeOK'
    BY <1>5, <1>a, <2>1, AppendEventType DEF ChatLine, StoreTypeOK
  <2>3. Said(turns + 1, "user") \in Entry /\ proc[p].mem \in Seq(Entry)
    BY <2>1, ProcessType DEF Said, Entry
  <2>4. Append(proc[p].mem, Said(turns + 1, "user")) \in Seq(Entry)
    BY <2>3
  <2> QED
    <3>1. /\ turns' = turns + 1 /\ turns + 1 \in 0..MaxTurns
          /\ turns <= turns + 1 /\ turns + 1 <= turns + 1 /\ turns + 1 # 0
      BY <1>5, <2>1, <1>a, MaxTurnsOK DEF ChatLine, NextTurn, Turn
    <3>2. /\ issued' = issued
          /\ Become(p, "child", proc[p].sid,
                    Append(proc[p].mem, Said(turns + 1, "user")), turns + 1)
      BY <1>5 DEF ChatLine
    <3> QED
      BY <2>1, <2>2, <2>4, <3>1, <3>2, <1>b, BecomeTypeOK
<1>6. ASSUME NEW p \in Procs, ChatChild(p)
      PROVE  TypeOK'
  <2>1. StoreTypeOK'
    BY <1>6, <1>a DEF ChatChild, storeVars, StoreTypeOK
  <2> QED
    BY <1>6, <2>1, <1>b, GotoTypeOK DEF ChatChild, At, storeVars, ChatPc
<1>7. ASSUME NEW p \in Procs, ChatReply(p)
      PROVE  TypeOK'
  <2>1. proc[p].sid \in issued /\ proc[p].sid \in SessionIds /\ proc[p].turn \in Turn
    BY <1>7, ProcessType DEF ChatReply, At, TypeOK
  <2>2. StoreTypeOK'
    BY <1>7, <1>a, <2>1, AppendEventType DEF ChatReply, StoreTypeOK
  <2>3. Said(proc[p].turn, "assistant") \in Entry /\ proc[p].mem \in Seq(Entry)
    BY <2>1, ProcessType DEF Said, Entry
  <2>4. Append(proc[p].mem, Said(proc[p].turn, "assistant")) \in Seq(Entry)
    BY <2>3
  <2>5. proc[p].turn <= turns /\ proc[p].turn \in 0..MaxTurns /\ proc[p].turn # 0
    BY <2>1, MaxTurnsOK DEF TypeOK, Turn
  <2> QED
    BY <1>7, <2>1, <2>2, <2>4, <2>5, <1>a, <1>b, <1>c, BecomeTypeOK DEF ChatReply
<1>8. ASSUME NEW p \in Procs, ChatSave(p)
      PROVE  TypeOK'
  <2>1. StoreTypeOK'
    BY <1>8, <1>a, ProcessType DEF ChatSave, UpdateSession, StoreTypeOK
  <2> QED
    BY <1>8, <2>1, GotoTypeOK DEF ChatSave, At, ChatPc
<1>9. ASSUME NEW p \in Procs, ChatThrows(p)
      PROVE  TypeOK'
  <2>1. proc[p].sid \in SessionIds /\ proc[p].turn \in Turn
    BY <1>9, ProcessType DEF ChatThrows, At
  <2>2. StoreTypeOK'
    BY <1>9, <1>a, <2>1, AppendEventType DEF ChatThrows, StoreTypeOK
  <2> QED
    BY <1>9, <2>2, GotoTypeOK DEF ChatThrows, At, ChatPc
<1>10. ASSUME NEW p \in Procs, ChatError(p)
      PROVE  TypeOK'
  <2>1. proc[p].sid \in SessionIds /\ proc[p].turn \in Turn
    BY <1>10, ProcessType DEF ChatError, At
  <2>2. StoreTypeOK'
    BY <1>10, <1>a, <2>1, AppendEventType DEF ChatError, StoreTypeOK
  <2> QED
    BY <1>10, <2>2, GotoTypeOK DEF ChatError, At, ChatPc
<1>11. ASSUME NEW p \in Procs, NEW id \in SessionIds, RunStart(p, id)
      PROVE  TypeOK'
  <2> DEFINE context == IF id \in DOMAIN sessions THEN sessions[id] ELSE <<>>
  <2>1. StoreTypeOK' /\ id \in issued /\ context \in Seq(Entry)
    BY <1>11, <1>a DEF RunStart, StoreTypeOK, storeVars
  <2>2. turns' = turns + 1 /\ turns + 1 \in 0..MaxTurns
    BY <1>11, <1>a, MaxTurnsOK DEF RunStart, NextTurn
  <2>3. Become(p, "agent", id, context, turns + 1) /\ issued' = issued
    BY <1>11 DEF RunStart, storeVars
  <2> HIDE DEF context
  <2> QED
    BY <2>1, <2>2, <2>3, <1>a, <1>b, BecomeTypeOK
<1>12. ASSUME NEW p \in Procs, RunLogPrompt(p)
      PROVE  TypeOK'
  <2>1. proc[p].sid \in SessionIds /\ proc[p].turn \in Turn
    BY <1>12, ProcessType DEF RunLogPrompt, At
  <2>2. StoreTypeOK'
    BY <1>12, <1>a, <2>1, AppendEventType DEF RunLogPrompt, StoreTypeOK
  <2> QED
    BY <1>12, <2>2, GotoTypeOK DEF RunLogPrompt, At, RunPc
<1>13. ASSUME NEW p \in Procs, RunLogReply(p)
      PROVE  TypeOK'
  <2>1. proc[p].sid \in SessionIds /\ proc[p].turn \in Turn
    BY <1>13, ProcessType DEF RunLogReply, At
  <2>2. StoreTypeOK'
    BY <1>13, <1>a, <2>1, AppendEventType DEF RunLogReply, StoreTypeOK
  <2> QED
    BY <1>13, <2>2, GotoTypeOK DEF RunLogReply, At, RunPc
<1>14. ASSUME NEW p \in Procs, RunLoad(p)
      PROVE  TypeOK'
  <2>1. /\ proc[p].sid \in issued /\ proc[p].sid \in SessionIds
        /\ proc[p].turn \in Turn /\ proc[p].turn <= turns
    BY <1>14, ProcessType DEF RunLoad, At, TypeOK
  <2>2. StoreTypeOK'
    BY <1>14, <1>a DEF RunLoad, storeVars, StoreTypeOK
  <2>3. CASE proc[p].sid \in DOMAIN sessions
    <3> DEFINE entries == Append(Append(sessions[proc[p].sid], Said(proc[p].turn, "user")),
                                 Said(proc[p].turn, "assistant"))
    <3>1. sessions[proc[p].sid] \in Seq(Entry)
      BY <2>3, <1>a DEF StoreTypeOK
    <3>2. Said(proc[p].turn, "user") \in Entry /\ Said(proc[p].turn, "assistant") \in Entry
      BY <2>1 DEF Said, Entry
    <3>3. entries \in Seq(Entry)
      BY <3>1, <3>2
    <3>4. Become(p, "runSave", proc[p].sid, entries, proc[p].turn)
      BY <1>14, <2>3 DEF RunLoad
    <3> HIDE DEF entries
    <3> QED
      BY <1>14, <2>1, <2>2, <3>3, <3>4, <1>a, <1>b, BecomeTypeOK
      DEF RunLoad, storeVars, Turn
  <2>4. CASE proc[p].sid \notin DOMAIN sessions
    BY <1>14, <2>4, <2>2, ExitTypeOK DEF RunLoad, storeVars
  <2> QED
    BY <2>3, <2>4
<1>15. ASSUME NEW p \in Procs, RunSave(p)
      PROVE  TypeOK'
  <2>1. StoreTypeOK'
    BY <1>15, <1>a, ProcessType DEF RunSave, UpdateSession, StoreTypeOK
  <2> QED
    BY <1>15, <2>1, ExitTypeOK DEF RunSave
<1>16. ASSUME NEW p \in Procs, NEW id \in SessionIds, SqliteNew(p, id)
      PROVE  TypeOK'
  BY <1>16 DEF SqliteNew, CreateSession, TypeOK, StoreTypeOK
<1>17. ASSUME NEW p \in Procs, NEW id \in SessionIds, SqliteRm(p, id)
      PROVE  TypeOK'
  BY <1>17 DEF SqliteRm, DeleteSession, TypeOK, StoreTypeOK
<1>18. ASSUME NEW p \in Procs, Crash(p)
      PROVE  TypeOK'
  <2>1. StoreTypeOK'
    BY <1>18, <1>a DEF Crash, storeVars, StoreTypeOK
  <2> QED
    BY <1>18, <2>1, ExitTypeOK DEF Crash, storeVars
<1> QED
  BY <1>1, <1>2, <1>3, <1>4, <1>5, <1>6, <1>7, <1>8, <1>9, <1>10, <1>11, <1>12,
     <1>13, <1>14, <1>15, <1>16, <1>17, <1>18 DEF Next, Step, UserStep

\* Every reachable state is well typed: in particular a row, a process's copy
\* and the log hold only what the commands write.
THEOREM TypeCorrect == Spec => []TypeOK
<1> QED
  BY InitTypeOK, StepTypeOK, PTL DEF Spec

-----------------------------------------------------------------------------
(* What the log knows                                                       *)
(*                                                                          *)
(* None of the properties about the log is inductive by itself: that a row  *)
(* shows logged entries only follows from the same fact about the copies it *)
(* is overwritten with, and that one from what each label says has already  *)
(* been logged.  Documented(log, r) states this for the record of one process.   *)

Documented(log, r) ==
  /\ AllLogged(log, r.sid, r.mem)
  /\ r.pc \in (ChatPc \ {"prompt"}) \union (RunPc \ {"agent"}) =>
       Logged(log, r.sid, r.turn, "user_message")
  /\ r.pc \in {"save", "load", "runSave"} => Logged(log, r.sid, r.turn, "assistant_message")
  /\ r.pc = "prompt" /\ r.turn # 0 =>
       \/ Logged(log, r.sid, r.turn, "assistant_message")
       \/ Logged(log, r.sid, r.turn, "error")

LogInv ==
  /\ EntriesBackedByLog
  /\ OutcomeAfterInput
  /\ \A p \in Procs : Documented(runtime_events, proc[p])

\* Nothing that is in the log leaves it.
Grows == \A id, t, type :
  Logged(runtime_events, id, t, type) => Logged(runtime_events', id, t, type)

LEMMA AppendGrows ==
  ASSUME runtime_events \in Seq(Event), NEW id \in SessionIds, NEW t \in Turn,
         NEW type \in {"user_message", "assistant_message", "error"},
         AppendEvent(id, t, type)
  PROVE  Grows /\ Logged(runtime_events', id, t, type)
<1> DEFINE e == [sid |-> id, turn |-> t, type |-> type]
<1>1. runtime_events' = Append(runtime_events, e) /\ e \in Event
  BY DEF AppendEvent, Event
<1>2. /\ Len(runtime_events') = Len(runtime_events) + 1
      /\ runtime_events'[Len(runtime_events) + 1] = e
      /\ \A i \in 1..Len(runtime_events) : runtime_events'[i] = runtime_events[i]
  BY <1>1
<1> HIDE DEF e
<1>3. Grows
  BY <1>2 DEF Grows, Logged
<1>4. Logged(runtime_events', id, t, type)
  BY <1>2 DEF Logged, e
<1> QED
  BY <1>3, <1>4

LEMMA UnchangedGrows ==
  ASSUME runtime_events' = runtime_events
  PROVE  Grows
  BY DEF Grows, Logged

LEMMA AllLoggedStays ==
  ASSUME NEW id, NEW entries, Grows, AllLogged(runtime_events, id, entries)
  PROVE  AllLogged(runtime_events', id, entries)
  BY DEF AllLogged, Grows

LEMMA DocumentedStays ==
  ASSUME NEW r, Grows, Documented(runtime_events, r)
  PROVE  Documented(runtime_events', r)
  BY AllLoggedStays DEF Documented, Grows

LEMMA AllLoggedAppend ==
  ASSUME NEW log, NEW id, NEW entries \in Seq(Entry), NEW e \in Entry,
         AllLogged(log, id, entries), Logged(log, id, e.turn, LogType(e.role))
  PROVE  AllLogged(log, id, Append(entries, e))
<1>1. /\ Len(Append(entries, e)) = Len(entries) + 1
      /\ Append(entries, e)[Len(entries) + 1] = e
      /\ \A i \in 1..Len(entries) : Append(entries, e)[i] = entries[i]
  OBVIOUS
<1> QED
  BY <1>1 DEF AllLogged

LEMMA OutcomeAppend ==
  ASSUME runtime_events \in Seq(Event), NEW id \in SessionIds, NEW t \in Turn,
         NEW type \in {"user_message", "assistant_message", "error"},
         AppendEvent(id, t, type), OutcomeAfterInput,
         type = "user_message" \/ Logged(runtime_events, id, t, "user_message")
  PROVE  OutcomeAfterInput'
<1> DEFINE e == [sid |-> id, turn |-> t, type |-> type]
           n == Len(runtime_events)
<1>1. runtime_events' = Append(runtime_events, e) /\ e \in Event /\ n \in Nat
  BY DEF AppendEvent, Event
<1>2. /\ Len(runtime_events') = n + 1
      /\ runtime_events'[n + 1] = e
      /\ \A i \in 1..n : runtime_events'[i] = runtime_events[i]
  BY <1>1
<1>3. ASSUME NEW i \in 1..(n + 1), runtime_events'[i].type # "user_message"
      PROVE  \E j \in 1..(i - 1) :
               runtime_events'[j] = [runtime_events'[i] EXCEPT !.type = "user_message"]
  <2>1. CASE i = n + 1
    <3>1. Logged(runtime_events, id, t, "user_message")
      BY <1>2, <1>3, <2>1
    <3>2. [e EXCEPT !.type = "user_message"] =
            [sid |-> id, turn |-> t, type |-> "user_message"]
      OBVIOUS
    <3> QED
      BY <1>1, <1>2, <2>1, <3>1, <3>2 DEF Logged
  <2>2. CASE i \in 1..n
    <3>1. PICK j \in 1..(i - 1) :
            runtime_events[j] = [runtime_events[i] EXCEPT !.type = "user_message"]
      BY <1>2, <1>3, <2>2 DEF OutcomeAfterInput
    <3>2. j \in 1..n /\ runtime_events'[j] = runtime_events[j]
      BY <1>1, <1>2, <2>2
    <3>3. runtime_events'[i] = runtime_events[i]
      BY <1>2, <2>2
    <3>4. runtime_events'[j] = [runtime_events'[i] EXCEPT !.type = "user_message"]
      BY <3>1, <3>2, <3>3
    <3> QED
      BY <3>1, <3>4
  <2>3. i = n + 1 \/ i \in 1..n
    <3> HIDE DEF e, n
    <3> QED
      BY <1>1
  <2> QED
    BY <2>1, <2>2, <2>3
<1> QED
  BY <1>2, <1>3 DEF OutcomeAfterInput

\* A step of p keeps LogInv when it fits what the log now knows to p's new
\* record and to the rows.
LEMMA LogInvStep ==
  ASSUME LogInv, NEW p \in Procs, Grows, OutcomeAfterInput', EntriesBackedByLog',
         \A q \in Procs : q # p => proc'[q] = proc[q],
         Documented(runtime_events', proc'[p])
  PROVE  LogInv'
<1>1. ASSUME NEW q \in Procs
      PROVE  Documented(runtime_events', proc'[q])
  <2>1. CASE q = p
    BY <2>1
  <2>2. CASE q # p
    BY <2>2, DocumentedStays DEF LogInv
  <2> QED
    BY <2>1, <2>2
<1> QED
  BY <1>1 DEF LogInv

LEMMA RowsStayLogged ==
  ASSUME EntriesBackedByLog, Grows, sessions' = sessions
  PROVE  EntriesBackedByLog'
  BY AllLoggedStays DEF EntriesBackedByLog

LEMMA UpdateStaysLogged ==
  ASSUME EntriesBackedByLog, Grows, NEW id, NEW entries, UpdateSession(id, entries),
         AllLogged(runtime_events', id, entries)
  PROVE  EntriesBackedByLog'
  BY AllLoggedStays DEF EntriesBackedByLog, UpdateSession

LEMMA CreateStaysLogged ==
  ASSUME EntriesBackedByLog, NEW id, CreateSession(id), runtime_events' = runtime_events
  PROVE  EntriesBackedByLog'
  BY DEF EntriesBackedByLog, CreateSession, AllLogged

LEMMA NothingLogged ==
  ASSUME NEW log, NEW id
  PROVE  AllLogged(log, id, <<>>)
  BY DEF AllLogged

LEMMA ExitLogInv ==
  ASSUME LogInv, proc \in [Procs -> Process], NEW p \in Procs, Exit(p), Grows,
         OutcomeAfterInput', EntriesBackedByLog'
  PROVE  LogInv'
<1>1. /\ proc'[p] = [pc |-> "none", sid |-> NoId, mem |-> <<>>, turn |-> 0]
      /\ \A q \in Procs : q # p => proc'[q] = proc[q]
  BY DEF Exit, Become
<1>2. Documented(runtime_events', proc'[p])
  BY <1>1, NothingLogged DEF Documented, ChatPc, RunPc
<1> QED
  BY <1>1, <1>2, LogInvStep

\* Every step of every command.
LEMMA StepLogInv == TypeOK /\ LogInv /\ [Next]_vars => LogInv'
<1> SUFFICES ASSUME TypeOK, LogInv, [Next]_vars
             PROVE  LogInv'
  OBVIOUS
<1>a. /\ EntriesBackedByLog /\ OutcomeAfterInput /\ runtime_events \in Seq(Event)
      /\ proc \in [Procs -> Process]
      /\ \A q \in Procs : Documented(runtime_events, proc[q])
  BY DEF LogInv, TypeOK, StoreTypeOK
<1>b. runtime_events' = runtime_events => OutcomeAfterInput'
  BY <1>a DEF OutcomeAfterInput
<1>1. CASE UNCHANGED vars
  <2>1. EntriesBackedByLog' /\ OutcomeAfterInput'
    BY <1>1, <1>a, <1>b, UnchangedGrows, RowsStayLogged DEF vars
  <2> QED
    BY <1>1, <1>a, <2>1 DEF LogInv, vars
<1>2. ASSUME NEW p \in Procs, NEW id \in SessionIds, ChatOpen(p, id)
      PROVE  LogInv'
  <2>1. Grows /\ OutcomeAfterInput' /\ EntriesBackedByLog'
    BY <1>2, <1>a, <1>b, UnchangedGrows, RowsStayLogged DEF ChatOpen, storeVars
  <2>2. /\ proc'[p] = [pc |-> "prompt", sid |-> id, mem |-> sessions[id], turn |-> 0]
        /\ \A q \in Procs : q # p => proc'[q] = proc[q]
    BY <1>2, <1>a DEF ChatOpen, Become
  <2>3. AllLogged(runtime_events', id, sessions[id])
    BY <1>2, <1>a, <2>1, AllLoggedStays DEF ChatOpen, EntriesBackedByLog
  <2>4. Documented(runtime_events', proc'[p])
    BY <2>2, <2>3 DEF Documented, ChatPc, RunPc
  <2> QED
    BY <2>1, <2>2, <2>4, LogInvStep
<1>3. ASSUME NEW p \in Procs, NEW id \in SessionIds, NEW rowId \in SessionIds,
             ChatOpenNew(p, rowId, id)
      PROVE  LogInv'
  <2>1. Grows /\ OutcomeAfterInput'
    BY <1>3, <1>a, <1>b, UnchangedGrows DEF ChatOpenNew
  <2>2. EntriesBackedByLog'
    BY <1>3, <1>a, CreateStaysLogged DEF ChatOpenNew
  <2>3. /\ proc'[p] = [pc |-> "prompt", sid |-> id, mem |-> <<>>, turn |-> 0]
        /\ \A q \in Procs : q # p => proc'[q] = proc[q]
    BY <1>3, <1>a DEF ChatOpenNew, Become
  <2>4. Documented(runtime_events', proc'[p])
    BY <2>3, NothingLogged DEF Documented, ChatPc, RunPc
  <2> QED
    BY <2>1, <2>2, <2>3, <2>4, LogInvStep
<1>4. ASSUME NEW p \in Procs, ChatClear(p)
      PROVE  LogInv'
  <2>1. Grows /\ OutcomeAfterInput' /\ EntriesBackedByLog'
    BY <1>4, <1>a, <1>b, UnchangedGrows, NothingLogged, UpdateStaysLogged DEF ChatClear
  <2>2. /\ proc'[p] = [pc |-> "prompt", sid |-> proc[p].sid, mem |-> <<>>,
                       turn |-> proc[p].turn]
        /\ \A q \in Procs : q # p => proc'[q] = proc[q]
    BY <1>4, <1>a DEF ChatClear, Become
  <2>3. Documented(runtime_events', proc[p])
    BY <1>a, <2>1, DocumentedStays
  <2>4. Documented(runtime_events', proc'[p])
    BY <1>4, <2>2, <2>3, NothingLogged DEF Documented, ChatClear, At, ChatPc, RunPc
  <2> QED
    BY <2>1, <2>2, <2>4, LogInvStep
<1>5. ASSUME NEW p \in Procs, ChatLine(p)
      PROVE  LogInv'
  <2> DEFINE t == turns + 1
             entries == Append(proc[p].mem, Said(t, "user"))
  <2>1. /\ proc[p].sid \in SessionIds /\ t \in Turn /\ proc[p].mem \in Seq(Entry)
        /\ Said(t, "user") \in Entry
    <3>1. proc[p].sid \in SessionIds /\ proc[p].mem \in Seq(Entry)
      BY <1>5, ProcessType DEF ChatLine, At
    <3>2. t \in Turn
      BY <1>5, MaxTurnsOK DEF ChatLine, NextTurn, Turn, TypeOK
    <3> QED
      BY <3>1, <3>2 DEF Said, Entry
  <2>2. AppendEvent(proc[p].sid, t, "user_message") /\ sessions' = sessions
    BY <1>5 DEF ChatLine
  <2>3. Grows /\ Logged(runtime_events', proc[p].sid, t, "user_message")
    BY <1>a, <2>1, <2>2, AppendGrows
  <2>4. OutcomeAfterInput' /\ EntriesBackedByLog'
    BY <1>a, <2>1, <2>2, <2>3, OutcomeAppend, RowsStayLogged
  <2>5. /\ proc'[p] = [pc |-> "child", sid |-> proc[p].sid, mem |-> entries, turn |-> t]
        /\ \A q \in Procs : q # p => proc'[q] = proc[q]
    BY <1>5, <1>a DEF ChatLine, Become
  <2>6. AllLogged(runtime_events', proc[p].sid, proc[p].mem)
    BY <1>a, <2>3, AllLoggedStays DEF Documented
  <2>7. AllLogged(runtime_events', proc[p].sid, entries)
    BY <2>1, <2>3, <2>6, AllLoggedAppend DEF LogType, Said
  <2> HIDE DEF t, entries
  <2>8. Documented(runtime_events', proc'[p])
    BY <2>3, <2>5, <2>7 DEF Documented
  <2> QED
    BY <2>3, <2>4, <2>5, <2>8, LogInvStep
<1>6. ASSUME NEW p \in Procs, ChatChild(p)
      PROVE  LogInv'
  <2>1. /\ Grows /\ OutcomeAfterInput' /\ EntriesBackedByLog'
        /\ runtime_events' = runtime_events
    BY <1>6, <1>a, <1>b, UnchangedGrows, RowsStayLogged DEF ChatChild, storeVars
  <2>2. /\ proc'[p].pc \in {"reply", "retry", "failing"}
        /\ proc'[p].sid = proc[p].sid /\ proc'[p].mem = proc[p].mem
        /\ proc'[p].turn = proc[p].turn
        /\ \A q \in Procs : q # p => proc'[q] = proc[q]
    BY <1>6, <1>a DEF ChatChild, Goto, Become
  <2>3. Documented(runtime_events', proc'[p])
    BY <1>6, <1>a, <2>1, <2>2 DEF Documented, ChatChild, At, ChatPc, RunPc
  <2> QED
    BY <2>1, <2>2, <2>3, LogInvStep
<1>7. ASSUME NEW p \in Procs, ChatReply(p)
      PROVE  LogInv'
  <2> DEFINE t == proc[p].turn
             entries == Append(proc[p].mem, Said(t, "assistant"))
  <2>1. /\ proc[p].sid \in SessionIds /\ t \in Turn /\ proc[p].mem \in Seq(Entry)
        /\ Said(t, "assistant") \in Entry
        /\ Logged(runtime_events, proc[p].sid, t, "user_message")
    BY <1>7, <1>a, ProcessType DEF ChatReply, At, Said, Entry, Documented, ChatPc
  <2>2. AppendEvent(proc[p].sid, t, "assistant_message") /\ sessions' = sessions
    BY <1>7 DEF ChatReply
  <2>3. /\ Grows /\ Logged(runtime_events', proc[p].sid, t, "assistant_message")
        /\ Logged(runtime_events', proc[p].sid, t, "user_message")
    BY <1>a, <2>1, <2>2, AppendGrows DEF Grows
  <2>4. OutcomeAfterInput' /\ EntriesBackedByLog'
    BY <1>a, <2>1, <2>2, <2>3, OutcomeAppend, RowsStayLogged
  <2>5. /\ proc'[p] = [pc |-> "save", sid |-> proc[p].sid, mem |-> entries, turn |-> t]
        /\ \A q \in Procs : q # p => proc'[q] = proc[q]
    BY <1>7, <1>a DEF ChatReply, Become
  <2>6. AllLogged(runtime_events', proc[p].sid, proc[p].mem)
    BY <1>a, <2>3, AllLoggedStays DEF Documented
  <2>7. AllLogged(runtime_events', proc[p].sid, entries)
    BY <2>1, <2>3, <2>6, AllLoggedAppend DEF LogType, Said
  <2> HIDE DEF t, entries
  <2>8. Documented(runtime_events', proc'[p])
    BY <2>3, <2>5, <2>7 DEF Documented
  <2> QED
    BY <2>3, <2>4, <2>5, <2>8, LogInvStep
<1>8. ASSUME NEW p \in Procs, ChatSave(p)
      PROVE  LogInv'
  <2>1. Documented(runtime_events, proc[p]) /\ runtime_events' = runtime_events
    BY <1>8, <1>a DEF ChatSave
  <2>2. Grows /\ OutcomeAfterInput' /\ EntriesBackedByLog'
    BY <1>8, <1>a, <1>b, <2>1, UnchangedGrows, UpdateStaysLogged DEF ChatSave, Documented
  <2>3. /\ proc'[p] = [pc |-> "prompt", sid |-> proc[p].sid, mem |-> proc[p].mem,
                       turn |-> proc[p].turn]
        /\ \A q \in Procs : q # p => proc'[q] = proc[q]
    BY <1>8, <1>a DEF ChatSave, Goto, Become
  <2>4. Documented(runtime_events', proc'[p])
    BY <1>8, <2>1, <2>3 DEF Documented, ChatSave, At, ChatPc, RunPc
  <2> QED
    BY <2>2, <2>3, <2>4, LogInvStep
<1>9. ASSUME NEW p \in Procs, ChatThrows(p)
      PROVE  LogInv'
  <2>1. /\ proc[p].sid \in SessionIds /\ proc[p].turn \in Turn
        /\ Logged(runtime_events, proc[p].sid, proc[p].turn, "user_message")
    BY <1>9, <1>a, ProcessType DEF ChatThrows, At, Documented, ChatPc
  <2>2. /\ sessions' = sessions
        /\ \/ AppendEvent(proc[p].sid, proc[p].turn, "assistant_message")
           \/ runtime_events' = runtime_events
    BY <1>9 DEF ChatThrows
  <2>3. Grows /\ OutcomeAfterInput'
    BY <1>a, <1>b, <2>1, <2>2, AppendGrows, UnchangedGrows, OutcomeAppend
  <2>4. /\ proc'[p] = [pc |-> "failing", sid |-> proc[p].sid, mem |-> proc[p].mem,
                       turn |-> proc[p].turn]
        /\ \A q \in Procs : q # p => proc'[q] = proc[q]
    BY <1>9, <1>a DEF ChatThrows, Goto, Become
  <2>5. Documented(runtime_events', proc[p])
    BY <1>a, <2>3, DocumentedStays
  <2>6. Documented(runtime_events', proc'[p])
    BY <1>9, <2>4, <2>5 DEF Documented, ChatThrows, At, ChatPc, RunPc
  <2> QED
    BY <1>a, <2>2, <2>3, <2>4, <2>6, RowsStayLogged, LogInvStep
<1>10. ASSUME NEW p \in Procs, ChatError(p)
       PROVE  LogInv'
  <2>1. /\ proc[p].sid \in SessionIds /\ proc[p].turn \in Turn
        /\ Logged(runtime_events, proc[p].sid, proc[p].turn, "user_message")
    BY <1>10, <1>a, ProcessType DEF ChatError, At, Documented, ChatPc
  <2>2. sessions' = sessions /\ AppendEvent(proc[p].sid, proc[p].turn, "error")
    BY <1>10 DEF ChatError
  <2>3. /\ Grows /\ OutcomeAfterInput'
        /\ Logged(runtime_events', proc[p].sid, proc[p].turn, "error")
    BY <1>a, <2>1, <2>2, AppendGrows, OutcomeAppend
  <2>4. /\ proc'[p] = [pc |-> "prompt", sid |-> proc[p].sid, mem |-> proc[p].mem,
                       turn |-> proc[p].turn]
        /\ \A q \in Procs : q # p => proc'[q] = proc[q]
    BY <1>10, <1>a DEF ChatError, Goto, Become
  <2>5. Documented(runtime_events', proc[p])
    BY <1>a, <2>3, DocumentedStays
  <2>6. Documented(runtime_events', proc'[p])
    BY <2>3, <2>4, <2>5 DEF Documented, ChatPc, RunPc
  <2> QED
    BY <1>a, <2>2, <2>3, <2>4, <2>6, RowsStayLogged, LogInvStep
<1>11. ASSUME NEW p \in Procs, NEW id \in SessionIds, RunStart(p, id)
       PROVE  LogInv'
  <2> DEFINE context == IF id \in DOMAIN sessions THEN sessions[id] ELSE <<>>
  <2>1. /\ Grows /\ OutcomeAfterInput' /\ EntriesBackedByLog'
        /\ runtime_events' = runtime_events
    BY <1>11, <1>a, <1>b, UnchangedGrows, RowsStayLogged DEF RunStart, storeVars
  <2>2. AllLogged(runtime_events, id, context)
    BY <1>a, NothingLogged DEF EntriesBackedByLog
  <2>3. /\ proc'[p] = [pc |-> "agent", sid |-> id, mem |-> context, turn |-> turns + 1]
        /\ \A q \in Procs : q # p => proc'[q] = proc[q]
    BY <1>11, <1>a DEF RunStart, Become
  <2> HIDE DEF context
  <2>4. Documented(runtime_events', proc'[p])
    BY <2>1, <2>2, <2>3 DEF Documented, ChatPc, RunPc
  <2> QED
    BY <2>1, <2>3, <2>4, LogInvStep
<1>12. ASSUME NEW p \in Procs, RunLogPrompt(p)
       PROVE  LogInv'
  <2>1. proc[p].sid \in SessionIds /\ proc[p].turn \in Turn
    BY <1>12, ProcessType DEF RunLogPrompt, At
  <2>2. sessions' = sessions /\ AppendEvent(proc[p].sid, proc[p].turn, "user_message")
    BY <1>12 DEF RunLogPrompt
  <2>3. /\ Grows /\ OutcomeAfterInput'
        /\ Logged(runtime_events', proc[p].sid, proc[p].turn, "user_message")
    BY <1>a, <2>1, <2>2, AppendGrows, OutcomeAppend
  <2>4. /\ proc'[p] = [pc |-> "logReply", sid |-> proc[p].sid, mem |-> proc[p].mem,
                       turn |-> proc[p].turn]
        /\ \A q \in Procs : q # p => proc'[q] = proc[q]
    BY <1>12, <1>a DEF RunLogPrompt, Goto, Become
  <2>5. Documented(runtime_events', proc[p])
    BY <1>a, <2>3, DocumentedStays
  <2>6. Documented(runtime_events', proc'[p])
    BY <2>3, <2>4, <2>5 DEF Documented, ChatPc, RunPc
  <2> QED
    BY <1>a, <2>2, <2>3, <2>4, <2>6, RowsStayLogged, LogInvStep
<1>13. ASSUME NEW p \in Procs, RunLogReply(p)
       PROVE  LogInv'
  <2>1. /\ proc[p].sid \in SessionIds /\ proc[p].turn \in Turn
        /\ Logged(runtime_events, proc[p].sid, proc[p].turn, "user_message")
    BY <1>13, <1>a, ProcessType DEF RunLogReply, At, Documented, RunPc
  <2>2. sessions' = sessions /\ AppendEvent(proc[p].sid, proc[p].turn, "assistant_message")
    BY <1>13 DEF RunLogReply
  <2>3. /\ Grows /\ OutcomeAfterInput'
        /\ Logged(runtime_events', proc[p].sid, proc[p].turn, "assistant_message")
        /\ Logged(runtime_events', proc[p].sid, proc[p].turn, "user_message")
    BY <1>a, <2>1, <2>2, AppendGrows, OutcomeAppend DEF Grows
  <2>4. /\ proc'[p] = [pc |-> "load", sid |-> proc[p].sid, mem |-> proc[p].mem,
                       turn |-> proc[p].turn]
        /\ \A q \in Procs : q # p => proc'[q] = proc[q]
    BY <1>13, <1>a DEF RunLogReply, Goto, Become
  <2>5. Documented(runtime_events', proc[p])
    BY <1>a, <2>3, DocumentedStays
  <2>6. Documented(runtime_events', proc'[p])
    BY <2>3, <2>4, <2>5 DEF Documented, ChatPc, RunPc
  <2> QED
    BY <1>a, <2>2, <2>3, <2>4, <2>6, RowsStayLogged, LogInvStep
<1>14. ASSUME NEW p \in Procs, RunLoad(p)
       PROVE  LogInv'
  <2> DEFINE t == proc[p].turn
             row == sessions[proc[p].sid]
             entries == Append(Append(row, Said(t, "user")), Said(t, "assistant"))
  <2>1. /\ Grows /\ OutcomeAfterInput' /\ EntriesBackedByLog'
        /\ runtime_events' = runtime_events
    BY <1>14, <1>a, <1>b, UnchangedGrows, RowsStayLogged DEF RunLoad, storeVars
  <2>2. /\ Logged(runtime_events, proc[p].sid, t, "user_message")
        /\ Logged(runtime_events, proc[p].sid, t, "assistant_message")
        /\ Said(t, "user") \in Entry /\ Said(t, "assistant") \in Entry
    BY <1>14, <1>a, ProcessType DEF RunLoad, At, Documented, RunPc, Said, Entry
  <2>3. CASE proc[p].sid \in DOMAIN sessions
    <3>1. row \in Seq(Entry) /\ AllLogged(runtime_events, proc[p].sid, row)
      BY <1>a, <2>3 DEF TypeOK, StoreTypeOK, EntriesBackedByLog
    <3>2. /\ Append(row, Said(t, "user")) \in Seq(Entry)
          /\ AllLogged(runtime_events, proc[p].sid, Append(row, Said(t, "user")))
      BY <2>2, <3>1, AllLoggedAppend DEF LogType, Said
    <3>3. AllLogged(runtime_events, proc[p].sid, entries)
      BY <2>2, <3>2, AllLoggedAppend DEF LogType, Said
    <3>4. /\ proc'[p] = [pc |-> "runSave", sid |-> proc[p].sid, mem |-> entries, turn |-> t]
          /\ \A q \in Procs : q # p => proc'[q] = proc[q]
      BY <1>14, <1>a, <2>3 DEF RunLoad, Become
    <3> HIDE DEF t, row, entries
    <3>5. Documented(runtime_events', proc'[p])
      BY <2>1, <2>2, <3>3, <3>4 DEF Documented
    <3> QED
      BY <2>1, <3>4, <3>5, LogInvStep
  <2>4. CASE proc[p].sid \notin DOMAIN sessions
    BY <1>14, <1>a, <2>1, <2>4, ExitLogInv DEF RunLoad
  <2> QED
    BY <2>3, <2>4
<1>15. ASSUME NEW p \in Procs, RunSave(p)
       PROVE  LogInv'
  <2>1. Documented(runtime_events, proc[p]) /\ runtime_events' = runtime_events
    BY <1>15, <1>a DEF RunSave
  <2>2. Grows /\ OutcomeAfterInput' /\ EntriesBackedByLog'
    BY <1>15, <1>a, <1>b, <2>1, UnchangedGrows, UpdateStaysLogged DEF RunSave, Documented
  <2> QED
    BY <1>15, <1>a, <2>2, ExitLogInv DEF RunSave
<1>16. ASSUME NEW p \in Procs, NEW id \in SessionIds, SqliteNew(p, id)
       PROVE  LogInv'
  <2>1. EntriesBackedByLog' /\ OutcomeAfterInput'
    BY <1>16, <1>a, <1>b, CreateStaysLogged DEF SqliteNew
  <2> QED
    BY <1>16, <1>a, <2>1 DEF LogInv, SqliteNew
<1>17. ASSUME NEW p \in Procs, NEW id \in SessionIds, SqliteRm(p, id)
       PROVE  LogInv'
  <2>1. EntriesBackedByLog' /\ OutcomeAfterInput'
    BY <1>17, <1>a, <1>b DEF SqliteRm, DeleteSession, EntriesBackedByLog
  <2> QED
    BY <1>17, <1>a, <2>1 DEF LogInv, SqliteRm
<1>18. ASSUME NEW p \in Procs, Crash(p)
       PROVE  LogInv'
  <2>1. Grows /\ OutcomeAfterInput' /\ EntriesBackedByLog'
    BY <1>18, <1>a, <1>b, UnchangedGrows, RowsStayLogged DEF Crash, storeVars
  <2> QED
    BY <1>18, <1>a, <2>1, ExitLogInv DEF Crash
<1> QED
  BY <1>1, <1>2, <1>3, <1>4, <1>5, <1>6, <1>7, <1>8, <1>9, <1>10, <1>11, <1>12,
     <1>13, <1>14, <1>15, <1>16, <1>17, <1>18 DEF Next, Step, UserStep

LEMMA InitLogInv == Init => LogInv
  BY DEF Init, StoreInit, LogInv, EntriesBackedByLog, OutcomeAfterInput, Documented,
     AllLogged, NoProcess, ChatPc, RunPc

LEMMA LogCorrect == Spec => []LogInv
<1> QED
  BY InitTypeOK, StepTypeOK, InitLogInv, StepLogInv, PTL DEF Spec

\* Whatever a session row shows was logged first, whichever processes crash,
\* fail or overwrite each other's rows (celld-session-storage.ts: a row is
\* overwritten as a whole from a copy in memory).
THEOREM RowsBackedByLog == Spec => []EntriesBackedByLog
<1> QED
  BY LogCorrect, PTL DEF LogInv

\* The log never answers, or reports the failure of, an input it has not
\* recorded.
THEOREM OutcomesFollowInputs == Spec => []OutcomeAfterInput
<1> QED
  BY LogCorrect, PTL DEF LogInv

\* A chat that prompts again has logged what became of its last input.
THEOREM FailuresAreLogged == Spec => []NoSilentFailure
<1>1. LogInv => NoSilentFailure
  BY DEF LogInv, Documented, NoSilentFailure, TurnClosed, At
<1> QED
  BY <1>1, LogCorrect, PTL

-----------------------------------------------------------------------------
(* Removal *)

\* A removed session gets no row again: rows are only ever inserted under ids
\* genId has just made, and an UPDATE inserts none.
THEOREM RemovedStaysRemoved == Spec => NoResurrection
<1> DEFINE Stays == \A id \in issued : id \notin DOMAIN sessions => id \notin DOMAIN sessions'
<1>1. [Next]_vars => Stays
  <2> SUFFICES ASSUME [Next]_vars
               PROVE  Stays
    OBVIOUS
  <2>1. CASE sessions' = sessions
    BY <2>1
  <2>2. ASSUME NEW id, NEW entries, UpdateSession(id, entries)
        PROVE  Stays
    BY <2>2 DEF UpdateSession
  <2>3. ASSUME NEW id, CreateSession(id)
        PROVE  Stays
    BY <2>3 DEF CreateSession
  <2>4. ASSUME NEW id, DeleteSession(id)
        PROVE  Stays
    BY <2>4 DEF DeleteSession
  <2>5. \/ sessions' = sessions
        \/ \E id, entries : UpdateSession(id, entries)
        \/ \E id : CreateSession(id) \/ DeleteSession(id)
    <3>1. CASE UNCHANGED vars
      BY <3>1 DEF vars
    <3>2. ASSUME NEW p \in Procs, Step(p)
          PROVE  \/ sessions' = sessions
                 \/ \E id, entries : UpdateSession(id, entries)
      BY <3>2 DEF Step, ChatChild, ChatReply, ChatSave, ChatThrows, ChatError,
         RunLogPrompt, RunLogReply, RunLoad, RunSave, storeVars
    <3>3. ASSUME NEW p \in Procs, UserStep(p)
          PROVE  \/ sessions' = sessions
                 \/ \E id, entries : UpdateSession(id, entries)
                 \/ \E id : CreateSession(id) \/ DeleteSession(id)
      BY <3>3 DEF UserStep, ChatOpen, ChatOpenNew, ChatClear, ChatLine, RunStart,
         SqliteNew, SqliteRm, Crash, storeVars
    <3> QED
      BY <3>1, <3>2, <3>3 DEF Next
  <2> HIDE DEF Stays
  <2> QED
    BY <2>1, <2>2, <2>3, <2>4, <2>5
<1>2. [Next]_vars => [Stays]_vars
  BY <1>1
<1> QED
  BY <1>2, PTL DEF Spec, NoResurrection
=============================================================================
