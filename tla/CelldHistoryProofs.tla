------------------------- MODULE CelldHistoryProofs -------------------------
(***************************************************************************)
(* More theorems about CelldSessions, for any number of processes, session *)
(* ids and inputs: the event log is written once, and every row reads as a *)
(* conversation.  Both rest on the fact that no two processes ever work on *)
(* the same input.  The last two are about a store that one process uses   *)
(* at a time: the row holds what the chat shows, and its history grows.    *)
(***************************************************************************)
EXTENDS CelldSessionsProofs, SequenceTheorems

-----------------------------------------------------------------------------
(* Nothing is logged twice *)

\* The log holds an event of this type for input t, of whatever session.
Noted(log, t, type) == \E i \in 1..Len(log) : log[i].turn = t /\ log[i].type = type

\* What a process at this label has still to log for input t is not there.
Unlogged(log, label, t) ==
  /\ label = "agent" => ~Noted(log, t, "user_message")
  /\ label \in {"child", "retry", "reply", "agent", "logReply"} =>
       ~Noted(log, t, "assistant_message")
  /\ label \in {"child", "retry", "reply", "save", "failing"} =>
       ~Noted(log, t, "error")

OnceInv ==
  /\ \A i \in 1..Len(runtime_events) : runtime_events[i].turn <= turns
  /\ \A p, q \in Procs : p # q /\ proc[p].turn # 0 => proc[p].turn # proc[q].turn
  /\ \A p \in Procs : Unlogged(runtime_events, proc[p].pc, proc[p].turn)

LEMMA NotedAppend ==
  ASSUME runtime_events \in Seq(Event), NEW id \in SessionIds, NEW t \in Turn,
         NEW type \in {"user_message", "assistant_message", "error"},
         AppendEvent(id, t, type)
  PROVE  /\ \A s, ty : Noted(runtime_events', s, ty) =>
              Noted(runtime_events, s, ty) \/ (s = t /\ ty = type)
         /\ \A n \in Nat : t <= n /\ (\A i \in 1..Len(runtime_events) :
                                        runtime_events[i].turn <= n)
              => \A i \in 1..Len(runtime_events') : runtime_events'[i].turn <= n
<1> DEFINE e == [sid |-> id, turn |-> t, type |-> type]
           n == Len(runtime_events)
<1>1. runtime_events' = Append(runtime_events, e) /\ e \in Event /\ n \in Nat
  BY DEF AppendEvent, Event
<1>2. /\ Len(runtime_events') = n + 1
      /\ runtime_events'[n + 1] = e
      /\ \A i \in 1..n : runtime_events'[i] = runtime_events[i]
  BY <1>1
<1>3. e.turn = t /\ e.type = type
  OBVIOUS
<1>4. \A i \in 1..(n + 1) : i \in 1..n \/ i = n + 1
  BY <1>1
<1> HIDE DEF e
<1> QED
  BY <1>2, <1>3, <1>4 DEF Noted

LEMMA EventTurns ==
  ASSUME TypeOK
  PROVE  /\ turns \in Nat /\ runtime_events \in Seq(Event)
         /\ \A i \in 1..Len(runtime_events) : runtime_events[i].turn \in Nat
         /\ \A q \in Procs : proc[q].turn \in Nat /\ proc[q].turn <= turns
<1>1. runtime_events \in Seq(Event) /\ turns \in Nat
  BY MaxTurnsOK DEF TypeOK, StoreTypeOK
<1>2. \A e \in Event : e.turn \in Nat
  BY MaxTurnsOK DEF Event, Turn
<1>3. \A q \in Procs : proc[q].turn \in Nat /\ proc[q].turn <= turns
  BY ProcessType, MaxTurnsOK DEF TypeOK
<1> QED
  BY <1>1, <1>2, <1>3

\* The events of input t are none of a process that works on another one.
LEMMA UnloggedStays ==
  ASSUME NEW label, NEW r, NEW t, NEW type, r # t, Unlogged(runtime_events, label, r),
         \A s, ty : Noted(runtime_events', s, ty) =>
           Noted(runtime_events, s, ty) \/ (s = t /\ ty = type)
  PROVE  Unlogged(runtime_events', label, r)
  BY DEF Unlogged

\* A step of p that logs nothing.
LEMMA OnceQuiet ==
  ASSUME TypeOK, OnceInv, NEW p \in Procs, NEW label, NEW id, NEW entries, NEW t,
         Become(p, label, id, entries, t), runtime_events' = runtime_events,
         \/ t \in {0, proc[p].turn} /\ turns' = turns
         \/ t = turns + 1 /\ turns' = turns + 1,
         Unlogged(runtime_events, label, t)
  PROVE  OnceInv'
<1>0. /\ proc'[p].pc = label /\ proc'[p].turn = t
      /\ \A q \in Procs : q # p => proc'[q] = proc[q]
  BY DEF TypeOK, Become
<1>1. \A q \in Procs : proc[q].turn \in Nat /\ proc[q].turn <= turns
  BY EventTurns
<1>2. \A i \in 1..Len(runtime_events') : runtime_events'[i].turn <= turns'
  BY EventTurns DEF OnceInv
<1>3. \A q, r \in Procs : q # r /\ proc'[q].turn # 0 => proc'[q].turn # proc'[r].turn
  BY <1>0, <1>1, EventTurns DEF OnceInv
<1>4. \A q \in Procs : Unlogged(runtime_events', proc'[q].pc, proc'[q].turn)
  BY <1>0 DEF OnceInv
<1> QED
  BY <1>2, <1>3, <1>4 DEF OnceInv

\* A step of p that logs something of its own input.
LEMMA OnceAppend ==
  ASSUME TypeOK, OnceInv, NEW p \in Procs, NEW id \in SessionIds, NEW t \in Turn,
         NEW type \in {"user_message", "assistant_message", "error"},
         AppendEvent(id, t, type),
         \/ t = proc[p].turn /\ turns' = turns
         \/ t = turns + 1 /\ turns' = turns + 1,
         NEW label, NEW entries, Become(p, label, id, entries, t),
         Unlogged(runtime_events', label, t)
  PROVE  OnceInv'
<1>0. t \in Nat /\ t # 0
  BY MaxTurnsOK DEF Turn
<1>b. /\ proc'[p].pc = label /\ proc'[p].turn = t
      /\ \A q \in Procs : q # p => proc'[q] = proc[q]
  BY DEF TypeOK, Become
<1>1. turns \in Nat /\ \A q \in Procs : proc[q].turn \in Nat /\ proc[q].turn <= turns
  BY EventTurns
<1>2. /\ \A i \in 1..Len(runtime_events) : runtime_events[i].turn \in Nat
      /\ runtime_events \in Seq(Event)
  BY EventTurns
<1>3. \A q \in Procs : q # p => proc[q].turn # t
  BY <1>0, <1>1 DEF OnceInv
<1>4. \A i \in 1..Len(runtime_events') : runtime_events'[i].turn <= turns'
  <2>1. turns' \in Nat /\ turns <= turns' /\ t <= turns'
    BY <1>0, <1>1
  <2>2. \A i \in 1..Len(runtime_events) : runtime_events[i].turn <= turns'
    BY <1>1, <1>2, <2>1 DEF OnceInv
  <2> QED
    BY <1>2, <2>1, <2>2, NotedAppend
<1>5. \A q, r \in Procs : q # r /\ proc'[q].turn # 0 => proc'[q].turn # proc'[r].turn
  BY <1>0, <1>b, <1>3 DEF OnceInv
<1>6. ASSUME NEW q \in Procs
      PROVE  Unlogged(runtime_events', proc'[q].pc, proc'[q].turn)
  <2>1. CASE q = p
    BY <1>b, <2>1
  <2>2. CASE q # p
    <3>1. \A s, ty : Noted(runtime_events', s, ty) =>
            Noted(runtime_events, s, ty) \/ (s = t /\ ty = type)
      BY <1>2, NotedAppend
    <3>2. Unlogged(runtime_events, proc[q].pc, proc[q].turn) /\ proc[q].turn # t /\ proc'[q] = proc[q]
      BY <1>b, <1>3, <2>2 DEF OnceInv
    <3> QED
      BY <3>1, <3>2, UnloggedStays
  <2> QED
    BY <2>1, <2>2
<1> QED
  BY <1>4, <1>5, <1>6 DEF OnceInv

\* The abstract log takes an event that was not there.
LEMMA AppendRecords ==
  ASSUME NEW id \in SessionIds, NEW t \in Turn,
         NEW type \in {"user_message", "assistant_message", "error"},
         AppendEvent(id, t, type), ~Noted(runtime_events, t, type)
  PROVE  Log!Next
<1> DEFINE e == [sid |-> id, turn |-> t, type |-> type]
<1>1. e \in Event /\ runtime_events' = Append(runtime_events, e)
  BY DEF AppendEvent, Event
<1>2. \A i \in 1..Len(runtime_events) : runtime_events[i] # e
  BY DEF Noted
<1> HIDE DEF e
<1> QED
  BY <1>1, <1>2 DEF Log!Next, Log!Record

\* Nothing is logged yet about the next input.
LEMMA NextUnnoted ==
  ASSUME TypeOK, OnceInv
  PROVE  /\ \A type : ~Noted(runtime_events, turns + 1, type)
         /\ \A label : Unlogged(runtime_events, label, turns + 1)
<1>1. \A type : ~Noted(runtime_events, turns + 1, type)
  BY EventTurns DEF OnceInv, Noted
<1> QED
  BY <1>1 DEF Unlogged

\* Every step keeps OnceInv and is a step, or a stutter, of the abstract log.
LEMMA StepOnceInv ==
  TypeOK /\ OnceInv /\ [Next]_vars =>
    OnceInv' /\ (Log!Next \/ runtime_events' = runtime_events)
<1> SUFFICES ASSUME TypeOK, OnceInv, [Next]_vars
             PROVE  OnceInv' /\ (Log!Next \/ runtime_events' = runtime_events)
  OBVIOUS
<1> DEFINE Goal == OnceInv' /\ (Log!Next \/ runtime_events' = runtime_events)
<1>a. \A label \in {"none", "prompt", "load", "runSave"} :
        \A t : Unlogged(runtime_events, label, t) /\ Unlogged(runtime_events', label, t)
  BY DEF Unlogged
<1>b. runtime_events \in Seq(Event) /\ turns \in Nat
  BY EventTurns
<1>1. CASE UNCHANGED vars
  BY <1>1 DEF vars, OnceInv
<1>2. ASSUME NEW p \in Procs, NEW id \in SessionIds, ChatOpen(p, id)
      PROVE  Goal
  BY <1>2, <1>a, OnceQuiet DEF ChatOpen, storeVars
<1>3. ASSUME NEW p \in Procs, NEW id \in SessionIds, NEW rowId \in SessionIds,
             ChatOpenNew(p, rowId, id)
      PROVE  Goal
  BY <1>3, <1>a, OnceQuiet DEF ChatOpenNew
<1>4. ASSUME NEW p \in Procs, ChatClear(p)
      PROVE  Goal
  BY <1>4, <1>a, OnceQuiet DEF ChatClear
<1>5. ASSUME NEW p \in Procs, ChatLine(p)
      PROVE  Goal
  <2> DEFINE t == turns + 1
  <2>1. /\ AppendEvent(proc[p].sid, t, "user_message") /\ turns' = turns + 1
        /\ Become(p, "child", proc[p].sid, Append(proc[p].mem, Said(t, "user")), t)
    BY <1>5 DEF ChatLine, NextTurn
  <2>2. proc[p].sid \in SessionIds /\ t \in Turn
    BY <1>5, ProcessType, MaxTurnsOK DEF ChatLine, At, NextTurn, Turn, TypeOK
  <2>3. Unlogged(runtime_events', "child", t)
    BY <1>b, <2>1, <2>2, NextUnnoted, NotedAppend DEF Unlogged
  <2>4. ~Noted(runtime_events, t, "user_message")
    BY NextUnnoted
  <2> HIDE DEF t
  <2>5. Log!Next
    BY <2>1, <2>2, <2>4, AppendRecords
  <2>6. t = turns + 1
    BY DEF t
  <2> QED
    BY <2>1, <2>2, <2>3, <2>5, <2>6, OnceAppend
<1>6. ASSUME NEW p \in Procs, ChatChild(p)
      PROVE  Goal
  <2>1. PICK label \in {"reply", "retry", "failing"} : Goto(p, label)
    BY <1>6 DEF ChatChild
  <2>2. Unlogged(runtime_events, label, proc[p].turn)
    BY <1>6 DEF ChatChild, At, OnceInv, Unlogged
  <2> QED
    BY <1>6, <2>1, <2>2, OnceQuiet DEF ChatChild, Goto, storeVars
<1>7. ASSUME NEW p \in Procs, ChatReply(p)
      PROVE  Goal
  <2> DEFINE t == proc[p].turn
  <2>1. /\ AppendEvent(proc[p].sid, t, "assistant_message") /\ turns' = turns
        /\ Become(p, "save", proc[p].sid, Append(proc[p].mem, Said(t, "assistant")), t)
    BY <1>7 DEF ChatReply
  <2>2. proc[p].sid \in SessionIds /\ t \in Turn
    BY <1>7, ProcessType DEF ChatReply, At
  <2>3. /\ ~Noted(runtime_events, t, "assistant_message")
        /\ ~Noted(runtime_events, t, "error")
    BY <1>7 DEF ChatReply, At, OnceInv, Unlogged
  <2>4. Unlogged(runtime_events', "save", t)
    BY <1>b, <2>1, <2>2, <2>3, NotedAppend DEF Unlogged
  <2> HIDE DEF t
  <2>5. Log!Next
    BY <2>1, <2>2, <2>3, AppendRecords
  <2>6. t = proc[p].turn
    BY DEF t
  <2> QED
    BY <2>1, <2>2, <2>4, <2>5, <2>6, OnceAppend
<1>8. ASSUME NEW p \in Procs, ChatSave(p)
      PROVE  Goal
  BY <1>8, <1>a, OnceQuiet DEF ChatSave, Goto
<1>9. ASSUME NEW p \in Procs, ChatThrows(p)
      PROVE  Goal
  <2> DEFINE t == proc[p].turn
  <2>1. Become(p, "failing", proc[p].sid, proc[p].mem, t) /\ turns' = turns
    BY <1>9 DEF ChatThrows, Goto
  <2>2. proc[p].sid \in SessionIds /\ t \in Turn
    BY <1>9, ProcessType DEF ChatThrows, At
  <2>3. ~Noted(runtime_events, t, "error")
    BY <1>9 DEF ChatThrows, At, OnceInv, Unlogged
  <2>4. CASE At(p, "reply") /\ AppendEvent(proc[p].sid, t, "assistant_message")
    <3>1. ~Noted(runtime_events, t, "assistant_message")
      BY <2>4 DEF At, OnceInv, Unlogged
    <3>2. Unlogged(runtime_events', "failing", t)
      BY <1>b, <2>2, <2>3, <2>4, NotedAppend DEF Unlogged
    <3>3. t = proc[p].turn
      OBVIOUS
    <3> HIDE DEF t
    <3>4. Log!Next
      BY <2>2, <2>4, <3>1, AppendRecords
    <3> QED
      BY <2>1, <2>2, <2>4, <3>2, <3>3, <3>4, OnceAppend
  <2>5. CASE runtime_events' = runtime_events
    <3>1. Unlogged(runtime_events, "failing", t) /\ t = proc[p].turn
      BY <2>3 DEF Unlogged
    <3> HIDE DEF t
    <3> QED
      BY <2>1, <2>5, <3>1, OnceQuiet
  <2> QED
    BY <1>9, <2>4, <2>5 DEF ChatThrows
<1>10. ASSUME NEW p \in Procs, ChatError(p)
       PROVE  Goal
  <2> DEFINE t == proc[p].turn
  <2>1. /\ AppendEvent(proc[p].sid, t, "error") /\ turns' = turns
        /\ Become(p, "prompt", proc[p].sid, proc[p].mem, t)
    BY <1>10 DEF ChatError, Goto
  <2>2. proc[p].sid \in SessionIds /\ t \in Turn
    BY <1>10, ProcessType DEF ChatError, At
  <2>3. ~Noted(runtime_events, t, "error") /\ t = proc[p].turn
    BY <1>10 DEF ChatError, At, OnceInv, Unlogged
  <2>4. Unlogged(runtime_events', "prompt", t)
    BY <1>a
  <2> HIDE DEF t
  <2>5. Log!Next
    BY <2>1, <2>2, <2>3, AppendRecords
  <2> QED
    BY <2>1, <2>2, <2>3, <2>4, <2>5, OnceAppend
<1>11. ASSUME NEW p \in Procs, NEW id \in SessionIds, RunStart(p, id)
       PROVE  Goal
  <2>1. /\ runtime_events' = runtime_events /\ turns' = turns + 1
        /\ \E entries : Become(p, "agent", id, entries, turns + 1)
    BY <1>11 DEF RunStart, NextTurn, storeVars
  <2> QED
    BY <2>1, NextUnnoted, OnceQuiet
<1>12. ASSUME NEW p \in Procs, RunLogPrompt(p)
       PROVE  Goal
  <2> DEFINE t == proc[p].turn
  <2>1. /\ AppendEvent(proc[p].sid, t, "user_message") /\ turns' = turns
        /\ Become(p, "logReply", proc[p].sid, proc[p].mem, t)
    BY <1>12 DEF RunLogPrompt, Goto
  <2>2. proc[p].sid \in SessionIds /\ t \in Turn
    BY <1>12, ProcessType DEF RunLogPrompt, At
  <2>3. /\ ~Noted(runtime_events, t, "user_message") /\ t = proc[p].turn
        /\ ~Noted(runtime_events, t, "assistant_message")
    BY <1>12 DEF RunLogPrompt, At, OnceInv, Unlogged
  <2>4. Unlogged(runtime_events', "logReply", t)
    BY <1>b, <2>1, <2>2, <2>3, NotedAppend DEF Unlogged
  <2> HIDE DEF t
  <2>5. Log!Next
    BY <2>1, <2>2, <2>3, AppendRecords
  <2> QED
    BY <2>1, <2>2, <2>3, <2>4, <2>5, OnceAppend
<1>13. ASSUME NEW p \in Procs, RunLogReply(p)
       PROVE  Goal
  <2> DEFINE t == proc[p].turn
  <2>1. /\ AppendEvent(proc[p].sid, t, "assistant_message") /\ turns' = turns
        /\ Become(p, "load", proc[p].sid, proc[p].mem, t)
    BY <1>13 DEF RunLogReply, Goto
  <2>2. proc[p].sid \in SessionIds /\ t \in Turn
    BY <1>13, ProcessType DEF RunLogReply, At
  <2>3. ~Noted(runtime_events, t, "assistant_message") /\ t = proc[p].turn
    BY <1>13 DEF RunLogReply, At, OnceInv, Unlogged
  <2>4. Unlogged(runtime_events', "load", t)
    BY <1>a
  <2> HIDE DEF t
  <2>5. Log!Next
    BY <2>1, <2>2, <2>3, AppendRecords
  <2> QED
    BY <2>1, <2>2, <2>3, <2>4, <2>5, OnceAppend
<1>14. ASSUME NEW p \in Procs, RunLoad(p)
       PROVE  Goal
  <2>1. /\ \E label \in {"none", "runSave"} : \E id, entries : \E t \in {0, proc[p].turn} :
             Become(p, label, id, entries, t)
        /\ runtime_events' = runtime_events /\ turns' = turns
    BY <1>14 DEF RunLoad, Exit, storeVars
  <2> QED
    BY <1>a, <2>1, OnceQuiet
<1>15. ASSUME NEW p \in Procs, RunSave(p)
       PROVE  Goal
  BY <1>15, <1>a, OnceQuiet DEF RunSave, Exit
<1>16. ASSUME NEW p \in Procs, NEW id \in SessionIds, SqliteNew(p, id) \/ SqliteRm(p, id)
       PROVE  Goal
  BY <1>16 DEF SqliteNew, SqliteRm, OnceInv
<1>17. ASSUME NEW p \in Procs, Crash(p)
       PROVE  Goal
  BY <1>17, <1>a, OnceQuiet DEF Crash, Exit, storeVars
<1> QED
  BY <1>1, <1>2, <1>3, <1>4, <1>5, <1>6, <1>7, <1>8, <1>9, <1>10, <1>11, <1>12,
     <1>13, <1>14, <1>15, <1>16, <1>17 DEF Next, Step, UserStep

LEMMA InitOnceInv == Init => OnceInv
  BY DEF Init, StoreInit, OnceInv, NoProcess, Unlogged

LEMMA OnceCorrect == Spec => []OnceInv
<1>1. TypeOK /\ OnceInv /\ [Next]_vars => OnceInv'
  BY StepOnceInv
<1> QED
  BY <1>1, InitTypeOK, StepTypeOK, InitOnceInv, PTL DEF Spec

\* The event log of any number of commands, with their retries, failing
\* statements and crashes, is a write-once log: celld-session-storage.ts only
\* ever inserts events, and no command records one of them twice.
THEOREM LogIsWrittenOnce == Spec => WriteOnceLog
<1>1. Init => Log!Init
  BY DEF Init, StoreInit, Log!Init
<1>2. TypeOK /\ OnceInv /\ [Next]_vars => [Log!Next]_runtime_events
  BY StepOnceInv
<1> QED
  BY <1>1, <1>2, TypeCorrect, OnceCorrect, PTL DEF Spec, WriteOnceLog, Log!Spec

-----------------------------------------------------------------------------
(* Every row reads as a conversation *)

\* A run at one of these labels has an input that no row and no copy shows.
UnsavedPc == {"agent", "logReply", "load"}

Unsaved(procs, p) == procs[p].pc \in UnsavedPc

\* A conversation about inputs up to n, none of them unsaved.
Sound(procs, n, entries) ==
  /\ Conversation(entries)
  /\ \A i \in 1..Len(entries) : entries[i].turn <= n
  /\ \A p \in Procs : Unsaved(procs, p) =>
       \A i \in 1..Len(entries) : entries[i].turn # procs[p].turn

\* A chat that waits for an answer has just pushed its input.
AwaitsAnswer(label, entries, t) ==
  label \in {"child", "retry", "reply"} =>
    entries # <<>> /\ entries[Len(entries)] = Said(t, "user")

HistoryInv ==
  /\ \A id \in DOMAIN sessions : Sound(proc, turns, sessions[id])
  /\ \A p \in Procs : Sound(proc, turns, proc[p].mem)
  /\ \A p \in Procs : AwaitsAnswer(proc[p].pc, proc[p].mem, proc[p].turn)

\* A step turns up with an unsaved input only if it is a new one.
UnsavedStays ==
  \A p \in Procs : Unsaved(proc', p) =>
    \/ Unsaved(proc, p) /\ proc'[p].turn = proc[p].turn
    \/ proc'[p].turn = turns + 1

\* Each row is what it was, or new, or overwritten with these entries.
RowsFrom(entries) ==
  \A id \in DOMAIN sessions' :
    \/ sessions'[id] \in {<<>>, entries}
    \/ id \in DOMAIN sessions /\ sessions'[id] = sessions[id]

LEMMA SoundStays ==
  ASSUME TypeOK, turns' \in {turns, turns + 1}, UnsavedStays,
         NEW entries \in Seq(Entry), Sound(proc, turns, entries)
  PROVE  Sound(proc', turns', entries)
<1>0. \A e \in Entry : e.turn \in Nat
  BY MaxTurnsOK DEF Entry, Turn
<1>1. turns \in Nat /\ \A i \in 1..Len(entries) : entries[i].turn \in Nat
  BY <1>0, EventTurns
<1>2. /\ Conversation(entries)
      /\ \A i \in 1..Len(entries) : entries[i].turn <= turns'
  BY <1>1 DEF Sound
<1>3. ASSUME NEW p \in Procs, Unsaved(proc', p), NEW i \in 1..Len(entries)
      PROVE  entries[i].turn # proc'[p].turn
  BY <1>1, <1>3 DEF Sound, UnsavedStays
<1> QED
  BY <1>2, <1>3 DEF Sound

LEMMA EmptySound ==
  ASSUME NEW procs, NEW n
  PROVE  Sound(procs, n, <<>>)
  BY DEF Sound, Conversation

LEMMA SoundAppend ==
  ASSUME NEW procs, NEW n, NEW entries \in Seq(Entry), NEW e \in Entry,
         Sound(procs, n, entries), Conversation(Append(entries, e)), e.turn <= n,
         \A p \in Procs : Unsaved(procs, p) => procs[p].turn # e.turn
  PROVE  Sound(procs, n, Append(entries, e))
<1>1. /\ Len(Append(entries, e)) = Len(entries) + 1
      /\ Append(entries, e)[Len(entries) + 1] = e
      /\ \A i \in 1..Len(entries) : Append(entries, e)[i] = entries[i]
      /\ \A i \in 1..(Len(entries) + 1) : i \in 1..Len(entries) \/ i = Len(entries) + 1
  OBVIOUS
<1> QED
  BY <1>1 DEF Sound

\* An input that is not there yet can follow anything.
LEMMA InputFollows ==
  ASSUME NEW entries \in Seq(Entry), NEW t \in Turn, Conversation(entries),
         \A i \in 1..Len(entries) : entries[i].turn # t
  PROVE  Conversation(Append(entries, Said(t, "user")))
<1> DEFINE e == Said(t, "user")
           more == Append(entries, e)
           n == Len(entries)
<1>1. /\ e \in Entry /\ e.turn = t /\ e.role = "user" /\ n \in Nat
  BY DEF Said, Entry
<1>2. /\ Len(more) = n + 1 /\ more[n + 1] = e
      /\ \A i \in 1..n : more[i] = entries[i]
  BY <1>1
<1> HIDE DEF e, more, n
<1>3. ASSUME NEW i \in 1..(n + 1), more[i].role = "assistant"
      PROVE  i > 1 /\ more[i - 1] = [turn |-> more[i].turn, role |-> "user"]
  <2>1. i \in 1..n
    BY <1>1, <1>2, <1>3
  <2>2. i > 1 /\ entries[i - 1] = [turn |-> entries[i].turn, role |-> "user"]
    BY <1>2, <1>3, <2>1 DEF Conversation, n
  <2> QED
    BY <1>1, <1>2, <2>1, <2>2
<1>4. ASSUME NEW i \in 1..(n + 1), NEW j \in 1..(n + 1), more[i] = more[j]
      PROVE  i = j
  <2>1. \A k \in 1..n : more[k] = entries[k] /\ more[k] # e
    BY <1>1, <1>2 DEF n
  <2>2. CASE i \in 1..n /\ j \in 1..n
    BY <1>4, <2>1, <2>2 DEF Conversation, n
  <2> QED
    BY <1>1, <1>2, <1>4, <2>1, <2>2
<1>5. more = Append(entries, Said(t, "user"))
  BY DEF more, e
<1> QED
  BY <1>2, <1>3, <1>4, <1>5 DEF Conversation

\* An answer can follow its input: it is not there, for then the input would
\* be there twice.
LEMMA AnswerFollows ==
  ASSUME NEW entries \in Seq(Entry), NEW t \in Turn, Conversation(entries),
         entries # <<>>, entries[Len(entries)] = Said(t, "user")
  PROVE  Conversation(Append(entries, Said(t, "assistant")))
<1> DEFINE e == Said(t, "assistant")
           more == Append(entries, e)
           n == Len(entries)
<1>1. /\ e \in Entry /\ e.turn = t /\ e.role = "assistant" /\ n \in Nat /\ n # 0
      /\ entries[n] = [turn |-> t, role |-> "user"]
  BY DEF Said, Entry
<1>2. /\ Len(more) = n + 1 /\ more[n + 1] = e
      /\ \A i \in 1..n : more[i] = entries[i]
  BY <1>1
<1> HIDE DEF e, more, n
<1>3. ASSUME NEW i \in 1..(n + 1), more[i].role = "assistant"
      PROVE  i > 1 /\ more[i - 1] = [turn |-> more[i].turn, role |-> "user"]
  <2>1. CASE i = n + 1
    BY <1>1, <1>2, <2>1
  <2>2. CASE i \in 1..n
    <3>1. i > 1 /\ entries[i - 1] = [turn |-> entries[i].turn, role |-> "user"]
      BY <1>2, <1>3, <2>2 DEF Conversation, n
    <3> QED
      BY <1>1, <1>2, <2>2, <3>1
  <2> QED
    BY <1>1, <2>1, <2>2
<1>4. ASSUME NEW k \in 1..n, entries[k] = e
      PROVE  FALSE
  <2>1. k > 1 /\ entries[k - 1] = [turn |-> t, role |-> "user"]
    BY <1>1, <1>4 DEF Conversation, n
  <2>2. k - 1 \in 1..n /\ n \in 1..n /\ k - 1 # n
    BY <1>1, <2>1
  <2> QED
    BY <1>1, <2>1, <2>2 DEF Conversation, n
<1>5. ASSUME NEW i \in 1..(n + 1), NEW j \in 1..(n + 1), more[i] = more[j]
      PROVE  i = j
  <2>1. \A k \in 1..n : more[k] = entries[k] /\ more[k] # e
    BY <1>2, <1>4
  <2>2. CASE i \in 1..n /\ j \in 1..n
    BY <1>5, <2>1, <2>2 DEF Conversation, n
  <2> QED
    BY <1>1, <1>2, <1>5, <2>1, <2>2
<1>6. more = Append(entries, Said(t, "assistant"))
  BY DEF more, e
<1> QED
  BY <1>2, <1>3, <1>5, <1>6 DEF Conversation

\* A step of p keeps HistoryInv when its new entries are sound and the rows
\* stay or take p's old ones.
LEMMA HistoryStep ==
  ASSUME TypeOK, HistoryInv, NEW p \in Procs, NEW label, NEW id, NEW entries, NEW t,
         Become(p, label, id, entries, t), turns' \in {turns, turns + 1},
         UnsavedStays, RowsFrom(proc[p].mem),
         Sound(proc', turns', entries), AwaitsAnswer(label, entries, t)
  PROVE  HistoryInv'
<1>1. /\ proc'[p] = [pc |-> label, sid |-> id, mem |-> entries, turn |-> t]
      /\ \A q \in Procs : q # p => proc'[q] = proc[q]
  BY DEF TypeOK, Become
<1>2. ASSUME NEW q \in Procs
      PROVE  proc[q].mem \in Seq(Entry) /\ Sound(proc', turns', proc[q].mem)
  BY ProcessType, SoundStays DEF HistoryInv
<1>3. ASSUME NEW s \in DOMAIN sessions
      PROVE  Sound(proc', turns', sessions[s])
  <2>1. sessions[s] \in Seq(Entry) /\ Sound(proc, turns, sessions[s])
    BY DEF TypeOK, StoreTypeOK, HistoryInv
  <2> QED
    BY <2>1, SoundStays
<1>4. \A s \in DOMAIN sessions' : Sound(proc', turns', sessions'[s])
  BY <1>2, <1>3, EmptySound DEF RowsFrom
<1>5. \A q \in Procs : /\ Sound(proc', turns', proc'[q].mem)
                       /\ AwaitsAnswer(proc'[q].pc, proc'[q].mem, proc'[q].turn)
  BY <1>1, <1>2 DEF HistoryInv
<1> QED
  BY <1>4, <1>5 DEF HistoryInv

LEMMA SaidType ==
  ASSUME NEW t \in Turn
  PROVE  /\ t # 0
         /\ Said(t, "user") \in Entry /\ Said(t, "user").turn = t
         /\ Said(t, "assistant") \in Entry /\ Said(t, "assistant").turn = t
  BY MaxTurnsOK DEF Turn, Said, Entry

\* UnsavedStays, for a step of p.
LEMMA BecomeUnsaved ==
  ASSUME TypeOK, NEW p \in Procs, NEW label, NEW id, NEW entries, NEW t,
         Become(p, label, id, entries, t),
         label \in UnsavedPc => \/ Unsaved(proc, p) /\ t = proc[p].turn
                                \/ t = turns + 1
  PROVE  UnsavedStays
  BY DEF TypeOK, Become, Unsaved, UnsavedStays

\* A step of p to a label that promises nothing, with what p or a row had.
LEMMA HistoryRests ==
  ASSUME TypeOK, HistoryInv, NEW p \in Procs,
         NEW label \in {"none", "prompt", "save", "failing", "runSave"}, NEW id,
         NEW entries \in Seq(Entry), NEW t, Become(p, label, id, entries, t),
         turns' = turns, RowsFrom(proc[p].mem), Sound(proc, turns, entries)
  PROVE  HistoryInv'
<1>1. AwaitsAnswer(label, entries, t)
  BY DEF AwaitsAnswer
<1>2. UnsavedStays
  BY BecomeUnsaved DEF UnsavedPc
<1>3. Sound(proc', turns', entries)
  BY <1>2, SoundStays
<1> QED
  BY <1>1, <1>2, <1>3, HistoryStep

LEMMA StepHistoryInv == TypeOK /\ OnceInv /\ HistoryInv /\ [Next]_vars => HistoryInv'
<1> SUFFICES ASSUME TypeOK, OnceInv, HistoryInv, [Next]_vars
             PROVE  HistoryInv'
  OBVIOUS
<1>a. /\ turns \in Nat /\ <<>> \in Seq(Entry)
      /\ \A id \in DOMAIN sessions : sessions[id] \in Seq(Entry)
      /\ \A p \in Procs : proc[p].mem \in Seq(Entry)
      /\ \A id \in DOMAIN sessions : Sound(proc, turns, sessions[id])
      /\ \A p \in Procs : Sound(proc, turns, proc[p].mem)
      /\ Sound(proc, turns, <<>>)
  BY EventTurns, ProcessType, EmptySound DEF TypeOK, StoreTypeOK, HistoryInv
<1>b. \A label, entries, t : label \notin {"child", "retry", "reply"} =>
        AwaitsAnswer(label, entries, t)
  BY DEF AwaitsAnswer
<1>c. \A entries : sessions' = sessions => RowsFrom(entries)
  BY DEF RowsFrom
<1>d. ASSUME NEW p \in Procs, Exit(p), turns' = turns, RowsFrom(proc[p].mem)
      PROVE  HistoryInv'
  BY <1>a, <1>d, HistoryRests DEF Exit
<1>1. CASE UNCHANGED vars
  BY <1>1 DEF vars, HistoryInv, Sound, Unsaved
<1>2. ASSUME NEW p \in Procs, NEW id \in SessionIds, ChatOpen(p, id)
      PROVE  HistoryInv'
  BY <1>2, <1>a, <1>c, HistoryRests DEF ChatOpen, storeVars
<1>3. ASSUME NEW p \in Procs, NEW id \in SessionIds, NEW rowId \in SessionIds,
             ChatOpenNew(p, rowId, id)
      PROVE  HistoryInv'
  <2>1. RowsFrom(proc[p].mem)
    BY <1>3 DEF ChatOpenNew, CreateSession, RowsFrom
  <2> QED
    BY <1>3, <1>a, <2>1, HistoryRests DEF ChatOpenNew
<1>4. ASSUME NEW p \in Procs, ChatClear(p)
      PROVE  HistoryInv'
  <2>1. RowsFrom(proc[p].mem)
    BY <1>4 DEF ChatClear, UpdateSession, RowsFrom
  <2> QED
    BY <1>4, <1>a, <2>1, HistoryRests DEF ChatClear
<1>5. ASSUME NEW p \in Procs, ChatLine(p)
      PROVE  HistoryInv'
  <2> DEFINE t == turns + 1
             mem == proc[p].mem
             entries == Append(mem, Said(t, "user"))
  <2>1. /\ Become(p, "child", proc[p].sid, entries, t)
        /\ turns' = t /\ sessions' = sessions
    BY <1>5 DEF ChatLine, NextTurn
  <2>2. mem \in Seq(Entry) /\ t \in Turn /\ Said(t, "user") \in Entry
        /\ Said(t, "user").turn = t
    <3>1. mem \in Seq(Entry) /\ t \in Turn
      BY <1>5, <1>a, MaxTurnsOK DEF ChatLine, NextTurn, Turn
    <3> QED
      BY <3>1, SaidType
  <2>3. /\ UnsavedStays /\ Sound(proc', turns', mem)
        /\ \A q \in Procs : Unsaved(proc', q) => proc'[q].turn # t
    <3>1. UnsavedStays
      BY <2>1, BecomeUnsaved DEF UnsavedPc
    <3>2. Sound(proc', turns', mem)
      BY <2>1, <2>2, <3>1, SoundStays DEF HistoryInv
    <3>3. \A q \in Procs : Unsaved(proc', q) => q # p /\ proc'[q] = proc[q]
      BY <2>1 DEF TypeOK, Become, Unsaved, UnsavedPc
    <3> QED
      BY <3>1, <3>2, <3>3, EventTurns
  <2>4. \A i \in 1..Len(mem) : mem[i].turn # t
    <3>1. Sound(proc, turns, mem)
      BY DEF HistoryInv
    <3> QED
      BY <3>1, <1>a DEF Sound
  <2>5. Conversation(entries)
    BY <2>2, <2>3, <2>4, InputFollows DEF Sound
  <2>6. t <= turns'
    BY <1>a, <2>1
  <2>7. Sound(proc', turns', entries)
    BY <2>2, <2>3, <2>5, <2>6, SoundAppend
  <2>8. AwaitsAnswer("child", entries, t)
    <3> HIDE DEF t, mem
    <3>1. entries # <<>> /\ entries[Len(entries)] = Said(t, "user")
      BY <2>2
    <3> QED
      BY <3>1 DEF AwaitsAnswer
  <2> QED
    BY <1>c, <2>1, <2>3, <2>7, <2>8, HistoryStep
<1>6. ASSUME NEW p \in Procs, ChatChild(p)
      PROVE  HistoryInv'
  <2>1. PICK label \in {"reply", "retry", "failing"} : Goto(p, label)
    BY <1>6 DEF ChatChild
  <2>2. AwaitsAnswer(label, proc[p].mem, proc[p].turn)
    BY <1>6 DEF ChatChild, At, HistoryInv, AwaitsAnswer
  <2>3. turns' = turns /\ sessions' = sessions /\ label \notin UnsavedPc
    BY <1>6 DEF ChatChild, UnsavedPc, storeVars
  <2>4. Become(p, label, proc[p].sid, proc[p].mem, proc[p].turn)
    BY <2>1 DEF Goto
  <2>5. UnsavedStays
    BY <2>3, <2>4, BecomeUnsaved
  <2> QED
    BY <1>a, <1>c, <2>2, <2>3, <2>4, <2>5, SoundStays, HistoryStep
<1>7. ASSUME NEW p \in Procs, ChatReply(p)
      PROVE  HistoryInv'
  <2> DEFINE t == proc[p].turn
             mem == proc[p].mem
             entries == Append(mem, Said(t, "assistant"))
  <2>1. /\ Become(p, "save", proc[p].sid, entries, t)
        /\ turns' = turns /\ sessions' = sessions
    BY <1>7 DEF ChatReply
  <2>2. mem \in Seq(Entry) /\ t \in Turn /\ Said(t, "assistant") \in Entry
        /\ Said(t, "assistant").turn = t /\ t # 0
    <3>1. mem \in Seq(Entry) /\ t \in Turn
      BY <1>7, <1>a, ProcessType DEF ChatReply, At
    <3> QED
      BY <3>1, SaidType
  <2>3. /\ UnsavedStays /\ Sound(proc', turns', mem)
        /\ \A q \in Procs : Unsaved(proc', q) => proc'[q].turn # t
    <3>1. UnsavedStays
      BY <2>1, BecomeUnsaved DEF UnsavedPc
    <3>2. Sound(proc', turns', mem)
      BY <2>1, <2>2, <3>1, SoundStays DEF HistoryInv
    <3>3. \A q \in Procs : Unsaved(proc', q) => q # p /\ proc'[q] = proc[q]
      BY <2>1 DEF TypeOK, Become, Unsaved, UnsavedPc
    <3> QED
      BY <2>2, <3>1, <3>2, <3>3 DEF OnceInv
  <2>4. mem # <<>> /\ mem[Len(mem)] = Said(t, "user")
    BY <1>7 DEF ChatReply, At, HistoryInv, AwaitsAnswer
  <2>5. Conversation(entries)
    BY <2>2, <2>3, <2>4, AnswerFollows DEF Sound
  <2>6. t <= turns'
    BY <2>1, EventTurns
  <2>7. Sound(proc', turns', entries)
    BY <2>2, <2>3, <2>5, <2>6, SoundAppend
  <2> QED
    BY <1>b, <1>c, <2>1, <2>3, <2>7, HistoryStep
<1>8. ASSUME NEW p \in Procs, ChatSave(p)
      PROVE  HistoryInv'
  <2>1. RowsFrom(proc[p].mem)
    BY <1>8 DEF ChatSave, UpdateSession, RowsFrom
  <2> QED
    BY <1>8, <1>a, <2>1, HistoryRests DEF ChatSave, Goto
<1>9. ASSUME NEW p \in Procs, ChatThrows(p) \/ ChatError(p)
      PROVE  HistoryInv'
  <2>1. /\ turns' = turns /\ sessions' = sessions
        /\ \E label \in {"failing", "prompt"} :
             Become(p, label, proc[p].sid, proc[p].mem, proc[p].turn)
    BY <1>9 DEF ChatThrows, ChatError, Goto
  <2> QED
    BY <1>a, <1>c, <2>1, HistoryRests
<1>10. ASSUME NEW p \in Procs, NEW id \in SessionIds, RunStart(p, id)
       PROVE  HistoryInv'
  <2> DEFINE context == IF id \in DOMAIN sessions THEN sessions[id] ELSE <<>>
  <2>1. /\ Become(p, "agent", id, context, turns + 1)
        /\ turns' = turns + 1 /\ sessions' = sessions
    BY <1>10 DEF RunStart, NextTurn, storeVars
  <2>2. /\ context \in Seq(Entry)
        /\ Sound(proc, turns, context)
    BY <1>a
  <2> HIDE DEF context
  <2>3. UnsavedStays
    BY <2>1, BecomeUnsaved
  <2>4. Sound(proc', turns', context)
    BY <2>1, <2>2, <2>3, SoundStays
  <2> QED
    BY <1>b, <1>c, <2>1, <2>3, <2>4, HistoryStep
<1>11. ASSUME NEW p \in Procs, RunLogPrompt(p) \/ RunLogReply(p)
       PROVE  HistoryInv'
  <2>1. Unsaved(proc, p) /\ sessions' = sessions /\ turns' = turns
    BY <1>11 DEF RunLogPrompt, RunLogReply, At, Unsaved, UnsavedPc
  <2>2. PICK label \in {"logReply", "load"} :
          Become(p, label, proc[p].sid, proc[p].mem, proc[p].turn)
    BY <1>11 DEF RunLogPrompt, RunLogReply, Goto
  <2>3. UnsavedStays
    BY <2>1, <2>2, BecomeUnsaved
  <2>4. Sound(proc', turns', proc[p].mem)
    BY <1>a, <2>1, <2>3, SoundStays
  <2> QED
    BY <1>b, <1>c, <2>1, <2>2, <2>3, <2>4, HistoryStep
<1>12. ASSUME NEW p \in Procs, RunLoad(p)
       PROVE  HistoryInv'
  <2> DEFINE t == proc[p].turn
             row == sessions[proc[p].sid]
             asked == Append(row, Said(t, "user"))
             entries == Append(asked, Said(t, "assistant"))
  <2>1. sessions' = sessions /\ turns' = turns
    BY <1>12 DEF RunLoad, storeVars
  <2>2. CASE proc[p].sid \notin DOMAIN sessions
    BY <1>12, <1>c, <1>d, <2>1, <2>2 DEF RunLoad
  <2>3. CASE proc[p].sid \in DOMAIN sessions
    <3>1. Become(p, "runSave", proc[p].sid, entries, t)
      BY <1>12, <2>3 DEF RunLoad
    <3>2. /\ row \in Seq(Entry) /\ t \in Turn /\ t # 0
          /\ Said(t, "user") \in Entry /\ Said(t, "user").turn = t
          /\ Said(t, "assistant") \in Entry /\ Said(t, "assistant").turn = t
      <4>1. row \in Seq(Entry) /\ t \in Turn
        BY <1>12, <1>a, <2>3, ProcessType DEF RunLoad, At
      <4> QED
        BY <4>1, SaidType
    <3>3. UnsavedStays
      BY <3>1, BecomeUnsaved DEF UnsavedPc
    <3>4. Sound(proc, turns, row) /\ Sound(proc', turns', row)
      BY <2>1, <2>3, <3>2, <3>3, SoundStays DEF HistoryInv
    <3>5. \A q \in Procs : Unsaved(proc', q) => proc'[q].turn # t
      <4>1. \A q \in Procs : Unsaved(proc', q) => q # p /\ proc'[q] = proc[q]
        BY <3>1 DEF TypeOK, Become, Unsaved, UnsavedPc
      <4> QED
        BY <3>2, <4>1 DEF OnceInv
    <3>6. \A i \in 1..Len(row) : row[i].turn # t
      <4>1. Unsaved(proc, p)
        BY <1>12 DEF RunLoad, At, Unsaved, UnsavedPc
      <4> QED
        BY <3>4, <4>1 DEF Sound
    <3>7. t <= turns'
      BY <2>1, EventTurns
    <3>8. asked \in Seq(Entry) /\ asked # <<>> /\ asked[Len(asked)] = Said(t, "user")
      BY <3>2
    <3>9. Conversation(asked)
      BY <3>2, <3>4, <3>6, InputFollows DEF Sound
    <3>10. Sound(proc', turns', asked)
      BY <3>2, <3>4, <3>5, <3>7, <3>9, SoundAppend
    <3> HIDE DEF asked
    <3>11. Conversation(entries)
      BY <3>2, <3>8, <3>9, AnswerFollows
    <3>12. Sound(proc', turns', entries)
      BY <3>2, <3>5, <3>7, <3>8, <3>10, <3>11, SoundAppend
    <3> QED
      BY <1>b, <1>c, <2>1, <3>1, <3>3, <3>12, HistoryStep
  <2> QED
    BY <2>2, <2>3
<1>13. ASSUME NEW p \in Procs, RunSave(p)
       PROVE  HistoryInv'
  <2>1. RowsFrom(proc[p].mem)
    BY <1>13 DEF RunSave, UpdateSession, RowsFrom
  <2> QED
    BY <1>13, <1>d, <2>1 DEF RunSave
<1>14. ASSUME NEW p \in Procs, NEW id \in SessionIds, SqliteNew(p, id) \/ SqliteRm(p, id)
       PROVE  HistoryInv'
  <2>1. proc' = proc /\ turns' = turns
    BY <1>14 DEF SqliteNew, SqliteRm
  <2>2. \A s \in DOMAIN sessions' : Sound(proc, turns, sessions'[s])
    BY <1>14, EmptySound
    DEF SqliteNew, SqliteRm, CreateSession, DeleteSession, HistoryInv
  <2> QED
    BY <2>1, <2>2 DEF HistoryInv
<1>15. ASSUME NEW p \in Procs, Crash(p)
       PROVE  HistoryInv'
  BY <1>15, <1>c, <1>d DEF Crash, storeVars
<1> QED
  BY <1>1, <1>2, <1>3, <1>4, <1>5, <1>6, <1>7, <1>8, <1>9, <1>10, <1>11, <1>12,
     <1>13, <1>14, <1>15 DEF Next, Step, UserStep

LEMMA InitHistoryInv == Init => HistoryInv
  BY EmptySound DEF Init, StoreInit, HistoryInv, NoProcess, AwaitsAnswer

\* Every session row reads as a conversation, whichever copies it was
\* overwritten with: an answer stands behind its input, and nothing stands
\* there twice (cmdChatCelld and cmdRun push, then write the whole row).
THEOREM RowsStayConversations == Spec => []RowsAreConversations
<1>1. HistoryInv => RowsAreConversations
  BY DEF HistoryInv, Sound, RowsAreConversations
<1>2. TypeOK /\ OnceInv /\ HistoryInv /\ [Next]_vars => HistoryInv'
  BY StepHistoryInv
<1>3. Spec => []HistoryInv
  BY <1>2, InitHistoryInv, TypeCorrect, OnceCorrect, PTL DEF Spec
<1> QED
  BY <1>1, <1>3, PTL

-----------------------------------------------------------------------------
(* One process at a time                                                   *)
(*                                                                         *)
(* With several, the last one to save wins and StoredIsShown fails (the    *)
(* run of two processes shows it).  With one, the copy of a chat, and what *)
(* a run is about to save, continue the row they will overwrite.           *)

OneProcess == \A p, q \in Procs : p = q

Extends(entries, row) ==
  /\ Len(row) <= Len(entries)
  /\ \A i \in 1..Len(row) : entries[i] = row[i]

\* What the only process has in memory of the row it works on.
ContinuesRow(r) ==
  r.pc \in ChatPc \union {"runSave"} /\ r.sid \in DOMAIN sessions =>
    Extends(r.mem, sessions[r.sid])

AloneInv == StoredIsShown /\ \A p \in Procs : ContinuesRow(proc[p])

LEMMA ExtendsItself ==
  ASSUME NEW entries \in Seq(Entry)
  PROVE  Extends(entries, entries) /\ Extends(entries, <<>>)
<1>1. Len(entries) \in Nat
  BY LenProperties
<1>2. Len(<<>>) = 0
  OBVIOUS
<1> QED
  BY <1>1, <1>2 DEF Extends

LEMMA ExtendsAppend ==
  ASSUME NEW row \in Seq(Entry), NEW entries \in Seq(Entry), NEW e \in Entry,
         Extends(entries, row)
  PROVE  Extends(Append(entries, e), row)
<1>1. Len(row) \in Nat /\ Len(entries) \in Nat
  BY LenProperties
<1>2. /\ Len(Append(entries, e)) = Len(entries) + 1
      /\ \A i \in 1..Len(entries) : Append(entries, e)[i] = entries[i]
  BY AppendProperties
<1> QED
  BY <1>1, <1>2 DEF Extends

LEMMA ExtendsIsSubSeq ==
  ASSUME NEW row \in Seq(Entry), NEW entries \in Seq(Entry), Extends(entries, row)
  PROVE  SubSeq(entries, 1, Len(row)) = row
<1>1. Len(row) \in Nat /\ Len(entries) \in Nat /\ Len(row) <= Len(entries)
  BY LenProperties DEF Extends
<1> DEFINE s == SubSeq(entries, 1, Len(row))
<1>2. /\ s \in Seq(Entry) /\ Len(s) = Len(row)
      /\ \A i \in 1..Len(row) : s[i] = entries[i]
  <2>1. \A i \in 1..Len(row) : i \in 1..Len(entries)
    BY <1>1
  <2>2. \A i \in 1..Len(row) : entries[i] \in Entry
    BY <2>1, ElementOfSeq
  <2>3. s = [i \in 1..Len(row) |-> entries[i]]
    BY <1>1
  <2>4. s \in Seq(Entry) /\ Len(s) = Len(row)
    BY <1>1, <2>2, <2>3
  <2>5. \A i \in 1..Len(row) : s[i] = entries[i]
    BY <2>3
  <2> QED
    BY <2>4, <2>5
<1>3. \A i \in 1..Len(row) : s[i] = row[i]
  BY <1>2 DEF Extends
<1> HIDE DEF s
<1>4. s = row
  BY <1>2, <1>3, SeqEqual
<1> QED
  BY <1>4 DEF s

\* A step of the only process to a record that fits the rows.
LEMMA AloneStep ==
  ASSUME OneProcess, TypeOK, NEW p \in Procs, NEW label, NEW id, NEW entries, NEW t,
         Become(p, label, id, entries, t),
         label \in ChatPc \union {"runSave"} /\ id \in DOMAIN sessions' =>
           Extends(entries, sessions'[id]),
         label = "prompt" /\ id \in DOMAIN sessions' =>
           sessions'[id] = entries \/ Logged(runtime_events', id, t, "error")
  PROVE  AloneInv'
<1>1. \A q \in Procs : proc'[q] = [pc |-> label, sid |-> id, mem |-> entries, turn |-> t]
  BY DEF OneProcess, TypeOK, Become
<1>2. StoredIsShown'
  BY <1>1 DEF StoredIsShown, At
<1>3. \A q \in Procs : ContinuesRow(proc[q])'
  BY <1>1 DEF ContinuesRow
<1> QED
  BY <1>2, <1>3 DEF AloneInv

LEMMA StepAloneInv == OneProcess /\ TypeOK /\ AloneInv /\ [Next]_vars => AloneInv'
<1> SUFFICES ASSUME OneProcess, TypeOK, AloneInv, [Next]_vars
             PROVE  AloneInv'
  OBVIOUS
<1>a. /\ turns \in Nat /\ <<>> \in Seq(Entry)
      /\ \A id \in DOMAIN sessions : sessions[id] \in Seq(Entry)
      /\ \A p \in Procs : proc[p].mem \in Seq(Entry)
      /\ DOMAIN sessions \subseteq issued
  BY EventTurns, ProcessType DEF TypeOK, StoreTypeOK
<1>b. \A p \in Procs : /\ proc[p].pc \in ChatPc \union {"runSave"} /\ proc[p].sid \in DOMAIN sessions =>
                            Extends(proc[p].mem, sessions[proc[p].sid])
  BY DEF AloneInv, ContinuesRow
<1>1. CASE UNCHANGED vars
  BY <1>1 DEF vars, AloneInv, StoredIsShown, ContinuesRow, At
<1>2. ASSUME NEW p \in Procs, NEW id \in SessionIds, ChatOpen(p, id)
      PROVE  AloneInv'
  <2>1. sessions' = sessions /\ id \in DOMAIN sessions /\ Become(p, "prompt", id, sessions[id], 0)
    BY <1>2 DEF ChatOpen, storeVars
  <2>2. Extends(sessions[id], sessions[id])
    BY <1>a, <2>1, ExtendsItself
  <2> QED
    BY <2>1, <2>2, AloneStep
<1>3. ASSUME NEW p \in Procs, NEW id \in SessionIds, NEW rowId \in SessionIds,
             ChatOpenNew(p, rowId, id)
      PROVE  AloneInv'
  <2>1. Become(p, "prompt", id, <<>>, 0) /\ id \notin DOMAIN sessions'
    BY <1>3, <1>a DEF ChatOpenNew, CreateSession
  <2> QED
    BY <2>1, AloneStep
<1>4. ASSUME NEW p \in Procs, ChatClear(p)
      PROVE  AloneInv'
  <2>1. /\ Become(p, "prompt", proc[p].sid, <<>>, proc[p].turn)
        /\ proc[p].sid \in DOMAIN sessions' => sessions'[proc[p].sid] = <<>>
    BY <1>4 DEF ChatClear, UpdateSession
  <2>2. Extends(<<>>, <<>>)
    BY <1>a, ExtendsItself
  <2> QED
    BY <2>1, <2>2, AloneStep
<1>5. ASSUME NEW p \in Procs, ChatLine(p)
      PROVE  AloneInv'
  <2> DEFINE e == Said(turns + 1, "user")
  <2>1. /\ Become(p, "child", proc[p].sid, Append(proc[p].mem, e), turns + 1)
        /\ sessions' = sessions /\ proc[p].pc \in ChatPc
    BY <1>5 DEF ChatLine, At, ChatPc
  <2>2. e \in Entry
    <3>1. turns + 1 \in Turn
      BY <1>5, <1>a, MaxTurnsOK DEF ChatLine, NextTurn, Turn
    <3> QED
      BY <3>1, SaidType
  <2> HIDE DEF e
  <2>3. proc[p].sid \in DOMAIN sessions => Extends(Append(proc[p].mem, e), sessions[proc[p].sid])
    BY <1>a, <1>b, <2>1, <2>2, ExtendsAppend
  <2> QED
    BY <2>1, <2>3, AloneStep
<1>6. ASSUME NEW p \in Procs, NEW label \in {"reply", "retry", "failing"}, Goto(p, label),
             sessions' = sessions, proc[p].pc \in ChatPc
      PROVE  AloneInv'
  <2>1. Become(p, label, proc[p].sid, proc[p].mem, proc[p].turn)
    BY <1>6 DEF Goto
  <2>2. proc[p].sid \in DOMAIN sessions => Extends(proc[p].mem, sessions[proc[p].sid])
    BY <1>6, <1>b
  <2> QED
    BY <1>6, <2>1, <2>2, AloneStep
<1>7. ASSUME NEW p \in Procs, ChatChild(p) \/ ChatThrows(p)
      PROVE  AloneInv'
  <2>1. sessions' = sessions /\ proc[p].pc \in ChatPc
    BY <1>7 DEF ChatChild, ChatThrows, At, ChatPc, storeVars
  <2>2. \E label \in {"reply", "retry", "failing"} : Goto(p, label)
    BY <1>7 DEF ChatChild, ChatThrows
  <2> QED
    BY <1>6, <2>1, <2>2
<1>8. ASSUME NEW p \in Procs, ChatReply(p)
      PROVE  AloneInv'
  <2> DEFINE e == Said(proc[p].turn, "assistant")
  <2>1. /\ Become(p, "save", proc[p].sid, Append(proc[p].mem, e), proc[p].turn)
        /\ sessions' = sessions /\ proc[p].pc = "reply"
    BY <1>8 DEF ChatReply, At
  <2>2. e \in Entry
    BY <2>1, ProcessType, SaidType
  <2> HIDE DEF e
  <2>3. proc[p].sid \in DOMAIN sessions => Extends(Append(proc[p].mem, e), sessions[proc[p].sid])
    BY <1>a, <1>b, <2>1, <2>2, ExtendsAppend DEF ChatPc
  <2> QED
    BY <2>1, <2>3, AloneStep
<1>9. ASSUME NEW p \in Procs, ChatSave(p)
      PROVE  AloneInv'
  <2>1. /\ Become(p, "prompt", proc[p].sid, proc[p].mem, proc[p].turn)
        /\ proc[p].sid \in DOMAIN sessions' => sessions'[proc[p].sid] = proc[p].mem
    BY <1>9 DEF ChatSave, Goto, UpdateSession
  <2>2. Extends(proc[p].mem, proc[p].mem)
    BY <1>a, ExtendsItself
  <2> QED
    BY <2>1, <2>2, AloneStep
<1>10. ASSUME NEW p \in Procs, ChatError(p)
       PROVE  AloneInv'
  <2>1. /\ Become(p, "prompt", proc[p].sid, proc[p].mem, proc[p].turn)
        /\ sessions' = sessions /\ proc[p].pc = "failing"
        /\ AppendEvent(proc[p].sid, proc[p].turn, "error")
    BY <1>10 DEF ChatError, Goto, At
  <2>2. Logged(runtime_events', proc[p].sid, proc[p].turn, "error")
    BY <2>1, ProcessType, AppendGrows DEF TypeOK, StoreTypeOK
  <2>3. proc[p].sid \in DOMAIN sessions => Extends(proc[p].mem, sessions[proc[p].sid])
    BY <1>b, <2>1 DEF ChatPc
  <2> QED
    BY <2>1, <2>2, <2>3, AloneStep
<1>11. ASSUME NEW p \in Procs, NEW label \in {"none", "agent", "logReply", "load"},
              NEW id, NEW entries, NEW t, Become(p, label, id, entries, t)
       PROVE  AloneInv'
  BY <1>11, AloneStep DEF ChatPc
<1>12. ASSUME NEW p \in Procs,
              \/ \E id \in SessionIds : RunStart(p, id)
              \/ RunLogPrompt(p) \/ RunLogReply(p) \/ RunSave(p) \/ Crash(p)
       PROVE  AloneInv'
  <2>1. \E label \in {"none", "agent", "logReply", "load"} :
          \E id, entries, t : Become(p, label, id, entries, t)
    BY <1>12 DEF RunStart, RunLogPrompt, RunLogReply, RunSave, Crash, Goto, Exit
  <2> QED
    BY <1>11, <2>1
<1>13. ASSUME NEW p \in Procs, RunLoad(p)
       PROVE  AloneInv'
  <2>1. CASE Exit(p)
    BY <1>11, <2>1 DEF Exit
  <2>2. CASE ~Exit(p)
    <3> DEFINE id == proc[p].sid
               u == Said(proc[p].turn, "user")
               a == Said(proc[p].turn, "assistant")
    <3>1. /\ Become(p, "runSave", id, Append(Append(sessions[id], u), a), proc[p].turn)
          /\ id \in DOMAIN sessions /\ sessions' = sessions /\ proc[p].pc = "load"
      BY <1>13, <2>2 DEF RunLoad, At, storeVars
    <3>2. u \in Entry /\ a \in Entry
      BY <3>1, ProcessType, SaidType
    <3> HIDE DEF id, u, a
    <3>3. sessions[id] \in Seq(Entry) /\ Extends(sessions[id], sessions[id])
      BY <1>a, <3>1, ExtendsItself
    <3>4. Append(sessions[id], u) \in Seq(Entry)
      BY <3>2, <3>3, AppendProperties
    <3>5. Extends(Append(sessions[id], u), sessions[id])
      BY <3>2, <3>3, ExtendsAppend
    <3>6. Extends(Append(Append(sessions[id], u), a), sessions[id])
      BY <3>2, <3>3, <3>4, <3>5, ExtendsAppend
    <3> QED
      BY <3>1, <3>6, AloneStep
  <2> QED
    BY <2>1, <2>2
<1>14. ASSUME NEW p \in Procs, NEW id \in SessionIds, SqliteNew(p, id) \/ SqliteRm(p, id)
       PROVE  AloneInv'
  <2>1. \A q \in Procs : proc'[q].pc = "none"
    BY <1>14 DEF SqliteNew, SqliteRm, At, OneProcess
  <2> QED
    BY <2>1 DEF AloneInv, StoredIsShown, ContinuesRow, At, ChatPc
<1> QED
  BY <1>1, <1>2, <1>3, <1>4, <1>5, <1>7, <1>8, <1>9, <1>10, <1>12, <1>13, <1>14
     DEF Next, Step, UserStep

LEMMA AloneCorrect == OneProcess => (Spec => []AloneInv)
<1> SUFFICES ASSUME OneProcess PROVE Spec => []AloneInv
  OBVIOUS
<1>1. Init => AloneInv
  BY DEF Init, StoreInit, NoProcess, AloneInv, StoredIsShown, ContinuesRow, At
<1>2. TypeOK /\ AloneInv /\ [Next]_vars => AloneInv'
  BY StepAloneInv
<1> QED
  BY <1>1, <1>2, TypeCorrect, PTL DEF Spec

\* A user who runs one command at a time finds in the database what the chat
\* shows, whatever fails or dies in between; an input whose turn failed is
\* there from the next save on (cmdChatCelld).
THEOREM OneProcessStoresItsChat == OneProcess => (Spec => []StoredIsShown)
<1>1. AloneInv => StoredIsShown
  BY DEF AloneInv
<1> QED
  BY <1>1, AloneCorrect, PTL

\* ... and no command takes anything back from a row's history, short of
\* clearing it or removing the row.
THEOREM OneProcessLosesNothing == OneProcess => (Spec => HistoryOnlyGrows)
<1> DEFINE Grown(id) == \/ sessions'[id] = <<>>
                        \/ SubSeq(sessions'[id], 1, Len(sessions[id])) = sessions[id]
           AllGrown == \A id \in DOMAIN sessions \intersect DOMAIN sessions' : Grown(id)
<1>1. TypeOK /\ AloneInv /\ [Next]_vars => AllGrown
  <2> SUFFICES ASSUME TypeOK, AloneInv, [Next]_vars,
                      NEW id \in DOMAIN sessions, id \in DOMAIN sessions'
               PROVE  Grown(id)
    OBVIOUS
  <2>1. sessions[id] \in Seq(Entry) /\ \A p \in Procs : proc[p].mem \in Seq(Entry)
    BY ProcessType DEF TypeOK, StoreTypeOK
  <2>2. \/ sessions'[id] \in {sessions[id], <<>>}
        \/ \E p \in Procs : /\ proc[p].pc \in {"save", "runSave"} /\ proc[p].sid = id
                            /\ sessions'[id] = proc[p].mem
    <3>1. CASE UNCHANGED vars
      BY <3>1 DEF vars
    <3>2. ASSUME NEW p \in Procs, ChatSave(p) \/ RunSave(p)
          PROVE  \/ sessions'[id] = sessions[id]
                 \/ /\ proc[p].pc \in {"save", "runSave"} /\ proc[p].sid = id
                    /\ sessions'[id] = proc[p].mem
      BY <3>2 DEF ChatSave, RunSave, UpdateSession, At
    <3>3. ASSUME NEW p \in Procs, ChatClear(p)
          PROVE  sessions'[id] \in {sessions[id], <<>>}
      BY <3>3 DEF ChatClear, UpdateSession
    <3>4. ASSUME NEW p \in Procs, NEW s \in SessionIds, NEW r \in SessionIds,
                 SqliteNew(p, s) \/ SqliteRm(p, s) \/ ChatOpenNew(p, r, s)
          PROVE  sessions'[id] \in {sessions[id], <<>>}
      BY <3>4 DEF SqliteNew, SqliteRm, ChatOpenNew, CreateSession, DeleteSession
    <3>5. ASSUME NEW p \in Procs,
                 \/ ChatChild(p) \/ ChatReply(p) \/ ChatThrows(p) \/ ChatError(p)
                 \/ RunLogPrompt(p) \/ RunLogReply(p) \/ RunLoad(p)
                 \/ \E s \in SessionIds : ChatOpen(p, s) \/ RunStart(p, s)
                 \/ ChatLine(p) \/ Crash(p)
          PROVE  sessions'[id] = sessions[id]
      BY <3>5 DEF ChatChild, ChatReply, ChatThrows, ChatError, RunLogPrompt, RunLogReply, RunLoad,
         ChatOpen, RunStart, ChatLine, Crash, storeVars
    <3> QED
      BY <3>1, <3>2, <3>3, <3>4, <3>5 DEF Next, Step, UserStep
  <2>3. \A entries \in Seq(Entry) : Extends(entries, sessions[id]) =>
          SubSeq(entries, 1, Len(sessions[id])) = sessions[id]
    BY <2>1, ExtendsIsSubSeq
  <2>4. SubSeq(sessions[id], 1, Len(sessions[id])) = sessions[id]
    BY <2>1, <2>3, ExtendsItself
  <2>5. ASSUME NEW p \in Procs, proc[p].pc \in {"save", "runSave"}, proc[p].sid = id,
               sessions'[id] = proc[p].mem
        PROVE  Grown(id)
    <3>1. Extends(proc[p].mem, sessions[id])
      BY <2>5 DEF AloneInv, ContinuesRow, ChatPc
    <3> QED
      BY <2>1, <2>3, <2>5, <3>1
  <2> QED
    BY <2>2, <2>4, <2>5
<1> SUFFICES ASSUME OneProcess PROVE Spec => HistoryOnlyGrows
  OBVIOUS
<1>2. TypeOK /\ AloneInv /\ [Next]_vars => [AllGrown]_vars
  BY <1>1
<1> QED
  BY <1>2, TypeCorrect, AloneCorrect, PTL DEF Spec, HistoryOnlyGrows
=============================================================================
