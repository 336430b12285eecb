------------------------- MODULE CellServicesProofs -------------------------
(***************************************************************************)
(* Proofs about AgentService and CellServices, for any number of actors    *)
(* and requests.  The in-memory service is at the end.                     *)
(*                                                                         *)
(* A file is written from memory, so that what must stay on file must stay *)
(* in memory as well: an actor that is loaded has every request that was   *)
(* answered, and its history continues the one on file.  That the actor of *)
(* an open request stays loaded is what makes saving it defined.           *)
(***************************************************************************)
EXTENDS CellServices, FiniteSetTheorems, SequenceTheorems, WellFoundedInduction, TLAPS

IsActive(r) == handler[r] \in {"body", "running"}
IsLoaded(a) == mem[a] # NotLoaded

\* g continues h.
Continues(g, h) == Len(h) <= Len(g) /\ \A i \in 1..Len(h) : g[i] = h[i]

Loaded == \A r \in Requests : IsActive(r) => up /\ IsLoaded(target[r])

Noted ==
  \A r \in Requests :
    handler[r] = "running" \/ (reply[r] = "result" /\ IsLoaded(target[r]))
      => InHistory(r, mem[target[r]])

Kept ==
  \A r \in Requests : reply[r] = "result" =>
    \/ disk[target[r]] = Torn
    \/ disk[target[r]] \in State /\ InHistory(r, disk[target[r]])

Ahead ==
  \A a \in Actors : IsLoaded(a) /\ disk[a] \in State =>
    Continues(mem[a].history, disk[a].history)

Inv == TypeOK /\ Loaded /\ Noted /\ Kept /\ Ahead

-----------------------------------------------------------------------------
(* Histories *)

LEMMA ContinuesIsPrefix ==
  ASSUME NEW g \in Seq(Requests), NEW h \in Seq(Requests), Continues(g, h)
  PROVE  IsPrefix(h, g)
<1>1. SubSeq(h, 1, Len(h)) = SubSeq(g, 1, Len(h))
  BY DEF Continues
<1> QED
  BY <1>1 DEF Continues, IsPrefix

LEMMA ContinuesTransitive ==
  ASSUME NEW f \in State, NEW g \in State, NEW h \in State,
         Continues(f.history, g.history), Continues(g.history, h.history)
  PROVE  Continues(f.history, h.history)
  BY DEF Continues, State

LEMMA ContinuesKeeps ==
  ASSUME NEW g \in State, NEW h \in State, Continues(g.history, h.history),
         NEW r, InHistory(r, h)
  PROVE  InHistory(r, g)
<1>1. PICK i \in 1..Len(h.history) : h.history[i] = r
  BY DEF InHistory
<1>2. i \in 1..Len(g.history) /\ g.history[i] = r
  BY <1>1 DEF Continues, State
<1> QED
  BY <1>2 DEF InHistory

\* What an open request saves continues its actor's history, and holds the
\* request.
LEMMA SavingContinues ==
  ASSUME Inv, NEW r \in Requests, IsActive(r)
  PROVE  /\ mem[target[r]] \in State /\ Saving(r) \in State
         /\ Continues(Saving(r).history, mem[target[r]].history)
         /\ InHistory(r, Saving(r))
<1> DEFINE m == mem[target[r]]
<1>1. m \in State
  BY DEF Inv, TypeOK, Loaded, IsLoaded
<1>2. m.history \in Seq(Requests)
  BY <1>1 DEF State
<1>3. CASE handler[r] = "body"
  <2> DEFINE g == Append(m.history, r)
  <2>1. Saving(r) = [status |-> "executing", history |-> g]
    BY <1>3 DEF Saving, Recorded
  <2>2. g \in Seq(Requests) /\ Len(g) = Len(m.history) + 1
        /\ g[Len(m.history) + 1] = r /\ \A i \in 1..Len(m.history) : g[i] = m.history[i]
    BY <1>2
  <2>3. Saving(r) \in State /\ Saving(r).history = g
    BY <2>1, <2>2 DEF State
  <2>4. Len(m.history) + 1 \in 1..Len(g)
    BY <1>2, <2>2
  <2>5. InHistory(r, Saving(r))
    BY <2>2, <2>3, <2>4 DEF InHistory
  <2> QED
    BY <1>1, <1>2, <2>2, <2>3, <2>5 DEF Continues
<1>4. CASE handler[r] = "running"
  <2>1. Saving(r) = [m EXCEPT !.status = "ready"]
    BY <1>4 DEF Saving
  <2>2. Saving(r) \in State /\ Saving(r).history = m.history
    BY <1>1, <2>1 DEF State
  <2>3. InHistory(r, m)
    BY <1>4 DEF Inv, Noted
  <2> QED
    BY <1>1, <1>2, <2>2, <2>3 DEF Continues, InHistory
<1> QED
  BY <1>3, <1>4 DEF IsActive

-----------------------------------------------------------------------------
(* The invariant *)

LEMMA InitInv == Init => Inv
  BY DEF Init, Inv, TypeOK, Loaded, IsActive, IsLoaded, Noted, Kept, Ahead

\* A request saves its actor's next state, in memory and, unless the file is
\* left alone or torn, on disk; and tells its client what it will.
LEMMA SaveStep ==
  ASSUME Inv, NEW r \in Requests, IsActive(r),
         NEW at \in {"running", "ended"}, NEW told,
         mem' = [mem EXCEPT ![target[r]] = Saving(r)],
         \/ disk' = disk
         \/ \E f \in {Torn, Saving(r)} : disk' = [disk EXCEPT ![target[r]] = f],
         handler' = [handler EXCEPT ![r] = at],
         \/ reply' = reply
         \/ reply[r] = "waiting" /\ told \in {"result", "failed"} /\ reply' = [reply EXCEPT ![r] = told],
         told = "result" => disk' = [disk EXCEPT ![target[r]] = Saving(r)],
         UNCHANGED <<up, target>>
  PROVE  Inv'
<1> DEFINE t == target[r]
<1>1. /\ mem[t] \in State /\ Saving(r) \in State /\ Saving(r) # NotLoaded /\ t \in Actors
      /\ Continues(Saving(r).history, mem[t].history)
      /\ InHistory(r, Saving(r))
  BY SavingContinues, MarkersOK DEF Inv, TypeOK
<1>2. up
  BY DEF Inv, Loaded
<1>3. TypeOK'
  BY <1>1, <1>2 DEF Inv, TypeOK
<1>4. Loaded'
  BY <1>1, <1>2 DEF Inv, TypeOK, Loaded, IsActive, IsLoaded
<1>5. mem'[t] = Saving(r) /\ \A a \in Actors : a # t => mem'[a] = mem[a]
  BY <1>1 DEF Inv, TypeOK
<1>6. \A q \in Requests : q # r => handler'[q] = handler[q] /\ reply'[q] = reply[q]
  BY DEF Inv, TypeOK
<1>7. Noted'
  <2> SUFFICES ASSUME NEW q \in Requests,
                      handler'[q] = "running" \/ (reply'[q] = "result" /\ IsLoaded(target[q])')
               PROVE  InHistory(q, mem'[target[q]])
    BY DEF Noted, InHistory
  <2>1. CASE q = r
    BY <1>1, <1>5, <2>1
  <2>2. CASE q # r /\ target[q] = t
    <3>1. InHistory(q, mem[t])
      BY <1>1, <1>6, <2>2, MarkersOK DEF Inv, Noted, IsLoaded
    <3> QED
      BY <1>1, <1>5, <2>2, <3>1, ContinuesKeeps
  <2>3. CASE target[q] # t
    <3>1. q # r /\ target[q] \in Actors
      BY <2>3 DEF Inv, TypeOK
    <3>2. mem'[target[q]] = mem[target[q]]
      BY <1>5, <2>3, <3>1
    <3> QED
      BY <1>6, <3>1, <3>2 DEF Inv, Noted, IsLoaded
  <2> QED
    BY <2>1, <2>2, <2>3
<1>8. \A a \in Actors : disk'[a] = disk[a] \/ (a = t /\ disk'[a] \in {Torn, Saving(r)})
  BY <1>1 DEF Inv, TypeOK
<1>9. Kept'
  <2> SUFFICES ASSUME NEW q \in Requests, reply'[q] = "result"
               PROVE  \/ disk'[target[q]] = Torn
                      \/ disk'[target[q]] \in State /\ InHistory(q, disk'[target[q]])
    BY DEF Kept, InHistory
  <2>1. CASE reply[q] # "result"
    <3>1. q = r /\ told = "result"
      BY <1>6, <2>1 DEF Inv, TypeOK
    <3>2. disk'[t] = Saving(r)
      BY <1>1, <3>1 DEF Inv, TypeOK
    <3> QED
      BY <1>1, <3>1, <3>2
  <2>2. CASE reply[q] = "result"
    <3>1. target[q] \in Actors
      BY DEF Inv, TypeOK
    <3>2. CASE disk'[target[q]] = disk[target[q]]
      BY <2>2, <3>2 DEF Inv, Kept
    <3>3. CASE target[q] = t /\ disk'[t] = Saving(r)
      <4>1. InHistory(q, mem[t])
        BY <1>1, <2>2, <3>3, MarkersOK DEF Inv, Noted, IsLoaded
      <4> QED
        BY <1>1, <3>3, <4>1, ContinuesKeeps
    <3> QED
      BY <1>8, <3>1, <3>2, <3>3
  <2> QED
    BY <2>1, <2>2
<1>10. Ahead'
  <2> SUFFICES ASSUME NEW a \in Actors, IsLoaded(a)', disk'[a] \in State
               PROVE  Continues(mem'[a].history, disk'[a].history)
    BY DEF Ahead, Continues
  <2>1. CASE a # t
    BY <1>5, <1>8, <2>1 DEF Inv, Ahead, IsLoaded
  <2>2. CASE a = t /\ disk'[a] = disk[a]
    <3>1. disk[t] \in State /\ Continues(mem[t].history, disk[t].history)
      BY <1>1, <2>2, MarkersOK DEF Inv, Ahead, IsLoaded
    <3> QED
      BY <1>1, <1>5, <2>2, <3>1, ContinuesTransitive
  <2>3. CASE a = t /\ disk'[a] = Saving(r)
    BY <1>1, <1>5, <2>3 DEF Continues, State
  <2> QED
    BY <1>8, <2>1, <2>2, <2>3, MarkersOK
<1> QED
  BY <1>3, <1>4, <1>7, <1>9, <1>10 DEF Inv

\* The process dies and leaves on file what was there, or, of one actor, a torn
\* file or the state that one of its requests was saving.
LEMMA DieStep ==
  ASSUME Inv, mem' = [a \in Actors |-> NotLoaded], up' = FALSE, target' = target,
         handler' \in [Requests -> {"none", "ended"}],
         reply' \in [Requests -> {"none", "waiting", "result", "failed", "unavailable"}],
         \A r \in Requests : reply'[r] = "result" => reply[r] = "result",
         disk' \in [Actors -> State \union {NoFile, Torn}],
         \A a \in Actors : \/ disk'[a] \in {disk[a], Torn}
                           \/ \E r \in Requests : target[r] = a /\ IsActive(r) /\ disk'[a] = Saving(r)
  PROVE  Inv'
<1>1. TypeOK'
  <2>1. mem' \in [Actors -> State \union {NotLoaded}] /\ \A a \in Actors : mem'[a] = NotLoaded
    OBVIOUS
  <2>2. handler' \in [Requests -> {"none", "body", "running", "ended"}]
    OBVIOUS
  <2>3. target' \in [Requests -> Actors]
    BY DEF Inv, TypeOK
  <2>4. up' \in BOOLEAN
    OBVIOUS
  <2> QED
    BY <2>1, <2>2, <2>3, <2>4 DEF TypeOK
<1>2. Loaded' /\ Noted' /\ Ahead'
  BY DEF Inv, TypeOK, Loaded, Noted, Ahead, IsActive, IsLoaded
<1>3. Kept'
  <2> SUFFICES ASSUME NEW q \in Requests, reply'[q] = "result"
               PROVE  \/ disk'[target[q]] = Torn
                      \/ disk'[target[q]] \in State /\ InHistory(q, disk'[target[q]])
    BY DEF Kept, InHistory
  <2>1. reply[q] = "result" /\ target[q] \in Actors
    BY DEF Inv, TypeOK
  <2>2. CASE disk'[target[q]] \in {disk[target[q]], Torn}
    BY <2>1, <2>2 DEF Inv, Kept
  <2>3. ASSUME NEW r \in Requests, target[r] = target[q], IsActive(r),
               disk'[target[q]] = Saving(r)
        PROVE  disk'[target[q]] \in State /\ InHistory(q, disk'[target[q]])
    <3>1. InHistory(q, mem[target[r]])
      BY <2>1, <2>3 DEF Inv, Noted, Loaded
    <3> QED
      BY <2>3, <3>1, SavingContinues, ContinuesKeeps
  <2> QED
    BY <2>1, <2>2, <2>3
<1> QED
  BY <1>1, <1>2, <1>3 DEF Inv

LEMMA NextInv == Inv /\ [Next]_vars => Inv'
<1> SUFFICES ASSUME Inv, [Next]_vars PROVE Inv'
  OBVIOUS
<1>1. ASSUME Crash PROVE Inv'
  <2>1. disk' \in [Actors -> State \union {NoFile, Torn}] /\ disk' = disk
    BY <1>1 DEF Crash, Inv, TypeOK
  <2>2. handler' \in [Requests -> {"none", "ended"}]
    BY <1>1 DEF Crash, Die
  <2>3. /\ reply' \in [Requests -> {"none", "waiting", "result", "failed", "unavailable"}]
        /\ \A r \in Requests : reply'[r] = "result" => reply[r] = "result"
    BY <1>1 DEF Crash, Die, Inv, TypeOK
  <2> QED
    BY <1>1, <2>1, <2>2, <2>3, DieStep DEF Crash, Die
<1>2. ASSUME Restart PROVE Inv'
  <2>1. TypeOK'
    BY <1>2 DEF Restart, Inv, TypeOK
  <2> QED
    BY <1>2, <2>1 DEF Restart, Inv, Loaded, Noted, Kept, Ahead, IsActive, IsLoaded, InHistory, Continues
<1>3. ASSUME NEW r \in Requests, Arrive(r) PROVE Inv'
  <2> DEFINE t == target[r]
  <2>1. t \in Actors /\ up
    BY <1>3 DEF Arrive, Inv, TypeOK
  <2>2. CASE IsLoaded(t)
    <3>1. mem' = mem
      BY <1>3, <2>1, <2>2 DEF Arrive, IsLoaded, Inv, TypeOK
    <3>2. TypeOK'
      BY <1>3, <3>1 DEF Arrive, Inv, TypeOK
    <3> QED
      BY <1>3, <2>1, <2>2, <3>1, <3>2
      DEF Arrive, Inv, TypeOK, Loaded, Noted, Kept, Ahead, IsActive, IsLoaded, InHistory, Continues
  <2>3. CASE ~IsLoaded(t)
    <3> DEFINE m == LoadState(t)
    <3>1. m # Torn /\ mem' = [mem EXCEPT ![t] = m]
      BY <1>3, <2>1, <2>3 DEF Arrive, IsLoaded, Inv, TypeOK
    <3>2. m \in State /\ m # NotLoaded /\ (disk[t] = NoFile \/ m = disk[t])
      <4>1. Default \in State
        BY DEF Default, State
      <4>2. disk[t] \in State \union {NoFile, Torn}
        BY <2>1 DEF Inv, TypeOK
      <4> QED
        BY <3>1, <4>1, <4>2, MarkersOK DEF LoadState
    <3>3. TypeOK'
      BY <1>3, <2>1, <3>1, <3>2 DEF Arrive, Inv, TypeOK
    <3>4. mem'[t] = m /\ \A a \in Actors : a # t => mem'[a] = mem[a]
      BY <2>1, <3>1 DEF Inv, TypeOK
    <3>5. Loaded'
      BY <1>3, <2>1, <3>2, <3>4 DEF Arrive, Inv, TypeOK, Loaded, IsActive, IsLoaded
    <3>6. Noted'
      <4> SUFFICES ASSUME NEW q \in Requests,
                          handler'[q] = "running" \/ (reply'[q] = "result" /\ IsLoaded(target[q])')
                   PROVE  InHistory(q, mem'[target[q]])
        BY <1>3 DEF Arrive, Noted, InHistory
      <4>1. target[q] \in Actors
        BY DEF Inv, TypeOK
      <4>2. q # r /\ handler'[q] = handler[q] /\ reply'[q] = reply[q] /\ target' = target
        BY <1>3 DEF Arrive, Inv, TypeOK
      <4>3. CASE target[q] # t
        BY <3>4, <4>1, <4>2, <4>3 DEF Inv, Noted, IsLoaded
      <4>4. CASE target[q] = t
        <5>1. reply[q] = "result"
          BY <2>3, <4>2, <4>4 DEF Inv, Loaded, IsActive
        <5> QED
          BY <3>1, <3>2, <3>4, <4>4, <5>1, MarkersOK DEF Inv, Kept, LoadState
      <4> QED
        BY <4>3, <4>4
    <3>7. Kept'
      BY <1>3 DEF Arrive, Inv, TypeOK, Kept, InHistory
    <3>8. Ahead'
      <4> SUFFICES ASSUME NEW a \in Actors, IsLoaded(a)', disk[a] \in State
                   PROVE  Continues(mem'[a].history, disk[a].history)
        BY <1>3 DEF Arrive, Ahead, Continues
      <4>1. CASE a = t
        <5>1. mem'[a] = disk[a]
          BY <3>2, <3>4, <4>1, MarkersOK
        <5> QED
          BY <5>1 DEF Continues, State
      <4>2. CASE a # t
        BY <3>4, <4>2 DEF Inv, Ahead, IsLoaded
      <4> QED
        BY <4>1, <4>2
    <3> QED
      BY <3>3, <3>5, <3>6, <3>7, <3>8 DEF Inv
  <2> QED
    BY <2>2, <2>3
<1>4. ASSUME NEW r \in Requests, ArriveKills(r) PROVE Inv'
  <2>1. disk' \in [Actors -> State \union {NoFile, Torn}] /\ disk' = disk
    BY <1>4 DEF ArriveKills, Inv, TypeOK
  <2>2. handler' \in [Requests -> {"none", "ended"}]
    BY <1>4 DEF ArriveKills
  <2>3. /\ reply' \in [Requests -> {"none", "waiting", "result", "failed", "unavailable"}]
        /\ \A q \in Requests : reply'[q] = "result" => reply[q] = "result"
    BY <1>4 DEF ArriveKills, Inv, TypeOK
  <2> QED
    BY <1>4, <2>1, <2>2, <2>3, DieStep DEF ArriveKills
<1>5. ASSUME NEW r \in Requests, ArriveDown(r) \/ Timeout(r) PROVE Inv'
  <2>1. TypeOK'
    BY <1>5 DEF ArriveDown, Timeout, Inv, TypeOK
  <2>2. \A q \in Requests : reply'[q] = "result" => reply[q] = "result"
    BY <1>5 DEF ArriveDown, Timeout, Inv, TypeOK
  <2>3. UNCHANGED <<up, mem, disk, handler, target>>
    BY <1>5 DEF ArriveDown, Timeout
  <2> QED
    BY <2>1, <2>2, <2>3 DEF Inv, Loaded, Noted, Kept, Ahead, IsActive, IsLoaded, InHistory, Continues
<1>6. ASSUME NEW r \in Requests, Begin(r) PROVE Inv'
  BY <1>6, SaveStep DEF Begin, IsActive
<1>7. ASSUME NEW r \in Requests, Finish(r) PROVE Inv'
  <2>1. reply' = reply \/ (reply[r] = "waiting" /\ reply' = [reply EXCEPT ![r] = "result"])
    BY <1>7 DEF Finish, Answer, Inv, TypeOK
  <2> QED
    BY <1>7, <2>1, SaveStep DEF Finish, IsActive
<1>8. ASSUME NEW r \in Requests, BadBody(r) PROVE Inv'
  <2>1. TypeOK'
    BY <1>8 DEF BadBody, Answer, Inv, TypeOK
  <2>2. \A q \in Requests : /\ reply'[q] = "result" => reply[q] = "result"
                            /\ handler'[q] \in {handler[q], "ended"}
    BY <1>8 DEF BadBody, Answer, Inv, TypeOK
  <2>3. UNCHANGED <<up, mem, disk, target>>
    BY <1>8 DEF BadBody
  <2> QED
    BY <2>1, <2>2, <2>3 DEF Inv, Loaded, Noted, Kept, Ahead, IsActive, IsLoaded, InHistory, Continues
<1>9. ASSUME NEW r \in Requests, SaveThrows(r) PROVE Inv'
  <2>1. reply' = reply \/ (reply[r] = "waiting" /\ reply' = [reply EXCEPT ![r] = "failed"])
    BY <1>9 DEF SaveThrows, Answer, Inv, TypeOK
  <2>2. /\ IsActive(r) /\ mem' = [mem EXCEPT ![target[r]] = Saving(r)]
        /\ \/ disk' = disk
           \/ \E f \in {Torn, Saving(r)} : disk' = [disk EXCEPT ![target[r]] = f]
        /\ handler' = [handler EXCEPT ![r] = "ended"] /\ UNCHANGED <<up, target>>
    BY <1>9 DEF SaveThrows, IsActive
  <2>3. \A told : told = "failed" =>
          /\ \/ reply' = reply
             \/ /\ reply[r] = "waiting" /\ told \in {"result", "failed"}
                /\ reply' = [reply EXCEPT ![r] = told]
          /\ told = "result" => disk' = [disk EXCEPT ![target[r]] = Saving(r)]
    BY <2>1
  <2>4. ASSUME NEW told, NEW at, told = "failed", at = "ended" PROVE Inv'
    <3>1. at \in {"running", "ended"} /\ handler' = [handler EXCEPT ![r] = at]
      BY <2>2, <2>4
    <3> QED
      BY <2>2, <2>3, <2>4, <3>1, SaveStep
  <2> QED
    BY <2>4
<1>10. ASSUME NEW r \in Requests, CrashSaving(r) PROVE Inv'
  <2>1. IsActive(r) /\ target[r] \in Actors
    BY <1>10 DEF CrashSaving, IsActive, Inv, TypeOK
  <2>2. PICK f \in {Torn, Saving(r)} : disk' = [disk EXCEPT ![target[r]] = f]
    BY <1>10 DEF CrashSaving
  <2>3. f \in State \union {NoFile, Torn} /\ disk \in [Actors -> State \union {NoFile, Torn}]
    BY <2>1, SavingContinues DEF Inv, TypeOK
  <2>4. /\ disk' \in [Actors -> State \union {NoFile, Torn}]
        /\ \A a \in Actors : disk'[a] = disk[a] \/ (a = target[r] /\ disk'[a] = f)
    BY <2>1, <2>2, <2>3
  <2>5. handler' \in [Requests -> {"none", "ended"}]
    BY <1>10 DEF CrashSaving, Die
  <2>6. /\ reply' \in [Requests -> {"none", "waiting", "result", "failed", "unavailable"}]
        /\ \A q \in Requests : reply'[q] = "result" => reply[q] = "result"
    BY <1>10 DEF CrashSaving, Die, Inv, TypeOK
  <2> QED
    BY <1>10, <2>1, <2>2, <2>4, <2>5, <2>6, DieStep DEF CrashSaving, Die
<1>11. CASE UNCHANGED vars
  <2>1. TypeOK'
    BY <1>11 DEF vars, Inv, TypeOK
  <2> QED
    BY <1>11, <2>1 DEF vars, Inv, Loaded, Noted, Kept, Ahead, IsActive, IsLoaded, InHistory, Continues
<1> QED
  BY <1>1, <1>2, <1>3, <1>4, <1>5, <1>6, <1>7, <1>8, <1>9, <1>10, <1>11 DEF Next

\* What is loaded, answered and on file goes together in every reachable state
\* of the service (agentos-service.mjs:55-112).
THEOREM InvHolds == Spec => []Inv
  BY InitInv, NextInv, PTL DEF Spec

\* The types hold in every reachable state.
THEOREM TypeCorrect == Spec => []TypeOK
  BY InvHolds, PTL DEF Inv

-----------------------------------------------------------------------------
(* What clients may count on *)

\* However many requests overlap on an actor, and wherever the process dies:
\* what a client was answered (agentos-service.mjs:73-83) is on file, unless
\* the file was torn.
THEOREM AnswersAreDurable == Spec => []AnsweredIsDurable
<1>1. Inv => AnsweredIsDurable
  BY DEF Inv, Kept, AnsweredIsDurable
<1> QED
  BY <1>1, InvHolds, PTL

\* No save, whichever request and whichever process makes it, forgets what is
\* on file, and no torn file is taken for a new actor.
THEOREM HistoriesAreExtended == Spec => HistoryOnlyExtended
<1> DEFINE Extended(a) ==
      /\ disk[a] \in State /\ disk'[a] # Torn =>
           disk'[a] \in State /\ IsPrefix(disk[a].history, disk'[a].history)
      /\ disk[a] = Torn /\ mem[a] = NotLoaded => disk'[a] = Torn /\ mem'[a] = NotLoaded
<1>1. Inv /\ [Next]_vars => \A a \in Actors : Extended(a)
  <2> SUFFICES ASSUME Inv, [Next]_vars, NEW a \in Actors PROVE Extended(a)
    OBVIOUS
  <2>1. disk[a] \in State =>
          disk[a].history \in Seq(Requests) /\ Continues(disk[a].history, disk[a].history)
    BY DEF State, Continues
  <2>2. \/ disk'[a] \in {disk[a], Torn}
        \/ \E r \in Requests : target[r] = a /\ IsActive(r) /\ disk'[a] = Saving(r)
    BY DEF Next, Crash, CrashSaving, Restart, Arrive, ArriveKills, ArriveDown, Begin, Finish,
       BadBody, SaveThrows, Timeout, vars, IsActive, Inv, TypeOK
  <2>3. disk[a] \in State /\ disk'[a] # Torn =>
          disk'[a] \in State /\ IsPrefix(disk[a].history, disk'[a].history)
    <3> SUFFICES ASSUME disk[a] \in State, disk'[a] # Torn
                 PROVE  disk'[a] \in State /\ IsPrefix(disk[a].history, disk'[a].history)
      OBVIOUS
    <3>1. CASE disk'[a] = disk[a]
      BY <2>1, <3>1, ContinuesIsPrefix
    <3>2. ASSUME NEW r \in Requests, target[r] = a, IsActive(r), disk'[a] = Saving(r)
          PROVE  disk'[a] \in State /\ IsPrefix(disk[a].history, disk'[a].history)
      <4>1. /\ mem[a] \in State /\ Saving(r) \in State
            /\ Continues(Saving(r).history, mem[a].history)
        BY <3>2, SavingContinues
      <4>2. Continues(mem[a].history, disk[a].history)
        BY <4>1, MarkersOK DEF Inv, Ahead, IsLoaded
      <4>3. Continues(Saving(r).history, disk[a].history)
        BY <4>1, <4>2, ContinuesTransitive
      <4>4. Saving(r).history \in Seq(Requests)
        BY <4>1 DEF State
      <4> QED
        BY <2>1, <3>2, <4>1, <4>3, <4>4, ContinuesIsPrefix
    <3> QED
      BY <2>2, <3>1, <3>2
  <2>4. disk[a] = Torn /\ mem[a] = NotLoaded => disk'[a] = Torn /\ mem'[a] = NotLoaded
    <3> SUFFICES ASSUME disk[a] = Torn, mem[a] = NotLoaded
                 PROVE  disk'[a] = Torn /\ mem'[a] = NotLoaded
      OBVIOUS
    <3>1. \A r \in Requests : target[r] = a => ~IsActive(r)
      BY DEF Inv, Loaded, IsLoaded
    <3>2. disk'[a] = Torn
      BY <2>2, <3>1
    <3>3. LoadState(a) = Torn
      BY MarkersOK DEF LoadState
    <3>4. mem'[a] = NotLoaded
      BY <3>1, <3>3 DEF Next, Crash, CrashSaving, Die, Restart, Arrive, ArriveKills, ArriveDown,
         Begin, Finish, BadBody, SaveThrows, Timeout, vars, IsActive, Inv, TypeOK
    <3> QED
      BY <3>2, <3>4
  <2> QED
    BY <2>3, <2>4
<1>2. Inv /\ [Next]_vars => [\A a \in Actors : Extended(a)]_vars
  BY <1>1
<1> QED
  BY <1>2, InvHolds, PTL DEF Spec, HistoryOnlyExtended

-----------------------------------------------------------------------------
(* ... whichever of the two services has the port *)

\* Each step of the two services is one of the agent service or leaves its
\* state alone.
LEMMA ServicesImplementAgent == ServicesSpec => Spec
<1>1. ServicesInit => Init
  BY DEF ServicesInit
<1>2. [AgentosStep \/ MemoryStep]_allVars => [Next]_vars
  BY DEF AgentosStep, MemoryStep, allVars, vars
<1> QED
  BY <1>1, <1>2, PTL DEF ServicesSpec, Spec

\* What was answered is on file and histories are extended, for any number of
\* actors and requests and whichever service was started.
THEOREM ServicesKeepAnswers == ServicesSpec => []AnsweredIsDurable /\ HistoryOnlyExtended
  BY ServicesImplementAgent, AnswersAreDurable, HistoriesAreExtended, PTL

-----------------------------------------------------------------------------
(* The in-memory service.  What is asked of code that runs holds from the  *)
(* moment its request is parsed: the map has an actor for it, its own or   *)
(* the one of a later request of its packet.                               *)

Entry == [status : {"ready", "executing"}, history : Seq(Calls)]
Members(c) == {packet[c][k] : k \in DOMAIN packet[c]}

ReplacedBy(c, d) ==
  /\ d \in Members(c) \ {c} /\ call[d].id = call[c].id
  /\ call[d].actor = actors[call[c].id]

MapHas(c) ==
  /\ call[c].id \in Actors /\ actors[call[c].id] # Nothing
  /\ call[c].actor = actors[call[c].id] \/ \E d \in Calls : ReplacedBy(c, d)

MemoryInv ==
  /\ Memory!TypeOK
  /\ \A c \in Calls : \A d \in Members(c) : call[d].at # "no"
  /\ \A c \in Calls : call[c].at \in {"body", "running"} => MapHas(c)
  /\ \A c \in Calls : call[c].at = "running" =>
       \E k \in DOMAIN made[call[c].actor].history : made[call[c].actor].history[k] = c
  /\ \A k \in DOMAIN made : made[k].status = "executing" =>
       \E c \in Calls : call[c].at = "running" /\ call[c].actor = k

LEMMA MemoryShows == MemoryInv => ExecutedIsShown
<1> SUFFICES ASSUME MemoryInv PROVE ExecutedIsShown
  OBVIOUS
<1>1. ASSUME NEW c \in Calls, call[c].at = "running"
      PROVE  /\ \E k \in DOMAIN made[call[c].actor].history : made[call[c].actor].history[k] = c
             /\ call[c].actor = actors[call[c].id] \/ \E d \in Calls : ReplacedBy(c, d)
  BY <1>1 DEF MemoryInv, MapHas
<1>2. \A k \in DOMAIN made : made[k].status = "executing" =>
        \E c \in Calls : call[c].at = "running" /\ call[c].actor = k
  BY DEF MemoryInv
<1> QED
  BY <1>1, <1>2 DEF ExecutedIsShown, Memory!ExecutedIsShown, Memory!Replaced, Memory!Actor,
     ReplacedBy, Members, Memory!Range

LEMMA SameCardinality == \A S : Memory!Cardinality(S) = Cardinality(S)
  BY DEF Memory!Cardinality, Cardinality

LEMMA SameMax == \A S : Memory!Max(S) = Max(S)
  BY DEF Memory!Max, Max

LEMMA MaxIsMember ==
  ASSUME NEW n \in Nat, NEW S \in SUBSET (1..n), S # {}
  PROVE  Max(S) \in S
<1> DEFINE T == {n - x : x \in S}
           R == OpToRel(<, Nat)
<1>1. T \subseteq Nat /\ T # {}
  <2>1. \A x \in S : n - x \in Nat
    OBVIOUS
  <2> QED
    BY <2>1
<1>2. IsWellFoundedOn(R, Nat)
  BY NatLessThanWellFounded
<1> HIDE DEF T, R
<1>3. PICK l \in T : \A y \in T : <<y, l>> \notin R
  BY <1>1, <1>2, WFMin
<1>4. \A y \in T : ~ y < l
  BY <1>1, <1>3 DEF R, OpToRel
<1>5. PICK m \in S : l = n - m
  BY <1>3 DEF T
<1>6. \A x \in S : ~ n - x < n - m
  BY <1>4, <1>5 DEF T
<1>7. \A x \in S : m >= x
  BY <1>6
<1> QED
  BY <1>7 DEF Max

LEMMA PacketTyped ==
  ASSUME NEW p \in Memory!Packets
  PROVE  \E n \in Nat :
           /\ DOMAIN p = 1..n
           /\ \A k \in 1..n : /\ p[k].call \in Calls /\ p[k].id \in Actors
                              /\ p[k].wants \in {"execute", "look"}
           /\ \A j, k \in 1..n : p[j].call = p[k].call => j = k
<1>1. PICK n \in 0..MaxTogether : p \in [1..n -> Memory!Message]
  BY DEF Memory!Packets, Memory!SeqOf
<1>2. n \in Nat
  BY NothingIsNoActor
<1>3. \A k \in 1..n : p[k] \in Memory!Message
  BY <1>1
<1>4. \A k \in 1..n : p[k].call \in Calls /\ p[k].id \in Actors /\ p[k].wants \in {"execute", "look"}
  BY <1>3 DEF Memory!Message
<1> DEFINE f == [k \in DOMAIN p |-> p[k].call]
<1>5. \A j, k \in DOMAIN f : f[j] = f[k] => j = k
  BY DEF Memory!Packets, Memory!IsInjective
<1> QED
  BY <1>1, <1>2, <1>4, <1>5

\* The actors a packet creates come after those there are.
LEMMA CreatorsCounted ==
  ASSUME NEW p, NEW n \in Nat, DOMAIN p = 1..n, Len(made) \in Nat
  PROVE  /\ Memory!Creators(p) \in SUBSET (1..n)
         /\ Memory!Cardinality(Memory!Creators(p)) \in Nat
         /\ \A k \in Memory!Creators(p) :
              /\ Memory!MadeFor(p, k) > Len(made)
              /\ Memory!MadeFor(p, k) \in 1..(Len(made) + Memory!Cardinality(Memory!Creators(p)))
<1> DEFINE C == Memory!Creators(p)
<1>1. C \in SUBSET (1..n)
  BY DEF Memory!Creators
<1> HIDE DEF C
<1>2. IsFiniteSet(C) /\ Cardinality(C) \in Nat
  <2>1. IsFiniteSet(1..n)
    BY FS_Interval
  <2> QED
    BY <1>1, <2>1, FS_Subset, FS_CardinalityType
<1>3. ASSUME NEW k \in C
      PROVE  Cardinality({j \in C : j <= k}) \in 1..Cardinality(C)
  <2> DEFINE B == {j \in C : j <= k}
  <2>1. B \in SUBSET C /\ k \in B
    BY <1>1
  <2> HIDE DEF B
  <2>2. IsFiniteSet(B) /\ Cardinality(B) \in Nat /\ Cardinality(B) <= Cardinality(C)
    BY <1>2, <2>1, FS_Subset, FS_CardinalityType
  <2>3. Cardinality(B) # 0
    BY <2>1, <2>2, FS_EmptySet
  <2> QED
    BY <1>2, <2>2, <2>3 DEF B
<1>4. ASSUME NEW k \in C
      PROVE  Memory!MadeFor(p, k) = Len(made) + Cardinality({j \in C : j <= k})
  BY SameCardinality DEF Memory!MadeFor, C
<1>5. ASSUME NEW k \in C
      PROVE  /\ Memory!MadeFor(p, k) > Len(made)
             /\ Memory!MadeFor(p, k) \in 1..(Len(made) + Cardinality(C))
  <2>1. PICK m \in 1..Cardinality(C) : Memory!MadeFor(p, k) = Len(made) + m
    BY <1>3, <1>4
  <2> QED
    BY <1>2, <2>1
<1> QED
  BY <1>1, <1>2, <1>5, SameCardinality DEF C

\* The map has for an id what it had, or what the last one for it created.
LEMMA StoredFor ==
  ASSUME NEW p, NEW n \in Nat, DOMAIN p = 1..n, NEW id
  PROVE  \/ Memory!Stored(p, id) = actors[id] /\ \A k \in Memory!Creators(p) : p[k].id # id
         \/ \E k \in Memory!Creators(p) :
              p[k].id = id /\ Memory!Stored(p, id) = Memory!MadeFor(p, k)
<1> DEFINE mine == {k \in Memory!Creators(p) : p[k].id = id}
<1>1. mine \in SUBSET (1..n)
  BY DEF Memory!Creators
<1>2. Memory!Stored(p, id) = IF mine = {} THEN actors[id] ELSE Memory!MadeFor(p, Max(mine))
  BY SameMax DEF Memory!Stored
<1>3. CASE mine = {}
  <2>1. \A k \in Memory!Creators(p) : p[k].id # id
    BY <1>3
  <2> QED
    BY <1>2, <1>3, <2>1
<1>4. CASE mine # {}
  <2> HIDE DEF mine
  <2>1. Max(mine) \in mine
    BY <1>1, <1>4, MaxIsMember
  <2> QED
    BY <1>2, <1>4, <2>1 DEF mine
<1> QED
  BY <1>3, <1>4

LEMMA MemoryTyped ==
  ASSUME Memory!TypeOK
  PROVE  /\ made \in Seq(Entry) /\ Len(made) \in Nat /\ DOMAIN made = 1..Len(made)
         /\ \A k \in 1..Len(made) : made[k] \in Entry
         /\ actors \in [Actors -> (1..Len(made)) \cup {Nothing}] /\ Nothing \notin 1..Len(made)
<1>1. made \in Seq(Entry)
  BY DEF Memory!TypeOK, Entry
<1>2. Len(made) \in Nat /\ DOMAIN made = 1..Len(made) /\ \A k \in 1..Len(made) : made[k] \in Entry
  BY <1>1, LenProperties, ElementOfSeq
<1>3. actors \in [Actors -> (1..Len(made)) \cup {Nothing}]
  BY <1>2 DEF Memory!TypeOK
<1>4. Nothing \notin 1..Len(made)
  BY <1>2, NothingIsNoActor
<1> QED
  BY <1>1, <1>2, <1>3, <1>4

\* What a packet does: new actors, and in the map, what it had for an id or
\* the last new one for it.
LEMMA ParseEffect ==
  ASSUME MemoryInv, NEW p \in Memory!Packets, Memory!Parse(p), NEW n \in Nat, DOMAIN p = 1..n,
         \A k \in 1..n : /\ p[k].call \in Calls /\ p[k].id \in Actors
                         /\ p[k].wants \in {"execute", "look"},
         \A j, k \in 1..n : p[j].call = p[k].call => j = k
  PROVE  /\ made' \in Seq(Entry) /\ Len(made') \in Nat /\ DOMAIN made' = 1..Len(made')
         /\ Len(made) <= Len(made')
         /\ \A k \in 1..Len(made) : made'[k] = made[k]
         /\ \A k \in 1..Len(made') : k > Len(made) => made'[k].status = "ready"
         /\ \A k \in 1..n : /\ call[p[k].call].at = "no"
                            /\ call'[p[k].call] =
                                 [id |-> p[k].id, actor |-> Memory!Gets(p, k),
                                  at |-> IF p[k].wants = "execute" THEN "body" ELSE "ended"]
                            /\ packet'[p[k].call] = [j \in 1..n |-> p[j].call]
                            /\ Memory!Gets(p, k) \in 1..Len(made')
         /\ \A c \in Calls : (\A k \in 1..n : p[k].call # c) =>
              call'[c] = call[c] /\ packet'[c] = packet[c]
         /\ actors' \in [Actors -> (1..Len(made')) \cup {Nothing}]
         /\ \A i \in Actors :
              \/ actors'[i] = actors[i] /\ \A k \in 1..n : p[k].id = i => Memory!Gets(p, k) = actors[i]
              \/ /\ actors[i] = Nothing /\ actors'[i] # Nothing
                 /\ \E k \in 1..n : p[k].id = i /\ actors'[i] = Memory!Gets(p, k)
<1> DEFINE N == Memory!Cardinality(Memory!Creators(p))
           m == Len(made)
           news == [k \in 1..N |-> Memory!New]
<1>1. /\ made \in Seq(Entry) /\ m \in Nat /\ actors \in [Actors -> (1..m) \cup {Nothing}]
      /\ Nothing \notin 1..m
  BY MemoryTyped DEF MemoryInv
<1>2. /\ Memory!Creators(p) \in SUBSET (1..n) /\ N \in Nat
      /\ \A k \in Memory!Creators(p) : Memory!MadeFor(p, k) > m /\ Memory!MadeFor(p, k) \in 1..(m + N)
  BY <1>1, CreatorsCounted
<1>3. made' = made \o news
  BY DEF Memory!Parse
<1>4. news \in Seq(Entry) /\ Len(news) = N /\ \A k \in 1..N : news[k] = Memory!New
  <2>1. Memory!New \in Entry
    BY EmptySeq DEF Memory!New, Entry
  <2> HIDE DEF N
  <2> QED
    BY <1>2, <2>1
<1>5. Memory!New.status = "ready"
  BY DEF Memory!New
<1> HIDE DEF N, news, m
<1>6. /\ made' \in Seq(Entry) /\ Len(made') = m + N
      /\ \A k \in 1..(m + N) : made'[k] = IF k <= m THEN made[k] ELSE news[k - m]
  <2>1. PICK s : s = made \o news
    OBVIOUS
  <2>3. /\ s \in Seq(Entry) /\ Len(s) = Len(made) + Len(news)
        /\ \A k \in 1..(Len(made) + Len(news)) :
             s[k] = IF k <= Len(made) THEN made[k] ELSE news[k - Len(made)]
    <3>1. made \in Seq(Entry)
      BY <1>1
    <3>2. news \in Seq(Entry)
      BY <1>4
    <3> QED
      BY <2>1, <3>1, <3>2, ConcatProperties
  <2>4. made' = s
    BY <1>3, <2>1
  <2>2. m = Len(made) /\ Len(news) = N
    BY <1>4 DEF m
  <2> QED
    BY <2>2, <2>3, <2>4
<1>7. /\ Len(made') \in Nat /\ DOMAIN made' = 1..Len(made') /\ m <= Len(made')
      /\ \A k \in 1..m : made'[k] = made[k]
  <2>1. DOMAIN made' = 1..Len(made')
    BY <1>6, LenProperties
  <2> QED
    BY <1>1, <1>2, <1>6, <2>1
<1>8. ASSUME NEW k \in 1..Len(made'), k > m PROVE made'[k].status = "ready"
  <2>1. k \in 1..(m + N) /\ ~ k <= m /\ k - m \in 1..N
    BY <1>1, <1>2, <1>6, <1>8
  <2> QED
    BY <1>4, <1>5, <1>6, <2>1
<1>9. ASSUME NEW k \in 1..n
      PROVE  /\ call[p[k].call].at = "no"
             /\ call'[p[k].call] =
                  [id |-> p[k].id, actor |-> Memory!Gets(p, k),
                   at |-> IF p[k].wants = "execute" THEN "body" ELSE "ended"]
             /\ packet'[p[k].call] = [j \in 1..n |-> p[j].call]
  <2> DEFINE c == p[k].call
             j == CHOOSE j \in DOMAIN p : p[j].call = c
  <2>1. c \in Calls /\ \E i \in DOMAIN p : p[i].call = c
    OBVIOUS
  <2>2. j \in DOMAIN p /\ p[j].call = c
    BY <2>1
  <2>3. j = k
    BY <2>2
  <2>4. /\ call'[c] = [id |-> p[j].id, actor |-> Memory!Gets(p, j),
                       at |-> IF p[j].wants = "execute" THEN "body" ELSE "ended"]
        /\ packet'[c] = [i \in DOMAIN p |-> p[i].call]
        /\ \A i \in DOMAIN p : call[p[i].call].at = "no"
    BY <2>1 DEF Memory!Parse
  <2> HIDE DEF j
  <2> QED
    BY <2>3, <2>4
<1>10. \A c \in Calls : (\A k \in 1..n : p[k].call # c) => call'[c] = call[c] /\ packet'[c] = packet[c]
  BY DEF Memory!Parse
<1>11. ASSUME NEW k \in 1..n
       PROVE  Memory!Gets(p, k) \in 1..Len(made')
  <2>1. CASE k \in Memory!Creators(p)
    BY <1>2, <1>6, <2>1 DEF Memory!Gets
  <2>2. CASE k \notin Memory!Creators(p)
    <3>1. Memory!Gets(p, k) = actors[p[k].id] /\ actors[p[k].id] # Nothing
      BY <2>2 DEF Memory!Gets, Memory!Creators, Memory!Creates
    <3>2. actors[p[k].id] \in 1..m
      BY <1>1, <3>1
    <3> QED
      BY <1>1, <1>7, <3>1, <3>2
  <2> QED
    BY <2>1, <2>2
<1>12. actors' = [i \in Actors |-> Memory!Stored(p, i)]
  BY DEF Memory!Parse
<1>13. ASSUME NEW i \in Actors
       PROVE  /\ actors'[i] \in (1..Len(made')) \cup {Nothing}
              /\ \/ actors'[i] = actors[i] /\ \A k \in 1..n : p[k].id = i => Memory!Gets(p, k) = actors[i]
                 \/ /\ actors[i] = Nothing /\ actors'[i] # Nothing
                    /\ \E k \in 1..n : p[k].id = i /\ actors'[i] = Memory!Gets(p, k)
  <2>1. actors'[i] = Memory!Stored(p, i)
    BY <1>12
  <2>2. CASE Memory!Stored(p, i) = actors[i] /\ \A k \in Memory!Creators(p) : p[k].id # i
    <3>1. \A k \in 1..n : p[k].id = i => Memory!Gets(p, k) = actors[i]
      BY <2>2 DEF Memory!Gets
    <3>2. actors[i] \in (1..Len(made')) \cup {Nothing}
      BY <1>1, <1>7
    <3> QED
      BY <2>1, <2>2, <3>1, <3>2
  <2>3. ASSUME NEW k \in Memory!Creators(p), p[k].id = i, Memory!Stored(p, i) = Memory!MadeFor(p, k)
        PROVE  /\ actors[i] = Nothing /\ actors'[i] # Nothing
               /\ k \in 1..n /\ actors'[i] = Memory!Gets(p, k)
    <3>1. k \in 1..n /\ actors[i] = Nothing
      BY <1>2, <2>3 DEF Memory!Creators, Memory!Creates
    <3>2. actors'[i] = Memory!Gets(p, k)
      BY <2>1, <2>3 DEF Memory!Gets
    <3>3. Nothing \notin 1..Len(made')
      BY <1>7, NothingIsNoActor
    <3> QED
      BY <1>11, <3>1, <3>2, <3>3
  <2> QED
    BY <1>11, <2>2, <2>3, StoredFor
<1>14. actors' \in [Actors -> (1..Len(made')) \cup {Nothing}]
  BY <1>12, <1>13
<1> QED
  BY <1>6, <1>7, <1>8, <1>9, <1>10, <1>11, <1>13, <1>14 DEF m

LEMMA MembersAreCalls ==
  ASSUME packet \in [Calls -> Seq(Calls)], NEW c \in Calls
  PROVE  Members(c) \subseteq Calls
<1> SUFFICES ASSUME NEW k \in DOMAIN packet[c] PROVE packet[c][k] \in Calls
  BY DEF Members
<1>1. packet[c] \in Seq(Calls)
  OBVIOUS
<1> QED
  BY <1>1, LenProperties, ElementOfSeq

\* A packet that arrives keeps all of it.
LEMMA ParseKeeps ==
  ASSUME MemoryInv, NEW p \in Memory!Packets, Memory!Parse(p)
  PROVE  MemoryInv'
<1>1. PICK n \in Nat :
        /\ DOMAIN p = 1..n
        /\ \A k \in 1..n : /\ p[k].call \in Calls /\ p[k].id \in Actors
                           /\ p[k].wants \in {"execute", "look"}
        /\ \A j, k \in 1..n : p[j].call = p[k].call => j = k
  BY PacketTyped
<1>2. /\ made' \in Seq(Entry) /\ Len(made') \in Nat /\ DOMAIN made' = 1..Len(made')
      /\ Len(made) <= Len(made')
      /\ \A k \in 1..Len(made) : made'[k] = made[k]
      /\ \A k \in 1..Len(made') : k > Len(made) => made'[k].status = "ready"
      /\ \A k \in 1..n : /\ call[p[k].call].at = "no"
                         /\ call'[p[k].call] =
                              [id |-> p[k].id, actor |-> Memory!Gets(p, k),
                               at |-> IF p[k].wants = "execute" THEN "body" ELSE "ended"]
                         /\ packet'[p[k].call] = [j \in 1..n |-> p[j].call]
                         /\ Memory!Gets(p, k) \in 1..Len(made')
      /\ \A c \in Calls : (\A k \in 1..n : p[k].call # c) =>
           call'[c] = call[c] /\ packet'[c] = packet[c]
      /\ actors' \in [Actors -> (1..Len(made')) \cup {Nothing}]
      /\ \A i \in Actors :
           \/ actors'[i] = actors[i] /\ \A k \in 1..n : p[k].id = i => Memory!Gets(p, k) = actors[i]
           \/ /\ actors[i] = Nothing /\ actors'[i] # Nothing
              /\ \E k \in 1..n : p[k].id = i /\ actors'[i] = Memory!Gets(p, k)
  BY <1>1, ParseEffect
<1>3. /\ Len(made) \in Nat /\ DOMAIN made = 1..Len(made)
      /\ actors \in [Actors -> (1..Len(made)) \cup {Nothing}] /\ Nothing \notin 1..Len(made')
      /\ 1..Len(made) \subseteq 1..Len(made')
  <2>1. Nothing \notin 1..Len(made')
    BY <1>2, NothingIsNoActor
  <2> QED
    BY <1>2, <2>1, MemoryTyped DEF MemoryInv
<1>4. /\ call \in [Calls -> [id : Actors \cup {Nothing}, actor : Nat \cup {Nothing},
                             at : {"no", "body", "running", "ended", "lost"}]]
      /\ packet \in [Calls -> Seq(Calls)]
      /\ \A c \in Calls : call[c].at \in {"body", "running"} => call[c].actor \in 1..Len(made)
  BY <1>3 DEF MemoryInv, Memory!TypeOK
<1>5. /\ \A c \in Calls : \A d \in Members(c) : call[d].at # "no"
      /\ \A c \in Calls : call[c].at \in {"body", "running"} => MapHas(c)
      /\ \A c \in Calls : call[c].at = "running" =>
           \E k \in DOMAIN made[call[c].actor].history : made[call[c].actor].history[k] = c
      /\ \A k \in DOMAIN made : made[k].status = "executing" =>
           \E c \in Calls : call[c].at = "running" /\ call[c].actor = k
  BY DEF MemoryInv
<1>6. \A c \in Calls : Members(c) \subseteq Calls
  BY <1>4, MembersAreCalls
\* Those of the packet, and the others.
<1>7. ASSUME NEW k \in 1..n
      PROVE  /\ call'[p[k].call].id = p[k].id
             /\ call'[p[k].call].actor = Memory!Gets(p, k)
             /\ call'[p[k].call].at \in {"body", "ended"}
             /\ Members(p[k].call)' = {p[j].call : j \in 1..n}
             /\ call[p[k].call].at = "no"
             /\ Memory!Gets(p, k) \in 1..Len(made') /\ Memory!Gets(p, k) \in Nat
  <2>1. Memory!Gets(p, k) \in 1..Len(made')
    BY <1>2
  <2>2. Memory!Gets(p, k) \in Nat
    BY <2>1
  <2>3. /\ call[p[k].call].at = "no"
        /\ call'[p[k].call] =
             [id |-> p[k].id, actor |-> Memory!Gets(p, k),
              at |-> IF p[k].wants = "execute" THEN "body" ELSE "ended"]
        /\ packet'[p[k].call] = [j \in 1..n |-> p[j].call]
    BY <1>2
  <2>4. Members(p[k].call)' = {p[j].call : j \in 1..n}
    BY <2>3 DEF Members
  <2> QED
    BY <2>1, <2>2, <2>3, <2>4
<1>8. ASSUME NEW c \in Calls, \A k \in 1..n : p[k].call # c
      PROVE  call'[c] = call[c] /\ packet'[c] = packet[c] /\ Members(c)' = Members(c)
  <2>1. call'[c] = call[c] /\ packet'[c] = packet[c]
    BY <1>2, <1>8
  <2> QED
    BY <2>1 DEF Members
<1>9. ASSUME NEW d \in Calls, call[d].at # "no"
      PROVE  call'[d] = call[d]
  <2>1. \A k \in 1..n : p[k].call # d
    BY <1>7, <1>9
  <2> QED
    BY <1>8, <2>1
<1>10. Memory!TypeOK'
  <2>1. call' \in [Calls -> [id : Actors \cup {Nothing}, actor : Nat \cup {Nothing},
                             at : {"no", "body", "running", "ended", "lost"}]]
    <3>1. ASSUME NEW c \in Calls
          PROVE  call'[c] \in [id : Actors \cup {Nothing}, actor : Nat \cup {Nothing},
                               at : {"no", "body", "running", "ended", "lost"}]
      <4>1. CASE \A k \in 1..n : p[k].call # c
        BY <1>4, <1>8, <4>1
      <4>2. ASSUME NEW k \in 1..n, p[k].call = c
            PROVE  call'[c] \in [id : Actors \cup {Nothing}, actor : Nat \cup {Nothing},
                                 at : {"no", "body", "running", "ended", "lost"}]
        <5>1. Memory!Gets(p, k) \in Nat /\ p[k].id \in Actors
          BY <1>1, <1>7
        <5>2. call'[c] = [id |-> p[k].id, actor |-> Memory!Gets(p, k),
                          at |-> IF p[k].wants = "execute" THEN "body" ELSE "ended"]
          BY <1>2, <4>2
        <5> QED
          BY <5>1, <5>2
      <4> QED
        BY <4>1, <4>2
    <3>2. call' = [c \in Calls |-> call'[c]]
      BY DEF Memory!Parse
    <3> QED
      BY <3>1, <3>2
  <2>2. packet' \in [Calls -> Seq(Calls)]
    <3>1. [j \in 1..n |-> p[j].call] \in Seq(Calls)
      BY <1>1
    <3>2. ASSUME NEW c \in Calls PROVE packet'[c] \in Seq(Calls)
      <4>1. CASE \A k \in 1..n : p[k].call # c
        BY <1>4, <1>8, <4>1
      <4>2. ASSUME NEW k \in 1..n, p[k].call = c PROVE packet'[c] \in Seq(Calls)
        <5>1. packet'[c] = [j \in 1..n |-> p[j].call]
          BY <1>2, <4>2
        <5> QED
          BY <3>1, <5>1
      <4> QED
        BY <4>1, <4>2
    <3>3. packet' = [c \in Calls |-> packet'[c]]
      BY DEF Memory!Parse
    <3> QED
      BY <3>2, <3>3
  <2>3. ASSUME NEW c \in Calls, call'[c].at \in {"body", "running"}
        PROVE  call'[c].actor \in 1..Len(made')
    <3>1. CASE \A k \in 1..n : p[k].call # c
      BY <1>3, <1>4, <1>8, <2>3, <3>1
    <3>2. ASSUME NEW k \in 1..n, p[k].call = c PROVE call'[c].actor \in 1..Len(made')
      BY <1>7, <3>2
    <3> QED
      BY <3>1, <3>2
  <2> QED
    BY <1>2, <2>1, <2>2, <2>3 DEF Memory!TypeOK, Entry
<1>11. ASSUME NEW c \in Calls, NEW d \in Members(c)'
       PROVE  call'[d].at # "no"
  <2>1. CASE \A k \in 1..n : p[k].call # c
    BY <1>5, <1>6, <1>8, <1>9, <1>11, <2>1
  <2>2. ASSUME NEW k \in 1..n, p[k].call = c
        PROVE  call'[d].at # "no"
    BY <1>7, <1>11, <2>2
  <2> QED
    BY <2>1, <2>2
<1>12. ASSUME NEW c \in Calls, call'[c].at \in {"body", "running"}
       PROVE  MapHas(c)'
  <2>1. CASE \A k \in 1..n : p[k].call # c
    <3>1. MapHas(c) /\ call'[c] = call[c] /\ Members(c)' = Members(c)
      BY <1>5, <1>8, <1>12, <2>1
    <3>2. call[c].id \in Actors /\ actors'[call[c].id] = actors[call[c].id]
      BY <1>2, <3>1 DEF MapHas
    <3>3. ASSUME NEW d \in Calls, ReplacedBy(c, d)
          PROVE  ReplacedBy(c, d)'
      BY <1>5, <1>9, <3>1, <3>2, <3>3 DEF ReplacedBy
    <3> QED
      BY <3>1, <3>2, <3>3 DEF MapHas
  <2>2. ASSUME NEW k \in 1..n, p[k].call = c
        PROVE  MapHas(c)'
    <3> DEFINE i == p[k].id
    <3>1. i \in Actors /\ call'[c].id = i /\ call'[c].actor = Memory!Gets(p, k)
      BY <1>1, <1>7, <2>2
    <3>2. CASE actors'[i] = actors[i] /\ \A j \in 1..n : p[j].id = i => Memory!Gets(p, j) = actors[i]
      <4>1. Memory!Gets(p, k) = actors'[i] /\ Memory!Gets(p, k) # Nothing
        BY <1>2, <1>3, <3>2
      <4> QED
        BY <3>1, <4>1 DEF MapHas
    <3>3. ASSUME NEW j \in 1..n, p[j].id = i, actors'[i] = Memory!Gets(p, j), actors'[i] # Nothing
          PROVE  MapHas(c)'
      <4>1. CASE j = k
        BY <3>1, <3>3, <4>1 DEF MapHas
      <4>2. CASE j # k
        <5>1. p[j].call \in Calls /\ p[j].call # c /\ p[j].call \in Members(c)'
          BY <1>1, <1>7, <2>2, <4>2
        <5>2. ReplacedBy(c, p[j].call)'
          BY <1>7, <3>1, <3>3, <5>1 DEF ReplacedBy
        <5> QED
          BY <3>1, <3>3, <5>1, <5>2 DEF MapHas
      <4> QED
        BY <4>1, <4>2
    <3> QED
      BY <1>2, <3>1, <3>2, <3>3
  <2> QED
    BY <2>1, <2>2
<1>13. ASSUME NEW c \in Calls, call'[c].at = "running"
       PROVE  \E k \in DOMAIN made'[call'[c].actor].history : made'[call'[c].actor].history[k] = c
  <2>1. \A k \in 1..n : p[k].call # c
    BY <1>7, <1>13
  <2>2. call'[c] = call[c] /\ call[c].actor \in 1..Len(made)
    BY <1>4, <1>8, <1>13, <2>1
  <2>3. made'[call'[c].actor] = made[call[c].actor]
    BY <1>2, <2>2
  <2> QED
    BY <1>5, <1>13, <2>2, <2>3
<1>14. ASSUME NEW k \in DOMAIN made', made'[k].status = "executing"
       PROVE  \E c \in Calls : call'[c].at = "running" /\ call'[c].actor = k
  <2>1. k \in 1..Len(made)
    BY <1>2, <1>3, <1>14
  <2>2. PICK c \in Calls : call[c].at = "running" /\ call[c].actor = k
    BY <1>2, <1>3, <1>5, <1>14, <2>1
  <2>3. call'[c] = call[c]
    BY <1>9, <2>2
  <2> QED
    BY <2>2, <2>3
<1> QED
  BY <1>10, <1>11, <1>12, <1>13, <1>14 DEF MemoryInv

\* What a request does when it goes on: it has been parsed and keeps its actor,
\* and there are as many actors.
LEMMA GoesOn ==
  ASSUME MemoryInv, NEW c \in Calls, NEW s \in {"running", "ended"},
         call[c].at \in {"body", "running"}, call' = [call EXCEPT ![c].at = s],
         UNCHANGED <<actors, packet>>, made' \in Seq(Entry), Len(made') = Len(made)
  PROVE  /\ Memory!TypeOK'
         /\ \A b \in Calls : \A d \in Members(b)' : call'[d].at # "no"
         /\ \A b \in Calls : call'[b].at \in {"body", "running"} => MapHas(b)'
         /\ DOMAIN made' = 1..Len(made)
         /\ call'[c].at = s /\ \A b \in Calls : /\ call'[b].actor = call[b].actor
                                                /\ b # c => call'[b] = call[b]
<1>1. /\ Len(made) \in Nat /\ DOMAIN made = 1..Len(made) /\ DOMAIN made' = 1..Len(made)
      /\ actors \in [Actors -> (1..Len(made)) \cup {Nothing}]
  <2>1. DOMAIN made' = 1..Len(made')
    BY LenProperties
  <2> QED
    BY <2>1, MemoryTyped DEF MemoryInv
<1>2. /\ call \in [Calls -> [id : Actors \cup {Nothing}, actor : Nat \cup {Nothing},
                             at : {"no", "body", "running", "ended", "lost"}]]
      /\ packet \in [Calls -> Seq(Calls)]
      /\ \A b \in Calls : call[b].at \in {"body", "running"} => call[b].actor \in 1..Len(made)
  BY <1>1 DEF MemoryInv, Memory!TypeOK
<1>3. /\ call' \in [Calls -> [id : Actors \cup {Nothing}, actor : Nat \cup {Nothing},
                              at : {"no", "body", "running", "ended", "lost"}]]
      /\ call'[c].at = s
      /\ \A b \in Calls : /\ call'[b].actor = call[b].actor /\ call'[b].id = call[b].id
                          /\ b # c => call'[b] = call[b]
  BY <1>2
<1>4. \A b \in Calls : call'[b].at \in {"body", "running"} => call[b].at \in {"body", "running"}
  BY <1>3
<1>5. Memory!TypeOK'
  BY <1>1, <1>2, <1>3, <1>4 DEF Memory!TypeOK, Entry
<1>6. \A b \in Calls : Members(b)' = Members(b)
  BY DEF Members
<1>7. \A d \in Calls : call[d].at # "no" => call'[d].at # "no"
  BY <1>3
<1>8. \A b \in Calls : \A d \in Members(b)' : call'[d].at # "no"
  BY <1>2, <1>6, <1>7, MembersAreCalls DEF MemoryInv
<1>9. ASSUME NEW b \in Calls, MapHas(b) PROVE MapHas(b)'
  <2>1. \A d \in Calls : ReplacedBy(b, d) => ReplacedBy(b, d)'
    BY <1>3, <1>6 DEF ReplacedBy
  <2> QED
    BY <1>3, <1>9, <2>1 DEF MapHas
<1>10. \A b \in Calls : call'[b].at \in {"body", "running"} => MapHas(b)'
  BY <1>4, <1>9 DEF MemoryInv
<1> QED
  BY <1>1, <1>3, <1>5, <1>8, <1>10

LEMMA ExecuteKeeps ==
  ASSUME MemoryInv, NEW c \in Calls, Memory!Execute(c)
  PROVE  MemoryInv'
<1> DEFINE a == call[c].actor
           h == Append(made[a].history, c)
<1>1. /\ call[c].at = "body" /\ call' = [call EXCEPT ![c].at = "running"]
      /\ UNCHANGED <<actors, packet>>
      /\ made' = [made EXCEPT ![a] = [status |-> "executing", history |-> h]]
  BY DEF Memory!Execute, Memory!Actor
<1>2. /\ made \in Seq(Entry) /\ Len(made) \in Nat /\ DOMAIN made = 1..Len(made)
      /\ \A k \in 1..Len(made) : made[k] \in Entry
  BY MemoryTyped DEF MemoryInv
<1>3. \A b \in Calls : call[b].at \in {"body", "running"} => call[b].actor \in 1..Len(made)
  BY <1>2 DEF MemoryInv, Memory!TypeOK
<1>4. a \in 1..Len(made) /\ made[a].history \in Seq(Calls)
  BY <1>1, <1>2, <1>3 DEF Entry
<1> DEFINE H == made[a].history
<1>5. /\ h \in Seq(Calls) /\ Len(H) \in Nat /\ DOMAIN H = 1..Len(H) /\ DOMAIN h = 1..(Len(H) + 1)
      /\ \A k \in 1..Len(H) : h[k] = H[k]
      /\ h[Len(H) + 1] = c
  <2>1. h \in Seq(Calls) /\ Len(h) = Len(H) + 1 /\ (\A k \in 1..Len(H) : h[k] = H[k]) /\ h[Len(H) + 1] = c
    BY <1>4, AppendProperties
  <2>2. Len(H) \in Nat /\ DOMAIN H = 1..Len(H)
    BY <1>4, LenProperties
  <2>3. DOMAIN h = 1..Len(h)
    BY <2>1, LenProperties
  <2> QED
    BY <2>1, <2>2, <2>3
<1> HIDE DEF h, H
<1>6. [status |-> "executing", history |-> h] \in Entry
  BY <1>5 DEF Entry
<1>7. /\ made' \in Seq(Entry) /\ Len(made') = Len(made)
      /\ \A k \in 1..Len(made) :
           made'[k] = IF k = a THEN [status |-> "executing", history |-> h] ELSE made[k]
  BY <1>1, <1>2, <1>4, <1>6, ExceptSeq
<1>8. /\ Memory!TypeOK'
      /\ \A b \in Calls : \A d \in Members(b)' : call'[d].at # "no"
      /\ \A b \in Calls : call'[b].at \in {"body", "running"} => MapHas(b)'
      /\ DOMAIN made' = 1..Len(made)
      /\ call'[c].at = "running"
      /\ \A b \in Calls : call'[b].actor = call[b].actor /\ (b # c => call'[b] = call[b])
  BY <1>1, <1>7, GoesOn
<1>9. ASSUME NEW b \in Calls, call'[b].at = "running"
      PROVE  \E k \in DOMAIN made'[call'[b].actor].history : made'[call'[b].actor].history[k] = b
  <2>1. CASE b = c
    <3>1. made'[call'[b].actor].history = h
      BY <1>4, <1>7, <1>8, <2>1
    <3>2. Len(H) + 1 \in DOMAIN h
      BY <1>5
    <3> QED
      BY <1>5, <2>1, <3>1, <3>2
  <2>2. CASE b # c
    <3>1. call'[b] = call[b] /\ call[b].actor \in 1..Len(made)
      BY <1>3, <1>8, <1>9, <2>2
    <3>2. PICK k \in DOMAIN made[call[b].actor].history : made[call[b].actor].history[k] = b
      BY <1>9, <3>1 DEF MemoryInv
    <3>3. CASE call[b].actor = a
      <4>1. made'[call'[b].actor].history = h /\ k \in DOMAIN H /\ H[k] = b
        BY <1>7, <3>1, <3>2, <3>3 DEF H
      <4>2. k \in DOMAIN h /\ h[k] = b
        BY <1>5, <4>1
      <4> QED
        BY <4>1, <4>2
    <3>4. CASE call[b].actor # a
      BY <1>7, <3>1, <3>2, <3>4
    <3> QED
      BY <3>3, <3>4
  <2> QED
    BY <2>1, <2>2
<1>10. ASSUME NEW k \in DOMAIN made', made'[k].status = "executing"
       PROVE  \E b \in Calls : call'[b].at = "running" /\ call'[b].actor = k
  <2>1. CASE k = a
    BY <1>8, <2>1
  <2>2. CASE k # a
    <3>1. k \in DOMAIN made /\ made[k].status = "executing"
      BY <1>2, <1>7, <1>8, <1>10, <2>2
    <3>2. PICK b \in Calls : call[b].at = "running" /\ call[b].actor = k
      BY <3>1 DEF MemoryInv
    <3>3. call'[b] = call[b]
      BY <1>1, <1>8, <3>2
    <3> QED
      BY <3>2, <3>3
  <2> QED
    BY <2>1, <2>2
<1> QED
  BY <1>8, <1>9, <1>10 DEF MemoryInv

LEMMA BadBodyKeeps ==
  ASSUME MemoryInv, NEW c \in Calls, Memory!BadBody(c)
  PROVE  MemoryInv'
<1>1. /\ call[c].at = "body" /\ call' = [call EXCEPT ![c].at = "ended"]
      /\ UNCHANGED <<actors, made, packet>>
  BY DEF Memory!BadBody
<1>2. made \in Seq(Entry)
  BY MemoryTyped DEF MemoryInv
<1>3. /\ Memory!TypeOK'
      /\ \A b \in Calls : \A d \in Members(b)' : call'[d].at # "no"
      /\ \A b \in Calls : call'[b].at \in {"body", "running"} => MapHas(b)'
      /\ call'[c].at = "ended"
      /\ \A b \in Calls : call'[b].actor = call[b].actor /\ (b # c => call'[b] = call[b])
  BY <1>1, <1>2, GoesOn
<1>4. \A b \in Calls : call'[b].at = "running" => call'[b] = call[b]
  BY <1>3
<1>5. \A b \in Calls : call[b].at = "running" => call'[b] = call[b]
  BY <1>1, <1>3
<1> QED
  BY <1>1, <1>3, <1>4, <1>5 DEF MemoryInv

\* The actor is ready, whoever else executes on it: it may say less than is so,
\* never more.
LEMMA ExecutedKeeps ==
  ASSUME MemoryInv, NEW c \in Calls, Memory!Executed(c)
  PROVE  MemoryInv'
<1> DEFINE a == call[c].actor
           e == [status |-> "ready", history |-> made[a].history]
<1>1. /\ call[c].at = "running" /\ call' = [call EXCEPT ![c].at = "ended"]
      /\ UNCHANGED <<actors, packet>>
      /\ made' = [made EXCEPT ![a].status = "ready"]
  BY DEF Memory!Executed, Memory!Actor
<1>2. /\ made \in Seq(Entry) /\ Len(made) \in Nat /\ DOMAIN made = 1..Len(made)
      /\ \A k \in 1..Len(made) : made[k] \in Entry
  BY MemoryTyped DEF MemoryInv
<1>3. \A b \in Calls : call[b].at \in {"body", "running"} => call[b].actor \in 1..Len(made)
  BY <1>2 DEF MemoryInv, Memory!TypeOK
<1>4. a \in 1..Len(made) /\ made[a].history \in Seq(Calls)
  BY <1>1, <1>2, <1>3 DEF Entry
<1>5. e \in Entry /\ [made[a] EXCEPT !.status = "ready"] = e
  <2>1. made[a] \in Entry
    BY <1>2, <1>4
  <2> QED
    BY <2>1 DEF Entry
<1>6. made' = [made EXCEPT ![a] = e]
  BY <1>1, <1>5
<1> HIDE DEF e
<1>7. /\ made' \in Seq(Entry) /\ Len(made') = Len(made)
      /\ \A k \in 1..Len(made) : made'[k] = IF k = a THEN e ELSE made[k]
  BY <1>2, <1>4, <1>5, <1>6, ExceptSeq
<1>8. /\ Memory!TypeOK'
      /\ \A b \in Calls : \A d \in Members(b)' : call'[d].at # "no"
      /\ \A b \in Calls : call'[b].at \in {"body", "running"} => MapHas(b)'
      /\ DOMAIN made' = 1..Len(made)
      /\ call'[c].at = "ended"
      /\ \A b \in Calls : call'[b].actor = call[b].actor /\ (b # c => call'[b] = call[b])
  BY <1>1, <1>7, GoesOn
<1>9. ASSUME NEW b \in Calls, call'[b].at = "running"
      PROVE  \E k \in DOMAIN made'[call'[b].actor].history : made'[call'[b].actor].history[k] = b
  <2>1. call'[b] = call[b] /\ call[b].actor \in 1..Len(made)
    BY <1>3, <1>8, <1>9
  <2>2. made'[call[b].actor].history = made[call[b].actor].history
    BY <1>7, <2>1 DEF e
  <2> QED
    BY <1>9, <2>1, <2>2 DEF MemoryInv
<1>10. ASSUME NEW k \in DOMAIN made', made'[k].status = "executing"
       PROVE  \E b \in Calls : call'[b].at = "running" /\ call'[b].actor = k
  <2>1. k \in 1..Len(made) /\ k # a
    BY <1>7, <1>8, <1>10 DEF e
  <2>2. PICK b \in Calls : call[b].at = "running" /\ call[b].actor = k
    BY <1>2, <1>7, <1>10, <2>1 DEF MemoryInv
  <2>3. call'[b] = call[b]
    BY <1>8, <2>1, <2>2
  <2> QED
    BY <2>2, <2>3
<1> QED
  BY <1>8, <1>9, <1>10 DEF MemoryInv

\* A process that starts has no actors and no requests.
NothingYet ==
  /\ actors = [i \in Actors |-> Nothing] /\ made = <<>>
  /\ call \in [Calls -> [id : {Nothing}, actor : {Nothing}, at : {"no", "lost"}]]
  /\ packet = [c \in Calls |-> <<>>]

LEMMA Empty == NothingYet => MemoryInv
<1> SUFFICES ASSUME NothingYet PROVE MemoryInv
  OBVIOUS
<1> USE DEF NothingYet
<1>1. made \in Seq(Entry) /\ DOMAIN made = {}
  BY EmptySeq
<1>2. packet \in [Calls -> Seq(Calls)] /\ \A c \in Calls : Members(c) = {}
  <2>1. <<>> \in Seq(Calls) /\ DOMAIN <<>> = {}
    BY EmptySeq
  <2> QED
    BY <2>1 DEF Members
<1>3. \A c \in Calls : call[c].at \in {"no", "lost"}
  OBVIOUS
<1>4. call \in [Calls -> [id : Actors \cup {Nothing}, actor : Nat \cup {Nothing},
                          at : {"no", "body", "running", "ended", "lost"}]]
  OBVIOUS
<1>5. Memory!TypeOK
  BY <1>1, <1>2, <1>3, <1>4 DEF Memory!TypeOK, Entry
<1> QED
  BY <1>1, <1>2, <1>3, <1>5 DEF MemoryInv

LEMMA MemoryStarts == Memory!Init => MemoryInv
<1> SUFFICES ASSUME Memory!Init PROVE MemoryInv
  OBVIOUS
<1>1. call \in [Calls -> [id : {Nothing}, actor : {Nothing}, at : {"no", "lost"}]]
  BY DEF Memory!Init, Memory!Unsent
<1> QED
  BY <1>1, Empty DEF Memory!Init, NothingYet

LEMMA CrashKeeps == Memory!Crash => MemoryInv'
<1>1. Memory!Crash => NothingYet'
  BY DEF Memory!Crash, Memory!Unsent, NothingYet
<1>2. NothingYet' => MemoryInv'
  BY Empty, PTL
<1> QED
  BY <1>1, <1>2

LEMMA MemoryNext == MemoryInv /\ [MemoryStep \/ AgentosStep]_allVars => MemoryInv'
<1> SUFFICES ASSUME MemoryInv, [MemoryStep \/ AgentosStep]_allVars PROVE MemoryInv'
  OBVIOUS
<1>1. CASE UNCHANGED memoryVars
  BY <1>1 DEF memoryVars, MemoryInv, Memory!TypeOK, MapHas, ReplacedBy, Members
<1>2. CASE Memory!Next
  BY <1>2, ParseKeeps, ExecuteKeeps, BadBodyKeeps, ExecutedKeeps, CrashKeeps DEF Memory!Next
<1> QED
  BY <1>1, <1>2 DEF MemoryStep, AgentosStep, allVars

THEOREM MemoryInvHolds == ServicesSpec => []MemoryInv
<1>1. ServicesInit => MemoryInv
  BY MemoryStarts DEF ServicesInit
<1>2. MemoryInv /\ [AgentosStep \/ MemoryStep]_allVars => MemoryInv'
  BY MemoryNext
<1> QED
  BY <1>1, <1>2, PTL DEF ServicesSpec

\* The types of both services hold in every reachable state.
THEOREM ServicesTypeCorrect == ServicesSpec => []ServicesTypeOK
<1> DEFINE Port == listening \in {"agentos", "memory"}
<1>1. ServicesInit => Port
  BY DEF ServicesInit
<1>2. Port /\ [AgentosStep \/ MemoryStep]_allVars => Port'
  BY DEF AgentosStep, MemoryStep, allVars
<1>3. ServicesSpec => []Port
  BY <1>1, <1>2, PTL DEF ServicesSpec
<1>4. MemoryInv /\ TypeOK /\ Port => ServicesTypeOK
  BY DEF MemoryInv, ServicesTypeOK
<1> QED
  BY <1>3, <1>4, MemoryInvHolds, ServicesImplementAgent, TypeCorrect, PTL

\* However requests are packed and wherever the process ends: code that runs
\* is in the history of its actor, and that is the actor the map has unless a
\* later request of the same packet has replaced it
\* (sec-cell/actor-service.mjs:16-22, 42-49).
THEOREM ExecutedCodeIsShown == ServicesSpec => []ExecutedIsShown
  BY MemoryInvHolds, MemoryShows, PTL
=============================================================================
