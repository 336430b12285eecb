--------------------------- MODULE SlateCliProofs ---------------------------
(***************************************************************************)
(* Proofs about SlateCli, for any number of ports, changes and lines: its  *)
(* types, the safety part of the refinement, and that events watch prints  *)
(* the events of the stream.  For the first two it counts where the one    *)
(* request is at each pc, and who can be at which pc at all.  For the last *)
(* the stream is looked at by position: the buffer is a suffix of what was *)
(* read, a line that ends before it is changed by nothing that follows,    *)
(* and a line that leaves it is the one that its first newline ends.       *)
(***************************************************************************)
EXTENDS SlateCli, FiniteSetTheorems, SequenceTheorems, WellFoundedInduction, TLAPS

Before == {"probing", "again", "dispatching", "sending"}
After == {"waiting", "reading", "streaming"}

KindOK == Kind \in {"service", "status", "text", "stream"} /\ (Kind = "service" <=> OfService)

\* The request and its answer at each point of the command.
Asked ==
  /\ pc \in Before \cup After \cup {"exit"}
  /\ pc \in Before => received = <<>> /\ answer = "none"
  /\ pc \in After => Len(received) = 1
  /\ pc = "waiting" => answer = "none"
  /\ pc \in {"reading", "streaming"} => answer \in {"ok", "error"}
  /\ pc # "exit" => code = "running"

\* The service does not search, and only some commands read what they get.
Reached ==
  /\ pc \in {"again", "sending"} \cup After => OfService \/ Known
  /\ OfService => pc \notin {"probing", "again", "dispatching"}
  /\ pc = "reading" => Kind \in {"text", "service"}
  /\ pc = "streaming" => Kind = "stream" /\ answer = "ok"

Inv == KindOK /\ Asked /\ Reached

-----------------------------------------------------------------------------
(* The table of the commands *)

Printing == {"status", "text", "stream"}

Methods == {"GET", "POST", "PATCH", "DELETE"}

Prints(commands) ==
  \A sub \in DOMAIN commands :
    commands[sub].kind \in Printing /\ commands[sub].method \in Methods

LEMMA TablesPrint == \A g \in DOMAIN Groups : Prints(Groups[g])
<1>1. Prints(SessionCommands)
  BY DEF Prints, Printing, Methods, SessionCommands, Command
<1>2. Prints(ModelCommands)
  BY DEF Prints, Printing, Methods, ModelCommands, Command
<1>3. Prints(OpsCommands)
  BY DEF Prints, Printing, Methods, OpsCommands, Command
<1>4. Prints(WorkflowCommands)
  BY DEF Prints, Printing, Methods, WorkflowCommands, Command
<1>5. Prints(FindCommands) /\ Prints(PermCommands)
  BY DEF Prints, Printing, Methods, FindCommands, PermCommands, Command
<1>6. Prints(FileCommands) /\ Prints(EventsCommands)
  BY DEF Prints, Printing, Methods, FileCommands, EventsCommands, Command
<1> QED
  BY <1>1, <1>2, <1>3, <1>4, <1>5, <1>6 DEF Groups

LEMMA InputsHaveGroups ==
  ASSUME input \in CommandLines \cup ServiceLines
  PROVE  (OfService /\ input \in ServiceLines) \/ input.group \in DOMAIN Groups
<1>1. CASE input \in ServiceLines
  BY <1>1 DEF ServiceLines, OfService
<1>2. CASE input \in CommandLines
  <2>1. CASE input \in [group : DOMAIN Groups, sub : {"unknown"}, flag : {"none"}, given : {0}]
    BY <2>1
  <2>2. ASSUME NEW g \in DOMAIN Groups, NEW sub, NEW F, NEW G,
               input \in [group : {g}, sub : {sub}, flag : F, given : G]
        PROVE  input.group = g
    BY <2>2
  <2>3. ASSUME input \notin [group : DOMAIN Groups, sub : {"unknown"}, flag : {"none"}, given : {0}]
        PROVE  input.group \in DOMAIN Groups
    <3> DEFINE Lines(g, sub) ==
          [group : {g}, sub : {sub}, flag : Flags(g, sub),
           given : {n \in 0..2 : n \in {Groups[g][sub].needs, Groups[g][sub].needs - 1}}]
    <3>1. input \in UNION {UNION {Lines(g, sub) : sub \in DOMAIN Groups[g]} : g \in DOMAIN Groups}
      BY <1>2, <2>3 DEF CommandLines
    <3> HIDE DEF Lines
    <3>2. PICK g \in DOMAIN Groups : \E sub \in DOMAIN Groups[g] : input \in Lines(g, sub)
      BY <3>1
    <3>3. PICK sub \in DOMAIN Groups[g] : input \in Lines(g, sub)
      BY <3>2
    <3> QED
      BY <2>2, <3>3 DEF Lines
  <2> QED
    BY <2>1, <2>3
<1> QED
  BY <1>1, <1>2

LEMMA KindIsKnown ==
  ASSUME input \in CommandLines \cup ServiceLines
  PROVE  KindOK
<1>1. CASE OfService
  BY <1>1 DEF KindOK, Kind
<1>2. CASE ~OfService /\ Known
  BY <1>2, InputsHaveGroups, TablesPrint DEF KindOK, Kind, Known, Prints, Printing
<1>3. CASE ~OfService /\ ~Known
  BY <1>3 DEF KindOK, Kind
<1> QED
  BY <1>1, <1>2, <1>3

-----------------------------------------------------------------------------
(* The invariant *)

LEMMA InitInv == Init => Inv
<1> SUFFICES ASSUME Init PROVE Inv
  OBVIOUS
<1>1. KindOK
  BY KindIsKnown DEF Init
<1>2. Asked /\ Reached
  BY DEF Init, Asked, Reached, Before, After
<1> QED
  BY <1>1, <1>2 DEF Inv

\* input never changes.
LEMMA KindStays ==
  ASSUME input' = input
  PROVE  /\ Kind' = Kind /\ OfService' = OfService /\ Known' = Known
         /\ KindOK => KindOK'
  BY DEF KindOK, Kind, OfService, Known

LEMMA NextInv == Inv /\ [Next]_vars => Inv'
<1> SUFFICES ASSUME Inv, [Next]_vars PROVE Inv'
  OBVIOUS
<1> USE DEF Inv, Before, After
<1>1. input' = input
  BY DEF Next, Looks, HealthAnswered, HealthDies, HealthTimesOut, HealthAgain, Dispatch, Send,
     SendFails, Answers, Answered, BodyRead, Broken, Streams, Read, TakeLine, StreamEnds, Emit,
     Changes, Becomes, Stopped, vars
<1>2. Kind' = Kind /\ OfService' = OfService /\ Known' = Known /\ KindOK'
  BY <1>1, KindStays
<1>3. ASSUME HealthAnswered \/ HealthDies \/ HealthTimesOut \/ HealthAgain \/ Dispatch \/ SendFails
      PROVE  Asked' /\ Reached'
  BY <1>2, <1>3 DEF HealthAnswered, HealthDies, HealthTimesOut, HealthAgain, Dispatch, SendFails,
     Rejects, Exit, Go, Usable, Asked, Reached
<1>4. ASSUME Send PROVE Asked' /\ Reached'
  <2>1. received = <<>>
    BY <1>4 DEF Send, Asked
  <2>2. Len(received') = 1
    BY <1>4, <2>1 DEF Send
  <2> QED
    BY <1>2, <1>4, <2>2 DEF Send, Go, Asked, Reached
<1>5. ASSUME NEW status \in {"ok", "error"}, Answered(status) PROVE Asked' /\ Reached'
  BY <1>2, <1>5 DEF Answered, Exit, Go, Asked, Reached, KindOK
<1>6. ASSUME BodyRead \/ Broken \/ StreamEnds PROVE Asked' /\ Reached'
  BY <1>2, <1>6 DEF BodyRead, Broken, StreamEnds, Rejects, Exit, Asked, Reached
<1>7. ASSUME UNCHANGED <<pc, received, answer, code>> PROVE Asked' /\ Reached'
  BY <1>2, <1>7 DEF Asked, Reached
<1>8. ASSUME (\E n \in 1..Len(wire) : Read(n)) \/ TakeLine \/ Emit \/ Changes \/ Stopped \/ UNCHANGED vars
      PROVE  UNCHANGED <<pc, received, answer, code>>
  BY <1>8 DEF Read, TakeLine, Emit, Changes, Becomes, Stopped, vars
<1> QED
  BY <1>2, <1>3, <1>4, <1>5, <1>6, <1>7, <1>8 DEF Next, Looks, Answers, Streams

\* Where the one request is and how the command may have ended, at every pc.
THEOREM InvHolds == Spec => []Inv
  BY InitInv, NextInv, PTL DEF Spec

-----------------------------------------------------------------------------
(* Types *)

LEMMA ServiceMethods == \A call \in DOMAIN ServiceCalls : ServiceCalls[call].method \in Methods
  BY DEF ServiceCalls, Methods

\* What is sent has one of the four methods.
LEMMA MethodIsKnown ==
  ASSUME input \in CommandLines \cup ServiceLines, OfService \/ Known
  PROVE  Method \in Methods
<1>1. CASE OfService
  <2>1. input \in ServiceLines
    BY <1>1, InputsHaveGroups DEF OfService, Groups
  <2>2. input.sub \in DOMAIN ServiceCalls
    BY <2>1 DEF ServiceLines
  <2> QED
    BY <1>1, <2>2, ServiceMethods DEF Method
<1>2. CASE ~OfService /\ Known
  <2>1. Groups[input.group][input.sub].method \in Methods
    BY <1>2, InputsHaveGroups, TablesPrint DEF Known, Prints
  <2> QED
    BY <1>2, <2>1 DEF Method, Methods
<1> QED
  BY <1>1, <1>2

LEMMA InitTyped == Init => TypeOK
  BY BoundsOK DEF Init, TypeOK, Ports

LEMMA NextTyped ==
  ASSUME Inv, TypeOK, [Next]_vars
  PROVE  TypeOK'
<1>1. /\ input' = input /\ Kind' = Kind
      /\ changes' \in 0..MaxChanges /\ what' \in [Ports -> Listeners]
      /\ emitted' \in 0..Len(Emitted)
  <2>1. input' = input
    BY DEF Next, Looks, HealthAnswered, HealthDies, HealthTimesOut, HealthAgain, Dispatch, Send,
       SendFails, Answers, Answered, BodyRead, Broken, Streams, Read, TakeLine, StreamEnds, Emit,
       Changes, Becomes, Stopped, vars
  <2>2. UNCHANGED <<changes, what>> \/ Changes
    BY DEF Next, Looks, HealthAnswered, HealthDies, HealthTimesOut, HealthAgain, Dispatch, Send,
       SendFails, Answers, Answered, BodyRead, Broken, Streams, Read, TakeLine, StreamEnds, Emit,
       Stopped, vars
  <2>3. ASSUME Changes PROVE what' \in [Ports -> Listeners] /\ changes' \in 0..MaxChanges
    BY <2>3, BoundsOK DEF Changes, Becomes, TypeOK
  <2>4. UNCHANGED emitted \/ Emit
    BY DEF Next, Looks, HealthAnswered, HealthDies, HealthTimesOut, HealthAgain, Dispatch, Send,
       SendFails, Answers, Answered, BodyRead, Broken, Streams, Read, TakeLine, StreamEnds,
       Changes, Becomes, Stopped, vars, stream
  <2>5. ASSUME Emit PROVE emitted' \in 0..Len(Emitted)
    <3>1. Len(Emitted) \in Nat
      BY BoundsOK
    <3>2. emitted < Len(Emitted) /\ (emitted' = emitted + 1 \/ emitted' = Len(Emitted))
      BY <2>5 DEF Emit
    <3> QED
      BY <3>1, <3>2 DEF TypeOK
  <2> QED
    BY <2>1, <2>2, <2>3, <2>4, <2>5, KindStays DEF TypeOK
<1>2. port' \in Ports
  <2>1. UNCHANGED port \/ HealthAnswered
    BY DEF Next, Looks, HealthDies, HealthTimesOut, HealthAgain, Dispatch, Send,
       SendFails, Answers, Answered, BodyRead, Broken, Streams, Read, TakeLine, StreamEnds, Emit,
       Changes, Becomes, Stopped, vars
  <2>2. ASSUME HealthAnswered PROVE port' \in 1..LastPort
    <3>1. port' = port \/ (port # LastPort /\ port' = port + 1)
      BY <2>2 DEF HealthAnswered, Exit, Go
    <3> QED
      BY <3>1, BoundsOK DEF TypeOK, Ports
  <2> QED
    BY <2>1, <2>2 DEF TypeOK, Ports
<1>3. received' \in Seq([to : Ports, method : Methods])
  <2>1. UNCHANGED received \/ Send
    BY DEF Next, Looks, HealthAnswered, HealthDies, HealthTimesOut, HealthAgain, Dispatch,
       SendFails, Answers, Answered, BodyRead, Broken, Streams, Read, TakeLine, StreamEnds, Emit,
       Changes, Becomes, Stopped, vars
  <2>2. ASSUME Send PROVE [to |-> port, method |-> Method] \in [to : Ports, method : Methods]
    BY <2>2, MethodIsKnown DEF Send, Inv, Reached, TypeOK
  <2>3. ASSUME Send PROVE received' = Append(received, [to |-> port, method |-> Method])
    BY <2>3 DEF Send
  <2> DEFINE Sent == [to : Ports, method : Methods]
  <2>4. received \in Seq(Sent)
    BY DEF TypeOK, Methods
  <2> HIDE DEF Sent
  <2>5. ASSUME NEW m \in Sent PROVE Append(received, m) \in Seq(Sent)
    BY <2>4
  <2>6. received' \in Seq(Sent)
    BY <2>1, <2>2, <2>3, <2>4, <2>5 DEF Sent
  <2> QED
    BY <2>6 DEF Sent
<1>4. answer' \in {"none", "ok", "error"}
  <2>1. UNCHANGED answer \/ Answers
    BY DEF Next, Looks, HealthAnswered, HealthDies, HealthTimesOut, HealthAgain, Dispatch, Send,
       SendFails, BodyRead, Broken, Streams, Read, TakeLine, StreamEnds, Emit,
       Changes, Becomes, Stopped, vars
  <2> QED
    BY <2>1 DEF Answers, Answered, TypeOK
<1>5. /\ pc' \in Before \cup After \cup {"exit"}
      /\ code' \in IF pc' = "exit" THEN {"0", "1", "2", "value", "SlateError", "defect"} ELSE {"running"}
  <2>1. CASE HealthAnswered \/ HealthDies \/ HealthTimesOut \/ HealthAgain \/ Dispatch \/ Send \/ SendFails
    BY <2>1 DEF HealthAnswered, HealthDies, HealthTimesOut, HealthAgain, Dispatch, Send, SendFails,
       Rejects, Exit, Go, TypeOK, Before, After
  <2>2. CASE BodyRead \/ Broken \/ StreamEnds
    BY <2>2 DEF BodyRead, Broken, StreamEnds, Rejects, Exit, Before, After
  <2>3. ASSUME NEW status \in {"ok", "error"}, Answered(status)
        PROVE  \/ Go("streaming")
               \/ Go("reading")
               \/ Exit("0")
               \/ Exit("2")
    BY <2>3 DEF Answered, Inv, KindOK
  <2>4. CASE Answers
    BY <2>3, <2>4 DEF Answers, Answered, Exit, Go, TypeOK, Before, After
  <2>5. CASE UNCHANGED <<pc, code>>
    BY <2>5 DEF TypeOK, Before, After
  <2>6. ASSUME (\E n \in 1..Len(wire) : Read(n)) \/ TakeLine \/ Emit \/ Changes \/ Stopped \/ UNCHANGED vars
        PROVE  UNCHANGED <<pc, code>>
    BY <2>6 DEF Read, TakeLine, Emit, Changes, Becomes, Stopped, vars
  <2> QED
    BY <2>1, <2>2, <2>4, <2>5, <2>6 DEF Next, Looks, Streams
<1>6. (pc = "streaming" => Kind = "stream" /\ answer = "ok")'
  BY NextInv DEF Inv, Reached
<1> QED
  BY <1>1, <1>2, <1>3, <1>4, <1>5, <1>6 DEF TypeOK, Methods, Before, After

\* Types of a command, whatever the servers do: above all what is sent, and
\* how the command ends (each one of src/commands, slate-service.ts).
THEOREM TypeCorrect == Spec => []TypeOK
  BY InitTyped, NextTyped, InvHolds, PTL DEF Spec

-----------------------------------------------------------------------------
(* What the user may count on *)

LEMMA Implements ==
  ASSUME Inv, [Next]_vars
  PROVE  [Promised!Next]_(Promised!vars)
<1> USE DEF Inv, Before, After, Promised!vars
<1>1. input' = input
  BY DEF Next, Looks, HealthAnswered, HealthDies, HealthTimesOut, HealthAgain, Dispatch, Send,
     SendFails, Answers, Answered, BodyRead, Broken, Streams, Read, TakeLine, StreamEnds, Emit,
     Changes, Becomes, Stopped, vars
<1>2. Kind' = Kind
  BY <1>1, KindStays
<1>3. Len(<<>>) = 0
  OBVIOUS
<1>4. ASSUME HealthAnswered \/ HealthDies \/ HealthTimesOut \/ HealthAgain \/ Dispatch \/ SendFails
      PROVE  [Promised!Next]_(Promised!vars)
  <2>1. /\ code = "running" /\ received = <<>> /\ UNCHANGED <<received, answer>>
        /\ code' = code \/ code' \in IF OfService THEN {"defect"} ELSE {"1", "2"}
    BY <1>4 DEF HealthAnswered, HealthDies, HealthTimesOut, HealthAgain, Dispatch, SendFails,
       Rejects, Exit, Go, Asked, Reached
  <2>2. code' = code \/ Promised!GiveUp
    BY <1>2, <1>3, <2>1 DEF Promised!GiveUp, Promised!NoAnswer, KindOK
  <2> QED
    BY <1>2, <2>1, <2>2 DEF Promised!Next
<1>5. ASSUME Send PROVE Promised!Next
  <2>1. code = "running" /\ received = <<>> /\ UNCHANGED <<answer, code>>
    BY <1>5 DEF Send, Go, Asked
  <2>2. Len(received') = 1
    BY <1>5, <2>1 DEF Send
  <2> QED
    BY <1>2, <1>3, <2>1, <2>2 DEF Promised!Next, Promised!Ask
<1>6. ASSUME NEW status \in {"ok", "error"}, Answered(status) PROVE Promised!Next
  <2>1. /\ code = "running" /\ Len(received) = 1 /\ answer = "none" /\ received' = received
        /\ answer' = status
    BY <1>6 DEF Answered, Asked
  <2>2. code' \in {"running", Promised!Outcome(Kind, status)}
    BY <1>6, <2>1 DEF Answered, Exit, Go, KindOK, Promised!Outcome
  <2> QED
    BY <1>2, <2>1, <2>2 DEF Promised!Next, Promised!Hear
<1>7. ASSUME BodyRead \/ StreamEnds PROVE Promised!Next
  <2>1. code = "running" /\ answer \in {"ok", "error"} /\ UNCHANGED <<received, answer>>
    BY <1>7 DEF BodyRead, StreamEnds, Asked
  <2>2. code' = Promised!Outcome(Kind, answer)
    BY <1>7, <2>1 DEF BodyRead, StreamEnds, Exit, Reached, KindOK, Promised!Outcome
  <2> QED
    BY <1>2, <2>1, <2>2 DEF Promised!Next, Promised!Finish
<1>8. ASSUME Broken PROVE Promised!Next
  <2>1. /\ code = "running" /\ Len(received) = 1 /\ UNCHANGED <<received, answer>>
        /\ code' = IF OfService THEN "defect" ELSE "1"
    BY <1>8 DEF Broken, Rejects, Exit, Asked
  <2> QED
    BY <1>2, <2>1 DEF Promised!Next, Promised!Lose, Promised!NoAnswer, KindOK
<1>9. ASSUME (\E n \in 1..Len(wire) : Read(n)) \/ TakeLine \/ Emit \/ Changes \/ Stopped \/ UNCHANGED vars
      PROVE  UNCHANGED Promised!vars
  BY <1>2, <1>9 DEF Read, TakeLine, Emit, Changes, Becomes, Stopped, vars
<1> QED
  BY <1>4, <1>5, <1>6, <1>7, <1>8, <1>9 DEF Next, Looks, Answers, Streams

\* For any number of ports, and servers that change at any point: the command
\* asks once at most (slate-service.ts:47-75), says it succeeded only after an
\* answer, and ends on an answer as SlateCommand says.
THEOREM CommandIsKept == Spec => Promised!Init /\ [][Promised!Next]_(Promised!vars)
<1>1. Init => Promised!Init
  <2> SUFFICES ASSUME Init PROVE Promised!Init
    OBVIOUS
  <2>1. Kind \in {"service", "status", "text", "stream"}
    BY InitInv DEF Inv, KindOK
  <2> QED
    BY <2>1 DEF Init, Promised!Init
<1> QED
  BY <1>1, Implements, InvHolds, PTL DEF Spec

\* No server gets two requests, or one each from two.
THEOREM AskedOnce == Spec => [](Len(received) \in {0, 1})
<1> DEFINE One == Len(received) \in {0, 1}
<1>1. Promised!Init => One
  BY DEF Promised!Init
<1>2. One /\ [Promised!Next]_(Promised!vars) => One'
  <2> SUFFICES ASSUME One, [Promised!Next]_(Promised!vars) PROVE One'
    OBVIOUS
  <2>1. Len(received') = Len(received) \/ (Len(received) = 0 /\ Len(received') = 0 + 1)
    BY DEF Promised!Next, Promised!GiveUp, Promised!Ask, Promised!Hear, Promised!Finish,
       Promised!Lose, Promised!NoAnswer, Promised!vars
  <2> QED
    BY <2>1
<1> HIDE DEF One
<1>3. Promised!Init /\ [][Promised!Next]_(Promised!vars) => []One
  BY <1>1, <1>2, PTL
<1>4. Spec => []One
  BY <1>3, CommandIsKept
<1> QED
  BY <1>4 DEF One
-----------------------------------------------------------------------------
(* Positions in a sequence *)

LEMMA MinOfNaturals ==
  ASSUME NEW S \in SUBSET Nat, S # {}
  PROVE  Min(S) \in S /\ \A x \in S : Min(S) <= x
<1> DEFINE R == OpToRel(<, Nat)
<1>1. IsWellFoundedOn(R, Nat)
  BY NatLessThanWellFounded
<1> HIDE DEF R
<1>2. PICK m \in S : \A x \in S : <<x, m>> \notin R
  BY <1>1, WFMin
<1>3. \A x \in S : ~ x < m
  BY <1>2 DEF R, OpToRel
<1>4. \A x \in S : m <= x
  BY <1>3
<1> QED
  BY <1>4 DEF Min

LEMMA MaxOfNaturals ==
  ASSUME NEW n \in Nat, NEW S \in SUBSET (0..n), S # {}
  PROVE  Max(S) \in S /\ \A x \in S : x <= Max(S)
<1> DEFINE T == {n - x : x \in S}
<1>1. T \in SUBSET Nat /\ T # {}
  <2>1. \A x \in S : n - x \in Nat
    OBVIOUS
  <2> QED
    BY <2>1
<1> HIDE DEF T
<1>2. Min(T) \in T /\ \A y \in T : Min(T) <= y
  BY <1>1, MinOfNaturals
<1>3. PICK m \in S : Min(T) = n - m
  BY <1>2 DEF T
<1>4. \A x \in S : n - m <= n - x
  BY <1>2, <1>3 DEF T
<1>5. \A x \in S : m >= x
  BY <1>4
<1> QED
  BY <1>5 DEF Max

LEMMA LineStartBefore ==
  ASSUME NEW s, NEW i \in Nat \ {0}
  PROVE  /\ LineStart(s, i) \in 0..(i - 1)
         /\ LineStart(s, i) > 0 => s[LineStart(s, i)] = NL
         /\ \A j \in 1..(i - 1) : s[j] = NL => j <= LineStart(s, i)
<1> DEFINE S == {0} \cup {j \in 1..(i - 1) : s[j] = NL}
<1>1. S \in SUBSET (0..(i - 1)) /\ S # {} /\ i - 1 \in Nat
  OBVIOUS
<1> HIDE DEF S
<1>2. Max(S) \in S /\ \A x \in S : x <= Max(S)
  BY <1>1, MaxOfNaturals
<1> QED
  BY <1>2 DEF S, LineStart

Chars == Seq(STRING)

LEMMA SuffixOf ==
  ASSUME NEW s \in Chars, NEW m \in 0..Len(s)
  PROVE  /\ SubSeq(s, m + 1, Len(s)) \in Chars
         /\ Len(SubSeq(s, m + 1, Len(s))) = Len(s) - m
         /\ \A i \in 1..(Len(s) - m) : SubSeq(s, m + 1, Len(s))[i] = s[m + i]
<1> DEFINE rest == SubSeq(s, m + 1, Len(s))
<1>1. Len(s) \in Nat /\ m + 1 \in Int /\ \A i \in (m + 1)..Len(s) : i \in 1..Len(s)
  BY LenProperties DEF Chars
<1>2. \A i \in (m + 1)..Len(s) : s[i] \in STRING
  BY <1>1, ElementOfSeq DEF Chars
<1>3. /\ rest \in Seq(STRING) /\ Len(rest) = IF m + 1 <= Len(s) THEN Len(s) - (m + 1) + 1 ELSE 0
      /\ \A i \in 1..(Len(s) - (m + 1) + 1) : rest[i] = s[m + 1 + i - 1]
  BY <1>1, <1>2, SubSeqProperties
<1> HIDE DEF rest
<1>4. Len(rest) = Len(s) - m
  BY <1>1, <1>3
<1>5. ASSUME NEW i \in 1..(Len(s) - m) PROVE rest[i] = s[m + i]
  <2>1. i \in 1..(Len(s) - (m + 1) + 1) /\ m + 1 + i - 1 = m + i
    BY <1>1
  <2> QED
    BY <1>3, <2>1
<1> QED
  BY <1>3, <1>4, <1>5 DEF rest, Chars

LEMMA SuffixIs ==
  ASSUME NEW s \in Chars, NEW t \in Chars, NEW m \in 0..Len(s), Len(t) = Len(s) - m,
         \A i \in 1..Len(t) : t[i] = s[m + i]
  PROVE  t = SubSeq(s, m + 1, Len(s))
<1> DEFINE rest == SubSeq(s, m + 1, Len(s))
<1>1. rest \in Chars /\ Len(rest) = Len(t) /\ \A i \in 1..Len(t) : rest[i] = s[m + i]
  BY SuffixOf
<1> HIDE DEF rest
<1> QED
  BY <1>1, SeqEqual DEF Chars, rest

\* What comes after a line does not change it.
LEMMA LinesStay ==
  ASSUME NEW s \in Chars, NEW t \in Chars, NEW i \in 1..Len(s)
  PROVE  LineTo(s \o t, i) = LineTo(s, i)
<1> USE DEF Chars
<1>1. s \o t \in Seq(STRING) /\ Len(s \o t) = Len(s) + Len(t)
  OBVIOUS
<1>2. \A j \in 1..Len(s) : (s \o t)[j] = s[j]
  OBVIOUS
<1>3. {j \in 1..(i - 1) : (s \o t)[j] = NL} = {j \in 1..(i - 1) : s[j] = NL}
  BY <1>2
<1>4. LineStart(s \o t, i) = LineStart(s, i)
  BY <1>3 DEF LineStart
<1> DEFINE a == LineStart(s, i)
<1>5. a \in 0..(i - 1)
  BY LineStartBefore
<1> HIDE DEF a
<1>6. SubSeq(s \o t, a + 1, i - 1) = SubSeq(s, a + 1, i - 1)
  BY <1>1, <1>2, <1>5
<1> QED
  BY <1>4, <1>6 DEF LineTo, a

LEMMA EventsStay ==
  ASSUME NEW s \in Chars, NEW t \in Chars, NEW n \in 0..Len(s)
  PROVE  Events(s \o t, n) = Events(s, n)
<1>1. \A i \in 1..n : i \in 1..Len(s) /\ (s \o t)[i] = s[i] /\ LineTo(s \o t, i) = LineTo(s, i)
  BY LinesStay DEF Chars
<1> QED
  BY <1>1 DEF Events

LEMMA EventsAreFinite ==
  ASSUME NEW s, NEW n \in Nat
  PROVE  IsFiniteSet(Events(s, n)) /\ Cardinality(Events(s, n)) \in Nat
<1>1. Events(s, n) \in SUBSET (1..n)
  BY DEF Events
<1>2. IsFiniteSet(1..n)
  BY FS_Interval
<1> QED
  BY <1>1, <1>2, FS_Subset, FS_CardinalityType

-----------------------------------------------------------------------------
(* The splitter *)

\* What can be printed.
Event == {Trim(s) : s \in Chars}

LEMMA EventOfLine ==
  ASSUME NEW line \in Chars
  PROVE  EventOf(line) = <<>> \/ \E e \in Event : EventOf(line) = <<e>>
<1> DEFINE l == WithoutReturn(line)
<1>1. l \in Chars
  <2>1. CASE line # <<>>
    <3>1. Len(line) \in Nat /\ Len(line) - 1 \in 0..Len(line)
      BY <2>1, EmptySeq, LenProperties DEF Chars
    <3>2. SubSeq(line, 1, Len(line) - 1) \in Chars
      BY <3>1, SubSeqProperties DEF Chars
    <3> QED
      BY <3>2 DEF WithoutReturn, Front
  <2> QED
    BY <2>1 DEF WithoutReturn
<1> HIDE DEF l
<1>2. SubSeq(l, 3, Len(l)) \in Chars
  BY <1>1 DEF Chars
<1>3. Trim(SubSeq(l, 3, Len(l))) \in Event
  BY <1>2 DEF Event
<1> QED
  BY <1>3 DEF EventOf, l

StreamInv ==
  /\ wire \in Chars /\ got \in Chars /\ buf \in Chars /\ shown \in Seq(Event)
  /\ Taken \in Nat
  /\ ShownIsStream

LEMMA BufferIsRest ==
  ASSUME StreamInv
  PROVE  /\ Len(got) \in Nat /\ Len(buf) \in Nat
         /\ Taken \in 0..Len(got) /\ Taken = Len(got) - Len(buf)
         /\ \A i \in 1..Len(buf) : buf[i] = got[Taken + i]
<1>1. /\ got \in Chars /\ buf \in Chars /\ Taken \in Nat /\ Taken = Len(got) - Len(buf)
      /\ buf = SubSeq(got, Taken + 1, Len(got))
  BY DEF StreamInv, ShownIsStream, Taken
<1>2. Len(got) \in Nat /\ Len(buf) \in Nat
  BY <1>1, LenProperties DEF Chars
<1>3. Taken \in 0..Len(got) /\ Len(buf) = Len(got) - Taken
  BY <1>1, <1>2
<1> DEFINE rest == SubSeq(got, Taken + 1, Len(got))
<1>4. \A i \in 1..(Len(got) - Taken) : rest[i] = got[Taken + i]
  BY <1>1, <1>3, SuffixOf
<1> HIDE DEF rest
<1>5. \A i \in 1..Len(buf) : rest[i] = got[Taken + i]
  BY <1>3, <1>4
<1>6. buf = rest
  BY <1>1 DEF rest
<1> QED
  BY <1>1, <1>2, <1>3, <1>5, <1>6

LEMMA InitStream == Init => StreamInv
<1> SUFFICES ASSUME Init PROVE StreamInv
  OBVIOUS
<1>1. wire = <<>> /\ got = <<>> /\ buf = <<>> /\ shown = <<>> /\ Len(<<>>) = 0
  BY DEF Init
<1>2. Taken = 0
  BY <1>1 DEF Taken
<1>3. Events(got, 0) = {}
  BY DEF Events
<1>4. SubSeq(<<>>, 1, 0) = <<>>
  BY SubSeqEmpty
<1> QED
  BY <1>1, <1>2, <1>3, <1>4, FS_EmptySet DEF StreamInv, ShownIsStream, Chars

\* A line the server sends, or most of it, adds to what is on the way.
LEMMA EmitStream ==
  ASSUME StreamInv, TypeOK, Emit
  PROVE  StreamInv'
<1>1. emitted + 1 \in 1..Len(Emitted) /\ Emitted \in Seq(Chars)
  BY BoundsOK DEF Emit, TypeOK, Chars
<1> DEFINE line == Emitted[emitted + 1]
<1>2. line \in Chars
  BY <1>1, ElementOfSeq
<1>3. Front(line) \in Chars
  <2>1. Len(line) \in Nat /\ \A i \in 1..(Len(line) - 1) : line[i] \in STRING
    BY <1>2, LenProperties, ElementOfSeq DEF Chars
  <2> QED
    BY <2>1, SubSeqProperties DEF Front, Chars
<1> HIDE DEF line
<1>4. wire' = wire \o line \/ wire' = wire \o Front(line)
  BY DEF Emit, line
<1>5. wire' \in Chars
  BY <1>2, <1>3, <1>4, ConcatProperties DEF StreamInv, Chars
<1>6. UNCHANGED <<got, buf, shown>>
  BY DEF Emit
<1> QED
  BY <1>5, <1>6 DEF StreamInv, ShownIsStream, Taken

\* A chunk that is read comes after all the lines that are through.
LEMMA ReadStream ==
  ASSUME StreamInv, NEW n \in 1..Len(wire), Read(n)
  PROVE  StreamInv'
<1> DEFINE chunk == SubSeq(wire, 1, n)
<1> DEFINE t == Taken
<1>1. wire \in Chars /\ got \in Chars /\ buf \in Chars /\ t \in Nat /\ t = Len(got) - Len(buf)
  BY DEF StreamInv, Taken
<1>2. Len(wire) \in Nat /\ Len(got) \in Nat /\ Len(buf) \in Nat /\ \A i \in 1..Len(wire) : wire[i] \in STRING
  BY <1>1, LenProperties, ElementOfSeq DEF Chars
<1>3. chunk \in Chars /\ SubSeq(wire, n + 1, Len(wire)) \in Chars
  BY <1>2, SubSeqProperties DEF Chars
<1> HIDE DEF chunk
<1>4. /\ buf' = buf \o chunk /\ got' = got \o chunk /\ shown' = shown
      /\ wire' = SubSeq(wire, n + 1, Len(wire))
  BY DEF Read, chunk
<1>5. /\ buf' \in Chars /\ got' \in Chars /\ Len(chunk) \in Nat
      /\ Len(buf') = Len(buf) + Len(chunk) /\ Len(got') = Len(got) + Len(chunk)
      /\ \A i \in 1..Len(buf') : buf'[i] = IF i <= Len(buf) THEN buf[i] ELSE chunk[i - Len(buf)]
      /\ \A i \in 1..Len(got') : got'[i] = IF i <= Len(got) THEN got[i] ELSE chunk[i - Len(got)]
  BY <1>1, <1>3, <1>4, ConcatProperties, LenProperties DEF Chars
<1>6. Taken' = t
  <2>1. Taken' = Len(got') - Len(buf')
    BY DEF Taken
  <2> QED
    BY <1>1, <1>2, <1>5, <2>1
<1>7. buf' = SubSeq(got', t + 1, Len(got'))
  <2>1. \A i \in 1..Len(buf) : buf[i] = got[t + i]
    BY BufferIsRest
  <2> HIDE DEF t
  <2>2. ASSUME NEW i \in 1..Len(buf') PROVE buf'[i] = got'[t + i]
    <3>1. t + i \in 1..Len(got')
      BY <1>1, <1>2, <1>5
    <3>2. CASE i <= Len(buf)
      <4>1. i \in 1..Len(buf) /\ t + i <= Len(got)
        BY <1>1, <1>2, <1>5, <3>2
      <4> QED
        BY <1>5, <2>1, <3>1, <4>1
    <3>3. CASE ~i <= Len(buf)
      <4>1. ~t + i <= Len(got) /\ (t + i) - Len(got) = i - Len(buf)
        BY <1>1, <1>2, <1>5, <3>3
      <4> QED
        BY <1>5, <3>1, <3>3, <4>1
    <3> QED
      BY <3>2, <3>3
  <2>3. t \in 0..Len(got') /\ Len(buf') = Len(got') - t
    BY <1>1, <1>2, <1>5
  <2> QED
    BY <1>5, <2>2, <2>3, SuffixIs
<1>8. t \in 0..Len(got)
  BY <1>1, <1>2
<1>9. \A k \in 0..Len(got) : Events(got', k) = Events(got, k)
  BY <1>1, <1>3, <1>4, EventsStay
<1>10. t > 0 => got'[t] = NL
  BY <1>2, <1>5, <1>8 DEF StreamInv, ShownIsStream
<1>11. \A i \in Events(got, t) :
         EventOf(LineTo(got', i)) = <<shown'[Cardinality(Events(got', i))]>>
  <2>1. SUFFICES ASSUME NEW i \in Events(got, t)
                 PROVE  EventOf(LineTo(got', i)) = <<shown'[Cardinality(Events(got', i))]>>
    OBVIOUS
  <2>2. i \in 1..Len(got)
    BY <1>2, <1>8, <2>1 DEF Events
  <2>3. LineTo(got', i) = LineTo(got, i) /\ Events(got', i) = Events(got, i)
    BY <1>1, <1>2, <1>3, <1>4, <1>9, <2>2, LinesStay
  <2> QED
    BY <1>4, <2>3 DEF StreamInv, ShownIsStream
<1> HIDE DEF t
<1>12. Events(got', t) = Events(got, t)
  BY <1>8, <1>9
<1>13. Len(shown') = Cardinality(Events(got', t))
  BY <1>4, <1>12 DEF StreamInv, ShownIsStream, t
<1>14. ShownIsStream'
  BY <1>6, <1>7, <1>10, <1>11, <1>12, <1>13 DEF ShownIsStream
<1> QED
  BY <1>1, <1>3, <1>4, <1>5, <1>6, <1>14 DEF StreamInv

LEMMA FirstOf ==
  ASSUME NEW s \in Chars, NEW c, Has(s, c)
  PROVE  /\ First(s, c) \in 1..Len(s) /\ s[First(s, c)] = c
         /\ \A i \in 1..(First(s, c) - 1) : s[i] # c
<1> DEFINE S == {i \in DOMAIN s : s[i] = c}
<1>1. DOMAIN s = 1..Len(s) /\ Len(s) \in Nat
  BY LenProperties DEF Chars
<1>2. S \in SUBSET Nat /\ S # {}
  BY <1>1 DEF Has
<1> HIDE DEF S
<1>3. Min(S) \in S /\ \A x \in S : Min(S) <= x
  BY <1>2, MinOfNaturals
<1>4. First(s, c) = Min(S)
  BY DEF First, S
<1>5. \A i \in 1..(Min(S) - 1) : i \in DOMAIN s /\ ~Min(S) <= i
  BY <1>1, <1>3 DEF S
<1> QED
  BY <1>1, <1>3, <1>4, <1>5 DEF S

\* The next event is one more in the count.
LEMMA CountNext ==
  ASSUME NEW s, NEW m \in Nat, NEW n \in Nat, m < n,
         \A i \in (m + 1)..(n - 1) : s[i] # NL
  PROVE  Events(s, n) = IF s[n] = NL /\ EventOf(LineTo(s, n)) # <<>>
                        THEN Events(s, m) \cup {n} ELSE Events(s, m)
<1>1. \A i \in 1..n : i \in 1..m \/ i \in (m + 1)..(n - 1) \/ i = n
  OBVIOUS
<1>2. \A i \in 1..m : i \in 1..n
  OBVIOUS
<1>3. n \in 1..n
  OBVIOUS
<1> QED
  BY <1>1, <1>2, <1>3 DEF Events

\* What is before the first newline of the buffer is the next line.
LEMMA NextLine ==
  ASSUME StreamInv, Has(buf, NL)
  PROVE  /\ First(buf, NL) \in 1..Len(buf) /\ Len(buf) \in Nat
         /\ Taken + First(buf, NL) \in 1..Len(got)
         /\ got[Taken + First(buf, NL)] = NL
         /\ \A i \in (Taken + 1)..(Taken + First(buf, NL) - 1) : got[i] # NL
         /\ LineTo(got, Taken + First(buf, NL)) = SubSeq(buf, 1, First(buf, NL) - 1)
<1> DEFINE t == Taken
           f == First(buf, NL)
<1>1. got \in Chars /\ buf \in Chars /\ t \in Nat /\ t = Len(got) - Len(buf)
  BY DEF StreamInv, Taken
<1>2. Len(got) \in Nat /\ Len(buf) \in Nat
  BY <1>1, LenProperties DEF Chars
<1>3. f \in 1..Len(buf) /\ buf[f] = NL /\ \A i \in 1..(f - 1) : buf[i] # NL
  BY <1>1, FirstOf
<1>4. \A i \in 1..Len(buf) : buf[i] = got[t + i]
  BY BufferIsRest
<1> HIDE DEF t, f
<1>5. t + f \in 1..Len(got) /\ got[t + f] = NL
  BY <1>1, <1>2, <1>3, <1>4
<1>6. \A i \in (t + 1)..(t + f - 1) : got[i] # NL
  <2>1. SUFFICES ASSUME NEW i \in (t + 1)..(t + f - 1) PROVE got[i] # NL
    OBVIOUS
  <2>2. i - t \in 1..(f - 1) /\ i - t \in 1..Len(buf) /\ t + (i - t) = i
    BY <1>1, <1>2, <1>3
  <2> QED
    BY <1>3, <1>4, <2>2
<1> DEFINE e == t + f
           a == LineStart(got, e)
<1>7. a = t
  <2>1. e \in Nat \ {0} /\ e - 1 = t + f - 1
    BY <1>1, <1>2, <1>3
  <2> HIDE DEF e
  <2>2. /\ a \in 0..(e - 1)
        /\ a > 0 => got[a] = NL
        /\ \A j \in 1..(e - 1) : got[j] = NL => j <= a
    BY <2>1, LineStartBefore
  <2> HIDE DEF a
  <2>3. a \notin (t + 1)..(t + f - 1)
    BY <1>1, <1>6, <2>2
  <2>4. t > 0 => got[t] = NL
    BY DEF StreamInv, ShownIsStream, t
  <2>5. t > 0 => t \in 1..(e - 1)
    BY <1>1, <1>2, <1>3, <2>1
  <2>6. t <= a
    <3>1. CASE t > 0
      BY <2>2, <2>4, <2>5, <3>1
    <3>2. CASE t = 0
      BY <1>2, <1>3, <2>2, <3>2
    <3> QED
      BY <1>1, <3>1, <3>2
  <2> QED
    BY <1>1, <1>2, <1>3, <2>1, <2>2, <2>3, <2>6
<1>8. SubSeq(got, t + 1, t + f - 1) = SubSeq(buf, 1, f - 1)
  <2> DEFINE x == SubSeq(got, t + 1, t + f - 1)
             y == SubSeq(buf, 1, f - 1)
  <2>1. \A i \in (t + 1)..(t + f - 1) : got[i] \in STRING
    <3>1. \A i \in (t + 1)..(t + f - 1) : i \in 1..Len(got)
      BY <1>1, <1>2, <1>3, <1>5
    <3> QED
      BY <1>1, <3>1, ElementOfSeq DEF Chars
  <2>2. t + 1 \in Int /\ t + f - 1 \in Int /\ f - 1 \in Int /\ f - 1 >= 0
        /\ (t + f - 1) - (t + 1) + 1 = f - 1 /\ (f - 1) - 1 + 1 = f - 1
    BY <1>1, <1>2, <1>3
  <2>3. /\ x \in Seq(STRING) /\ Len(x) = IF t + 1 <= t + f - 1 THEN (t + f - 1) - (t + 1) + 1 ELSE 0
        /\ \A i \in 1..((t + f - 1) - (t + 1) + 1) : x[i] = got[t + 1 + i - 1]
    BY <2>1, <2>2, SubSeqProperties
  <2>4. \A i \in 1..(f - 1) : buf[i] \in STRING
    <3>1. \A i \in 1..(f - 1) : i \in 1..Len(buf)
      BY <1>2, <1>3
    <3> QED
      BY <1>1, <3>1, ElementOfSeq DEF Chars
  <2>5. /\ y \in Seq(STRING) /\ Len(y) = IF 1 <= f - 1 THEN (f - 1) - 1 + 1 ELSE 0
        /\ \A i \in 1..((f - 1) - 1 + 1) : y[i] = buf[1 + i - 1]
    BY <2>2, <2>4, SubSeqProperties
  <2> HIDE DEF x, y
  <2>6. Len(x) = f - 1 /\ Len(y) = f - 1
    BY <1>1, <1>3, <2>2, <2>3, <2>5
  <2>7. \A i \in 1..(f - 1) : x[i] = got[t + i] /\ y[i] = got[t + i]
    <3>1. SUFFICES ASSUME NEW i \in 1..(f - 1) PROVE x[i] = got[t + i] /\ y[i] = got[t + i]
      OBVIOUS
    <3>2. t + 1 + i - 1 = t + i /\ 1 + i - 1 = i /\ i \in 1..Len(buf)
      BY <1>1, <1>2, <1>3
    <3> QED
      BY <1>4, <2>2, <2>3, <2>5, <3>2
  <2>8. x = y
    BY <2>3, <2>5, <2>6, <2>7, SeqEqual
  <2> QED
    BY <2>8 DEF x, y
<1>9. LineTo(got, e) = SubSeq(got, a + 1, e - 1)
  BY DEF LineTo
<1>10. e - 1 = t + f - 1
  BY <1>1, <1>2, <1>3
<1> HIDE DEF a, e
<1>11. LineTo(got, e) = SubSeq(buf, 1, f - 1)
  BY <1>7, <1>8, <1>9, <1>10
<1> QED
  BY <1>2, <1>3, <1>5, <1>6, <1>11 DEF e, t, f

\* A line leaves the buffer; its event, if it is one, is the next to be printed.
LEMMA TakeLineStream ==
  ASSUME StreamInv, TakeLine
  PROVE  StreamInv'
<1> DEFINE t == Taken
           f == First(buf, NL)
           e == t + f
           line == SubSeq(buf, 1, f - 1)
<1>1. /\ wire \in Chars /\ got \in Chars /\ buf \in Chars /\ shown \in Seq(Event)
      /\ t \in Nat /\ t = Len(got) - Len(buf)
  BY DEF StreamInv, Taken
<1>2. Len(got) \in Nat /\ Len(buf) \in Nat /\ Len(shown) \in Nat
  BY <1>1, LenProperties DEF Chars
<1>3. Has(buf, NL)
  BY DEF TakeLine
<1>4. /\ f \in 1..Len(buf) /\ e \in 1..Len(got) /\ got[e] = NL
      /\ \A i \in (t + 1)..(e - 1) : got[i] # NL
      /\ LineTo(got, e) = line
  <2>1. e - 1 = Taken + f - 1
    BY <1>1, <1>2, <1>3, NextLine
  <2> QED
    BY <1>3, <2>1, NextLine
<1>5. /\ shown' = shown \o EventOf(line) /\ buf' = SubSeq(buf, f + 1, Len(buf))
      /\ UNCHANGED <<wire, got>>
  BY DEF TakeLine
<1>6. line \in Chars
  <2>1. \A i \in 1..(f - 1) : i \in 1..Len(buf)
    BY <1>2, <1>4
  <2>2. \A i \in 1..(f - 1) : buf[i] \in STRING
    BY <1>1, <2>1, ElementOfSeq DEF Chars
  <2>3. f - 1 \in Int
    BY <1>2, <1>4
  <2> QED
    BY <2>2, <2>3, SubSeqProperties DEF Chars
<1> HIDE DEF line
<1>7. t \in Nat /\ e \in Nat /\ t < e /\ f \in Nat /\ e = t + f
  BY <1>1, <1>2, <1>4
<1> HIDE DEF f, e, t
<1>8. Events(got, e) = IF EventOf(line) # <<>> THEN Events(got, t) \cup {e} ELSE Events(got, t)
  BY <1>4, <1>7, CountNext
<1>9. /\ Len(shown) = Cardinality(Events(got, t))
      /\ \A i \in Events(got, t) : EventOf(LineTo(got, i)) = <<shown[Cardinality(Events(got, i))]>>
  BY DEF StreamInv, ShownIsStream, t
<1>10. /\ IsFiniteSet(Events(got, t)) /\ e \notin Events(got, t)
       /\ Cardinality(Events(got, t) \cup {e}) = Len(shown) + 1
  <2>1. IsFiniteSet(Events(got, t))
    BY <1>7, EventsAreFinite
  <2>2. e \notin 1..t
    BY <1>7
  <2>3. e \notin Events(got, t)
    BY <2>2 DEF Events
  <2>4. Cardinality(Events(got, t) \cup {e}) = Cardinality(Events(got, t)) + 1
    BY <2>1, <2>3, FS_AddElement
  <2> QED
    BY <1>9, <2>1, <2>3, <2>4
\* The events printed before this one keep their places.
<1>11. ASSUME NEW i \in Events(got, t)
       PROVE  i \in 1..t /\ Cardinality(Events(got, i)) \in 1..Len(shown)
  <2>1. i \in 1..t /\ i \in Events(got, i) /\ Events(got, i) \in SUBSET Events(got, t)
    BY <1>7, <1>11 DEF Events
  <2>2. IsFiniteSet(Events(got, i)) /\ Cardinality(Events(got, i)) \in Nat
    BY <2>1, EventsAreFinite
  <2>3. Cardinality(Events(got, i)) <= Cardinality(Events(got, t))
    BY <1>10, <2>1, FS_Subset
  <2>4. Cardinality(Events(got, i)) # 0
    BY <2>1, <2>2, FS_EmptySet
  <2> QED
    BY <1>2, <1>9, <2>1, <2>2, <2>3, <2>4
<1>12. /\ shown' \in Seq(Event)
       /\ Len(shown') = Cardinality(Events(got, e))
       /\ \A i \in Events(got, e) : EventOf(LineTo(got, i)) = <<shown'[Cardinality(Events(got, i))]>>
  <2>1. CASE EventOf(line) = <<>>
    <3>1. shown' = shown
      BY <1>1, <1>5, <2>1, ConcatEmptySeq
    <3>2. Events(got, e) = Events(got, t)
      BY <1>8, <2>1
    <3> QED
      BY <1>1, <1>9, <3>1, <3>2
  <2>2. CASE EventOf(line) # <<>>
    <3>1. PICK x \in Event : EventOf(line) = <<x>>
      BY <1>6, <2>2, EventOfLine
    <3>2. /\ shown' \in Seq(Event) /\ Len(shown') = Len(shown) + 1
          /\ \A k \in 1..Len(shown) : shown'[k] = shown[k]
          /\ shown'[Len(shown) + 1] = x
      <4>1. shown' = shown \o <<x>>
        BY <1>5, <3>1
      <4>2. shown' = Append(shown, x)
        BY <1>1, <4>1, AppendIsConcat
      <4> QED
        BY <1>1, <1>2, <4>2, AppendProperties
    <3>3. Events(got, e) = Events(got, t) \cup {e} /\ Cardinality(Events(got, e)) = Len(shown) + 1
      BY <1>8, <1>10, <2>2
    <3>4. ASSUME NEW i \in Events(got, t)
          PROVE  EventOf(LineTo(got, i)) = <<shown'[Cardinality(Events(got, i))]>>
      BY <1>9, <1>11, <3>2, <3>4
    <3>5. EventOf(LineTo(got, e)) = <<shown'[Cardinality(Events(got, e))]>>
      BY <1>4, <3>1, <3>2, <3>3
    <3> QED
      BY <3>2, <3>3, <3>4, <3>5
  <2> QED
    BY <2>1, <2>2
<1>13. /\ buf' \in Chars /\ Len(buf') = Len(buf) - f
       /\ \A i \in 1..(Len(buf) - f) : buf'[i] = buf[f + i]
  <2>1. f \in 0..Len(buf)
    BY <1>2, <1>4, <1>7
  <2> QED
    BY <1>1, <1>5, <2>1, SuffixOf
<1>14. Taken' = e
  <2>1. Taken' = Len(got) - Len(buf')
    BY <1>5 DEF Taken
  <2> QED
    BY <1>1, <1>2, <1>7, <1>13, <2>1
<1>15. buf' = SubSeq(got, e + 1, Len(got))
  <2>1. \A i \in 1..Len(buf) : buf[i] = got[t + i]
    BY BufferIsRest DEF t
  <2>2. ASSUME NEW i \in 1..Len(buf') PROVE buf'[i] = got[e + i]
    <3>1. i \in 1..(Len(buf) - f) /\ f + i \in 1..Len(buf) /\ t + (f + i) = e + i
      BY <1>2, <1>7, <1>13
    <3> QED
      BY <1>13, <2>1, <3>1
  <2>3. e \in 0..Len(got) /\ Len(buf') = Len(got) - e
    BY <1>1, <1>2, <1>4, <1>7, <1>13
  <2> QED
    BY <1>1, <1>13, <2>2, <2>3, SuffixIs
<1>16. ShownIsStream'
  BY <1>4, <1>5, <1>12, <1>14, <1>15 DEF ShownIsStream
<1> QED
  BY <1>1, <1>5, <1>7, <1>12, <1>13, <1>14, <1>16 DEF StreamInv

LEMMA NextStream ==
  ASSUME StreamInv, TypeOK, [Next]_vars
  PROVE  StreamInv'
<1>1. CASE Emit
  BY <1>1, EmitStream
<1>2. CASE \E n \in 1..Len(wire) : Read(n)
  BY <1>2, ReadStream
<1>3. CASE TakeLine
  BY <1>3, TakeLineStream
<1>4. CASE UNCHANGED stream
  BY <1>4 DEF StreamInv, ShownIsStream, Taken, stream
<1>5. ASSUME Looks \/ Answers \/ BodyRead \/ Broken \/ StreamEnds \/ Changes \/ Stopped \/ UNCHANGED vars
      PROVE  UNCHANGED stream
  BY <1>5 DEF Looks, HealthAnswered, HealthDies, HealthTimesOut, HealthAgain, Dispatch, Send,
     SendFails, Answers, Answered, BodyRead, Broken, StreamEnds, Changes, Becomes, Stopped, vars, stream
<1> QED
  BY <1>1, <1>2, <1>3, <1>4, <1>5 DEF Next, Streams

\* Whatever lines the server sends, and wherever the network cuts them, events
\* watch prints the events of what it has read, in order, each of them once
\* (src/commands/events/index.ts:44-62).
THEOREM EventsAreShown == Spec => []ShownIsStream
<1>1. StreamInv => ShownIsStream
  BY DEF StreamInv
<1> QED
  BY <1>1, InitStream, NextStream, TypeCorrect, PTL DEF Spec
=============================================================================
