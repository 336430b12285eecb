--------------------------- MODULE FileChatProofs ---------------------------
(***************************************************************************)
(* Proofs about FileChat, for any number of chats, sessions and inputs.    *)
(*                                                                         *)
(* A history is well formed when its inputs are in order, its answers      *)
(* single and behind their inputs, and its turns among those typed so far. *)
(* The three properties are inductive only together with what is known of  *)
(* the turns in flight: each is waited for by one chat, and no history     *)
(* has its answer yet.                                                     *)
(***************************************************************************)
EXTENDS FileChat, SequenceTheorems, TLAPS

WellFormed(h, n) ==
  /\ h \in Seq(Message)
  /\ Ordered(h) /\ Single(h) /\ Behind(h)
  /\ \A k \in 1..Len(h) : h[k].turn <= n

Unanswered(h, t) == \A k \in 1..Len(h) : h[k] # Said(t, "assistant")

Histories ==
  /\ \A c \in Chats : WellFormed(messages[c], turns)
  /\ \A i \in Ids : Saved(i) => WellFormed(file[i], turns)

Pending ==
  \A c \in Chats : \A t \in waiting[c] :
    /\ t <= turns
    /\ \A d \in Chats : t \in waiting[d] => d = c
    /\ \A d \in Chats : Unanswered(messages[d], t)
    /\ \A i \in Ids : Saved(i) => Unanswered(file[i], t)

Inv == TypeOK /\ Histories /\ Pending

-----------------------------------------------------------------------------
(* Histories *)

LEMMA EmptyIsWellFormed == \A n \in Nat : WellFormed(<<>>, n)
  BY DEF WellFormed, Ordered, Single, Behind

LEMMA TypedMessages ==
  ASSUME NEW h \in Seq(Message), NEW k \in 1..Len(h)
  PROVE  h[k] \in Message /\ h[k].turn \in Nat
<1>1. h[k] \in Message
  OBVIOUS
<1> QED
  BY <1>1 DEF Message, Turn

LEMMA MoreTurns ==
  ASSUME NEW n \in Nat, NEW h, WellFormed(h, n)
  PROVE  WellFormed(h, n + 1)
<1>1. h \in Seq(Message) /\ Ordered(h) /\ Single(h) /\ Behind(h)
  BY DEF WellFormed
<1>2. \A k \in 1..Len(h) : h[k].turn \in Nat
  BY <1>1, TypedMessages
<1>3. \A k \in 1..Len(h) : h[k].turn <= n
  BY DEF WellFormed
<1>4. \A k \in 1..Len(h) : h[k].turn <= n + 1
  BY <1>2, <1>3
<1> QED
  BY <1>1, <1>4 DEF WellFormed

\* The last message of an appended history is the new one.
LEMMA Appended ==
  ASSUME NEW h \in Seq(Message), NEW m \in Message
  PROVE  /\ Append(h, m) \in Seq(Message)
         /\ Len(Append(h, m)) = Len(h) + 1
         /\ \A k \in 1..Len(h) + 1 :
              Append(h, m)[k] = IF k = Len(h) + 1 THEN m ELSE h[k]
  OBVIOUS

LEMMA InputAppended ==
  ASSUME NEW n \in 0..MaxTurns, n < MaxTurns, NEW h, WellFormed(h, n)
  PROVE  WellFormed(Append(h, Said(n + 1, "user")), n + 1)
<1> DEFINE m == Said(n + 1, "user")
           g == Append(h, m)
<1>1. m \in Message /\ m.turn = n + 1 /\ m.role = "user"
  BY MaxTurnsOK DEF Said, Message, Turn
<1>2. /\ g \in Seq(Message) /\ Len(g) = Len(h) + 1 /\ Len(h) \in Nat
      /\ \A k \in 1..Len(h) + 1 : g[k] = IF k = Len(h) + 1 THEN m ELSE h[k]
  BY <1>1, Appended DEF WellFormed
<1>3. \A k \in 1..Len(h) : h[k].turn <= n /\ h[k] \in Message /\ h[k].turn \in Nat
  BY TypedMessages DEF WellFormed
<1> HIDE DEF g, m
<1>4. Ordered(g)
  BY <1>1, <1>2, <1>3, MaxTurnsOK DEF Ordered, WellFormed
<1>5. Single(g)
  <2> SUFFICES ASSUME NEW k \in 1..Len(g), NEW l \in 1..Len(g),
                      g[k].role = "assistant", g[l] = g[k]
               PROVE  k = l
    BY DEF Single
  <2>1. k # Len(h) + 1 /\ l # Len(h) + 1
    BY <1>1, <1>2
  <2> QED
    BY <2>1, <1>2 DEF Single, WellFormed
<1>6. Behind(g)
  <2> SUFFICES ASSUME NEW k \in 1..Len(g), NEW l \in 1..Len(g),
                      g[k].role = "assistant", g[l] = Said(g[k].turn, "user")
               PROVE  l < k
    BY DEF Behind
  <2>1. k \in 1..Len(h) /\ g[k] = h[k] /\ g[k].turn <= n
    BY <1>1, <1>2, <1>3
  <2>2. l # Len(h) + 1
    BY <2>1, <1>1, <1>2, MaxTurnsOK DEF Said
  <2> QED
    BY <2>1, <2>2, <1>2 DEF Behind, WellFormed
<1>7. \A k \in 1..Len(g) : g[k].turn <= n + 1
  BY <1>1, <1>2, <1>3, MaxTurnsOK
<1> QED
  BY <1>2, <1>4, <1>5, <1>6, <1>7 DEF WellFormed, g, m

LEMMA AnswerAppended ==
  ASSUME NEW n \in 0..MaxTurns, NEW t \in Turn, t <= n,
         NEW h, WellFormed(h, n), Unanswered(h, t)
  PROVE  WellFormed(Append(h, Said(t, "assistant")), n)
<1> DEFINE m == Said(t, "assistant")
           g == Append(h, m)
<1>1. m \in Message /\ m.turn = t /\ m.role = "assistant"
  BY DEF Said, Message
<1>2. /\ g \in Seq(Message) /\ Len(g) = Len(h) + 1 /\ Len(h) \in Nat
      /\ \A k \in 1..Len(h) + 1 : g[k] = IF k = Len(h) + 1 THEN m ELSE h[k]
  BY <1>1, Appended DEF WellFormed
<1>3. \A k \in 1..Len(h) : h[k] # m
  BY DEF Unanswered
<1> HIDE DEF g, m
<1>4. Ordered(g)
  <2> SUFFICES ASSUME NEW k \in 1..Len(g), NEW l \in 1..Len(g), k < l,
                      g[k].role = "user", g[l].role = "user"
               PROVE  g[k].turn < g[l].turn
    BY DEF Ordered
  <2>1. k # Len(h) + 1 /\ l # Len(h) + 1
    BY <1>1, <1>2
  <2> QED
    BY <2>1, <1>2 DEF Ordered, WellFormed
<1>5. Single(g)
  BY <1>1, <1>2, <1>3 DEF Single, WellFormed
<1>6. Behind(g)
  <2> SUFFICES ASSUME NEW k \in 1..Len(g), NEW l \in 1..Len(g),
                      g[k].role = "assistant", g[l] = Said(g[k].turn, "user")
               PROVE  l < k
    BY DEF Behind
  <2>1. l # Len(h) + 1
    BY <1>1, <1>2 DEF Said
  <2>2. l \in 1..Len(h) /\ g[l] = h[l]
    BY <2>1, <1>2
  <2>3. CASE k = Len(h) + 1
    BY <2>2, <2>3, <1>2
  <2>4. CASE k # Len(h) + 1
    BY <2>2, <2>4, <1>2 DEF Behind, WellFormed
  <2> QED
    BY <2>3, <2>4
<1>7. \A k \in 1..Len(g) : g[k].turn <= n
  BY <1>1, <1>2 DEF WellFormed
<1> QED
  BY <1>2, <1>4, <1>5, <1>6, <1>7 DEF WellFormed, g, m

\* Appending another message answers nothing else.
LEMMA StillUnanswered ==
  ASSUME NEW h \in Seq(Message), NEW m \in Message, NEW t,
         Unanswered(h, t), m # Said(t, "assistant")
  PROVE  Unanswered(Append(h, m), t)
  BY Appended DEF Unanswered

-----------------------------------------------------------------------------
(* The invariant *)

LEMMA InitInv == Init => Inv
<1> SUFFICES ASSUME Init PROVE Inv
  OBVIOUS
<1>1. TypeOK
  BY MaxTurnsOK DEF Init, TypeOK
<1>2. Histories
  BY EmptyIsWellFormed DEF Init, Histories, Saved
<1>3. Pending
  BY DEF Init, Pending
<1> QED
  BY <1>1, <1>2, <1>3 DEF Inv

\* A step that leaves the histories as they are, empties or removes some, or
\* copies one into another, and starts no turn.
LEMMA CopyingStep ==
  ASSUME Inv, TypeOK', turns' = turns,
         \A c \in Chats : waiting'[c] \subseteq waiting[c],
         \A c \in Chats : \/ messages'[c] = <<>>
                          \/ messages'[c] = messages[c]
                          \/ \E i \in Ids : Saved(i) /\ messages'[c] = file[i],
         \A i \in Ids : Saved(i)' => file'[i] = <<>> \/ (Saved(i) /\ file'[i] = file[i])
  PROVE  Inv'
<1>1. Histories'
  <2>1. WellFormed(<<>>, turns)
    BY EmptyIsWellFormed, MaxTurnsOK DEF Inv, TypeOK
  <2>2. \A c \in Chats : WellFormed(messages'[c], turns)
    BY <2>1 DEF Inv, Histories
  <2>3. \A i \in Ids : Saved(i)' => WellFormed(file'[i], turns)
    BY <2>1 DEF Inv, Histories
  <2> QED
    BY <2>2, <2>3 DEF Histories
<1>2. Pending'
  <2> SUFFICES ASSUME NEW c \in Chats, NEW t \in waiting'[c]
               PROVE  /\ t <= turns'
                      /\ \A d \in Chats : t \in waiting'[d] => d = c
                      /\ \A d \in Chats : Unanswered(messages'[d], t)
                      /\ \A i \in Ids : Saved(i)' => Unanswered(file'[i], t)
    BY DEF Pending
  <2>1. t \in waiting[c]
    OBVIOUS
  <2>2. Unanswered(<<>>, t)
    BY DEF Unanswered
  <2> QED
    BY <2>1, <2>2 DEF Inv, Pending
<1> QED
  BY <1>1, <1>2 DEF Inv

\* The answer to t, pushed by chat c, which may or may not get it on file.
LEMMA AnsweringStep ==
  ASSUME Inv, TypeOK', turns' = turns, NEW c \in Chats, NEW t \in waiting[c],
         waiting' = [waiting EXCEPT ![c] = @ \ {t}],
         messages' = [messages EXCEPT ![c] = Append(@, Said(t, "assistant"))],
         open[c] \in Ids,
         \A i \in Ids : Saved(i)' => \/ Saved(i) /\ file'[i] = file[i]
                                     \/ i = open[c] /\ file'[i] = messages'[c]
  PROVE  Inv'
<1> DEFINE g == Append(messages[c], Said(t, "assistant"))
<1>1. /\ messages \in [Chats -> Seq(Message)] /\ waiting \in [Chats -> SUBSET Turn]
      /\ turns \in 0..MaxTurns /\ t \in Turn
  BY DEF Inv, TypeOK
<1>2. /\ t <= turns /\ Unanswered(messages[c], t) /\ WellFormed(messages[c], turns)
      /\ \A d \in Chats : t \in waiting[d] => d = c
  BY DEF Inv, Pending, Histories
<1>3. WellFormed(g, turns)
  BY <1>1, <1>2, AnswerAppended
<1>4. messages'[c] = g /\ \A d \in Chats \ {c} : messages'[d] = messages[d]
  BY <1>1
<1> HIDE DEF g
<1>5. Histories'
  BY <1>3, <1>4 DEF Inv, Histories
<1>6. Pending'
  <2> SUFFICES ASSUME NEW b \in Chats, NEW u \in waiting'[b]
               PROVE  /\ u <= turns'
                      /\ \A d \in Chats : u \in waiting'[d] => d = b
                      /\ \A d \in Chats : Unanswered(messages'[d], u)
                      /\ \A i \in Ids : Saved(i)' => Unanswered(file'[i], u)
    BY DEF Pending
  <2>1. \A d \in Chats : waiting'[d] \subseteq waiting[d]
    BY <1>1
  <2>2. u \in waiting[b] /\ u # t
    BY <1>1, <1>2, <2>1
  <2>3. Said(t, "assistant") \in Message /\ Said(t, "assistant") # Said(u, "assistant")
    BY <1>1, <2>2 DEF Said, Message
  <2>4. Unanswered(messages[c], u)
    BY <2>2 DEF Inv, Pending
  <2>5. Unanswered(g, u)
    BY <1>1, <2>3, <2>4, StillUnanswered DEF g
  <2> QED
    BY <2>1, <2>2, <2>5, <1>4 DEF Inv, Pending
<1> QED
  BY <1>5, <1>6 DEF Inv

LEMMA NextInv == Inv /\ [Next]_vars => Inv'
<1> SUFFICES ASSUME Inv, [Next]_vars PROVE Inv'
  OBVIOUS
<1> USE DEF Inv
<1>1. ASSUME NEW c \in Chats, NEW i \in Ids, Open(c, i) PROVE Inv'
  <2>1. TypeOK'
    BY <1>1, MarkersOK DEF Open, TypeOK, IsOpen
  <2> QED
    BY <1>1, <2>1, CopyingStep DEF Open, TypeOK, Saved
<1>2. ASSUME NEW c \in Chats, NEW i \in Ids, OpenNew(c, i) PROVE Inv'
  <2>1. TypeOK'
    BY <1>2, MarkersOK DEF OpenNew, SaveSession, TypeOK, IsOpen
  <2> QED
    BY <1>2, <2>1, CopyingStep DEF OpenNew, SaveSession, TypeOK, Saved
<1>3. ASSUME NEW c \in Chats, NEW t \in waiting[c], Answer(c, t) PROVE Inv'
  <2>1. /\ t \in Turn /\ open[c] \in Ids /\ Said(t, "assistant") \in Message
    BY <1>3 DEF Answer, TypeOK, Said, Message
  <2>1a. messages'[c] \in Seq(Message)
    BY <1>3, <2>1, Appended DEF Answer, TypeOK
  <2>2. TypeOK'
    BY <1>3, <2>1a, <2>1 DEF Answer, SaveSession, TypeOK
  <2> QED
    BY <1>3, <2>1, <2>2, AnsweringStep DEF Answer, SaveSession, TypeOK, Saved
<1>4. ASSUME NEW c \in Chats, NEW t \in waiting[c], AnswerUnsaved(c, t) PROVE Inv'
  <2>1. /\ t \in Turn /\ open[c] \in Ids /\ Said(t, "assistant") \in Message
    BY <1>4 DEF AnswerUnsaved, TypeOK, Said, Message
  <2>1a. messages'[c] \in Seq(Message)
    BY <1>4, <2>1, Appended DEF AnswerUnsaved, TypeOK
  <2>2. TypeOK'
    BY <1>4, <2>1a, <2>1 DEF AnswerUnsaved, TypeOK
  <2>3. \A i \in Ids : Saved(i)' => Saved(i) /\ file'[i] = file[i]
    BY <1>4 DEF AnswerUnsaved, TypeOK, Saved
  <2> QED
    BY <1>4, <2>1, <2>2, <2>3, AnsweringStep DEF AnswerUnsaved
<1>5. ASSUME NEW c \in Chats, NEW t \in waiting[c], Fail(c, t) PROVE Inv'
  <2>1. TypeOK'
    BY <1>5 DEF Fail, TypeOK
  <2> QED
    BY <1>5, <2>1, CopyingStep DEF Fail, TypeOK, Saved
<1>6. ASSUME NEW c \in Chats, Line(c) PROVE Inv'
  <2> DEFINE m == Said(turns + 1, "user")
             g == Append(messages[c], m)
  <2>1. /\ messages \in [Chats -> Seq(Message)] /\ waiting \in [Chats -> SUBSET Turn]
        /\ turns \in 0..MaxTurns /\ turns < MaxTurns /\ turns' = turns + 1
        /\ file' = file
    BY <1>6 DEF Line, TypeOK
  <2>2. turns + 1 \in Turn /\ m \in Message
    BY <2>1, MaxTurnsOK DEF Turn, Message, Said
  <2>3. TypeOK'
    BY <1>6, <2>1, <2>2, MaxTurnsOK DEF Line, TypeOK, IsOpen
  <2>4. messages'[c] = g /\ \A d \in Chats \ {c} : messages'[d] = messages[d]
    BY <1>6, <2>1 DEF Line
  <2>5. WellFormed(g, turns + 1)
    BY <2>1, InputAppended DEF Histories
  <2>6. Histories'
    <3>1. \A d \in Chats : WellFormed(messages[d], turns + 1)
      BY <2>1, MoreTurns DEF Histories
    <3>2. \A i \in Ids : Saved(i) => WellFormed(file[i], turns + 1)
      BY <2>1, MoreTurns DEF Histories
    <3> HIDE DEF g
    <3> QED
      BY <3>1, <3>2, <2>1, <2>4, <2>5 DEF Histories, Saved
  <2>7. ASSUME NEW u \in Turn
        PROVE  /\ Unanswered(messages[c], u) => Unanswered(g, u)
               /\ \A h : WellFormed(h, turns) /\ u = turns + 1 => Unanswered(h, u)
    <3>1. m # Said(u, "assistant")
      BY DEF Said
    <3>2. Unanswered(messages[c], u) => Unanswered(g, u)
      BY <3>1, <2>1, <2>2, StillUnanswered
    <3>3. ASSUME NEW h, WellFormed(h, turns), u = turns + 1 PROVE Unanswered(h, u)
      BY <3>3, <2>1 DEF WellFormed, Unanswered, Said
    <3> QED
      BY <3>2, <3>3
  <2>8. Pending'
    <3> SUFFICES ASSUME NEW b \in Chats, NEW u \in waiting'[b]
                 PROVE  /\ u <= turns'
                        /\ \A d \in Chats : u \in waiting'[d] => d = b
                        /\ \A d \in Chats : Unanswered(messages'[d], u)
                        /\ \A i \in Ids : Saved(i)' => Unanswered(file'[i], u)
      BY DEF Pending
    <3>1. waiting'[c] = waiting[c] \union {turns + 1}
          /\ \A d \in Chats \ {c} : waiting'[d] = waiting[d]
      BY <1>6, <2>1 DEF Line
    <3>2. \A d \in Chats : \A v \in waiting[d] : v \in Nat /\ v <= turns
      BY <2>1 DEF Pending, Turn
    <3>3. u \in Turn
      BY <2>3 DEF TypeOK
    <3> HIDE DEF g
    <3>4. CASE u = turns + 1
      <4>1. b = c /\ \A d \in Chats : u \in waiting'[d] => d = b
        BY <3>1, <3>2, <3>4, <2>1
      <4>2. (\A d \in Chats : Unanswered(messages[d], u))
            /\ (\A i \in Ids : Saved(i) => Unanswered(file[i], u))
        BY <3>3, <3>4, <2>7 DEF Histories
      <4> QED
        BY <4>1, <4>2, <3>3, <3>4, <2>1, <2>4, <2>7 DEF Saved
    <3>5. CASE u # turns + 1
      <4>1. u \in waiting[b]
        BY <3>1, <3>5
      <4>2. /\ \A d \in Chats : u \in waiting[d] => d = b
            /\ \A d \in Chats : Unanswered(messages[d], u)
            /\ \A i \in Ids : Saved(i) => Unanswered(file[i], u)
        BY <4>1 DEF Pending
      <4>3. \A d \in Chats : u \in waiting'[d] => d = b
        BY <4>2, <3>1, <3>5
      <4>4. u <= turns'
        BY <4>1, <3>2, <2>1
      <4> QED
        BY <4>2, <4>3, <4>4, <3>3, <2>1, <2>4, <2>7 DEF Saved
    <3> QED
      BY <3>4, <3>5
  <2> QED
    BY <2>3, <2>6, <2>8
<1>7. ASSUME NEW c \in Chats, Clear(c) PROVE Inv'
  <2>1. TypeOK'
    BY <1>7 DEF Clear, SaveSession, TypeOK, IsOpen
  <2> QED
    BY <1>7, <2>1, CopyingStep DEF Clear, SaveSession, TypeOK, Saved
<1>8. ASSUME NEW c \in Chats, Quit(c) PROVE Inv'
  <2>1. TypeOK'
    BY <1>8 DEF Quit, End, TypeOK
  <2> QED
    BY <1>8, <2>1, CopyingStep DEF Quit, End, TypeOK, Saved
<1>9. ASSUME NEW c \in Chats, CrashSaving(c) PROVE Inv'
  <2>1. TypeOK'
    BY <1>9 DEF CrashSaving, End, TypeOK, IsOpen
  <2> QED
    BY <1>9, <2>1, CopyingStep DEF CrashSaving, End, TypeOK, Saved
<1>10. ASSUME NEW i \in Ids, SessionNew(i) PROVE Inv'
  <2>1. TypeOK'
    BY <1>10 DEF SessionNew, SaveSession, TypeOK
  <2> QED
    BY <1>10, <2>1, CopyingStep DEF SessionNew, SaveSession, TypeOK, Saved
<1>11. ASSUME NEW i \in Ids, SessionRm(i) PROVE Inv'
  <2>1. TypeOK'
    BY <1>11 DEF SessionRm, TypeOK
  <2> QED
    BY <1>11, <2>1, CopyingStep DEF SessionRm, TypeOK, Saved
<1>12. CASE UNCHANGED vars
  <2>1. TypeOK'
    BY <1>12 DEF vars, TypeOK
  <2> QED
    BY <1>12, <2>1, CopyingStep DEF vars, Saved
<1> QED
  BY <1>1, <1>2, <1>3, <1>4, <1>5, <1>6, <1>7, <1>8, <1>9, <1>10, <1>11, <1>12 DEF Next

\* Types, well-formed histories, and turns in flight that one chat waits for
\* and no history answers, in every reachable state (index.ts:193-210).
THEOREM InvHolds == Spec => []Inv
  BY InitInv, NextInv, PTL DEF Spec

\* The types hold in every reachable state.
THEOREM TypeCorrect == Spec => []TypeOK
  BY InvHolds, PTL DEF Inv

\* However many chats overlap on however many sessions, and however their
\* turns overlap, no history shows inputs out of the order they were typed in.
THEOREM InputsStayInOrder == Spec => []InputsInOrder
<1>1. Inv => InputsInOrder
  BY DEF Inv, Histories, WellFormed, InputsInOrder, InEveryHistory
<1> QED
  BY <1>1, InvHolds, PTL

\* ... no history shows two answers to one input ...
THEOREM AnswersStaySingle == Spec => []AnswersOnce
<1>1. Inv => AnswersOnce
  BY DEF Inv, Histories, WellFormed, AnswersOnce, InEveryHistory
<1> QED
  BY <1>1, InvHolds, PTL

\* ... and none shows an answer before its input.
THEOREM AnswersFollowInputs == Spec => []AnswersAfterInputs
<1>1. Inv => AnswersAfterInputs
  BY DEF Inv, Histories, WellFormed, AnswersAfterInputs, InEveryHistory
<1> QED
  BY <1>1, InvHolds, PTL

-----------------------------------------------------------------------------
(* One chat at a time *)

LEMMA PrefixByMessages ==
  ASSUME NEW s \in Seq(Message), NEW t \in Seq(Message)
  PROVE  IsPrefix(s, t) <=> Len(s) <= Len(t) /\ \A k \in 1..Len(s) : s[k] = t[k]
<1>0. Len(s) \in Nat /\ Len(t) \in Nat
  BY LenProperties
<1>1. ASSUME Len(s) <= Len(t)
      PROVE  /\ SubSeq(s, 1, Len(s)) \in Seq(Message) /\ SubSeq(t, 1, Len(s)) \in Seq(Message)
             /\ Len(SubSeq(s, 1, Len(s))) = Len(s) /\ Len(SubSeq(t, 1, Len(s))) = Len(s)
             /\ \A k \in 1..Len(s) : SubSeq(s, 1, Len(s))[k] = s[k] /\ SubSeq(t, 1, Len(s))[k] = t[k]
  BY <1>0, <1>1
<1>2. ASSUME Len(s) <= Len(t), \A k \in 1..Len(s) : s[k] = t[k]
      PROVE  SubSeq(s, 1, Len(s)) = SubSeq(t, 1, Len(s))
  <2> DEFINE u == SubSeq(s, 1, Len(s))
             v == SubSeq(t, 1, Len(s))
  <2>1. u \in Seq(Message) /\ v \in Seq(Message) /\ Len(u) = Len(v)
    BY <1>1, <1>2
  <2>2. \A k \in 1..Len(u) : u[k] = v[k]
    BY <1>1, <1>2
  <2> HIDE DEF u, v
  <2>3. u = v
    BY <2>1, <2>2, SeqEqual
  <2> QED
    BY <2>3 DEF u, v
<1> QED
  BY <1>1, <1>2 DEF IsPrefix

LEMMA PrefixGrows ==
  ASSUME NEW s \in Seq(Message), NEW t \in Seq(Message), NEW m \in Message
  PROVE  /\ IsPrefix(s, s) /\ IsPrefix(<<>>, s)
         /\ IsPrefix(s, t) => IsPrefix(s, Append(t, m))
<1>0. Len(s) \in Nat /\ Len(t) \in Nat
  BY LenProperties
<1>1. IsPrefix(s, s)
  BY <1>0, PrefixByMessages
<1>2. IsPrefix(<<>>, s)
  <2>1. <<>> \in Seq(Message) /\ Len(<<>>) = 0
    OBVIOUS
  <2>2. Len(<<>>) <= Len(s) /\ \A k \in 1..Len(<<>>) : <<>>[k] = s[k]
    BY <1>0, <2>1
  <2> QED
    BY <2>1, <2>2, PrefixByMessages
<1>3. ASSUME IsPrefix(s, t) PROVE IsPrefix(s, Append(t, m))
  <2>1. Len(s) <= Len(t) /\ \A k \in 1..Len(s) : s[k] = t[k]
    BY <1>3, PrefixByMessages
  <2>2. /\ Append(t, m) \in Seq(Message) /\ Len(Append(t, m)) = Len(t) + 1
        /\ \A k \in 1..Len(t) + 1 : Append(t, m)[k] = IF k = Len(t) + 1 THEN m ELSE t[k]
    BY Appended
  <2>3. Len(s) <= Len(Append(t, m)) /\ \A k \in 1..Len(s) : s[k] = Append(t, m)[k]
    BY <1>0, <2>1, <2>2
  <2> QED
    BY <2>2, <2>3, PrefixByMessages
<1> QED
  BY <1>1, <1>2, <1>3

\* Where the chat's file stays as it is, is saved or torn.
LEMMA BehindStep ==
  ASSUME TypeOK, TypeOK', FileBehindChat, [Next]_vars, \A c, d \in Chats : c = d
  PROVE  FileBehindChat'
<1> SUFFICES ASSUME NEW c \in Chats, open'[c] # NoId, file'[open'[c]] \notin {NoFile, Torn}
             PROVE  IsPrefix(file'[open'[c]], messages'[c])
  BY DEF FileBehindChat, IsOpen, Saved
<1> DEFINE Goal == IsPrefix(file'[open'[c]], messages'[c])
<1>0. /\ messages[c] \in Seq(Message) /\ messages'[c] \in Seq(Message)
      /\ open[c] \in Ids \union {NoId} /\ open'[c] \in Ids
      /\ file'[open'[c]] \in Seq(Message) /\ \A d \in Chats : d = c
      /\ turns \in 0..MaxTurns /\ waiting[c] \subseteq Turn
  BY DEF TypeOK
<1>1. ASSUME open'[c] = open[c], file'[open[c]] = file[open[c]],
             messages'[c] = messages[c] \/ \E m \in Message : messages'[c] = Append(messages[c], m)
      PROVE  Goal
  <2>1. IsPrefix(file[open[c]], messages[c])
    BY <1>0, <1>1 DEF FileBehindChat, IsOpen, Saved
  <2> QED
    BY <1>0, <1>1, <2>1, PrefixGrows
<1>2. ASSUME file'[open'[c]] = messages'[c] \/ file'[open'[c]] = <<>> PROVE Goal
  <2>1. Said(1, "user") \in Message \/ messages'[c] = <<>>
    <3>1. CASE MaxTurns = 0
      <4>1. Message = {}
        BY <3>1 DEF Message, Turn
      <4> QED
        BY <1>0, <4>1
    <3>2. CASE MaxTurns # 0
      BY <3>2, MaxTurnsOK DEF Said, Message, Turn
    <3> QED
      BY <3>1, <3>2
  <2>2. CASE messages'[c] = <<>>
    BY <1>2, <2>2 DEF IsPrefix
  <2>3. CASE Said(1, "user") \in Message
    BY <1>0, <1>2, <2>3, PrefixGrows
  <2> QED
    BY <2>1, <2>2, <2>3
<1> HIDE DEF Goal
<1>3. ASSUME NEW i \in Ids, Open(c, i) \/ OpenNew(c, i) PROVE Goal
  BY <1>2, <1>3 DEF Open, OpenNew, SaveSession, TypeOK
<1>4. ASSUME NEW t \in waiting[c], Answer(c, t) PROVE Goal
  BY <1>0, <1>2, <1>4 DEF Answer, SaveSession, TypeOK
<1>5. ASSUME NEW t \in waiting[c], AnswerUnsaved(c, t) PROVE Goal
  <2>1. open' = open /\ Said(t, "assistant") \in Message /\ messages'[c] = Append(messages[c], Said(t, "assistant"))
    BY <1>0, <1>5 DEF AnswerUnsaved, TypeOK, Said, Message
  <2>2. file' = file
    BY <1>0, <1>5, <2>1 DEF AnswerUnsaved, TypeOK
  <2> QED
    BY <1>1, <2>1, <2>2
<1>6. ASSUME NEW t \in waiting[c], Fail(c, t) PROVE Goal
  BY <1>1, <1>6 DEF Fail
<1>7. ASSUME Line(c) PROVE Goal
  <2>1. Said(turns + 1, "user") \in Message
    BY <1>0, <1>7, MaxTurnsOK DEF Line, Said, Message, Turn
  <2> QED
    BY <1>1, <1>7, <2>1 DEF Line, TypeOK
<1>8. ASSUME Clear(c) PROVE Goal
  BY <1>0, <1>2, <1>8 DEF Clear, SaveSession, TypeOK
<1>9. ASSUME Quit(c) \/ CrashSaving(c) PROVE FALSE
  <2>1. open'[c] = NoId
    BY <1>9 DEF Quit, CrashSaving, End, TypeOK
  <2> QED
    BY <1>0, <2>1, MarkersOK
<1>10. ASSUME NEW i \in Ids, SessionNew(i) PROVE Goal
  <2>1. open'[c] = open[c] /\ messages'[c] = messages[c]
    BY <1>10 DEF SessionNew
  <2>2. CASE open[c] = i
    BY <1>0, <1>2, <1>10, <2>1, <2>2 DEF SessionNew, SaveSession, TypeOK
  <2>3. CASE open[c] # i
    BY <1>1, <1>10, <2>1, <2>3 DEF SessionNew, SaveSession, TypeOK
  <2> QED
    BY <2>2, <2>3
<1>11. ASSUME NEW i \in Ids, SessionRm(i) PROVE Goal
  <2>1. open[c] # i
    BY <1>0, <1>11 DEF SessionRm, TypeOK
  <2> QED
    BY <1>1, <1>11, <2>1 DEF SessionRm, TypeOK
<1>12. ASSUME UNCHANGED vars PROVE Goal
  BY <1>1, <1>12 DEF vars
<1>13. Goal
  BY <1>0, <1>3, <1>4, <1>5, <1>6, <1>7, <1>8, <1>9, <1>10, <1>11, <1>12 DEF Next
<1> QED
  BY <1>13 DEF Goal

\* While one chat runs at a time its file is a beginning of what it shows: a crash or a failing
\* save loses the end of the history and nothing else (cmdChat and saveSession, index.ts).
THEOREM FileStaysBehindChat ==
  ASSUME \A c, d \in Chats : c = d
  PROVE  Spec => []FileBehindChat
<1>1. Init => FileBehindChat
  BY DEF Init, FileBehindChat, IsOpen
<1> QED
  BY <1>1, TypeCorrect, BehindStep, PTL DEF Spec

=============================================================================
