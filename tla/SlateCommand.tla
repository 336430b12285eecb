---------------------------- MODULE SlateCommand ----------------------------
(***************************************************************************)
(* What the user of a slate command, or the caller of a function of the    *)
(* HTTP service (runtime/slate-service.ts), may count on, whatever the     *)
(* servers do: at most one request besides the health checks reaches a     *)
(* server, nothing is said to have succeeded that nobody answered, and     *)
(* the search for a server comes to an end.                                *)
(***************************************************************************)
EXTENDS Naturals

VARIABLES
  kind,                    \* what the command does with the answer
  asked,                   \* requests that have reached a server
  answer,                  \* what the server said: nothing yet, ok, an error status
  code                     \* how the command ended

vars == <<kind, asked, answer, code>>

Init ==
  /\ kind \in {"status", "text", "stream", "service"}
  /\ asked = 0 /\ answer = "none" /\ code = "running"

\* How a command may end on an answer. Only events watch and the service look
\* at the status: all others end with 0 on an error status, too.
Outcome(k, a) ==
  CASE k = "service" -> IF a = "ok" THEN "value" ELSE "SlateError"
    [] k = "stream"  -> IF a = "ok" THEN "0" ELSE "2"
    [] OTHER         -> "0"

\* How it may end without one: the arguments are wrong, no server, no answer.
NoAnswer(k) == IF k = "service" THEN {"defect"} ELSE {"1", "2"}

GiveUp ==
  /\ code = "running" /\ asked = 0
  /\ code' \in NoAnswer(kind)
  /\ UNCHANGED <<kind, asked, answer>>

Ask ==
  /\ code = "running" /\ asked = 0
  /\ asked' = 1
  /\ UNCHANGED <<kind, answer, code>>

\* The answer comes, and the command may be through with it at once.
Hear ==
  /\ code = "running" /\ asked = 1 /\ answer = "none"
  /\ answer' \in {"ok", "error"}
  /\ code' \in {"running", Outcome(kind, answer')}
  /\ UNCHANGED <<kind, asked>>

Finish ==
  /\ code = "running" /\ answer # "none"
  /\ code' = Outcome(kind, answer)
  /\ UNCHANGED <<kind, asked, answer>>

\* The connection breaks before or while the answer is read: the server may
\* have done what it was asked all the same, and nobody asks it again.
Lose ==
  /\ code = "running" /\ asked = 1
  /\ code' \in NoAnswer(kind) \ {"2"}
  /\ UNCHANGED <<kind, asked, answer>>

Next == GiveUp \/ Ask \/ Hear \/ Finish \/ Lose

\* The search ends: with a request, or without one.
SearchEnds == (code = "running" /\ asked = 0) ~> (code # "running" \/ asked = 1)

Spec == Init /\ [][Next]_vars /\ SearchEnds
=============================================================================
