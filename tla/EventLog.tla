------------------------------ MODULE EventLog ------------------------------
(***************************************************************************)
(* What the runtime_events table promises its readers: a log to which      *)
(* events are appended one at a time, in which nothing is ever changed,    *)
(* removed or recorded a second time ("write-once event log",              *)
(* IMPLEMENTATION.md).  CelldSessions is shown to implement it.            *)
(***************************************************************************)
EXTENDS Sequences, Naturals

CONSTANT Event

VARIABLE log

Init == log = <<>>

Record(e) ==
  /\ \A i \in 1..Len(log) : log[i] # e
  /\ log' = Append(log, e)

Next == \E e \in Event : Record(e)

Spec == Init /\ [][Next]_log
=============================================================================
