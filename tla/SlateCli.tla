------------------------------ MODULE SlateCli ------------------------------
(***************************************************************************)
(* One slate command (src/commands/<group>/index.ts), or one call of the   *)
(* HTTP service (src/runtime/slate-service.ts), among servers that start,  *)
(* stop and hang while it runs. A command looks for a slate server on a    *)
(* range of ports, checks its arguments, sends one request and prints the  *)
(* answer; events watch goes on printing the events of a stream.           *)
(*                                                                         *)
(* fetch and json are awaited inside Effect.promise: when one of them      *)
(* rejects, the effect dies, the try block around it does not see it, and  *)
(* runPromise rejects.                                                     *)
(***************************************************************************)
EXTENDS Naturals, Sequences, FiniteSets, SequencesExt, FiniteSetsExt

CONSTANTS
  LastPort,                \* the ports of the range are 1..LastPort
  MaxChanges,              \* bound: how often a port changes its server
  Emitted                  \* bound: the lines a server may send, in order

ASSUME BoundsOK ==
  /\ LastPort \in Nat \ {0} /\ MaxChanges \in Nat
  /\ Emitted \in Seq(Seq(STRING))

VARIABLES
  input,                   \* what the command was called with
  what,                    \* port -> what listens there
  changes,                 \* bookkeeping for MaxChanges
  port,                    \* the port that is asked
  pc,                      \* where the command is
  received,                \* the requests servers have got, health checks aside
  answer,                  \* the status of the answer
  code,                    \* how the command ended
  emitted, wire,           \* lines the server has sent, characters on the way
  got,                     \* characters read, for ShownIsStream
  buf, shown               \* the splitter's buffer, the events printed

vars == <<input, what, changes, port, pc, received, answer, code, emitted, wire, got, buf, shown>>
stream == <<emitted, wire, got, buf, shown>>

Ports == 1..LastPort

\* What a port answers to a health check: that it is healthy; that it is not;
\* 200 with something that is no JSON; nothing; or it refuses the connection.
Listeners == {"slate", "other", "garbled", "mute", "closed"}

-----------------------------------------------------------------------------
(* The commands: what they insist on, send and print *)

\* needs: arguments without which the command ends with 2.
Command(needs, method, prints) == [needs |-> needs, method |-> method, kind |-> prints]

SessionCommands == [
  list     |-> Command(0, "GET", "text"),
  create   |-> Command(0, "POST", "text"),
  get      |-> Command(1, "GET", "text"),
  rm       |-> Command(1, "DELETE", "status"),
  abort    |-> Command(1, "POST", "status"),
  messages |-> Command(1, "GET", "text"),
  command  |-> Command(2, "POST", "text")]

ModelCommands ==
  LET shows == {"slots", "sets"}
      sets == {"set-default", "apply-set", "set-session"}
  IN  [name \in shows \cup sets \cup {"favorite"} |->
         IF name \in shows THEN Command(0, "GET", "text")
         ELSE Command(IF name \in sets THEN 1 ELSE 2, "POST", "status")]

\* config sends PATCH when there is data (see Method).
OpsCommands ==
  LET shows == {"health", "path", "vcs", "config"}
      acts == {"dispose", "storage-reset", "instance-dispose", "log"}
  IN  [name \in shows \cup acts |->
         IF name \in shows THEN Command(0, "GET", "text") ELSE Command(0, "POST", "status")]

\* The session of list and backfill is a flag, and missing it an error, too.
WorkflowCommands ==
  LET shows == {"list", "get", "graph"}
      acts == {"cancel", "backfill"}
  IN  [name \in shows \cup acts |->
         IF name \in shows THEN Command(1, "GET", "text") ELSE Command(1, "POST", "status")]

FindCommands == [name \in {"text", "files", "symbols"} |-> Command(1, "GET", "text")]

PermCommands == [
  list  |-> Command(0, "GET", "text"),
  reply |-> Command(2, "POST", "status")]

FileCommands ==
  [name \in {"ls", "status", "cat"} |-> Command(IF name = "cat" THEN 1 ELSE 0, "GET", "text")]

EventsCommands == [watch |-> Command(0, "GET", "stream")]

Groups == [
  session |-> SessionCommands, model |-> ModelCommands, ops |-> OpsCommands,
  workflow |-> WorkflowCommands, find |-> FindCommands, perm |-> PermCommands,
  file |-> FileCommands, events |-> EventsCommands]

\* The service's functions; a GET with a body is a TypeError of fetch.
ServiceCalls ==
  LET shows == {"getServerPath", "listSessions", "getSession", "getSessionMessages",
                "listWorkflowRuns", "getWorkflowRun", "getRunProgramGraph", "listPermissions",
                "listModelSlots", "getConfig", "getVcs"}
      files == {"listFiles", "readFile"}
      acts == {"abortSession", "cancelWorkflowRun", "disposeServer"}
      sends == {"createSession", "sendCommand", "forkSession", "replyToPermission",
                "setSlotDefault", "setSessionModel"}
  IN  [name \in shows \cup files \cup acts \cup sends \cup {"deleteSession", "patchConfig"} |->
         [method |-> IF name \in shows \cup files THEN "GET"
                     ELSE IF name \in acts \cup sends THEN "POST"
                     ELSE IF name = "deleteSession" THEN "DELETE" ELSE "PATCH",
          body |-> name \in files \cup sends \cup {"patchConfig"}]]

\* What cannot be parsed or is not allowed: --extra of ops log, --data of ops
\* config, the action of perm reply.
Flags(g, sub) ==
  IF <<g, sub>> \in {<<"ops", "log">>, <<"ops", "config">>} THEN {"none", "good", "bad"}
  ELSE IF <<g, sub>> = <<"perm", "reply">> THEN {"good", "bad"}
  ELSE {"none"}

CommandLines ==
  (UNION {UNION {[group : {g}, sub : {sub}, flag : Flags(g, sub),
                  given : {n \in 0..2 : n \in {Groups[g][sub].needs, Groups[g][sub].needs - 1}}]
                   : sub \in DOMAIN Groups[g]} : g \in DOMAIN Groups})
  \cup [group : DOMAIN Groups, sub : {"unknown"}, flag : {"none"}, given : {0}]
ServiceLines ==
  [group : {"service"}, sub : DOMAIN ServiceCalls, flag : {"none"}, given : {0}]

OfService == input.group = "service"
Known == ~OfService /\ input.sub \in DOMAIN Groups[input.group]

Kind ==
  IF OfService THEN "service"
  ELSE IF Known THEN Groups[input.group][input.sub].kind ELSE "text"

Method ==
  IF OfService THEN ServiceCalls[input.sub].method
  ELSE IF <<input.group, input.sub>> = <<"ops", "config">> /\ input.flag # "none" THEN "PATCH"
  ELSE Groups[input.group][input.sub].method

Usable ==
  /\ Known
  /\ input.given >= Groups[input.group][input.sub].needs
  /\ input.flag # "bad"

-----------------------------------------------------------------------------

Init ==
  /\ input \in CommandLines \cup ServiceLines
  /\ what \in [Ports -> Listeners]
  /\ changes = 0 /\ port = 1 /\ received = <<>>
  /\ pc = IF OfService THEN "sending" ELSE "probing"
  /\ answer = "none" /\ code = "running"
  /\ emitted = 0 /\ wire = <<>> /\ got = <<>> /\ buf = <<>> /\ shown = <<>>

Exit(c) == pc' = "exit" /\ code' = c
Go(where) == pc' = where /\ UNCHANGED code

\* runPromise rejects: the command prints the error and exits with 1, the
\* caller of the service has a defect.
Rejects == Exit(IF OfService THEN "defect" ELSE "1")

Here == what[port]

\* A server starts, stops, hangs, or another takes its port.
Becomes(p, w) ==
  /\ pc # "exit" /\ changes < MaxChanges /\ what[p] # w
  /\ what' = [what EXCEPT ![p] = w]
  /\ changes' = changes + 1
  /\ UNCHANGED <<input, port, pc, received, answer, code, stream>>

-----------------------------------------------------------------------------
(* findBaseUrl: the ports one after the other *)

\* Mutant of HealthAnswered: the scan goes past its last port.
HealthAnsweredPast ==
  /\ pc = "probing" /\ Here \in {"slate", "other"}
  /\ IF Here = "slate" THEN Go("dispatching") /\ UNCHANGED port
     ELSE IF port > LastPort THEN Exit("1") /\ UNCHANGED port
     ELSE port' = port + 1 /\ UNCHANGED <<pc, code>>
  /\ UNCHANGED <<input, what, changes, received, answer, stream>>

\* An answer: the scan ends at the first healthy one, or after the last port.
HealthAnswered ==
  /\ pc = "probing" /\ Here \in {"slate", "other"}
  /\ IF Here = "slate" THEN Go("dispatching") /\ UNCHANGED port
     ELSE IF port = LastPort THEN Exit("1") /\ UNCHANGED port
     ELSE port' = port + 1 /\ UNCHANGED <<pc, code>>
  /\ UNCHANGED <<input, what, changes, received, answer, stream>>

\* Refused, or no JSON: healthCheck dies, and with it the whole scan.
HealthDies ==
  /\ pc \in {"probing", "again"} /\ Here \in {"closed", "garbled"}
  /\ Rejects
  /\ UNCHANGED <<input, what, changes, port, received, answer, stream>>

\* No answer within 1.5 s: the signal makes fetch, or json, reject.
HealthTimesOut ==
  /\ pc \in {"probing", "again"} /\ Here = "mute"
  /\ Rejects
  /\ UNCHANGED <<input, what, changes, port, received, answer, stream>>

\* ops health checks once more, and asks whatever the result is.
HealthAgain ==
  /\ pc = "again" /\ Here \in {"slate", "other"}
  /\ Go("sending")
  /\ UNCHANGED <<input, what, changes, port, received, answer, stream>>

-----------------------------------------------------------------------------
(* The request *)

\* The switch over the subcommands; arguments are only looked at here.
Dispatch ==
  /\ pc = "dispatching"
  /\ IF ~Usable THEN Exit("2")
     ELSE IF <<input.group, input.sub>> = <<"ops", "health">> THEN Go("again") ELSE Go("sending")
  /\ UNCHANGED <<input, what, changes, port, received, answer, stream>>

\* Refused by fetch itself, before anything is sent.
Unsendable == OfService /\ Method = "GET" /\ ServiceCalls[input.sub].body

Send ==
  /\ pc = "sending" /\ Here # "closed" /\ ~Unsendable
  /\ received' = Append(received, [to |-> port, method |-> Method])
  /\ Go("waiting")
  /\ UNCHANGED <<input, what, changes, port, answer, stream>>

SendFails ==
  /\ pc = "sending" /\ (Here = "closed" \/ Unsendable)
  /\ Rejects
  /\ UNCHANGED <<input, what, changes, port, received, answer, stream>>

\* The status line and the headers of the answer. Only events watch looks at
\* the status here (an ok without a body is an error to it); what prints the
\* status does not wait for the body.
Answered(status) ==
  /\ pc = "waiting" /\ Here \notin {"mute", "closed"}
  /\ answer' = status
  /\ CASE Kind = "status" -> Exit("0")
       [] Kind = "stream" -> IF status = "ok" THEN Go("streaming") ELSE Exit("2")
       [] OTHER           -> Go("reading")
  /\ UNCHANGED <<input, what, changes, port, received, stream>>

\* The body: printed, or parsed by the service (text that is no JSON is
\* returned as it is, an empty body as an empty object).
BodyRead ==
  /\ pc = "reading" /\ Here \notin {"mute", "closed"}
  /\ Exit(IF ~OfService THEN "0" ELSE IF answer = "ok" THEN "value" ELSE "SlateError")
  /\ UNCHANGED <<input, what, changes, port, received, answer, stream>>

\* Mutant of Broken: the request is sent again.
BrokenRetried ==
  /\ pc = "waiting"
  /\ Go("sending")
  /\ UNCHANGED <<input, what, changes, port, received, answer, stream>>

\* The connection breaks while something is awaited. There is no limit of the
\* command's own on how long it waits.
Broken ==
  /\ pc \in {"waiting", "reading", "streaming"}
  /\ Rejects
  /\ UNCHANGED <<input, what, changes, port, received, answer, stream>>

-----------------------------------------------------------------------------
(* events watch: lines of the stream *)

NL == "newline"
CR == "return"
Blank == {"space", CR, NL}
Data == <<"da", "ta:">>    \* the prefix data:, which a chunk may cut, too

Has(s, c) == \E i \in DOMAIN s : s[i] = c
First(s, c) == Min({i \in DOMAIN s : s[i] = c})

\* String.trim.
Trim(s) ==
  LET solid == {i \in DOMAIN s : s[i] \notin Blank}
  IN  IF solid = {} THEN <<>> ELSE SubSeq(s, Min(solid), Max(solid))

WithoutReturn(s) == IF s # <<>> /\ Last(s) = CR THEN Front(s) ELSE s

\* The event of a line: none unless it begins with data: and has more.
EventOf(line) ==
  LET l == WithoutReturn(line)
  IN  IF IsPrefix(Data, l) /\ Trim(SubSeq(l, 3, Len(l))) # <<>>
      THEN <<Trim(SubSeq(l, 3, Len(l)))>> ELSE <<>>

\* The server sends its next line, or all but its end and then nothing more.
Emit ==
  /\ pc = "streaming" /\ Here \notin {"mute", "closed"} /\ emitted < Len(Emitted)
  /\ \/ /\ wire' = wire \o Emitted[emitted + 1]
        /\ emitted' = emitted + 1
     \/ /\ wire' = wire \o Front(Emitted[emitted + 1])
        /\ emitted' = Len(Emitted)
  /\ UNCHANGED <<input, what, changes, port, pc, received, answer, code, got, buf, shown>>

\* Mutant of Read: a chunk replaces what is left of the one before.
ReadAfresh(n) ==
  /\ pc = "streaming" /\ ~Has(buf, NL) /\ n \in 1..Len(wire)
  /\ buf' = SubSeq(wire, 1, n)
  /\ got' = got \o SubSeq(wire, 1, n)
  /\ wire' = SubSeq(wire, n + 1, Len(wire))
  /\ UNCHANGED <<input, what, changes, port, pc, received, answer, code, emitted, shown>>

\* A chunk of any size, once the buffer holds no complete line.
Read(n) ==
  /\ pc = "streaming" /\ ~Has(buf, NL) /\ n \in 1..Len(wire)
  /\ buf' = buf \o SubSeq(wire, 1, n)
  /\ got' = got \o SubSeq(wire, 1, n)
  /\ wire' = SubSeq(wire, n + 1, Len(wire))
  /\ UNCHANGED <<input, what, changes, port, pc, received, answer, code, emitted, shown>>

\* One turn of the inner loop: the first line leaves the buffer.
TakeLine ==
  /\ pc = "streaming" /\ Has(buf, NL)
  /\ shown' = shown \o EventOf(SubSeq(buf, 1, First(buf, NL) - 1))
  /\ buf' = SubSeq(buf, First(buf, NL) + 1, Len(buf))
  /\ UNCHANGED <<input, what, changes, port, pc, received, answer, code, emitted, wire, got>>

\* The server ends the stream; what is left in the buffer is not looked at.
StreamEnds ==
  /\ pc = "streaming" /\ ~Has(buf, NL) /\ wire = <<>>
  /\ Exit("0")
  /\ UNCHANGED <<input, what, changes, port, received, answer, stream>>

-----------------------------------------------------------------------------

\* What the command does by itself, and the timer of a health check.
Looks == HealthAnswered \/ HealthDies \/ HealthTimesOut \/ HealthAgain \/ Dispatch \/ Send \/ SendFails

Answers == \E status \in {"ok", "error"} : Answered(status)
Streams == (\E n \in 1..Len(wire) : Read(n)) \/ TakeLine \/ StreamEnds
Changes == \E p \in Ports, w \in Listeners : Becomes(p, w)

\* The command has ended.
Stopped == pc = "exit" /\ UNCHANGED vars

Next == Looks \/ Answers \/ BodyRead \/ Broken \/ Streams \/ Emit \/ Changes \/ Stopped

\* A health check is answered, refused or timed out, and the rest of the
\* search is the program's own steps. Nothing is assumed of an answer to the
\* request itself.
Spec == Init /\ [][Next]_vars /\ WF_vars(Looks)

-----------------------------------------------------------------------------
(* Properties *)

TypeOK ==
  /\ input \in CommandLines \cup ServiceLines
  /\ what \in [Ports -> Listeners] /\ changes \in 0..MaxChanges /\ port \in Ports
  /\ pc \in {"probing", "again", "dispatching", "sending", "waiting", "reading", "streaming", "exit"}
  /\ received \in Seq([to : Ports, method : {"GET", "POST", "PATCH", "DELETE"}])
  /\ answer \in {"none", "ok", "error"}
  /\ code \in IF pc = "exit" THEN {"0", "1", "2", "value", "SlateError", "defect"} ELSE {"running"}
  /\ emitted \in 0..Len(Emitted)
  /\ pc = "streaming" => Kind = "stream" /\ answer = "ok"

\* The line of s that its i-th character, a newline, ends.
LineStart(s, i) == Max({0} \cup {j \in 1..(i - 1) : s[j] = NL})
LineTo(s, i) == SubSeq(s, LineStart(s, i) + 1, i - 1)

\* Where the lines that are events end, among the first n characters of s.
Events(s, n) == {i \in 1..n : s[i] = NL /\ EventOf(LineTo(s, i)) # <<>>}

\* The splitter is through with these first characters of what was read.
Taken == Len(got) - Len(buf)

\* events watch prints the events of the characters it has read, however the
\* network cut them: no event is lost, doubled, joined with another or printed
\* before its line is complete. The lines it is through with are complete, the
\* rest is in the buffer, and what is printed are their events, the k-th event
\* the k-th.
ShownIsStream ==
  /\ buf = SubSeq(got, Taken + 1, Len(got))
  /\ Taken > 0 => got[Taken] = NL
  /\ Len(shown) = Cardinality(Events(got, Taken))
  /\ \A i \in Events(got, Taken) :
       EventOf(LineTo(got, i)) = <<shown[Cardinality(Events(got, i))]>>

\* A command implements what its user may count on: one request at most, also
\* when the connection breaks; success only after an answer; and the search
\* for a server ends, even among servers that never answer.
Promised == INSTANCE SlateCommand WITH
  kind <- Kind, asked <- Len(received), answer <- answer, code <- code
CommandPromise == Promised!Spec
=============================================================================
