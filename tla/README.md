# A TLA+ model of sec (slate-effect-cli)

`sec` is a command line agent.  Its own logic is small and most of it is about
state that several short-lived processes share without any coordination: chats
and runs over a SQLite database, background jobs and file chats over JSON files,
agent services whose requests overlap, and slate servers that are searched for
while they start and stop.  The repository also keeps, under `docs/refs`, the server
whose sessions such agents are hosted in.  The modules here model that logic, TLC
checks them on small instances, and TLAPS proves the invariants that matter most
for every instance.

Source paths below are relative to the repository; `index.ts` is `src/index.ts`.

## 1. Inventory

| part | state it keeps | operations | talks to |
|---|---|---|---|
| celld store (`src/storage/celld-session-storage.ts`) | tables `sessions`, `runtime_events`, `usage` | create, get, update, delete a session; append, list events | one SQLite file shared by all processes |
| SQLite chat (`index.ts` `cmdChatCelld`) | a copy of the session's entries | open, input, `clear`, `exit`; one retry; an error event | the store; a child `sec run` per input, `spawnSync` |
| run with a session (`cmdRun`) | the context read at the start | read, agent, two events, read again, update | the store, the agent |
| `sec sqlite` (`cmdSqlite`) | none | new, rm, and queries | the store |
| background jobs (`cmdRun --background`, `cmdJobRun`, `cmdJobs`, `cmdStatus`) | `<job>.json` | launch, mark running, save the outcome, remove, list | file system; a detached child |
| file chat (`cmdChat`), `sec session` | `<session>.json`, the chat's messages | open, input, answer, `clear`, `exit`; new, rm, list, show | file system, the agent |
| agent run (`createProgram`, `runAgent`) | none that lasts | one run of the agent: turns of model and tools under a policy, a timer | the agent engine (a dependency), a model provider |
| agent tools (`src/tools/sec-tools.ts`) | child processes and fetches in flight | read, bash, edit, websearch | file system, processes, network |
| cell and agent service (`sec-cell/src/index.ts`, `sec-cell/agentos-service.mjs`) | actor states, in memory and one file each | forward with a timeout; execute, status, history | HTTP, file system |
| in-memory actor service (`sec-cell/actor-service.mjs`) | actor states in memory | get or create, execute, clear | HTTP, on the agent service's own port |
| session router (`docs/refs/pi-server-session-router.ts`) | hosted sessions, pending opens, attachments, a queue per client, leases | attach, switch, detach, disconnect, call, remove, close | the host of the sessions; the pi server |
| connections and requests (`docs/refs/pi-server-server.ts`, `-connection.ts`) | connections, active requests, subscriptions | accept, handshake, request, cancel, update, start, close | listeners, transports, the router |
| slate commands (`src/commands/*`, `src/runtime/slate-service.ts`) | none | find a server by scanning ports, then one HTTP call | a slate server, not in the repository |
| event watching (`src/commands/events`) | a line buffer | split a stream into events | a slate server |
| slate tools (`src/tools/slate-tools.ts`) | none | the same calls as tools of an agent | a slate server |
| goal loop (`src/engine/slate-agent.ts`) | the statuses seen | poll until completed, failed or exhausted | a slate server |
| provider (`src/providers/cliproxyapi.ts`) | a configuration cache nobody fills | endpoints, model choice, one HTTP call | an HTTP proxy |
| task list tool (`.sec-tasks/sec-tasks.ts`) | a task graph on file | ready tasks, listings | file system |
| older CLI (`src/effect-agent-sec.ts`) | none it saves | run, chat | the agent |

### What is hard in it

* **Copies.**  A chat reads the session once and writes its copy back after every
  turn; a run reads, waits for the agent, reads again and writes.  The store has no
  versions and no transactions, so every save may overwrite what another process
  did.  What still holds is a question about all interleavings.
* **Two records of one fact.**  A turn is recorded as events in the log and as
  entries in the row, by separate statements with a failure or a crash possible
  between any two.  The log is the record that must not lie.
* **Truncating writes.**  `writeFileSync` truncates before it writes: job, session
  and actor files can be read, or left, empty, and `JSON.parse` throws on them.
* **Overlap in one thread.**  The file chat's line handler and the service's execute
  handler await something long; other lines and requests run meanwhile.  So does every
  `await` of the router and of the pi server, whose promises the host settles in
  any order.
* **Removal under use.**  Sessions and jobs are removed while a process that loaded
  them goes on saving; hosted sessions while a client attaches, switches or calls.
* **Giving up without stopping.**  The policy's deadline interrupts a run, but not the
  child of a `bash` call; a lost connection ends a client, but not the promise that is
  to give it a lease.
* **Everything about to end.**  A shutdown meets a start that has not ended, connections
  in their handshake, updates that wait for their response, and releases that fail.
* **Servers that come and go.**  The port that answered the health check may be gone, hang
  or break off when it gets the request.

`PROJECT.json` lists the hazards one by one, each at its line, with the properties
that would catch it going wrong.

### What makes each part correct

* store and its users: a row shows nothing that the log does not have; outcomes
  follow their inputs; no failed turn is silent; the log is written once; what was
  removed stays removed; with one process at a time nothing saved is lost.
* jobs: an outcome is consistent, complete and final; a job that is not removed and
  whose processes live gets one; a file is unreadable only while, or because, its
  writer did not finish.
* file chat: inputs in typing order, answers single and behind their inputs,
  the file a beginning of what the chat shows.
* agent service: no code runs unrecorded; what a client was answered survives;
  a history on file is extended, never replaced.
* agent run: it ends by its answer, a failure or the deadline, whatever model and
  tools do; a run that answered left nothing running.
* in-memory service: executed code is in the history that is shown.
* session router: a session never has two open handles, and two live ones only when it
  was removed twice at a time; a client has at most one
  lease, and none once it is gone; a lease is released when its calls have settled,
  and released it is; a client is told of its route.
* connections and requests: nothing but the router's attachments before the greeting, at most one
  answer for each request, updates in order and behind the snapshot they continue, without gaps but
  for those that failed; a cancel meets its request; after a shutdown, which completes, nothing is in
  the server's hands, and open are at most transports that could not be closed or came too late.
* slate commands: one request at most, success only after an answer, a search that ends;
  the events printed are those of the stream.

## 2. Modules

| module | models | state |
|---|---|---|
| `EventLog` | what the event log promises: an append-only log without duplicates | `log` |
| `CelldStore` | the store's writing functions, one operator each | `sessions`, `runtime_events`, `issued` |
| `CelldSessions` | the processes over the store; extends `CelldStore` | and `proc`, `turns` |
| `MCCelldSessions` | the symmetry set of the instances | |
| `CelldSessionsProofs` | theorems about `CelldSessions` | |
| `CelldHistoryProofs` | more of them: rows as conversations, refinement of `EventLog`, a store that one process uses | |
| `Jobs` | launcher, worker and `jobs rm` over one file per job | `pc`, `file`, `job` |
| `FileChat` | file chats, `session new` and `rm` | `file`, `used`, `open`, `messages`, `waiting`, `turns` |
| `FileChatProofs` | theorems about `FileChat` | |
| `AgentRun` | a run of the agent, its timer, policy and tools | `run` |
| `JobAgent` | `Jobs` composed with `AgentRun` | those of both |
| `JobAgentProofs` | theorems about `Jobs` and `JobAgent`, which implements it | |
| `AgentService` | the cell's forwarding and the agent service | `up`, `mem`, `disk`, `handler`, `target`, `reply` |
| `ActorService` | the in-memory service | `actors`, `made`, `call`, `packet` |
| `CellServices` | the two services on their one port | those of both, `listening` |
| `CellServicesProofs` | theorems about `AgentService` and `CellServices` | |
| `SessionRouter` | the session router | hosted sessions, opens, handles; per client its queue and its place in it; per attachment its lease, calls and release; removals; the close |
| `MCSessionRouter` | the symmetry set of its instance | |
| `SessionRouterProofs` | theorems about `SessionRouter` | |
| `PiServer` | connections, handshakes, requests, subscriptions, start and close | per connection its handshake, requests, subscriptions and wire; the server's start and shutdown |
| `PiServerProofs` | theorems about `PiServer` | |
| `SlateCommand` | what the user of a slate command may count on | `kind`, `asked`, `answer`, `code` |
| `SlateCli` | port scan, commands, the HTTP service, event watching | `port`, `pc`, `received`, `answer`, `code`, the stream |
| `MCSlateCli` | the lines the server of its instance sends | |
| `SlateCliProofs` | theorems about `SlateCli`; it implements `SlateCommand` | |

Three modules implement another one: `CelldSessions` implements `EventLog` under
`log <- runtime_events` (property `WriteOnceLog`, checked and proved), `JobAgent` implements
`Jobs` (theorem `ImplementsJobs`), and `SlateCli` implements `SlateCommand` (property
`CommandPromise`, checked; its safety part is the theorem `CommandIsKept`).  `CellServices` puts
two services side by side that share nothing but the port.

### Celld sessions

A process is a slot with a program counter, the id of its session, its copy of the
entries and its current input.  A step is one SQLite statement with the synchronous
code up to the next one; SQLite makes a statement atomic, nothing makes two of them
so.  The chat is synchronous from the input to the prompt (`spawnSync`), which is why
its turns, unlike the file chat's, never overlap inside one process.

Data are reduced to what the properties tell apart.  User inputs are numbered in the
order in which they are typed; an entry or event is the number of its input and its
role or type.  A random id is one that was not issued before.  `ChatOpenNew` keeps the
two ids of `index.ts:220-222` apart: the row's, which `createSession` makes, and the
one the chat goes on with.  `appendEvent`'s second statement (`updated_at`) has no state
here, but it can throw after the first one, which is the first disjunct of
`ChatThrows`.  `Crash` is any end of a process: a signal, `exit` at the prompt, an
exception that nothing catches.

### Jobs

One label per job says where its launcher or worker stands, because the launcher's last
act is to spawn the worker.  `Truncate` and `Write` are the two halves of `saveJob`;
`Write` goes into nothing when the file was removed in between.  A worker that
finds no readable file exits; the catch block of `cmdJobRun` is reached from the
agent's failure and from a failing save of the result.

### Agent run, and jobs that run it

`AgentRun` has one record per run: its phase, its timer, the turns and tool calls used, the
calls not yet started, and the children and fetches in flight.  The engine is a
dependency, so it is there as far as policy and tools show it: a turn of the model either
answers or asks for calls, at most `ToolConcurrency` of them run beside each other, and
exceeding `MaxTurns` or `MaxToolCalls` fails the run.  `read` and `edit` are synchronous and
therefore one step.  `bash` waits for a child and `websearch` for a fetch; neither is
given the interruption's signal, so a run that fails or reaches its deadline leaves them
behind, and they end, if they do, on their own.  The timer of `runAgent` aborts a
controller whose signal nobody was given: it fires and changes nothing.

`Jobs` lets the agent of a worker end in one way or the other.  `JobAgent` replaces that
choice by the run: `WorkerAnswered`, `WorkerFailed` and `WorkerTimesOut` are the ends for
which `AgentEnds` stands, and a crash of the worker kills its run.

### File chat

A line that is no command pushes the input and calls the agent; `waiting` holds the
turns in flight.  `Answer`, `AnswerUnsaved` (the save throws inside the try block) and
`Fail` are the three ways a turn ends; `Quit` and `CrashSaving` end the process with turns
in flight.  A chat may open any session, one that was removed included.

### Agent service

The handler of an execute request runs from its arrival (the actor is looked up or loaded
first) to the end of its body, to the end of the code, to the answer.  `Die` is any end of
the service's process: it forgets all actors, and the cell's pending fetches fail.
`loadState` of a torn file throws outside the handler's try block, an unhandled rejection
in an async request handler, and ends the process (`ArriveKills`).  The executed code is a
black box; that it could reach into the service's own globals is left out.  The status
and history requests change nothing; they load the actor as `Arrive` does.

`ActorService` is the older service.  Its `getOrCreate` awaits between `has` and `set`.  The
await yields to microtasks only, so that what can come between the two is a request
parsed from the same packet: requests arrive in packets, each of which looks its actor
up before any is stored, and the last one stored stays in the map.  Both services
want 127.0.0.1:9878; in `CellServices` the one that has the port is the one that runs.

### Session router

One action is the code between two awaits of one of the router's asynchronous functions.
An attachment is named by the request that makes it and a hosted session by how often
its session was opened, since the code compares both by identity.  A client's operations form a
queue whose first element is running; `pc`, `got` and `current` are the program counter and
the local variables of that operation.  `Release` is `releaseClientLease`, which may be
awaited by several functions at once: `releasing` is its promise, and each action that
waits for it has that as its guard.  A release waits for the calls admitted before it,
then gives the lease back.  Each call of `removeSession` is a value of `Removals` with a place and the
hosting it found.  The code does not look whether the session is being removed already: a second
call releases what has been attached since and closes the handle again, and whichever call is through
first takes the session off the map.  What a host does with two closes of one handle it decides
itself, so each of them may return or reject while the handle still closes for the other (`RemoveEnds`,
`ClosedToo`); so may those of the shutdown (`CloseEnds`).  Every call on the host may fail, up to `MaxFails`.
`told`, `quiet` and `late` are bookkeeping of the properties.

### Connections and requests

`PiServer` has one value of `handshake` per connection for where its first frames are,
one of `pc` per request, and one of `shutdown` for `closeInternal` and for the cleanup of a
start that failed.  A frame on the wire is a record.  One that cannot be encoded or sent starts the
close of its connection (`Drop`), and the connection is disconnected when that close is through
(`Dropped`); until then it takes the next frames.  An update published before its response is
sent waits in the subscription; the response's transmission releases it, and a subscription that is
replaced by another one of its id goes silent.  An update that cannot be encoded throws instead: to
the endpoint that published it, and the connection stays as it is (`PublishLost`), or, if it had
waited, to the request, which closes the connection and sends nothing more of what waits
(`PendingLost`, `pc` is "stuck").  `lost` has the updates that went either way.  Every subscription asks
for one id, the case in which they meet.

The router behind the server has a module of its own and is here as what a shutdown closes last, and
for the attachments it tells the client of (`PublishAttachment`): from `attachClient` on the
host may attach the client to a session, before the greeting as well.

The server's set of connections and the transports are apart.  `transport` is "refused" for a
connection that came while the server closes: `accept` starts its close with `void`, and nothing
waits for it.  It is "unclosed" after a close that failed, which `closeConnection` reports and
swallows.  Either may close later (`LeftoverCloses`), which the server does not notice.

### Slate commands

`SlateCli` is one command, or one call of a function of the HTTP service, from its start to
its exit.  `Ports` may change what listens on them between any two steps, up to
`MaxChanges`: a slate server, another program that answers, one whose answer is no JSON,
one that never answers, nothing.  `Groups` is the table of the subcommands of the eight groups,
with the arguments each insists on, the method it uses and what it prints.  `fetch` and
`json` are awaited inside `Effect.promise`, whose rejection is a defect that the `try`
around it does not see: a refused health check ends the command, it does not move on to
the next port.  `events watch` reads chunks cut anywhere; characters that matter to the splitter
are kept apart, the payload is one character.

## 3. Runs

| run | module, instance | asks | expected |
|---|---|---|---|
| `celld_concurrent` | `MCCelldSessions`: 2 processes, 3 ids, 2 inputs | what log and rows guarantee under any interleaving, and that the log is an `EventLog` | pass |
| `celld_one_process` | `MCCelldSessions`: 1 slot used any number of times, 3 ids, 3 inputs | nothing saved is lost; the row is what the chat shows; every input is closed | pass |
| `celld_lost_update` | `MCCelldSessions`: 2 processes, 1 id, 2 inputs | `HistoryOnlyGrows` with two processes | violated |
| `celld_new_chat` | `MCCelldSessions`: 1 process, 2 ids, 1 input | `AnsweredChatIsStored` | violated |
| `jobs_lifecycle` | `JobAgent`: 2 jobs, 2 turns, 3 tool calls, 2 at once | outcomes, torn files, nothing left running behind a completed job, every job settles | pass |
| `jobs_rm` | `Jobs`: 1 job | `RemovedStaysRemoved` | violated |
| `file_chat` | `FileChat`: 1 chat, 2 ids, 4 inputs | order, single answers, file behind chat | pass |
| `file_chat_clear` | `FileChat`: 1 chat, 1 input | `AnswersHaveInputs` after `clear` | violated |
| `agent_service` | `CellServices`: 2 actors, 3 requests; 3 calls in packets of up to 2 | records and files under overlap, timeouts, crashes; histories in memory | pass |
| `session_router` | `MCSessionRouter`: 2 clients, 2 sessions, 2 requests, 2 removals, 2 opens of a session, 1 call, 1 failure | leases, handles, draining, what clients are told, what a removal may strand | pass |
| `pi_server` | `PiServer`: 1 connection, 1 listener, 2 requests or attachments, 2 updates, 1 failure | the order on the wire, cancels, what a shutdown leaves, that it completes | pass |
| `slate_cli` | `MCSlateCli`: 3 ports, 2 changes of a port, 4 lines of a stream | `SlateCommand` is implemented; the events printed are those of the stream | pass |

Bounds.  Two processes are enough for each pairwise race of a read, a save and a removal,
and two inputs for one process's turn to overlap another's; three ids let a chat that
opens a new session (two ids) meet another session.  One slot in `celld_one_process`
is not one command: the slot is used again after each exit, and the three inputs let a
session be opened, extended, closed and reopened.  Jobs share nothing, so that two of
them show only that an action touches its own job.  Two turns and three calls, two at a
time, let a run come back to the model after its tools, exceed each limit, and have a call that
fails while another runs and a third waits; the code's own values (5, 10 and 2) are covered by the
proof.  Four inputs of a chat allow every
order of three overlapping answers and one after them; `FileBehindChat` is a property of
one chat at a time, and what holds for several chats is proved rather than run.  Three
requests on two actors give two that overlap on one actor and a third that arrives after a
crash that tore the file; three calls in packets of two give a pair that replaces each other's
actor, and one that comes later.  Two clients and two requests, with disconnects and two
removals besides, give an attach that meets another client's attach, or a switch, and a
removal or a lost worker between any two steps of it; two removals may be of one session, at a time or
one after the other, and two opens of a session let it be hosted again after it was
removed.  Connections of the pi server share only the shutdown, whose order is about
a set of them: one is the case in which it matters whether that set is taken before or
after a connection is accepted; two requests may share an id or a subscription, and two
updates may come before, during and after the response.  `MaxRequests` counts the attachments on a
wire with the requests, and `MaxUpdates` bounds the updates of one subscription.  `MaxFails` is 1 in both
runs, so that each failure is met at every point but two are not combined, and `MaxEvents` is 4 in
both: of two requests, two removals or updates, and a failure, every four meet, which is what the longest
of the stories here needs (attach, remove twice, attach again; subscribe, lose an update, send the next).
The theorems hold for all values of these bounds.  Three ports are one that is skipped, one that is
chosen and one that is never reached, and two changes let a server stop after its health
check and another one start.

`CHECK_DEADLOCK FALSE` is set for the celld runs, where the bounds on ids and inputs leave
an idle system without a step, and for the runs of jobs, where every job ends.  The other
modules have a step for what has stopped, or never stop, and are checked for deadlock.

Fairness, stated only where a liveness property needs it:

* `CelldSessions!FairSpec` assumes weak fairness of a process's own steps, and nothing of
  its user or of crashes: `spawnSync` has a timeout of 60 s, the agent's policy a maximal
  duration.  Under it `InputIsClosed` says that an input gets an answer or an error unless its process dies.
* `JobAgent!FairJobAgentSpec` assumes weak fairness of what the code does next, and of the
  policy's deadline, a timer of the engine.  Nothing is assumed of the model, of a child
  process or of a fetch, any of which may never return.  Under it `JobSettles` says that a
  launched job gets an outcome, unless it is removed or one of its processes dies.
* `PiServer!Spec` assumes that the host, the transports and the listeners answer the
  calls made on them and that timers fire, not that they succeed.  The code waits for each of
  them without a limit, so it promises no less.  Under it `ShutdownCompletes` holds.
* `SlateCli!Spec` assumes that a health check is answered, refused or timed out
  (`AbortSignal.timeout(1500)`), and nothing of the answer to the request itself, which has no
  timeout.  Under it the search for a server ends, a part of `CommandPromise`.

### What the violated runs show

* `celld_new_chat`: `createSession` inserts row A, the chat then calls itself B
  (`index.ts:220-222`).  Its events go to B, its updates find no row, and A stays empty:
  the chat cannot be reopened with its history.
* `celld_lost_update`: chat opens, another process saves a turn, chat saves its copy.
* `jobs_rm`: `saveJob` creates the file again after `sec jobs rm`.
* `file_chat_clear`: input, `clear`, answer; the cleared history holds the answer.

### What else the models show

These are behaviours of the code that no doc, comment or test contradicts; properties
that hold are stated around them.

* A search for a slate server ends at the first port that refuses the connection, with
  exit code 1, whatever listens behind it.
* An error status of a server is printed and the command exits with 0, except for `events
  watch`, which exits with 2.  A request that is never answered keeps its command for ever.
* A run that failed or timed out leaves its `bash` children and fetches behind.  `CompletedIsQuiet`
  therefore says nothing of failed jobs.  `--timeout` has no effect.
* A lease that the host grants while its session is being removed is missed by the removal and
  stays with its client until that client leaves; `StrandedByRemovalOnly` says that this is the only
  way, and `DrainedBeforeRelease` that only such sessions admit calls during a release.
* A session that is removed twice at a time may be opened again while its first handle is still
  being closed, if the host answers one of the two closes before the handle is closed: two
  workers for one session, the older one on its way out.  `OneHandlePerSession` says that this is the
  only way.
* An update that cannot be encoded is missing on a connection that goes on, and so is one whose
  frame was lost until the connection's close is through.
* When `closed` of the pi server settles, a transport may still be open: one whose close failed, or
  one that was refused and is being closed.
* Of two requests in one packet for a new actor of the in-memory service, the first runs on
  an actor that nobody is shown.

## 4. Proofs

For any number of processes, sessions, inputs, jobs and chats:

* `CelldSessionsProofs`.  `TypeCorrect` proves the types with the facts about ids and
  turns that the rest needs.  `EntriesBackedByLog`, `OutcomeAfterInput` and
  `NoSilentFailure` are not inductive by themselves: a save makes a row of a process's
  memory, so `LogInv` adds, per program counter, what the log already has of the process's
  entries and of its current input.  `NoResurrection` is then a matter of each action.
* `CelldHistoryProofs`.  `WriteOnceLog` rests on `OnceInv`: every process works on an
  input of its own, and what its program counter says it has still to log of that input
  is not in the log.  It is proved as a refinement: initial states map to initial states,
  each step to one `Record` or to a stutter.  `RowsAreConversations` rests on
  `HistoryInv`: the copies in memory are conversations as well, a chat that awaits an
  answer ends in its input, and the input of a run that has not loaded its row yet is in
  no row and no copy; a conversation extended by such an input, or by the answer to its
  last one, is a conversation again.
  `StoredIsShown` and `HistoryOnlyGrows` are false of two processes (run `celld_lost_update`), so
  `OneProcessStoresItsChat` and `OneProcessLosesNothing` have the hypothesis that there is one, which
  may run any number of commands after each other: what it has in memory for a row it will
  save then continues that row (`AloneInv`).
* `FileChatProofs`.  Histories are well formed, and a turn in flight is waited for by one
  chat only and answered in no history: without the second half an answer could be
  appended twice.  `FileStaysBehindChat` assumes that there is one chat, which may be left and
  opened again: another one would save its own messages over the session's.  A line only adds to
  what the chat shows, and a save makes the file what it shows.
* `JobAgentProofs`.  For `Jobs`, one invariant relates a job's label to its object and its file;
  the four safety properties follow, `OutcomeStays` as a property of steps from it.
  `ImplementsJobs` maps each step of `JobAgent` to a step of `Jobs` or to
  a stutter, so that what was proved of `Jobs` holds of jobs whose workers run the agent
  (`JobPromisesHold`).  `CompletedIsQuiet` rests on an invariant that relates a job's label
  to its run: outside the tool phase no call waits and nothing runs beside the run, the
  counts stay within the policy's, and a job that is to be saved, or was saved, as
  completed has a run that answered.
* `CellServicesProofs`.  A file is written from memory, so what must stay on file must stay in
  memory: the actor of an open request is loaded, a loaded actor has every request that was
  answered, and its history continues the one on file.  From this invariant follow
  `AnsweredIsDurable` and, as a property of steps, `HistoryOnlyExtended`.  A step of
  `CellServices` is one of `AgentService` or leaves its state alone, so both hold of the composition.
  For the in-memory service `MemoryInv` says from when a request is parsed what `ExecutedIsShown`
  says of it when it runs: the map has an actor for its id, its own or the one of another request of its
  packet.  A packet that is parsed later creates nothing for an id the map has (`ParseEffect`),
  and its own requests get the actor the map had, or create one each, of which the last stays.
* `SessionRouterProofs`.  Types of the router, with the facts about a client's place in its queue
  that its local variables need: an operation that has got a session works on one
  that was made, and the first operation of a queue is the one `pc` is about.
  `OneHandlePerSession` rests on `HandleInv`: a handle that works is the one in the map of
  hosted sessions, or is being drained by the open that made it, or is still closing for a
  removal although another call that closed it is through: a second removal (`RemovedTwice`), or
  the shutdown (`Stopping`), after which nothing is opened.  A session is opened only
  while it is not in the map, and a removal takes a session off the map only after the handle's
  close has begun.
  `ClientLeases` rests on `RouterInv`, which says per client whose attachment its place in the
  queue is about and that each attachment is made by one request, and per attachment who is
  still to settle it: a lease that lives is the client's route, or the one that the
  running operation has acquired or is about to give back.  Its steps are sorted by what they
  may do to a client, an attachment, a queue (`Kind`, `Pace`), so that each part of the invariant is
  proved once per kind, not once per action.  `CallInv` adds that what is called was made
  and why a call may come late (`DrainedBeforeRelease`); `StrandedInv` adds
  what a removal waits for, for `StrandedByRemovalOnly`.  `RouteIsTold` is an invariant by itself.
* `PiServerProofs`.  `ServerInv` relates the stages of the server, of its connections and of its
  requests; `TypeOK`, `ActiveById` and `NothingLeftOpen` follow: a connection
  whose transport is open is in the server's set, one that was refused never was, and a shutdown
  gets on only when the set it found is empty and no other can be accepted.  `WireInOrder` needs what
  the messages of a connection say of each other: nothing but attachments is before the greeting, and
  nothing is handled before there is one (`GreetingInv`); an answer is on the wire only when its request
  is through (`AnswersInv`); the updates sent for a subscription, those that wait in it and those that
  were lost together are the numbers published, as long as its encoder is there, and the first two are
  in order (`NumbersInv`);
  and the snapshot an update continues is before it (`BasesInv`).
* `SlateCliProofs`.  The invariant says, at each `pc`, whether the one request has been sent and
  answered, and which kinds of command may be there; the table of commands gives each of
  them one of the kinds.  Each step is then a step of `SlateCommand` or a stutter
  (`CommandIsKept`), and `AskedOnce` follows from that module alone.
  `ShownIsStream` is stated by positions: what was shown are the events of the lines that end in
  the part of the stream that is no longer in the buffer, in their order.  So it needs no induction over the
  stream: a character that arrives moves no line that has ended, and a line that is taken from the
  buffer is the next one of the stream (`TakeLineStream`).

The only assumptions are those named in the modules: bounds are natural numbers, what a
server may emit are sequences of characters, and the values that mark absence (`NoFile`, `NoId`,
`Nothing`, ...) are not values of the type they are absent from.

Every invariant of the passing runs is proved.  Model-checked only is liveness (`InputIsClosed`,
`JobSettles`, `ShutdownCompletes`, the search's end in `CommandPromise`), which is out of the
prover's reach.  `HistoryOnlyGrows` of two processes, and the other statements of the runs that expect a
violation, are false.

## 5. Not modelled, and why

* The agent engine, the model provider, SQLite, the file system and the host of the router's
  sessions are outside the repository's code: each is what the code sees of it, a choice of
  outcomes.  What a tool reads or writes is left out with the file system; so is an `edit` that overwrites
  what a `bash` child wrote meanwhile.
* The `usage` table: no command writes it.
* Listings and queries (`list`, `show`, `history`, `events`, `status`, `models`) and the
  multica commands print what they read.
* The goal loop: `src/engine/slate-agent.ts` exports `createSlateGoalDefinition` twice (lines 81
  and 218), a syntax error of a module that nothing imports.
* The slate tools: `src/tools/slate-tools.ts` imports the value `SlateService`, which
  `slate-service.ts` exports as a type only, and no entry point imports the tools.  Their calls are in
  `SlateCli`, from `slate-service.ts`.
* `src/commands/*` is modelled although `main` of `index.ts` does not dispatch to it and
  nothing imports it: each group is a command of its own.
* `src/providers/cliproxyapi.ts` has a cache that nothing fills and one HTTP call that prints its
  answer; `.sec-tasks/sec-tasks.ts` reads a file and prints it; `src/effect-agent-sec.ts` is a first
  version of `index.ts` whose chat saves nothing; `src/tools/effect-tools.ts` is an earlier copy of the
  tools that nothing imports; `src/types` declares types.
* Frames, codecs, paths, query strings and bodies; `resolveOptions` of the pi server, which checks its
  arguments.
* Everything under `node_modules` is third-party.

## 6. Plan

Next, in this order:

1. `SessionRouter` behind `PiServer` with one client, so that a shutdown's last step is the router's own.
2. The safety part of what the liveness properties rest on: which step of a command, of a job or of a
   shutdown is always possible, and that it gets nearer to the end.
