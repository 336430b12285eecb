----------------------------- MODULE CelldStore -----------------------------
(***************************************************************************)
(* The SQLite store of src/storage/celld-session-storage.ts: one action    *)
(* fragment per exported function that writes.  A statement is atomic      *)
(* (SQLite's own guarantee); two statements of one function are not.       *)
(*                                                                         *)
(* A session row is reduced to its `entries`; an entry or an event to the  *)
(* user input ("turn") it belongs to and its role or type.  Titles, models *)
(* and time stamps are left out, and so is the usage table, which no       *)
(* command writes.                                                         *)
(***************************************************************************)
EXTENDS Naturals, Sequences

CONSTANTS
  SessionIds,              \* the ids genId can return
  MaxTurns                 \* bound on the number of user inputs

ASSUME MaxTurnsOK == MaxTurns \in Nat

VARIABLES
  sessions,                \* table sessions: id -> entries of its data column
  runtime_events,          \* table runtime_events, in insertion order
  issued                   \* ids genId has returned (it never repeats one)

storeVars == <<sessions, runtime_events, issued>>

Turn == 1..MaxTurns
Entry == [turn : Turn, role : {"user", "assistant"}]
Event == [sid : SessionIds, turn : Turn,
          type : {"user_message", "assistant_message", "error"}]

StoreTypeOK ==
  /\ issued \subseteq SessionIds
  /\ DOMAIN sessions \subseteq issued
  /\ sessions \in [DOMAIN sessions -> Seq(Entry)]
  /\ runtime_events \in Seq(Event)

StoreInit ==
  /\ sessions = [s \in {} |-> <<>>]
  /\ runtime_events = <<>>
  /\ issued = {}

\* INSERT INTO sessions: an empty row under a new id.
CreateSession(id) ==
  /\ id \in SessionIds \ issued
  /\ sessions' = [s \in DOMAIN sessions \union {id} |->
                    IF s = id THEN <<>> ELSE sessions[s]]

\* Mutants of UpdateSession: an INSERT OR REPLACE, and a merge into the row.
UpsertSession(id, entries) ==
  sessions' = [s \in DOMAIN sessions \union {id} |->
                 IF s = id THEN entries ELSE sessions[s]]

MergeSession(id, entries) ==
  sessions' = [s \in DOMAIN sessions |->
                 IF s = id THEN sessions[s] \o entries ELSE sessions[s]]

\* UPDATE sessions SET data: replaces the whole row, or does nothing at all
\* when there is none.
UpdateSession(id, entries) ==
  sessions' = [s \in DOMAIN sessions |-> IF s = id THEN entries ELSE sessions[s]]

\* DELETE FROM sessions: the row only; the session's events stay.
DeleteSession(id) ==
  sessions' = [s \in DOMAIN sessions \ {id} |-> sessions[s]]

\* The log holds the event of this type for input t of session id.
Logged(log, id, t, type) ==
  \E i \in 1..Len(log) : log[i] = [sid |-> id, turn |-> t, type |-> type]

\* Mutant of AppendEvent: two of the statement's parameters in the wrong order.
AppendEventSwapped(id, t, type) ==
  runtime_events' = Append(runtime_events, [sid |-> type, turn |-> t, type |-> id])

\* INSERT INTO runtime_events: no row of sessions need exist for the id.  The
\* UPDATE of updated_at that follows is no part of the state, but it can throw
\* (SQLITE_BUSY, disk full) when the event is already there.
AppendEvent(id, t, type) ==
  runtime_events' = Append(runtime_events, [sid |-> id, turn |-> t, type |-> type])

=============================================================================
