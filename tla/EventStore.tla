----------------------------- MODULE EventStore -----------------------------
(***************************************************************************)
(* EventStoreService.appendEvent (apps/api/src/EventStoreService.ts) under *)
(* an idempotency key.  A client may send its event again at any time: the *)
(* answer is late, the append failed, the API process died.                *)
(*                                                                         *)
(* The append looks the key up, and inserts when it found nothing;         *)
(* event_records has a UNIQUE index on (project, key), so the second of    *)
(* two appends that overlap fails.  Scope checks, redaction and the size   *)
(* limit change nothing and are left out; so are events without a key,     *)
(* which are inserted each time they are sent.                             *)
(***************************************************************************)
EXTENDS Naturals

CONSTANTS
  Key,       \* idempotency keys
  MaxSends   \* sends per key (a bound of the model)

ASSUME EventsAssumption == MaxSends \in Nat

Send == 1..MaxSends

VARIABLES
  events,  \* the rows of each key, each named by the send that inserted it
  sends,   \* what has become of each send
  answers  \* the rows each key's client has been answered with

eventVars == <<events, sends, answers>>

EventTypeOK ==
  /\ events \in [Key -> SUBSET Send]
  /\ sends \in [Key -> [Send -> {"unsent", "lookup", "insert", "ended"}]]
  /\ answers \in [Key -> SUBSET Send]

EventInit ==
  /\ events = [k \in Key |-> {}]
  /\ sends = [k \in Key |-> [i \in Send |-> "unsent"]]
  /\ answers = [k \in Key |-> {}]

-----------------------------------------------------------------------------
Move(k, i, from, to) ==
  /\ sends[k][i] = from
  /\ sends' = [sends EXCEPT ![k][i] = to]

Answer(k, rows) == answers' = [answers EXCEPT ![k] = @ \union rows]

SendEvent(k, i) ==
  /\ \A j \in 1..(i - 1) : sends[k][j] # "unsent"
  /\ Move(k, i, "unsent", "lookup")
  /\ UNCHANGED <<events, answers>>

\* findByIdempotencyKey: the row it finds is the answer.
LookUpKey(k, i) ==
  /\ IF events[k] = {} THEN Move(k, i, "lookup", "insert") /\ UNCHANGED answers
     ELSE Move(k, i, "lookup", "ended") /\ Answer(k, events[k])
  /\ UNCHANGED events

\* Slip: a row of the same key does not stop the INSERT.
InsertEvent_NoIndex(k, i) ==
  /\ Move(k, i, "insert", "ended")
  /\ events' = [events EXCEPT ![k] = @ \union {i}]
  /\ Answer(k, {i})

\* The INSERT fails if the key has been stored in between.
InsertEvent(k, i) ==
  /\ Move(k, i, "insert", "ended")
  /\ IF events[k] = {}
     THEN events' = [events EXCEPT ![k] = {i}] /\ Answer(k, {i})
     ELSE UNCHANGED <<events, answers>>

\* The API process dies after the INSERT: the row stays and nobody is told.
InsertUnheard(k, i) ==
  /\ Move(k, i, "insert", "ended")
  /\ events[k] = {}
  /\ events' = [events EXCEPT ![k] = {i}]
  /\ UNCHANGED answers

\* A statement fails or the API process dies before the INSERT.
EventAbort(k, i) ==
  /\ Move(k, i, "lookup", "ended") \/ Move(k, i, "insert", "ended")
  /\ UNCHANGED <<events, answers>>

EventNext ==
  \E k \in Key : \E i \in Send :
    \/ SendEvent(k, i) \/ LookUpKey(k, i)
    \/ InsertEvent(k, i) \/ InsertUnheard(k, i) \/ EventAbort(k, i)

EventSpec == EventInit /\ [][EventNext]_eventVars

-----------------------------------------------------------------------------
(* Properties *)

\* However often a client sends an event, overlapping sends, failures and lost answers
\* included, it is stored once and every answer names that row.
StoredOnce ==
  \A k \in Key : answers[k] \subseteq events[k] /\ \A i, j \in events[k] : i = j
=============================================================================
