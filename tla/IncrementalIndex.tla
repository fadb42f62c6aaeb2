-------------------------- MODULE IncrementalIndex --------------------------
(***************************************************************************)
(* IncrementalIndexService (packages/core/src/incremental-index-service.ts)*)
(* beside the files it follows: a change is signalled by a client, and     *)
(* recorded as an event with the hash of the file before and after, and an *)
(* index job for its path.                                                 *)
(*                                                                         *)
(* A signal for a path that has an event of the last 1500 ms is answered   *)
(* with that event and goes no further: the first change of a burst is     *)
(* recorded, not the last.  A row's age is reduced to recent or not.  Path *)
(* validation and redaction precede everything and are left out; the job   *)
(* itself is the business of IndexJobs and is only known to be there.      *)
(*                                                                         *)
(* dirty, missed and crossed are history variables about the world outside *)
(* the service; it reads none of them.                                     *)
(***************************************************************************)
EXTENDS Naturals, Sequences

CONSTANTS
  File,          \* normalized paths
  Hash,          \* contents of a file, told apart by their hash
  DeltaRequest,  \* slots for requests in flight
  MaxEvents,     \* events per path (a bound of the model)
  Gone           \* no hash: the file is deleted or cannot be read

ASSUME IncrementalAssumption == MaxEvents \in Nat /\ Gone \notin Hash

VARIABLES
  disk,      \* the content of each file
  log,       \* the events of each path, by detected_at
  recent,    \* paths with an event of the last 1500 ms
  deltaReq,  \* the requests in flight
  dirty,     \* files changed since they were last signalled
  missed,    \* files with a signal that was debounced or failed
  crossed    \* files with signals that overlapped

world == <<dirty, missed, crossed>>

deltaVars == <<disk, log, recent, deltaReq, world>>

Digest == Hash \union {Gone}

Event == [before: Digest, after: Digest, job: BOOLEAN]

DeltaIdle == [pc |-> "idle"]

DeltaSlot ==
  {DeltaIdle}
    \union [pc: {"hash"}, file: File]
    \union [pc: {"before"}, file: File, after: Digest]
    \union [pc: {"job", "event"}, file: File, event: Event]

DeltaTypeOK ==
  /\ disk \in [File -> Digest]
  /\ log \in [File -> Seq(Event)]
  /\ deltaReq \in [DeltaRequest -> DeltaSlot]
  /\ recent \union dirty \union missed \union crossed \subseteq File

DeltaInit ==
  /\ disk = [f \in File |-> Gone]
  /\ log = [f \in File |-> << >>]
  /\ recent = {} /\ dirty = {} /\ missed = {} /\ crossed = {}
  /\ deltaReq = [r \in DeltaRequest |-> DeltaIdle]

-----------------------------------------------------------------------------
DeltaFree(r) == deltaReq[r].pc = "idle"

DeltaAt(r, pc) == deltaReq[r].pc = pc

DeltaGoto(r, slot) == deltaReq' = [deltaReq EXCEPT ![r] = slot]

Untouched(f) == \A r \in DeltaRequest : DeltaFree(r) \/ deltaReq[r].file # f

Last(f) == log[f][Len(log[f])]

\* Whoever edits the repository; the file may be deleted.
ChangeFile(f, h) ==
  /\ disk[f] # h
  /\ disk' = [disk EXCEPT ![f] = h]
  /\ dirty' = dirty \union {f}
  /\ UNCHANGED <<log, recent, deltaReq, missed, crossed>>

\* 1500 ms have passed.
WindowCloses(f) ==
  /\ f \in recent
  /\ recent' = recent \ {f}
  /\ UNCHANGED <<disk, log, deltaReq, world>>

\* Debounced, or taken up: everything before it is seen by the hash it is going to read.
TakeUp(r, f, slot) ==
  IF f \in recent THEN missed' = missed \union ({f} \intersect dirty) /\ UNCHANGED deltaReq
  ELSE missed' = missed \ {f} /\ DeltaGoto(r, slot)

\* A client signals a change, or asks for a scan.  It says that a file is deleted when it
\* is; the hash of a deleted file is not read.
Signal(r, f, deleted) ==
  /\ DeltaFree(r)
  /\ deleted => disk[f] = Gone
  /\ TakeUp(r, f, IF deleted THEN [pc |-> "before", file |-> f, after |-> Gone]
                  ELSE [pc |-> "hash", file |-> f])
  /\ crossed' = IF Untouched(f) THEN crossed ELSE crossed \union {f}
  /\ dirty' = dirty \ {f}
  /\ UNCHANGED <<disk, log, recent>>

\* Slip: the hash of the latest event is reused.
ReadHash_Cached(r) ==
  /\ DeltaAt(r, "hash")
  /\ LET f == deltaReq[r].file
         h == IF log[f] = << >> THEN disk[f] ELSE Last(f).after
     IN  DeltaGoto(r, [pc |-> "before", file |-> f, after |-> h])
  /\ UNCHANGED <<disk, log, recent, world>>

ReadHash(r) ==
  /\ DeltaAt(r, "hash")
  /\ LET f == deltaReq[r].file
     IN  DeltaGoto(r, [pc |-> "before", file |-> f, after |-> disk[f]])
  /\ UNCHANGED <<disk, log, recent, world>>

\* Slip: ORDER BY detected_at ASC.
Newest_Ascending(f) == IF log[f] = << >> THEN Gone ELSE log[f][1].after

\* The hash of the path's latest event, if it has one.
Newest(f) == IF log[f] = << >> THEN Gone ELSE Last(f).after

ReadBefore(r) ==
  /\ DeltaAt(r, "before")
  /\ LET q == deltaReq[r]
     IN  DeltaGoto(r, [pc |-> "job", file |-> q.file,
                       event |-> [before |-> Newest(q.file), after |-> q.after, job |-> FALSE]])
  /\ UNCHANGED <<disk, log, recent, world>>

\* createIndexJob, whose failure is a warning in the event.
EnqueueJob(r, enqueued) ==
  /\ DeltaAt(r, "job")
  /\ DeltaGoto(r, [deltaReq[r] EXCEPT !.pc = "event", !.event.job = enqueued])
  /\ UNCHANGED <<disk, log, recent, world>>

RecordEvent(r) ==
  /\ DeltaAt(r, "event")
  /\ LET f == deltaReq[r].file IN
     /\ Len(log[f]) < MaxEvents
     /\ log' = [log EXCEPT ![f] = Append(@, deltaReq[r].event)]
     /\ recent' = recent \union {f}
  /\ DeltaGoto(r, DeltaIdle)
  /\ UNCHANGED <<disk, world>>

\* A statement fails or the API process dies between two statements.
DeltaAbort(r) ==
  /\ ~ DeltaFree(r)
  /\ missed' = missed \union {deltaReq[r].file}
  /\ DeltaGoto(r, DeltaIdle)
  /\ UNCHANGED <<disk, log, recent, dirty, crossed>>

DeltaNext ==
  \/ \E f \in File : \/ WindowCloses(f)
                     \/ \E h \in Digest : ChangeFile(f, h)
                     \/ \E r \in DeltaRequest, deleted \in BOOLEAN : Signal(r, f, deleted)
  \/ \E r \in DeltaRequest :
       \/ ReadHash(r) \/ ReadBefore(r) \/ RecordEvent(r) \/ DeltaAbort(r)
       \/ \E enqueued \in BOOLEAN : EnqueueJob(r, enqueued)

DeltaSpec == DeltaInit /\ [][DeltaNext]_deltaVars

-----------------------------------------------------------------------------
(* Properties *)

\* The events keep up with the file: once its last change has been signalled and dealt with,
\* the latest event has the hash the file has.  What breaks it is named: signals that
\* overlapped, a signal that failed, and a change within 1500 ms of an event.
EventsKeepUp ==
  \A f \in File :
    f \notin dirty \union missed \union crossed /\ Untouched(f) /\ log[f] # << >>
      => Last(f).after = disk[f]

\* The events of a path are one chain of contents, unless signals overlapped.
EventsChain ==
  \A f \in File \ crossed :
    \A i \in 1..(Len(log[f]) - 1) : log[f][i + 1].before = log[f][i].after

\* Whoever reads the events of createIncrementalIndexEvent sees the file's contents one after the
\* other, up to the one it has: both of the above.
EventsFollow == EventsKeepUp /\ EventsChain
=============================================================================
