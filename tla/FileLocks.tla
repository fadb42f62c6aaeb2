------------------------------ MODULE FileLocks ------------------------------
(***************************************************************************)
(* FileLockingService (apps/api/src/FileLockingService.ts): read and write *)
(* leases on the files of a project, kept as rows of file_locks.           *)
(*                                                                         *)
(* A handler reads and later writes in statements of their own, with no    *)
(* transaction and no constraint on the table; what it read is kept in its *)
(* request slot.  Path validation, permission checks and audit records     *)
(* change none of this state and are left out.                             *)
(*                                                                         *)
(* The deadline of a row is reduced to a phase.  The service compares it   *)
(* in two ways: acquireLock with expires_at > NOW(), everything else with  *)
(* expires_at < now.  "due" is the instant in between, where a lock no     *)
(* longer conflicts and is not expired either.  NOW() is the database's    *)
(* clock and refreshLock reads the API's, so "due" lasts as long as the    *)
(* API's clock is behind.                                                  *)
(***************************************************************************)
EXTENDS Naturals

CONSTANTS
  NumLocks,    \* rows ever inserted (a bound of the model)
  Path,        \* normalized paths
  Worker,      \* worker ids that own locks
  Request,     \* slots for requests in flight
  SeesDue,     \* whether a request can fall on the instant "due"
  NULL

ASSUME LocksAssumption == NumLocks \in Nat /\ SeesDue \in BOOLEAN
ASSUME NullAssumption == NULL \notin Path /\ NULL \notin Nat /\ NULL \notin Worker

Lock == 1..NumLocks

Mode == {"read", "write"}

VARIABLES
  locks,  \* the table
  req     \* the requests in flight

vars == <<locks, req>>

Row == [status: {"absent", "active", "released", "expired", "blocked"},
        path: Path \union {NULL}, mode: Mode, worker: Worker \union {NULL},
        phase: {"live", "due", "over"}]

Idle == [pc |-> "idle", lock |-> NULL, path |-> NULL, mode |-> "read",
         worker |-> NULL, late |-> FALSE, todo |-> {}]

\* late: the expiry releaseLock read.  todo: the rows a sweep still has before it.
Slot == [pc: {"idle", "insert", "block", "refresh", "expire", "release", "drain", "sweep"},
         lock: Lock \union {NULL}, path: Path \union {NULL}, mode: Mode,
         worker: Worker \union {NULL}, late: BOOLEAN, todo: SUBSET Lock]

TypeOK ==
  /\ locks \in [Lock -> Row]
  /\ req \in [Request -> Slot]

Init ==
  /\ locks = [k \in Lock |-> [status |-> "absent", path |-> NULL, mode |-> "read",
                              worker |-> NULL, phase |-> "over"]]
  /\ req = [r \in Request |-> Idle]

-----------------------------------------------------------------------------
Free(r) == req[r].pc = "idle"

At(r, pc) == req[r].pc = pc

Goto(r, slot) == req' = [req EXCEPT ![r] = slot]

Active(k) == locks[k].status = "active"

\* lock_status = 'active' AND expires_at > NOW()
InForce(k) == Active(k) /\ locks[k].phase = "live"

Late(k) == locks[k].phase = "over"

\* UPDATE ... SET lock_status = s, WHERE id only
SetStatus(k, s) == locks' = [locks EXCEPT ![k].status = s]

\* The row id the request will insert: lock_ and a fresh UUID.
Fresh(k) ==
  /\ locks[k].status = "absent"
  /\ \A q \in Request : req[q].lock # k
  /\ \A i \in Lock : i < k => locks[i].status # "absent" \/ \E q \in Request : req[q].lock = i

-----------------------------------------------------------------------------
(* POST file-locks/acquire *)

\* Slip: readers share with whoever is there.
Conflicts_ReadersIgnored(p, m) ==
  \E k \in Lock : InForce(k) /\ locks[k].path = p /\ m = "write"

\* A write request conflicts with every lock in force on the path, a read request with
\* a write lock.
Conflicts(p, m) ==
  \E k \in Lock : InForce(k) /\ locks[k].path = p /\ (m = "write" \/ locks[k].mode = "write")

\* The conflict query ...
AcquireCheck(r, k, p, m, w) ==
  /\ Free(r)
  /\ Fresh(k)
  /\ Goto(r, [Idle EXCEPT !.pc = IF Conflicts(p, m) THEN "block" ELSE "insert",
                          !.lock = k, !.path = p, !.mode = m, !.worker = w])
  /\ UNCHANGED locks

Insert(r, status, phase) ==
  /\ locks' = [locks EXCEPT ![req[r].lock] =
                 [status |-> status, path |-> req[r].path, mode |-> req[r].mode,
                  worker |-> req[r].worker, phase |-> phase]]
  /\ Goto(r, Idle)

\* ... and the INSERT of the lock, or of a record of the attempt, already expired.
AcquireInsert(r) == At(r, "insert") /\ Insert(r, "active", "live")

AcquireBlocked(r) == At(r, "block") /\ Insert(r, "blocked", "over")

-----------------------------------------------------------------------------
(* POST file-locks/:lockId/refresh *)

\* The status and the deadline are checked ...
RefreshCheck(r, k) ==
  /\ Free(r)
  /\ Active(k)
  /\ Goto(r, [Idle EXCEPT !.pc = IF Late(k) THEN "expire" ELSE "refresh", !.lock = k])
  /\ UNCHANGED locks

RefreshExpire(r) ==
  /\ At(r, "expire")
  /\ SetStatus(req[r].lock, "expired")
  /\ Goto(r, Idle)

\* Slip: a refresh also sets the status it has found.
RefreshUpdate_Reactivates(r) ==
  /\ At(r, "refresh")
  /\ locks' = [locks EXCEPT ![req[r].lock].phase = "live", ![req[r].lock].status = "active"]
  /\ Goto(r, Idle)

\* ... and the deadline is moved, whatever has become of the row.
RefreshUpdate(r) ==
  /\ At(r, "refresh")
  /\ locks' = [locks EXCEPT ![req[r].lock].phase = "live"]
  /\ Goto(r, Idle)

-----------------------------------------------------------------------------
(* POST file-locks/:lockId/release, and releaseLocksForWorker, which no route calls *)

ReleaseCheck(r, k) ==
  /\ Free(r)
  /\ Active(k)
  /\ Goto(r, [Idle EXCEPT !.pc = "release", !.lock = k, !.late = Late(k)])
  /\ UNCHANGED locks

\* What remains of a release: the other locks of the worker, if it is a drain.
ReleaseRest(r) ==
  IF req[r].todo = {} THEN Idle ELSE [Idle EXCEPT !.pc = "drain", !.todo = req[r].todo]

\* Slip: the status and the reason of the update change places.
ReleaseUpdate_Swapped(r) ==
  /\ At(r, "release")
  /\ SetStatus(req[r].lock, IF req[r].late THEN "stale_timeout" ELSE "released_manually")
  /\ Goto(r, ReleaseRest(r))

ReleaseUpdate(r) ==
  /\ At(r, "release")
  /\ SetStatus(req[r].lock, IF req[r].late THEN "expired" ELSE "released")
  /\ Goto(r, ReleaseRest(r))

\* The active locks of a worker are selected, and given to releaseLock one by one.
DrainSelect(r, w) ==
  /\ Free(r)
  /\ LET held == {k \in Lock : Active(k) /\ locks[k].worker = w}
     IN  held # {} /\ Goto(r, [Idle EXCEPT !.pc = "drain", !.todo = held])
  /\ UNCHANGED locks

\* Slip: a lock that is no longer active is not taken off the list.
DrainNext_Keeps(r) ==
  /\ At(r, "drain")
  /\ \E k \in req[r].todo :
       LET rest == req[r].todo \ {k} IN
       Goto(r, IF Active(k) THEN [Idle EXCEPT !.pc = "release", !.lock = k,
                                              !.late = Late(k), !.todo = rest]
               ELSE req[r])
  /\ UNCHANGED locks

DrainNext(r) ==
  /\ At(r, "drain")
  /\ \E k \in req[r].todo :
       LET rest == req[r].todo \ {k} IN
       Goto(r, IF Active(k) THEN [Idle EXCEPT !.pc = "release", !.lock = k,
                                              !.late = Late(k), !.todo = rest]
               ELSE IF rest = {} THEN Idle
               ELSE [Idle EXCEPT !.pc = "drain", !.todo = rest])
  /\ UNCHANGED locks

-----------------------------------------------------------------------------
(* POST file-locks/release-stale *)

StaleSelect(r) ==
  /\ Free(r)
  /\ LET stale == {k \in Lock : Active(k) /\ Late(k)}
     IN  stale # {} /\ Goto(r, [Idle EXCEPT !.pc = "sweep", !.todo = stale])
  /\ UNCHANGED locks

StaleRelease(r) ==
  /\ At(r, "sweep")
  /\ \E k \in req[r].todo :
       /\ SetStatus(k, "expired")
       /\ LET rest == req[r].todo \ {k}
          IN  Goto(r, IF rest = {} THEN Idle ELSE [Idle EXCEPT !.pc = "sweep", !.todo = rest])

-----------------------------------------------------------------------------
\* A query fails or the API process dies between two statements.
Abort(r) ==
  /\ ~ Free(r)
  /\ Goto(r, Idle)
  /\ UNCHANGED locks

\* The clock passes the deadline of a row that is still active.
DeadlinePasses(k) ==
  /\ Active(k)
  /\ \/ SeesDue /\ locks[k].phase = "live" /\ locks' = [locks EXCEPT ![k].phase = "due"]
     \/ ~ Late(k) /\ locks' = [locks EXCEPT ![k].phase = "over"]
  /\ UNCHANGED req

RequestStart(r) ==
  \/ \E k \in Lock : \/ RefreshCheck(r, k) \/ ReleaseCheck(r, k)
                     \/ \E p \in Path, m \in Mode, w \in Worker \union {NULL} :
                          AcquireCheck(r, k, p, m, w)
  \/ \E w \in Worker : DrainSelect(r, w)
  \/ StaleSelect(r)

RequestStep(r) ==
  \/ AcquireInsert(r) \/ AcquireBlocked(r)
  \/ RefreshExpire(r) \/ RefreshUpdate(r)
  \/ ReleaseUpdate(r) \/ DrainNext(r)
  \/ StaleRelease(r)

Next ==
  \/ \E r \in Request : RequestStart(r) \/ RequestStep(r) \/ Abort(r)
  \/ \E k \in Lock : DeadlinePasses(k)

Spec == Init /\ [][Next]_vars

\* The event loop runs every continuation; nothing here waits for a row lock.
FairSpec == Spec /\ \A r \in Request : WF_vars(RequestStep(r))

-----------------------------------------------------------------------------
(* Properties *)

Compatible(k, l) ==
  locks[k].path = locks[l].path => locks[k].mode = "read" /\ locks[l].mode = "read"

\* "Safe transaction-protected lock acquisition with automatic exclusivity conflict
\* check": of two locks in force on one file, neither is a write lock.  It needs that a
\* lock which has lapsed is never put in force again beside its successor.
Exclusive ==
  \A k, l \in Lock : k # l /\ InForce(k) /\ InForce(l) => Compatible(k, l)

\* A released, expired or blocked row never becomes active again, whatever refreshes,
\* releases and sweeps it meets on their way with stale reads of it.
EndedStaysEnded ==
  [][\A k \in Lock :
       locks[k].status \in {"released", "expired", "blocked"}
         => locks'[k].status \in {"released", "expired", "blocked"}]_vars

\* Whoever asks for a lock, refreshes one or sweeps is answered, however many rows there
\* are and whatever others do to them in between.
EveryRequestEnds == \A r \in Request : ~ Free(r) ~> Free(r)
=============================================================================
