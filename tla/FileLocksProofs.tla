--------------------------- MODULE FileLocksProofs ---------------------------
(***************************************************************************)
(* What holds of FileLocks for every number of rows, paths, workers and    *)
(* requests in flight; and, for requests that neither overlap nor fall on  *)
(* a deadline, that write locks exclude.                                   *)
(***************************************************************************)
EXTENDS FileLocks, TLAPS

\* A request about to insert has a row id of its own that is not in the table yet.
ReservedOK ==
  \A r \in Request : req[r].pc \in {"insert", "block"} =>
    /\ req[r].lock \in Lock /\ req[r].path \in Path
    /\ locks[req[r].lock].status = "absent"
    /\ \A q \in Request : q # r => req[q].lock # req[r].lock

\* A request about to update a row has found it in the table.
TargetOK ==
  \A r \in Request :
    /\ req[r].pc \in {"refresh", "expire", "release"} =>
         req[r].lock \in Lock /\ locks[req[r].lock].status # "absent"
    /\ \A k \in req[r].todo : locks[k].status # "absent"

IInv == TypeOK /\ ReservedOK /\ TargetOK

LEMMA InitIInv == Init => IInv
<1> SUFFICES ASSUME Init PROVE IInv
  OBVIOUS
<1>1. TypeOK
  BY DEF Init, TypeOK, Row, Slot, Idle, Mode
<1>2. ReservedOK /\ TargetOK
  BY DEF Init, ReservedOK, TargetOK, Idle
<1> QED
  BY <1>1, <1>2 DEF IInv

-----------------------------------------------------------------------------
(* What a step does to the invariant, by the shape of the step. *)

\* The rows may change, as long as none enters or leaves the table.
SameRows ==
  /\ locks' \in [Lock -> Row]
  /\ \A k \in Lock : (locks'[k].status = "absent") <=> (locks[k].status = "absent")

\* What a slot may hold that reserves no row id.
PlainSlot(slot) ==
  /\ slot \in Slot
  /\ slot.pc \notin {"insert", "block"}
  /\ slot.lock # NULL => locks[slot.lock].status # "absent"
  /\ slot.pc \in {"refresh", "expire", "release"} => slot.lock # NULL
  /\ \A k \in slot.todo : locks[k].status # "absent"

\* A request gives its slot back, or goes on with rows it has found in the table.
LEMMA PlainStep ==
  ASSUME IInv, SameRows, NEW r \in Request, NEW slot, PlainSlot(slot),
         req' = [req EXCEPT ![r] = slot]
  PROVE  IInv'
<1>0. slot \in Slot /\ slot.todo \subseteq Lock /\ (slot.lock # NULL => slot.lock \in Lock)
  BY DEF PlainSlot, Slot
<1>1. TypeOK'
  BY <1>0 DEF IInv, TypeOK, SameRows
<1>2. ReservedOK'
  <2> SUFFICES ASSUME NEW p \in Request, req'[p].pc \in {"insert", "block"}
               PROVE  /\ req'[p].lock \in Lock /\ req'[p].path \in Path
                      /\ locks'[req'[p].lock].status = "absent"
                      /\ \A q \in Request : q # p => req'[q].lock # req'[p].lock
    BY DEF ReservedOK
  <2>1. p # r /\ req'[p] = req[p]
    BY DEF IInv, TypeOK, PlainSlot
  <2>2. /\ req[p].lock \in Lock /\ req[p].path \in Path
        /\ locks[req[p].lock].status = "absent"
        /\ \A q \in Request : q # p => req[q].lock # req[p].lock
    BY <2>1 DEF IInv, ReservedOK
  <2>3. req'[r] = slot /\ \A q \in Request : q # r => req'[q] = req[q]
    BY DEF IInv, TypeOK
  <2>4. slot.lock # req[p].lock
    BY <2>2, NullAssumption DEF Lock, PlainSlot
  <2> QED
    BY <2>1, <2>2, <2>3, <2>4 DEF SameRows
<1>3. TargetOK'
  <2> SUFFICES ASSUME NEW p \in Request
               PROVE  /\ req'[p].pc \in {"refresh", "expire", "release"} =>
                           req'[p].lock \in Lock /\ locks'[req'[p].lock].status # "absent"
                      /\ \A k \in req'[p].todo : locks'[k].status # "absent"
    BY DEF TargetOK
  <2>1. req[p].todo \subseteq Lock
    BY DEF IInv, TypeOK, Slot
  <2>2. CASE p = r
    BY <1>0, <2>2 DEF IInv, TypeOK, PlainSlot, SameRows
  <2>3. CASE p # r
    BY <2>1, <2>3 DEF IInv, TypeOK, TargetOK, SameRows
  <2> QED
    BY <2>2, <2>3
<1> QED
  BY <1>1, <1>2, <1>3 DEF IInv

LEMMA IdlePlain == PlainSlot(Idle)
BY NullAssumption DEF PlainSlot, Idle, Slot, Mode

\* An UPDATE of the status, or of the deadline, of a row that is in the table.
LEMMA RowUpdate ==
  ASSUME IInv, NEW k \in Lock, locks[k].status # "absent", NEW row \in Row,
         row.status # "absent", locks' = [locks EXCEPT ![k] = row]
  PROVE  SameRows
BY DEF IInv, TypeOK, SameRows

LEMMA StatusRow ==
  ASSUME NEW row \in Row, NEW s \in {"released", "expired"}
  PROVE  [row EXCEPT !.status = s] \in Row /\ [row EXCEPT !.status = s].status = s
BY DEF Row

LEMMA PhaseRow ==
  ASSUME NEW row \in Row, NEW p \in {"live", "due", "over"}
  PROVE  /\ [row EXCEPT !.phase = p] \in Row
         /\ [row EXCEPT !.phase = p].status = row.status
BY DEF Row

LEMMA SetStatusKeeps ==
  ASSUME IInv, NEW k \in Lock, locks[k].status # "absent",
         NEW s \in {"released", "expired"}, SetStatus(k, s)
  PROVE  SameRows
<1>1. locks[k] \in Row /\ locks' = [locks EXCEPT ![k] = [locks[k] EXCEPT !.status = s]]
  BY DEF IInv, TypeOK, SetStatus
<1> DEFINE row == [locks[k] EXCEPT !.status = s]
<1>2. row \in Row /\ row.status # "absent"
  BY <1>1, StatusRow
<1> HIDE DEF row
<1> QED
  BY <1>1, <1>2, RowUpdate DEF row

-----------------------------------------------------------------------------
(* One lemma per handler. *)

LEMMA AcquireCheckIInv ==
  ASSUME IInv, NEW r \in Request, NEW k \in Lock, NEW p \in Path, NEW m \in Mode,
         NEW w \in Worker \union {NULL}, AcquireCheck(r, k, p, m, w)
  PROVE  IInv'
<1> DEFINE slot == [Idle EXCEPT !.pc = IF Conflicts(p, m) THEN "block" ELSE "insert",
                                !.lock = k, !.path = p, !.mode = m, !.worker = w]
<1>1. /\ slot \in Slot /\ slot.pc \in {"insert", "block"} /\ slot.lock = k
      /\ slot.path = p /\ slot.todo = {}
  BY DEF Slot, Idle, Mode
<1>2. req' = [req EXCEPT ![r] = slot] /\ UNCHANGED locks
  BY DEF AcquireCheck, Goto
<1> HIDE DEF slot
<1>3. locks[k].status = "absent" /\ \A q \in Request : req[q].lock # k
  BY DEF AcquireCheck, Fresh
<1>4. TypeOK'
  BY <1>1, <1>2 DEF IInv, TypeOK
<1>5. ReservedOK'
  BY <1>1, <1>2, <1>3 DEF IInv, TypeOK, ReservedOK
<1>6. TargetOK'
  BY <1>1, <1>2 DEF IInv, TypeOK, TargetOK
<1> QED
  BY <1>4, <1>5, <1>6 DEF IInv

\* Either INSERT of acquireLock: the row that was reserved enters the table.
LEMMA InsertIInv ==
  ASSUME IInv, NEW r \in Request, AcquireInsert(r) \/ AcquireBlocked(r)
  PROVE  IInv' /\ locks[req[r].lock].status = "absent"
<1>1. PICK s \in {"active", "blocked"}, ph \in {"live", "over"} : Insert(r, s, ph)
  BY DEF AcquireInsert, AcquireBlocked
<1>2. /\ req[r] \in Slot /\ req[r].lock \in Lock /\ req[r].path \in Path
      /\ locks[req[r].lock].status = "absent" /\ req[r].pc \in {"insert", "block"}
  BY DEF AcquireInsert, AcquireBlocked, At, IInv, TypeOK, ReservedOK
<1> DEFINE row == [status |-> s, path |-> req[r].path, mode |-> req[r].mode,
                   worker |-> req[r].worker, phase |-> ph]
<1>3. row \in Row /\ row.status # "absent"
  BY <1>2 DEF Row, Slot
<1>4. locks' = [locks EXCEPT ![req[r].lock] = row] /\ req' = [req EXCEPT ![r] = Idle]
  BY <1>1 DEF Insert, Goto
<1> HIDE DEF row
<1>5. Idle \in Slot /\ Idle.pc = "idle" /\ Idle.todo = {} /\ Idle.lock = NULL
  BY DEF Idle, Slot, Mode
<1>6. TypeOK'
  BY <1>2, <1>3, <1>4, <1>5 DEF IInv, TypeOK
<1>7. \A k \in Lock : locks[k].status # "absent" => locks'[k].status # "absent"
  BY <1>2, <1>3, <1>4 DEF IInv, TypeOK
<1>8. ReservedOK'
  <2> SUFFICES ASSUME NEW p \in Request, req'[p].pc \in {"insert", "block"}
               PROVE  /\ req'[p].lock \in Lock /\ req'[p].path \in Path
                      /\ locks'[req'[p].lock].status = "absent"
                      /\ \A q \in Request : q # p => req'[q].lock # req'[p].lock
    BY DEF ReservedOK
  <2>1. p # r /\ req'[p] = req[p]
    BY <1>4, <1>5 DEF IInv, TypeOK
  <2>2. /\ req[p].lock \in Lock /\ req[p].path \in Path
        /\ locks[req[p].lock].status = "absent" /\ req[p].lock # req[r].lock
        /\ \A q \in Request : q # p => req[q].lock # req[p].lock
    BY <2>1 DEF IInv, ReservedOK
  <2>3. locks'[req[p].lock] = locks[req[p].lock]
    BY <1>2, <1>4, <2>2 DEF IInv, TypeOK
  <2>4. \A q \in Request : req'[q].lock \in {req[q].lock, NULL}
    BY <1>4, <1>5 DEF IInv, TypeOK
  <2>5. req[p].lock # NULL
    BY <2>2, NullAssumption DEF Lock
  <2> QED
    BY <2>1, <2>2, <2>3, <2>4, <2>5
<1>9. TargetOK'
  <2> SUFFICES ASSUME NEW p \in Request
               PROVE  /\ req'[p].pc \in {"refresh", "expire", "release"} =>
                           req'[p].lock \in Lock /\ locks'[req'[p].lock].status # "absent"
                      /\ \A k \in req'[p].todo : locks'[k].status # "absent"
    BY DEF TargetOK
  <2>1. req'[p] \in {req[p], Idle} /\ req[p].todo \subseteq Lock
    BY <1>4 DEF IInv, TypeOK, Slot
  <2> QED
    BY <1>5, <1>7, <2>1 DEF IInv, TargetOK
<1> QED
  BY <1>2, <1>6, <1>8, <1>9 DEF IInv

\* The checks of refreshLock and releaseLock, and the selections of the two sweeps.
LEMMA CheckIInv ==
  ASSUME IInv, NEW r \in Request,
         \/ \E k \in Lock : RefreshCheck(r, k) \/ ReleaseCheck(r, k)
         \/ \E w \in Worker : DrainSelect(r, w)
         \/ StaleSelect(r)
  PROVE  IInv' /\ UNCHANGED locks
<1>1. UNCHANGED locks
  BY DEF RefreshCheck, ReleaseCheck, DrainSelect, StaleSelect
<1>2. SameRows
  BY <1>1 DEF IInv, TypeOK, SameRows
<1>3. CASE \E k \in Lock : RefreshCheck(r, k)
  <2> PICK k \in Lock : RefreshCheck(r, k)
    BY <1>3
  <2> DEFINE slot == [Idle EXCEPT !.pc = IF Late(k) THEN "expire" ELSE "refresh", !.lock = k]
  <2>1. /\ slot \in Slot /\ slot.pc \in {"expire", "refresh"}
        /\ slot.lock = k /\ slot.todo = {}
    BY DEF Slot, Idle, Mode
  <2>2. req' = [req EXCEPT ![r] = slot] /\ locks[k].status # "absent"
    BY DEF RefreshCheck, Goto, Active
  <2> HIDE DEF slot
  <2>3. PlainSlot(slot)
    BY <2>1, <2>2, NullAssumption DEF PlainSlot, Lock
  <2> QED
    BY <1>1, <1>2, <2>2, <2>3, PlainStep
<1>4. CASE \E k \in Lock : ReleaseCheck(r, k)
  <2> PICK k \in Lock : ReleaseCheck(r, k)
    BY <1>4
  <2> DEFINE slot == [Idle EXCEPT !.pc = "release", !.lock = k, !.late = Late(k)]
  <2>0. Late(k) \in BOOLEAN
    BY DEF Late
  <2>1. slot \in Slot /\ slot.pc = "release" /\ slot.lock = k /\ slot.todo = {}
    BY <2>0 DEF Slot, Idle, Mode
  <2>2. req' = [req EXCEPT ![r] = slot] /\ locks[k].status # "absent"
    BY DEF ReleaseCheck, Goto, Active
  <2> HIDE DEF slot
  <2>3. PlainSlot(slot)
    BY <2>1, <2>2, NullAssumption DEF PlainSlot, Lock
  <2> QED
    BY <1>1, <1>2, <2>2, <2>3, PlainStep
<1>5. CASE \E w \in Worker : DrainSelect(r, w)
  <2> PICK w \in Worker : DrainSelect(r, w)
    BY <1>5
  <2> DEFINE held == {k \in Lock : Active(k) /\ locks[k].worker = w}
             slot == [Idle EXCEPT !.pc = "drain", !.todo = held]
  <2>1. PlainSlot(slot) /\ req' = [req EXCEPT ![r] = slot]
    BY DEF DrainSelect, Goto, Active, PlainSlot, Slot, Idle, Mode
  <2> QED
    BY <1>1, <1>2, <2>1, PlainStep
<1>6. CASE StaleSelect(r)
  <2> DEFINE stale == {k \in Lock : Active(k) /\ Late(k)}
             slot == [Idle EXCEPT !.pc = "sweep", !.todo = stale]
  <2>1. PlainSlot(slot) /\ req' = [req EXCEPT ![r] = slot]
    BY <1>6 DEF StaleSelect, Goto, Active, PlainSlot, Slot, Idle, Mode
  <2> QED
    BY <1>1, <1>2, <2>1, PlainStep
<1> QED
  BY <1>3, <1>4, <1>5, <1>6

\* The updates of refreshLock: the deadline of an existing row moves, or the row expires.
LEMMA RefreshIInv ==
  ASSUME IInv, NEW r \in Request, RefreshExpire(r) \/ RefreshUpdate(r)
  PROVE  IInv'
<1>1. /\ req[r].lock \in Lock /\ locks[req[r].lock].status # "absent"
      /\ req' = [req EXCEPT ![r] = Idle]
  BY DEF RefreshExpire, RefreshUpdate, At, Goto, IInv, TargetOK
<1>2. SameRows
  <2>1. CASE RefreshExpire(r)
    BY <1>1, <2>1, SetStatusKeeps DEF RefreshExpire
  <2>2. CASE RefreshUpdate(r)
    <3> DEFINE k == req[r].lock
               row == [locks[k] EXCEPT !.phase = "live"]
    <3>1. locks' = [locks EXCEPT ![k] = row] /\ locks[k] \in Row
      BY <1>1, <2>2 DEF RefreshUpdate, IInv, TypeOK
    <3>2. row \in Row /\ row.status # "absent"
      BY <1>1, <3>1, PhaseRow
    <3> HIDE DEF row
    <3> QED
      BY <1>1, <3>1, <3>2, RowUpdate
  <2> QED
    BY <2>1, <2>2
<1> QED
  BY <1>1, <1>2, PlainStep, IdlePlain

\* releaseLock's update, alone or within a drain.
LEMMA ReleaseIInv ==
  ASSUME IInv, NEW r \in Request, ReleaseUpdate(r)
  PROVE  IInv'
<1>1. /\ req[r] \in Slot /\ req[r].lock \in Lock /\ locks[req[r].lock].status # "absent"
      /\ req' = [req EXCEPT ![r] = ReleaseRest(r)]
      /\ \A k \in req[r].todo : locks[k].status # "absent"
  BY DEF ReleaseUpdate, At, Goto, IInv, TargetOK, TypeOK
<1>2. SameRows
  BY <1>1, SetStatusKeeps DEF ReleaseUpdate
<1> DEFINE drain == [Idle EXCEPT !.pc = "drain", !.todo = req[r].todo]
<1>3. PlainSlot(drain)
  BY <1>1 DEF PlainSlot, Slot, Idle, Mode
<1>4. PlainSlot(ReleaseRest(r))
  BY <1>3, IdlePlain DEF ReleaseRest
<1> QED
  BY <1>1, <1>2, <1>4, PlainStep

\* A slot with a list of rows still to visit.
LEMMA ListPlain ==
  ASSUME NEW pc \in {"drain", "sweep"}, NEW rest \in SUBSET Lock,
         \A k \in rest : locks[k].status # "absent"
  PROVE  PlainSlot([Idle EXCEPT !.pc = pc, !.todo = rest])
BY DEF PlainSlot, Slot, Idle, Mode

\* A drain reads the next row of its list; it changes none.
LEMMA DrainNextIInv ==
  ASSUME IInv, NEW r \in Request, DrainNext(r)
  PROVE  IInv'
<1>1. /\ UNCHANGED locks /\ req[r].todo \subseteq Lock
      /\ \A k \in req[r].todo : locks[k].status # "absent"
  BY DEF DrainNext, At, IInv, TargetOK, TypeOK, Slot
<1>2. SameRows
  BY <1>1 DEF IInv, TypeOK, SameRows
<1>3. PICK k \in req[r].todo : req' = [req EXCEPT ![r] =
        IF Active(k) THEN [Idle EXCEPT !.pc = "release", !.lock = k,
                                       !.late = Late(k), !.todo = req[r].todo \ {k}]
        ELSE IF req[r].todo \ {k} = {} THEN Idle
        ELSE [Idle EXCEPT !.pc = "drain", !.todo = req[r].todo \ {k}]]
  BY DEF DrainNext, Goto
<1> DEFINE rest == req[r].todo \ {k}
           release == [Idle EXCEPT !.pc = "release", !.lock = k, !.late = Late(k), !.todo = rest]
           drain == [Idle EXCEPT !.pc = "drain", !.todo = rest]
<1>4. k \in Lock /\ locks[k].status # "absent" /\ rest \in SUBSET Lock
      /\ \A i \in rest : locks[i].status # "absent"
  BY <1>1
<1>5. PlainSlot(release)
  <2>1. Late(k) \in BOOLEAN
    BY DEF Late
  <2>2. /\ release \in Slot /\ release.pc = "release" /\ release.lock = k
        /\ release.todo = rest
    BY <1>4, <2>1 DEF Slot, Idle, Mode
  <2>3. k # NULL
    BY <1>4, NullAssumption DEF Lock
  <2> HIDE DEF release, rest
  <2> QED
    BY <1>4, <2>2, <2>3 DEF PlainSlot
<1>6. PlainSlot(drain)
  <2> HIDE DEF rest
  <2> QED
    BY <1>4, ListPlain
<1>7. PICK slot \in {release, Idle, drain} : req' = [req EXCEPT ![r] = slot]
  BY <1>3
<1> HIDE DEF release, drain
<1>8. PlainSlot(slot)
  BY <1>5, <1>6, <1>7, IdlePlain
<1> QED
  BY <1>2, <1>7, <1>8, PlainStep

\* A sweep ends the next row of its list.
LEMMA StaleReleaseIInv ==
  ASSUME IInv, NEW r \in Request, StaleRelease(r)
  PROVE  IInv'
<1> DEFINE rest(k) == req[r].todo \ {k}
           sweep(k) == [Idle EXCEPT !.pc = "sweep", !.todo = rest(k)]
<1>1. PICK k \in req[r].todo :
        /\ SetStatus(k, "expired")
        /\ req' = [req EXCEPT ![r] = IF rest(k) = {} THEN Idle ELSE sweep(k)]
  BY DEF StaleRelease, Goto
<1>2. /\ k \in Lock /\ locks[k].status # "absent" /\ rest(k) \in SUBSET Lock
      /\ \A i \in rest(k) : locks[i].status # "absent"
  BY DEF IInv, TargetOK, TypeOK, Slot
<1>3. SameRows
  BY <1>1, <1>2, SetStatusKeeps
<1>4. PlainSlot(sweep(k))
  <2> HIDE DEF rest
  <2> QED
    BY <1>2, ListPlain
<1>5. PICK slot \in {Idle, sweep(k)} : req' = [req EXCEPT ![r] = slot]
  BY <1>1
<1> HIDE DEF sweep
<1>6. PlainSlot(slot)
  BY <1>4, <1>5, IdlePlain
<1> QED
  BY <1>3, <1>5, <1>6, PlainStep

LEMMA AbortIInv ==
  ASSUME IInv, NEW r \in Request, Abort(r)
  PROVE  IInv'
<1>1. SameRows /\ req' = [req EXCEPT ![r] = Idle]
  BY DEF Abort, Goto, IInv, TypeOK, SameRows
<1> QED
  BY <1>1, IdlePlain, PlainStep

\* The clock leaves the requests alone, and every row where it is.
LEMMA DeadlineIInv ==
  ASSUME IInv, NEW k \in Lock, DeadlinePasses(k)
  PROVE  IInv' /\ \A i \in Lock : locks'[i].status = locks[i].status
<1>1. PICK p \in {"due", "over"} : locks' = [locks EXCEPT ![k].phase = p]
  BY DEF DeadlinePasses
<1> DEFINE row == [locks[k] EXCEPT !.phase = p]
<1>2. row \in Row /\ row.status = locks[k].status /\ locks' = [locks EXCEPT ![k] = row]
  BY <1>1, PhaseRow DEF IInv, TypeOK
<1> HIDE DEF row
<1>3. locks' \in [Lock -> Row] /\ \A i \in Lock : locks'[i].status = locks[i].status
  BY <1>2 DEF IInv, TypeOK
<1>4. UNCHANGED req /\ \A r \in Request : req[r].todo \subseteq Lock
  BY DEF DeadlinePasses, IInv, TypeOK, Slot
<1> QED
  BY <1>3, <1>4 DEF IInv, TypeOK, ReservedOK, TargetOK

LEMMA NextIInv ==
  IInv /\ [Next]_vars => IInv'
<1> SUFFICES ASSUME IInv, [Next]_vars PROVE IInv'
  OBVIOUS
<1>1. CASE UNCHANGED vars
  BY <1>1 DEF vars, IInv, TypeOK, ReservedOK, TargetOK
<1>2. ASSUME NEW r \in Request, RequestStart(r) PROVE IInv'
  BY <1>2, CheckIInv, AcquireCheckIInv DEF RequestStart
<1>3. ASSUME NEW r \in Request, RequestStep(r) PROVE IInv'
  BY <1>3, InsertIInv, RefreshIInv, ReleaseIInv, DrainNextIInv, StaleReleaseIInv
     DEF RequestStep
<1>4. ASSUME NEW r \in Request, Abort(r) PROVE IInv'
  BY <1>4, AbortIInv
<1>5. ASSUME NEW k \in Lock, DeadlinePasses(k) PROVE IInv'
  BY <1>5, DeadlineIInv
<1> QED
  BY <1>1, <1>2, <1>3, <1>4, <1>5 DEF Next

-----------------------------------------------------------------------------
\* IInv holds throughout: a row id is inserted once, and only rows of the table are updated.
THEOREM Invariance == Spec => []IInv
BY InitIInv, NextIInv, PTL DEF Spec

\* The rows and the requests in flight keep their type.
THEOREM TypeCorrect == Spec => []TypeOK
<1>1. IInv => TypeOK
  BY DEF IInv
<1> QED
  BY <1>1, Invariance, PTL

-----------------------------------------------------------------------------
(* A row that has ended never becomes active again. *)

Ended == {"released", "expired", "blocked"}

\* What a step writes to the status of a row.
StatusStep ==
  \A k \in Lock :
    \/ locks'[k].status = locks[k].status
    \/ locks'[k].status \in Ended
    \/ locks[k].status = "absent"

LEMMA SetStatusStep ==
  ASSUME IInv, NEW k \in Lock, NEW s \in {"released", "expired"}, SetStatus(k, s)
  PROVE  StatusStep
BY StatusRow DEF IInv, TypeOK, SetStatus, StatusStep, Ended, Row

LEMMA NextStatus ==
  IInv /\ [Next]_vars => StatusStep
<1> SUFFICES ASSUME IInv, [Next]_vars PROVE StatusStep
  OBVIOUS
<1>1. CASE UNCHANGED locks
  BY <1>1 DEF StatusStep
<1>2. ASSUME NEW r \in Request, AcquireInsert(r) \/ AcquireBlocked(r) PROVE StatusStep
  <2>1. locks[req[r].lock].status = "absent"
    BY <1>2, InsertIInv
  <2>2. \A k \in Lock : k # req[r].lock => locks'[k] = locks[k]
    BY <1>2 DEF AcquireInsert, AcquireBlocked, Insert, IInv, TypeOK
  <2> QED
    BY <2>1, <2>2 DEF StatusStep
<1>3. ASSUME NEW r \in Request, RefreshExpire(r) PROVE StatusStep
  BY <1>3, SetStatusStep DEF RefreshExpire, At, IInv, TargetOK
<1>4. ASSUME NEW r \in Request, RefreshUpdate(r) PROVE StatusStep
  BY <1>4, PhaseRow DEF RefreshUpdate, IInv, TypeOK, StatusStep, Row
<1>5. ASSUME NEW r \in Request, ReleaseUpdate(r) PROVE StatusStep
  BY <1>5, SetStatusStep DEF ReleaseUpdate, At, IInv, TargetOK
<1>6. ASSUME NEW r \in Request, StaleRelease(r) PROVE StatusStep
  BY <1>6, SetStatusStep DEF StaleRelease, IInv, TypeOK, Slot
<1>7. ASSUME NEW k \in Lock, DeadlinePasses(k) PROVE StatusStep
  BY <1>7, DeadlineIInv DEF StatusStep
<1>8. ASSUME NEW r \in Request, RequestStart(r) \/ DrainNext(r) \/ Abort(r)
      PROVE  UNCHANGED locks
  BY <1>8 DEF RequestStart, RefreshCheck, ReleaseCheck, AcquireCheck, DrainSelect, StaleSelect,
              DrainNext, Abort
<1> QED
  BY <1>1, <1>2, <1>3, <1>4, <1>5, <1>6, <1>7, <1>8 DEF Next, RequestStep, vars

\* A row that has ended never becomes active again, whatever requests with stale reads of
\* it are still on their way: an INSERT takes a row id of its own, a refresh moves the
\* deadline only, and everything else that writes a status ends the row.
THEOREM EndedStaysEndedHolds == Spec => EndedStaysEnded
<1>1. IInv /\ StatusStep =>
        \A k \in Lock : locks[k].status \in Ended => locks'[k].status \in Ended
  BY DEF StatusStep, Ended
<1>2. IInv /\ [Next]_vars =>
        [\A k \in Lock : locks[k].status \in Ended => locks'[k].status \in Ended]_vars
  BY <1>1, NextStatus
<1> QED
  BY <1>2, Invariance, PTL DEF Spec, EndedStaysEnded, Ended

-----------------------------------------------------------------------------
(* One request at a time, none of which falls on the instant a deadline passes. *)

Serial == ~ SeesDue /\ \A q, r \in Request : q = r

\* Nothing in force on the path of an admitted request conflicts with what it asks for.
AdmittedOK ==
  \A r \in Request : \A k \in Lock :
    req[r].pc = "insert" /\ InForce(k) /\ locks[k].path = req[r].path
      => req[r].mode = "read" /\ locks[k].mode = "read"

\* Nothing in force conflicts with the lock whose deadline a refresh is about to move: it
\* may lapse meanwhile, but nobody else can take its place.
RefreshedOK ==
  \A r \in Request : \A k \in Lock :
    req[r].pc = "refresh" /\ InForce(k) /\ k # req[r].lock => Compatible(req[r].lock, k)

NothingDue == \A k \in Lock : locks[k].phase # "due"

SInv == IInv /\ NothingDue /\ AdmittedOK /\ RefreshedOK /\ Exclusive

LEMMA InitSInv == Init => SInv
<1> SUFFICES ASSUME Init PROVE SInv
  OBVIOUS
<1>1. \A k \in Lock : locks[k].phase = "over" /\ ~ InForce(k)
  BY DEF Init, InForce
<1> QED
  BY <1>1, InitIInv DEF SInv, NothingDue, AdmittedOK, RefreshedOK, Exclusive

\* A step after which every lock in force was in force before it, with its path and mode.
Shrinks ==
  \A k \in Lock :
    /\ locks'[k].phase # "due"
    /\ InForce(k)' => InForce(k)
    /\ locks[k].status # "absent" =>
         locks'[k].path = locks[k].path /\ locks'[k].mode = locks[k].mode

\* Such a step preserves what is known of a request that keeps its slot.
LEMMA ShrinkKeeps ==
  ASSUME SInv, Shrinks, NEW r \in Request,
         req'[r] = req[r] \/ req'[r].pc \notin {"insert", "refresh"}
  PROVE  \A k \in Lock :
              /\ req'[r].pc = "insert" /\ InForce(k)' /\ locks'[k].path = req'[r].path
                   => req'[r].mode = "read" /\ locks'[k].mode = "read"
              /\ req'[r].pc = "refresh" /\ InForce(k)' /\ k # req'[r].lock
                   => Compatible(req[r].lock, k)'
<1>1. \A k \in Lock : InForce(k)' =>
        InForce(k) /\ locks'[k].path = locks[k].path /\ locks'[k].mode = locks[k].mode
  BY DEF Shrinks, InForce, Active
<1>2. ASSUME NEW k \in Lock, req'[r].pc = "insert", InForce(k)', locks'[k].path = req'[r].path
      PROVE  req'[r].mode = "read" /\ locks'[k].mode = "read"
  BY <1>1, <1>2 DEF SInv, AdmittedOK
<1>3. ASSUME NEW k \in Lock, req'[r].pc = "refresh", InForce(k)', k # req'[r].lock
      PROVE  Compatible(req[r].lock, k)'
  <2>1. req'[r] = req[r] /\ locks[req[r].lock].status # "absent" /\ req[r].lock \in Lock
    BY <1>3 DEF SInv, IInv, TargetOK
  <2>2. Compatible(req[r].lock, k)
    BY <1>1, <1>3, <2>1 DEF SInv, RefreshedOK
  <2> QED
    BY <1>1, <1>3, <2>1, <2>2 DEF Compatible, Shrinks
<1> QED
  BY <1>2, <1>3

LEMMA UnchangedShrinks == SInv /\ UNCHANGED locks => Shrinks
BY DEF SInv, NothingDue, Shrinks, InForce, Active

LEMMA SetStatusShrinks ==
  ASSUME SInv, NEW k \in Lock, NEW s \in {"released", "expired"}, SetStatus(k, s)
  PROVE  Shrinks
BY DEF SInv, IInv, TypeOK, Row, NothingDue, Shrinks, SetStatus, InForce, Active

\* With a single request, a step that shrinks what is in force keeps the invariant unless
\* it admits an acquire or a refresh.
LEMMA ShrinkSInv ==
  ASSUME SInv, IInv', Shrinks,
         \A r \in Request : req'[r] = req[r] \/ req'[r].pc \notin {"insert", "refresh"}
  PROVE  SInv'
<1>1. NothingDue' /\ Exclusive'
  BY DEF SInv, NothingDue, Exclusive, Shrinks, InForce, Active, Compatible
<1>2. AdmittedOK' /\ RefreshedOK'
  BY ShrinkKeeps DEF AdmittedOK, RefreshedOK
<1> QED
  BY <1>1, <1>2 DEF SInv

\* The INSERT of an admitted lock.
LEMMA InsertSInv ==
  ASSUME SInv, IInv', Serial, NEW r \in Request, AcquireInsert(r)
  PROVE  SInv'
<1>1. /\ req[r] \in Slot /\ req[r].lock \in Lock /\ req[r].pc = "insert"
      /\ locks[req[r].lock].status = "absent"
  BY DEF AcquireInsert, At, SInv, IInv, TypeOK, ReservedOK
<1> DEFINE new == req[r].lock
<1>2. /\ locks'[new].phase = "live" /\ locks'[new].path = req[r].path
      /\ locks'[new].mode = req[r].mode
      /\ \A k \in Lock : k # new => locks'[k] = locks[k]
      /\ \A q \in Request : req'[q] = Idle
  BY <1>1 DEF AcquireInsert, Insert, Goto, SInv, IInv, TypeOK, Serial
<1>3. \A k \in Lock : k # new /\ InForce(k)' => InForce(k)
  BY <1>2 DEF InForce, Active
<1>4. NothingDue'
  BY <1>1, <1>2 DEF SInv, NothingDue
<1>5. AdmittedOK' /\ RefreshedOK'
  BY <1>2 DEF AdmittedOK, RefreshedOK, Idle
<1>6. Exclusive'
  <2> SUFFICES ASSUME NEW k \in Lock, NEW l \in Lock, k # l, InForce(k)', InForce(l)'
               PROVE  Compatible(k, l)'
    BY DEF Exclusive
  <2>1. CASE k # new /\ l # new
    BY <1>2, <1>3, <2>1 DEF SInv, Exclusive, Compatible
  <2>2. CASE k = new
    BY <1>1, <1>2, <1>3, <2>2 DEF SInv, AdmittedOK, Compatible
  <2>3. CASE l = new
    BY <1>1, <1>2, <1>3, <2>3 DEF SInv, AdmittedOK, Compatible
  <2> QED
    BY <2>1, <2>2, <2>3
<1> QED
  BY <1>4, <1>5, <1>6 DEF SInv

\* The update of a refresh puts a lock that may have lapsed in force again.
LEMMA RefreshUpdateSInv ==
  ASSUME SInv, IInv', Serial, NEW r \in Request, RefreshUpdate(r)
  PROVE  SInv'
<1>1. req[r].lock \in Lock /\ req[r].pc = "refresh"
  BY DEF RefreshUpdate, At, SInv, IInv, TargetOK
<1> DEFINE kept == req[r].lock
<1>2. /\ \A k \in Lock : /\ k # kept => locks'[k] = locks[k]
                         /\ locks'[k].path = locks[k].path /\ locks'[k].mode = locks[k].mode
      /\ locks'[kept].phase = "live"
      /\ \A q \in Request : req'[q] = Idle
  BY <1>1, PhaseRow DEF RefreshUpdate, Goto, SInv, IInv, TypeOK, Serial, Row
<1>3. \A k \in Lock : k # kept /\ InForce(k)' => InForce(k)
  BY <1>2 DEF InForce, Active
<1>4. NothingDue'
  BY <1>1, <1>2 DEF SInv, NothingDue
<1>5. AdmittedOK' /\ RefreshedOK'
  BY <1>2 DEF AdmittedOK, RefreshedOK, Idle
<1>6. Exclusive'
  <2> SUFFICES ASSUME NEW k \in Lock, NEW l \in Lock, k # l, InForce(k)', InForce(l)'
               PROVE  Compatible(k, l)'
    BY DEF Exclusive
  <2>1. CASE k # kept /\ l # kept
    BY <1>2, <1>3, <2>1 DEF SInv, Exclusive, Compatible
  <2>2. CASE k = kept
    BY <1>1, <1>2, <1>3, <2>2 DEF SInv, RefreshedOK, Compatible
  <2>3. CASE l = kept
    BY <1>1, <1>2, <1>3, <2>3 DEF SInv, RefreshedOK, Compatible
  <2> QED
    BY <2>1, <2>2, <2>3
<1> QED
  BY <1>4, <1>5, <1>6 DEF SInv

\* The conflict query admits a request only if nothing in force is in its way.
LEMMA AcquireCheckSInv ==
  ASSUME SInv, IInv', Serial, NEW r \in Request, NEW k \in Lock, NEW p \in Path,
         NEW m \in Mode, NEW w \in Worker \union {NULL}, AcquireCheck(r, k, p, m, w)
  PROVE  SInv'
<1>1. /\ req'[r].pc = "insert" => ~ Conflicts(p, m)
      /\ req'[r].pc # "refresh" /\ req'[r].path = p /\ req'[r].mode = m
      /\ \A q \in Request : q = r
      /\ UNCHANGED locks
  BY DEF AcquireCheck, Goto, SInv, IInv, TypeOK, Serial, Idle
<1>2. NothingDue' /\ Exclusive' /\ RefreshedOK'
  BY <1>1 DEF SInv, NothingDue, Exclusive, RefreshedOK, InForce, Active, Compatible
<1>3. AdmittedOK'
  BY <1>1 DEF AdmittedOK, Conflicts, InForce, Active, SInv, IInv, TypeOK, Row, Mode
<1> QED
  BY <1>2, <1>3 DEF SInv

\* A refresh is admitted if its lock is in force, and then nothing in force conflicts.
LEMMA RefreshCheckSInv ==
  ASSUME SInv, IInv', Serial, NEW r \in Request, NEW k \in Lock, RefreshCheck(r, k)
  PROVE  SInv'
<1>1. /\ req'[r].pc = "refresh" => ~ Late(k)
      /\ req'[r].pc # "insert" /\ req'[r].lock = k
      /\ \A q \in Request : q = r
      /\ UNCHANGED locks /\ Active(k)
  BY DEF RefreshCheck, Goto, SInv, IInv, TypeOK, Serial, Idle
<1>2. ~ Late(k) => InForce(k)
  BY <1>1 DEF InForce, Late, SInv, IInv, TypeOK, Row, NothingDue
<1>3. NothingDue' /\ Exclusive' /\ AdmittedOK'
  BY <1>1 DEF SInv, NothingDue, Exclusive, AdmittedOK, InForce, Active, Compatible
<1>4. RefreshedOK'
  BY <1>1, <1>2 DEF SInv, Exclusive, RefreshedOK, InForce, Active, Compatible
<1> QED
  BY <1>3, <1>4 DEF SInv

LEMMA NextSInv == Serial /\ SInv /\ [Next]_vars => SInv'
<1> SUFFICES ASSUME Serial, SInv, [Next]_vars PROVE SInv'
  OBVIOUS
<1>0. IInv'
  BY NextIInv DEF SInv
<1>1. CASE UNCHANGED vars
  BY <1>0, <1>1, UnchangedShrinks, ShrinkSInv DEF vars
<1>2. ASSUME NEW r \in Request, RequestStart(r) PROVE SInv'
  <2>1. CASE \E k \in Lock, p \in Path, m \in Mode, w \in Worker \union {NULL} :
               AcquireCheck(r, k, p, m, w)
    BY <1>0, <2>1, AcquireCheckSInv
  <2>2. CASE \E k \in Lock : RefreshCheck(r, k)
    BY <1>0, <2>2, RefreshCheckSInv
  <2>3. CASE \/ \E k \in Lock : ReleaseCheck(r, k)
             \/ \E w \in Worker : DrainSelect(r, w)
             \/ StaleSelect(r)
    <3>1. UNCHANGED locks /\ req'[r].pc \notin {"insert", "refresh"} /\ \A q \in Request : q = r
      BY <2>3 DEF ReleaseCheck, DrainSelect, StaleSelect, Goto, Idle, SInv, IInv, TypeOK, Serial
    <3> QED
      BY <1>0, <3>1, UnchangedShrinks, ShrinkSInv
  <2> QED
    BY <1>2, <2>1, <2>2, <2>3 DEF RequestStart
<1>3. ASSUME NEW r \in Request, AcquireBlocked(r) PROVE SInv'
  <2>1. req[r].lock \in Lock /\ locks[req[r].lock].status = "absent"
    BY <1>3 DEF AcquireBlocked, At, SInv, IInv, ReservedOK
  <2>2. Shrinks
    BY <1>3, <2>1 DEF AcquireBlocked, Insert, Shrinks, InForce, Active, SInv, IInv, TypeOK,
                      NothingDue
  <2>3. req'[r].pc = "idle" /\ \A q \in Request : q = r
    BY <1>3 DEF AcquireBlocked, Insert, Goto, Idle, SInv, IInv, TypeOK, Serial
  <2> QED
    BY <1>0, <2>2, <2>3, ShrinkSInv
<1>4. ASSUME NEW r \in Request, RefreshExpire(r) \/ ReleaseUpdate(r) \/ StaleRelease(r)
      PROVE  SInv'
  <2>1. PICK k \in Lock, s \in {"released", "expired"} : SetStatus(k, s)
    BY <1>4 DEF RefreshExpire, ReleaseUpdate, StaleRelease, At, SInv, IInv, TargetOK, TypeOK, Slot
  <2>2. req'[r].pc \in {"idle", "drain", "sweep"}
    <3>1. CASE RefreshExpire(r)
      BY <3>1 DEF RefreshExpire, Goto, Idle, SInv, IInv, TypeOK
    <3>2. CASE ReleaseUpdate(r)
      BY <3>2 DEF ReleaseUpdate, ReleaseRest, Goto, Idle, SInv, IInv, TypeOK
    <3>3. CASE StaleRelease(r)
      BY <3>3 DEF StaleRelease, Goto, Idle, SInv, IInv, TypeOK
    <3> QED
      BY <1>4, <3>1, <3>2, <3>3
  <2>3. req'[r].pc \notin {"insert", "refresh"} /\ \A q \in Request : q = r
    BY <2>2 DEF Serial
  <2> QED
    BY <1>0, <2>1, <2>3, SetStatusShrinks, ShrinkSInv
<1>5. ASSUME NEW r \in Request, DrainNext(r) \/ Abort(r) PROVE SInv'
  <2>1. CASE DrainNext(r)
    <3>1. UNCHANGED locks /\ \A q \in Request : q = r
      BY <2>1 DEF DrainNext, Serial
    <3>2. req'[r].pc \in {"release", "idle", "drain"}
      BY <2>1 DEF DrainNext, Goto, Idle, SInv, IInv, TypeOK
    <3> QED
      BY <1>0, <3>1, <3>2, UnchangedShrinks, ShrinkSInv
  <2>2. CASE Abort(r)
    <3>1. UNCHANGED locks /\ req'[r].pc = "idle" /\ \A q \in Request : q = r
      BY <2>2 DEF Abort, Goto, Idle, SInv, IInv, TypeOK, Serial
    <3> QED
      BY <1>0, <3>1, UnchangedShrinks, ShrinkSInv
  <2> QED
    BY <1>5, <2>1, <2>2
<1>6. ASSUME NEW k \in Lock, DeadlinePasses(k) PROVE SInv'
  <2>1. locks' = [locks EXCEPT ![k].phase = "over"] /\ UNCHANGED req
    BY <1>6 DEF DeadlinePasses, Serial
  <2>2. Shrinks
    BY <2>1, PhaseRow DEF SInv, IInv, TypeOK, Row, NothingDue, Shrinks, InForce, Active
  <2> QED
    BY <1>0, <2>1, <2>2, ShrinkSInv
<1> QED
  BY <1>0, <1>1, <1>2, <1>3, <1>4, <1>5, <1>6, InsertSInv, RefreshUpdateSInv
     DEF Next, RequestStep

\* One request at a time, none of them falling on the instant of a deadline, write locks
\* exclude: a lock is admitted only beside compatible ones, and a refresh that began in
\* time keeps its place even if the lock lapses before its update.
THEOREM ExclusiveWhenSerial == Serial => (Spec => []Exclusive)
<1>1. SInv => Exclusive
  BY DEF SInv
<1>2. Serial /\ SInv /\ [Next]_vars => Serial' /\ SInv'
  BY NextSInv DEF Serial
<1> QED
  BY <1>1, <1>2, InitSInv, PTL DEF Spec
=============================================================================
