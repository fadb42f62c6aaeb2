---------------------------- MODULE AgentsProofs ----------------------------
(***************************************************************************)
(* What holds of a task that agents hand to each other, for any number of  *)
(* schedules, sessions, handoffs and requests: ResumeSchedules,            *)
(* AgentSessions and Handoffs.  They share no variable, and each part      *)
(* cites its own module only.                                              *)
(***************************************************************************)
EXTENDS ResumeSchedules, AgentSessions, Handoffs, SequenceTheorems, TLAPS

(***************************************************************************)
(* ResumeSchedules: the index keeps one active schedule per task, and no   *)
(* schedule is queued for a second attempt unless it was made to wait      *)
(* again.                                                                  *)
(*                                                                         *)
(* A sweep writes an attempt it computed from an old read.  That is safe   *)
(* because a schedule that nobody patches leaves the status in which it    *)
(* was inserted once only: what a sweep has read of it, if it was not yet  *)
(* queued then, are no attempts at all.                                    *)
(***************************************************************************)
USE ScheduleAssumption

\* A row that no update request has touched waits for its first attempt, or had it.
RowFits(row) ==
  ~ row.patched =>
    /\ row.status # "ready"
    /\ row.status \in {"absent", "scheduled"} => row.attempts = 0
    /\ row.attempts <= 1

RowsFit == \A s \in Schedule : RowFits(sched[s])

\* What a sweep goes by: rows that exist, and no attempts of those that were waiting.
SweepsFit ==
  \A r \in SchedRequest : \A row \in schedReq[r].rows :
    /\ sched[row.id].status # "absent"
    /\ row.status # "requeued" /\ ~ sched[row.id].patched => row.attempts = 0

\* A schedule about to be replaced exists.
OldFits == \A r \in SchedRequest :
  schedReq[r].pc = "replace" =>
    schedReq[r].old \in Schedule /\ sched[schedReq[r].old].status # "absent"

SchedInv == SchedTypeOK /\ RowsFit /\ SweepsFit /\ OldFits

-----------------------------------------------------------------------------
LEMMA SchedIdleSlot ==
  /\ SchedIdle \in SchedSlot /\ SchedIdle.pc = "idle" /\ SchedIdle.rows = {}
  /\ SchedIdle.task \in SchedTask
  BY DEF SchedIdle, SchedSlot

LEMMA SchedInitInv == SchedInit => SchedInv
<1> SUFFICES ASSUME SchedInit PROVE SchedInv
  OBVIOUS
<1>1. sched \in [Schedule -> SchedRow]
  BY SchedIdleSlot DEF SchedInit, SchedRow
<1>2. \A s \in Schedule : sched[s].status = "absent" /\ sched[s].attempts = 0
  BY DEF SchedInit
<1>3. \A t \in SchedTask : ActiveOf(t) = {}
  BY <1>2 DEF ActiveOf, SchedActive
<1>4. \A r \in SchedRequest : schedReq[r] = SchedIdle
  BY DEF SchedInit
<1>5. schedReq \in [SchedRequest -> SchedSlot]
  BY SchedIdleSlot DEF SchedInit
<1> QED BY <1>1, <1>2, <1>3, <1>4, <1>5, SchedIdleSlot
        DEF SchedInv, SchedTypeOK, RowsFit, RowFits, SweepsFit, OldFits

\* The slots that hold rows, or an old schedule, and the steps that change them.
LEMMA SlotMoves ==
  ASSUME SchedTypeOK, NEW r \in SchedRequest, NEW slot \in SchedSlot, SchedGoto(r, slot)
  PROVE  /\ schedReq' \in [SchedRequest -> SchedSlot]
         /\ schedReq'[r] = slot
         /\ \A q \in SchedRequest \ {r} : schedReq'[q] = schedReq[q]
  BY DEF SchedTypeOK, SchedGoto

\* One row changes, and with it which schedule of its task is active: the index allows it, the row
\* has not come back from absence, and has not lost its patch.
LEMMA WriteRow ==
  ASSUME SchedInv, NEW s \in Schedule, NEW row \in SchedRow, RowFits(row),
         sched' = [sched EXCEPT ![s] = row],
         row.task = sched[s].task,
         sched[s].status # "absent" => row.status # "absent",
         sched[s].patched => row.patched,
         row.status \in SchedActive /\ sched[s].status \notin SchedActive => IndexAllows(s)
  PROVE  /\ sched' \in [Schedule -> SchedRow]
         /\ \A t \in SchedTask : \A i, j \in ActiveOf(t)' : i = j
         /\ RowsFit'
         /\ \A i \in Schedule : /\ sched[i].status # "absent" => sched'[i].status # "absent"
                                /\ sched[i].patched => sched'[i].patched
<1>1. \A i \in Schedule : sched'[i] = IF i = s THEN row ELSE sched[i]
  BY DEF SchedInv, SchedTypeOK
<1>2. sched' \in [Schedule -> SchedRow]
  BY DEF SchedInv, SchedTypeOK
<1>3. RowsFit'
  BY <1>1 DEF SchedInv, RowsFit
<1>4. ASSUME NEW t \in SchedTask, NEW i \in ActiveOf(t)', NEW j \in ActiveOf(t)' PROVE i = j
  <2>1. /\ i \in Schedule /\ sched'[i].task = t /\ sched'[i].status \in SchedActive
        /\ j \in Schedule /\ sched'[j].task = t /\ sched'[j].status \in SchedActive
    BY <1>4 DEF ActiveOf
  <2>2. CASE i # s /\ j # s
    BY <1>1, <2>1, <2>2 DEF SchedInv, SchedTypeOK, ActiveOf
  <2>3. ASSUME NEW k \in Schedule, k # s, sched'[k].task = t, sched'[k].status \in SchedActive,
               sched'[s].task = t, sched'[s].status \in SchedActive
        PROVE  FALSE
    <3>1. k \in ActiveOf(t) /\ sched[s].task = t
      BY <1>1, <2>3 DEF ActiveOf
    <3>2. CASE sched[s].status \in SchedActive
      BY <2>3, <3>1, <3>2 DEF SchedInv, SchedTypeOK, ActiveOf
    <3>3. CASE sched[s].status \notin SchedActive
      BY <1>1, <2>3, <3>1, <3>3 DEF IndexAllows
    <3> QED BY <3>2, <3>3
  <2> QED BY <2>1, <2>2, <2>3
<1> QED BY <1>1, <1>2, <1>3, <1>4

\* Rows stay and patches stay: what the slots know stays true.
LEMMA SlotsKeep ==
  ASSUME SchedInv,
         sched' \in [Schedule -> SchedRow],
         \A t \in SchedTask : \A i, j \in ActiveOf(t)' : i = j,
         RowsFit',
         \A i \in Schedule : /\ sched[i].status # "absent" => sched'[i].status # "absent"
                             /\ sched[i].patched => sched'[i].patched,
         schedReq' \in [SchedRequest -> SchedSlot],
         \A q \in SchedRequest :
           /\ schedReq'[q].rows \subseteq schedReq[q].rows
           /\ schedReq'[q].pc = "replace" => schedReq'[q] = schedReq[q]
  PROVE  SchedInv'
<1>1. SchedTypeOK'
  BY DEF SchedTypeOK
<1>2. SweepsFit'
  <2> SUFFICES ASSUME NEW r \in SchedRequest, NEW row \in schedReq'[r].rows
               PROVE  /\ sched'[row.id].status # "absent"
                      /\ row.status # "requeued" /\ ~ sched'[row.id].patched => row.attempts = 0
    BY DEF SweepsFit
  <2>1. row \in schedReq[r].rows /\ row.id \in Schedule
    BY DEF SchedInv, SchedTypeOK, SchedSlot, DueRow
  <2> QED BY <2>1 DEF SchedInv, SweepsFit
<1>3. OldFits'
  BY DEF SchedInv, OldFits
<1> QED BY <1>1, <1>2, <1>3 DEF SchedInv

\* A slot that only forgets.
LEMMA Forgets ==
  ASSUME SchedInv, NEW r \in SchedRequest, NEW slot \in SchedSlot, SchedGoto(r, slot),
         slot.rows \subseteq schedReq[r].rows, slot.pc # "replace"
  PROVE  /\ schedReq' \in [SchedRequest -> SchedSlot]
         /\ \A q \in SchedRequest :
              /\ schedReq'[q].rows \subseteq schedReq[q].rows
              /\ schedReq'[q].pc = "replace" => schedReq'[q] = schedReq[q]
  BY SlotMoves DEF SchedInv

\* A step that leaves the rows alone and only forgets.
LEMMA ForgetStep ==
  ASSUME SchedInv, NEW r \in SchedRequest, NEW slot \in SchedSlot, SchedGoto(r, slot),
         slot.rows \subseteq schedReq[r].rows, slot.pc # "replace", UNCHANGED sched
  PROVE  SchedInv'
<1>1. /\ sched' \in [Schedule -> SchedRow] /\ RowsFit'
      /\ \A t \in SchedTask : \A i, j \in ActiveOf(t)' : i = j
  BY DEF SchedInv, SchedTypeOK, ActiveOf, RowsFit
<1> QED BY <1>1, Forgets, SlotsKeep

\* One row is written and no slot moves.
LEMMA SchedWriteStep ==
  ASSUME SchedInv, NEW s \in Schedule, NEW row \in SchedRow, RowFits(row),
         sched' = [sched EXCEPT ![s] = row],
         row.task = sched[s].task,
         sched[s].status # "absent" => row.status # "absent",
         sched[s].patched => row.patched,
         row.status \in SchedActive /\ sched[s].status \notin SchedActive => IndexAllows(s),
         UNCHANGED schedReq
  PROVE  SchedInv'
  BY WriteRow, SlotsKeep DEF SchedInv, SchedTypeOK

-----------------------------------------------------------------------------
LEMMA StartStep ==
  ASSUME SchedInv, NEW r \in SchedRequest, NEW t \in SchedTask, NEW replace \in BOOLEAN,
         ScheduleStart(r, t, replace)
  PROVE  SchedInv'
<1>1. CASE SchedGoto(r, [SchedIdle EXCEPT !.pc = "insert", !.task = t])
  <2>1. /\ [SchedIdle EXCEPT !.pc = "insert", !.task = t] \in SchedSlot
        /\ [SchedIdle EXCEPT !.pc = "insert", !.task = t].rows = {}
        /\ [SchedIdle EXCEPT !.pc = "insert", !.task = t].pc = "insert"
    BY DEF SchedIdle, SchedSlot
  <2> QED BY <1>1, <2>1, ForgetStep DEF ScheduleStart
<1>2. ASSUME NEW s \in ActiveOf(t),
             SchedGoto(r, [SchedIdle EXCEPT !.pc = "replace", !.task = t, !.old = s])
      PROVE  SchedInv'
  <2> DEFINE slot == [SchedIdle EXCEPT !.pc = "replace", !.task = t, !.old = s]
  <2>0. s \in Schedule /\ sched[s].status # "absent"
    BY DEF ActiveOf, SchedActive
  <2>1. slot \in SchedSlot /\ slot.rows = {} /\ slot.old = s
    BY <2>0 DEF SchedIdle, SchedSlot
  <2>2. /\ schedReq' \in [SchedRequest -> SchedSlot] /\ schedReq'[r] = slot
        /\ \A q \in SchedRequest \ {r} : schedReq'[q] = schedReq[q]
    BY <1>2, <2>1, SlotMoves DEF SchedInv
  <2>3. UNCHANGED sched
    BY DEF ScheduleStart
  <2>4. SchedTypeOK' /\ RowsFit'
    BY <2>2, <2>3 DEF SchedInv, SchedTypeOK, RowsFit, ActiveOf
  <2>5. SweepsFit'
    BY <2>1, <2>2, <2>3 DEF SchedInv, SweepsFit
  <2>6. OldFits'
    BY <2>0, <2>1, <2>2, <2>3 DEF SchedInv, OldFits
  <2> QED BY <2>4, <2>5, <2>6 DEF SchedInv
<1> QED BY <1>1, <1>2 DEF ScheduleStart

LEMMA ReplaceStep ==
  ASSUME SchedInv, NEW r \in SchedRequest, ScheduleReplace(r)
  PROVE  SchedInv'
<1>1. PICK s \in Schedule : s = schedReq[r].old /\ sched[s].status # "absent"
  BY DEF ScheduleReplace, SchedInv, OldFits
<1> DEFINE row == [sched[s] EXCEPT !.status = "cancelled"]
<1>2. /\ row \in SchedRow /\ row.task = sched[s].task /\ row.patched = sched[s].patched
      /\ row.status = "cancelled" /\ row.attempts = sched[s].attempts
  BY DEF SchedInv, SchedTypeOK, SchedRow
<1>3. RowFits(row)
  BY <1>1, <1>2 DEF SchedInv, RowsFit, RowFits
<1>4. sched' = [sched EXCEPT ![s] = row]
  BY <1>1 DEF ScheduleReplace
<1> DEFINE slot == [schedReq[r] EXCEPT !.pc = "insert"]
<1>5. slot \in SchedSlot /\ slot.rows = schedReq[r].rows /\ slot.pc = "insert"
  BY DEF SchedInv, SchedTypeOK, SchedSlot
<1>6. SchedGoto(r, slot)
  BY DEF ScheduleReplace
<1> HIDE DEF row, slot
<1>7. row.status \notin SchedActive
  BY <1>2 DEF SchedActive
<1>8. row.status # "absent"
  BY <1>2
<1>9. /\ sched' \in [Schedule -> SchedRow]
      /\ \A t \in SchedTask : \A i, j \in ActiveOf(t)' : i = j
      /\ RowsFit'
      /\ \A i \in Schedule : /\ sched[i].status # "absent" => sched'[i].status # "absent"
                             /\ sched[i].patched => sched'[i].patched
  BY <1>2, <1>3, <1>4, <1>7, <1>8, WriteRow
<1>10. /\ schedReq' \in [SchedRequest -> SchedSlot]
       /\ \A q \in SchedRequest :
            /\ schedReq'[q].rows \subseteq schedReq[q].rows
            /\ schedReq'[q].pc = "replace" => schedReq'[q] = schedReq[q]
  BY <1>5, <1>6, Forgets
<1> QED BY <1>9, <1>10, SlotsKeep

LEMMA SchedInsertStep ==
  ASSUME SchedInv, NEW r \in SchedRequest, NEW s \in Schedule, ScheduleInsert(r, s)
  PROVE  SchedInv'
<1>0. SchedGoto(r, SchedIdle) /\ sched[s].status = "absent" /\ schedReq[r].task \in SchedTask
  BY DEF ScheduleInsert, SchedInv, SchedTypeOK, SchedSlot
<1>1. CASE UNCHANGED sched
  BY <1>0, <1>1, SchedIdleSlot, ForgetStep
<1>2. CASE /\ ActiveOf(schedReq[r].task) = {}
           /\ sched' = [sched EXCEPT ![s] = [status |-> "scheduled", task |-> schedReq[r].task,
                                             due |-> FALSE, attempts |-> 0, patched |-> FALSE]]
  <2> DEFINE row == [status |-> "scheduled", task |-> schedReq[r].task,
                     due |-> FALSE, attempts |-> 0, patched |-> FALSE]
  <2>1. row \in SchedRow /\ RowFits(row)
    BY <1>0 DEF SchedRow, RowFits
  <2>2. \A i \in Schedule : sched'[i] = IF i = s THEN row ELSE sched[i]
    BY <1>2 DEF SchedInv, SchedTypeOK
  <2>3. sched' \in [Schedule -> SchedRow] /\ RowsFit'
    BY <1>2, <2>1, <2>2 DEF SchedInv, SchedTypeOK, RowsFit
  <2>4. ASSUME NEW t \in SchedTask, NEW i \in ActiveOf(t)', NEW j \in ActiveOf(t)' PROVE i = j
    <3>1. /\ i \in Schedule /\ sched'[i].task = t /\ sched'[i].status \in SchedActive
          /\ j \in Schedule /\ sched'[j].task = t /\ sched'[j].status \in SchedActive
      BY <2>4 DEF ActiveOf
    <3>2. CASE t = schedReq[r].task
      BY <1>2, <2>2, <3>1, <3>2 DEF ActiveOf
    <3>3. CASE t # schedReq[r].task
      BY <2>2, <3>1, <3>3 DEF ActiveOf, SchedInv, SchedTypeOK
    <3> QED BY <3>2, <3>3
  <2>5. /\ schedReq' \in [SchedRequest -> SchedSlot]
        /\ \A q \in SchedRequest :
             /\ schedReq'[q].rows \subseteq schedReq[q].rows
             /\ schedReq'[q].pc = "replace" => schedReq'[q] = schedReq[q]
    BY <1>0, SchedIdleSlot, Forgets
  <2>6. SweepsFit'
    <3> SUFFICES ASSUME NEW q \in SchedRequest, NEW due \in schedReq'[q].rows
                 PROVE  /\ sched'[due.id].status # "absent"
                        /\ due.status # "requeued" /\ ~ sched'[due.id].patched => due.attempts = 0
      BY DEF SweepsFit
    <3>1. due \in schedReq[q].rows /\ due.id \in Schedule
      BY <2>5 DEF SchedInv, SchedTypeOK, SchedSlot, DueRow
    <3>2. due.id # s
      BY <1>0, <3>1 DEF SchedInv, SweepsFit
    <3> QED BY <2>2, <3>1, <3>2 DEF SchedInv, SweepsFit
  <2>7. OldFits'
    BY <1>0, <2>2, <2>5 DEF SchedInv, OldFits
  <2> QED BY <2>3, <2>4, <2>5, <2>6, <2>7 DEF SchedInv, SchedTypeOK
<1> QED BY <1>1, <1>2 DEF ScheduleInsert

\* The requests that write one row, and time: an update leaves the status and the attempts as
\* they are, or the row is patched.
LEMMA RowStep ==
  ASSUME SchedInv, NEW s \in Schedule,
         \/ \E status \in SchedActive \union {"cancelled"}, due \in BOOLEAN :
              \E attempts \in GivenAttempts \union {sched[s].attempts} :
                UpdateSchedule(s, status, attempts, due)
         \/ CancelSchedule(s) \/ FallsDue(s)
  PROVE  SchedInv'
<1>0. sched[s] \in SchedRow /\ RowFits(sched[s])
  BY DEF SchedInv, SchedTypeOK, RowsFit
<1>1. ASSUME NEW status \in SchedActive \union {"cancelled"}, NEW due \in BOOLEAN,
             NEW attempts \in GivenAttempts \union {sched[s].attempts},
             UpdateSchedule(s, status, attempts, due)
      PROVE  SchedInv'
  <2> DEFINE patched == \/ sched[s].patched
                        \/ <<status, attempts>> # <<sched[s].status, sched[s].attempts>>
             row == [sched[s] EXCEPT !.status = status, !.attempts = attempts, !.due = due,
                                     !.patched = patched]
  <2>1. /\ row \in SchedRow /\ row.task = sched[s].task /\ row.patched = patched
        /\ row.status = status /\ row.attempts = attempts
    <3>1. attempts \in Int /\ patched \in BOOLEAN
      BY <1>0 DEF SchedRow
    <3> QED BY <1>0, <3>1 DEF SchedRow, SchedActive
  <2>2. sched' = [sched EXCEPT ![s] = row]
    BY <1>1 DEF UpdateSchedule, SchedInv, SchedTypeOK
  <2>3. status # "absent" /\ (status \in SchedActive => IndexAllows(s)) /\ UNCHANGED schedReq
    BY <1>1 DEF UpdateSchedule, SchedActive
  <2>4. sched[s].patched => row.patched
    BY <2>1
  <2>5. RowFits(row)
    BY <1>0, <2>1 DEF RowFits
  <2> HIDE DEF row, patched
  <2> QED BY <2>1, <2>2, <2>3, <2>4, <2>5, SchedWriteStep
<1>2. CASE FallsDue(s)
  <2> DEFINE row == [sched[s] EXCEPT !.due = TRUE]
  <2>1. /\ row \in SchedRow /\ row.task = sched[s].task /\ row.patched = sched[s].patched
        /\ row.status = sched[s].status /\ row.attempts = sched[s].attempts
    BY <1>0 DEF SchedRow
  <2>2. sched' = [sched EXCEPT ![s] = row] /\ UNCHANGED schedReq
    BY <1>2 DEF FallsDue
  <2> HIDE DEF row
  <2> QED BY <1>0, <2>1, <2>2, SchedWriteStep DEF RowFits
<1>3. CASE CancelSchedule(s)
  <2> DEFINE row == [sched[s] EXCEPT !.status = "cancelled"]
  <2>1. /\ row \in SchedRow /\ row.task = sched[s].task /\ row.patched = sched[s].patched
        /\ row.status = "cancelled" /\ row.attempts = sched[s].attempts
    BY <1>0 DEF SchedRow
  <2>2. sched' = [sched EXCEPT ![s] = row] /\ UNCHANGED schedReq
    BY <1>3 DEF CancelSchedule
  <2> HIDE DEF row
  <2>3. RowFits(row) /\ row.status \notin SchedActive
    BY <1>0, <2>1 DEF RowFits, SchedActive
  <2> QED BY <2>1, <2>2, <2>3, SchedWriteStep
<1> QED BY <1>1, <1>2, <1>3

LEMMA CancelForTaskStep ==
  ASSUME SchedInv, NEW t \in SchedTask, CancelForTask(t)
  PROVE  SchedInv'
<1>1. \A s \in Schedule :
        /\ sched'[s] \in SchedRow /\ sched'[s].task = sched[s].task
        /\ sched'[s].patched = sched[s].patched /\ sched'[s].attempts = sched[s].attempts
        /\ sched'[s].status \in {sched[s].status, "cancelled"}
        /\ sched'[s].status # sched[s].status => sched[s].status # "absent"
  BY DEF CancelForTask, SchedInv, SchedTypeOK, SchedRow, ActiveOf, SchedActive
<1>2. sched' \in [Schedule -> SchedRow]
  BY <1>1 DEF CancelForTask
<1>3. RowsFit'
  BY <1>1 DEF SchedInv, RowsFit, RowFits
<1>4. \A u \in SchedTask : ActiveOf(u)' \subseteq ActiveOf(u)
  BY <1>1 DEF ActiveOf, SchedActive
<1>5. \A u \in SchedTask : \A i, j \in ActiveOf(u)' : i = j
  BY <1>4 DEF SchedInv, SchedTypeOK
<1>6. schedReq' = schedReq
  BY DEF CancelForTask
<1> QED BY <1>1, <1>2, <1>3, <1>5, <1>6, SlotsKeep DEF SchedInv, SchedTypeOK

LEMMA SelectStep ==
  ASSUME SchedInv, NEW r \in SchedRequest, RequeueSelect(r)
  PROVE  SchedInv'
<1> DEFINE due == {s \in Schedule : sched[s].due /\ sched[s].status \in SchedActive}
           rows == {[id |-> s, status |-> sched[s].status,
                     attempts |-> sched[s].attempts] : s \in due}
           slot == Rest(r, rows)
<1>1. UNCHANGED sched /\ SchedGoto(r, slot)
  BY DEF RequeueSelect
<1>2. rows \subseteq DueRow
  BY DEF DueRow, SchedInv, SchedTypeOK, SchedRow
<1>3. slot \in SchedSlot /\ slot.rows \subseteq rows /\ slot.pc # "replace"
  BY <1>2 DEF Rest, SchedIdle, SchedSlot
<1>4. /\ schedReq' \in [SchedRequest -> SchedSlot] /\ schedReq'[r] = slot
      /\ \A q \in SchedRequest \ {r} : schedReq'[q] = schedReq[q]
  BY <1>1, <1>3, SlotMoves DEF SchedInv
<1>5. SchedTypeOK' /\ RowsFit'
  BY <1>1, <1>4 DEF SchedInv, SchedTypeOK, RowsFit, ActiveOf
<1>6. \A row \in rows : /\ sched[row.id].status # "absent"
                        /\ row.status # "requeued" /\ ~ sched[row.id].patched => row.attempts = 0
  BY DEF SchedInv, RowsFit, RowFits, SchedActive
<1> HIDE DEF slot, rows
<1>7. SweepsFit'
  BY <1>1, <1>3, <1>4, <1>6 DEF SchedInv, SweepsFit
<1>8. OldFits'
  BY <1>1, <1>3, <1>4 DEF SchedInv, OldFits
<1> QED BY <1>5, <1>7, <1>8 DEF SchedInv

\* What a sweep keeps after a row.
LEMMA RestSlot ==
  ASSUME SchedInv, NEW r \in SchedRequest, NEW row
  PROVE  /\ Rest(r, schedReq[r].rows \ {row}) \in SchedSlot
         /\ Rest(r, schedReq[r].rows \ {row}).rows \subseteq schedReq[r].rows
         /\ Rest(r, schedReq[r].rows \ {row}).pc # "replace"
<1>1. schedReq[r].rows \subseteq DueRow
  BY DEF SchedInv, SchedTypeOK, SchedSlot
<1> QED BY <1>1 DEF Rest, SchedIdle, SchedSlot

LEMMA QueuedRow ==
  ASSUME NEW old \in SchedRow, NEW n \in Int
  PROVE  LET new == [old EXCEPT !.status = "requeued", !.attempts = n] IN
         /\ new \in SchedRow /\ new.task = old.task /\ new.patched = old.patched
         /\ new.status = "requeued" /\ new.attempts = n
  BY DEF SchedRow

LEMMA RequeueStep ==
  ASSUME SchedInv, NEW r \in SchedRequest, NEW row \in schedReq[r].rows,
         RequeueSkip(r, row) \/ RequeueRow(r, row)
  PROVE  SchedInv'
<1>1. CASE RequeueSkip(r, row)
  BY <1>1, RestSlot, ForgetStep DEF RequeueSkip
<1>2. CASE RequeueRow(r, row) /\ ~ IndexAllows(row.id)
  BY <1>2, SchedIdleSlot, ForgetStep DEF RequeueRow
<1>3. CASE RequeueRow(r, row) /\ IndexAllows(row.id)
  <2> DEFINE s == row.id
             new == [sched[s] EXCEPT !.status = "requeued", !.attempts = row.attempts + 1]
             slot == Rest(r, schedReq[r].rows \ {row})
  <2>1. s \in Schedule /\ row.attempts \in Int
    BY DEF SchedInv, SchedTypeOK, SchedSlot, DueRow
  <2>2. /\ sched[s] \in SchedRow /\ RowFits(sched[s]) /\ sched[s].status # "absent"
        /\ ~ sched[s].patched => row.attempts = 0
    BY <1>3, <2>1 DEF RequeueRow, SchedInv, SchedTypeOK, RowsFit, SweepsFit
  <2>3. /\ new \in SchedRow /\ new.task = sched[s].task /\ new.patched = sched[s].patched
        /\ new.status = "requeued" /\ new.attempts = row.attempts + 1
    <3>1. row.attempts + 1 \in Int
      BY <2>1
    <3> QED BY <2>2, <3>1, QueuedRow
  <2>4. RowFits(new)
    BY <2>1, <2>2, <2>3 DEF RowFits
  <2>5. sched' = [sched EXCEPT ![s] = new] /\ SchedGoto(r, slot) /\ IndexAllows(s)
    <3>1. sched' = [sched EXCEPT ![s].status = "requeued", ![s].attempts = row.attempts + 1]
      BY <1>3 DEF RequeueRow
    <3>2. sched' = [sched EXCEPT ![s] = new]
      BY <2>1, <3>1 DEF SchedInv, SchedTypeOK, SchedRow
    <3> QED BY <1>3, <3>2 DEF RequeueRow
  <2> HIDE DEF new, slot, s
  <2>6. /\ sched' \in [Schedule -> SchedRow]
        /\ \A t \in SchedTask : \A i, j \in ActiveOf(t)' : i = j
        /\ RowsFit'
        /\ \A i \in Schedule : /\ sched[i].status # "absent" => sched'[i].status # "absent"
                               /\ sched[i].patched => sched'[i].patched
    BY <2>1, <2>2, <2>3, <2>4, <2>5, WriteRow
  <2>7. /\ schedReq' \in [SchedRequest -> SchedSlot]
        /\ \A q \in SchedRequest :
             /\ schedReq'[q].rows \subseteq schedReq[q].rows
             /\ schedReq'[q].pc = "replace" => schedReq'[q] = schedReq[q]
    BY <2>5, RestSlot, Forgets DEF slot
  <2> QED BY <2>6, <2>7, SlotsKeep
<1> QED BY <1>1, <1>2, <1>3

LEMMA SchedNextInv == SchedInv /\ [SchedNext]_schedVars => SchedInv'
<1> SUFFICES ASSUME SchedInv, [SchedNext]_schedVars PROVE SchedInv'
  OBVIOUS
<1>1. CASE UNCHANGED schedVars
  BY <1>1 DEF schedVars, SchedInv, SchedTypeOK, RowsFit, SweepsFit, OldFits, ActiveOf
<1>2. ASSUME NEW r \in SchedRequest, NEW t \in SchedTask, NEW replace \in BOOLEAN,
             ScheduleStart(r, t, replace)
      PROVE  SchedInv'
  BY <1>2, StartStep
<1>3. ASSUME NEW r \in SchedRequest, ScheduleReplace(r) PROVE SchedInv'
  BY <1>3, ReplaceStep
<1>4. ASSUME NEW r \in SchedRequest, NEW s \in Schedule, ScheduleInsert(r, s) PROVE SchedInv'
  BY <1>4, SchedInsertStep
<1>5. ASSUME NEW r \in SchedRequest, RequeueSelect(r) PROVE SchedInv'
  BY <1>5, SelectStep
<1>6. ASSUME NEW r \in SchedRequest, NEW row \in schedReq[r].rows,
             RequeueSkip(r, row) \/ RequeueRow(r, row)
      PROVE  SchedInv'
  BY <1>6, RequeueStep
<1>7. ASSUME NEW r \in SchedRequest, ScheduleAbort(r) PROVE SchedInv'
  BY <1>7, SchedIdleSlot, ForgetStep DEF ScheduleAbort
<1>8. ASSUME NEW s \in Schedule,
             \/ \E status \in SchedActive \union {"cancelled"}, due \in BOOLEAN :
                  \E attempts \in GivenAttempts \union {sched[s].attempts} :
                    UpdateSchedule(s, status, attempts, due)
             \/ CancelSchedule(s) \/ FallsDue(s)
      PROVE  SchedInv'
  BY <1>8, RowStep
<1>9. ASSUME NEW t \in SchedTask, CancelForTask(t) PROVE SchedInv'
  BY <1>9, CancelForTaskStep
<1> QED BY <1>1, <1>2, <1>3, <1>4, <1>5, <1>6, <1>7, <1>8, <1>9 DEF SchedNext

LEMMA SchedInvariance == SchedSpec => []SchedInv
  BY SchedInitInv, SchedNextInv, PTL DEF SchedSpec

-----------------------------------------------------------------------------
\* Every reachable state is well typed, and no task ever has two active schedules.
THEOREM SchedTypeCorrect == SchedSpec => []SchedTypeOK
<1>1. SchedInv => SchedTypeOK
  BY DEF SchedInv
<1> QED BY <1>1, SchedInvariance, PTL

\* For any number of overlapping sweeps, cancellations and replacements, a schedule that no update
\* request has touched is queued for one attempt at most.
THEOREM OneAttemptHolds == SchedSpec => []OneAttempt
<1>1. SchedInv => OneAttempt
  BY DEF SchedInv, RowsFit, RowFits, OneAttempt
<1> QED BY <1>1, SchedInvariance, PTL

-----------------------------------------------------------------------------
(***************************************************************************)
(* AgentSessions: however creations and updates race, a provider has at    *)
(* most one live session and recovery offers that one; and a session that  *)
(* has ended is not revived by accident.                                   *)
(***************************************************************************)
USE SessionAssumption

Updating(r) == sessionReq[r].pc \in {"clash", "write"}

\* What the unique index keeps.
OneLive == \A p \in Provider : \A i, j \in LiveOf(p) : i = j

\* An update is on a session of the provider it has read; no other request names a session.
TargetOK ==
  \A r \in SessionRequest :
    IF Updating(r)
    THEN /\ sessionReq[r].id \in Session
         /\ sessions[sessionReq[r].id].status # "absent"
         /\ sessions[sessionReq[r].id].provider = sessionReq[r].provider
    ELSE sessionReq[r].id = 0

\* While updates of one session do not overlap, what an update read is still so, and one that
\* names no status writes the one that is there.
ReadIsFresh ==
  ~ sessionsMixed =>
    /\ \A r, q \in SessionRequest :
         Updating(r) /\ sessionReq[r].id = sessionReq[q].id => r = q
    /\ \A r \in SessionRequest :
         Updating(r) /\ ~ sessionReq[r].named
           => sessionReq[r].status = sessions[sessionReq[r].id].status

SessionInv == SessionTypeOK /\ OneLive /\ TargetOK /\ ReadIsFresh

LEMMA AnyProviderIs == AnyProvider \in Provider
  BY DEF AnyProvider

LEMMA SessionIdleSlot == SessionIdle \in SessionSlot
  BY AnyProviderIs DEF SessionIdle, SessionSlot, SessionStatus

LEMMA SessionInitInv == SessionInit => SessionInv
<1> SUFFICES ASSUME SessionInit PROVE SessionInv
  OBVIOUS
<1>1. SessionTypeOK
  BY AnyProviderIs, SessionIdleSlot DEF SessionInit, SessionTypeOK, SessionRow
<1>2. OneLive
  BY DEF SessionInit, OneLive, LiveOf, Live
<1>3. TargetOK /\ ReadIsFresh
  BY DEF SessionInit, TargetOK, ReadIsFresh, Updating, SessionIdle
<1> QED BY <1>1, <1>2, <1>3 DEF SessionInv

-----------------------------------------------------------------------------
\* A step that writes no session and puts a creation, or nothing, in the slot.
LEMMA PlainStep ==
  ASSUME SessionInv, NEW r \in SessionRequest, NEW slot \in SessionSlot,
         slot.pc \notin {"clash", "write"}, slot.id = 0,
         SessionGoto(r, slot), sessions' = sessions, sessionsMixed' = sessionsMixed
  PROVE  SessionInv'
<1>1. sessionReq'[r] = slot /\ \A q \in SessionRequest \ {r} : sessionReq'[q] = sessionReq[q]
  BY DEF SessionGoto, SessionInv, SessionTypeOK
<1>2. SessionTypeOK'
  BY DEF SessionGoto, SessionInv, SessionTypeOK
<1>3. OneLive'
  BY DEF SessionInv, OneLive, LiveOf
<1>4. TargetOK'
  BY <1>1 DEF SessionInv, TargetOK, Updating
<1>5. ReadIsFresh'
  <2>1. 0 \notin Session
    BY DEF Session
  <2> QED BY <1>1, <2>1 DEF SessionInv, TargetOK, ReadIsFresh, Updating
<1> QED BY <1>2, <1>3, <1>4, <1>5 DEF SessionInv

LEMMA ReadStep ==
  ASSUME SessionInv, NEW r \in SessionRequest, NEW s \in Session, NEW status \in SessionStatus,
         NEW named \in BOOLEAN, SessionRead(r, s, named, status)
  PROVE  SessionInv'
<1>0. sessions[s] \in SessionRow /\ sessions[s].status \in SessionStatus
  BY DEF SessionRead, SessionInv, SessionTypeOK, SessionRow
<1>1. PICK pc \in {"clash", "write"}, next \in SessionStatus :
        /\ SessionGoto(r, [pc |-> pc, id |-> s, provider |-> sessions[s].provider,
                           status |-> next, named |-> named])
        /\ ~ named => next = sessions[s].status
  BY <1>0 DEF SessionRead, NextStatus
<1> DEFINE slot == [pc |-> pc, id |-> s, provider |-> sessions[s].provider,
                    status |-> next, named |-> named]
<1>2. slot \in SessionSlot
  BY <1>0 DEF SessionSlot, SessionRow
<1>3. sessionReq'[r] = slot /\ \A q \in SessionRequest \ {r} : sessionReq'[q] = sessionReq[q]
  BY <1>1 DEF SessionGoto, SessionInv, SessionTypeOK
<1>4. /\ sessions' = sessions
      /\ sessionsMixed' = (sessionsMixed \/ \E q \in SessionRequest : sessionReq[q].id = s)
      /\ sessions[s].status # "absent"
  BY DEF SessionRead
<1>5. SessionTypeOK'
  BY <1>1, <1>2, <1>4 DEF SessionGoto, SessionInv, SessionTypeOK
<1>6. OneLive'
  BY <1>4 DEF SessionInv, OneLive, LiveOf
<1>7. TargetOK'
  BY <1>3, <1>4 DEF SessionInv, TargetOK, Updating
<1>8. ReadIsFresh'
  <2> SUFFICES ASSUME ~ sessionsMixed, \A q \in SessionRequest : sessionReq[q].id # s
               PROVE  /\ \A i, j \in SessionRequest :
                           Updating(i)' /\ sessionReq'[i].id = sessionReq'[j].id => i = j
                      /\ \A i \in SessionRequest :
                           Updating(i)' /\ ~ sessionReq'[i].named
                             => sessionReq'[i].status = sessions[sessionReq'[i].id].status
    BY <1>4 DEF ReadIsFresh
  <2>1. sessionReq'[r].id = s /\ sessionReq'[r].named = named /\ sessionReq'[r].status = next
    BY <1>3
  <2>2. \A i, j \in SessionRequest :
          Updating(i)' /\ sessionReq'[i].id = sessionReq'[j].id => i = j
    BY <1>3, <2>1 DEF SessionInv, ReadIsFresh, Updating
  <2>3. \A i \in SessionRequest :
          Updating(i)' /\ ~ sessionReq'[i].named
            => sessionReq'[i].status = sessions[sessionReq'[i].id].status
    BY <1>1, <1>3, <2>1 DEF SessionInv, ReadIsFresh, Updating
  <2> QED BY <2>2, <2>3
<1> QED BY <1>5, <1>6, <1>7, <1>8 DEF SessionInv

LEMMA ClashStep ==
  ASSUME SessionInv, NEW r \in SessionRequest, SessionClash(r)
  PROVE  SessionInv'
<1>1. CASE SessionGoto(r, SessionIdle)
  BY <1>1, SessionIdleSlot, PlainStep DEF SessionClash, SessionIdle
<1>2. CASE SessionGoto(r, [sessionReq[r] EXCEPT !.pc = "write"])
  <2>0. sessionReq[r] \in SessionSlot /\ Updating(r)
    BY DEF SessionInv, SessionTypeOK, SessionClash, SessionAt, Updating
  <2>1. /\ sessionReq'[r] = [sessionReq[r] EXCEPT !.pc = "write"]
        /\ \A q \in SessionRequest \ {r} : sessionReq'[q] = sessionReq[q]
    BY <1>2 DEF SessionGoto, SessionInv, SessionTypeOK
  <2>2. \A q \in SessionRequest :
          /\ Updating(q)' <=> Updating(q)
          /\ sessionReq'[q].id = sessionReq[q].id
          /\ sessionReq'[q].provider = sessionReq[q].provider
          /\ sessionReq'[q].status = sessionReq[q].status
          /\ sessionReq'[q].named = sessionReq[q].named
    BY <2>0, <2>1 DEF Updating, SessionSlot
  <2>3. sessions' = sessions /\ sessionsMixed' = sessionsMixed
    BY DEF SessionClash
  <2>4. SessionTypeOK'
    BY <1>2, <2>0, <2>3 DEF SessionGoto, SessionInv, SessionTypeOK, SessionSlot
  <2> QED BY <2>2, <2>3, <2>4 DEF SessionInv, OneLive, LiveOf, TargetOK, ReadIsFresh
<1> QED BY <1>1, <1>2 DEF SessionClash

\* The write of an insert or an update that the index lets through.
LEMMA SessionWriteStep ==
  ASSUME SessionInv, NEW s \in Session, NEW row \in SessionRow, NEW r \in SessionRequest,
         sessions' = [sessions EXCEPT ![s] = row],
         SessionIndexAllows(row.provider, s, row.status), row.status # "absent",
         sessions[s].status = "absent" \/ sessions[s].provider = row.provider,
         SessionGoto(r, SessionIdle), sessionsMixed' = sessionsMixed,
         ~ sessionsMixed => \A q \in SessionRequest \ {r} : sessionReq[q].id # s
  PROVE  SessionInv'
<1>1. sessionReq'[r] = SessionIdle /\ \A q \in SessionRequest \ {r} : sessionReq'[q] = sessionReq[q]
  BY DEF SessionGoto, SessionInv, SessionTypeOK
<1>2. sessions'[s] = row /\ \A i \in Session \ {s} : sessions'[i] = sessions[i]
  BY DEF SessionInv, SessionTypeOK
<1>3. SessionTypeOK'
  BY SessionIdleSlot DEF SessionGoto, SessionInv, SessionTypeOK
<1>4. OneLive'
  <2> SUFFICES ASSUME NEW p \in Provider, NEW i \in Session, NEW j \in Session,
                      sessions'[i].provider = p, sessions'[i].status \in Live,
                      sessions'[j].provider = p, sessions'[j].status \in Live
               PROVE  i = j
    BY DEF OneLive, LiveOf
  <2>1. \A k \in Session \ {s} :
          sessions'[k].provider = p /\ sessions'[k].status \in Live => k \in LiveOf(p)
    BY <1>2 DEF LiveOf
  <2>2. sessions'[s].provider = p /\ sessions'[s].status \in Live => LiveOf(p) \subseteq {s}
    BY <1>2 DEF SessionIndexAllows
  <2> QED BY <2>1, <2>2 DEF SessionInv, OneLive
<1>5. TargetOK'
  <2> SUFFICES ASSUME NEW q \in SessionRequest
               PROVE  IF Updating(q)'
                      THEN /\ sessionReq'[q].id \in Session
                           /\ sessions'[sessionReq'[q].id].status # "absent"
                           /\ sessions'[sessionReq'[q].id].provider = sessionReq'[q].provider
                      ELSE sessionReq'[q].id = 0
    BY DEF TargetOK
  <2>1. CASE q = r
    BY <1>1, <2>1 DEF Updating, SessionIdle
  <2>2. CASE q # r
    BY <1>1, <1>2, <2>2 DEF SessionInv, TargetOK, Updating
  <2> QED BY <2>1, <2>2
<1>6. ReadIsFresh'
  <2> SUFFICES ASSUME ~ sessionsMixed
               PROVE  /\ \A i, j \in SessionRequest :
                           Updating(i)' /\ sessionReq'[i].id = sessionReq'[j].id => i = j
                      /\ \A i \in SessionRequest :
                           Updating(i)' /\ ~ sessionReq'[i].named
                             => sessionReq'[i].status = sessions'[sessionReq'[i].id].status
    BY DEF ReadIsFresh
  <2>1. ~ Updating(r)' /\ sessionReq'[r].id = 0
    BY <1>1 DEF Updating, SessionIdle
  <2>2. \A q \in SessionRequest \ {r} : Updating(q)' =>
          sessionReq'[q] = sessionReq[q] /\ Updating(q) /\ sessionReq[q].id \in Session \ {s}
    BY <1>1 DEF SessionInv, TargetOK, Updating
  <2>3. 0 \notin Session
    BY DEF Session
  <2>4. \A i, j \in SessionRequest :
          Updating(i)' /\ sessionReq'[i].id = sessionReq'[j].id => i = j
    BY <1>1, <2>1, <2>2, <2>3 DEF SessionInv, ReadIsFresh
  <2>5. \A i \in SessionRequest :
          Updating(i)' /\ ~ sessionReq'[i].named
            => sessionReq'[i].status = sessions'[sessionReq'[i].id].status
    BY <1>2, <2>1, <2>2 DEF SessionInv, ReadIsFresh
  <2> QED BY <2>4, <2>5
<1> QED BY <1>3, <1>4, <1>5, <1>6 DEF SessionInv

LEMMA SessionInsertStep ==
  ASSUME SessionInv, NEW r \in SessionRequest, NEW s \in Session, SessionInsert(r, s)
  PROVE  SessionInv'
<1>1. CASE sessions' = sessions
  BY <1>1, SessionIdleSlot, PlainStep DEF SessionInsert, SessionIdle
<1>2. CASE sessions' # sessions
  <2> DEFINE row == [status |-> sessionReq[r].status, provider |-> sessionReq[r].provider]
  <2>1. row \in SessionRow /\ row.status # "absent"
    BY DEF SessionInv, SessionTypeOK, SessionSlot, SessionRow, SessionStatus
  <2>2. \A q \in SessionRequest : sessionReq[q].id # s
    <3>1. 0 \notin Session /\ sessions[s].status = "absent"
      BY DEF Session, SessionInsert
    <3> QED BY <3>1 DEF SessionInv, TargetOK
  <2>3. /\ sessions' = [sessions EXCEPT ![s] = row]
        /\ SessionIndexAllows(row.provider, s, row.status)
    BY <1>2 DEF SessionInsert
  <2> QED BY <2>1, <2>2, <2>3, SessionWriteStep DEF SessionInsert
<1> QED BY <1>1, <1>2

LEMMA UpdateStep ==
  ASSUME SessionInv, NEW r \in SessionRequest, SessionWrite(r)
  PROVE  SessionInv'
<1>1. CASE sessions' = sessions
  BY <1>1, SessionIdleSlot, PlainStep DEF SessionWrite, SessionIdle
<1>2. CASE sessions' # sessions
  <2>0. Updating(r) /\ sessionReq[r] \in SessionSlot
    BY DEF SessionWrite, SessionAt, Updating, SessionInv, SessionTypeOK
  <2>1. PICK s \in Session : s = sessionReq[r].id
    BY <2>0 DEF SessionInv, TargetOK
  <2>2. sessions[s] \in SessionRow /\ sessions[s].provider = sessionReq[r].provider
    BY <2>0, <2>1 DEF SessionInv, TargetOK, SessionTypeOK
  <2> DEFINE row == [sessions[s] EXCEPT !.status = sessionReq[r].status]
  <2>3. /\ row \in SessionRow /\ row.status # "absent" /\ row.provider = sessionReq[r].provider
        /\ row.status = sessionReq[r].status
    BY <2>0, <2>2 DEF SessionSlot, SessionRow, SessionStatus
  <2>4. sessions' = [sessions EXCEPT ![s] = row] /\ SessionIndexAllows(row.provider, s, row.status)
    BY <1>2, <2>1, <2>3 DEF SessionWrite
  <2>5. ~ sessionsMixed => \A q \in SessionRequest \ {r} : sessionReq[q].id # s
    BY <2>0, <2>1 DEF SessionInv, ReadIsFresh
  <2> QED BY <2>2, <2>3, <2>4, <2>5, SessionWriteStep DEF SessionWrite
<1> QED BY <1>1, <1>2

LEMMA SessionNextInv == SessionInv /\ [SessionNext]_sessionVars => SessionInv'
<1> SUFFICES ASSUME SessionInv, [SessionNext]_sessionVars PROVE SessionInv'
  OBVIOUS
<1>1. CASE UNCHANGED sessionVars
  BY <1>1 DEF sessionVars, SessionInv, SessionTypeOK, OneLive, LiveOf, TargetOK, ReadIsFresh,
               Updating
<1>2. ASSUME NEW r \in SessionRequest, NEW p \in Provider, NEW status \in SessionStatus,
             SessionStart(r, p, status)
      PROVE  SessionInv'
  <2> DEFINE slot == [SessionIdle EXCEPT !.pc = IF status \in Live THEN "check" ELSE "insert",
                                         !.provider = p, !.status = status]
  <2>1. slot \in SessionSlot /\ slot.pc \notin {"clash", "write"} /\ slot.id = 0
    BY DEF SessionIdle, SessionSlot
  <2> QED BY <1>2, <2>1, PlainStep DEF SessionStart
<1>3. ASSUME NEW r \in SessionRequest, SessionCheck(r) PROVE SessionInv'
  <2> DEFINE slot == [sessionReq[r] EXCEPT !.pc = "insert"]
  <2>1. sessionReq[r] \in SessionSlot /\ sessionReq[r].id = 0
    BY <1>3 DEF SessionCheck, SessionAt, SessionInv, SessionTypeOK, TargetOK, Updating
  <2>2. slot \in SessionSlot /\ slot.pc = "insert" /\ slot.id = 0
    BY <2>1 DEF SessionSlot
  <2>3. CASE SessionGoto(r, slot)
    BY <1>3, <2>2, <2>3, PlainStep DEF SessionCheck
  <2>4. CASE SessionGoto(r, SessionIdle)
    BY <1>3, <2>4, SessionIdleSlot, PlainStep DEF SessionCheck, SessionIdle
  <2> QED BY <1>3, <2>3, <2>4 DEF SessionCheck
<1>4. ASSUME NEW r \in SessionRequest, SessionAbort(r) PROVE SessionInv'
  BY <1>4, SessionIdleSlot, PlainStep DEF SessionAbort, SessionIdle
<1> QED
  BY <1>1, <1>2, <1>3, <1>4, ReadStep, ClashStep, SessionInsertStep, UpdateStep DEF SessionNext

LEMMA SessionInvariance == SessionSpec => []SessionInv
  BY SessionInitInv, SessionNextInv, PTL DEF SessionSpec

-----------------------------------------------------------------------------
\* Every reachable state of the sessions and the requests in flight is well typed.
THEOREM SessionTypeCorrect == SessionSpec => []SessionTypeOK
<1>1. SessionInv => SessionTypeOK
  BY DEF SessionInv
<1> QED BY <1>1, SessionInvariance, PTL

\* The live session comes first in the order of the choice, whatever ended sessions are newer.
LEMMA OfferedIsLive ==
  ASSUME SessionInv
  PROVE  RecoveryOffersLive
<1> SUFFICES ASSUME NEW p \in Provider, NEW s \in LiveOf(p)
             PROVE  Offered(p) = LiveOf(p)
  BY DEF RecoveryOffersLive
<1> DEFINE mine == {i \in Session : sessions[i].status # "absent" /\ sessions[i].provider = p}
<1>1. s \in mine /\ LiveOf(p) = {s}
  BY DEF LiveOf, Live, SessionInv, OneLive
<1>2. \A i \in mine \ {s} : sessions[i].status \notin Live
  BY <1>1 DEF LiveOf
<1>3. sessions[s].status \in Live
  BY DEF LiveOf
<1>4. \A i \in mine \ {s} : Before(s, i) /\ ~ Before(i, s)
  BY <1>2, <1>3 DEF Before, Live
<1> QED BY <1>1, <1>4 DEF Offered

\* For any number of sessions and racing requests, a provider's live session is its only one and
\* the one that is offered for recovery.
THEOREM RecoveryOffersLiveHolds == SessionSpec => []RecoveryOffersLive
<1>1. SessionInv => RecoveryOffersLive
  BY OfferedIsLive
<1> QED BY <1>1, SessionInvariance, PTL

\* An update that names no status writes the one that is there, so it revives nothing.
LEMMA RevivalStep ==
  ASSUME SessionInv, [SessionNext]_sessionVars, NEW s \in Session, ~ sessionsMixed,
         sessions[s].status \notin Live \union {"absent"}, sessions'[s].status \in Live
  PROVE  \E r \in SessionRequest : sessionReq[r].id = s /\ sessionReq[r].named
<1>1. sessions'[s] # sessions[s]
  OBVIOUS
<1>2. ASSUME NEW r \in SessionRequest, NEW i \in Session, SessionInsert(r, i) PROVE FALSE
  BY <1>1, <1>2 DEF SessionInsert, SessionInv, SessionTypeOK
<1>3. ASSUME NEW r \in SessionRequest, SessionWrite(r)
      PROVE  sessionReq[r].id = s /\ sessionReq[r].named
  <2>0. Updating(r) /\ sessionReq[r].id \in Session
    BY <1>3 DEF SessionWrite, SessionAt, Updating, SessionInv, TargetOK
  <2>1. sessionReq[r].id = s /\ sessions'[s].status = sessionReq[r].status
    BY <1>1, <1>3, <2>0 DEF SessionWrite, SessionInv, SessionTypeOK, SessionRow
  <2> QED BY <2>0, <2>1 DEF SessionInv, ReadIsFresh
<1> QED
  BY <1>1, <1>2, <1>3
     DEF SessionNext, sessionVars, SessionStart, SessionCheck, SessionClash, SessionRead,
         SessionAbort

\* While updates of one session do not overlap, only an update that names a live status revives a
\* session that has ended.
THEOREM OnlyRevivedByNameHolds == SessionSpec => OnlyRevivedByName
<1>1. SessionInv /\ [SessionNext]_sessionVars =>
        [\A s \in Session :
           (~ sessionsMixed /\ sessions[s].status \notin Live \union {"absent"}
              /\ sessions'[s].status \in Live)
           => \E r \in SessionRequest : sessionReq[r].id = s /\ sessionReq[r].named]_sessionVars
  BY RevivalStep
<1> QED BY <1>1, SessionInvariance, PTL DEF OnlyRevivedByName, SessionSpec

-----------------------------------------------------------------------------
(***************************************************************************)
(* Handoffs: however judgements race, one that no row has overtaken says   *)
(* what the latest rows call for.                                          *)
(***************************************************************************)
\* What has been read so far is still the latest, if no source has changed since.
ReadsLatest ==
  \A r \in HandoffRequest : handoffReq[r].current =>
    LET q == handoffReq[r] IN
    /\ q.pc \in {"resume", "boundary", "write"} => q.seen["memory"] = Latest("memory")
    /\ q.pc \in {"boundary", "write"} => q.seen["resume"] = Latest("resume")
    /\ q.pc = "write" => q.seen["boundary"] = Latest("boundary")

HandoffInv ==
  /\ sources = [s \in Source |-> sources[s]]
  /\ HandoffTypeOK
  /\ ReadsLatest
  /\ VerdictIsCurrent

Seen == {NoRow} \union UNION {SUBSET Provides[s] : s \in Source}

LEMMA LatestSeen ==
  ASSUME HandoffTypeOK, NEW s \in Source
  PROVE  Latest(s) \in Seen
<1>1. sources[s] \in Seq(RowsOf[s]) /\ RowsOf[s] \subseteq SUBSET Provides[s]
  BY SourceAssumption DEF HandoffTypeOK
<1>2. sources[s] # << >> => Latest(s) \in RowsOf[s]
  <2> SUFFICES ASSUME sources[s] # << >> PROVE sources[s][Len(sources[s])] \in RowsOf[s]
    BY DEF Latest
  <2>1. Len(sources[s]) \in Nat /\ Len(sources[s]) # 0
    BY <1>1, LenProperties, EmptySeq
  <2> QED
    BY <1>1, <2>1, ElementOfSeq
<1>3. sources[s] # << >> => Latest(s) \in SUBSET Provides[s]
  BY <1>1, <1>2
<1>4. sources[s] = << >> => Latest(s) = NoRow
  BY DEF Latest
<1> QED
  BY <1>3, <1>4 DEF Seen

LEMMA HandoffIdleSlot ==
  /\ HandoffIdle \in HandoffSlot /\ HandoffIdle.pc = "idle"
  /\ \A h \in Handoff \union {0} :
       LET slot == [HandoffIdle EXCEPT !.pc = "memory", !.id = h]
       IN  slot \in HandoffSlot /\ slot.pc = "memory"
BY DEF HandoffIdle, HandoffSlot

LEMMA HandoffInitInv == HandoffInit => HandoffInv
<1> SUFFICES ASSUME HandoffInit PROVE HandoffInv
  OBVIOUS
<1>1. sources = [s \in Source |-> sources[s]] /\ \A s \in Source : sources[s] \in Seq(RowsOf[s])
  BY EmptySeq DEF HandoffInit
<1>2. handoffs \in [Handoff -> HandoffRow] /\ \A h \in Handoff : handoffs[h].status = "absent"
  BY DEF HandoffInit, HandoffRow, HandoffStatus
<1>3. handoffReq \in [HandoffRequest -> HandoffSlot]
      /\ \A r \in HandoffRequest : handoffReq[r].pc = "idle"
  BY HandoffIdleSlot DEF HandoffInit
<1> QED
  BY <1>1, <1>2, <1>3 DEF HandoffInv, HandoffTypeOK, ReadsLatest, VerdictIsCurrent

\* A request moves, and nothing that is judged changes.
LEMMA HandoffMove ==
  ASSUME HandoffInv, NEW r \in HandoffRequest, NEW slot \in HandoffSlot,
         HandoffGoto(r, slot), UNCHANGED sources, UNCHANGED handoffs,
         slot.current =>
           /\ slot.pc \in {"resume", "boundary", "write"} =>
                slot.seen["memory"] = Latest("memory")
           /\ slot.pc \in {"boundary", "write"} => slot.seen["resume"] = Latest("resume")
           /\ slot.pc = "write" => slot.seen["boundary"] = Latest("boundary")
  PROVE  HandoffInv'
<1>1. \A s : Latest(s)' = Latest(s)
  BY DEF Latest
<1>2. /\ handoffReq' \in [HandoffRequest -> HandoffSlot] /\ handoffReq'[r] = slot
      /\ \A q \in HandoffRequest \ {r} : handoffReq'[q] = handoffReq[q]
  BY DEF HandoffGoto, HandoffInv, HandoffTypeOK
<1>3. ReadsLatest'
  BY <1>1, <1>2 DEF HandoffInv, ReadsLatest
<1>4. VerdictIsCurrent'
  BY <1>1 DEF HandoffInv, VerdictIsCurrent
<1> QED
  BY <1>2, <1>3, <1>4 DEF HandoffInv, HandoffTypeOK

\* A source changes, and no verdict, nor what has been read for one, is current any more.
LEMMA OvertakenStep ==
  ASSUME HandoffInv, NEW s \in Source, NEW rows \in Seq(RowsOf[s]),
         sources' = [sources EXCEPT ![s] = rows], Overtaken
  PROVE  HandoffInv'
<1>1. /\ handoffs' = [h \in Handoff |-> [handoffs[h] EXCEPT !.current = FALSE]]
      /\ handoffReq' = [r \in HandoffRequest |->
                          IF HandoffFree(r) THEN HandoffIdle
                          ELSE [handoffReq[r] EXCEPT !.current = FALSE]]
  BY DEF Overtaken
<1>2. sources' = [t \in Source |-> sources'[t]] /\ \A t \in Source : sources'[t] \in Seq(RowsOf[t])
  <2>1. \A t \in Source : sources'[t] = IF t = s THEN rows ELSE sources[t]
    BY DEF HandoffInv
  <2>2. sources' = [t \in Source |-> sources'[t]]
    BY DEF HandoffInv
  <2> QED
    BY <2>1, <2>2 DEF HandoffInv, HandoffTypeOK
<1>3. handoffs' \in [Handoff -> HandoffRow] /\ \A h \in Handoff : ~ handoffs'[h].current
  BY <1>1 DEF HandoffInv, HandoffTypeOK, HandoffRow
<1>4. /\ handoffReq' \in [HandoffRequest -> HandoffSlot]
      /\ \A r \in HandoffRequest : handoffReq'[r].pc = "idle" \/ ~ handoffReq'[r].current
  <2> SUFFICES ASSUME NEW r \in HandoffRequest
               PROVE  /\ handoffReq'[r] \in HandoffSlot
                      /\ handoffReq'[r].pc = "idle" \/ ~ handoffReq'[r].current
    BY <1>1
  <2>1. CASE HandoffFree(r)
    BY <1>1, <2>1, HandoffIdleSlot
  <2>2. CASE ~ HandoffFree(r)
    <3>1. handoffReq'[r] = [handoffReq[r] EXCEPT !.current = FALSE]
      BY <1>1, <2>2
    <3>2. handoffReq[r] \in HandoffSlot
      BY DEF HandoffInv, HandoffTypeOK
    <3> QED
      BY <3>1, <3>2 DEF HandoffSlot
  <2> QED
    BY <2>1, <2>2
<1>5. ReadsLatest'
  BY <1>4 DEF ReadsLatest
<1>6. VerdictIsCurrent'
  BY <1>3 DEF VerdictIsCurrent
<1> QED
  BY <1>2, <1>3, <1>4, <1>5, <1>6 DEF HandoffInv, HandoffTypeOK

LEMMA SourceStep ==
  ASSUME HandoffInv, NEW s \in Source, NEW row \in RowsOf[s],
         AddSource(s, row) \/ UpdateSource(s, row)
  PROVE  HandoffInv'
<1>0. sources[s] \in Seq(RowsOf[s])
  BY DEF HandoffInv, HandoffTypeOK
<1>1. CASE AddSource(s, row)
  <2>1. Append(sources[s], row) \in Seq(RowsOf[s])
    BY <1>0, AppendProperties
  <2>2. sources' = [sources EXCEPT ![s] = Append(sources[s], row)] /\ Overtaken
    BY <1>1 DEF AddSource
  <2> QED
    BY <2>1, <2>2, OvertakenStep
<1>2. CASE UpdateSource(s, row)
  <2> DEFINE rows == [sources[s] EXCEPT ![Len(sources[s])] = row]
  <2>1. rows \in Seq(RowsOf[s])
    BY <1>0, ExceptSeq
  <2>2. sources' = [sources EXCEPT ![s] = rows] /\ Overtaken
    BY <1>2 DEF UpdateSource
  <2> HIDE DEF rows
  <2> QED
    BY <2>1, <2>2, OvertakenStep
<1> QED
  BY <1>1, <1>2

LEMMA HandoffReadStep ==
  ASSUME HandoffInv, NEW r \in HandoffRequest, NEW s \in Source, HandoffRead(r, s)
  PROVE  HandoffInv'
<1> DEFINE old == handoffReq[r]
           slot == [old EXCEPT !.pc = After[s], !.seen[s] = Latest(s)]
<1>1. old.pc = s /\ HandoffGoto(r, slot) /\ UNCHANGED sources /\ UNCHANGED handoffs
  BY DEF HandoffRead
<1>2. old \in HandoffSlot /\ Latest(s) \in Seen /\ old.seen \in [Source -> Seen]
  BY LatestSeen DEF HandoffInv, HandoffTypeOK, HandoffSlot, Seen
<1>3. /\ slot.pc = After[s] /\ slot.current = old.current
      /\ slot.seen = [old.seen EXCEPT ![s] = Latest(s)]
      /\ slot \in HandoffSlot
  <2>1. After[s] \in {"resume", "boundary", "write"}
    BY DEF After, Source
  <2>2. [old.seen EXCEPT ![s] = Latest(s)] \in [Source -> Seen]
    BY <1>2
  <2> QED
    BY <1>2, <2>1, <2>2 DEF HandoffSlot, Seen
<1>4. \A t \in Source : slot.seen[t] = IF t = s THEN Latest(s) ELSE old.seen[t]
  BY <1>2, <1>3
<1>5. /\ s = "memory" => After[s] = "resume"
      /\ s = "resume" => After[s] = "boundary"
      /\ s = "boundary" => After[s] = "write"
      /\ s \in {"memory", "resume", "boundary"}
      /\ {"memory", "resume", "boundary"} \subseteq Source
  BY DEF After, Source
<1>6. old.current =>
        /\ s \in {"resume", "boundary"} => old.seen["memory"] = Latest("memory")
        /\ s = "boundary" => old.seen["resume"] = Latest("resume")
  BY <1>1 DEF HandoffInv, ReadsLatest
<1> HIDE DEF slot, old
<1>7. slot.current =>
        /\ slot.pc \in {"resume", "boundary", "write"} => slot.seen["memory"] = Latest("memory")
        /\ slot.pc \in {"boundary", "write"} => slot.seen["resume"] = Latest("resume")
        /\ slot.pc = "write" => slot.seen["boundary"] = Latest("boundary")
  BY <1>3, <1>4, <1>5, <1>6
<1> QED
  BY <1>1, <1>3, <1>7, HandoffMove

LEMMA HandoffWriteStep ==
  ASSUME HandoffInv, NEW r \in HandoffRequest, NEW h \in Handoff, HandoffWrite(r, h)
  PROVE  HandoffInv'
<1> DEFINE row == [status |-> Judgement(handoffReq[r].seen), current |-> handoffReq[r].current,
                   settled |-> FALSE]
<1>1. /\ handoffReq[r].pc = "write" /\ handoffs' = [handoffs EXCEPT ![h] = row]
      /\ HandoffGoto(r, HandoffIdle) /\ UNCHANGED sources
  BY DEF HandoffWrite
<1>2. row \in HandoffRow
  BY DEF HandoffInv, HandoffTypeOK, HandoffSlot, HandoffRow, HandoffStatus, Judgement
<1>3. \A s : Latest(s)' = Latest(s)
  BY <1>1 DEF Latest
<1>4. /\ handoffReq' \in [HandoffRequest -> HandoffSlot] /\ handoffReq'[r].pc = "idle"
      /\ \A q \in HandoffRequest \ {r} : handoffReq'[q] = handoffReq[q]
  BY <1>1, HandoffIdleSlot DEF HandoffGoto, HandoffInv, HandoffTypeOK
<1>5. row.current =>
        (row.status = "ready") =
          (Missing(Latest("memory"), Latest("resume"), Latest("boundary")) = {})
  BY <1>1 DEF HandoffInv, ReadsLatest, Judgement
<1> HIDE DEF row
<1>6. /\ handoffs' \in [Handoff -> HandoffRow] /\ handoffs'[h] = row
      /\ \A i \in Handoff \ {h} : handoffs'[i] = handoffs[i]
  BY <1>1, <1>2 DEF HandoffInv, HandoffTypeOK
<1>7. ReadsLatest'
  BY <1>3, <1>4 DEF HandoffInv, ReadsLatest
<1>8. VerdictIsCurrent'
  BY <1>3, <1>5, <1>6 DEF HandoffInv, VerdictIsCurrent
<1> QED
  BY <1>1, <1>4, <1>6, <1>7, <1>8 DEF HandoffInv, HandoffTypeOK

LEMMA UpdateHandoffStep ==
  ASSUME HandoffInv, NEW h \in Handoff, NEW status \in HandoffStatus, UpdateHandoff(h, status)
  PROVE  HandoffInv'
<1> DEFINE row == [handoffs[h] EXCEPT !.status = status, !.settled = TRUE]
<1>1. handoffs' = [handoffs EXCEPT ![h] = row] /\ UNCHANGED sources /\ UNCHANGED handoffReq
  BY DEF UpdateHandoff, HandoffInv, HandoffTypeOK
<1>2. row \in HandoffRow /\ row.settled
  BY DEF HandoffInv, HandoffTypeOK, HandoffRow
<1> HIDE DEF row
<1>3. \A s : Latest(s)' = Latest(s)
  BY <1>1 DEF Latest
<1>4. VerdictIsCurrent'
  BY <1>1, <1>2, <1>3 DEF HandoffInv, HandoffTypeOK, VerdictIsCurrent
<1>5. ReadsLatest'
  BY <1>1, <1>3 DEF HandoffInv, ReadsLatest
<1> QED
  BY <1>1, <1>2, <1>4, <1>5 DEF HandoffInv, HandoffTypeOK

LEMMA HandoffNextInv == HandoffInv /\ [HandoffNext]_handoffVars => HandoffInv'
<1> SUFFICES ASSUME HandoffInv, [HandoffNext]_handoffVars PROVE HandoffInv'
  OBVIOUS
<1>1. CASE UNCHANGED handoffVars
  BY <1>1 DEF handoffVars, HandoffInv, HandoffTypeOK, ReadsLatest, VerdictIsCurrent, Latest
<1>2. ASSUME NEW r \in HandoffRequest, NEW h \in Handoff \union {0}, HandoffStart(r, h)
      PROVE  HandoffInv'
  <2> DEFINE slot == [HandoffIdle EXCEPT !.pc = "memory", !.id = h]
  <2>1. HandoffGoto(r, slot) /\ UNCHANGED sources /\ UNCHANGED handoffs
    BY <1>2 DEF HandoffStart
  <2>2. slot \in HandoffSlot /\ slot.pc = "memory"
    BY HandoffIdleSlot
  <2> HIDE DEF slot
  <2> QED
    BY <2>1, <2>2, HandoffMove
<1>3. ASSUME NEW r \in HandoffRequest, HandoffAbort(r) PROVE HandoffInv'
  BY <1>3, HandoffIdleSlot, HandoffMove DEF HandoffAbort
<1> QED
  BY <1>1, <1>2, <1>3, SourceStep, HandoffReadStep, HandoffWriteStep, UpdateHandoffStep
     DEF HandoffNext

\* A handoff that was judged after the last new row of its sources, and that no operator has
\* set since, is ready exactly if the latest rows leave nothing out.
THEOREM VerdictIsCurrentHolds == HandoffSpec => []VerdictIsCurrent
<1>1. HandoffInv => VerdictIsCurrent
  BY DEF HandoffInv
<1> QED
  BY <1>1, HandoffInitInv, HandoffNextInv, PTL DEF HandoffSpec
=============================================================================
