-------------------------- MODULE ResumeSchedules --------------------------
(***************************************************************************)
(* The resume schedules of the resume engine (packages/agents/src/         *)
(* resume.ts): a task is queued again when its schedule falls due.  A      *)
(* schedule is created, replaced, changed and cancelled by requests;       *)
(* autoRequeueReadySchedules selects what is due and then writes the rows  *)
(* one by one, WHERE id only, each from what it read at the start.  The    *)
(* unique index keeps one active schedule per task; a write that would     *)
(* break it fails and takes its request with it.                           *)
(*                                                                         *)
(* queue_status, read by nothing but list filters, is left out.            *)
(***************************************************************************)
EXTENDS Integers

CONSTANTS
  NumSchedules,  \* rows ever inserted (a bound of the model)
  MaxUpdated,    \* attempts after which no update makes a row wait again (a bound)
  GivenAttempts, \* the counts of attempts an update may give: the code takes any number
  SchedTask,     \* tasks
  SchedRequest   \* slots for creations and sweeps in flight

ASSUME ScheduleAssumption ==
  /\ NumSchedules \in Nat /\ MaxUpdated \in Nat
  /\ GivenAttempts \subseteq Int
  /\ SchedTask # {}

VARIABLES
  sched,     \* resume_schedules: a row per id
  schedReq   \* the creations and sweeps in flight

schedVars == <<sched, schedReq>>

Schedule == 1..NumSchedules

\* patched: an update request has changed its status or its attempts, a history variable.
SchedRow == [status: {"absent", "scheduled", "ready", "requeued", "cancelled"},
             task: SchedTask, due: BOOLEAN, attempts: Int, patched: BOOLEAN]

SchedActive == {"scheduled", "ready", "requeued"}

\* What a sweep keeps of a row it selected.
DueRow == [id: Schedule, status: SchedActive, attempts: Int]

SchedIdle == [pc |-> "idle", task |-> CHOOSE t \in SchedTask : TRUE, old |-> 0, rows |-> {}]

SchedSlot == [pc: {"idle", "replace", "insert", "sweep"}, task: SchedTask,
              old: Schedule \union {0}, rows: SUBSET DueRow]

ActiveOf(t) == {s \in Schedule : sched[s].task = t /\ sched[s].status \in SchedActive}

\* The index holds whatever the requests do.
SchedTypeOK ==
  /\ sched \in [Schedule -> SchedRow]
  /\ schedReq \in [SchedRequest -> SchedSlot]
  /\ \A t \in SchedTask : \A r, s \in ActiveOf(t) : r = s

SchedInit ==
  /\ sched = [s \in Schedule |-> [status |-> "absent", task |-> SchedIdle.task, due |-> FALSE,
                                  attempts |-> 0, patched |-> FALSE]]
  /\ schedReq = [r \in SchedRequest |-> SchedIdle]

-----------------------------------------------------------------------------
SchedFree(r) == schedReq[r].pc = "idle"

SchedGoto(r, slot) == schedReq' = [schedReq EXCEPT ![r] = slot]

\* The unique index lets schedule s become active.
IndexAllows(s) == ActiveOf(sched[s].task) \subseteq {s}

\* createResumeSchedule looks for an active schedule, after its input is validated: there is
\* none, or one to be replaced; one that is not to be is a conflict, and the request ends.
ScheduleStart(r, t, replace) ==
  /\ SchedFree(r)
  /\ \/ /\ ActiveOf(t) = {}
        /\ SchedGoto(r, [SchedIdle EXCEPT !.pc = "insert", !.task = t])
     \/ /\ replace
        /\ \E s \in ActiveOf(t) :
             SchedGoto(r, [SchedIdle EXCEPT !.pc = "replace", !.task = t, !.old = s])
  /\ UNCHANGED sched

ScheduleReplace(r) ==
  /\ schedReq[r].pc = "replace"
  /\ sched' = [sched EXCEPT ![schedReq[r].old].status = "cancelled"]
  /\ SchedGoto(r, [schedReq[r] EXCEPT !.pc = "insert"])

\* The insert, at least five minutes before it is due; the index may refuse it.
ScheduleInsert(r, s) ==
  /\ schedReq[r].pc = "insert"
  /\ sched[s].status = "absent" /\ \A i \in 1..(s - 1) : sched[i].status # "absent"
  /\ sched' = IF ActiveOf(schedReq[r].task) = {}
              THEN [sched EXCEPT ![s] = [status |-> "scheduled", task |-> schedReq[r].task,
                                         due |-> FALSE, attempts |-> 0, patched |-> FALSE]]
              ELSE sched
  /\ SchedGoto(r, SchedIdle)

\* updateResumeSchedule: one statement sets what the body gives of status, attempts and
\* resume_at, which may be to come or past; what it does not give stays.  The row read first
\* only serves the scope check.
UpdateSchedule(s, status, attempts, due) ==
  /\ sched[s].status # "absent"
  /\ status \in SchedActive => IndexAllows(s)
  /\ status \in {"scheduled", "ready"} => attempts <= MaxUpdated
  /\ LET changed == <<status, attempts>> # <<sched[s].status, sched[s].attempts>>
     IN  sched' = [sched EXCEPT ![s].status = status, ![s].attempts = attempts, ![s].due = due,
                                ![s].patched = @ \/ changed]
  /\ UNCHANGED schedReq

CancelSchedule(s) ==
  /\ sched[s].status # "absent"
  /\ sched' = [sched EXCEPT ![s].status = "cancelled"]
  /\ UNCHANGED schedReq

\* transitionTask to paused, cancelled, completed or failed.
CancelForTask(t) ==
  /\ ActiveOf(t) # {}
  /\ sched' = [s \in Schedule |-> IF s \in ActiveOf(t) THEN [sched[s] EXCEPT !.status = "cancelled"]
                                  ELSE sched[s]]
  /\ UNCHANGED schedReq

\* resume_at <= NOW()
FallsDue(s) ==
  /\ sched[s].status # "absent" /\ ~ sched[s].due
  /\ sched' = [sched EXCEPT ![s].due = TRUE]
  /\ UNCHANGED schedReq

Rest(r, rows) ==
  IF rows = {} THEN SchedIdle ELSE [SchedIdle EXCEPT !.pc = "sweep", !.rows = rows]

\* autoRequeueReadySchedules selects the active rows that are due ...
RequeueSelect(r) ==
  /\ SchedFree(r)
  /\ LET due == {s \in Schedule : sched[s].due /\ sched[s].status \in SchedActive}
         read(s) == [id |-> s, status |-> sched[s].status, attempts |-> sched[s].attempts]
     IN  due # {} /\ SchedGoto(r, Rest(r, {read(s) : s \in due}))
  /\ UNCHANGED sched

\* Slip: a row that was queued already is queued once more.
RequeueSkip_Never(r, row) ==
  /\ row \in schedReq[r].rows
  /\ row.status = "requeued"
  /\ IndexAllows(row.id)
  /\ sched' = [sched EXCEPT ![row.id].status = "requeued", ![row.id].attempts = row.attempts + 1]
  /\ SchedGoto(r, Rest(r, schedReq[r].rows \ {row}))

\* ... passes over one that was queued already ...
RequeueSkip(r, row) ==
  /\ row \in schedReq[r].rows
  /\ row.status = "requeued"
  /\ SchedGoto(r, Rest(r, schedReq[r].rows \ {row}))
  /\ UNCHANGED sched

\* ... and queues the others, whatever they are by now; when the index refuses, for a
\* schedule that was replaced in between, the sweep ends there.
RequeueRow(r, row) ==
  /\ row \in schedReq[r].rows
  /\ row.status # "requeued"
  /\ IF IndexAllows(row.id)
     THEN /\ sched' = [sched EXCEPT ![row.id].status = "requeued",
                                    ![row.id].attempts = row.attempts + 1]
          /\ SchedGoto(r, Rest(r, schedReq[r].rows \ {row}))
     ELSE SchedGoto(r, SchedIdle) /\ UNCHANGED sched

\* A statement fails, or the process dies.
ScheduleAbort(r) ==
  /\ ~ SchedFree(r)
  /\ SchedGoto(r, SchedIdle)
  /\ UNCHANGED sched

SchedNext ==
  \/ \E r \in SchedRequest :
       \/ \E t \in SchedTask, replace \in BOOLEAN : ScheduleStart(r, t, replace)
       \/ ScheduleReplace(r)
       \/ \E s \in Schedule : ScheduleInsert(r, s)
       \/ RequeueSelect(r)
       \/ \E row \in schedReq[r].rows : RequeueSkip(r, row) \/ RequeueRow(r, row)
       \/ ScheduleAbort(r)
  \/ \E s \in Schedule :
       \/ \E status \in SchedActive \union {"cancelled"}, due \in BOOLEAN :
            \E attempts \in GivenAttempts \union {sched[s].attempts} :
              UpdateSchedule(s, status, attempts, due)
       \/ CancelSchedule(s) \/ FallsDue(s)
  \/ \E t \in SchedTask : CancelForTask(t)

SchedSpec == SchedInit /\ [][SchedNext]_schedVars

-----------------------------------------------------------------------------
(* Properties *)

\* "to satisfy idempotency": however many sweeps overlap, and whatever is cancelled and
\* replaced meanwhile, a schedule is queued for one attempt, unless an update request has set
\* its status (it may wait again) or its attempts.
OneAttempt == \A s \in Schedule : ~ sched[s].patched => sched[s].attempts <= 1
=============================================================================
