--------------------------- MODULE TaskLifecycle ---------------------------
(***************************************************************************)
(* TaskLifecycleService (apps/api/src/TaskLifecycleService.ts): the status *)
(* of one task and its history, with the routes that write the status and  *)
(* the connection pool their statements go through.                        *)
(*                                                                         *)
(* BEGIN, the updates and COMMIT are each a pool.query of their own.  The  *)
(* pool (pg, with its defaults) hands a statement the idle connection that *)
(* was returned last, so a request keeps its connection from statement to  *)
(* statement; but when all connections are in use, one that is returned    *)
(* goes to the request that has waited longest, and the rest of a block    *)
(* runs wherever its turn comes.  A connection outside a transaction       *)
(* commits each statement; one inside keeps what is written on it, whoever *)
(* wrote it, until somebody's COMMIT or ROLLBACK lands on it.  One on      *)
(* which a statement failed is closed, and so is one idle for ten seconds. *)
(* An UPDATE of the task waits for a transaction on another connection     *)
(* that has updated it.                                                    *)
(*                                                                         *)
(* Audit records are left out; the resume schedules a transition cancels   *)
(* are in ResumeSchedules.  starved, overlapped and overridden are history *)
(* variables.                                                              *)
(***************************************************************************)
EXTENDS Naturals, Sequences

CONSTANTS
  Client,       \* connections of the pool (ten in the code)
  TaskRequest,  \* requests, each made once at most: the bound of the model
  FirstStatus,  \* the statuses createTask is given
  Asked,        \* the actions asked for by a transition request,
  Forced,       \* by one with an administrator's override,
  Patched,      \* and the statuses a PATCH brings (bounds of the model, all of them)
  None          \* no connection, nothing written

VARIABLES
  status,      \* the committed status of the task
  history,     \* the committed rows of task_status_history
  idle,        \* the pool's idle connections, a stack
  queue,       \* requests that wait for a connection
  tx,          \* the transaction of each connection
  taskReq,     \* the requests
  answered,    \* requests whose transition was answered as done
  starved,     \* a request has had to wait for a connection
  overlapped,  \* two requests have been in flight at once
  overridden   \* an administrator's override has been used

pool == <<idle, queue, tx>>

flags == <<starved, overlapped, overridden>>

taskVars == <<status, history, pool, taskReq, answered, flags>>

\* What stands for a status that is none: "" or 0 or false.  Only a PATCH writes one.
Blank == ""

TaskStatus == {"pending", "running", "paused", "completed", "failed", "cancelled", "archived",
               Blank}

Action == {"start", "pause", "resume", "complete", "fail", "retry", "cancel", "archive"}

\* ACTION_TO_STATUS
Produces ==
  [a \in Action |->
     CASE a \in {"start", "resume"} -> "running"
       [] a = "pause" -> "paused"
       [] a = "complete" -> "completed"
       [] a = "fail" -> "failed"
       [] a = "retry" -> "pending"
       [] a = "cancel" -> "cancelled"
       [] a = "archive" -> "archived"]

\* STATUS_ALLOWED_ACTIONS
Allowed ==
  [s \in TaskStatus |->
     CASE s = "pending" -> {"start", "cancel"}
       [] s = "running" -> {"pause", "complete", "fail", "cancel"}
       [] s = "paused" -> {"resume", "cancel"}
       [] s = "failed" -> {"retry", "cancel", "archive"}
       [] s \in {"completed", "cancelled"} -> {"archive"}
       [] s \in {"archived", Blank} -> {}]

\* The action by which the PATCH route asks for a status.
PatchAction ==
  [s \in TaskStatus |->
     CASE s = "paused" -> "pause"
       [] s = "completed" -> "complete"
       [] s = "failed" -> "fail"
       [] s = "cancelled" -> "cancel"
       [] s = "archived" -> "archive"
       [] OTHER -> "start"]

ASSUME TaskAssumption ==
  /\ FirstStatus \subseteq TaskStatus
  /\ Asked \subseteq Action /\ Forced \subseteq Action
  /\ Patched \subseteq TaskStatus \ {"pending"}   \* no action the route asks has that target
  /\ None \notin Client /\ None \notin TaskStatus

HistoryRow == [by: TaskRequest, from: TaskStatus, to: TaskStatus]

NoTx == [open |-> FALSE, status |-> None, rows |-> << >>]

Transaction == [open: BOOLEAN, status: TaskStatus \union {None}, rows: Seq(HistoryRow)]

TaskNew == [pc |-> "new", on |-> None, action |-> "start", override |-> FALSE,
            from |-> "pending", to |-> "pending", rewrite |-> FALSE]

\* on: the connection the statement runs on.  rewrite: the route writes the status once
\* more when the transition is done.
TaskSlot == [pc: {"new", "look", "validate", "begin", "update", "history", "commit",
                  "rollback", "rewrite", "over"},
             on: Client \union {None}, action: Action, override: BOOLEAN,
             from: TaskStatus, to: TaskStatus, rewrite: BOOLEAN]

InFlight == {r \in TaskRequest : taskReq[r].pc \notin {"new", "over"}}

Served == {r \in TaskRequest : taskReq[r].on # None}

Busy == {taskReq[r].on : r \in Served}

IdleClients == {idle[i] : i \in 1..Len(idle)}

\* A request in flight has a connection or waits for one, and no connection is with two.
TaskTypeOK ==
  /\ status \in TaskStatus
  /\ history \in Seq(HistoryRow)
  /\ idle \in Seq(Client)
  /\ queue \in Seq(TaskRequest)
  /\ tx \in [Client -> Transaction]
  /\ taskReq \in [TaskRequest -> TaskSlot]
  /\ answered \subseteq TaskRequest
  /\ starved \in BOOLEAN /\ overlapped \in BOOLEAN /\ overridden \in BOOLEAN
  /\ Busy \intersect IdleClients = {}
  /\ Served \subseteq InFlight
  /\ {queue[i] : i \in 1..Len(queue)} = InFlight \ Served
  /\ \A c \in Client : tx[c].open => c \in Busy \union IdleClients

TaskInit ==
  /\ status \in FirstStatus
  /\ history = << >>
  /\ idle = << >>
  /\ queue = << >>
  /\ tx = [c \in Client |-> NoTx]
  /\ taskReq = [r \in TaskRequest |-> TaskNew]
  /\ answered = {}
  /\ starved = FALSE /\ overlapped = FALSE /\ overridden = FALSE

-----------------------------------------------------------------------------
(* The pool *)

\* The connections the other requests use: one on which a statement of r failed is closed.
InUse(r) == {taskReq[s].on : s \in Served \ {r}}

\* Request r, with the contents of slot, issues a statement: on the idle connection
\* returned last, on a new one, or, with all in use, when its turn comes.
Issue(r, slot) ==
  IF idle # << >>
  THEN /\ taskReq' = [taskReq EXCEPT ![r] = [slot EXCEPT !.on = idle[Len(idle)]]]
       /\ idle' = SubSeq(idle, 1, Len(idle) - 1)
       /\ UNCHANGED <<queue, starved>>
  ELSE /\ UNCHANGED idle
       /\ IF Client \ InUse(r) # {}
          THEN /\ \E c \in Client \ InUse(r) :
                    taskReq' = [taskReq EXCEPT ![r] = [slot EXCEPT !.on = c]]
               /\ UNCHANGED <<queue, starved>>
          ELSE /\ taskReq' = [taskReq EXCEPT ![r] = [slot EXCEPT !.on = None]]
               /\ queue' = Append(queue, r)
               /\ starved' = TRUE

\* Slip: a request that ends keeps its connection.
Return_Kept(r, c, slot) ==
  /\ taskReq' = [taskReq EXCEPT ![r] = [slot EXCEPT !.on = c]]
  /\ UNCHANGED <<queue, starved, idle>>

\* A statement of request r has ended on connection c, which is returned.
Return(r, c, slot) ==
  IF queue = << >>
  THEN /\ UNCHANGED <<queue, starved>>
       /\ IF slot.pc = "over"
          THEN /\ taskReq' = [taskReq EXCEPT ![r] = [slot EXCEPT !.on = None]]
               /\ idle' = Append(idle, c)
          ELSE taskReq' = [taskReq EXCEPT ![r] = [slot EXCEPT !.on = c]] /\ UNCHANGED idle
  ELSE /\ taskReq' = [taskReq EXCEPT ![r] = [slot EXCEPT !.on = None],
                                     ![Head(queue)].on = c]
       /\ queue' = IF slot.pc = "over" THEN Tail(queue) ELSE Append(Tail(queue), r)
       /\ UNCHANGED <<idle, starved>>

TaskAt(r, pc, c) == taskReq[r].pc = pc /\ taskReq[r].on = c

Goto(pc, r) == [taskReq[r] EXCEPT !.pc = pc]

\* Another connection's open transaction holds the task's row.
RowLocked(c) == \E d \in Client \ {c} : tx[d].status # None

\* The status as connection c sees it.
Seen(c) == IF tx[c].status # None THEN tx[c].status ELSE status

WriteStatus(c, s) ==
  /\ ~ RowLocked(c)
  /\ IF tx[c].open THEN tx' = [tx EXCEPT ![c].status = s] /\ UNCHANGED status
     ELSE status' = s /\ UNCHANGED tx

WriteRow(c, row) ==
  IF tx[c].open THEN tx' = [tx EXCEPT ![c].rows = Append(@, row)] /\ UNCHANGED history
  ELSE history' = Append(history, row) /\ UNCHANGED tx

CommitOn(c) ==
  /\ tx' = [tx EXCEPT ![c] = NoTx]
  /\ status' = Seen(c) /\ history' = history \o tx[c].rows

\* Slip: connections stay open however long they are idle.
CloseIdle_Never(i) == FALSE

\* Ten seconds without use; what was open on the connection is rolled back.
CloseIdle(i) ==
  /\ tx' = [tx EXCEPT ![idle[i]] = NoTx]
  /\ idle' = SubSeq(idle, 1, i - 1) \o SubSeq(idle, i + 1, Len(idle))
  /\ UNCHANGED <<status, history, queue, taskReq, answered, flags>>

-----------------------------------------------------------------------------
(* The requests *)

StartRequest(r, slot) ==
  /\ taskReq[r].pc = "new"
  /\ Issue(r, slot)
  /\ overlapped' = (overlapped \/ InFlight # {})
  /\ overridden' = (overridden \/ slot.override)
  /\ UNCHANGED <<status, history, tx, answered>>

\* POST projects/:id/tasks/:taskId/transition.  The target a request names has to be the
\* action's own, unless it is an override.
TransitionStart(r, a, to, override) ==
  StartRequest(r, [TaskNew EXCEPT !.pc = "validate", !.action = a, !.to = to,
                                  !.override = override])

\* POST projects/:id/tasks/:taskId/pause: the transition, then pauseTask of the resume
\* engine, which writes the status once more.
PauseStart(r) ==
  StartRequest(r, [TaskNew EXCEPT !.pc = "validate", !.action = "pause", !.to = "paused",
                                  !.rewrite = TRUE])

\* PATCH projects/:projectId/tasks/:taskId with a status in its body.
PatchStart(r, s) ==
  StartRequest(r, [TaskNew EXCEPT !.pc = "look", !.action = PatchAction[s], !.to = s,
                                  !.rewrite = TRUE])

\* The route's own read: no transition is asked for a status that is there already or is
\* none; it is only written.
PatchLook(r, c) ==
  /\ TaskAt(r, "look", c)
  /\ Return(r, c, Goto(IF taskReq[r].to \in {Seen(c), Blank} THEN "rewrite" ELSE "validate", r))
  /\ UNCHANGED <<status, history, tx, answered, overlapped, overridden>>

\* Slip: the status is not compared with the action.
Valid_Always(a, s, override) == TRUE

Valid(a, s, override) == override \/ a \in Allowed[s]

\* validateTransition; an illegal transition is refused and the request ends.
Validate(r, c) ==
  /\ TaskAt(r, "validate", c)
  /\ Return(r, c, IF Valid(taskReq[r].action, Seen(c), taskReq[r].override)
                  THEN [taskReq[r] EXCEPT !.pc = "begin", !.from = Seen(c)]
                  ELSE Goto("over", r))
  /\ UNCHANGED <<status, history, tx, answered, overlapped, overridden>>

\* BEGIN inside a transaction changes nothing.
BeginTx(r, c) ==
  /\ TaskAt(r, "begin", c)
  /\ tx' = [tx EXCEPT ![c].open = TRUE]
  /\ Return(r, c, Goto("update", r))
  /\ UNCHANGED <<status, history, answered, overlapped, overridden>>

UpdateTask(r, c) ==
  /\ TaskAt(r, "update", c)
  /\ WriteStatus(c, taskReq[r].to)
  /\ Return(r, c, Goto("history", r))
  /\ UNCHANGED <<history, answered, overlapped, overridden>>

\* Slip: the row names the status it leads to twice.
RecordHistory_NoFrom(r, c) ==
  /\ TaskAt(r, "history", c)
  /\ WriteRow(c, [by |-> r, from |-> taskReq[r].to, to |-> taskReq[r].to])
  /\ Return(r, c, Goto("commit", r))
  /\ UNCHANGED <<status, answered, overlapped, overridden>>

\* recordStatusHistory
RecordHistory(r, c) ==
  /\ TaskAt(r, "history", c)
  /\ WriteRow(c, [by |-> r, from |-> taskReq[r].from, to |-> taskReq[r].to])
  /\ Return(r, c, Goto("commit", r))
  /\ UNCHANGED <<status, answered, overlapped, overridden>>

Answer(r) == answered' = answered \union {r}

\* Slip: the block is never committed.
CommitTx_Skipped(r, c) ==
  /\ TaskAt(r, "commit", c)
  /\ Answer(r)
  /\ Return(r, c, Goto(IF taskReq[r].rewrite THEN "rewrite" ELSE "over", r))
  /\ UNCHANGED <<status, history, tx, overlapped, overridden>>

\* COMMIT, and the transition is answered as done.
CommitTx(r, c) ==
  /\ TaskAt(r, "commit", c)
  /\ CommitOn(c)
  /\ Answer(r)
  /\ Return(r, c, Goto(IF taskReq[r].rewrite THEN "rewrite" ELSE "over", r))
  /\ UNCHANGED <<overlapped, overridden>>

\* The second UPDATE of the pause and PATCH routes, in no transaction of its own.
RewriteStatus(r, c) ==
  /\ TaskAt(r, "rewrite", c)
  /\ WriteStatus(c, taskReq[r].to)
  /\ Return(r, c, Goto("over", r))
  /\ UNCHANGED <<history, answered, overlapped, overridden>>

RollbackTx(r, c) ==
  /\ TaskAt(r, "rollback", c)
  /\ tx' = [tx EXCEPT ![c] = NoTx]
  /\ Return(r, c, Goto("over", r))
  /\ UNCHANGED <<status, history, answered, overlapped, overridden>>

\* A statement of the block fails: the connection is closed with what was open on it, the
\* request that waits longest gets a new one in its place, and the ROLLBACK runs where
\* the pool puts it.
BlockFails(r, c) ==
  /\ taskReq[r].pc \in {"begin", "update", "history", "commit"}
  /\ taskReq[r].on = c
  /\ tx' = [tx EXCEPT ![c] = NoTx]
  /\ IF queue = << >> THEN Issue(r, Goto("rollback", r)) ELSE Return(r, c, Goto("rollback", r))
  /\ UNCHANGED <<status, history, answered, overlapped, overridden>>

\* A statement outside the block, or the ROLLBACK, fails: so does the request.
RequestFails(r, c) ==
  /\ taskReq[r].pc \in {"look", "validate", "rewrite", "rollback"}
  /\ taskReq[r].on = c
  /\ tx' = [tx EXCEPT ![c] = NoTx]
  /\ IF queue = << >>
     THEN /\ taskReq' = [taskReq EXCEPT ![r] = [Goto("over", r) EXCEPT !.on = None]]
          /\ UNCHANGED <<idle, queue, starved>>
     ELSE Return(r, c, Goto("over", r))
  /\ UNCHANGED <<status, history, answered, overlapped, overridden>>

\* The API process dies: its requests end and the database rolls back what they left open.
ProcessDies ==
  /\ InFlight # {}
  /\ taskReq' = [r \in TaskRequest |-> IF r \in InFlight THEN [TaskNew EXCEPT !.pc = "over"]
                                       ELSE taskReq[r]]
  /\ tx' = [c \in Client |-> NoTx]
  /\ idle' = << >>
  /\ queue' = << >>
  /\ UNCHANGED <<status, history, answered, flags>>

TaskStatement(r) ==
  \E c \in Client :
    \/ PatchLook(r, c) \/ Validate(r, c) \/ BeginTx(r, c) \/ UpdateTask(r, c)
    \/ RecordHistory(r, c) \/ CommitTx(r, c) \/ RewriteStatus(r, c)
    \/ RollbackTx(r, c)

TaskFailure(r) == \E c \in Client : BlockFails(r, c) \/ RequestFails(r, c)

TaskNext ==
  \/ \E r \in TaskRequest :
       \/ PauseStart(r) \/ TaskStatement(r) \/ TaskFailure(r)
       \/ \E s \in Patched : PatchStart(r, s)
       \/ \E a \in Asked : TransitionStart(r, a, Produces[a], FALSE)
       \/ \E a, b \in Forced : TransitionStart(r, a, Produces[b], TRUE)
  \/ \E i \in 1..Len(idle) : CloseIdle(i)
  \/ ProcessDies

TaskSpec == TaskInit /\ [][TaskNext]_taskVars

\* The database ends every statement it can, and the pool's timers close what stays idle.
TaskFairness ==
  /\ \A r \in TaskRequest : WF_taskVars(TaskStatement(r))
  /\ WF_taskVars(\E i \in 1..Len(idle) : CloseIdle(i))

-----------------------------------------------------------------------------
(* Properties *)

Recorded == {history[i].by : i \in 1..Len(history)}

\* "Performs an atomic, audited, and validated task lifecycle state transition": what was
\* answered as done is committed.
AnsweredIsRecorded == answered \subseteq Recorded

\* While the pool never runs out of connections the block is atomic: what was answered as
\* done is committed, and nothing half done stays behind in an open transaction.
AtomicWhilePoolLasts ==
  ~ starved =>
    /\ AnsweredIsRecorded
    /\ \A c \in Client : tx[c].open =>
         \E r \in TaskRequest : /\ taskReq[r].on = c
                                /\ taskReq[r].pc \in {"update", "history", "commit"}

\* With one request at a time the history tells how the task came to its status: no row and
\* no status without the other, whatever statement fails and wherever the process dies.  Only
\* a PATCH that leaves the task without a status is in no row.
HistoryExplainsStatus ==
  ~ overlapped =>
    /\ \A i \in 1..(Len(history) - 1) : history[i + 1].from \in {history[i].to, Blank}
    /\ history # << >> => status \in {history[Len(history)].to, Blank}

\* "Archives are final and no transitions are permitted": with one request at a time, and
\* without an override, an archived task stays archived, a PATCH or a pause included, or is
\* left without a status; and one without a status never gets one.
ArchivedIsFinal ==
  [][~ overlapped' /\ ~ overridden /\ status \in {"archived", Blank}
       => status' \in {status, Blank}]_taskVars

\* Every request ends: one that waits for the task's row, kept by a transaction nobody is
\* going to end, or for a connection, with all of them waiting for that row.
EveryTaskRequestEnds == \A r \in TaskRequest : (r \in InFlight) ~> (r \notin InFlight)
=============================================================================
