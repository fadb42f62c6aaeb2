------------------------------ MODULE JobLeases ------------------------------
(***************************************************************************)
(* What the job queue promises, whatever handlers, sweeps and operators    *)
(* do: an open job is granted to one worker at a time, a grant spends one  *)
(* of the job's attempts, and there is no grant without an attempt left.   *)
(* A lease ends by being taken back, never by passing to another worker.   *)
(***************************************************************************)
EXTENDS Naturals

CONSTANTS Job, Worker, MaxAttempts, NULL

VARIABLES
  open,    \* the jobs on offer
  holder,  \* who a job is leased to, or NULL
  left     \* attempts left

leases == <<open, holder, left>>

Init ==
  /\ open = {}
  /\ holder = [j \in Job |-> NULL]
  /\ left = [j \in Job |-> MaxAttempts]

Grant(j, w) ==
  /\ j \in open
  /\ left[j] > 0
  /\ open' = open \ {j}
  /\ holder' = [holder EXCEPT ![j] = w]
  /\ left' = [left EXCEPT ![j] = @ - 1]

\* The job is done with, for now.
Close(j) ==
  /\ open' = open \ {j}
  /\ holder' = [holder EXCEPT ![j] = NULL]
  /\ UNCHANGED left

\* The job is offered, for the first time or again; a manual retry gives it all its
\* attempts back.
Offer(j) ==
  /\ open' = open \union {j}
  /\ holder' = [holder EXCEPT ![j] = NULL]
  /\ left' \in {left, [left EXCEPT ![j] = MaxAttempts]}

Next == \E j \in Job : (\E w \in Worker : Grant(j, w)) \/ Close(j) \/ Offer(j)

Spec == Init /\ [][Next]_leases
=============================================================================
