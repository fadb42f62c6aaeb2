-------------------------- MODULE MCTaskLifecycle --------------------------
(* The lifecycle of one task for TLC: three requests that pause or ask a transition, or   *)
(* two of any kind.                                                                      *)
EXTENDS TaskLifecycle, TLC

VARIABLE requests

MCTaskInit == TaskInit /\ requests \in {2, 3}

MCTaskNext ==
  /\ TaskNext
  /\ UNCHANGED requests
  /\ IF requests = 2 THEN \E r \in TaskRequest : taskReq'[r].pc = "new"
     ELSE \A r \in TaskRequest : taskReq'[r].pc # "look" /\ ~ taskReq'[r].override

MCTaskSpec == MCTaskInit /\ [][MCTaskNext]_<<taskVars, requests>> /\ TaskFairness
=============================================================================
