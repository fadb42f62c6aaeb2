---------------------------- MODULE QualityGates ----------------------------
(***************************************************************************)
(* QualityGateService (apps/api/src/QualityGateService.ts): quality gate   *)
(* runs, the command results fed into them and the verdict.                *)
(*                                                                         *)
(* Every operation reads the run, decides, and writes it back WHERE id     *)
(* only; the results are a table of their own.  A result is told apart by  *)
(* what it counts as: failed (status failed or error, or an exit code      *)
(* other than 0), warning, passed, or nothing (skipped, no exit code).     *)
(*                                                                         *)
(* mixed is a history variable: the runs on which two requests have        *)
(* overlapped.  No operation reads it.                                     *)
(***************************************************************************)
EXTENDS Naturals, FiniteSets

CONSTANTS
  GateRun,      \* ids of the runs
  GateRequest,  \* slots for requests in flight
  MaxResults    \* results of a run (a bound of the model)

ASSUME GatesAssumption == MaxResults \in Nat

VARIABLES
  runs,     \* the status of each run
  results,  \* how many results of each kind each run has
  gateReq,  \* the requests in flight
  mixed     \* runs on which requests overlapped

gateVars == <<runs, results, gateReq, mixed>>

Kind == {"failed", "warning", "passed", "nothing"}

Finalized == {"PASSED", "FAILED", "WARNING", "CANCELLED"}

RunStatus == Finalized \union {"absent", "PENDING", "RUNNING"}

GateIdle == [pc |-> "idle"]

\* was: the status the ingest read.  verdict: what completeRun computed.
GateSlot ==
  {GateIdle}
    \union [pc: {"start", "count", "cancel", "run"}, run: GateRun]
    \union [pc: {"ingest"}, run: GateRun, was: {"PENDING", "RUNNING"}, kind: Kind]
    \union [pc: {"verdict"}, run: GateRun, verdict: {"PASSED", "FAILED", "WARNING"}]

GateTypeOK ==
  /\ runs \in [GateRun -> RunStatus]
  /\ results \in [GateRun -> [Kind -> Nat]]
  /\ gateReq \in [GateRequest -> GateSlot]
  /\ mixed \subseteq GateRun

GateInit ==
  /\ runs = [k \in GateRun |-> "absent"]
  /\ results = [k \in GateRun |-> [c \in Kind |-> 0]]
  /\ gateReq = [r \in GateRequest |-> GateIdle]
  /\ mixed = {}

-----------------------------------------------------------------------------
GateFree(r) == gateReq[r].pc = "idle"

GateAt(r, pc) == gateReq[r].pc = pc

GateGoto(r, slot) == gateReq' = [gateReq EXCEPT ![r] = slot]

Quiet(k) == \A r \in GateRequest : GateFree(r) \/ gateReq[r].run # k

\* The request is on run k from here on.
Begin(r, k, slot) ==
  /\ GateFree(r)
  /\ GateGoto(r, slot)
  /\ mixed' = IF Quiet(k) THEN mixed ELSE mixed \union {k}
  /\ UNCHANGED <<runs, results>>

\* UPDATE quality_gate_runs SET status = s WHERE id: the last write of a request.
SetRun(r, s) ==
  /\ runs' = [runs EXCEPT ![gateReq[r].run] = s]
  /\ GateGoto(r, GateIdle)
  /\ UNCHANGED <<results, mixed>>

\* createRun inserts a pending run.
CreateRun(k) ==
  /\ runs[k] = "absent"
  /\ runs' = [runs EXCEPT ![k] = "PENDING"]
  /\ UNCHANGED <<results, gateReq, mixed>>

\* startRun
StartCheck(r, k) ==
  runs[k] = "PENDING" /\ Begin(r, k, [pc |-> "start", run |-> k])

StartUpdate(r) == GateAt(r, "start") /\ SetRun(r, "RUNNING")

\* Slip: a finalized run takes further results.
IngestCheck_AnyState(r, k, c) ==
  /\ runs[k] # "absent"
  /\ Begin(r, k, [pc |-> "ingest", run |-> k,
                  was |-> IF runs[k] = "PENDING" THEN "PENDING" ELSE "RUNNING", kind |-> c])

\* ingestCommandResult: the run is read ...
IngestCheck(r, k, c) ==
  /\ runs[k] \in {"PENDING", "RUNNING"}
  /\ Begin(r, k, [pc |-> "ingest", run |-> k, was |-> runs[k], kind |-> c])

\* ... the result is inserted, and a run read as PENDING is then set to RUNNING.
IngestInsert(r) ==
  /\ GateAt(r, "ingest")
  /\ LET k == gateReq[r].run  c == gateReq[r].kind IN
     /\ results[k][c] < MaxResults
     /\ results' = [results EXCEPT ![k][c] = @ + 1]
     /\ GateGoto(r, IF gateReq[r].was = "PENDING" THEN [pc |-> "run", run |-> k] ELSE GateIdle)
  /\ UNCHANGED <<runs, mixed>>

IngestRun(r) == GateAt(r, "run") /\ SetRun(r, "RUNNING")

\* A run without results passes.
Verdict(k) ==
  IF results[k]["failed"] > 0 THEN "FAILED"
  ELSE IF results[k]["warning"] > 0 THEN "WARNING"
  ELSE "PASSED"

\* completeRun: the run is read, then its results, then the verdict is written.
CompleteCheck(r, k) ==
  runs[k] \in {"PENDING", "RUNNING"} /\ Begin(r, k, [pc |-> "count", run |-> k])

CompleteCount(r) ==
  /\ GateAt(r, "count")
  /\ GateGoto(r, [pc |-> "verdict", run |-> gateReq[r].run, verdict |-> Verdict(gateReq[r].run)])
  /\ UNCHANGED <<runs, results, mixed>>

CompleteUpdate(r) == GateAt(r, "verdict") /\ SetRun(r, gateReq[r].verdict)

\* cancelRun
CancelCheck(r, k) ==
  runs[k] \in {"PENDING", "RUNNING"} /\ Begin(r, k, [pc |-> "cancel", run |-> k])

CancelUpdate(r) == GateAt(r, "cancel") /\ SetRun(r, "CANCELLED")

\* A statement fails or the API process dies between two statements.
GateAbort(r) ==
  /\ ~ GateFree(r)
  /\ GateGoto(r, GateIdle)
  /\ UNCHANGED <<runs, results, mixed>>

GateNext ==
  \/ \E k \in GateRun :
       \/ CreateRun(k)
       \/ \E r \in GateRequest :
            \/ StartCheck(r, k) \/ CompleteCheck(r, k) \/ CancelCheck(r, k)
            \/ \E c \in Kind : IngestCheck(r, k, c)
  \/ \E r \in GateRequest :
       \/ StartUpdate(r) \/ IngestInsert(r) \/ IngestRun(r)
       \/ CompleteCount(r) \/ CompleteUpdate(r) \/ CancelUpdate(r) \/ GateAbort(r)

GateSpec == GateInit /\ [][GateNext]_gateVars

-----------------------------------------------------------------------------
(* Properties *)

\* The verdict of a run is what the results it has call for, unless requests on it
\* overlapped: every result answered before completeRun counts, a crash in the middle of an
\* ingest or of a completion included, and none is taken afterwards.
VerdictMatchesResults ==
  \A k \in GateRun : k \notin mixed =>
    /\ runs[k] = "FAILED" => results[k]["failed"] > 0
    /\ runs[k] = "WARNING" => results[k]["failed"] = 0 /\ results[k]["warning"] > 0
    /\ runs[k] = "PASSED" => results[k]["failed"] = 0 /\ results[k]["warning"] = 0

\* A finalized run with no request in flight on it is settled for good: neither its status
\* nor its results change again.  (A request that was in flight may still reopen it.)
SettledForGood ==
  [][\A k \in GateRun :
       runs[k] \in Finalized /\ Quiet(k) =>
         Quiet(k)' /\ runs'[k] = runs[k] /\ results'[k] = results[k]]_gateVars
=============================================================================
