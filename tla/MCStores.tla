------------------------------ MODULE MCStores ------------------------------
(* The stores of a project for TLC.  They share no table and no variable, so a behaviour *)
(* of one says nothing about another: a run explores them one at a time, the one that is *)
(* to move being chosen at the start.                                                    *)
EXTENDS Artifacts, QualityGates, ContextObjects, EventStore, IncrementalIndex,
        ResumeSchedules, AgentSessions, Handoffs, MCKnowledgeGraph, ChangeImpact,
        ContextVault, PermissionKernel, TLC

VARIABLE store

storesVars == <<artVars, gateVars, ctxVars, eventVars, deltaVars, schedVars, sessionVars,
                handoffVars, graphVars, impactVars, vaultVars, kernelVars,
                store>>

Stores == {"artifacts", "gates", "objects", "events", "deltas", "schedules", "sessions",
           "handoffs", "graph", "impact", "vault", "kernel"}

StoresInit ==
  /\ ArtInit /\ GateInit /\ CtxInit /\ EventInit /\ DeltaInit
  /\ SchedInit /\ SessionInit /\ HandoffInit /\ GraphInit /\ ImpactInit /\ VaultInit
  /\ KernelInit
  /\ store \in Stores

Still(s) ==
  CASE s = "artifacts" -> UNCHANGED artVars
    [] s = "gates" -> UNCHANGED gateVars
    [] s = "objects" -> UNCHANGED ctxVars
    [] s = "events" -> UNCHANGED eventVars
    [] s = "deltas" -> UNCHANGED deltaVars
    [] s = "schedules" -> UNCHANGED schedVars
    [] s = "sessions" -> UNCHANGED sessionVars
    [] s = "handoffs" -> UNCHANGED handoffVars
    [] s = "graph" -> UNCHANGED graphVars
    [] s = "impact" -> UNCHANGED impactVars
    [] s = "vault" -> UNCHANGED vaultVars
    [] s = "kernel" -> UNCHANGED kernelVars

\* The rules are edited once at most between a request and the reading of the rules.
FewTables == Cardinality(tables') <= 2

StoresNext ==
  /\ UNCHANGED store
  /\ \/ store = "artifacts" /\ ArtNext
     \/ store = "gates" /\ GateNext
     \/ store = "objects" /\ CtxNext
     \/ store = "events" /\ EventNext
     \/ store = "deltas" /\ DeltaNext
     \/ store = "schedules" /\ SchedNext
     \/ store = "sessions" /\ SessionNext
     \/ store = "handoffs" /\ HandoffNext
     \/ store = "graph" /\ GraphNext
     \/ store = "impact" /\ ImpactNext
     \/ store = "vault" /\ VaultNext
     \/ store = "kernel" /\ KernelNext /\ FewTables
  /\ \A s \in Stores \ {store} : Still(s)

StoresSpec == StoresInit /\ [][StoresNext]_storesVars

StoresTypeOK ==
  CASE store = "artifacts" -> ArtTypeOK
    [] store = "gates" -> GateTypeOK
    [] store = "objects" -> CtxTypeOK
    [] store = "events" -> EventTypeOK
    [] store = "deltas" -> DeltaTypeOK
    [] store = "schedules" -> SchedTypeOK
    [] store = "sessions" -> SessionTypeOK
    [] store = "handoffs" -> HandoffTypeOK
    [] store = "graph" -> GraphTypeOK
    [] store = "impact" -> ImpactTypeOK
    [] store = "vault" -> VaultTypeOK
    [] store = "kernel" -> KernelTypeOK

StoresSymmetry == Permutations(HandoffRequest)

\* What the rows of a task's sources provide: all that is asked of them, or less.
MemoryRows == {{"action"}}
ResumeRows == {{"action", "pack", "files"}, {"action", "pack", "files", "commands"}}
BoundaryRows == {{"pack", "risks", "forbidden"}}

\* One relationship between each two nodes that share a label with a fact or a hand-made edge.
FewFacts == {f \in MCFact : f.relation # "defines_route"}

\* Files with two cycles, a file that links to itself, a forbidden one on a path and beside one,
\* one that is forbidden as '/path' on a path, and a shared dependent by the import of a hook.
MCNode == {"f", "a", "b", "c", "x"}
MCLink == {<<"a", "f">>, <<"b", "a">>, <<"c", "b">>, <<"f", "c">>, <<"x", "a">>, <<"c", "x">>,
           <<"f", "f">>}
MCImport == {<<"b", "f">>}
MCChange == {{"f", "b"}, {"c", "x"}}

MCParts == [short |-> 1, long |-> 2]

MakeRule(effect, subject, action, conditions) ==
  [effect |-> effect, subject |-> subject, resource |-> "index_job", action |-> action,
   conditions |-> conditions]

MCBuiltIn == {[MakeRule("allow", "*", "*", {"is_admin"}) EXCEPT !.resource = "*"],
              [MakeRule("allow", "system", "*", {}) EXCEPT !.resource = "*"],
              MakeRule("allow", "worker", "claim", {})}

MCRule == {MakeRule("allow", "*", "*", {"is_admin"}), MakeRule("allow", "worker", "*", {"owner"}),
           MakeRule("deny", "worker", "claim", {"sensitivity"})}

\* Nobody who is not a worker or the system asks here, and a breach and a secret are apart.
MCAsk == {q \in [subject: {"system", "worker"}, role: {"admin", "none"}, is_admin: BOOLEAN,
                 resource: {"index_job"}, action: {"claim"}, secret: BOOLEAN,
                 meets: {{}, {"owner"}}, override: {"none", "bare", "reasoned"}, breach: BOOLEAN] :
            /\ q.breach => ~ q.secret /\ q.meets = {}
            /\ q.subject = "system" => ~ q.is_admin}
=============================================================================
