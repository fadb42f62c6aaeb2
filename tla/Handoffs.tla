------------------------------ MODULE Handoffs ------------------------------
(***************************************************************************)
(* Handoffs of one task from agent to agent (packages/agents/src/          *)
(* handoff.ts).  A handoff is put together from the latest agent memory,   *)
(* resume state and task boundary, each read by a statement of its own,    *)
(* and is ready if they leave nothing out; validateHandoff puts it         *)
(* together again.  A row of a source is the set of what it provides.      *)
(***************************************************************************)
EXTENDS Naturals, Sequences

CONSTANTS
  NumHandoffs,     \* rows ever inserted,
  MaxSources,      \* rows of the sources together,
  MemoryRow, ResumeRow, BoundaryRow,  \* and what rows provide: bounds of the model
  HandoffRequest   \* slots for requests in flight

ASSUME HandoffAssumption == NumHandoffs \in Nat /\ MaxSources \in Nat

VARIABLES
  sources,     \* the rows of agent_memories, resume_states and task_boundaries
  handoffs,    \* agent_handoffs
  handoffReq   \* the requests in flight

handoffVars == <<sources, handoffs, handoffReq>>

Handoff == 1..NumHandoffs

HandoffStatus == {"draft", "ready", "blocked", "applied", "failed", "cancelled"}

Source == {"memory", "resume", "boundary"}

\* What a row of a source may provide.
Provides ==
  [memory |-> {"action"},
   resume |-> {"action", "pack", "files", "commands", "risks"},
   boundary |-> {"pack", "risks", "forbidden"}]

RowsOf == [memory |-> MemoryRow, resume |-> ResumeRow, boundary |-> BoundaryRow]

ASSUME SourceAssumption == \A s \in Source : RowsOf[s] \subseteq SUBSET Provides[s]

\* No row: it provides nothing, not even itself.
NoRow == {"none"}

\* current: no source has got a row, nor its latest row changed, since the request began that
\* judged the handoff;
\* settled: the status is from an update request.  Both are history.
HandoffRow == [status: HandoffStatus \union {"absent"}, current: BOOLEAN, settled: BOOLEAN]

\* seen: the rows read so far; current as above.
HandoffIdle == [pc |-> "idle", id |-> 0, current |-> TRUE, seen |-> [s \in Source |-> NoRow]]

HandoffSlot == [pc: {"idle", "memory", "resume", "boundary", "write"}, id: Handoff \union {0},
                current: BOOLEAN,
                seen: [Source -> {NoRow} \union UNION {SUBSET Provides[s] : s \in Source}]]

HandoffTypeOK ==
  /\ \A s \in Source : sources[s] \in Seq(RowsOf[s])
  /\ handoffs \in [Handoff -> HandoffRow]
  /\ handoffReq \in [HandoffRequest -> HandoffSlot]

HandoffInit ==
  /\ sources = [s \in Source |-> << >>]
  /\ handoffs = [h \in Handoff |-> [status |-> "absent", current |-> FALSE, settled |-> FALSE]]
  /\ handoffReq = [r \in HandoffRequest |-> HandoffIdle]

-----------------------------------------------------------------------------
\* compileCompletenessValidation: what the rows leave out.  The context pack and the next
\* action come from either of two rows, the risks too.
Missing(mem, res, bound) ==
  {s \in {"agent memory"} : mem = NoRow}
    \union {s \in {"resume state"} : res = NoRow}
    \union {s \in {"boundary rules"} : bound = NoRow}
    \union ({"action"} \ (mem \union res))
    \union ({"pack", "risks"} \ (res \union bound))
    \union ({"files", "commands"} \ res)
    \union ({"forbidden"} \ bound)

\* ORDER BY created_at DESC LIMIT 1
Latest(s) == IF sources[s] = << >> THEN NoRow ELSE sources[s][Len(sources[s])]

SourceRows == Len(sources["memory"]) + Len(sources["resume"]) + Len(sources["boundary"])

HandoffFree(r) == handoffReq[r].pc = "idle"

HandoffGoto(r, slot) == handoffReq' = [handoffReq EXCEPT ![r] = slot]

\* What was judged, or is being judged, may no longer be what the latest rows provide.
Overtaken ==
  /\ handoffs' = [h \in Handoff |-> [handoffs[h] EXCEPT !.current = FALSE]]
  /\ handoffReq' = [r \in HandoffRequest |->
                      IF HandoffFree(r) THEN HandoffIdle
                      ELSE [handoffReq[r] EXCEPT !.current = FALSE]]

\* createMemory, createResumeState or pauseTask; or the boundary routes, which answer 410 now,
\* so that only an operator's SQL would write such a row.
AddSource(s, row) ==
  /\ SourceRows < MaxSources
  /\ sources' = [sources EXCEPT ![s] = Append(@, row)]
  /\ Overtaken

\* updateMemory, updateResumeState, a PATCH of the boundary as above, and createMemory with the
\* id of a row there is: the latest row provides something else.  (Nothing reads an older one.)
UpdateSource(s, row) ==
  /\ sources[s] # << >> /\ row # Latest(s)
  /\ sources' = [sources EXCEPT ![s] = [@ EXCEPT ![Len(@)] = row]]
  /\ Overtaken

\* createHandoff (id 0) or validateHandoff: a handoff of any status.
HandoffStart(r, h) ==
  /\ HandoffFree(r)
  /\ h # 0 => handoffs[h].status # "absent"
  /\ HandoffGoto(r, [HandoffIdle EXCEPT !.pc = "memory", !.id = h])
  /\ UNCHANGED <<sources, handoffs>>

After == [memory |-> "resume", resume |-> "boundary", boundary |-> "write"]

\* The sources are read one after the other.
HandoffRead(r, s) ==
  /\ handoffReq[r].pc = s
  /\ HandoffGoto(r, [handoffReq[r] EXCEPT !.pc = After[s], !.seen[s] = Latest(s)])
  /\ UNCHANGED <<sources, handoffs>>

\* Slip: only what is warned of counts.
Judgement_WarningsOnly(seen) ==
  IF Missing(seen["memory"], seen["resume"], seen["boundary"])
       \subseteq {"commands", "risks", "forbidden"} THEN "ready" ELSE "blocked"

Judgement(seen) ==
  IF Missing(seen["memory"], seen["resume"], seen["boundary"]) = {} THEN "ready" ELSE "blocked"

\* The row is inserted, or overwritten whatever its status is.
HandoffWrite(r, h) ==
  /\ handoffReq[r].pc = "write"
  /\ IF handoffReq[r].id # 0 THEN h = handoffReq[r].id
     ELSE handoffs[h].status = "absent" /\ \A i \in 1..(h - 1) : handoffs[i].status # "absent"
  /\ handoffs' = [handoffs EXCEPT ![h] = [status |-> Judgement(handoffReq[r].seen),
                                          current |-> handoffReq[r].current,
                                          settled |-> FALSE]]
  /\ HandoffGoto(r, HandoffIdle)
  /\ UNCHANGED sources

\* updateHandoff: any supported status.
UpdateHandoff(h, status) ==
  /\ handoffs[h].status # "absent"
  /\ handoffs' = [handoffs EXCEPT ![h].status = status, ![h].settled = TRUE]
  /\ UNCHANGED <<sources, handoffReq>>

HandoffAbort(r) ==
  /\ ~ HandoffFree(r)
  /\ HandoffGoto(r, HandoffIdle)
  /\ UNCHANGED <<sources, handoffs>>

HandoffNext ==
  \/ \E s \in Source : \E row \in RowsOf[s] : AddSource(s, row) \/ UpdateSource(s, row)
  \/ \E r \in HandoffRequest :
       \/ \E h \in Handoff \union {0} : HandoffStart(r, h)
       \/ \E s \in Source : HandoffRead(r, s)
       \/ \E h \in Handoff : HandoffWrite(r, h)
       \/ HandoffAbort(r)
  \/ \E h \in Handoff, status \in HandoffStatus : UpdateHandoff(h, status)

HandoffSpec == HandoffInit /\ [][HandoffNext]_handoffVars

-----------------------------------------------------------------------------
(* Properties *)

\* A handoff says ready exactly if the task's latest memory, resume state and boundary
\* together leave nothing out, whichever requests raced to judge it: unless a source has got
\* a row, or its latest row has changed, since the request began that judged it, or an
\* operator has set its status.
VerdictIsCurrent ==
  \A h \in Handoff :
    (handoffs[h].status # "absent" /\ ~ handoffs[h].settled /\ handoffs[h].current)
    => (handoffs[h].status = "ready") =
         (Missing(Latest("memory"), Latest("resume"), Latest("boundary")) = {})
=============================================================================
