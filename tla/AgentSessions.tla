--------------------------- MODULE AgentSessions ---------------------------
(***************************************************************************)
(* The sessions of one task (packages/agents/src/recovery.ts): external    *)
(* agent sessions with a status, of which one per provider may be live,    *)
(* and the choice of the session to recover.  Creation and update look     *)
(* for a live session in a statement of their own; the unique index has    *)
(* the last word.  An update writes every column back from the row it has  *)
(* read, so one that only sets a label writes the status as well.          *)
(***************************************************************************)
EXTENDS Naturals

CONSTANTS
  NumSessions,    \* rows ever inserted (a bound of the model)
  Provider,       \* providers
  SessionRequest  \* slots for requests in flight

ASSUME SessionAssumption == NumSessions \in Nat /\ Provider # {}

VARIABLES
  sessions,     \* agent_sessions, by id, in order of creation
  sessionReq,   \* the requests in flight
  sessionsMixed \* two updates of a session have been in flight at once (history)

sessionVars == <<sessions, sessionReq, sessionsMixed>>

Session == 1..NumSessions

SessionStatus == {"active", "paused", "recoverable", "expired", "failed", "archived"}

Live == {"active", "paused", "recoverable"}

SessionRow == [status: SessionStatus \union {"absent"}, provider: Provider]

AnyProvider == CHOOSE p \in Provider : TRUE

SessionIdle == [pc |-> "idle", id |-> 0, provider |-> AnyProvider, status |-> "active",
                named |-> FALSE]

\* named: the request names the status.
SessionSlot == [pc: {"idle", "check", "insert", "clash", "write"}, id: Session \union {0},
                provider: Provider, status: SessionStatus, named: BOOLEAN]

LiveOf(p) == {s \in Session : sessions[s].provider = p /\ sessions[s].status \in Live}

SessionTypeOK ==
  /\ sessions \in [Session -> SessionRow]
  /\ sessionReq \in [SessionRequest -> SessionSlot]
  /\ sessionsMixed \in BOOLEAN

SessionInit ==
  /\ sessions = [s \in Session |-> [status |-> "absent", provider |-> AnyProvider]]
  /\ sessionReq = [r \in SessionRequest |-> SessionIdle]
  /\ sessionsMixed = FALSE

-----------------------------------------------------------------------------
SessionFree(r) == sessionReq[r].pc = "idle"

SessionAt(r, pc) == sessionReq[r].pc = pc

SessionGoto(r, slot) == sessionReq' = [sessionReq EXCEPT ![r] = slot]

\* The unique index on (task_id, provider).
SessionIndexAllows(p, s, status) == status \in Live => LiveOf(p) \subseteq {s}

\* createAgentSession; only a live session looks for another.
SessionStart(r, p, status) ==
  /\ SessionFree(r)
  /\ SessionGoto(r, [SessionIdle EXCEPT !.pc = IF status \in Live THEN "check" ELSE "insert",
                                        !.provider = p, !.status = status])
  /\ UNCHANGED <<sessions, sessionsMixed>>

SessionCheck(r) ==
  /\ SessionAt(r, "check")
  /\ SessionGoto(r, IF LiveOf(sessionReq[r].provider) = {}
                    THEN [sessionReq[r] EXCEPT !.pc = "insert"] ELSE SessionIdle)
  /\ UNCHANGED <<sessions, sessionsMixed>>

SessionInsert(r, s) ==
  /\ SessionAt(r, "insert")
  /\ sessions[s].status = "absent" /\ \A i \in 1..(s - 1) : sessions[i].status # "absent"
  /\ LET p == sessionReq[r].provider
         status == sessionReq[r].status
     IN  sessions' = IF SessionIndexAllows(p, s, status)
                     THEN [sessions EXCEPT ![s] = [status |-> status, provider |-> p]]
                     ELSE sessions
  /\ SessionGoto(r, SessionIdle)
  /\ UNCHANGED sessionsMixed

\* Slip: the default of the creation is used.
NextStatus_Active(named, status, current) == IF named THEN status ELSE "active"

\* dto.status || currentSession.status
NextStatus(named, status, current) == IF named THEN status ELSE current

\* updateAgentSession reads the row and settles the status it is going to write ...
SessionRead(r, s, named, status) ==
  /\ SessionFree(r)
  /\ sessions[s].status # "absent"
  /\ LET now == sessions[s].status
         next == NextStatus(named, status, now)
     IN  SessionGoto(r, [pc |-> IF next \in Live /\ now \notin Live THEN "clash" ELSE "write",
                         id |-> s, provider |-> sessions[s].provider, status |-> next,
                         named |-> named])
  /\ sessionsMixed' = (sessionsMixed \/ \E q \in SessionRequest : sessionReq[q].id = s)
  /\ UNCHANGED sessions

\* ... looks for another live session if it makes this one live ...
SessionClash(r) ==
  /\ SessionAt(r, "clash")
  /\ SessionGoto(r, IF LiveOf(sessionReq[r].provider) \subseteq {sessionReq[r].id}
                    THEN [sessionReq[r] EXCEPT !.pc = "write"] ELSE SessionIdle)
  /\ UNCHANGED <<sessions, sessionsMixed>>

\* ... and writes, if the index lets it.
SessionWrite(r) ==
  /\ SessionAt(r, "write")
  /\ LET slot == sessionReq[r]
     IN  sessions' = IF SessionIndexAllows(slot.provider, slot.id, slot.status)
                     THEN [sessions EXCEPT ![slot.id].status = slot.status] ELSE sessions
  /\ SessionGoto(r, SessionIdle)
  /\ UNCHANGED sessionsMixed

SessionAbort(r) ==
  /\ ~ SessionFree(r)
  /\ SessionGoto(r, SessionIdle)
  /\ UNCHANGED <<sessions, sessionsMixed>>

SessionNext ==
  \E r \in SessionRequest :
    \/ \E p \in Provider, status \in SessionStatus : SessionStart(r, p, status)
    \/ SessionCheck(r) \/ SessionClash(r) \/ SessionWrite(r) \/ SessionAbort(r)
    \/ \E s \in Session : \/ SessionInsert(r, s)
                          \/ \E status \in SessionStatus, named \in BOOLEAN :
                               SessionRead(r, s, named, status)

SessionSpec == SessionInit /\ [][SessionNext]_sessionVars

-----------------------------------------------------------------------------
(* getLatestRecoverableSession *)

\* Slip: the newest session whatever its status.
Before_Newest(i, j) == i > j

\* ORDER BY recoverable or paused first, then active, then the rest; then the newest.
Before(i, j) ==
  LET class(s) == CASE sessions[s].status \in {"recoverable", "paused"} -> 1
                    [] sessions[s].status = "active" -> 2
                    [] OTHER -> 3
  IN  class(i) < class(j) \/ (class(i) = class(j) /\ i > j)

\* The session offered for recovery with a provider named: the first in that order.
Offered(p) ==
  LET mine == {s \in Session : sessions[s].status # "absent" /\ sessions[s].provider = p}
  IN  {s \in mine : \A i \in mine \ {s} : Before(s, i)}

-----------------------------------------------------------------------------
(* Properties *)

\* While a provider has a live session, however requests raced to make one live, that one
\* is offered, and it is the only one.
RecoveryOffersLive ==
  \A p \in Provider : LiveOf(p) # {} => Offered(p) = LiveOf(p)

\* As long as no two updates of one session overlap, a session that has ended (expired,
\* failed, archived) is live again only by an update that says so: one of its label or of
\* its last step does not revive it.
OnlyRevivedByName ==
  [][\A s \in Session :
       (~ sessionsMixed /\ sessions[s].status \notin Live \union {"absent"}
          /\ sessions'[s].status \in Live)
       => \E r \in SessionRequest : sessionReq[r].id = s /\ sessionReq[r].named]_sessionVars
=============================================================================
