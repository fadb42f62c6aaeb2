--------------------------- MODULE ContextObjects ---------------------------
(***************************************************************************)
(* ContextObjectStoreService (apps/api/src/ContextObjectStoreService.ts):  *)
(* the deduplicated context objects of one project.                        *)
(*                                                                         *)
(* An object is known by its content (the hash of the sanitized payload    *)
(* and the object type), on which context_objects has a UNIQUE index, so   *)
(* an INSERT that meets the same content fails.  createContextObject looks *)
(* first and inserts later; the marks read only that the row exists, which *)
(* it keeps doing, and write WHERE id, so each is one step.  Scope checks, *)
(* the size limit and redaction precede every write and are left out.      *)
(***************************************************************************)
CONSTANTS
  Object,     \* contents
  CtxRequest  \* slots for requests in flight

VARIABLES
  objects,     \* the status of the object of each content
  referenced,  \* objects with a row in context_object_refs
  ctxReq       \* the content each request is about to insert

ctxVars == <<objects, referenced, ctxReq>>

CtxStatus == {"absent", "active", "stale", "quarantined"}

CtxTypeOK ==
  /\ objects \in [Object -> CtxStatus]
  /\ referenced \subseteq Object
  /\ ctxReq \in [CtxRequest -> SUBSET Object]

CtxInit ==
  /\ objects = [o \in Object |-> "absent"]
  /\ referenced = {}
  /\ ctxReq = [r \in CtxRequest |-> {}]

-----------------------------------------------------------------------------
\* An existing object is the answer, whatever its status; otherwise it is to be inserted.
CtxLookUp(r, o) ==
  /\ ctxReq[r] = {}
  /\ objects[o] = "absent"
  /\ ctxReq' = [ctxReq EXCEPT ![r] = {o}]
  /\ UNCHANGED <<objects, referenced>>

\* Slip: ON CONFLICT DO UPDATE SET status = 'active'.
CtxInsert_Upserts(r) ==
  /\ ctxReq[r] # {}
  /\ objects' = [o \in Object |-> IF o \in ctxReq[r] THEN "active" ELSE objects[o]]
  /\ ctxReq' = [ctxReq EXCEPT ![r] = {}]
  /\ UNCHANGED referenced

\* The INSERT fails if the content has been stored in between.
CtxInsert(r) ==
  /\ ctxReq[r] # {}
  /\ objects' = [o \in Object |-> IF o \in ctxReq[r] /\ objects[o] = "absent"
                                  THEN "active" ELSE objects[o]]
  /\ ctxReq' = [ctxReq EXCEPT ![r] = {}]
  /\ UNCHANGED referenced

CtxAbort(r) ==
  /\ ctxReq[r] # {}
  /\ ctxReq' = [ctxReq EXCEPT ![r] = {}]
  /\ UNCHANGED <<objects, referenced>>

CtxMark(o, s) ==
  /\ objects[o] # "absent"
  /\ objects' = [objects EXCEPT ![o] = s]
  /\ UNCHANGED <<referenced, ctxReq>>

MarkStale(o) == CtxMark(o, "stale")

MarkQuarantined(o) == CtxMark(o, "quarantined")

CreateRef(o) ==
  /\ objects[o] # "absent"
  /\ referenced' = referenced \union {o}
  /\ UNCHANGED <<objects, ctxReq>>

CtxNext ==
  \/ \E r \in CtxRequest : CtxInsert(r) \/ CtxAbort(r) \/ \E o \in Object : CtxLookUp(r, o)
  \/ \E o \in Object : MarkStale(o) \/ MarkQuarantined(o) \/ CreateRef(o)

CtxSpec == CtxInit /\ [][CtxNext]_ctxVars

-----------------------------------------------------------------------------
(* Properties *)

\* A content once marked stale or quarantined is never active again, however often it is
\* submitted, by requests that looked before the mark or before the first insert as well.
FlaggedStaysFlagged ==
  [][\A o \in Object :
       objects[o] \in {"stale", "quarantined"} => objects'[o] \in {"stale", "quarantined"}]_ctxVars
=============================================================================
