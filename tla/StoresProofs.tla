---------------------------- MODULE StoresProofs ----------------------------
(***************************************************************************)
(* Proofs about six stores, for any number of keys, contents, rules,       *)
(* texts, facts, files and requests: EventStore, ContextObjects,           *)
(* PermissionKernel, ContextVault, KnowledgeGraph and ChangeImpact.  They  *)
(* share no variable, and each part cites its own module only.             *)
(*                                                                         *)
(* The last part puts these stores, those of AgentsProofs and those of     *)
(* ServicesProofs side by side, as MCStores does.                          *)
(***************************************************************************)
EXTENDS MCStores, AgentsProofs, ServicesProofs, FiniteSetTheorems, TLAPS

(* EventStore *)

EventInv == EventTypeOK /\ StoredOnce

LEMMA EventInitInv == EventInit => EventInv
  BY DEF EventInit, EventInv, EventTypeOK, StoredOnce

\* A send moves on, and the key's row and answers change together or not at all.
LEMMA EventStep ==
  ASSUME EventInv, [EventNext]_eventVars
  PROVE  EventInv'
<1> USE DEF EventInv, EventTypeOK, StoredOnce, Move, Answer
<1>1. CASE UNCHANGED eventVars
  BY <1>1 DEF eventVars
<1>2. ASSUME NEW k \in Key, NEW i \in Send, SendEvent(k, i) PROVE EventInv'
  BY <1>2 DEF SendEvent
<1>3. ASSUME NEW k \in Key, NEW i \in Send, LookUpKey(k, i) PROVE EventInv'
  <2>1. CASE events[k] = {}
    BY <1>3, <2>1 DEF LookUpKey
  <2>2. CASE events[k] # {}
    <3>1. sends' \in [Key -> [Send -> {"unsent", "lookup", "insert", "ended"}]]
      BY <1>3, <2>2 DEF LookUpKey
    <3>2. events' = events /\ answers' = [answers EXCEPT ![k] = @ \union events[k]]
      BY <1>3, <2>2 DEF LookUpKey
    <3> QED BY <3>1, <3>2
  <2> QED BY <2>1, <2>2
<1>4. ASSUME NEW k \in Key, NEW i \in Send, InsertEvent(k, i) PROVE EventInv'
  <2>1. sends' \in [Key -> [Send -> {"unsent", "lookup", "insert", "ended"}]]
    BY <1>4 DEF InsertEvent
  <2>2. CASE events[k] = {}
    <3>1. /\ events' = [events EXCEPT ![k] = {i}]
          /\ answers' = [answers EXCEPT ![k] = @ \union {i}]
          /\ answers[k] = {}
      BY <1>4, <2>2 DEF InsertEvent
    <3> QED BY <2>1, <3>1
  <2>3. CASE events[k] # {}
    BY <1>4, <2>1, <2>3 DEF InsertEvent
  <2> QED BY <2>2, <2>3
<1>5. ASSUME NEW k \in Key, NEW i \in Send, InsertUnheard(k, i) PROVE EventInv'
  BY <1>5 DEF InsertUnheard
<1>6. ASSUME NEW k \in Key, NEW i \in Send, EventAbort(k, i) PROVE EventInv'
  BY <1>6 DEF EventAbort
<1> QED BY <1>1, <1>2, <1>3, <1>4, <1>5, <1>6 DEF EventNext

\* Under one idempotency key one row is stored and every answer names it, for any number of
\* overlapping sends and any failures between their statements.
THEOREM StoredOnceHolds == EventSpec => []StoredOnce
<1>1. EventInv => StoredOnce
  BY DEF EventInv
<1>2. EventInv /\ [EventNext]_eventVars => EventInv'
  BY EventStep
<1> QED BY <1>1, <1>2, EventInitInv, PTL DEF EventSpec

-----------------------------------------------------------------------------
(* ContextObjects *)

LEMMA CtxInitType == CtxInit => CtxTypeOK
  BY DEF CtxInit, CtxTypeOK, CtxStatus

LEMMA CtxTypeStep ==
  ASSUME CtxTypeOK, [CtxNext]_ctxVars
  PROVE  CtxTypeOK'
<1> USE DEF CtxTypeOK, CtxStatus
<1>1. CASE UNCHANGED ctxVars
  BY <1>1 DEF ctxVars
<1>2. ASSUME NEW r \in CtxRequest, CtxInsert(r) \/ CtxAbort(r) \/ \E o \in Object : CtxLookUp(r, o)
      PROVE  CtxTypeOK'
  BY <1>2 DEF CtxInsert, CtxAbort, CtxLookUp
<1>3. ASSUME NEW o \in Object, MarkStale(o) \/ MarkQuarantined(o) \/ CreateRef(o)
      PROVE  CtxTypeOK'
  BY <1>3 DEF MarkStale, MarkQuarantined, CtxMark, CreateRef
<1> QED BY <1>1, <1>2, <1>3 DEF CtxNext

LEMMA CtxTypeInvariance == CtxSpec => []CtxTypeOK
<1>1. CtxTypeOK /\ [CtxNext]_ctxVars => CtxTypeOK'
  BY CtxTypeStep
<1> QED BY <1>1, CtxInitType, PTL DEF CtxSpec

Flagged(s) == s \in {"stale", "quarantined"}

LEMMA FlagStep ==
  ASSUME CtxTypeOK, [CtxNext]_ctxVars, NEW o \in Object, Flagged(objects[o])
  PROVE  Flagged(objects'[o])
<1> USE DEF CtxTypeOK, Flagged
<1>1. ASSUME NEW r \in CtxRequest, CtxInsert(r) PROVE Flagged(objects'[o])
  BY <1>1 DEF CtxInsert
<1>2. ASSUME NEW p \in Object, MarkStale(p) \/ MarkQuarantined(p) PROVE Flagged(objects'[o])
  BY <1>2 DEF MarkStale, MarkQuarantined, CtxMark
<1>3. CASE UNCHANGED objects
  BY <1>3
<1> QED BY <1>1, <1>2, <1>3 DEF CtxNext, ctxVars, CtxAbort, CtxLookUp, CreateRef

\* A content that was marked stale or quarantined never becomes active again, whatever creations
\* were under way when it was marked.
THEOREM FlaggedStaysFlaggedHolds == CtxSpec => FlaggedStaysFlagged
<1>1. CtxTypeOK /\ [CtxNext]_ctxVars =>
        [\A o \in Object : objects[o] \in {"stale", "quarantined"}
                              => objects'[o] \in {"stale", "quarantined"}]_ctxVars
  BY FlagStep DEF Flagged
<1> QED BY <1>1, CtxTypeInvariance, PTL DEF FlaggedStaysFlagged, CtxSpec

-----------------------------------------------------------------------------
(* PermissionKernel *)

\* An evaluation that got as far as the rules crosses no boundary, the table it is about to read is
\* one that stood, and the rules it has read are those of one, or none at all.
RulesStood ==
  /\ ruling.pc \in {"load", "decide"} => ~ ruling.ask.breach
  /\ ruling.pc = "load" => policies \in tables
  /\ ruling.pc = "decide" =>
       IF ruling.readable THEN \E table \in tables : ruling.rules = InForce(table)
       ELSE ruling.rules = IF StaticFallback THEN BuiltIn ELSE {}

KernelInv == KernelTypeOK /\ RulesStood /\ AllowedHasGround

LEMMA KernelInitInv == KernelInit => KernelInv
  BY DEF KernelInit, KernelInv, KernelTypeOK, RulesStood, AllowedHasGround, RulingIdle, RulingSlot

LEMMA LoadedRules ==
  ASSUME KernelTypeOK, NEW readable \in BOOLEAN
  PROVE  /\ Loaded(readable) \in SUBSET (Rule \union BuiltIn)
         /\ readable => Loaded(readable) = InForce(policies)
         /\ ~ readable => Loaded(readable) = IF StaticFallback THEN BuiltIn ELSE {}
  BY KernelAssumption DEF Loaded, InForce, KernelTypeOK

\* What the decision procedure allows without an override, the rules allow.
LEMMA DecisionHasGround ==
  ASSUME NEW rules, NEW q, Decision(rules, q) = "allow"
  PROVE  IF q.override = "none" THEN Allows(rules, q)
         ELSE q.override = "reasoned" /\ (q.role = "admin" \/ q.subject = "system")
<1>1. \/ Elevated(q)
      \/ q.override = "none" /\ Holds("allow", rules, q) /\ ~ Holds("deny", rules, q)
  BY DEF Decision
<1> QED BY <1>1 DEF Allows, Elevated, Holds

LEMMA KernelStep ==
  ASSUME KernelInv, [KernelNext]_kernelVars
  PROVE  KernelInv'
<1> USE DEF KernelInv, KernelTypeOK
<1>0. CASE UNCHANGED kernelVars
  BY <1>0 DEF kernelVars, RulesStood, AllowedHasGround
<1>1. ASSUME NEW rule \in Rule, EditPolicies(rule) PROVE KernelInv'
  <2>1. /\ ruling' = ruling /\ policies' \subseteq Rule
        /\ tables' = IF ruling.pc = "load" THEN tables \union {policies'} ELSE tables
    BY <1>1 DEF EditPolicies
  <2>2. RulesStood'
    BY <2>1 DEF RulesStood
  <2>3. AllowedHasGround'
    <3>1. ruling.pc = "done" => tables' = tables
      BY <2>1
    <3> QED BY <2>1, <3>1 DEF AllowedHasGround
  <2> QED BY <2>1, <2>2, <2>3
<1>2. ASSUME NEW q \in Ask, Evaluate(q) PROVE KernelInv'
  <2>1. ruling' \in RulingSlot /\ policies' = policies /\ tables' = {policies}
    BY <1>2 DEF Evaluate, RulingSlot
  <2>2. RulesStood' /\ AllowedHasGround'
    BY <1>2 DEF Evaluate, RulesStood, AllowedHasGround
  <2> QED BY <2>1, <2>2
<1>3. ASSUME NEW readable \in BOOLEAN, LoadPolicies(readable) PROVE KernelInv'
  <2>1. ruling \in [pc: {"load"}, ask: Ask]
    BY <1>3 DEF LoadPolicies, RulingSlot, RulingIdle
  <2>2. ruling' \in RulingSlot /\ policies' = policies /\ tables' = tables
    BY <1>3, <2>1, LoadedRules DEF LoadPolicies, RulingSlot
  <2>3. /\ ruling'.pc = "decide" /\ ruling'.ask = ruling.ask /\ ruling'.readable = readable
        /\ ruling'.rules = Loaded(readable)
    BY <1>3 DEF LoadPolicies
  <2>4. RulesStood'
    BY <1>3, <2>2, <2>3, LoadedRules DEF LoadPolicies, RulesStood, InForce
  <2>5. AllowedHasGround'
    BY <2>3 DEF AllowedHasGround
  <2> QED BY <2>2, <2>4, <2>5
<1>4. CASE Decide
  <2>1. ruling \in [pc: {"decide"}, ask: Ask, rules: SUBSET (Rule \union BuiltIn),
                    readable: BOOLEAN]
    BY <1>4 DEF Decide, RulingSlot, RulingIdle
  <2>2. Decision(ruling.rules, ruling.ask) \in {"allow", "deny"}
    BY DEF Decision
  <2>3. ruling' \in RulingSlot /\ policies' = policies /\ tables' = tables
    BY <1>4, <2>1, <2>2 DEF Decide, RulingSlot
  <2>4. RulesStood'
    BY <1>4 DEF Decide, RulesStood
  <2>5. AllowedHasGround'
    <3>1. /\ ruling'.ask = ruling.ask /\ ruling'.readable = ruling.readable
          /\ ruling'.decision = Decision(ruling.rules, ruling.ask)
      BY <1>4 DEF Decide
    <3>2. CASE Decision(ruling.rules, ruling.ask) = "allow"
      <4>1. IF ruling.ask.override = "none" THEN Allows(ruling.rules, ruling.ask)
            ELSE /\ ruling.ask.override = "reasoned"
                 /\ ruling.ask.role = "admin" \/ ruling.ask.subject = "system"
        BY <3>2, DecisionHasGround
      <4>2. ~ ruling.ask.breach
        BY <1>4 DEF Decide, RulesStood
      <4>3. CASE ruling.ask.override # "none"
        BY <3>1, <4>1, <4>2, <4>3 DEF AllowedHasGround
      <4>4. CASE ruling.ask.override = "none" /\ ruling.readable
        <5>1. PICK table \in tables : ruling.rules = InForce(table)
          BY <1>4, <4>4 DEF Decide, RulesStood
        <5> QED BY <2>3, <3>1, <4>1, <4>2, <4>4, <5>1 DEF AllowedHasGround
      <4>5. CASE ruling.ask.override = "none" /\ ~ ruling.readable
        <5>1. ruling.rules = IF StaticFallback THEN BuiltIn ELSE {}
          BY <1>4, <4>5 DEF Decide, RulesStood
        <5>2. StaticFallback /\ Allows(BuiltIn, ruling.ask)
          BY <4>1, <4>5, <5>1, KernelAssumption DEF Allows
        <5> QED BY <3>1, <4>2, <4>5, <5>2 DEF AllowedHasGround
      <4> QED BY <2>1, <4>3, <4>4, <4>5
    <3>3. CASE Decision(ruling.rules, ruling.ask) # "allow"
      BY <3>1, <3>3 DEF AllowedHasGround
    <3> QED BY <3>2, <3>3
  <2> QED BY <2>3, <2>4, <2>5
<1>5. CASE Ruled
  BY <1>5 DEF Ruled, RulingIdle, RulingSlot, RulesStood, AllowedHasGround
<1> QED BY <1>0, <1>1, <1>2, <1>3, <1>4, <1>5 DEF KernelNext

\* Whatever the rules say, however they are edited and whoever asks: no permission crosses a
\* boundary, an override needs its rationale and its role, without one a table that stood allows the
\* request, and rules that cannot be read allow nothing.
THEOREM AllowedHasGroundHolds == KernelSpec => []AllowedHasGround
<1>1. KernelInv => AllowedHasGround
  BY DEF KernelInv
<1>2. KernelInv /\ [KernelNext]_kernelVars => KernelInv'
  BY KernelStep
<1> QED BY <1>1, <1>2, KernelInitInv, PTL DEF KernelSpec

-----------------------------------------------------------------------------
(* ContextVault *)

VaultShape ==
  /\ item \in Text \union {"absent", "deleted"}
  /\ chunks \in [Chunk -> Nat]
  /\ vaultReq \in [VaultRequest -> VaultSlot]
  /\ upkeep \in {"mixed", "sole", "whole"}

\* The chunks are those of the text t, once each, but for those in left.
Filled(t, left) == \A c \in Chunk : chunks[c] = IF c[1] = t /\ c \notin left THEN 1 ELSE 0

\* How far the one request in flight has got.
Underway(q) ==
  LET slot == vaultReq[q] IN
  /\ \A z \in VaultRequest \ {q} : VaultAt(z, "idle")
  /\ slot.pc \in {"create", "clear", "patch", "update"}
  /\ slot.pc = "create" => item = slot.text
  /\ slot.pc \in {"create", "patch"} =>
       slot.left \subseteq ChunksOf(slot.text) /\ Filled(slot.text, slot.left)
  /\ slot.pc = "update" => Filled(slot.text, {})

SoleOK == upkeep = "sole" => ItemExists /\ \E q \in VaultRequest : Underway(q)

\* Nothing is in flight but updates that write back the checksum there is.
WholeOK ==
  upkeep = "whole" =>
    /\ ItemExists /\ Filled(item, {})
    /\ \A z \in VaultRequest : VaultAt(z, "idle") \/ (VaultAt(z, "keep") /\ vaultReq[z].text = item)

GoneOK == ~ ItemExists => \A c \in Chunk : chunks[c] = 0

VaultInv == VaultShape /\ SoleOK /\ WholeOK /\ GoneOK

LEMMA VaultInitInv == VaultInit => VaultInv
  BY DEF VaultInit, VaultInv, VaultShape, SoleOK, WholeOK, GoneOK, None, VaultSlot

\* A slot that stands at pc has the fields of that place.
LEMMA VaultFields ==
  ASSUME VaultShape, NEW q \in VaultRequest
  PROVE  /\ vaultReq[q].pc \in {"clear", "update", "keep"} =>
              vaultReq[q] \in [pc: {"clear", "update", "keep"}, text: Text]
         /\ vaultReq[q].pc \in {"create", "patch"} =>
              vaultReq[q] \in [pc: {"create", "patch"}, text: Text, left: SUBSET Chunk]
<1>1. vaultReq[q] \in VaultSlot
  BY DEF VaultShape
<1>2. CASE vaultReq[q] = VaultIdle
  BY <1>2 DEF VaultIdle
<1>3. CASE vaultReq[q] \in [pc: {"clear", "update", "keep"}, text: Text]
  BY <1>3
<1>4. CASE vaultReq[q] \in [pc: {"create", "patch"}, text: Text, left: SUBSET Chunk]
  BY <1>4
<1>5. CASE vaultReq[q] \in [pc: {"drop chunks", "drop item"}]
  BY <1>5
<1> QED BY <1>1, <1>2, <1>3, <1>4, <1>5 DEF VaultSlot

\* What a step that moves request q to a slot does to the other slots.
LEMMA VaultMoves ==
  ASSUME VaultShape, NEW q \in VaultRequest, NEW slot \in VaultSlot, VaultGoto(q, slot)
  PROVE  /\ vaultReq' \in [VaultRequest -> VaultSlot]
         /\ vaultReq'[q] = slot
         /\ \A z \in VaultRequest \ {q} : vaultReq'[z] = vaultReq[z]
  BY DEF VaultShape, VaultGoto

LEMMA PostItemInv ==
  ASSUME VaultInv, NEW q \in VaultRequest, NEW t \in Text, PostItem(q, t)
  PROVE  VaultInv'
<1> USE ContextVaultAssumption
<1> DEFINE slot == [pc |-> "create", text |-> t, left |-> ChunksOf(t)]
<1>1. slot \in VaultSlot
  BY DEF VaultSlot, ChunksOf
<1>2. /\ vaultReq' \in [VaultRequest -> VaultSlot] /\ vaultReq'[q] = slot
      /\ \A z \in VaultRequest \ {q} : vaultReq'[z] = vaultReq[z]
  BY <1>1, VaultMoves DEF PostItem, VaultInv
<1>3. VaultShape'
  BY <1>2 DEF PostItem, Begins, VaultInv, VaultShape
<1>4. ItemExists' /\ item' = t /\ chunks' = chunks /\ upkeep' \in {"sole", "mixed"}
  BY DEF PostItem, ItemExists, Begins
<1>5. SoleOK'
  <2> SUFFICES ASSUME upkeep' = "sole" PROVE Underway(q)'
    BY <1>4 DEF SoleOK
  <2>1. \A z \in VaultRequest : VaultAt(z, "idle")
    BY DEF PostItem, Begins
  <2>2. Filled(t, ChunksOf(t))'
    BY <1>4 DEF Filled, ChunksOf, GoneOK, VaultInv, PostItem, ItemExists
  <2> QED BY <1>2, <1>4, <2>1, <2>2 DEF Underway, VaultAt, Filled
<1> QED BY <1>3, <1>4, <1>5 DEF VaultInv, WholeOK, GoneOK

LEMMA PatchTextInv ==
  ASSUME VaultInv, NEW q \in VaultRequest, NEW t \in Text, PatchText(q, t)
  PROVE  VaultInv'
<1> DEFINE slot == [pc |-> "clear", text |-> t]
<1>1. slot \in VaultSlot
  BY DEF VaultSlot
<1>2. /\ vaultReq' \in [VaultRequest -> VaultSlot] /\ vaultReq'[q] = slot
      /\ \A z \in VaultRequest \ {q} : vaultReq'[z] = vaultReq[z]
  BY <1>1, VaultMoves DEF PatchText, VaultInv
<1>3. VaultShape'
  BY <1>2 DEF PatchText, Begins, VaultInv, VaultShape
<1>4. ItemExists /\ ItemExists' /\ UNCHANGED <<item, chunks>> /\ upkeep' \in {"sole", "mixed"}
  BY DEF PatchText, ItemExists, Begins
<1>5. SoleOK'
  <2> SUFFICES ASSUME upkeep' = "sole" PROVE Underway(q)'
    BY <1>4 DEF SoleOK
  <2>1. \A z \in VaultRequest : VaultAt(z, "idle")
    BY DEF PatchText, Begins
  <2> QED BY <1>2, <2>1 DEF Underway, VaultAt
<1> QED BY <1>3, <1>4, <1>5 DEF VaultInv, WholeOK, GoneOK

LEMMA PatchMetadataInv ==
  ASSUME VaultInv, NEW q \in VaultRequest, PatchMetadata(q)
  PROVE  VaultInv'
<1> USE ContextVaultAssumption
<1> DEFINE slot == [pc |-> "keep", text |-> item]
<1>1. slot \in VaultSlot
  BY DEF VaultSlot, VaultInv, VaultShape, PatchMetadata, ItemExists
<1>2. /\ vaultReq' \in [VaultRequest -> VaultSlot] /\ vaultReq'[q] = slot
      /\ \A z \in VaultRequest \ {q} : vaultReq'[z] = vaultReq[z]
  BY <1>1, VaultMoves DEF PatchMetadata, VaultInv
<1>3. VaultShape'
  BY <1>2 DEF PatchMetadata, Begins, VaultInv, VaultShape
<1>4. ItemExists /\ ItemExists' /\ UNCHANGED <<item, chunks>>
  BY DEF PatchMetadata, ItemExists
<1>5. upkeep' # "sole"
  BY DEF PatchMetadata, Begins, VaultInv, SoleOK, Underway, VaultAt
<1>6. upkeep' = "whole" => upkeep = "whole"
  BY DEF PatchMetadata, Begins
<1>7. WholeOK'
  BY <1>2, <1>4, <1>6 DEF VaultInv, WholeOK, VaultAt, Filled
<1> QED BY <1>3, <1>4, <1>5, <1>7 DEF VaultInv, SoleOK, GoneOK

LEMMA InsertChunkInv ==
  ASSUME VaultInv, NEW q \in VaultRequest, InsertChunk(q)
  PROVE  VaultInv'
<1>1. /\ vaultReq[q].pc \in {"create", "patch"} /\ ItemExists
      /\ UNCHANGED <<item, upkeep>>
  BY DEF InsertChunk
<1>2. vaultReq[q] \in [pc: {"create", "patch"}, text: Text, left: SUBSET Chunk]
  BY <1>1, VaultFields DEF VaultInv
<1>3. PICK c \in vaultReq[q].left :
        /\ chunks' = [chunks EXCEPT ![c] = @ + 1]
        /\ VaultGoto(q, [vaultReq[q] EXCEPT !.left = @ \ {c}])
  BY DEF InsertChunk
<1> DEFINE slot == [vaultReq[q] EXCEPT !.left = @ \ {c}]
<1>4. /\ slot \in VaultSlot
      /\ slot.pc = vaultReq[q].pc /\ slot.text = vaultReq[q].text
      /\ slot.left = vaultReq[q].left \ {c}
  BY <1>2 DEF VaultSlot
<1> HIDE DEF slot
<1>5. /\ vaultReq' \in [VaultRequest -> VaultSlot] /\ vaultReq'[q] = slot
      /\ \A z \in VaultRequest \ {q} : vaultReq'[z] = vaultReq[z]
  BY <1>3, <1>4, VaultMoves DEF slot, VaultInv
<1>6. chunks' \in [Chunk -> Nat]
  BY <1>2, <1>3 DEF VaultInv, VaultShape
<1>7. VaultShape'
  BY <1>1, <1>5, <1>6 DEF VaultInv, VaultShape
<1>8. upkeep' # "whole"
  BY <1>1 DEF VaultInv, WholeOK, VaultAt
<1>9. SoleOK'
  <2> SUFFICES ASSUME upkeep = "sole" PROVE Underway(q)'
    BY <1>1 DEF SoleOK, ItemExists
  <2>1. Underway(q)
    BY <1>1 DEF VaultInv, SoleOK, Underway, VaultAt
  <2>2. Filled(vaultReq[q].text, vaultReq[q].left)
    BY <1>1, <2>1 DEF Underway
  <2>3. \A d \in Chunk : chunks'[d] = IF d[1] = slot.text /\ d \notin slot.left THEN 1 ELSE 0
    <3> SUFFICES ASSUME NEW d \in Chunk
                 PROVE  chunks'[d] = IF d[1] = slot.text /\ d \notin slot.left THEN 1 ELSE 0
      OBVIOUS
    <3>1. CASE d = c
      <4>1. d[1] = vaultReq[q].text
        BY <1>1, <1>3, <2>1, <3>1 DEF Underway, ChunksOf
      <4>2. chunks[d] = 0
        BY <1>2, <1>3, <2>2, <3>1 DEF Filled
      <4> QED BY <1>2, <1>3, <1>4, <3>1, <4>1, <4>2 DEF VaultInv, VaultShape
    <3>2. CASE d # c
      BY <1>2, <1>3, <1>4, <2>2, <3>2 DEF Filled, VaultInv, VaultShape
    <3> QED BY <3>1, <3>2
  <2> QED BY <1>1, <1>4, <1>5, <2>1, <2>3 DEF Underway, VaultAt, Filled
<1> QED BY <1>1, <1>7, <1>8, <1>9 DEF VaultInv, WholeOK, GoneOK, ItemExists

\* The last statement of a POST or PATCH of a text.
LEMMA EndsWhole ==
  ASSUME VaultInv, NEW q \in VaultRequest, VaultGoto(q, VaultIdle), Ends, chunks' = chunks,
         \/ VaultAt(q, "create") /\ vaultReq[q].left = {} /\ item' = item
         \/ /\ vaultReq[q].pc \in {"update", "keep"}
            /\ item' = IF ItemExists THEN vaultReq[q].text ELSE item
  PROVE  VaultInv'
<1> USE ContextVaultAssumption
<1>1. /\ vaultReq' \in [VaultRequest -> VaultSlot] /\ vaultReq'[q] = VaultIdle
      /\ \A z \in VaultRequest \ {q} : vaultReq'[z] = vaultReq[z]
  BY VaultMoves DEF VaultSlot, VaultInv
<1>2. vaultReq[q].pc \in {"update", "keep"} => vaultReq[q].text \in Text
  BY VaultFields DEF VaultInv
<1>3. VaultShape'
  BY <1>1, <1>2 DEF VaultInv, VaultShape, Ends, VaultAt
<1>4. ItemExists' = ItemExists
  BY <1>2 DEF ItemExists
<1>5. GoneOK' /\ SoleOK'
  BY <1>4 DEF GoneOK, SoleOK, Ends, VaultInv
<1>6. WholeOK'
  <2>1. CASE upkeep = "sole"
    <3>1. Underway(q)
      BY <2>1 DEF VaultInv, SoleOK, Underway, VaultAt
    <3>2. \A z \in VaultRequest : VaultAt(z, "idle")'
      BY <1>1, <3>1 DEF Underway, VaultAt, VaultIdle
    <3>3. Filled(vaultReq[q].text, {}) /\ item' = vaultReq[q].text
      BY <2>1, <3>1 DEF Underway, VaultAt, VaultInv, SoleOK
    <3>4. Filled(item, {})'
      BY <3>3 DEF Filled
    <3> QED BY <1>4, <2>1, <3>2, <3>4 DEF WholeOK, VaultInv, SoleOK
  <2>2. CASE upkeep = "whole"
    <3>1. vaultReq[q].pc = "keep" /\ vaultReq[q].text = item /\ item' = item
      BY <2>2 DEF VaultInv, WholeOK, VaultAt
    <3> QED BY <1>1, <1>4, <2>2, <3>1 DEF VaultInv, WholeOK, VaultAt, VaultIdle, Filled
  <2>3. CASE upkeep = "mixed"
    BY <2>3 DEF WholeOK, Ends
  <2> QED BY <2>1, <2>2, <2>3 DEF VaultInv, VaultShape
<1> QED BY <1>3, <1>5, <1>6 DEF VaultInv

LEMMA PatchClearInv ==
  ASSUME VaultInv, NEW q \in VaultRequest, PatchClear(q)
  PROVE  VaultInv'
<1> DEFINE t == vaultReq[q].text
           slot == [pc |-> "patch", text |-> t, left |-> ChunksOf(t)]
<1>1. t \in Text /\ slot \in VaultSlot
  BY VaultFields DEF PatchClear, VaultAt, VaultSlot, ChunksOf, VaultInv
<1>2. /\ vaultReq' \in [VaultRequest -> VaultSlot] /\ vaultReq'[q] = slot
      /\ \A z \in VaultRequest \ {q} : vaultReq'[z] = vaultReq[z]
  BY <1>1, VaultMoves DEF PatchClear, VaultInv
<1>3. \A c \in Chunk : chunks'[c] = 0
  BY DEF PatchClear, None
<1>4. VaultShape'
  BY <1>2 DEF PatchClear, None, VaultInv, VaultShape
<1>5. UNCHANGED <<item, upkeep>> /\ upkeep # "whole"
  BY DEF PatchClear, VaultInv, WholeOK, VaultAt
<1>6. SoleOK'
  <2> SUFFICES ASSUME upkeep = "sole" PROVE Underway(q)'
    BY <1>5 DEF VaultInv, SoleOK, ItemExists
  <2>1. Underway(q)
    BY DEF VaultInv, SoleOK, Underway, VaultAt, PatchClear
  <2> QED BY <1>2, <1>3, <2>1 DEF Underway, VaultAt, Filled, ChunksOf
<1> QED BY <1>3, <1>4, <1>5, <1>6 DEF VaultInv, WholeOK, GoneOK

LEMMA PatchChunkedInv ==
  ASSUME VaultInv, NEW q \in VaultRequest, PatchChunked(q)
  PROVE  VaultInv'
<1> DEFINE slot == [pc |-> "update", text |-> vaultReq[q].text]
<1>1. slot \in VaultSlot
  BY VaultFields DEF PatchChunked, VaultAt, VaultSlot, VaultInv
<1>2. /\ vaultReq' \in [VaultRequest -> VaultSlot] /\ vaultReq'[q] = slot
      /\ \A z \in VaultRequest \ {q} : vaultReq'[z] = vaultReq[z]
  BY <1>1, VaultMoves DEF PatchChunked, VaultInv
<1>3. VaultShape'
  BY <1>2 DEF PatchChunked, VaultInv, VaultShape
<1>4. UNCHANGED <<item, chunks, upkeep>> /\ upkeep # "whole"
  BY DEF PatchChunked, VaultInv, WholeOK, VaultAt
<1>5. SoleOK'
  <2> SUFFICES ASSUME upkeep = "sole" PROVE Underway(q)'
    BY <1>4 DEF VaultInv, SoleOK, ItemExists
  <2>1. Underway(q)
    BY DEF VaultInv, SoleOK, Underway, VaultAt, PatchChunked
  <2> QED BY <1>2, <1>4, <2>1 DEF Underway, VaultAt, Filled, PatchChunked
<1> QED BY <1>3, <1>4, <1>5 DEF VaultInv, WholeOK, GoneOK, ItemExists

\* A DELETE in flight, or a request that breaks off: nothing is said of the chunks any more.
LEMMA RestInv ==
  ASSUME VaultInv, NEW q \in VaultRequest,
         DeleteLook(q) \/ DropChunks(q) \/ DropItem(q) \/ VaultAbort(q)
  PROVE  VaultInv'
<1> DEFINE to == {VaultIdle} \union [pc: {"drop chunks", "drop item"}]
<1>1. PICK slot \in to : VaultGoto(q, slot)
  BY DEF DeleteLook, DropChunks, DropItem, VaultAbort
<1>2. slot \in VaultSlot
  BY DEF VaultSlot
<1>3. /\ vaultReq' \in [VaultRequest -> VaultSlot] /\ vaultReq'[q] = slot
      /\ \A z \in VaultRequest \ {q} : vaultReq'[z] = vaultReq[z]
  BY <1>1, <1>2, VaultMoves DEF VaultInv
<1>4. /\ item' \in {item, "deleted"} /\ (item' # item => \A c \in Chunk : chunks'[c] = 0)
      /\ chunks' = chunks \/ \A c \in Chunk : chunks'[c] = 0
      /\ chunks' \in [Chunk -> Nat]
  <2>1. CASE chunks' = chunks /\ item' = item
    BY <2>1 DEF VaultInv, VaultShape
  <2>2. CASE chunks' = None /\ item' \in {item, "deleted"}
    BY <2>2 DEF None
  <2> QED BY <2>1, <2>2 DEF DeleteLook, DropChunks, DropItem, VaultAbort
<1>5. upkeep' = "sole" => VaultAbort(q)
  <2>1. CASE DeleteLook(q)
    BY <2>1 DEF DeleteLook, Begins
  <2>2. CASE DropChunks(q) \/ DropItem(q)
    <3>1. upkeep' = upkeep /\ vaultReq[q].pc \in {"drop chunks", "drop item"}
      BY <2>2 DEF DropChunks, DropItem, VaultAt
    <3> QED BY <3>1 DEF VaultInv, SoleOK, Underway, VaultAt
  <2> QED BY <2>1, <2>2
<1>6. CASE upkeep' = "mixed"
  <2>1. VaultShape'
    BY <1>3, <1>4, <1>6 DEF VaultInv, VaultShape
  <2>2. GoneOK'
    BY <1>4 DEF GoneOK, ItemExists, VaultInv
  <2> QED BY <1>6, <2>1, <2>2 DEF VaultInv, SoleOK, WholeOK
<1>7. CASE upkeep' # "mixed"
  <2>1. VaultAbort(q)
    <3>1. CASE DeleteLook(q)
      BY <1>7, <3>1 DEF DeleteLook, Begins
    <3>2. CASE DropChunks(q) \/ DropItem(q)
      <4>1. upkeep' = upkeep /\ vaultReq[q].pc \in {"drop chunks", "drop item"}
        BY <3>2 DEF DropChunks, DropItem, VaultAt
      <4> QED BY <1>5, <1>7, <4>1 DEF VaultInv, VaultShape, WholeOK, VaultAt
    <3> QED BY <3>1, <3>2
  <2>2. /\ UNCHANGED <<item, chunks>> /\ upkeep' = "whole" /\ upkeep = "whole"
        /\ vaultReq'[q] = VaultIdle
    BY <1>7, <2>1 DEF VaultAbort, VaultGoto, VaultInv, VaultShape
  <2>3. VaultShape'
    BY <1>3, <2>2 DEF VaultInv, VaultShape
  <2>4. WholeOK'
    BY <1>3, <2>2 DEF VaultInv, WholeOK, VaultAt, VaultIdle, Filled, ItemExists
  <2> QED BY <2>2, <2>3, <2>4 DEF VaultInv, SoleOK, GoneOK, ItemExists
<1> QED BY <1>6, <1>7

LEMMA VaultStep ==
  ASSUME VaultInv, [VaultNext]_vaultVars
  PROVE  VaultInv'
<1>1. CASE UNCHANGED vaultVars
  BY <1>1 DEF vaultVars, VaultInv, VaultShape, SoleOK, WholeOK, GoneOK, Underway, Filled, VaultAt,
              ItemExists
<1>2. ASSUME NEW q \in VaultRequest, PostEnds(q) \/ PatchUpdate(q) PROVE VaultInv'
  BY <1>2, EndsWhole DEF PostEnds, PatchUpdate
<1>3. ASSUME NEW q \in VaultRequest,
             InsertChunk(q) \/ PatchMetadata(q) \/ PatchClear(q) \/ PatchChunked(q)
      PROVE  VaultInv'
  BY <1>3, InsertChunkInv, PatchMetadataInv, PatchClearInv, PatchChunkedInv
<1>4. ASSUME NEW q \in VaultRequest, DeleteLook(q) \/ DropChunks(q) \/ DropItem(q) \/ VaultAbort(q)
      PROVE  VaultInv'
  BY <1>4, RestInv
<1>5. ASSUME NEW q \in VaultRequest, NEW t \in Text, PostItem(q, t) \/ PatchText(q, t)
      PROVE  VaultInv'
  BY <1>5, PostItemInv, PatchTextInv
<1> QED BY <1>1, <1>2, <1>3, <1>4, <1>5 DEF VaultNext

\* A POST or PATCH of a text that met no other request leaves every chunk of the text once, whatever
\* was left before it, and a deleted item keeps no chunk: for any texts and any number of requests.
THEOREM VaultWholeHolds == VaultSpec => []VaultWhole
<1>1. VaultInv => VaultWhole
  <2> SUFFICES ASSUME VaultInv PROVE VaultWhole
    OBVIOUS
  <2>1. chunks = [c \in Chunk |-> chunks[c]]
    BY DEF VaultInv, VaultShape
  <2>2. upkeep = "whole" => chunks = [c \in Chunk |-> IF c[1] = item THEN 1 ELSE 0]
    BY <2>1 DEF VaultInv, WholeOK, Filled
  <2>3. item = "deleted" => chunks = None
    BY <2>1 DEF VaultInv, GoneOK, ItemExists, None
  <2> QED BY <2>2, <2>3 DEF VaultWhole
<1>2. VaultInv /\ [VaultNext]_vaultVars => VaultInv'
  BY VaultStep
<1> QED BY <1>1, <1>2, VaultInitInv, PTL DEF VaultSpec

\* The requests that have still to insert a chunk.
Pending(c) ==
  {q \in VaultRequest : vaultReq[q].pc \in {"create", "patch"} /\ c \in vaultReq[q].left}

\* A request inserts a chunk once after it has deleted all: the rows of a chunk, and the inserts
\* to come, are no more than the requests.
CopiesOK == \A c \in Chunk : chunks[c] + Cardinality(Pending(c)) <= Cardinality(VaultRequest)

LEMMA PendingFinite ==
  \A c : /\ IsFiniteSet(Pending(c)) /\ Cardinality(Pending(c)) \in Nat
         /\ Cardinality(Pending(c)) <= Cardinality(VaultRequest)
         /\ Cardinality(VaultRequest) \in Nat
<1> SUFFICES ASSUME NEW c
             PROVE  /\ IsFiniteSet(Pending(c)) /\ Cardinality(Pending(c)) \in Nat
                    /\ Cardinality(Pending(c)) <= Cardinality(VaultRequest)
                    /\ Cardinality(VaultRequest) \in Nat
  OBVIOUS
<1>1. IsFiniteSet(VaultRequest) /\ Pending(c) \in SUBSET VaultRequest
  BY ContextVaultAssumption DEF Pending
<1> QED BY <1>1, FS_Subset, FS_CardinalityType

\* Where no row is, or none is added and nothing more is to come, the bound is kept.
LEMMA CopiesClear ==
  ASSUME \A c \in Chunk : chunks'[c] = 0
  PROVE  CopiesOK'
<1>1. \A c : /\ Cardinality(Pending(c)') \in Nat
             /\ Cardinality(Pending(c)') <= Cardinality(VaultRequest)
  <2> SUFFICES ASSUME NEW c
               PROVE  /\ Cardinality(Pending(c)') \in Nat
                      /\ Cardinality(Pending(c)') <= Cardinality(VaultRequest)
    OBVIOUS
  <2>1. IsFiniteSet(VaultRequest) /\ Pending(c)' \in SUBSET VaultRequest
    BY ContextVaultAssumption DEF Pending
  <2> QED BY <2>1, FS_Subset, FS_CardinalityType
<1> QED BY <1>1 DEF CopiesOK

LEMMA CopiesKept ==
  ASSUME VaultShape, CopiesOK, chunks' = chunks, \A c : Pending(c)' \subseteq Pending(c)
  PROVE  CopiesOK'
<1> SUFFICES ASSUME NEW c \in Chunk
             PROVE  chunks'[c] + Cardinality(Pending(c)') <= Cardinality(VaultRequest)
  BY DEF CopiesOK
<1>1. /\ Cardinality(Pending(c)') <= Cardinality(Pending(c))
      /\ Cardinality(Pending(c)') \in Nat
  BY PendingFinite, FS_Subset, FS_CardinalityType
<1>2. chunks[c] \in Nat /\ chunks[c] + Cardinality(Pending(c)) <= Cardinality(VaultRequest)
  BY DEF VaultShape, CopiesOK
<1> QED BY <1>1, <1>2, PendingFinite

LEMMA CopiesInsert ==
  ASSUME VaultShape, CopiesOK, NEW q \in VaultRequest, InsertChunk(q)
  PROVE  CopiesOK'
<1>1. PICK d \in vaultReq[q].left :
        /\ chunks' = [chunks EXCEPT ![d] = @ + 1]
        /\ VaultGoto(q, [vaultReq[q] EXCEPT !.left = @ \ {d}])
  BY DEF InsertChunk
<1>2. /\ vaultReq[q] \in [pc: {"create", "patch"}, text: Text, left: SUBSET Chunk]
      /\ vaultReq[q].pc \in {"create", "patch"}
  BY VaultFields DEF InsertChunk
<1> DEFINE slot == [vaultReq[q] EXCEPT !.left = @ \ {d}]
<1>3. slot.pc = vaultReq[q].pc /\ slot.left = vaultReq[q].left \ {d}
  BY <1>2
<1> HIDE DEF slot
<1>4. vaultReq' = [vaultReq EXCEPT ![q] = slot]
  BY <1>1 DEF VaultGoto, slot
<1>5. vaultReq'[q] = slot /\ \A z \in VaultRequest \ {q} : vaultReq'[z] = vaultReq[z]
  BY <1>4 DEF VaultShape
<1>6. Pending(d)' = Pending(d) \ {q} /\ q \in Pending(d)
  BY <1>1, <1>2, <1>3, <1>5 DEF Pending
<1>7. \A c : c # d => Pending(c)' = Pending(c)
  BY <1>2, <1>3, <1>5 DEF Pending
<1>8. Cardinality(Pending(d)') = Cardinality(Pending(d)) - 1
  BY <1>6, PendingFinite, FS_RemoveElement
<1>9. \A c \in Chunk : chunks[c] \in Nat /\ chunks'[c] = IF c = d THEN chunks[c] + 1 ELSE chunks[c]
  BY <1>1 DEF VaultShape
<1> SUFFICES ASSUME NEW c \in Chunk
             PROVE  chunks'[c] + Cardinality(Pending(c)') <= Cardinality(VaultRequest)
  BY DEF CopiesOK
<1>10. chunks[c] + Cardinality(Pending(c)) <= Cardinality(VaultRequest)
  BY DEF CopiesOK
<1>11. Cardinality(Pending(c)) \in Nat /\ Cardinality(VaultRequest) \in Nat
  BY PendingFinite
<1> QED BY <1>7, <1>8, <1>9, <1>10, <1>11

LEMMA CopiesStep ==
  ASSUME VaultInv, CopiesOK, [VaultNext]_vaultVars
  PROVE  CopiesOK'
<1>0. VaultShape
  BY DEF VaultInv
<1>1. CASE UNCHANGED vaultVars
  <2>1. chunks' = chunks /\ vaultReq' = vaultReq
    BY <1>1 DEF vaultVars
  <2> QED BY <1>0, <2>1, CopiesKept DEF Pending
<1>2. ASSUME NEW q \in VaultRequest, PatchClear(q) \/ DropChunks(q) \/ DropItem(q) PROVE CopiesOK'
  BY <1>2, CopiesClear DEF PatchClear, DropChunks, DropItem, None
<1>3. ASSUME NEW q \in VaultRequest, NEW t \in Text, PostItem(q, t) PROVE CopiesOK'
  <2>1. \A c \in Chunk : chunks'[c] = 0
    BY <1>3 DEF PostItem, VaultInv, GoneOK, ItemExists
  <2> QED BY <2>1, CopiesClear
<1>4. ASSUME NEW q \in VaultRequest, NEW slot, VaultGoto(q, slot), chunks' = chunks,
             slot.pc \notin {"create", "patch"}
      PROVE  CopiesOK'
  <2>1. vaultReq'[q] = slot /\ \A z \in VaultRequest \ {q} : vaultReq'[z] = vaultReq[z]
    BY <1>0, <1>4 DEF VaultGoto, VaultShape
  <2>2. \A c : Pending(c)' \subseteq Pending(c)
    BY <1>4, <2>1 DEF Pending
  <2> QED BY <1>0, <1>4, <2>2, CopiesKept
<1>5. ASSUME NEW q \in VaultRequest,
             PostEnds(q) \/ PatchMetadata(q) \/ PatchChunked(q) \/ PatchUpdate(q) \/ DeleteLook(q)
               \/ VaultAbort(q)
      PROVE  CopiesOK'
  <2>1. \E slot : VaultGoto(q, slot) /\ chunks' = chunks /\ slot.pc \notin {"create", "patch"}
    <3>1. CASE PostEnds(q) \/ PatchUpdate(q) \/ VaultAbort(q)
      BY <3>1 DEF PostEnds, PatchUpdate, VaultAbort, VaultIdle
    <3>2. CASE PatchMetadata(q)
      BY <3>2 DEF PatchMetadata
    <3>3. CASE PatchChunked(q)
      BY <3>3 DEF PatchChunked
    <3>4. CASE DeleteLook(q)
      <4> DEFINE slot == [pc |-> "drop chunks"]
      <4>1. slot.pc \notin {"create", "patch"}
        OBVIOUS
      <4>2. VaultGoto(q, slot) /\ chunks' = chunks
        BY <3>4 DEF DeleteLook
      <4> HIDE DEF slot
      <4> QED BY <4>1, <4>2
    <3> QED BY <1>5, <3>1, <3>2, <3>3, <3>4
  <2> QED BY <2>1, <1>4
<1>6. ASSUME NEW q \in VaultRequest, NEW t \in Text, PatchText(q, t) PROVE CopiesOK'
  BY <1>6, <1>4 DEF PatchText
<1>7. ASSUME NEW q \in VaultRequest, InsertChunk(q) PROVE CopiesOK'
  BY <1>0, <1>7, CopiesInsert
<1> QED BY <1>1, <1>2, <1>3, <1>5, <1>6, <1>7 DEF VaultNext

\* No chunk ever has more rows than there are requests that overlap, however many came before.
LEMMA VaultTypeCorrect == VaultSpec => []VaultTypeOK
<1>1. VaultInit => CopiesOK
  <2>1. VaultInit => \A c \in Chunk : chunks[c] = 0
    BY DEF VaultInit, None
  <2>2. ASSUME \A c \in Chunk : chunks[c] = 0 PROVE CopiesOK
    BY <2>2, PendingFinite DEF CopiesOK
  <2> QED BY <2>1, <2>2
<1>2. VaultInv /\ CopiesOK => VaultTypeOK
  <2> SUFFICES ASSUME VaultInv, CopiesOK PROVE VaultTypeOK
    OBVIOUS
  <2>1. \A c \in Chunk : chunks[c] \in 0..Cardinality(VaultRequest)
    BY PendingFinite DEF VaultInv, VaultShape, CopiesOK
  <2> QED BY <2>1 DEF VaultInv, VaultShape, VaultTypeOK
<1>3. VaultInv /\ CopiesOK /\ [VaultNext]_vaultVars => (VaultInv /\ CopiesOK)'
  BY VaultStep, CopiesStep
<1> QED BY <1>1, <1>2, <1>3, VaultInitInv, PTL DEF VaultSpec

-----------------------------------------------------------------------------
(* KnowledgeGraph *)

\* The vault is as it was when the last sync deleted, and that sync is still on its way.
MirrorPartial == mirror \in {"partial", "partial, mixed"}

MirrorWhole == mirror \in {"whole", "whole, mixed"}

\* No sync was under way when it began, and so none but it can be.
MirrorAlone == mirror \in {"partial", "whole"}

\* The fact f of the vault has an edge of its label or its relationship.
Covered(f) == Known(EdgeOf(f))

\* A sync that has read the facts of these origins, and written all but the ones it remembers.
Written(y, origins) ==
  \A f \in vault : f.origin \in origins =>
    \/ Covered(f) \/ f \in syncReq[y].todo
    \/ SyncAt(y, "insert") /\ f = syncReq[y].fact

Progress(y) ==
  /\ syncReq[y].pc \in {"items", "packs", "stated", "derived", "insert"}
  /\ SyncAt(y, "packs") => Written(y, {"item"})
  /\ SyncAt(y, "stated") \/ (SyncAt(y, "insert") /\ syncReq[y].back = "stated")
       => Written(y, {"item", "pack"})
  /\ SyncAt(y, "derived") \/ (SyncAt(y, "insert") /\ syncReq[y].back = "derived")
       => Written(y, {"item", "pack", "text"})

PartialOK == MirrorPartial => \E y \in SyncRequest : clearer = {y} /\ Progress(y)

CompleteOK == MirrorWhole => \A f \in vault : Covered(f)

\* Edges of derived relationships, written and about to be, are those of the vault.
AloneOK ==
  MirrorAlone =>
    /\ SyncedGraphSound
    /\ \A z \in SyncRequest :
         \/ SyncAt(z, "idle") \/ SyncAt(z, "hand")
         \/ /\ clearer = {z} /\ mirror = "partial"
            /\ syncReq[z].todo \subseteq vault
            /\ SyncAt(z, "insert") => syncReq[z].fact \in vault

GraphInv == GraphTypeOK /\ PartialOK /\ CompleteOK /\ AloneOK

USE GraphAssumption

LEMMA GraphInitInv == GraphInit => GraphInv
  BY DEF GraphInit, GraphInv, GraphTypeOK, PartialOK, CompleteOK, AloneOK, MirrorPartial,
         MirrorWhole, MirrorAlone, Mirror, SyncSlot

LEMMA EdgeFields ==
  ASSUME NEW f
  PROVE  EdgeOf(f).pair = f.pair /\ EdgeOf(f).relation = f.relation
  BY DEF EdgeOf

LEMMA SyncFields ==
  ASSUME NEW slot \in SyncSlot
  PROVE  /\ slot.pc \in {"items", "packs", "stated", "derived"} =>
              slot \in [pc: {"items", "packs", "stated", "derived"}, todo: SUBSET Fact]
         /\ slot.pc = "insert" =>
              slot \in [pc: {"insert"}, back: {"stated", "derived"}, fact: Fact, todo: SUBSET Fact]
         /\ slot.pc = "hand" => slot \in [pc: {"hand"}, edge: HandEdge]
         /\ slot.pc \in {"idle", "items", "packs", "stated", "derived", "insert", "hand"}
<1>1. CASE slot = SyncIdle
  BY <1>1 DEF SyncIdle
<1>2. CASE slot \in [pc: {"items", "packs", "stated", "derived"}, todo: SUBSET Fact]
  BY <1>2
<1>3. CASE slot \in [pc: {"insert"}, back: {"stated", "derived"}, fact: Fact, todo: SUBSET Fact]
  BY <1>3
<1>4. CASE slot \in [pc: {"hand"}, edge: HandEdge]
  BY <1>4
<1> QED BY <1>1, <1>2, <1>3, <1>4 DEF SyncSlot

LEMMA SyncMoves ==
  ASSUME GraphTypeOK, NEW y \in SyncRequest, NEW slot \in SyncSlot, SyncGoto(y, slot)
  PROVE  /\ syncReq' \in [SyncRequest -> SyncSlot]
         /\ syncReq'[y] = slot
         /\ \A z \in SyncRequest \ {y} : syncReq'[z] = syncReq[z]
  BY DEF GraphTypeOK, SyncGoto

\* Edges are never taken away but by a deletion: what is covered stays so.
LEMMA CoveredGrows ==
  ASSUME NEW f, Covered(f), edges \subseteq edges'
  PROVE  Covered(f)'
<1>1. PICK d \in edges : Duplicate(EdgeOf(f), d)
  BY DEF Covered, Known
<1> QED BY <1>1 DEF Covered, Known

LEMMA EditInv ==
  ASSUME GraphInv, NEW f \in Fact, EditVault(f)
  PROVE  GraphInv'
  BY DEF EditVault, GraphInv, GraphTypeOK, PartialOK, CompleteOK, AloneOK, MirrorPartial,
         MirrorWhole, MirrorAlone, Mirror

LEMMA ClearInv ==
  ASSUME GraphInv, NEW y \in SyncRequest, SyncClear(y)
  PROVE  GraphInv'
<1> DEFINE slot == [pc |-> "items", todo |-> {}]
<1>1. slot \in SyncSlot
  BY DEF SyncSlot
<1>2. /\ syncReq' \in [SyncRequest -> SyncSlot] /\ syncReq'[y] = slot
      /\ \A z \in SyncRequest \ {y} : syncReq'[z] = syncReq[z]
  BY <1>1, SyncMoves DEF SyncClear, GraphInv
<1>3. GraphTypeOK'
  BY <1>2 DEF SyncClear, Cleared, GraphInv, GraphTypeOK, Mirror
<1>4. PartialOK'
  <2>1. Progress(y)'
    BY <1>2 DEF Progress, SyncAt
  <2> QED BY <2>1 DEF PartialOK, SyncClear
<1>5. CompleteOK'
  BY DEF CompleteOK, MirrorWhole, SyncClear
<1>6. AloneOK'
  <2> SUFFICES ASSUME MirrorAlone' PROVE AloneOK'
    BY DEF AloneOK
  <2>1. mirror' = "partial" /\ \A z \in SyncRequest : SyncAt(z, "idle")
    BY DEF SyncClear, MirrorAlone
  <2>2. SyncedGraphSound'
    <3>1. \A e \in edges' : e.relation \notin Dependency
      BY DEF SyncClear, Cleared
    <3> QED BY <3>1 DEF SyncedGraphSound
  <2>3. \A z \in SyncRequest \ {y} : SyncAt(z, "idle")'
    BY <1>2, <2>1 DEF SyncAt
  <2>4. clearer' = {y} /\ syncReq'[y].todo \subseteq vault' /\ ~ SyncAt(y, "insert")'
    <3>1. syncReq'[y].todo = {} /\ syncReq'[y].pc = "items"
      BY <1>2
    <3> QED BY <3>1 DEF SyncClear, SyncAt
  <2> QED BY <2>1, <2>2, <2>3, <2>4 DEF AloneOK
<1> QED BY <1>3, <1>4, <1>5, <1>6 DEF GraphInv

\* The statements of a sync that leave the edges alone: the facts read are remembered, and those
\* remembered are written, known, or still remembered.
LEMMA QuietInv ==
  ASSUME GraphInv, NEW y \in SyncRequest, NEW slot \in SyncSlot, SyncGoto(y, slot),
         UNCHANGED <<vault, edges, clearer, mirror>>,
         slot.pc \in {"packs", "stated", "derived", "insert"},
         syncReq[y].pc \in {"items", "packs", "stated", "derived"},
         slot.todo \subseteq syncReq[y].todo \union vault,
         slot.pc = "insert" => slot.fact \in syncReq[y].todo,
         Progress(y) => Progress(y)'
  PROVE  GraphInv'
<1>1. /\ syncReq' \in [SyncRequest -> SyncSlot] /\ syncReq'[y] = slot
      /\ \A z \in SyncRequest \ {y} : syncReq'[z] = syncReq[z]
  BY SyncMoves DEF GraphInv
<1>2. GraphTypeOK'
  BY <1>1 DEF GraphInv, GraphTypeOK
<1>3. PartialOK'
  <2> SUFFICES ASSUME MirrorPartial PROVE PartialOK'
    BY DEF PartialOK, MirrorPartial
  <2>1. PICK z \in SyncRequest : clearer = {z} /\ Progress(z)
    BY DEF GraphInv, PartialOK
  <2>2. Progress(z)'
    <3>1. CASE z = y
      BY <2>1, <3>1
    <3>2. CASE z # y
      BY <1>1, <2>1, <3>2 DEF Progress, Written, Covered, Known, SyncAt
    <3> QED BY <3>1, <3>2
  <2> QED BY <2>1, <2>2 DEF PartialOK
<1>4. CompleteOK'
  BY DEF GraphInv, CompleteOK, MirrorWhole, Covered, Known
<1>5. AloneOK'
  <2> SUFFICES ASSUME MirrorAlone PROVE AloneOK'
    BY DEF AloneOK, MirrorAlone
  <2>1. SyncedGraphSound'
    BY DEF GraphInv, AloneOK, SyncedGraphSound
  <2>2. clearer = {y} /\ mirror = "partial" /\ syncReq[y].todo \subseteq vault
    BY DEF GraphInv, AloneOK, SyncAt
  <2>3. slot.todo \subseteq vault /\ (slot.pc = "insert" => slot.fact \in vault)
    BY <2>2
  <2>4. \A z \in SyncRequest \ {y} : SyncAt(z, "idle") \/ SyncAt(z, "hand")
    BY <2>2 DEF GraphInv, AloneOK
  <2> QED BY <1>1, <2>1, <2>2, <2>3, <2>4 DEF AloneOK, SyncAt
<1> QED BY <1>2, <1>3, <1>4, <1>5 DEF GraphInv

LEMMA ReadInv ==
  ASSUME GraphInv, NEW y \in SyncRequest,
         SyncReadItems(y) \/ SyncReadPacks(y) \/ SyncReadTexts(y)
  PROVE  GraphInv'
<1>1. PICK pc \in {"packs", "stated", "derived"}, origin \in {"item", "pack", "text"} :
        /\ Read(y, origin, pc)
        /\ \/ SyncAt(y, "items") /\ origin = "item" /\ pc = "packs"
           \/ SyncAt(y, "packs") /\ origin = "pack" /\ pc = "stated"
           \/ SyncAt(y, "stated") /\ syncReq[y].todo = {} /\ origin = "text" /\ pc = "derived"
  BY DEF SyncReadItems, SyncReadPacks, SyncReadTexts
<1> DEFINE new == {f \in vault : f.origin = origin}
           slot == [pc |-> pc, todo |-> syncReq[y].todo \union new]
<1>2. syncReq[y].todo \subseteq Fact
  BY <1>1, SyncFields DEF SyncAt, GraphInv, GraphTypeOK
<1>3. slot \in SyncSlot
  BY <1>2 DEF SyncSlot, GraphInv, GraphTypeOK
<1>4. SyncGoto(y, slot) /\ UNCHANGED <<vault, edges, clearer, mirror>>
  BY <1>1 DEF Read
<1>5. syncReq'[y] = slot
  BY <1>3, <1>4, SyncMoves DEF GraphInv
<1>6. ASSUME Progress(y) PROVE Progress(y)'
  <2>1. CASE SyncAt(y, "items")
    BY <1>1, <1>4, <1>5, <2>1 DEF Progress, Written, SyncAt
  <2>2. CASE SyncAt(y, "packs")
    BY <1>1, <1>4, <1>5, <1>6, <2>2 DEF Progress, Written, SyncAt, Covered, Known
  <2>3. CASE SyncAt(y, "stated")
    BY <1>1, <1>4, <1>5, <1>6, <2>3 DEF Progress, Written, SyncAt, Covered, Known
  <2> QED BY <1>1, <2>1, <2>2, <2>3
<1> QED BY <1>1, <1>3, <1>4, <1>6, QuietInv DEF SyncAt

LEMMA CheckInv ==
  ASSUME GraphInv, NEW y \in SyncRequest, SyncCheck(y)
  PROVE  GraphInv'
<1>1. syncReq[y] \in [pc: {"items", "packs", "stated", "derived"}, todo: SUBSET Fact]
  BY SyncFields DEF SyncCheck, GraphInv, GraphTypeOK
<1>2. PICK f \in syncReq[y].todo :
        \/ /\ Covered(f)
           /\ SyncGoto(y, [pc |-> syncReq[y].pc, todo |-> syncReq[y].todo \ {f}])
        \/ SyncGoto(y, [pc |-> "insert", back |-> syncReq[y].pc, fact |-> f,
                        todo |-> syncReq[y].todo \ {f}])
  BY DEF SyncCheck, Upcoming, Covered
<1>3. syncReq[y].pc \in {"stated", "derived"} /\ UNCHANGED <<vault, edges, clearer, mirror>>
  BY DEF SyncCheck
<1>4. CASE /\ Covered(f)
           /\ SyncGoto(y, [pc |-> syncReq[y].pc, todo |-> syncReq[y].todo \ {f}])
  <2> DEFINE slot == [pc |-> syncReq[y].pc, todo |-> syncReq[y].todo \ {f}]
  <2>1. slot \in SyncSlot
    BY <1>1 DEF SyncSlot
  <2>2. syncReq'[y] = slot
    BY <1>4, <2>1, SyncMoves DEF GraphInv
  <2>3. Progress(y) => Progress(y)'
    BY <1>3, <1>4, <2>2 DEF Progress, Written, SyncAt, Covered, Known
  <2> QED BY <1>3, <1>4, <2>1, <2>3, QuietInv
<1>5. CASE SyncGoto(y, [pc |-> "insert", back |-> syncReq[y].pc, fact |-> f,
                        todo |-> syncReq[y].todo \ {f}])
  <2> DEFINE slot == [pc |-> "insert", back |-> syncReq[y].pc, fact |-> f,
                      todo |-> syncReq[y].todo \ {f}]
  <2>1. slot \in SyncSlot
    BY <1>1, <1>3 DEF SyncSlot
  <2>2. syncReq'[y] = slot
    BY <1>5, <2>1, SyncMoves DEF GraphInv
  <2>3. Progress(y) => Progress(y)'
    BY <1>3, <2>2 DEF Progress, Written, SyncAt, Covered, Known
  <2> QED BY <1>3, <1>5, <2>1, <2>3, QuietInv
<1> QED BY <1>2, <1>4, <1>5

LEMMA InsertEdgeInv ==
  ASSUME GraphInv, NEW y \in SyncRequest, SyncInsert(y)
  PROVE  GraphInv'
<1>1. syncReq[y] \in [pc: {"insert"}, back: {"stated", "derived"}, fact: Fact, todo: SUBSET Fact]
  BY SyncFields DEF SyncInsert, SyncAt, GraphInv, GraphTypeOK
<1>0. PICK f \in Fact : f = syncReq[y].fact
  BY <1>1
<1> DEFINE slot == [pc |-> syncReq[y].back, todo |-> syncReq[y].todo]
<1>2. slot \in SyncSlot
  BY <1>1 DEF SyncSlot
<1>3. /\ syncReq' \in [SyncRequest -> SyncSlot] /\ syncReq'[y] = slot
      /\ \A z \in SyncRequest \ {y} : syncReq'[z] = syncReq[z]
  BY <1>2, SyncMoves DEF SyncInsert, GraphInv
<1>4. /\ edges' = edges \union {EdgeOf(f)} /\ UNCHANGED <<vault, clearer, mirror>>
      /\ SyncAt(y, "insert")
  BY <1>0 DEF SyncInsert
<1>5. GraphTypeOK'
  BY <1>1, <1>3, <1>4 DEF GraphInv, GraphTypeOK
<1>6. \A g : Covered(g) => Covered(g)'
  <2>1. edges \subseteq edges'
    BY <1>4
  <2> QED BY <2>1, CoveredGrows
<1>7. Covered(f)'
  <2>1. EdgeOf(f) \in edges' /\ Duplicate(EdgeOf(f), EdgeOf(f))
    BY <1>4 DEF Duplicate
  <2> QED BY <2>1 DEF Covered, Known
<1>8. CompleteOK'
  BY <1>4, <1>6 DEF GraphInv, CompleteOK, MirrorWhole
<1>9. PartialOK'
  <2> SUFFICES ASSUME MirrorPartial PROVE PartialOK'
    BY <1>4 DEF PartialOK, MirrorPartial
  <2>1. PICK z \in SyncRequest : clearer = {z} /\ Progress(z)
    BY DEF GraphInv, PartialOK
  <2>2. Progress(z)'
    <3>1. CASE z = y
      BY <1>0, <1>1, <1>3, <1>4, <1>6, <1>7, <2>1, <3>1 DEF Progress, Written, SyncAt
    <3>2. CASE z # y
      BY <1>3, <1>4, <1>6, <2>1, <3>2 DEF Progress, Written, SyncAt
    <3> QED BY <3>1, <3>2
  <2> QED BY <1>4, <2>1, <2>2 DEF PartialOK
<1>10. AloneOK'
  <2> SUFFICES ASSUME MirrorAlone PROVE AloneOK'
    BY <1>4 DEF AloneOK, MirrorAlone
  <2>1. /\ clearer = {y} /\ mirror = "partial" /\ syncReq[y].todo \subseteq vault /\ f \in vault
        /\ SyncedGraphSound
    BY <1>0, <1>4 DEF GraphInv, AloneOK, SyncAt
  <2>2. SyncedGraphSound'
    BY <1>4, <2>1 DEF SyncedGraphSound
  <2>3. \A z \in SyncRequest \ {y} : SyncAt(z, "idle") \/ SyncAt(z, "hand")
    BY <2>1 DEF GraphInv, AloneOK
  <2>4. slot.pc # "insert"
    BY <1>1
  <2> QED BY <1>3, <1>4, <2>1, <2>2, <2>3, <2>4 DEF AloneOK, SyncAt
<1> QED BY <1>5, <1>8, <1>9, <1>10 DEF GraphInv

LEMMA EndInv ==
  ASSUME GraphInv, NEW y \in SyncRequest, SyncEnd(y) \/ SyncAbort(y)
  PROVE  GraphInv'
<1>1. /\ syncReq' \in [SyncRequest -> SyncSlot] /\ syncReq'[y] = SyncIdle
      /\ \A z \in SyncRequest \ {y} : syncReq'[z] = syncReq[z]
  BY SyncMoves DEF SyncEnd, SyncAbort, SyncSlot, GraphInv
<1>2. UNCHANGED <<vault, edges, clearer>>
  BY DEF SyncEnd, SyncAbort
<1>3. CASE y \in clearer /\ MirrorPartial
  <2>1. clearer = {y} /\ Progress(y)
    BY <1>3 DEF GraphInv, PartialOK
  <2>2. mirror' \in {"none", "whole", "whole, mixed"}
    BY <1>3 DEF SyncEnd, SyncAbort, MirrorPartial
  <2>3. GraphTypeOK'
    BY <1>1, <1>2, <2>2 DEF GraphInv, GraphTypeOK, Mirror
  <2>4. CompleteOK'
    <3>1. CASE SyncEnd(y)
      <4>1. \A f \in vault : Covered(f)
        BY <2>1, <3>1 DEF SyncEnd, SyncAt, Progress, Written, GraphInv, GraphTypeOK
      <4> QED BY <1>2, <4>1 DEF CompleteOK, Covered, Known
    <3>2. CASE SyncAbort(y)
      BY <1>3, <3>2 DEF SyncAbort, MirrorPartial, CompleteOK, MirrorWhole
    <3> QED BY <3>1, <3>2
  <2>5. AloneOK'
    <3> SUFFICES ASSUME mirror' = "whole" PROVE AloneOK'
      BY <2>2 DEF AloneOK, MirrorAlone
    <3>1. mirror = "partial"
      BY <1>3 DEF SyncEnd, SyncAbort, MirrorPartial
    <3>2. SyncedGraphSound'
      BY <1>2, <3>1 DEF GraphInv, AloneOK, MirrorAlone, SyncedGraphSound
    <3>3. \A z \in SyncRequest \ {y} : SyncAt(z, "idle") \/ SyncAt(z, "hand")
      BY <2>1, <3>1 DEF GraphInv, AloneOK, MirrorAlone
    <3> QED BY <1>1, <3>2, <3>3 DEF AloneOK, SyncAt, SyncIdle
  <2> QED BY <2>2, <2>3, <2>4, <2>5 DEF GraphInv, PartialOK, MirrorPartial
<1>4. CASE ~ (y \in clearer /\ MirrorPartial)
  <2>1. mirror' = mirror
    BY <1>4 DEF SyncEnd, SyncAbort, MirrorPartial
  <2>2. GraphTypeOK'
    BY <1>1, <1>2, <2>1 DEF GraphInv, GraphTypeOK
  <2>3. CompleteOK'
    BY <1>2, <2>1 DEF GraphInv, CompleteOK, MirrorWhole, Covered, Known
  <2>4. PartialOK'
    <3> SUFFICES ASSUME MirrorPartial PROVE PartialOK'
      BY <2>1 DEF PartialOK, MirrorPartial
    <3>1. PICK z \in SyncRequest : clearer = {z} /\ Progress(z)
      BY DEF GraphInv, PartialOK
    <3>2. z # y
      BY <1>4, <3>1
    <3>3. Progress(z)'
      BY <1>1, <1>2, <3>1, <3>2 DEF Progress, Written, Covered, Known, SyncAt
    <3> QED BY <1>2, <3>1, <3>3 DEF PartialOK
  <2>5. AloneOK'
    BY <1>1, <1>2, <2>1 DEF GraphInv, AloneOK, MirrorAlone, SyncAt, SyncIdle, SyncedGraphSound
  <2> QED BY <2>2, <2>3, <2>4, <2>5 DEF GraphInv
<1> QED BY <1>3, <1>4

LEMMA HandInv ==
  ASSUME GraphInv, NEW y \in SyncRequest, HandInsert(y) \/ \E e \in HandEdge : HandCheck(y, e)
  PROVE  GraphInv'
<1>1. PICK slot \in SyncSlot : SyncGoto(y, slot) /\ slot.pc \in {"idle", "hand"}
  <2>1. CASE HandInsert(y)
    <3>1. SyncIdle \in SyncSlot /\ SyncIdle.pc = "idle"
      BY DEF SyncSlot, SyncIdle
    <3> QED BY <2>1, <3>1 DEF HandInsert
  <2>2. ASSUME NEW e \in HandEdge, HandCheck(y, e)
        PROVE  \E slot \in SyncSlot : SyncGoto(y, slot) /\ slot.pc \in {"idle", "hand"}
    <3>1. [pc |-> "hand", edge |-> e] \in SyncSlot
      BY DEF SyncSlot
    <3> QED BY <2>2, <3>1 DEF HandCheck
  <2> QED BY <2>1, <2>2
<1>2. /\ syncReq' \in [SyncRequest -> SyncSlot] /\ syncReq'[y] = slot
      /\ \A z \in SyncRequest \ {y} : syncReq'[z] = syncReq[z]
  BY <1>1, SyncMoves DEF GraphInv
<1>3. /\ syncReq[y].pc \in {"idle", "hand"} /\ UNCHANGED <<vault, clearer, mirror>>
      /\ \E S \in SUBSET HandEdge : edges' = edges \union S
  <2>1. CASE HandInsert(y)
    <3>1. syncReq[y].edge \in HandEdge
      BY <2>1, SyncFields DEF HandInsert, SyncAt, GraphInv, GraphTypeOK
    <3> QED BY <2>1, <3>1 DEF HandInsert, SyncAt
  <2>2. CASE \E e \in HandEdge : HandCheck(y, e)
    <3>1. edges' = edges \union {}
      BY <2>2 DEF HandCheck
    <3> QED BY <2>2, <3>1 DEF HandCheck, SyncAt
  <2> QED BY <2>1, <2>2
<1>4. GraphTypeOK'
  BY <1>2, <1>3 DEF GraphInv, GraphTypeOK
<1>5. \A g : Covered(g) => Covered(g)'
  <2>1. edges \subseteq edges'
    BY <1>3
  <2> QED BY <2>1, CoveredGrows
<1>6. CompleteOK'
  BY <1>3, <1>5 DEF GraphInv, CompleteOK, MirrorWhole
<1>7. PartialOK'
  <2> SUFFICES ASSUME MirrorPartial PROVE PartialOK'
    BY <1>3 DEF PartialOK, MirrorPartial
  <2>1. PICK z \in SyncRequest : clearer = {z} /\ Progress(z)
    BY DEF GraphInv, PartialOK
  <2>2. z # y
    BY <1>3, <2>1 DEF Progress
  <2>3. Progress(z)'
    BY <1>2, <1>3, <1>5, <2>1, <2>2 DEF Progress, Written, SyncAt
  <2> QED BY <1>3, <2>1, <2>3 DEF PartialOK
<1>8. AloneOK'
  <2>1. SyncedGraphSound => SyncedGraphSound'
    BY <1>3 DEF SyncedGraphSound
  <2> QED BY <1>1, <1>2, <1>3, <2>1 DEF GraphInv, AloneOK, MirrorAlone, SyncAt
<1> QED BY <1>4, <1>6, <1>7, <1>8 DEF GraphInv

LEMMA GraphStep ==
  ASSUME GraphInv, [GraphNext]_graphVars
  PROVE  GraphInv'
<1>1. CASE UNCHANGED graphVars
  BY <1>1 DEF graphVars, GraphInv, GraphTypeOK, PartialOK, CompleteOK, AloneOK, MirrorPartial,
              MirrorWhole, MirrorAlone, Progress, Written, Covered, Known, SyncAt, SyncedGraphSound
<1>2. ASSUME NEW f \in Fact, EditVault(f) PROVE GraphInv'
  BY <1>2, EditInv
<1>3. ASSUME NEW y \in SyncRequest,
             SyncClear(y) \/ SyncStep(y) \/ SyncAbort(y) \/ \E e \in HandEdge : HandCheck(y, e)
      PROVE  GraphInv'
  BY <1>3, ClearInv, ReadInv, CheckInv, InsertEdgeInv, EndInv, HandInv DEF SyncStep
<1> QED BY <1>1, <1>2, <1>3 DEF GraphNext

\* For any vault, any edges by hand and any number of overlapping syncs that may break off: the
\* graph mirrors the vault once the sync that was the last to delete has ended.
THEOREM SyncedGraphMirrorsHolds == GraphSpec => []SyncedGraphMirrors
<1>1. GraphInv => SyncedGraphMirrors
  <2> SUFFICES ASSUME GraphInv PROVE SyncedGraphMirrors
    OBVIOUS
  <2>1. ASSUME MirrorWhole, NEW f \in vault
        PROVE  \E e \in edges :
                 e.pair = f.pair /\ (e.relation = f.relation \/ e.label = EdgeOf(f).label)
    BY <2>1, EdgeFields DEF GraphInv, CompleteOK, Covered, Known, Duplicate
  <2>2. mirror = "whole" => SyncedGraphSound
    BY DEF GraphInv, AloneOK, MirrorAlone
  <2> QED BY <2>1, <2>2 DEF SyncedGraphMirrors, SyncedGraphComplete, MirrorWhole
<1>2. GraphInv /\ [GraphNext]_graphVars => GraphInv'
  BY GraphStep
<1> QED BY <1>1, <1>2, GraphInitInv, PTL DEF GraphSpec

-----------------------------------------------------------------------------
(* ChangeImpact *)

Open == GraphNode \ Forbidden

\* A chain of d edges of E inside the boundary, each from a dependent to what it depends on.
Chain(E, path, d) ==
  /\ path \in [0..d -> Open]
  /\ \A i \in 1..d : <<path[i], path[i - 1]>> \in E

\* f and what a chain of at most k edges leads to from f.
Ball(E, f, k) ==
  {f} \union {m \in Open : \E d \in 1..k : \E path \in [0..d -> Open] :
                Chain(E, path, d) /\ path[0] = f /\ path[d] = m}

LEMMA BallZero ==
  ASSUME NEW E, NEW f
  PROVE  Ball(E, f, 0) = {f}
BY DEF Ball

LEMMA BallOpen ==
  ASSUME NEW E, NEW f \in Open, NEW k \in Nat
  PROVE  Ball(E, f, k) \subseteq Open /\ f \in Ball(E, f, k)
BY DEF Ball

LEMMA BallGrows ==
  ASSUME NEW E, NEW f, NEW j \in Nat, NEW k \in Nat, j <= k
  PROVE  Ball(E, f, j) \subseteq Ball(E, f, k)
<1>1. \A d \in 1..j : d \in 1..k
  OBVIOUS
<1> QED BY <1>1 DEF Ball

\* The next level of a walk: what depends directly on what was reached.
LEMMA BallStep ==
  ASSUME NEW E, NEW f \in Open, NEW k \in Nat
  PROVE  \A m : m \in Ball(E, f, k + 1) <=>
                 m \in Ball(E, f, k) \/ (m \in Open /\ \E n \in Ball(E, f, k) : <<m, n>> \in E)
<1>1. ASSUME NEW m \in Ball(E, f, k + 1), m \notin Ball(E, f, k)
      PROVE  m \in Open /\ \E n \in Ball(E, f, k) : <<m, n>> \in E
  <2>1. m \in Open
    BY <1>1 DEF Ball
  <2>0. PICK d \in 1..(k + 1) : \E path \in [0..d -> Open] :
          Chain(E, path, d) /\ path[0] = f /\ path[d] = m
    BY <1>1 DEF Ball
  <2>2. PICK path \in [0..d -> Open] : Chain(E, path, d) /\ path[0] = f /\ path[d] = m
    BY <2>0
  <2>3. d \in 0..d /\ d - 1 \in 0..d /\ d \in 1..d
    BY <2>2
  <2>4. <<m, path[d - 1]>> \in E
    BY <2>2, <2>3 DEF Chain
  <2>5. CASE d = 1
    <3>1. path[d - 1] = f
      BY <2>2, <2>5
    <3> QED BY <2>1, <2>4, <3>1 DEF Ball
  <2>6. CASE d # 1
    <3> DEFINE c == d - 1
               part == [i \in 0..c |-> path[i]]
    <3>1. c \in 1..k /\ c \in Nat /\ \A i \in 0..c : i \in 0..d
      BY <2>6
    <3>2. \A i \in 1..c : i \in 1..d /\ i \in 0..c /\ i - 1 \in 0..c
      BY <3>1
    <3>3. part \in [0..c -> Open]
      BY <3>1, <2>2
    <3>4. \A i \in 0..c : part[i] = path[i]
      OBVIOUS
    <3>5. \A i \in 1..c : <<part[i], part[i - 1]>> \in E
      BY <3>2, <3>4, <2>2 DEF Chain
    <3>6. 0 \in 0..c /\ c \in 0..c
      BY <3>1
    <3>7. part[0] = f /\ part[c] = path[c]
      BY <3>4, <3>6, <2>2
    <3>8. path[c] \in Open
      BY <3>3, <3>6, <3>7
    <3>9. path[c] \in Ball(E, f, k)
      <4> HIDE DEF part, c
      <4> QED BY <3>1, <3>3, <3>5, <3>7, <3>8 DEF Ball, Chain
    <3> QED BY <2>1, <2>4, <3>9
  <2> QED BY <2>5, <2>6
<1>2. ASSUME NEW m \in Open, NEW n \in Ball(E, f, k), <<m, n>> \in E
      PROVE  m \in Ball(E, f, k + 1)
  <2>1. CASE n = f
    <3> DEFINE path == [i \in 0..1 |-> IF i = 0 THEN f ELSE m]
    <3>1. path \in [0..1 -> Open] /\ path[0] = f /\ path[1] = m
      OBVIOUS
    <3>2. \A i \in 1..1 : <<path[i], path[i - 1]>> \in E
      BY <1>2, <2>1
    <3>3. 1 \in 1..(k + 1)
      OBVIOUS
    <3> HIDE DEF path
    <3> QED BY <3>1, <3>2, <3>3 DEF Ball, Chain
  <2>2. CASE n # f
    <3>0. PICK d \in 1..k : \E old \in [0..d -> Open] :
            Chain(E, old, d) /\ old[0] = f /\ old[d] = n
      BY <1>2, <2>2 DEF Ball
    <3>1. PICK old \in [0..d -> Open] : Chain(E, old, d) /\ old[0] = f /\ old[d] = n
      BY <3>0
    <3> DEFINE e == d + 1
               path == [i \in 0..e |-> IF i = e THEN m ELSE old[i]]
    <3>2. e \in 1..(k + 1) /\ d \in 0..e /\ e \in 0..e /\ 0 \in 0..e /\ e # 0 /\ d # e /\ e - 1 = d
      OBVIOUS
    <3>3. \A i \in 0..e : i # e => i \in 0..d
      OBVIOUS
    <3>4. path \in [0..e -> Open]
      BY <3>3, <3>1
    <3>5. path[0] = f /\ path[e] = m /\ path[d] = n
      BY <3>1, <3>2
    <3>6. ASSUME NEW i \in 1..e PROVE <<path[i], path[i - 1]>> \in E
      <4>1. CASE i = e
        BY <4>1, <3>2, <3>5, <1>2
      <4>2. CASE i # e
        <5>1. i \in 1..d /\ i \in 0..e /\ i - 1 \in 0..e /\ i - 1 # e
          BY <4>2
        <5>2. path[i] = old[i] /\ path[i - 1] = old[i - 1]
          BY <5>1, <4>2
        <5> QED BY <5>1, <5>2, <3>1 DEF Chain
      <4> QED BY <4>1, <4>2
    <3> HIDE DEF path, e
    <3> QED BY <3>2, <3>4, <3>5, <3>6 DEF Ball, Chain
  <2> QED BY <2>1, <2>2
<1>3. Ball(E, f, k) \subseteq Ball(E, f, k + 1)
  BY BallGrows
<1> QED BY <1>1, <1>2, <1>3

LEMMA NatLeast ==
  ASSUME NEW T, T \subseteq Nat, T # {}
  PROVE  \E x \in T : \A y \in T : ~ (y < x)
<1> DEFINE R == OpToRel(<, Nat)
<1>1. ASSUME NEW x \in T, NEW y \in T, <<y, x>> \notin R PROVE ~ (y < x)
  <2>1. <<y, x>> \in Nat \X Nat
    OBVIOUS
  <2>2. ~ (<<y, x>>[1] < <<y, x>>[2])
    BY <1>1, <2>1 DEF OpToRel
  <2> QED BY <2>2
<1>2. IsWellFoundedOn(R, Nat)
  BY NatLessThanWellFounded
<1> HIDE DEF R
<1>3. \E x \in T : \A y \in T : <<y, x>> \notin R
  BY <1>2, WFMin
<1> QED BY <1>1, <1>3

LEMMA BallOne ==
  ASSUME NEW E, NEW f \in Open
  PROVE  Ball(E, f, 1) = {f} \union {m \in Open : <<m, f>> \in E}
<1>1. 0 \in Nat /\ 0 + 1 = 1
  OBVIOUS
<1>2. \A m : m \in Ball(E, f, 0 + 1) <=>
               m \in Ball(E, f, 0) \/ (m \in Open /\ \E n \in Ball(E, f, 0) : <<m, n>> \in E)
  BY <1>1, BallStep
<1>3. Ball(E, f, 0) = {f}
  BY BallZero
<1> QED BY <1>1, <1>2, <1>3

\* A set with f that no edge leaves inside the boundary holds every chain from f: the first node
\* of a chain outside it would depend on one inside.
LEMMA ClosedHoldsBall ==
  ASSUME NEW E, NEW S, NEW f \in S, NEW k \in Nat,
         \A n \in S, m \in Open : <<m, n>> \in E => m \in S
  PROVE  Ball(E, f, k) \subseteq S
<1> SUFFICES ASSUME NEW m \in Open, NEW d \in 1..k, NEW path \in [0..d -> Open],
                    Chain(E, path, d), path[0] = f, path[d] = m, m \notin S
             PROVE  FALSE
  BY DEF Ball
<1> DEFINE T == {i \in 0..d : path[i] \notin S}
<1>1. T \subseteq Nat /\ d \in T
  OBVIOUS
<1>2. PICK x \in T : \A y \in T : ~ (y < x)
  <2> HIDE DEF T
  <2> QED BY <1>1, NatLeast
<1>3. x \in 1..d /\ x - 1 \in Nat /\ x \in Nat /\ x - 1 < x /\ x - 1 \in 0..d
  BY <1>2
<1>4. x - 1 \notin T
  <2> HIDE DEF T
  <2> QED BY <1>2, <1>3
<1>5. path[x - 1] \in S /\ path[x] \in Open /\ <<path[x], path[x - 1]>> \in E /\ path[x] \notin S
  BY <1>2, <1>3, <1>4 DEF Chain
<1> QED BY <1>5

\* A walk that meets nothing new has met everything.
LEMMA BallSettles ==
  ASSUME NEW E, NEW f \in Open, NEW j \in Nat, NEW k \in Nat, j <= k,
         Ball(E, f, j + 1) = Ball(E, f, j)
  PROVE  Ball(E, f, k) = Ball(E, f, j)
<1> DEFINE S == Ball(E, f, j)
<1>1. f \in S /\ S \subseteq Ball(E, f, k)
  BY BallOpen, BallGrows
<1>2. \A n \in S, m \in Open : <<m, n>> \in E => m \in S
  BY BallStep
<1>3. Ball(E, f, k) \subseteq S
  <2> HIDE DEF S
  <2> QED BY <1>1, <1>2, ClosedHoldsBall
<1> QED BY <1>1, <1>3

\* What a change of f reaches: f is its own dependent only by an edge to itself.
Spread(E, f, k) == {m \in Ball(E, f, k) : m = f => <<f, f>> \in E}

\* The forbidden files next to those of N.
Stopped(E, N) == {m \in GraphNode \intersect Forbidden : \E n \in N : <<m, n>> \in E}

\* The changed files that have been followed to the end.
Followed(w) == (w.asked \ Unchangeable) \ w.left

\* The answer is right for the followed files F, and holds more and stop beside that.
AnswerSoFar(E, w, F, more, stop) ==
  /\ w.direct \union w.indirect =
       {m \in GraphNode : m \in more \/ \E g \in F : m \in Spread(E, g, w.reach)}
  /\ w.blocked =
       {m \in GraphNode : \/ m \in stop
                          \/ m \in (w.asked \intersect Unchangeable) \ w.left
                          \/ \E g \in F : m \in Stopped(E, Ball(E, g, w.reach - 1))}

\* A walk from f on a level: B is what was reached by as many edges, and of that all but the
\* front was looked up.
Level(E, w, f, B) ==
  LET seen == {f} \union (B \ w.front)
  IN  /\ w.front \subseteq B
      /\ w.next \subseteq Open \ B
      /\ \A m \in w.next : \E n \in B : <<m, n>> \in E
      /\ w.visited \ Forbidden = B \union w.next
      /\ w.visited \intersect Forbidden \subseteq w.blocked
      /\ \A n \in seen, m \in Open : <<m, n>> \in E => m \in B \union w.next
      /\ AnswerSoFar(E, w, Followed(w) \ {f}, {m \in B \union w.next : m = f => <<f, f>> \in E},
                Stopped(E, seen))

SpreadSoFar(E, w) ==
  /\ w.pc = "walk" => \E f \in Followed(w) : Level(E, w, f, Ball(E, f, w.level))
  /\ w.pc # "walk" => AnswerSoFar(E, w, Followed(w), {}, {})
  /\ w.pc = "done" => w.left = {}

Flight == [pc: {"files", "walk", "done"}, asked: Change, reach: 1..MaxDepth,
           left: SUBSET GraphNode, direct: SUBSET GraphNode, indirect: SUBSET GraphNode,
           blocked: SUBSET GraphNode, level: 1..MaxDepth, front: SUBSET GraphNode,
           next: SUBSET GraphNode, visited: SUBSET GraphNode]

ImpactInv ==
  /\ ImpactTypeOK
  /\ impact.pc # "idle" => impact.left \subseteq impact.asked
  /\ impact.pc = "walk" => impact.level < impact.reach
  /\ steady /\ impact.pc # "idle" => SpreadSoFar(Uses, impact)

USE ChangeImpactAssumption

LEMMA ImpactInitInv == ImpactInit => ImpactInv
  BY DEF ImpactInit, ImpactInv, ImpactTypeOK, ImpactSlot, ImpactIdle

\* The fields of a simulation in flight.
LEMMA ImpactFields ==
  ASSUME ImpactTypeOK, impact.pc # "idle"
  PROVE  impact \in Flight
<1>1. impact # ImpactIdle
  BY DEF ImpactIdle
<1>2. impact \in ImpactSlot \ {ImpactIdle}
  BY <1>1 DEF ImpactTypeOK
<1> HIDE DEF ImpactIdle
<1> QED BY <1>2 DEF ImpactSlot, Flight

LEMMA FlightFields ==
  ASSUME NEW w \in Flight
  PROVE  /\ w.asked \subseteq GraphNode
         /\ w.reach \in Nat /\ w.reach >= 1
         /\ w.level \in Nat /\ w.level >= 1
BY DEF Flight

LEMMA FlightInSlot == Flight \subseteq ImpactSlot /\ \A w \in Flight : w.pc # "idle"
BY DEF Flight, ImpactSlot

LEMMA StartInv ==
  ASSUME ImpactInv, NEW files \in Change, NEW reach \in 1..MaxDepth, ImpactStart(files, reach)
  PROVE  ImpactInv'
<1>1. ImpactTypeOK'
  BY DEF ImpactStart, ImpactInv, ImpactTypeOK, ImpactSlot
<1>2. /\ Uses' = Uses
      /\ impact' = [pc |-> "files", asked |-> files, reach |-> reach, left |-> files,
                    direct |-> {}, indirect |-> {}, blocked |-> {},
                    level |-> 1, front |-> {}, next |-> {}, visited |-> {}]
  BY DEF ImpactStart, Uses
<1>3. /\ impact'.pc = "files" /\ impact'.asked = files /\ impact'.left = files
      /\ impact'.direct = {} /\ impact'.indirect = {} /\ impact'.blocked = {}
  BY <1>2
<1>4. Followed(impact') = {}
  BY <1>3 DEF Followed
<1>5. SpreadSoFar(Uses', impact')
  BY <1>3, <1>4 DEF SpreadSoFar, AnswerSoFar
<1> QED BY <1>1, <1>3, <1>5 DEF ImpactInv

LEMMA SkipInv ==
  ASSUME ImpactInv, NEW f \in GraphNode, SkipFile(f)
  PROVE  ImpactInv'
<1>1. /\ impact.pc = "files" /\ f \in impact.left /\ f \in Unchangeable
      /\ Uses' = Uses /\ links' = links /\ imports' = imports /\ steady' = steady
      /\ impact' = [impact EXCEPT !.left = @ \ {f}, !.blocked = @ \union {f}]
  BY DEF SkipFile, Uses
<1>2. impact \in Flight /\ impact.left \subseteq impact.asked
  BY <1>1, ImpactFields DEF ImpactInv
<1>3. /\ impact' \in Flight
      /\ impact'.pc = "files" /\ impact'.asked = impact.asked /\ impact'.reach = impact.reach
      /\ impact'.left = impact.left \ {f} /\ impact'.blocked = impact.blocked \union {f}
      /\ impact'.direct = impact.direct /\ impact'.indirect = impact.indirect
  BY <1>1, <1>2 DEF Flight
<1>4. ASSUME steady PROVE SpreadSoFar(Uses', impact')
  <2>1. Followed(impact') = Followed(impact)
    BY <1>1, <1>3 DEF Followed
  <2>2. AnswerSoFar(Uses, impact, Followed(impact), {}, {})
    BY <1>1, <1>4 DEF ImpactInv, SpreadSoFar
  <2>3. AnswerSoFar(Uses, impact', Followed(impact), {}, {})
    BY <2>2, <1>1, <1>2, <1>3 DEF AnswerSoFar
  <2> QED BY <1>1, <1>3, <2>1, <2>3 DEF SpreadSoFar
<1>5. ImpactTypeOK'
  BY <1>1, <1>3, FlightInSlot DEF ImpactInv, ImpactTypeOK
<1> QED BY <1>1, <1>2, <1>3, <1>4, <1>5 DEF ImpactInv

\* A file all of whose dependents are direct: none is followed, or there are none.
LEMMA ShallowAnswer ==
  ASSUME NEW E, NEW f \in Open, NEW r \in Nat, r >= 1,
         r = 1 \/ {m \in Open : <<m, f>> \in E} = {}
  PROVE  /\ Ball(E, f, r) = {f} \union {m \in Open : <<m, f>> \in E}
         /\ Ball(E, f, r - 1) = {f}
<1>1. Ball(E, f, 0) = {f}
  BY BallZero
<1>2. Ball(E, f, 1) = {f} \union {m \in Open : <<m, f>> \in E}
  BY BallOne
<1>3. CASE r = 1
  <2>1. r - 1 = 0
    BY <1>3
  <2> QED BY <1>1, <1>2, <1>3, <2>1
<1>4. CASE {m \in Open : <<m, f>> \in E} = {}
  <2>1. Ball(E, f, 0 + 1) = Ball(E, f, 0)
    <3>1. 0 + 1 = 1
      OBVIOUS
    <3> QED BY <1>1, <1>2, <1>4, <3>1
  <2>2. 0 <= r /\ r - 1 \in Nat /\ 0 <= r - 1 /\ 0 \in Nat
    OBVIOUS
  <2>3. Ball(E, f, r) = Ball(E, f, 0) /\ Ball(E, f, r - 1) = Ball(E, f, 0)
    BY <2>1, <2>2, BallSettles
  <2> QED BY <1>1, <1>4, <2>3
<1> QED BY <1>3, <1>4

LEMMA TakeInv ==
  ASSUME ImpactInv, NEW f \in GraphNode, TakeFile(f)
  PROVE  ImpactInv'
<1> DEFINE near == UsedBy(f) \ Forbidden
           deeper == impact.reach > 1 /\ near # {}
<1>1. /\ impact.pc = "files" /\ f \in impact.left /\ f \in Open /\ f \notin Unchangeable
      /\ Uses' = Uses /\ links' = links /\ imports' = imports /\ steady' = steady
  BY DEF TakeFile, Open, Uses, Unchangeable
<1>2. impact \in Flight /\ impact.left \subseteq impact.asked
  BY <1>1, ImpactFields DEF ImpactInv
<1>3. impact' = [impact EXCEPT
        !.pc = IF deeper THEN "walk" ELSE "files",
        !.left = @ \ {f},
        !.direct = @ \union near,
        !.blocked = @ \union (UsedBy(f) \intersect Forbidden),
        !.level = 1, !.next = {},
        !.front = IF deeper THEN near ELSE {},
        !.visited = IF deeper THEN {f} \union near ELSE {}]
  BY DEF TakeFile
<1>4. /\ near = {m \in Open : <<m, f>> \in Uses}
      /\ UsedBy(f) \intersect Forbidden =
           {m \in GraphNode \intersect Forbidden : <<m, f>> \in Uses}
  BY DEF UsedBy, Open
<1>5. near \subseteq GraphNode /\ UsedBy(f) \subseteq GraphNode
  BY DEF UsedBy
<1> DEFINE stop == UsedBy(f) \intersect Forbidden
<1>6. UsedBy(f) \intersect Forbidden = stop
  OBVIOUS
<1>7. deeper \in BOOLEAN /\ (deeper => impact.reach > 1 /\ near # {})
      /\ (~ deeper => impact.reach = 1 \/ near = {})
  BY <1>2, FlightFields
<1> HIDE DEF near, deeper, stop
<1>8. impact' \in Flight
  <2>1. 1 \in 1..MaxDepth /\ {} \in SUBSET GraphNode
    OBVIOUS
  <2>2. near \in SUBSET GraphNode /\ stop \in SUBSET GraphNode
    BY <1>5, <1>6
  <2>3. /\ (IF deeper THEN near ELSE {}) \in SUBSET GraphNode
        /\ (IF deeper THEN {f} \union near ELSE {}) \in SUBSET GraphNode
        /\ (IF deeper THEN "walk" ELSE "files") \in {"files", "walk", "done"}
    BY <2>2
  <2>4. \A p \in {"files", "walk", "done"}, F, V \in SUBSET GraphNode :
          [impact EXCEPT !.pc = p, !.left = @ \ {f}, !.direct = @ \union near,
                         !.blocked = @ \union stop, !.level = 1, !.next = {},
                         !.front = F, !.visited = V] \in Flight
    BY <1>2, <2>1, <2>2 DEF Flight
  <2> QED BY <1>3, <1>6, <2>3, <2>4
<1>9. /\ impact'.asked = impact.asked /\ impact'.reach = impact.reach
      /\ impact'.left = impact.left \ {f}
      /\ impact'.direct = impact.direct \union near /\ impact'.indirect = impact.indirect
      /\ impact'.blocked = impact.blocked \union stop
      /\ impact'.level = 1 /\ impact'.next = {}
      /\ deeper => /\ impact'.pc = "walk" /\ impact'.front = near
                   /\ impact'.visited = {f} \union near
      /\ ~ deeper => impact'.pc = "files"
  BY <1>2, <1>3, <1>6 DEF Flight
<1>10. Ball(Uses, f, 1) = {f} \union near
  BY <1>1, <1>4, BallOne
<1>11. /\ Followed(impact') = Followed(impact) \union {f}
       /\ f \notin Followed(impact)
       /\ Followed(impact') \ {f} = Followed(impact)
  BY <1>1, <1>2, <1>9 DEF Followed
<1>12. ASSUME steady PROVE AnswerSoFar(Uses, impact, Followed(impact), {}, {})
  BY <1>1, <1>12 DEF ImpactInv, SpreadSoFar
<1>13. ASSUME steady, deeper PROVE SpreadSoFar(Uses', impact')
  <2> DEFINE B == {f} \union near
  <2>1. B = Ball(Uses, f, impact'.level)
    BY <1>9, <1>10
  <2>2. Stopped(Uses, {f} \union (B \ impact'.front)) = stop
    BY <1>4, <1>6, <1>9, <1>13 DEF Stopped
  <2>3. AnswerSoFar(Uses, impact', Followed(impact), {m \in B : m = f => <<f, f>> \in Uses}, stop)
    <3>1. {m \in B : m = f => <<f, f>> \in Uses} = near
      BY <1>1, <1>4
    <3>2. \A m \in Unchangeable : m # f
      BY <1>1
    <3>3. stop \subseteq GraphNode
      BY <1>4, <1>6
    <3> QED BY <1>5, <1>9, <1>12, <1>13, <3>1, <3>2, <3>3 DEF AnswerSoFar
  <2>4. Level(Uses, impact', f, B)
    <3>1. impact'.front = near /\ impact'.next = {} /\ impact'.visited = {f} \union near
      BY <1>9, <1>13
    <3>2. B \subseteq Open /\ B \intersect Forbidden = {}
      BY <1>1, <1>4 DEF Open
    <3>3. \A n \in {f} \union (B \ near), m \in Open : <<m, n>> \in Uses => m \in B
      BY <1>4
    <3>4. AnswerSoFar(Uses, impact', Followed(impact') \ {f},
                 {m \in B \union {} : m = f => <<f, f>> \in Uses},
                 Stopped(Uses, {f} \union (B \ impact'.front)))
      <4>1. B \union {} = B
        OBVIOUS
      <4> HIDE DEF B
      <4> QED BY <1>11, <2>2, <2>3, <4>1
    <3>5. /\ impact'.front \subseteq B
          /\ impact'.next \subseteq Open \ B
          /\ \A m \in impact'.next : \E n \in B : <<m, n>> \in Uses
          /\ impact'.visited \ Forbidden = B \union impact'.next
          /\ impact'.visited \intersect Forbidden \subseteq impact'.blocked
          /\ \A n \in {f} \union (B \ impact'.front), m \in Open :
               <<m, n>> \in Uses => m \in B \union impact'.next
      BY <3>1, <3>2, <3>3
    <3> HIDE DEF B
    <3> QED BY <3>1, <3>4, <3>5 DEF Level
  <2>5. f \in Followed(impact')
    BY <1>11
  <2> HIDE DEF B
  <2> QED BY <1>1, <1>9, <1>13, <2>1, <2>4, <2>5 DEF SpreadSoFar
<1>14. ASSUME steady, ~ deeper PROVE SpreadSoFar(Uses', impact')
  <2>1. /\ Ball(Uses, f, impact.reach) = {f} \union near
        /\ Ball(Uses, f, impact.reach - 1) = {f}
    <3>1. impact.reach \in Nat /\ impact.reach >= 1
      BY <1>2, FlightFields
    <3>2. impact.reach = 1 \/ {m \in Open : <<m, f>> \in Uses} = {}
      BY <1>4, <1>7, <1>14
    <3>3. /\ Ball(Uses, f, impact.reach) = {f} \union {m \in Open : <<m, f>> \in Uses}
          /\ Ball(Uses, f, impact.reach - 1) = {f}
      BY <1>1, <3>1, <3>2, ShallowAnswer
    <3> QED BY <1>4, <3>3
  <2>2. Spread(Uses, f, impact.reach) = near
    BY <1>1, <1>4, <2>1 DEF Spread
  <2>3. Stopped(Uses, Ball(Uses, f, impact.reach - 1)) = stop
    BY <1>4, <1>6, <2>1 DEF Stopped
  <2>4. AnswerSoFar(Uses, impact', Followed(impact'), {}, {})
    <3>1. \A m \in Unchangeable : m # f
      BY <1>1
    <3>2. stop \subseteq GraphNode
      BY <1>4, <1>6
    <3> QED BY <1>5, <1>9, <1>11, <1>12, <1>14, <2>2, <2>3, <3>1, <3>2 DEF AnswerSoFar
  <2> QED BY <1>1, <1>9, <1>14, <2>4 DEF SpreadSoFar
<1>15. ImpactTypeOK' /\ impact'.left \subseteq impact'.asked
  BY <1>1, <1>2, <1>8, <1>9, FlightInSlot DEF ImpactInv, ImpactTypeOK
<1>16. impact'.pc = "walk" => impact'.level < impact'.reach
  BY <1>7, <1>9
<1> QED BY <1>1, <1>7, <1>13, <1>14, <1>15, <1>16 DEF ImpactInv

\* The last file of a walk joins the followed ones.
LEMMA AnswerTakesIn ==
  ASSUME NEW E, NEW w, NEW F, NEW f \in F,
         AnswerSoFar(E, w, F \ {f}, Spread(E, f, w.reach), Stopped(E, Ball(E, f, w.reach - 1)))
  PROVE  AnswerSoFar(E, w, F, {}, {})
BY DEF AnswerSoFar

\* A walk ends when nothing new is met or at the last level.
LEMMA WalkEnds ==
  ASSUME NEW E, NEW f \in Open, NEW j \in Nat, NEW r \in Nat, j < r,
         Ball(E, f, j + 1) = Ball(E, f, j) \/ j + 1 = r
  PROVE  /\ Ball(E, f, r) = Ball(E, f, j + 1)
         /\ Ball(E, f, r - 1) = Ball(E, f, j)
<1>1. CASE Ball(E, f, j + 1) = Ball(E, f, j)
  <2>1. j <= r /\ j <= r - 1 /\ r - 1 \in Nat
    OBVIOUS
  <2>2. Ball(E, f, r) = Ball(E, f, j) /\ Ball(E, f, r - 1) = Ball(E, f, j)
    BY <1>1, <2>1, BallSettles
  <2> QED BY <1>1, <2>2
<1>2. CASE j + 1 = r
  <2>1. r - 1 = j
    BY <1>2
  <2> QED BY <1>2, <2>1
<1> QED BY <1>1, <1>2

LEMMA WalkInv ==
  ASSUME ImpactInv, NEW n \in GraphNode, Walk(n)
  PROVE  ImpactInv'
<1> DEFINE met == Unmet(n)
           rest == impact.front \ {n}
           next == impact.next \union (met \ Forbidden)
           ends == rest = {} /\ (next = {} \/ LastLevel)
<1>1. /\ impact.pc = "walk" /\ n \in impact.front
      /\ Uses' = Uses /\ links' = links /\ imports' = imports /\ steady' = steady
  BY DEF Walk, Uses
<1>2. impact \in Flight /\ impact.left \subseteq impact.asked /\ impact.level < impact.reach
  BY <1>1, ImpactFields DEF ImpactInv
<1>3. impact' = [impact EXCEPT
        !.pc = IF ends THEN "files" ELSE "walk",
        !.indirect = @ \union (met \ Forbidden),
        !.blocked = @ \union (met \intersect Forbidden),
        !.level = IF ends THEN 1 ELSE IF rest = {} THEN @ + 1 ELSE @,
        !.front = IF ends THEN {} ELSE IF rest = {} THEN next ELSE rest,
        !.next = IF rest = {} THEN {} ELSE next,
        !.visited = IF ends THEN {} ELSE @ \union met]
  BY DEF Walk
<1>4. met = {m \in GraphNode : <<m, n>> \in Uses /\ m \notin impact.visited}
  BY DEF Unmet, UsedBy
<1>5. /\ met \subseteq GraphNode /\ rest \subseteq GraphNode /\ next \subseteq GraphNode
  BY <1>2, <1>4 DEF Flight
<1>6. /\ rest = impact.front \ {n}
      /\ next = impact.next \union (met \ Forbidden)
      /\ ends <=> rest = {} /\ (next = {} \/ impact.level + 1 = impact.reach)
      /\ ends \in BOOLEAN
  BY DEF LastLevel
<1> HIDE DEF met, rest, next, ends
<1> DEFINE level == IF ends THEN 1 ELSE IF rest = {} THEN impact.level + 1 ELSE impact.level
           front == IF ends THEN {} ELSE IF rest = {} THEN next ELSE rest
           visited == IF ends THEN {} ELSE impact.visited \union met
<1>7. /\ level \in 1..MaxDepth
      /\ ~ ends => level < impact.reach
  <2>1. impact.level \in 1..MaxDepth /\ impact.reach \in 1..MaxDepth
    BY <1>2 DEF Flight
  <2>2. ~ ends /\ rest = {} => impact.level + 1 # impact.reach
    BY <1>6
  <2> QED BY <1>2, <2>1, <2>2
<1>8. impact' \in Flight
  <2>1. /\ front \in SUBSET GraphNode /\ visited \in SUBSET GraphNode
        /\ (IF rest = {} THEN {} ELSE next) \in SUBSET GraphNode
        /\ (IF ends THEN "files" ELSE "walk") \in {"files", "walk", "done"}
        /\ met \in SUBSET GraphNode
    BY <1>2, <1>5 DEF Flight
  <2>2. \A p \in {"files", "walk", "done"}, l \in 1..MaxDepth, F, N, V \in SUBSET GraphNode :
          [impact EXCEPT !.pc = p, !.indirect = @ \union (met \ Forbidden),
                         !.blocked = @ \union (met \intersect Forbidden), !.level = l,
                         !.front = F, !.next = N, !.visited = V] \in Flight
    BY <1>2, <2>1 DEF Flight
  <2>3. impact' = [impact EXCEPT
          !.pc = IF ends THEN "files" ELSE "walk",
          !.indirect = @ \union (met \ Forbidden),
          !.blocked = @ \union (met \intersect Forbidden),
          !.level = level, !.front = front,
          !.next = IF rest = {} THEN {} ELSE next,
          !.visited = visited]
    BY <1>2, <1>3 DEF Flight
  <2> HIDE DEF level, front, visited
  <2> QED BY <1>7, <2>1, <2>2, <2>3
<1>9. /\ impact'.asked = impact.asked /\ impact'.reach = impact.reach
      /\ impact'.left = impact.left /\ impact'.direct = impact.direct
      /\ impact'.indirect = impact.indirect \union (met \ Forbidden)
      /\ impact'.blocked = impact.blocked \union (met \intersect Forbidden)
      /\ impact'.pc = IF ends THEN "files" ELSE "walk"
  BY <1>2, <1>3 DEF Flight
<1>10. /\ impact'.level = level /\ impact'.front = front /\ impact'.visited = visited
       /\ impact'.next = IF rest = {} THEN {} ELSE next
  BY <1>2, <1>3 DEF Flight
<1>11. Followed(impact') = Followed(impact)
  BY <1>9 DEF Followed
<1>12. ASSUME steady PROVE SpreadSoFar(Uses', impact')
  <2>1. PICK f \in Followed(impact) : Level(Uses, impact, f, Ball(Uses, f, impact.level))
    BY <1>1, <1>12 DEF ImpactInv, SpreadSoFar
  <2>2. f \in Open
    BY <1>2, FlightFields DEF Followed, Open, Unchangeable
  <2>3. impact.level \in Nat /\ impact.reach \in Nat
    BY <1>2, FlightFields
  <2> DEFINE B == Ball(Uses, f, impact.level)
             seen == {f} \union (B \ impact.front)
             others == Followed(impact) \ {f}
  <2>4. f \in B /\ B \subseteq Open
    BY <2>2, <2>3, BallOpen
  <2>5. /\ impact.front \subseteq B
        /\ impact.next \subseteq Open \ B
        /\ \A m \in impact.next : \E k \in B : <<m, k>> \in Uses
        /\ impact.visited \ Forbidden = B \union impact.next
        /\ impact.visited \intersect Forbidden \subseteq impact.blocked
        /\ \A k \in seen, m \in Open : <<m, k>> \in Uses => m \in B \union impact.next
        /\ AnswerSoFar(Uses, impact, others,
                  {m \in B \union impact.next : m = f => <<f, f>> \in Uses},
                  Stopped(Uses, seen))
    BY <2>1 DEF Level
  <2>6. \A m : m \in Ball(Uses, f, impact.level + 1) <=>
                 m \in B \/ (m \in Open /\ \E k \in B : <<m, k>> \in Uses)
    BY <2>2, <2>3, BallStep
  <2> HIDE DEF B
  <2> DEFINE now == {f} \union (B \ rest)
  <2>7. /\ n \in B /\ now = seen \union {n}
    BY <1>1, <1>6, <2>5
  <2>8. /\ rest \subseteq B
        /\ next \subseteq Open \ B
        /\ \A m \in next : \E k \in B : <<m, k>> \in Uses
        /\ (impact.visited \union met) \ Forbidden = B \union next
    <3>1. rest \subseteq B
      BY <1>6, <2>5
    <3>2. (impact.visited \union met) \ Forbidden = B \union next
      BY <1>6, <2>5
    <3>3. ASSUME NEW m \in met \ Forbidden
          PROVE  m \in Open \ B /\ \E k \in B : <<m, k>> \in Uses
      <4>1. m \in Open /\ m \notin impact.visited /\ <<m, n>> \in Uses
        BY <3>3, <1>4 DEF Open
      <4>2. m \notin B
        BY <4>1, <2>5
      <4> QED BY <4>1, <4>2, <2>7
    <3>4. \A m \in next : m \in impact.next \/ m \in met \ Forbidden
      BY <1>6
    <3>5. next \subseteq Open \ B /\ \A m \in next : \E k \in B : <<m, k>> \in Uses
      <4> HIDE DEF seen, others
      <4>1. \A m \in impact.next : m \in Open \ B /\ \E k \in B : <<m, k>> \in Uses
        BY <2>5
      <4> QED BY <3>3, <3>4, <4>1
    <3> QED BY <3>1, <3>2, <3>5
  <2>9. (impact.visited \union met) \intersect Forbidden \subseteq impact'.blocked
    BY <1>9, <2>5
  <2>10. \A k \in now, m \in Open : <<m, k>> \in Uses => m \in B \union next
    <3>1. ASSUME NEW m \in Open, <<m, n>> \in Uses PROVE m \in B \union next
      BY <3>1, <1>4, <2>8 DEF Open
    <3>2. impact.next \subseteq next
      BY <1>6
    <3> HIDE DEF now, seen
    <3> QED BY <3>1, <3>2, <2>5, <2>7
  <2> DEFINE more == {m \in B \union next : m = f => <<f, f>> \in Uses}
             stop == Stopped(Uses, now)
  <2>11. AnswerSoFar(Uses, impact', others, more, stop)
    <3> DEFINE old == {m \in B \union impact.next : m = f => <<f, f>> \in Uses}
    <3>1. more = old \union (met \ Forbidden)
      <4>1. f \notin met
        BY <1>4, <2>4, <2>5
      <4>2. next = impact.next \union (met \ Forbidden)
        BY <1>6
      <4> QED BY <4>1, <4>2
    <3>2. \A m \in GraphNode :
            m \in stop \/ m \in impact.blocked <=>
              \/ m \in Stopped(Uses, seen) \/ m \in impact.blocked
              \/ m \in met \intersect Forbidden
      <4> HIDE DEF seen, now
      <4> QED BY <1>4, <2>5, <2>7 DEF Stopped
    <3>3. \A m \in GraphNode : m \in Stopped(Uses, seen) => m \in stop
      <4> HIDE DEF seen, now
      <4> QED BY <2>7 DEF Stopped
    <3>4. stop \subseteq GraphNode /\ met \subseteq GraphNode
      BY <1>5 DEF Stopped
    <3> HIDE DEF more, old, stop, seen, others
    <3>5. impact'.direct \union impact'.indirect =
            {m \in GraphNode :
               m \in more \/ \E g \in others : m \in Spread(Uses, g, impact'.reach)}
      <4>1. impact.direct \union impact.indirect =
              {m \in GraphNode :
                 m \in old \/ \E g \in others : m \in Spread(Uses, g, impact.reach)}
        BY <2>5 DEF AnswerSoFar, old
      <4>2. impact'.direct \union impact'.indirect =
              (impact.direct \union impact.indirect) \union (met \ Forbidden)
        BY <1>9
      <4> QED BY <1>9, <3>1, <3>4, <4>1, <4>2
    <3>6. impact'.blocked =
            {m \in GraphNode : \/ m \in stop
                               \/ m \in (impact'.asked \intersect Unchangeable) \ impact'.left
                               \/ \E g \in others :
                                    m \in Stopped(Uses, Ball(Uses, g, impact'.reach - 1))}
      <4>1. impact.blocked =
              {m \in GraphNode : \/ m \in Stopped(Uses, seen)
                                 \/ m \in (impact.asked \intersect Unchangeable) \ impact.left
                                 \/ \E g \in others :
                                      m \in Stopped(Uses, Ball(Uses, g, impact.reach - 1))}
        BY <2>5 DEF AnswerSoFar
      <4>2. impact'.blocked = impact.blocked \union (met \intersect Forbidden)
        BY <1>9
      <4> QED BY <1>9, <3>2, <3>3, <3>4, <4>1, <4>2
    <3> QED BY <3>5, <3>6 DEF AnswerSoFar
  <2>12. CASE ~ ends /\ rest # {}
    <3>1. /\ impact'.pc = "walk" /\ impact'.level = impact.level /\ impact'.front = rest
          /\ impact'.next = next /\ impact'.visited = impact.visited \union met
      BY <1>9, <1>10, <2>12
    <3>2. Level(Uses, impact', f, B)
      <4> HIDE DEF others
      <4>1. Followed(impact') \ {f} = others
        BY <1>11 DEF others
      <4> QED BY <3>1, <2>8, <2>9, <2>10, <2>11, <4>1 DEF Level
    <3> QED BY <1>1, <1>11, <2>1, <3>1, <3>2 DEF SpreadSoFar, B
  <2>13. CASE ~ ends /\ rest = {}
    <3>1. /\ impact'.pc = "walk" /\ impact'.level = impact.level + 1 /\ impact'.front = next
          /\ impact'.next = {} /\ impact'.visited = impact.visited \union met
      BY <1>9, <1>10, <2>13
    <3> DEFINE C == Ball(Uses, f, impact.level + 1)
    <3>2. now = B
      BY <2>4, <2>13
    <3>3. C = B \union next
      <4>1. \A m : m \in C => m \in B \union next
        BY <2>4, <2>6, <2>10, <3>2
      <4>2. \A m : m \in B \union next => m \in C
        <5>1. \A m \in next : m \in Open /\ \E k \in B : <<m, k>> \in Uses
          BY <2>8
        <5> QED BY <5>1, <2>6
      <4> HIDE DEF C
      <4> QED BY <4>1, <4>2
    <3>4. {f} \union (C \ next) = now
      BY <2>4, <2>8, <3>2, <3>3
    <3> HIDE DEF C, now
    <3>5. Level(Uses, impact', f, C)
      <4>1. Followed(impact') \ {f} = others
        BY <1>11
      <4>2. more = {m \in C \union {} : m = f => <<f, f>> \in Uses}
        BY <3>3
      <4> HIDE DEF others, more, stop
      <4>3. /\ next \subseteq C
            /\ (impact.visited \union met) \ Forbidden = C \union {}
            /\ \A k \in now, m \in Open : <<m, k>> \in Uses => m \in C \union {}
        BY <2>8, <2>10, <3>3
      <4>4. AnswerSoFar(Uses, impact', others, {m \in C \union {} : m = f => <<f, f>> \in Uses},
                   Stopped(Uses, now))
        BY <2>11, <4>2 DEF stop
      <4> QED BY <3>1, <2>9, <3>4, <4>1, <4>3, <4>4 DEF Level
    <3> QED BY <1>1, <1>11, <2>1, <3>1, <3>5 DEF SpreadSoFar, C
  <2>14. CASE ends
    <3>1. /\ rest = {} /\ (next = {} \/ impact.level + 1 = impact.reach)
          /\ impact'.pc = "files"
      BY <1>6, <1>9, <2>14
    <3>2. now = B
      BY <2>4, <3>1
    <3>3. \A m : m \in Ball(Uses, f, impact.level + 1) <=> m \in B \/ m \in next
      <4>1. \A m \in next : m \in Open /\ \E k \in B : <<m, k>> \in Uses
        BY <2>8
      <4>2. \A k \in B, m \in Open : <<m, k>> \in Uses => m \in B \union next
        BY <2>10, <3>2
      <4> QED BY <4>1, <4>2, <2>6
    <3>4. /\ \A m : m \in Ball(Uses, f, impact.reach) <=> m \in B \/ m \in next
          /\ Ball(Uses, f, impact.reach - 1) = B
      <4>1. Ball(Uses, f, impact.level + 1) = B \/ impact.level + 1 = impact.reach
        BY <3>1, <3>3
      <4>2. /\ Ball(Uses, f, impact.reach) = Ball(Uses, f, impact.level + 1)
            /\ Ball(Uses, f, impact.reach - 1) = B
        BY <1>2, <2>2, <2>3, <4>1, WalkEnds DEF B
      <4> QED BY <3>3, <4>2
    <3>5. more = Spread(Uses, f, impact'.reach)
      BY <1>9, <3>4 DEF Spread
    <3>6. stop = Stopped(Uses, Ball(Uses, f, impact'.reach - 1))
      BY <1>9, <3>2, <3>4
    <3>7. AnswerSoFar(Uses, impact', Followed(impact'), {}, {})
      <4> HIDE DEF more, stop
      <4> QED BY <1>11, <2>11, <3>5, <3>6, AnswerTakesIn
    <3> QED BY <1>1, <3>1, <3>7 DEF SpreadSoFar
  <2> QED BY <1>6, <2>12, <2>13, <2>14
<1>13. ImpactTypeOK' /\ impact'.left \subseteq impact'.asked
  BY <1>1, <1>2, <1>8, <1>9, FlightInSlot DEF ImpactInv, ImpactTypeOK
<1>14. impact'.pc = "walk" => impact'.level < impact'.reach
  BY <1>7, <1>9, <1>10
<1> QED BY <1>1, <1>12, <1>13, <1>14 DEF ImpactInv

LEMMA EditImpactInv ==
  ASSUME ImpactInv,
         (\E l \in Link : EditLink(l)) \/ (\E l \in Import : EditImport(l))
  PROVE  ImpactInv'
<1>1. impact' = impact /\ steady' = FALSE
  BY DEF EditLink, EditImport
<1>2. links' \subseteq Link /\ imports' \subseteq Import
  BY DEF EditLink, EditImport, ImpactInv, ImpactTypeOK
<1> QED BY <1>1, <1>2 DEF ImpactInv, ImpactTypeOK

LEMMA ReportInv ==
  ASSUME ImpactInv, Report
  PROVE  ImpactInv'
<1>1. /\ impact.pc = "files" /\ impact.left = {}
      /\ Uses' = Uses /\ links' = links /\ imports' = imports /\ steady' = steady
      /\ impact' = [impact EXCEPT !.pc = "done"]
  BY DEF Report, Uses
<1>2. impact \in Flight /\ impact.left \subseteq impact.asked
  BY <1>1, ImpactFields DEF ImpactInv
<1>3. /\ impact' \in Flight
      /\ impact'.pc = "done" /\ impact'.asked = impact.asked /\ impact'.reach = impact.reach
      /\ impact'.left = impact.left /\ impact'.blocked = impact.blocked
      /\ impact'.direct = impact.direct /\ impact'.indirect = impact.indirect
  BY <1>1, <1>2 DEF Flight
<1>4. ASSUME steady PROVE SpreadSoFar(Uses', impact')
  <2>1. AnswerSoFar(Uses, impact, Followed(impact), {}, {})
    BY <1>1, <1>4 DEF ImpactInv, SpreadSoFar
  <2>2. Followed(impact') = Followed(impact)
    BY <1>3 DEF Followed
  <2>3. AnswerSoFar(Uses, impact', Followed(impact), {}, {})
    BY <1>3, <2>1 DEF AnswerSoFar
  <2> QED BY <1>1, <1>3, <2>2, <2>3 DEF SpreadSoFar
<1>5. ImpactTypeOK'
  BY <1>1, <1>3, FlightInSlot DEF ImpactInv, ImpactTypeOK
<1> QED BY <1>1, <1>2, <1>3, <1>4, <1>5 DEF ImpactInv

LEMMA ImpactStep ==
  ASSUME ImpactInv, [ImpactNext]_impactVars
  PROVE  ImpactInv'
<1>1. CASE UNCHANGED impactVars
  BY <1>1 DEF impactVars, ImpactInv, ImpactTypeOK, Uses
<1>2. CASE ImpactAnswered \/ ImpactFails
  <2>1. /\ impact' = ImpactIdle /\ impact'.pc = "idle"
        /\ links' = links /\ imports' = imports /\ steady' = steady
    BY <1>2 DEF ImpactAnswered, ImpactFails, ImpactIdle
  <2> QED BY <2>1 DEF ImpactInv, ImpactTypeOK, ImpactSlot
<1> QED
  BY <1>1, <1>2, EditImpactInv, StartInv, SkipInv, TakeInv, WalkInv, ReportInv DEF ImpactNext

LEMMA SpreadIsDepends ==
  ASSUME NEW f \in Open, NEW k \in Nat, k >= 1
  PROVE  \A m \in GraphNode :
           m \in Spread(Uses, f, k) <=> /\ DependsWithin(m, f, k)
                                        /\ m = f => <<f, f>> \in Uses
<1>1. \A m : DependsWithin(m, f, k) => m \in Ball(Uses, f, k)
  BY DEF DependsWithin, Ball, Chain, Open
<1>2. \A m : m \in Ball(Uses, f, k) /\ m # f => DependsWithin(m, f, k)
  BY DEF DependsWithin, Ball, Chain, Open
<1>3. ASSUME <<f, f>> \in Uses PROVE DependsWithin(f, f, k)
  <2> DEFINE path == [i \in 0..1 |-> f]
  <2>1. /\ path \in [0..1 -> GraphNode \ Forbidden] /\ path[0] = f /\ path[1] = f
        /\ 1 \in 1..k /\ \A i \in 1..1 : path[i] = f /\ path[i - 1] = f
    BY DEF Open
  <2> HIDE DEF path
  <2> QED BY <1>3, <2>1 DEF DependsWithin
<1>4. f \in Ball(Uses, f, k)
  BY BallOpen
<1>5. \A m : m \in Spread(Uses, f, k) <=> m \in Ball(Uses, f, k) /\ (m = f => <<f, f>> \in Uses)
  BY DEF Spread
<1> QED BY <1>1, <1>2, <1>3, <1>4, <1>5

LEMMA BallIsDepends ==
  ASSUME NEW f \in Open, NEW k \in Nat
  PROVE  \A m : m \in Ball(Uses, f, k) <=> m = f \/ DependsWithin(m, f, k)
BY DEF DependsWithin, Ball, Chain, Open

LEMMA NextTo ==
  ASSUME NEW N
  PROVE  \A m : m \in UNION {UsedBy(n) : n \in N} <=>
                 m \in GraphNode /\ \E n \in N : <<m, n>> \in Uses
<1>1. ASSUME NEW m, NEW U \in {UsedBy(n) : n \in N}, m \in U
      PROVE  m \in GraphNode /\ \E n \in N : <<m, n>> \in Uses
  <2>1. PICK n \in N : U = UsedBy(n)
    OBVIOUS
  <2> QED BY <1>1, <2>1 DEF UsedBy
<1>2. ASSUME NEW m \in GraphNode, NEW n \in N, <<m, n>> \in Uses
      PROVE  m \in UNION {UsedBy(k) : k \in N}
  <2>1. m \in UsedBy(n) /\ UsedBy(n) \in {UsedBy(k) : k \in N}
    BY <1>2 DEF UsedBy
  <2> QED BY <2>1
<1> QED BY <1>1, <1>2

\* For any graph, boundary and depth: a simulation over a graph that stood still answers with
\* what depends on the changed files within the depth, and the forbidden files beside that.
THEOREM SpreadIsReachHolds == ImpactSpec => []SpreadIsReach
<1>1. ImpactInv => SpreadIsReach
  <2> SUFFICES ASSUME ImpactInv, impact.pc = "done", steady PROVE SpreadIsReach
    BY DEF SpreadIsReach
  <2> DEFINE changed == impact.asked \ Unchangeable
             reach == impact.reach
             Inside(k) == changed \union
                            {m \in GraphNode : \E f \in changed : DependsWithin(m, f, k)}
  <2>1. impact \in Flight /\ impact.left = {}
    BY ImpactFields DEF ImpactInv, SpreadSoFar
  <2>2. changed \subseteq Open /\ reach \in Nat /\ reach >= 1 /\ reach - 1 \in Nat
    BY <2>1, FlightFields DEF Open, Unchangeable
  <2>3. AnswerSoFar(Uses, impact, changed, {}, {})
    BY <2>1 DEF ImpactInv, SpreadSoFar, Followed
  <2>4. \A f \in changed, m \in GraphNode :
          m \in Spread(Uses, f, reach) <=> /\ DependsWithin(m, f, reach)
                                           /\ m = f => <<f, f>> \in links
    <3>1. \A f \in changed : <<f, f>> \in Uses <=> <<f, f>> \in links
      BY <2>2 DEF Open, Uses, ImpactInv, ImpactTypeOK
    <3> QED BY <2>2, <3>1, SpreadIsDepends
  <2>5. \A n : (\E f \in changed : n \in Ball(Uses, f, reach - 1)) <=> n \in Inside(reach - 1)
    <3>1. \A f \in changed : \A n :
            n \in Ball(Uses, f, reach - 1) <=> n = f \/ DependsWithin(n, f, reach - 1)
      BY <2>2, BallIsDepends
    <3>2. \A f \in changed : \A n : n \in Ball(Uses, f, reach - 1) => n \in GraphNode
      BY <2>2, BallOpen DEF Open
    <3> HIDE DEF changed, reach
    <3> QED BY <3>1, <3>2
  <2>6. impact.direct \union impact.indirect =
          {m \in GraphNode : \E f \in changed : /\ DependsWithin(m, f, reach)
                                                /\ m = f => <<f, f>> \in links}
    <3>1. impact.direct \union impact.indirect =
            {m \in GraphNode : \E f \in changed : m \in Spread(Uses, f, reach)}
      BY <2>3 DEF AnswerSoFar
    <3>2. \A m \in GraphNode :
            (\E f \in changed : m \in Spread(Uses, f, reach))
            <=> \E f \in changed : DependsWithin(m, f, reach) /\ (m = f => <<f, f>> \in links)
      <4> HIDE DEF changed, reach
      <4> QED BY <2>4
    <3> HIDE DEF changed, reach
    <3> QED BY <3>1, <3>2
  <2>7. impact.blocked =
          (impact.asked \intersect Unchangeable)
            \union (Forbidden \intersect UNION {UsedBy(m) : m \in Inside(reach - 1)})
    <3>1. impact.asked \subseteq GraphNode
      BY <2>1, FlightFields
    <3>2. \A m : m \in impact.blocked <=>
                   /\ m \in GraphNode
                   /\ \/ m \in impact.asked \intersect Unchangeable
                      \/ m \in Forbidden /\ \E n \in Inside(reach - 1) : <<m, n>> \in Uses
      <4>1. \A m : m \in impact.blocked <=>
                     /\ m \in GraphNode
                     /\ \/ m \in impact.asked \intersect Unchangeable
                        \/ \E f \in changed : m \in Stopped(Uses, Ball(Uses, f, reach - 1))
        BY <2>1, <2>3 DEF AnswerSoFar
      <4> HIDE DEF changed, reach, Inside
      <4> QED BY <2>5, <4>1 DEF Stopped
    <3>3. \A m : m \in UNION {UsedBy(n) : n \in Inside(reach - 1)} <=>
                   m \in GraphNode /\ \E n \in Inside(reach - 1) : <<m, n>> \in Uses
      BY NextTo
    <3> HIDE DEF Inside, changed, reach
    <3> QED BY <3>1, <3>2, <3>3
  <2> QED BY <2>6, <2>7 DEF SpreadIsReach
<1>2. ImpactInv /\ [ImpactNext]_impactVars => ImpactInv'
  BY ImpactStep
<1> QED BY <1>1, <1>2, ImpactInitInv, PTL DEF ImpactSpec

-----------------------------------------------------------------------------
(* The stores together *)

LEMMA StillMeans ==
  /\ Still("artifacts") <=> UNCHANGED artVars
  /\ Still("gates") <=> UNCHANGED gateVars
  /\ Still("objects") <=> UNCHANGED ctxVars
  /\ Still("events") <=> UNCHANGED eventVars
  /\ Still("deltas") <=> UNCHANGED deltaVars
  /\ Still("schedules") <=> UNCHANGED schedVars
  /\ Still("sessions") <=> UNCHANGED sessionVars
  /\ Still("handoffs") <=> UNCHANGED handoffVars
  /\ Still("graph") <=> UNCHANGED graphVars
  /\ Still("impact") <=> UNCHANGED impactVars
  /\ Still("vault") <=> UNCHANGED vaultVars
  /\ Still("kernel") <=> UNCHANGED kernelVars
BY DEF Still

\* A step of the stores is a step of each or leaves it as it is.
LEMMA StoresStep ==
  ASSUME [StoresNext]_storesVars
  PROVE  /\ [ArtNext]_artVars /\ [GateNext]_gateVars /\ [CtxNext]_ctxVars
         /\ [EventNext]_eventVars /\ [DeltaNext]_deltaVars /\ [SchedNext]_schedVars
         /\ [SessionNext]_sessionVars /\ [HandoffNext]_handoffVars /\ [GraphNext]_graphVars
         /\ [ImpactNext]_impactVars /\ [VaultNext]_vaultVars /\ [KernelNext]_kernelVars
         /\ store' = store
<1>1. CASE UNCHANGED storesVars
  BY <1>1 DEF storesVars
<1>2. CASE StoresNext
  <2>1. \A s \in Stores \ {store} : Still(s)
    BY <1>2 DEF StoresNext
  <2>2. /\ "artifacts" \in Stores /\ "gates" \in Stores /\ "objects" \in Stores
        /\ "events" \in Stores /\ "deltas" \in Stores /\ "schedules" \in Stores
        /\ "sessions" \in Stores /\ "handoffs" \in Stores /\ "graph" \in Stores
        /\ "impact" \in Stores /\ "vault" \in Stores /\ "kernel" \in Stores
    BY DEF Stores
  <2> QED BY <1>2, <2>1, <2>2, StillMeans DEF StoresNext
<1> QED BY <1>1, <1>2

\* Side by side, each store behaves as it does alone: what is proved of one holds of all.
THEOREM StoresAreIndependent ==
  StoresSpec =>
    /\ ArtSpec /\ GateSpec /\ CtxSpec /\ EventSpec /\ DeltaSpec /\ SchedSpec
    /\ SessionSpec /\ HandoffSpec /\ GraphSpec /\ ImpactSpec /\ VaultSpec /\ KernelSpec
<1>1. StoresInit =>
        /\ ArtInit /\ GateInit /\ CtxInit /\ EventInit /\ DeltaInit /\ SchedInit
        /\ SessionInit /\ HandoffInit /\ GraphInit /\ ImpactInit /\ VaultInit /\ KernelInit
  BY DEF StoresInit
<1> QED
  BY <1>1, StoresStep, PTL
  DEF StoresSpec, ArtSpec, GateSpec, CtxSpec, EventSpec, DeltaSpec, SchedSpec, SessionSpec,
      HandoffSpec, GraphSpec, ImpactSpec, VaultSpec, KernelSpec

LEMMA EventTypeCorrect == EventSpec => []EventTypeOK
<1>1. EventInv => EventTypeOK
  BY DEF EventInv
<1>2. EventInv /\ [EventNext]_eventVars => EventInv'
  BY EventStep
<1> QED BY <1>1, <1>2, EventInitInv, PTL DEF EventSpec

LEMMA DeltaTypeCorrect == DeltaSpec => []DeltaTypeOK
<1>1. DeltaInv => DeltaTypeOK
  BY DEF DeltaInv
<1>2. DeltaInv /\ [DeltaNext]_deltaVars => DeltaInv'
  BY DeltaNextInv
<1> QED BY <1>1, <1>2, DeltaInitInv, PTL DEF DeltaSpec

LEMMA HandoffTypeCorrect == HandoffSpec => []HandoffTypeOK
<1>1. HandoffInv => HandoffTypeOK
  BY DEF HandoffInv
<1>2. HandoffInv /\ [HandoffNext]_handoffVars => HandoffInv'
  BY HandoffNextInv
<1> QED BY <1>1, <1>2, HandoffInitInv, PTL DEF HandoffSpec

LEMMA GraphTypeCorrect == GraphSpec => []GraphTypeOK
<1>1. GraphInv => GraphTypeOK
  BY DEF GraphInv
<1>2. GraphInv /\ [GraphNext]_graphVars => GraphInv'
  BY GraphStep
<1> QED BY <1>1, <1>2, GraphInitInv, PTL DEF GraphSpec

LEMMA ImpactTypeCorrect == ImpactSpec => []ImpactTypeOK
<1>1. ImpactInv => ImpactTypeOK
  BY DEF ImpactInv
<1>2. ImpactInv /\ [ImpactNext]_impactVars => ImpactInv'
  BY ImpactStep
<1> QED BY <1>1, <1>2, ImpactInitInv, PTL DEF ImpactSpec

LEMMA KernelTypeCorrect == KernelSpec => []KernelTypeOK
<1>1. KernelInv => KernelTypeOK
  BY DEF KernelInv
<1>2. KernelInv /\ [KernelNext]_kernelVars => KernelInv'
  BY KernelStep
<1> QED BY <1>1, <1>2, KernelInitInv, PTL DEF KernelSpec

\* The rows and requests of the store that moves keep their shape, for any instance of the stores.
THEOREM StoresTypeCorrect == StoresSpec => []StoresTypeOK
<1>1. /\ ArtTypeOK /\ GateTypeOK /\ CtxTypeOK /\ EventTypeOK /\ DeltaTypeOK /\ SchedTypeOK
      /\ SessionTypeOK /\ HandoffTypeOK /\ GraphTypeOK /\ ImpactTypeOK /\ VaultTypeOK
      /\ KernelTypeOK /\ store \in Stores
      => StoresTypeOK
  BY DEF StoresTypeOK, Stores
<1>2. StoresInit => store \in Stores
  BY DEF StoresInit
<1>3. store \in Stores /\ [StoresNext]_storesVars => (store \in Stores)'
  BY StoresStep
<1>4. StoresSpec => [](store \in Stores)
  BY <1>2, <1>3, PTL DEF StoresSpec
<1> QED
  BY <1>1, <1>4, StoresAreIndependent, ArtTypeCorrect, GateTypeCorrect, CtxTypeInvariance,
     EventTypeCorrect, DeltaTypeCorrect, SchedTypeCorrect, SessionTypeCorrect,
     HandoffTypeCorrect, GraphTypeCorrect, ImpactTypeCorrect, VaultTypeCorrect,
     KernelTypeCorrect, PTL

\* What is proved of the stores one by one holds in the behaviours that are model-checked together.
COROLLARY StoresKeepTheirPromises ==
  StoresSpec =>
    /\ [](/\ ActiveIsNewest /\ VerdictMatchesResults /\ StoredOnce /\ EventsFollow
          /\ OneAttempt /\ RecoveryOffersLive /\ VerdictIsCurrent /\ SyncedGraphMirrors
          /\ SpreadIsReach /\ VaultWhole /\ AllowedHasGround)
    /\ HistoryOnlyGrows /\ FlaggedStaysFlagged /\ OnlyRevivedByName
BY StoresAreIndependent, ActiveIsNewestHolds, VerdictMatchesResultsHolds, StoredOnceHolds,
   EventsFollowHolds, OneAttemptHolds, RecoveryOffersLiveHolds, VerdictIsCurrentHolds,
   SyncedGraphMirrorsHolds, SpreadIsReachHolds, VaultWholeHolds, AllowedHasGroundHolds,
   HistoryOnlyGrowsHolds, FlaggedStaysFlaggedHolds, OnlyRevivedByNameHolds, PTL
=============================================================================
