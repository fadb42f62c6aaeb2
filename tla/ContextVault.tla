---------------------------- MODULE ContextVault ----------------------------
(***************************************************************************)
(* The context-items routes (apps/api/src/index.ts): an item of the        *)
(* context vault and the chunks its text is searched by.                   *)
(*                                                                         *)
(* A POST inserts the item and then its chunks; a PATCH reads the item,    *)
(* deletes its chunks, inserts those of the new text and updates the item, *)
(* each statement committed by itself.  A PATCH without a text writes back *)
(* the checksum it has read.  Chunks have random ids and no unique index,  *)
(* so each is counted.  The id of an item is random as well: one item is   *)
(* modelled, and a deleted one does not come back.  Checks of the payload  *)
(* precede every write and are left out.                                   *)
(***************************************************************************)
EXTENDS Naturals, FiniteSets

CONSTANTS
  Text,         \* texts an item may have
  Parts,        \* the number of chunks of each text
  VaultRequest  \* slots for requests in flight

ASSUME ContextVaultAssumption ==
  Parts \in [Text -> Nat] /\ IsFiniteSet(VaultRequest) /\ Text \intersect {"absent", "deleted"} = {}

VARIABLES
  item,      \* the text whose checksum the row holds, "absent" or "deleted"
  chunks,    \* how many rows of context_chunks there are of each chunk
  vaultReq,  \* the requests in flight
  upkeep     \* history: "sole" while the one request in flight gives the item a text, "whole"
             \* once it has, "mixed" from the moment that requests overlap or one breaks off

vaultVars == <<item, chunks, vaultReq, upkeep>>

Chunk == UNION {{<<t, i>> : i \in 1..Parts[t]} : t \in Text}

VaultIdle == [pc |-> "idle"]

VaultSlot ==
  {VaultIdle}
    \union [pc: {"clear", "update", "keep"}, text: Text]
    \union [pc: {"create", "patch"}, text: Text, left: SUBSET Chunk]
    \union [pc: {"drop chunks", "drop item"}]

VaultTypeOK ==
  /\ item \in Text \union {"absent", "deleted"}
  /\ chunks \in [Chunk -> 0..Cardinality(VaultRequest)]
  /\ vaultReq \in [VaultRequest -> VaultSlot]
  /\ upkeep \in {"mixed", "sole", "whole"}

None == [c \in Chunk |-> 0]

VaultInit ==
  /\ item = "absent"
  /\ chunks = None
  /\ vaultReq = [q \in VaultRequest |-> VaultIdle]
  /\ upkeep = "mixed"

-----------------------------------------------------------------------------
VaultAt(q, pc) == vaultReq[q].pc = pc

VaultGoto(q, slot) == vaultReq' = [vaultReq EXCEPT ![q] = slot]

ItemExists == item \notin {"absent", "deleted"}

ChunksOf(t) == {c \in Chunk : c[1] = t}

Begins(q, stage) ==
  upkeep' = IF \A z \in VaultRequest : VaultAt(z, "idle") THEN stage ELSE "mixed"

Ends == upkeep' = IF upkeep = "sole" THEN "whole" ELSE upkeep

(* POST projects/:id/context-items *)

PostItem(q, t) ==
  /\ VaultAt(q, "idle")
  /\ item = "absent"
  /\ item' = t
  /\ VaultGoto(q, [pc |-> "create", text |-> t, left |-> ChunksOf(t)])
  /\ Begins(q, "sole")
  /\ UNCHANGED chunks

\* The loop over the chunks, also that of a PATCH; context_chunks references context_items.
InsertChunk(q) ==
  /\ vaultReq[q].pc \in {"create", "patch"}
  /\ ItemExists
  /\ \E c \in vaultReq[q].left :
       /\ \A d \in vaultReq[q].left : c[2] <= d[2]
       /\ chunks' = [chunks EXCEPT ![c] = @ + 1]
       /\ VaultGoto(q, [vaultReq[q] EXCEPT !.left = @ \ {c}])
  /\ UNCHANGED <<item, upkeep>>

PostEnds(q) ==
  /\ VaultAt(q, "create")
  /\ vaultReq[q].left = {}
  /\ VaultGoto(q, VaultIdle)
  /\ Ends
  /\ UNCHANGED <<item, chunks>>

(* PATCH context-items/:contextItemId *)

PatchText(q, t) ==
  /\ VaultAt(q, "idle")
  /\ ItemExists
  /\ VaultGoto(q, [pc |-> "clear", text |-> t])
  /\ Begins(q, "sole")
  /\ UNCHANGED <<item, chunks>>

PatchMetadata(q) ==
  /\ VaultAt(q, "idle")
  /\ ItemExists
  /\ VaultGoto(q, [pc |-> "keep", text |-> item])
  /\ Begins(q, upkeep)
  /\ UNCHANGED <<item, chunks>>

\* Slip: the old chunks are not deleted.
PatchClear_Adds(q) ==
  /\ VaultAt(q, "clear")
  /\ VaultGoto(q, [pc |-> "patch", text |-> vaultReq[q].text,
                   left |-> ChunksOf(vaultReq[q].text)])
  /\ UNCHANGED <<item, chunks, upkeep>>

\* Slip: a text with the checksum of the row is not chunked again.
PatchClear_IfChanged(q) ==
  /\ VaultAt(q, "clear")
  /\ LET t == vaultReq[q].text
     IN  /\ chunks' = IF item = t THEN chunks ELSE None
         /\ VaultGoto(q, [pc |-> "patch", text |-> t,
                          left |-> IF item = t THEN {} ELSE ChunksOf(t)])
  /\ UNCHANGED <<item, upkeep>>

PatchClear(q) ==
  /\ VaultAt(q, "clear")
  /\ chunks' = None
  /\ VaultGoto(q, [pc |-> "patch", text |-> vaultReq[q].text,
                   left |-> ChunksOf(vaultReq[q].text)])
  /\ UNCHANGED <<item, upkeep>>

PatchChunked(q) ==
  /\ VaultAt(q, "patch")
  /\ vaultReq[q].left = {}
  /\ VaultGoto(q, [pc |-> "update", text |-> vaultReq[q].text])
  /\ UNCHANGED <<item, chunks, upkeep>>

\* The UPDATE finds no row if the item is gone, and the PATCH is answered all the same.
PatchUpdate(q) ==
  /\ vaultReq[q].pc \in {"update", "keep"}
  /\ item' = IF ItemExists THEN vaultReq[q].text ELSE item
  /\ VaultGoto(q, VaultIdle)
  /\ Ends
  /\ UNCHANGED chunks

(* DELETE context-items/:contextItemId *)

DeleteLook(q) ==
  /\ VaultAt(q, "idle")
  /\ ItemExists
  /\ VaultGoto(q, [pc |-> "drop chunks"])
  /\ Begins(q, "mixed")
  /\ UNCHANGED <<item, chunks>>

DropChunks(q) ==
  /\ VaultAt(q, "drop chunks")
  /\ chunks' = None
  /\ VaultGoto(q, [pc |-> "drop item"])
  /\ UNCHANGED <<item, upkeep>>

\* ON DELETE CASCADE takes the chunks inserted meanwhile.
DropItem(q) ==
  /\ VaultAt(q, "drop item")
  /\ item' = "deleted"
  /\ chunks' = None
  /\ VaultGoto(q, VaultIdle)
  /\ UNCHANGED upkeep

\* A statement fails, as an INSERT of a chunk does once its item is gone, or the process dies.
VaultAbort(q) ==
  /\ ~ VaultAt(q, "idle")
  /\ VaultGoto(q, VaultIdle)
  /\ upkeep' = IF VaultAt(q, "keep") /\ upkeep = "whole" THEN "whole" ELSE "mixed"
  /\ UNCHANGED <<item, chunks>>

VaultNext ==
  \E q \in VaultRequest :
    \/ InsertChunk(q) \/ PostEnds(q) \/ PatchMetadata(q) \/ PatchClear(q) \/ PatchChunked(q)
    \/ PatchUpdate(q) \/ DeleteLook(q) \/ DropChunks(q) \/ DropItem(q) \/ VaultAbort(q)
    \/ \E t \in Text : PostItem(q, t) \/ PatchText(q, t)

VaultSpec == VaultInit /\ [][VaultNext]_vaultVars

-----------------------------------------------------------------------------
(* Properties *)

\* A POST or PATCH of a text that met no other request leaves the item with the checksum and every
\* chunk of that text once, whatever requests that overlapped or broke off had left before it; and
\* a deleted item has no chunks, even if a PATCH was under way.
VaultWhole ==
  /\ upkeep = "whole" /\ ItemExists => chunks = [c \in Chunk |-> IF c[1] = item THEN 1 ELSE 0]
  /\ item = "deleted" => chunks = None
=============================================================================
