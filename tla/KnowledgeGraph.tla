--------------------------- MODULE KnowledgeGraph ---------------------------
(***************************************************************************)
(* KnowledgeGraphService.syncGraphFoundation and createEdge                *)
(* (packages/graph/src/index.ts): the relationships of one project, made   *)
(* from its context vault.                                                 *)
(*                                                                         *)
(* A fact is a relationship that the vault states: a context pack, the     *)
(* metadata of an item, or the text of an item, from which it is derived.  *)
(* A sync deletes the edges with a derived relationship and then, fact by  *)
(* fact, calls createEdge, which looks for an edge between the two nodes   *)
(* with the same label OR the same relationship and inserts one if there   *)
(* is none (else it updates weight and metadata).  Every statement is      *)
(* committed by itself and no unique index stands behind the lookup; edges *)
(* here are a set, as nothing told apart here depends on how many copies   *)
(* of an edge there are.  Nodes are upserted by id before their edges and  *)
(* no route deletes one, so the checks that both nodes exist succeed.      *)
(***************************************************************************)
EXTENDS Naturals

CONSTANTS
  Fact,        \* what the vault can state: origin, pair of nodes, relationship
  HandEdge,    \* edges that users post by hand
  SyncRequest  \* slots for requests in flight

ASSUME GraphAssumption == \A f \in Fact : f.origin \in {"pack", "item", "text"}

VARIABLES
  vault,    \* the facts the vault states now
  edges,    \* graph_edges
  syncReq,  \* the requests in flight
  clearer,  \* history: the request whose sync was the last to delete, if any
  mirror    \* history: how the graph stands to the vault since that deletion

graphVars == <<vault, edges, syncReq, clearer, mirror>>

\* The derived relationships, in the order in which they are looked for in a text.
Dependencies == <<"imports", "uses_component", "defines_api", "defines_route", "calls_api",
                  "references_route", "uses_table", "tests", "documents_component",
                  "references_design">>

Dependency == {Dependencies[i] : i \in 1..10}

Labels == {"references", "belongs_to", "documents", "tests", "derived_from", "related_to",
           "created_by", "connected_to"}

\* The label under which a relationship is stored: itself for a pack, the nearest label for
\* the rest.
StatedLabel(relation) == IF relation \in Labels THEN relation ELSE "related_to"

DerivedLabel(relation) ==
  CASE relation = "uses_table" -> "connected_to"
    [] relation = "tests" -> "tests"
    [] relation = "documents_component" -> "documents"
    [] OTHER -> "references"

EdgeOf(f) ==
  [pair |-> f.pair, relation |-> f.relation,
   label |-> CASE f.origin = "pack" -> f.relation
               [] f.origin = "item" -> StatedLabel(f.relation)
               [] f.origin = "text" -> DerivedLabel(f.relation)]

\* Texts are searched for one relationship after another.
Precedes(f, g) ==
  /\ f.pair = g.pair
  /\ \E i, j \in 1..10 : i < j /\ f.relation = Dependencies[i] /\ g.relation = Dependencies[j]

SyncIdle == [pc |-> "idle"]

\* A sync remembers the facts it has read and not yet written, and a createEdge the edge it
\* did not find.
SyncSlot ==
  {SyncIdle}
    \union [pc: {"items", "packs", "stated", "derived"}, todo: SUBSET Fact]
    \union [pc: {"insert"}, back: {"stated", "derived"}, fact: Fact, todo: SUBSET Fact]
    \union [pc: {"hand"}, edge: HandEdge]

\* "partial" until the sync has ended; "mixed" if another was under way when it began.
Mirror == {"none", "partial", "partial, mixed", "whole", "whole, mixed"}

GraphTypeOK ==
  /\ vault \subseteq Fact
  /\ edges \subseteq {EdgeOf(f) : f \in Fact} \union HandEdge
  /\ syncReq \in [SyncRequest -> SyncSlot]
  /\ clearer \subseteq SyncRequest
  /\ mirror \in Mirror

GraphInit ==
  /\ vault = {}
  /\ edges = {}
  /\ syncReq = [y \in SyncRequest |-> SyncIdle]
  /\ clearer = {}
  /\ mirror = "none"

-----------------------------------------------------------------------------
SyncAt(y, pc) == syncReq[y].pc = pc

SyncGoto(y, slot) == syncReq' = [syncReq EXCEPT ![y] = slot]

\* Slip: the ends of the edge are not compared.
Duplicate_AnyPair(e, d) == d.label = e.label \/ d.relation = e.relation

\* The query of createEdge for an edge that is there already.
Duplicate(e, d) == d.pair = e.pair /\ (d.label = e.label \/ d.relation = e.relation)

Known(e) == \E d \in edges : Duplicate(e, d)

(* The vault changes: items are posted, patched and deleted, and packs are compiled. *)
EditVault(f) ==
  /\ vault' = IF f \in vault THEN vault \ {f} ELSE vault \union {f}
  /\ mirror' = "none"
  /\ UNCHANGED <<edges, syncReq, clearer>>

(* POST projects/:id/graph/sync *)

\* Slip: only the edges whose label is a derived relationship go.
Cleared_ByLabel == {e \in edges : e.label \notin Dependency}

\* DELETE FROM graph_edges ... relationship IN (...)
Cleared == {e \in edges : e.relation \notin Dependency}

SyncClear(y) ==
  /\ SyncAt(y, "idle")
  /\ edges' = Cleared
  /\ SyncGoto(y, [pc |-> "items", todo |-> {}])
  /\ clearer' = {y}
  /\ mirror' = IF \A z \in SyncRequest : SyncAt(z, "idle") THEN "partial" ELSE "partial, mixed"
  /\ UNCHANGED vault

Read(y, origin, pc) ==
  /\ SyncGoto(y, [pc |-> pc, todo |-> syncReq[y].todo \union {f \in vault : f.origin = origin}])
  /\ UNCHANGED <<vault, edges, clearer, mirror>>

\* SELECT ... FROM context_items: also the metadata written as edges later.
SyncReadItems(y) == SyncAt(y, "items") /\ Read(y, "item", "packs")

\* SELECT ... FROM context_packs
SyncReadPacks(y) == SyncAt(y, "packs") /\ Read(y, "pack", "stated")

\* SELECT ... FROM context_chunks, once the stated edges are written.
SyncReadTexts(y) == SyncAt(y, "stated") /\ syncReq[y].todo = {} /\ Read(y, "text", "derived")

\* The facts whose turn it is: those of packs before those of items, and a text's in order.
Upcoming(todo) ==
  {f \in todo : \A g \in todo : ~ (Precedes(g, f) \/ (g.origin = "pack" /\ f.origin = "item"))}

\* createEdge: an edge that is found is updated, in weight and metadata only.
SyncCheck(y) ==
  /\ syncReq[y].pc \in {"stated", "derived"}
  /\ \E f \in Upcoming(syncReq[y].todo) :
       LET rest == syncReq[y].todo \ {f}
       IN  SyncGoto(y, IF Known(EdgeOf(f)) THEN [pc |-> syncReq[y].pc, todo |-> rest]
                       ELSE [pc |-> "insert", back |-> syncReq[y].pc, fact |-> f, todo |-> rest])
  /\ UNCHANGED <<vault, edges, clearer, mirror>>

SyncInsert(y) ==
  /\ SyncAt(y, "insert")
  /\ edges' = edges \union {EdgeOf(syncReq[y].fact)}
  /\ SyncGoto(y, [pc |-> syncReq[y].back, todo |-> syncReq[y].todo])
  /\ UNCHANGED <<vault, clearer, mirror>>

SyncEnd(y) ==
  /\ SyncAt(y, "derived")
  /\ syncReq[y].todo = {}
  /\ SyncGoto(y, SyncIdle)
  /\ mirror' = CASE y \in clearer /\ mirror = "partial" -> "whole"
                 [] y \in clearer /\ mirror = "partial, mixed" -> "whole, mixed"
                 [] OTHER -> mirror
  /\ UNCHANGED <<vault, edges, clearer>>

\* A statement fails or the API process dies: what has been deleted stays deleted.
SyncAbort(y) ==
  /\ ~ SyncAt(y, "idle")
  /\ SyncGoto(y, SyncIdle)
  /\ mirror' = IF y \in clearer /\ mirror \in {"partial", "partial, mixed"} THEN "none" ELSE mirror
  /\ UNCHANGED <<vault, edges, clearer>>

(* POST projects/:id/graph/edges *)

HandCheck(y, e) ==
  /\ SyncAt(y, "idle")
  /\ ~ Known(e)
  /\ SyncGoto(y, [pc |-> "hand", edge |-> e])
  /\ UNCHANGED <<vault, edges, clearer, mirror>>

HandInsert(y) ==
  /\ SyncAt(y, "hand")
  /\ edges' = edges \union {syncReq[y].edge}
  /\ SyncGoto(y, SyncIdle)
  /\ UNCHANGED <<vault, clearer, mirror>>

SyncStep(y) ==
  \/ SyncReadItems(y) \/ SyncReadPacks(y) \/ SyncReadTexts(y)
  \/ SyncCheck(y) \/ SyncInsert(y) \/ SyncEnd(y) \/ HandInsert(y)

GraphNext ==
  \/ \E f \in Fact : EditVault(f)
  \/ \E y \in SyncRequest :
       SyncClear(y) \/ SyncStep(y) \/ SyncAbort(y) \/ \E e \in HandEdge : HandCheck(y, e)

GraphSpec == GraphInit /\ [][GraphNext]_graphVars

-----------------------------------------------------------------------------
(* Properties *)

\* Every fact of the vault has an edge of its label or its relationship between its nodes.
SyncedGraphComplete ==
  \A f \in vault : \E e \in edges :
    e.pair = f.pair /\ (e.relation = f.relation \/ e.label = EdgeOf(f).label)

\* No derived relationship is left that the vault no longer states, except by hand.
SyncedGraphSound ==
  \A e \in edges \ HandEdge : e.relation \in Dependency => \E f \in vault : e = EdgeOf(f)

\* Once the sync that was the last to delete has ended, and the vault is as it was then, the graph
\* is complete, even if syncs overlapped, failed, or found each other's edges before one of them
\* deleted them; and if that sync also began alone the graph is sound: what earlier syncs, whole or
\* broken off, wrote of older texts is gone.
SyncedGraphMirrors ==
  /\ mirror \in {"whole", "whole, mixed"} => SyncedGraphComplete
  /\ mirror = "whole" => SyncedGraphSound

\* "Creates "defines_api" and "defines_route" relationships": after such a sync each derived fact
\* has an edge of its relationship.
SyncedRelationsExist ==
  mirror = "whole" => \A f \in vault : f.origin = "text" =>
                        \E e \in edges : e.pair = f.pair /\ e.relation = f.relation
=============================================================================
