-------------------------- MODULE MCKnowledgeGraph --------------------------
(* What a vault of two files, a route and a pack can state. *)
EXTENDS KnowledgeGraph

Stating(origin, pair, relation) == [origin |-> origin, pair |-> pair, relation |-> relation]

MCFact == {Stating("text", "file-route", "defines_api"), Stating("text", "file-route", "defines_route"),
           Stating("text", "file-file", "imports"), Stating("item", "file-file", "tests")}

MCHandEdge == {[pair |-> "file-file", relation |-> "references", label |-> "references"]}
=============================================================================
