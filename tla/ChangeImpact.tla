---------------------------- MODULE ChangeImpact ----------------------------
(***************************************************************************)
(* KnowledgeGraphService.generateChangeSimulation                          *)
(* (packages/graph/src/index.ts): how far a change of some files spreads,  *)
(* against the edges of the graph to their source, within the boundary of  *)
(* the active task.                                                        *)
(*                                                                         *)
(* Every getReverseDependencies is a query of its own, so the graph may    *)
(* change under the walk.  Files are known by their graph node.  The order *)
(* of files and of queues does not matter to the three sets of the answer  *)
(* and they are sets here.  Risk, tests, documents and advice, which are   *)
(* read off names, are left out, and a report is only ever inserted.       *)
(* generateImpactPreview walks in the same way, without a boundary.        *)
(***************************************************************************)
EXTENDS Naturals

CONSTANTS
  GraphNode,  \* the files of the graph
  Link,       \* the edges it may have: <<source, target>>, those of a node to itself too
  Import,     \* the imports it may have that a lookup counts for a use: <<file, hook it names>>
  Forbidden,  \* files that the boundary forbids, by name, pattern or domain,
  Slashed,    \* and those that its list names with a leading '/'
  Change,     \* the sets of changed files that are asked about
  MaxDepth    \* greatest max_depth that is asked for

ASSUME ChangeImpactAssumption ==
  /\ MaxDepth \in Nat \ {0}
  /\ Change \subseteq SUBSET GraphNode
  /\ \A n \in GraphNode : <<n, n>> \notin Import

VARIABLES
  links,   \* the edges of the graph now
  imports, \* metadata.imports of its nodes, what names a hook
  impact,  \* the simulation in flight
  steady   \* history: the graph is as it was when the simulation began

impactVars == <<links, imports, impact, steady>>

ImpactIdle == [pc |-> "idle"]

\* What is asked, the files left to do, the answer so far, and the place in the walk from one
\* file: the nodes of this level left to look up, those of the next, all that were met.
ImpactSlot ==
  {ImpactIdle}
    \union [pc: {"files", "walk", "done"}, asked: Change, reach: 1..MaxDepth,
            left: SUBSET GraphNode, direct: SUBSET GraphNode, indirect: SUBSET GraphNode,
            blocked: SUBSET GraphNode, level: 1..MaxDepth, front: SUBSET GraphNode,
            next: SUBSET GraphNode, visited: SUBSET GraphNode]

ImpactTypeOK ==
  /\ links \subseteq Link
  /\ imports \subseteq Import
  /\ impact \in ImpactSlot
  /\ steady \in BOOLEAN

ImpactInit == links = {} /\ imports = {} /\ impact = ImpactIdle /\ steady = TRUE

-----------------------------------------------------------------------------
Uses == links \union imports

\* getReverseDependencies: the sources of edges to n, and if n is a hook the nodes whose imports
\* name it, without an edge.
UsedBy(n) == {m \in GraphNode : <<m, n>> \in Uses}

EditLink(l) ==
  /\ links' = IF l \in links THEN links \ {l} ELSE links \union {l}
  /\ steady' = FALSE
  /\ UNCHANGED <<imports, impact>>

\* A sync writes a node again, with the metadata of its vault item.
EditImport(l) ==
  /\ imports' = IF l \in imports THEN imports \ {l} ELSE imports \union {l}
  /\ steady' = FALSE
  /\ UNCHANGED <<links, impact>>

\* What the boundary forbids to change.  It does not know the leading '/' of dependents.
Unchangeable == Forbidden \union Slashed

\* reach is max_depth, and 1 if indirect dependents are not asked for.
ImpactStart(files, reach) ==
  /\ impact.pc = "idle"
  /\ impact' = [pc |-> "files", asked |-> files, reach |-> reach, left |-> files,
                direct |-> {}, indirect |-> {}, blocked |-> {},
                level |-> 1, front |-> {}, next |-> {}, visited |-> {}]
  /\ steady' = TRUE
  /\ UNCHANGED <<links, imports>>

\* A changed file that is forbidden is blocked and not followed.
SkipFile(f) ==
  /\ impact.pc = "files"
  /\ f \in impact.left \intersect Unchangeable
  /\ impact' = [impact EXCEPT !.left = @ \ {f}, !.blocked = @ \union {f}]
  /\ UNCHANGED <<links, imports, steady>>

TakeFile(f) ==
  /\ impact.pc = "files"
  /\ f \in impact.left \ Unchangeable
  /\ LET near == UsedBy(f) \ Forbidden
         deeper == impact.reach > 1 /\ near # {}
     IN  impact' = [impact EXCEPT
           !.pc = IF deeper THEN "walk" ELSE "files",
           !.left = @ \ {f},
           !.direct = @ \union near,
           !.blocked = @ \union (UsedBy(f) \intersect Forbidden),
           !.level = 1, !.next = {},
           !.front = IF deeper THEN near ELSE {},
           !.visited = IF deeper THEN {f} \union near ELSE {}]
  /\ UNCHANGED <<links, imports, steady>>

\* Slip: a node is looked up again whenever it is met.
Unmet_Again(n) == UsedBy(n)

Unmet(n) == UsedBy(n) \ impact.visited

\* for (let depth = 1; depth < max_depth; depth++)
LastLevel == impact.level + 1 = impact.reach

\* One node of the level is looked up; after the last one the next level begins, if there is one.
Walk(n) ==
  /\ impact.pc = "walk"
  /\ n \in impact.front
  /\ LET met == Unmet(n)
         rest == impact.front \ {n}
         next == impact.next \union (met \ Forbidden)
         ends == rest = {} /\ (next = {} \/ LastLevel)
     IN  impact' = [impact EXCEPT
           !.pc = IF ends THEN "files" ELSE "walk",
           !.indirect = @ \union (met \ Forbidden),
           !.blocked = @ \union (met \intersect Forbidden),
           !.level = IF ends THEN 1 ELSE IF rest = {} THEN @ + 1 ELSE @,
           !.front = IF ends THEN {} ELSE IF rest = {} THEN next ELSE rest,
           !.next = IF rest = {} THEN {} ELSE next,
           !.visited = IF ends THEN {} ELSE @ \union met]
  /\ UNCHANGED <<links, imports, steady>>

\* The report is stored and answered.
Report ==
  /\ impact.pc = "files"
  /\ impact.left = {}
  /\ impact' = [impact EXCEPT !.pc = "done"]
  /\ UNCHANGED <<links, imports, steady>>

ImpactAnswered ==
  /\ impact.pc = "done"
  /\ impact' = ImpactIdle
  /\ UNCHANGED <<links, imports, steady>>

ImpactFails ==
  /\ impact.pc \in {"files", "walk"}
  /\ impact' = ImpactIdle
  /\ UNCHANGED <<links, imports, steady>>

ImpactNext ==
  \/ \E l \in Link : EditLink(l)
  \/ \E l \in Import : EditImport(l)
  \/ \E files \in Change, reach \in 1..MaxDepth : ImpactStart(files, reach)
  \/ \E n \in GraphNode : SkipFile(n) \/ TakeFile(n) \/ Walk(n)
  \/ Report \/ ImpactAnswered \/ ImpactFails

ImpactSpec == ImpactInit /\ [][ImpactNext]_impactVars

-----------------------------------------------------------------------------
(* Properties *)

\* m depends on f by at most k uses, all inside the boundary.
DependsWithin(m, f, k) ==
  \E d \in 1..k : \E path \in [0..d -> GraphNode \ Forbidden] :
    path[0] = f /\ path[d] = m /\ \A i \in 1..d : <<path[i], path[i - 1]>> \in Uses

\* The spread of a simulation during which the graph stood still is what depends on a changed file
\* by a path within max_depth that no forbidden file interrupts.  Blocked are the changed files
\* that are forbidden, as '/path' too, and the forbidden files at which a path ends; a file that is
\* forbidden as '/path' alone is followed as the dependent of another.  Cycles and shared
\* dependents change nothing; a file is in its own spread by an edge to itself, and by no longer
\* cycle.
SpreadIsReach ==
  impact.pc = "done" /\ steady =>
    LET sources == impact.asked \ Unchangeable
        Inside(k) == sources \union
                       {m \in GraphNode : \E f \in sources : DependsWithin(m, f, k)}
    IN  /\ impact.direct \union impact.indirect =
             {m \in GraphNode : \E f \in sources :
                /\ DependsWithin(m, f, impact.reach)
                /\ m = f => <<f, f>> \in links}
        /\ impact.blocked =
             (impact.asked \intersect Unchangeable)
               \union (Forbidden \intersect UNION {UsedBy(m) : m \in Inside(impact.reach - 1)})
=============================================================================
