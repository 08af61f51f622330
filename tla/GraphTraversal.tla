---------------------------- MODULE GraphTraversal ----------------------------
(***************************************************************************)
(* query_graph over the entities and relations of EntityGraph               *)
(* (core/__init__.py: neighbors, query_graph): breadth first, one call of   *)
(* neighbors at a time, with a limit on hops and on nodes, while others     *)
(* write and while what the reader may read changes.                        *)
(***************************************************************************)
EXTENDS EntityGraph

CONSTANTS MaxHops,  \* limits.max_hops
          Budget,   \* values of limits.max_graph_nodes
          MaxMoves  \* bound on changes of readability

ASSUME LimitsAssumption == MaxHops \in Nat /\ Budget \subseteq Nat \ {0} /\ MaxMoves \in Nat

VARIABLES hidden, \* what the reader may not read
          moves,
          walk    \* the traversal in progress, or its answer

vars == <<graphVars, hidden, moves, walk>>

Ends(r) == {relation[r].source, relation[r].target}
EndsOf(rels) == UNION {Ends(r) : r \in rels}

(* The relations at a node in a direction, readable or not.                 *)
At(n, direction) ==
  {r \in Relation : relation[r] # Absent
     /\ \/ direction # "in" /\ relation[r].source = n
        \/ direction # "out" /\ relation[r].target = n}

OtherEnd(r, n) == IF relation[r].source = n THEN relation[r].target ELSE relation[r].source

(* neighbors: those that are readable with their other end.                 *)
Neighbors(n, direction) ==
  {r \in At(n, direction) : r \notin hidden /\ OtherEnd(r, n) \notin hidden}
-----------------------------------------------------------------------------
Init ==
  /\ GraphInit
  /\ hidden = {} /\ moves = 0 /\ walk = [stage |-> "idle"]

(* Sharing and revoking, as KnowledgeSpaces tells of them.                  *)
Readmit(x) ==
  /\ workload = "traverse" /\ moves < MaxMoves /\ moves' = moves + 1
  /\ hidden' = IF x \in hidden THEN hidden \ {x} ELSE hidden \cup {x}
  /\ walk' = IF walk.stage = "walking" THEN [walk EXCEPT !.moved = TRUE] ELSE walk
  /\ UNCHANGED graphVars

(* The relations the reader can read with both ends.  The atStart, moved    *)
(* and calls of a traversal are bookkeeping for the properties.             *)
Visible == {r \in Relation : relation[r] # Absent /\ ({r} \cup Ends(r)) \cap hidden = {}}

StartWalk(start, hops, budget, direction) ==
  /\ workload = "traverse" /\ walk.stage # "walking" /\ Exists(start)
  /\ walk' = [stage |-> IF hops = 0 THEN "done" ELSE "walking",
              start |-> start, left |-> hops, hops |-> hops, direction |-> direction,
              budget |-> budget, frontier |-> {start}, next |-> {}, nodes |-> {start}, edges |-> {},
              truncated |-> FALSE, calls |-> 0, moved |-> FALSE,
              atStart |-> Visible]
  /\ UNCHANGED <<graphVars, hidden, moves>>

(* Mutant: the last level is left out.                                      *)
AdvanceShort(w) ==
  IF w.frontier # {} THEN w
  ELSE IF w.left <= 2 \/ w.next = {} THEN [w EXCEPT !.stage = "done"]
  ELSE [w EXCEPT !.left = @ - 1, !.frontier = w.next, !.next = {}]

(* The next level, when this one is done.                                   *)
Advance(w) ==
  IF w.frontier # {} THEN w
  ELSE IF w.left = 1 \/ w.next = {} THEN [w EXCEPT !.stage = "done"]
  ELSE [w EXCEPT !.left = @ - 1, !.frontier = w.next, !.next = {}]

(* Mutant: every end is visited again.                                      *)
UnvisitedAll(found) == EndsOf(found)

Unvisited(found) == EndsOf(found) \ walk.nodes

Expand(n) ==
  LET found == Neighbors(n, walk.direction)
      new == Unvisited(found)
  IN  /\ n \notin hidden
      /\ Cardinality(walk.nodes \cup new) <= walk.budget
      /\ walk' = Advance([walk EXCEPT !.frontier = @ \ {n}, !.next = @ \cup new,
                            !.nodes = @ \cup new, !.edges = @ \cup found,
                            !.calls = @ + 1])

(* The relations come in no certain order: some are taken, and the next one *)
(* leads to a node too many.                                                *)
Truncate(n) ==
  LET found == Neighbors(n, walk.direction)
  IN  /\ n \notin hidden
      /\ \E some \in SUBSET found, last \in found :
           /\ Cardinality(walk.nodes \cup EndsOf(some)) = walk.budget
           /\ ~(Ends(last) \subseteq walk.nodes \cup EndsOf(some))
           /\ walk' = [walk EXCEPT !.stage = "done", !.truncated = TRUE,
                         !.nodes = @ \cup EndsOf(some), !.calls = @ + 1,
                         !.edges = @ \cup some \cup {last}]

(* neighbors raises for a node that can no longer be read, and with it the  *)
(* whole traversal.                                                         *)
Raise(n) ==
  /\ n \in hidden
  /\ walk' = [walk EXCEPT !.stage = "raised", !.calls = @ + 1]

WalkStep ==
  /\ walk.stage = "walking"
  /\ \E n \in walk.frontier : Expand(n) \/ Truncate(n) \/ Raise(n)
  /\ UNCHANGED <<graphVars, hidden, moves>>

Next ==
  \/ GraphNext /\ UNCHANGED <<hidden, moves, walk>>
  \/ \E x \in Entity \cup Relation : Readmit(x)
  \/ \E start \in Entity, hops \in 0 .. MaxHops, budget \in Budget,
        direction \in {"out", "in", "both"} :
       StartWalk(start, hops, budget, direction)
  \/ WalkStep

Spec == Init /\ [][Next]_vars
-----------------------------------------------------------------------------
(* The nodes at most k hops from the start, over arcs and over relations.   *)
Reach(arcs, start, k) ==
  LET reach[i \in 0 .. k] ==
        IF i = 0 THEN {start}
        ELSE reach[i - 1] \cup {arc[2] : arc \in {a \in arcs : a[1] \in reach[i - 1]}}
  IN  reach[k]

Arcs(direction, rels) ==
  {arc \in Entity \X Entity : \E r \in At(arc[1], direction) \cap rels : arc[2] \in Ends(r)}

Within(start, k, direction, rels) == Reach(Arcs(direction, rels), start, k)

(* However the graph grows meanwhile, a traversal asks for no node twice    *)
(* and stays in its budget of nodes.                                        *)
TraversalIsBounded ==
  walk.stage # "idle" =>
    /\ Cardinality(walk.nodes) <= walk.budget
    /\ walk.calls <= Cardinality(walk.nodes)

(* What it answers is in reach, and an answer that does not say it is       *)
(* truncated has the ends of all its edges and, unless readability moved    *)
(* while it ran, every node that was in readable reach when it began; a     *)
(* truncated one is full and has an edge that leads out of it.              *)
TraversalIsComplete ==
  walk.stage = "done" =>
    /\ walk.nodes \subseteq Within(walk.start, walk.hops, walk.direction, Relation)
    /\ IF walk.truncated
         THEN Cardinality(walk.nodes) = walk.budget /\ ~(EndsOf(walk.edges) \subseteq walk.nodes)
         ELSE /\ EndsOf(walk.edges) \subseteq walk.nodes
              /\ ~walk.moved =>
                   Within(walk.start, walk.hops, walk.direction, walk.atStart)
                     \subseteq walk.nodes
=============================================================================
