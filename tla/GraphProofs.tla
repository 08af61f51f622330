----------------------------- MODULE GraphProofs -----------------------------
(***************************************************************************)
(* Proofs about EntityGraph and GraphTraversal, for any entities, relations,*)
(* agents and limits.                                                       *)
(***************************************************************************)
EXTENDS GraphTraversal, FiniteSetTheorems, WellFoundedInduction, TLAPS

Merging == [canonical : Entity, duplicates : SUBSET Entity, aliases : SUBSET Entity]

(* A merge between its check and its write keeps what it was checked for:   *)
(* entities are never removed, so they are still there when it is written.  *)
MergingInv ==
  \A a \in Agent : merging[a] # Absent =>
    /\ merging[a] \in Merging
    /\ Exists(merging[a].canonical)
    /\ \A d \in merging[a].duplicates : Exists(d)
    /\ merging[a].canonical \notin merging[a].duplicates
    /\ merging[a].duplicates \subseteq merging[a].aliases

MergesInv ==
  \A m \in merges : /\ m.canonical \in Entity /\ Exists(m.canonical)
                    /\ m.duplicates \subseteq Entity

IntoInv ==
  \A e \in Entity : Exists(e) /\ entity[e].mergedInto # Absent =>
    Exists(entity[e].mergedInto)

GraphInv ==
  /\ entity \in [Entity -> EntityRecord \cup {Absent}]
  /\ merging \in [Agent -> Merging \cup {Absent}]
  /\ MergingInv /\ MergesInv /\ IntoInv
  /\ MergesAreTraceable

LEMMA GraphInvInit == GraphInit => GraphInv
  BY DEF GraphInit, GraphInv, MergingInv, MergesInv, IntoInv, MergesAreTraceable, Exists

(* A step that adds entities and touches of the others only what a split    *)
(* touches.                                                                 *)
LEMMA GrowStep ==
  ASSUME GraphInv, entity' \in [Entity -> EntityRecord \cup {Absent}],
         UNCHANGED <<merges, merging>>,
         \A e \in Entity : Exists(e) =>
           /\ entity'[e] # Absent
           /\ entity'[e].aliases = entity[e].aliases
           /\ entity'[e].mergedFrom = entity[e].mergedFrom
           /\ entity'[e].mergedInto = entity[e].mergedInto,
         \A e \in Entity : ~Exists(e) /\ entity'[e] # Absent => entity'[e].mergedInto = Absent
  PROVE  GraphInv'
<1>1. MergingInv'
  BY DEF GraphInv, MergingInv, Exists, Merging
<1>2. MergesInv'
  BY DEF GraphInv, MergesInv, Exists
<1>3. IntoInv'
  BY DEF GraphInv, IntoInv, Exists, EntityRecord
<1>4. MergesAreTraceable'
  BY DEF GraphInv, MergesInv, IntoInv, MergesAreTraceable, Exists, EntityRecord
<1>5. QED
  BY <1>1, <1>2, <1>3, <1>4 DEF GraphInv

LEMMA MergedRecords ==
  ASSUME NEW old \in EntityRecord, NEW q \in Merging
  PROVE  /\ Canonical(old, q) \in EntityRecord
         /\ Canonical(old, q).aliases = old.aliases \cup q.aliases
         /\ Canonical(old, q).mergedFrom = old.mergedFrom \cup q.duplicates
         /\ Canonical(old, q).mergedInto = old.mergedInto
         /\ [old EXCEPT !.mergedInto = q.canonical] \in EntityRecord
         /\ [old EXCEPT !.mergedInto = q.canonical].aliases = old.aliases
         /\ [old EXCEPT !.mergedInto = q.canonical].mergedFrom = old.mergedFrom
         /\ [old EXCEPT !.mergedInto = q.canonical].mergedInto = q.canonical
<1>1. DOMAIN old = {"owner", "aliases", "mergedFrom", "mergedInto", "splitInto", "splitFrom"}
  BY DEF EntityRecord
<1>2. /\ q.aliases \in SUBSET Entity /\ q.duplicates \in SUBSET Entity /\ q.canonical \in Entity
      /\ old.aliases \in SUBSET Entity /\ old.mergedFrom \in SUBSET Entity
  BY DEF Merging, EntityRecord
<1>3. /\ Canonical(old, q).aliases = old.aliases \cup q.aliases
      /\ Canonical(old, q).mergedFrom = old.mergedFrom \cup q.duplicates
      /\ Canonical(old, q).mergedInto = old.mergedInto
  BY <1>1 DEF Canonical
<1>4. Canonical(old, q) \in EntityRecord
  BY <1>1, <1>2 DEF Canonical, EntityRecord
<1>5. QED
  BY <1>1, <1>2, <1>3, <1>4 DEF EntityRecord

LEMMA MergeStep ==
  ASSUME GraphInv, NEW a \in Agent, WriteMerge(a)
  PROVE  GraphInv'
<1>0. PICK p : p = merging[a]
  OBVIOUS
<1>1. /\ p \in Merging /\ Exists(p.canonical) /\ p.canonical \notin p.duplicates
      /\ \A d \in p.duplicates : Exists(d)
      /\ p.duplicates \subseteq p.aliases
  BY <1>0 DEF WriteMerge, GraphInv, MergingInv
<1>2. /\ entity'[p.canonical] = Canonical(entity[p.canonical], p)
      /\ \A d \in p.duplicates : entity'[d] = [entity[d] EXCEPT !.mergedInto = p.canonical]
      /\ \A e \in Entity \ ({p.canonical} \cup p.duplicates) : entity'[e] = entity[e]
  BY <1>0, <1>1 DEF WriteMerge, Merging
<1>3. entity[p.canonical] \in EntityRecord /\ \A d \in p.duplicates : entity[d] \in EntityRecord
  BY <1>1 DEF GraphInv, Exists, Merging
<1>4. /\ entity'[p.canonical] \in EntityRecord
      /\ entity'[p.canonical].aliases = entity[p.canonical].aliases \cup p.aliases
      /\ entity'[p.canonical].mergedFrom = entity[p.canonical].mergedFrom \cup p.duplicates
      /\ entity'[p.canonical].mergedInto = entity[p.canonical].mergedInto
  <2>1. PICK old \in EntityRecord : old = entity[p.canonical]
    BY <1>3
  <2>2. p \in Merging
    BY <1>1
  <2>3. /\ Canonical(old, p) \in EntityRecord
        /\ Canonical(old, p).aliases = old.aliases \cup p.aliases
        /\ Canonical(old, p).mergedFrom = old.mergedFrom \cup p.duplicates
        /\ Canonical(old, p).mergedInto = old.mergedInto
    BY <2>2, MergedRecords
  <2>4. entity'[p.canonical] = Canonical(old, p)
    BY <1>2, <2>1
  <2>5. QED
    BY <2>1, <2>3, <2>4
<1>5. ASSUME NEW d \in p.duplicates
      PROVE  /\ entity'[d] \in EntityRecord
             /\ entity'[d].aliases = entity[d].aliases
             /\ entity'[d].mergedFrom = entity[d].mergedFrom
             /\ entity'[d].mergedInto = p.canonical
  <2>1. PICK old \in EntityRecord : old = entity[d]
    BY <1>3
  <2>2. p \in Merging
    BY <1>1
  <2>3. entity'[d] = [old EXCEPT !.mergedInto = p.canonical]
    BY <1>2, <2>1
  <2>4. QED
    BY <2>1, <2>2, <2>3, MergedRecords
<1>6. entity' \in [Entity -> EntityRecord \cup {Absent}]
  <2>1. DOMAIN entity' = Entity /\ entity' = [e \in Entity |-> entity'[e]]
    BY DEF WriteMerge
  <2>2. \A e \in Entity : entity'[e] \in EntityRecord \cup {Absent}
    BY <1>2, <1>4, <1>5 DEF GraphInv
  <2>3. QED
    BY <2>1, <2>2
<1>7. \A e \in Entity : Exists(e) =>
        /\ entity'[e] # Absent
        /\ entity[e].aliases \subseteq entity'[e].aliases
        /\ entity[e].mergedFrom \subseteq entity'[e].mergedFrom
        /\ entity'[e].mergedInto \in {entity[e].mergedInto, p.canonical}
        /\ entity'[e].mergedInto # entity[e].mergedInto => e \in p.duplicates
  BY <1>2, <1>4, <1>5, EntityAssumption DEF Exists
<1>8. \A e \in Entity : entity'[e] # Absent => Exists(e)
  BY <1>1, <1>2 DEF Exists, Merging
<1>9. merges' = merges \cup {[canonical |-> p.canonical, duplicates |-> p.duplicates]}
      /\ merging' = [merging EXCEPT ![a] = Absent]
  BY <1>0 DEF WriteMerge
<1>10. MergingInv' /\ merging' \in [Agent -> Merging \cup {Absent}]
  BY <1>7, <1>9 DEF GraphInv, MergingInv, Exists, Merging
<1>11. MergesInv'
  BY <1>1, <1>7, <1>9 DEF GraphInv, MergesInv, Exists, Merging
<1>12. IntoInv'
  BY <1>1, <1>7, <1>8 DEF GraphInv, IntoInv, Exists, Merging, EntityRecord
<1>13. MergesAreTraceable'
  <2>1. ASSUME NEW m \in merges'
        PROVE  /\ m.duplicates \subseteq entity'[m.canonical].aliases
               /\ m.duplicates \subseteq entity'[m.canonical].mergedFrom
    <3>1. CASE m \in merges
      BY <3>1, <1>7 DEF GraphInv, MergesInv, MergesAreTraceable
    <3>2. CASE m = [canonical |-> p.canonical, duplicates |-> p.duplicates]
      BY <3>2, <1>1, <1>4
    <3>3. QED
      BY <2>1, <3>1, <3>2, <1>9
  <2>2. ASSUME NEW e \in Entity, entity'[e] # Absent, entity'[e].mergedInto # Absent
        PROVE  e \in entity'[entity'[e].mergedInto].mergedFrom
    <3>1. CASE entity'[e].mergedInto = entity[e].mergedInto
      <4>1. Exists(e) /\ entity[e].mergedInto \in Entity /\ Exists(entity[e].mergedInto)
        BY <2>2, <3>1, <1>8 DEF GraphInv, IntoInv, Exists, EntityRecord
      <4>2. QED
        BY <4>1, <3>1, <2>2, <1>7 DEF GraphInv, MergesAreTraceable
    <3>2. CASE e \in p.duplicates
      BY <3>2, <1>4, <1>5
    <3>3. QED
      BY <3>1, <3>2, <2>2, <1>7, <1>8
  <2>3. QED
    BY <2>1, <2>2 DEF MergesAreTraceable, Exists
<1>14. QED
  BY <1>6, <1>10, <1>11, <1>12, <1>13 DEF GraphInv

LEMMA GraphStep == GraphInv /\ [GraphNext]_graphVars => GraphInv'
<1> SUFFICES ASSUME GraphInv, [GraphNext]_graphVars PROVE GraphInv'
  OBVIOUS
<1>1. ASSUME NEW a \in Agent, AddEntity(a) PROVE GraphInv'
  <2>1. PICK e \in Entity : ~Exists(e) /\ entity' = [entity EXCEPT ![e] = NewEntity(a, Absent)]
    BY <1>1 DEF AddEntity
  <2>2. NewEntity(a, Absent) \in EntityRecord /\ NewEntity(a, Absent).mergedInto = Absent
    BY DEF NewEntity, EntityRecord
  <2>3. QED
    BY <1>1, <2>1, <2>2, GrowStep DEF AddEntity, GraphInv, Exists
<1>2. ASSUME NEW a \in Agent, CheckMerge(a) PROVE GraphInv'
  <2>1. PICK canonical \in Entity, duplicates \in SUBSET Entity :
          /\ \A e \in {canonical} \cup duplicates : Exists(e)
          /\ canonical \notin duplicates
          /\ merging' = [merging EXCEPT ![a] =
               [canonical |-> canonical, duplicates |-> duplicates,
                aliases |-> entity[canonical].aliases \cup duplicates]]
    BY <1>2 DEF CheckMerge
  <2>2. entity[canonical].aliases \in SUBSET Entity
    BY <2>1 DEF GraphInv, Exists, EntityRecord
  <2>3. QED
    BY <1>2, <2>1, <2>2
       DEF CheckMerge, GraphInv, MergingInv, MergesInv, IntoInv, MergesAreTraceable, Exists, Merging
<1>3. ASSUME NEW a \in Agent, WriteMerge(a) PROVE GraphInv'
  BY <1>3, MergeStep
<1>4. ASSUME NEW a \in Agent, FailMerge(a) PROVE GraphInv'
  BY <1>4 DEF FailMerge, GraphInv, MergingInv, MergesInv, IntoInv, MergesAreTraceable, Exists, Merging
<1>5. ASSUME NEW a \in Agent, SplitEntity(a) PROVE GraphInv'
  <2>1. PICK origin \in Entity, into \in SUBSET Entity :
          /\ Exists(origin) /\ \A e \in into : ~Exists(e)
          /\ entity' = [e \in Entity |->
               CASE e = origin -> [entity[e] EXCEPT !.splitInto = into]
                 [] e \in into -> NewEntity(a, origin)
                 [] OTHER -> entity[e]]
    BY <1>5 DEF SplitEntity
  <2>2. NewEntity(a, origin) \in EntityRecord /\ NewEntity(a, origin).mergedInto = Absent
    BY DEF NewEntity, EntityRecord
  <2>3. /\ [entity[origin] EXCEPT !.splitInto = into] \in EntityRecord
        /\ [entity[origin] EXCEPT !.splitInto = into].aliases = entity[origin].aliases
        /\ [entity[origin] EXCEPT !.splitInto = into].mergedFrom = entity[origin].mergedFrom
        /\ [entity[origin] EXCEPT !.splitInto = into].mergedInto = entity[origin].mergedInto
    BY <2>1 DEF GraphInv, Exists, EntityRecord
  <2>4. /\ entity'[origin] = [entity[origin] EXCEPT !.splitInto = into]
        /\ \A e \in into : entity'[e] = NewEntity(a, origin)
        /\ \A e \in Entity \ ({origin} \cup into) : entity'[e] = entity[e]
    BY <2>1
  <2>5. \A e \in Entity : entity'[e] \in EntityRecord \cup {Absent}
    BY <2>2, <2>3, <2>4 DEF GraphInv
  <2>6. entity' \in [Entity -> EntityRecord \cup {Absent}]
    BY <2>1, <2>5
  <2>7. \A e \in Entity : Exists(e) =>
           /\ entity'[e] # Absent
           /\ entity'[e].aliases = entity[e].aliases
           /\ entity'[e].mergedFrom = entity[e].mergedFrom
           /\ entity'[e].mergedInto = entity[e].mergedInto
    BY <2>1, <2>3, <2>4, EntityAssumption DEF Exists
  <2>8. \A e \in Entity : ~Exists(e) /\ entity'[e] # Absent => entity'[e].mergedInto = Absent
    BY <2>1, <2>2, <2>4 DEF Exists
  <2>9. UNCHANGED <<merges, merging>>
    BY <1>5 DEF SplitEntity
  <2>10. QED
    BY <2>6, <2>7, <2>8, <2>9, GrowStep
<1>6. CASE AddRelation \/ UNCHANGED graphVars
  BY <1>6 DEF AddRelation, graphVars, GraphInv, MergingInv, MergesInv, IntoInv,
              MergesAreTraceable, Exists
<1>7. QED
  BY <1>1, <1>2, <1>3, <1>4, <1>5, <1>6 DEF GraphNext

(* However merges and splits overlap, none undoes the trace of another.     *)
THEOREM TraceStands == Spec => []MergesAreTraceable
<1>1. Init => GraphInv
  BY GraphInvInit DEF Init
<1>2. GraphInv /\ [Next]_vars => GraphInv'
  BY GraphStep DEF Next, Readmit, StartWalk, WalkStep, vars
<1>3. GraphInv => MergesAreTraceable
  BY DEF GraphInv
<1>4. QED
  BY <1>1, <1>2, <1>3, PTL DEF Spec
-----------------------------------------------------------------------------
(* What the proof needs of the shape of a traversal.                        *)
Walk(w) ==
  /\ {"stage", "left", "frontier", "next", "nodes", "edges", "truncated", "calls",
      "budget", "moved"} \subseteq DOMAIN w
  /\ w.nodes \in SUBSET Entity /\ w.calls \in Nat /\ w.budget \in Nat \ {0}

RelationsInv ==
  \A r \in Relation : relation[r] # Absent =>
    relation[r].source \in Entity /\ relation[r].target \in Entity

(* Each node that was met is asked once: the ones asked and the ones that   *)
(* wait, now or for the next level, are different nodes.                    *)
Paid(w) ==
  /\ w.frontier \subseteq w.nodes /\ w.next \subseteq w.nodes
  /\ w.frontier \cap w.next = {}
  /\ w.calls + Cardinality(w.frontier) + Cardinality(w.next) <= Cardinality(w.nodes)

WalkOK(w) ==
  w.stage # "idle" =>
    /\ Walk(w)
    /\ Cardinality(w.nodes) <= w.budget
    /\ w.calls <= Cardinality(w.nodes)
    /\ w.stage = "walking" => Paid(w)

WalkInv == RelationsInv /\ WalkOK(walk)

LEMMA FiniteNodes ==
  ASSUME NEW S \in SUBSET Entity
  PROVE  IsFiniteSet(S) /\ Cardinality(S) \in Nat
  BY EntityAssumption, FS_Subset, FS_CardinalityType

LEMMA EndsAreEntities ==
  ASSUME RelationsInv, NEW n \in Entity, NEW direction,
         NEW rels \in SUBSET Neighbors(n, direction)
  PROVE  rels \subseteq Relation /\ EndsOf(rels) \subseteq Entity
  BY DEF RelationsInv, Neighbors, At, EndsOf, Ends

LEMMA AdvanceIsPaid ==
  ASSUME NEW w, Walk(w), w.stage = "walking", Paid(w), Cardinality(w.nodes) <= w.budget
  PROVE  WalkOK(Advance(w))
<1>1. /\ Cardinality(w.frontier) \in Nat /\ Cardinality(w.next) \in Nat
      /\ Cardinality(w.nodes) \in Nat /\ w.calls \in Nat
  BY FiniteNodes DEF Walk, Paid
<1>2. w.calls <= Cardinality(w.nodes)
  BY <1>1 DEF Paid
<1>3. CASE w.frontier # {}
  BY <1>2, <1>3 DEF Advance, WalkOK
<1>4. CASE w.frontier = {} /\ (w.left = 1 \/ w.next = {})
  <2>1. Advance(w) = [w EXCEPT !.stage = "done"]
    BY <1>4 DEF Advance
  <2>2. /\ Walk(Advance(w)) /\ Advance(w).stage = "done"
        /\ Advance(w).nodes = w.nodes /\ Advance(w).calls = w.calls
        /\ Advance(w).budget = w.budget
    BY <2>1 DEF Walk
  <2>3. QED
    BY <1>2, <2>2 DEF WalkOK
<1>5. CASE w.frontier = {} /\ w.left # 1 /\ w.next # {}
  <2>1. Advance(w) = [w EXCEPT !.left = w.left - 1, !.frontier = w.next, !.next = {}]
    BY <1>5 DEF Advance
  <2>2. /\ Walk(Advance(w)) /\ Advance(w).nodes = w.nodes
        /\ Advance(w).calls = w.calls /\ Advance(w).budget = w.budget
        /\ Advance(w).frontier = w.next /\ Advance(w).next = {}
    BY <2>1 DEF Walk
  <2>3. Cardinality({}) = 0
    BY FS_EmptySet
  <2>4. Paid(Advance(w))
    BY <1>1, <1>5, <2>2, <2>3 DEF Paid
  <2>5. QED
    BY <1>2, <2>2, <2>4 DEF WalkOK
<1>6. QED
  BY <1>3, <1>4, <1>5

LEMMA StepOfWalk ==
  ASSUME WalkInv, WalkStep
  PROVE  WalkInv'
<1>1. /\ Walk(walk) /\ walk.stage = "walking" /\ Paid(walk)
      /\ Cardinality(walk.nodes) <= walk.budget /\ walk.calls <= Cardinality(walk.nodes)
  BY DEF WalkInv, WalkOK, WalkStep
<1>2. PICK n \in walk.frontier : Expand(n) \/ Truncate(n) \/ Raise(n)
  BY DEF WalkStep
<1>3. RelationsInv' /\ n \in Entity /\ n \in walk.nodes
  BY <1>1 DEF WalkStep, WalkInv, RelationsInv, graphVars, Walk, Paid
<1>4. /\ IsFiniteSet(walk.frontier) /\ Cardinality(walk.frontier) \in Nat
      /\ IsFiniteSet(walk.next) /\ Cardinality(walk.next) \in Nat
      /\ IsFiniteSet(walk.nodes) /\ Cardinality(walk.nodes) \in Nat
      /\ walk.calls \in Nat /\ walk.budget \in Nat
  BY <1>1, FiniteNodes DEF Walk, Paid
<1>5. /\ Cardinality(walk.frontier \ {n}) = Cardinality(walk.frontier) - 1
      /\ Cardinality(walk.frontier \ {n}) \in Nat
  BY <1>1, <1>4, FS_RemoveElement, FiniteNodes DEF Walk, Paid
<1>6. walk.calls + 1 <= Cardinality(walk.nodes)
  BY <1>1, <1>4, <1>5 DEF Paid
<1>7. ASSUME Expand(n) PROVE WalkOK(walk')
  <2> DEFINE found == Neighbors(n, walk.direction)
             new == Unvisited(found)
             w == [walk EXCEPT !.frontier = walk.frontier \ {n}, !.next = walk.next \cup new,
                     !.nodes = walk.nodes \cup new, !.edges = walk.edges \cup found,
                     !.calls = walk.calls + 1]
  <2>1. walk' = Advance(w) /\ Cardinality(walk.nodes \cup new) <= walk.budget
    BY <1>7 DEF Expand
  <2>2. new \in SUBSET Entity /\ found \in SUBSET Relation /\ new \cap walk.nodes = {}
    BY <1>3, EndsAreEntities DEF Unvisited, WalkInv
  <2>3. /\ Walk(w) /\ w.stage = "walking" /\ w.calls = walk.calls + 1
        /\ w.nodes = walk.nodes \cup new /\ w.next = walk.next \cup new
        /\ w.frontier = walk.frontier \ {n} /\ w.budget = walk.budget
    <3> HIDE DEF new, found
    <3> QED BY <1>1, <2>2 DEF Walk
  <2>4. new \cap walk.next = {}
    BY <1>1, <2>2 DEF Paid
  <2> HIDE DEF new, found
  <2>5. IsFiniteSet(new) /\ Cardinality(new) \in Nat
    BY <2>2, FiniteNodes
  <2>6. Cardinality({}) = 0
    BY FS_EmptySet
  <2>7. Cardinality(walk.nodes \cup new) = Cardinality(walk.nodes) + Cardinality(new)
    <3>1. walk.nodes \cap new = {}
      BY <2>2
    <3>2. Cardinality(walk.nodes \cup new)
            = Cardinality(walk.nodes) + Cardinality(new) - Cardinality(walk.nodes \cap new)
      BY <1>4, <2>5, FS_Union
    <3>3. Cardinality(walk.nodes \cap new) = 0
      BY <3>1, <2>6
    <3>4. Cardinality(walk.nodes) \in Nat /\ Cardinality(new) \in Nat
      BY <1>4, <2>5
    <3>5. QED
      BY <3>2, <3>3, <3>4
  <2>8. Cardinality(walk.next \cup new) = Cardinality(walk.next) + Cardinality(new)
    <3>1. walk.next \cap new = {}
      BY <2>4
    <3>2. Cardinality(walk.next \cup new)
            = Cardinality(walk.next) + Cardinality(new) - Cardinality(walk.next \cap new)
      BY <1>4, <2>5, FS_Union
    <3>3. Cardinality(walk.next \cap new) = 0
      BY <3>1, <2>6
    <3>4. Cardinality(walk.next) \in Nat /\ Cardinality(new) \in Nat
      BY <1>4, <2>5
    <3>5. QED
      BY <3>2, <3>3, <3>4
  <2> HIDE DEF w
  <2>9. Paid(w)
    <3>1. /\ w.frontier \subseteq w.nodes /\ w.next \subseteq w.nodes
          /\ w.frontier \cap w.next = {}
      BY <1>1, <2>2, <2>3 DEF Paid
    <3>2. w.calls + Cardinality(w.frontier) + Cardinality(w.next) <= Cardinality(w.nodes)
      BY <1>1, <1>4, <1>5, <2>3, <2>5, <2>7, <2>8 DEF Paid
    <3>3. QED
      BY <3>1, <3>2 DEF Paid
  <2>10. QED
    BY <2>1, <2>3, <2>9, AdvanceIsPaid
<1>8. ASSUME Truncate(n) PROVE WalkOK(walk')
  <2>1. PICK some \in SUBSET Neighbors(n, walk.direction), last \in Neighbors(n, walk.direction) :
          /\ Cardinality(walk.nodes \cup EndsOf(some)) = walk.budget
          /\ walk' = [walk EXCEPT !.stage = "done", !.truncated = TRUE,
                        !.nodes = walk.nodes \cup EndsOf(some), !.calls = walk.calls + 1,
                        !.edges = walk.edges \cup some \cup {last}]
    BY <1>8 DEF Truncate
  <2>2. some \subseteq Relation /\ EndsOf(some) \subseteq Entity /\ last \in Relation
    BY <1>3, EndsAreEntities DEF WalkInv, Neighbors, At
  <2> DEFINE ends == EndsOf(some)
  <2> HIDE DEF ends
  <2>3. /\ Walk(walk') /\ walk'.stage = "done" /\ walk'.nodes = walk.nodes \cup ends
        /\ walk'.calls = walk.calls + 1 /\ walk'.budget = walk.budget
    BY <1>1, <2>1, <2>2 DEF Walk, ends
  <2>4. Cardinality(walk.nodes) <= Cardinality(walk.nodes \cup ends)
    <3>1. IsFiniteSet(walk.nodes \cup ends)
      BY <1>1, <2>2, FiniteNodes DEF Walk, ends
    <3>2. QED
      BY <3>1, FS_Subset
  <2>5. Cardinality(walk.nodes \cup ends) = walk.budget
    BY <2>1 DEF ends
  <2>6. QED
    BY <1>4, <1>6, <2>3, <2>4, <2>5 DEF WalkOK
<1>9. ASSUME Raise(n) PROVE WalkOK(walk')
  <2>1. /\ Walk(walk') /\ walk'.stage = "raised" /\ walk'.nodes = walk.nodes
        /\ walk'.calls = walk.calls + 1 /\ walk'.budget = walk.budget
    BY <1>1, <1>9 DEF Raise, Walk
  <2>2. QED
    BY <1>1, <1>6, <2>1 DEF WalkOK
<1>10. QED
  BY <1>2, <1>3, <1>7, <1>8, <1>9 DEF WalkInv, WalkOK, Paid

LEMMA WalkInvStep == WalkInv /\ [Next]_vars => WalkInv'
<1> SUFFICES ASSUME WalkInv, [Next]_vars PROVE WalkInv'
  OBVIOUS
<1>1. CASE GraphNext /\ UNCHANGED <<hidden, moves, walk>>
  <2>1. RelationsInv'
    <3>1. CASE AddRelation
      <4>1. PICK r \in Relation, source, target \in Entity :
              relation' = [relation EXCEPT ![r] = [source |-> source, target |-> target]]
        BY <3>1 DEF AddRelation
      <4>2. QED
        BY <4>1 DEF WalkInv, RelationsInv
    <3>2. CASE UNCHANGED relation
      BY <3>2 DEF WalkInv, RelationsInv
    <3>3. QED
      BY <1>1, <3>1, <3>2
         DEF GraphNext, AddEntity, CheckMerge, WriteMerge, FailMerge, SplitEntity
  <2>2. QED
    BY <1>1, <2>1 DEF WalkInv, WalkOK, Paid
<1>2. ASSUME NEW x \in Entity \cup Relation, Readmit(x) PROVE WalkInv'
  <2>1. RelationsInv'
    BY <1>2 DEF Readmit, graphVars, WalkInv, RelationsInv
  <2>2. CASE walk.stage = "walking"
    <3>1. /\ Walk(walk') /\ walk'.stage = "walking" /\ walk'.nodes = walk.nodes
          /\ walk'.calls = walk.calls /\ walk'.budget = walk.budget
          /\ walk'.frontier = walk.frontier /\ walk'.next = walk.next
      BY <1>2, <2>2 DEF Readmit, WalkInv, WalkOK, Walk
    <3>2. QED
      BY <2>1, <2>2, <3>1 DEF WalkInv, WalkOK, Paid
  <2>3. CASE walk.stage # "walking"
    BY <1>2, <2>1, <2>3 DEF Readmit, WalkInv, WalkOK, Paid
  <2>4. QED
    BY <2>2, <2>3
<1>3. ASSUME NEW start \in Entity, NEW hops \in 0 .. MaxHops, NEW budget \in Budget,
             NEW direction \in {"out", "in", "both"}, StartWalk(start, hops, budget, direction)
      PROVE  WalkInv'
  <2>1. RelationsInv'
    BY <1>3 DEF StartWalk, graphVars, WalkInv, RelationsInv
  <2>2. hops \in Nat /\ budget \in Nat \ {0}
    BY LimitsAssumption
  <2>3. /\ Walk(walk') /\ walk'.nodes = {start} /\ walk'.calls = 0
        /\ walk'.frontier = {start} /\ walk'.next = {} /\ walk'.budget = budget
    BY <1>3, <2>2 DEF StartWalk, Walk
  <2>4. Cardinality({start}) = 1 /\ Cardinality({}) = 0
    BY FS_Singleton, FS_EmptySet
  <2>5. QED
    BY <2>1, <2>2, <2>3, <2>4 DEF WalkInv, WalkOK, Paid
<1>4. CASE WalkStep
  BY <1>4, StepOfWalk
<1>5. CASE UNCHANGED vars
  BY <1>5 DEF vars, graphVars, WalkInv, WalkOK, Paid, RelationsInv
<1>6. QED
  BY <1>1, <1>2, <1>3, <1>4, <1>5 DEF Next

(* However the graph grows meanwhile, a traversal asks for no node twice    *)
(* and stays in its budget of nodes.                                        *)
THEOREM TraversalStaysBounded == Spec => []TraversalIsBounded
<1>1. Init => WalkInv
  BY DEF Init, GraphInit, WalkInv, WalkOK, RelationsInv
<1>2. WalkInv => TraversalIsBounded
  BY DEF WalkInv, WalkOK, TraversalIsBounded
<1>3. QED
  BY <1>1, <1>2, WalkInvStep, PTL DEF Spec
-----------------------------------------------------------------------------
(* What a traversal finds.  Reach is defined recursively over the hops; the *)
(* lemmas below give its equations, and what follows from them, for any set *)
(* of arcs.                                                                 *)
Below == {ss \in Nat \X Nat : ss[1] < ss[2]}

LEMMA BelowIsWellFounded == IsWellFoundedOn(Below, Nat)
  BY NatLessThanWellFounded DEF OpToRel, Below

(* The naturals have no infinite descent, so a nonempty set of them has a   *)
(* least element: induction in a form that needs no operator parameter.     *)
LEMMA LeastElement ==
  ASSUME NEW S \in SUBSET Nat, S # {}
  PROVE  \E m \in S : \A k \in S : m <= k
<1>1. PICK m \in S : \A k \in S : ~(<<k, m>> \in Below)
  BY BelowIsWellFounded, WFMin, Zenon
<1>2. ASSUME NEW k \in S PROVE m <= k
  <2>1. k \in Nat /\ m \in Nat
    OBVIOUS
  <2>2. <<k, m>> \in Nat \X Nat
    BY <2>1
  <2>3. ~(k < m)
    BY <1>1, <2>2 DEF Below
  <2>4. QED
    BY <2>1, <2>3
<1>3. QED
  BY <1>2

(* One hop over the arcs from a set of nodes.                               *)
Hop(arcs, S) == {arc[2] : arc \in {a \in arcs : a[1] \in S}}

IsReach(f, arcs, start, k) ==
  f = [i \in 0 .. k |-> IF i = 0 THEN {start} ELSE f[i - 1] \cup Hop(arcs, f[i - 1])]

ReachTo(arcs, start, k) == CHOOSE f : IsReach(f, arcs, start, k)

LEMMA ReachIs ==
  ASSUME NEW arcs, NEW start, NEW k
  PROVE  Reach(arcs, start, k) = ReachTo(arcs, start, k)[k]
  BY DEF Reach, ReachTo, IsReach, Hop

LEMMA ReachUnique ==
  ASSUME NEW arcs, NEW start, NEW k \in Nat, NEW j \in 0 .. k, NEW f, NEW g,
         IsReach(f, arcs, start, k), IsReach(g, arcs, start, j)
  PROVE  \A i \in 0 .. j : f[i] = g[i]
<1> DEFINE Differ == {i \in 0 .. j : f[i] # g[i]}
<1>1. ASSUME Differ # {} PROVE FALSE
  <2>0. Differ \in SUBSET Nat /\ j \in Nat /\ 0 .. j \subseteq 0 .. k
    OBVIOUS
  <2>1. PICK m \in Differ : \A i \in Differ : m <= i
    BY <1>1, <2>0, LeastElement, Zenon
  <2>2. CASE m = 0
    BY <2>1, <2>2 DEF IsReach
  <2>3. CASE m # 0
    <3>1. m - 1 \in 0 .. j /\ m - 1 \notin Differ
      BY <2>1, <2>3
    <3>2. f[m - 1] = g[m - 1]
      BY <3>1
    <3>3. f[m] = f[m - 1] \cup Hop(arcs, f[m - 1])
      BY <2>0, <2>1, <2>3 DEF IsReach
    <3>4. g[m] = g[m - 1] \cup Hop(arcs, g[m - 1])
      BY <2>0, <2>1, <2>3 DEF IsReach
    <3>5. QED
      BY <3>2, <3>3, <3>4, <2>1
  <2>4. QED
    BY <2>2, <2>3
<1>2. QED
  BY <1>1

LEMMA ReachExtends ==
  ASSUME NEW arcs, NEW start, NEW k \in Nat, NEW f, IsReach(f, arcs, start, k)
  PROVE  \E g : IsReach(g, arcs, start, k + 1)
<1> DEFINE g == [i \in 0 .. k + 1 |-> IF i <= k THEN f[i] ELSE f[k] \cup Hop(arcs, f[k])]
<1>1. ASSUME NEW i \in 0 .. k + 1
      PROVE  g[i] = IF i = 0 THEN {start} ELSE g[i - 1] \cup Hop(arcs, g[i - 1])
  <2>1. ASSUME NEW n \in 0 .. k
        PROVE  f[n] = IF n = 0 THEN {start} ELSE f[n - 1] \cup Hop(arcs, f[n - 1])
    BY DEF IsReach
  <2>2. CASE i = k + 1
    <3>1. g[i] = f[k] \cup Hop(arcs, f[k]) /\ i - 1 = k /\ g[k] = f[k] /\ i # 0
      BY <2>2
    <3>2. QED
      BY <3>1
  <2>3. CASE i \in 0 .. k
    <3>1. g[i] = f[i] /\ (i # 0 => i - 1 \in 0 .. k /\ g[i - 1] = f[i - 1])
      BY <2>3
    <3>2. QED
      BY <2>1, <2>3, <3>1
  <2>4. QED
    BY <2>2, <2>3
<1>2. IsReach(g, arcs, start, k + 1)
  BY <1>1 DEF IsReach
<1>3. QED
  BY <1>2

LEMMA ReachExists ==
  ASSUME NEW arcs, NEW start, NEW k \in Nat
  PROVE  IsReach(ReachTo(arcs, start, k), arcs, start, k)
<1> DEFINE Without == {i \in Nat : ~ \E f : IsReach(f, arcs, start, i)}
<1>1. ASSUME Without # {} PROVE FALSE
  <2>1. PICK m \in Without : \A i \in Without : m <= i
    BY <1>1, LeastElement, Zenon, Without \in SUBSET Nat
  <2>2. CASE m = 0
    <3>1. IsReach([i \in 0 .. 0 |-> {start}], arcs, start, 0)
      BY DEF IsReach
    <3>2. QED
      BY <3>1, <2>2, <2>1
  <2>3. CASE m # 0
    <3>1. m - 1 \in Nat /\ m - 1 \notin Without
      BY <2>1, <2>3
    <3>2. PICK f : IsReach(f, arcs, start, m - 1)
      BY <3>1
    <3>3. \E g : IsReach(g, arcs, start, (m - 1) + 1)
      BY <3>1, <3>2, ReachExtends
    <3>4. (m - 1) + 1 = m
      BY <2>1
    <3>5. QED
      BY <3>3, <3>4, <2>1
  <2>4. QED
    BY <2>2, <2>3
<1>2. \E f : IsReach(f, arcs, start, k)
  BY <1>1
<1>3. QED
  BY <1>2 DEF ReachTo

LEMMA ReachZero ==
  ASSUME NEW arcs, NEW start
  PROVE  Reach(arcs, start, 0) = {start}
  BY ReachExists, ReachIs DEF IsReach

LEMMA ReachNext ==
  ASSUME NEW arcs, NEW start, NEW k \in Nat
  PROVE  Reach(arcs, start, k + 1) = Reach(arcs, start, k) \cup Hop(arcs, Reach(arcs, start, k))
<1> DEFINE f == ReachTo(arcs, start, k + 1)
           g == ReachTo(arcs, start, k)
<1>1. IsReach(f, arcs, start, k + 1) /\ IsReach(g, arcs, start, k)
  BY ReachExists
<1> HIDE DEF f, g
<1>2. f[k] = g[k]
  BY <1>1, ReachUnique, k \in 0 .. k + 1, k \in 0 .. k, k + 1 \in Nat
<1>3. f[k + 1] = f[k] \cup Hop(arcs, f[k])
  <2>1. k + 1 \in 0 .. k + 1 /\ k + 1 # 0 /\ (k + 1) - 1 = k
    OBVIOUS
  <2>2. f = [i \in 0 .. k + 1 |-> IF i = 0 THEN {start} ELSE f[i - 1] \cup Hop(arcs, f[i - 1])]
    BY <1>1 DEF IsReach
  <2>3. QED
    BY <2>1, <2>2
<1>4. QED
  BY <1>2, <1>3, ReachIs DEF f, g

(* A set that has the start and that no arc leads out of has all in reach.  *)
LEMMA ReachClosed ==
  ASSUME NEW arcs, NEW start, NEW S, start \in S, Hop(arcs, S) \subseteq S, NEW k \in Nat
  PROVE  Reach(arcs, start, k) \subseteq S
<1> DEFINE Out == {i \in Nat : ~(Reach(arcs, start, i) \subseteq S)}
<1>1. ASSUME Out # {} PROVE FALSE
  <2>1. PICK m \in Out : \A i \in Out : m <= i
    BY <1>1, LeastElement, Zenon, Out \in SUBSET Nat
  <2>2. m # 0
    BY <2>1, ReachZero
  <2>3. m - 1 \in Nat /\ m - 1 \notin Out /\ m = (m - 1) + 1
    BY <2>1, <2>2
  <2>4. PICK R : R = Reach(arcs, start, m - 1)
    OBVIOUS
  <2>5. R \subseteq S /\ Reach(arcs, start, m) = R \cup Hop(arcs, R)
    BY <2>3, <2>4, ReachNext
  <2>6. Hop(arcs, R) \subseteq S
    BY <2>5 DEF Hop
  <2>7. QED
    BY <2>1, <2>5, <2>6
<1>2. QED
  BY <1>1

(* More hops reach more.                                                    *)
LEMMA ReachFurther ==
  ASSUME NEW arcs, NEW start, NEW j \in Nat, NEW k \in Nat, j <= k
  PROVE  Reach(arcs, start, j) \subseteq Reach(arcs, start, k)
<1> DEFINE Lost == {i \in Nat : j <= i /\ ~(Reach(arcs, start, j) \subseteq Reach(arcs, start, i))}
<1>1. ASSUME Lost # {} PROVE FALSE
  <2>1. PICK m \in Lost : \A i \in Lost : m <= i
    BY <1>1, LeastElement, Zenon, Lost \in SUBSET Nat
  <2>2. m # j
    BY <2>1
  <2>3. m - 1 \in Nat /\ j <= m - 1 /\ m - 1 \notin Lost /\ m = (m - 1) + 1
    BY <2>1, <2>2
  <2>4. Reach(arcs, start, j) \subseteq Reach(arcs, start, m - 1)
    BY <2>3
  <2>5. Reach(arcs, start, m - 1) \subseteq Reach(arcs, start, m)
    BY <2>3, ReachNext
  <2>6. QED
    BY <2>1, <2>4, <2>5
<1>2. QED
  BY <1>1

(* More arcs reach more.                                                    *)
LEMMA ReachWider ==
  ASSUME NEW arcs, NEW more, arcs \subseteq more, NEW start, NEW k \in Nat
  PROVE  Reach(arcs, start, k) \subseteq Reach(more, start, k)
<1> DEFINE Lost == {i \in Nat : ~(Reach(arcs, start, i) \subseteq Reach(more, start, i))}
<1>1. ASSUME Lost # {} PROVE FALSE
  <2>1. PICK m \in Lost : \A i \in Lost : m <= i
    BY <1>1, LeastElement, Zenon, Lost \in SUBSET Nat
  <2>2. m # 0
    BY <2>1, ReachZero
  <2>3. m - 1 \in Nat /\ m - 1 \notin Lost /\ m = (m - 1) + 1
    BY <2>1, <2>2
  <2>4. PICK R, Q : R = Reach(arcs, start, m - 1) /\ Q = Reach(more, start, m - 1)
    OBVIOUS
  <2>5. /\ R \subseteq Q /\ Reach(arcs, start, m) = R \cup Hop(arcs, R)
        /\ Reach(more, start, m) = Q \cup Hop(more, Q)
    BY <2>3, <2>4, ReachNext
  <2>6. Hop(arcs, R) \subseteq Hop(more, Q)
    BY <2>5 DEF Hop
  <2>7. QED
    BY <2>1, <2>5, <2>6
<1>2. QED
  BY <1>1
-----------------------------------------------------------------------------
(* The traversal along its way.  A stands for the arcs of the graph as it   *)
(* is now, V for those of the relations that were visible when it began.    *)
Fields == {"stage", "start", "left", "hops", "direction", "budget", "frontier", "next",
           "nodes", "edges", "truncated", "calls", "moved", "atStart"}

Depth(w) == w.hops - w.left

(* At depth d: what was met before this level is within d hops, what the    *)
(* level met within d + 1; unless readability moved, the nodes of the       *)
(* levels so far are all there and every arc from one that was asked leads  *)
(* to one that was met.                                                     *)
Going(w, A, V) ==
  /\ w.left \in 1 .. w.hops /\ w.start \in w.nodes /\ ~w.truncated
  /\ w.next \subseteq w.nodes /\ w.frontier \subseteq w.nodes \ w.next
  /\ w.nodes \subseteq Reach(A, w.start, Depth(w) + 1)
  /\ w.nodes \ w.next \subseteq Reach(A, w.start, Depth(w))
  /\ ~w.moved => /\ Reach(V, w.start, Depth(w)) \subseteq w.nodes \ w.next
                 /\ Hop(V, w.nodes \ (w.frontier \cup w.next)) \subseteq w.nodes

Answered(w, A, V) ==
  /\ w.nodes \subseteq Reach(A, w.start, w.hops)
  /\ IF w.truncated THEN Cardinality(w.nodes) = w.budget
     ELSE ~w.moved => Reach(V, w.start, w.hops) \subseteq w.nodes

Found(w, A, V) ==
  /\ DOMAIN w = Fields /\ w.hops \in Nat /\ w.truncated \in BOOLEAN /\ w.moved \in BOOLEAN
  /\ w.start \in Entity /\ w.edges \subseteq Relation /\ w.atStart \subseteq Relation
  /\ w.stage = "walking" => Going(w, A, V)
  /\ w.stage = "done" => Answered(w, A, V)

Present(r) == relation[r] # Absent

(* The edges, as the graph has them.                                        *)
EdgesInv(w) ==
  /\ \A r \in w.edges \cup w.atStart : Present(r)
  /\ w.stage = "walking" => EndsOf(w.edges) \subseteq w.nodes
  /\ w.stage = "walking" /\ ~w.moved => w.atStart \subseteq Visible
  /\ w.stage = "done" => (w.truncated <=> ~(EndsOf(w.edges) \subseteq w.nodes))

FoundInv ==
  /\ DOMAIN relation = Relation
  /\ walk.stage # "idle" =>
       /\ Found(walk, Arcs(walk.direction, Relation), Arcs(walk.direction, walk.atStart))
       /\ EdgesInv(walk)

LEMMA ReachHop ==
  ASSUME NEW arcs, NEW start, NEW k \in Nat, NEW S, Reach(arcs, start, k) \subseteq S,
         NEW T, S \subseteq T, Hop(arcs, S) \subseteq T
  PROVE  Reach(arcs, start, k + 1) \subseteq T
<1>1. PICK R : R = Reach(arcs, start, k)
  OBVIOUS
<1>2. Hop(arcs, R) \subseteq Hop(arcs, S)
  BY <1>1 DEF Hop
<1>3. Reach(arcs, start, k + 1) = R \cup Hop(arcs, R)
  BY <1>1, ReachNext
<1>4. QED
  BY <1>1, <1>2, <1>3

(* The graph grows: what was found stays within reach.                      *)
LEMMA FoundGrows ==
  ASSUME NEW w, NEW A, NEW B, NEW V, Found(w, A, V), A \subseteq B
  PROVE  Found(w, B, V)
<1>1. ASSUME w.stage = "walking" PROVE Going(w, B, V)
  <2>1. Going(w, A, V)
    BY <1>1 DEF Found
  <2>2. Depth(w) \in Nat /\ Depth(w) + 1 \in Nat
    BY <2>1 DEF Going, Depth, Found
  <2>3. /\ Reach(A, w.start, Depth(w)) \subseteq Reach(B, w.start, Depth(w))
        /\ Reach(A, w.start, Depth(w) + 1) \subseteq Reach(B, w.start, Depth(w) + 1)
    BY <2>2, ReachWider
  <2>4. QED
    BY <2>1, <2>3 DEF Going
<1>2. ASSUME w.stage = "done" PROVE Answered(w, B, V)
  <2>1. Answered(w, A, V) /\ w.hops \in Nat
    BY <1>2 DEF Found
  <2>2. Reach(A, w.start, w.hops) \subseteq Reach(B, w.start, w.hops)
    BY <2>1, ReachWider
  <2>3. QED
    BY <2>1, <2>2 DEF Answered
<1>3. QED
  BY <1>1, <1>2 DEF Found

(* The end of a level, or of the traversal.                                 *)
LEMMA AdvanceFinds ==
  ASSUME NEW w, NEW A, NEW V, Found(w, A, V), w.stage = "walking"
  PROVE  /\ Found(Advance(w), A, V)
         /\ Advance(w).stage \in {"walking", "done"}
         /\ Advance(w).edges = w.edges /\ Advance(w).nodes = w.nodes
         /\ Advance(w).atStart = w.atStart /\ Advance(w).moved = w.moved
         /\ Advance(w).truncated = w.truncated /\ Advance(w).direction = w.direction
<1>1. /\ DOMAIN w = Fields /\ w.hops \in Nat /\ Going(w, A, V)
      /\ w.moved \in BOOLEAN /\ w.truncated \in BOOLEAN
      /\ w.left \in 1 .. w.hops /\ w.start \in w.nodes /\ ~w.truncated
  BY DEF Found, Going
<1>2. /\ w.left \in Nat /\ Depth(w) \in Nat /\ Depth(w) + 1 \in Nat /\ Depth(w) + 1 <= w.hops
      /\ w.hops \in Nat
  BY <1>1 DEF Depth
<1>3. CASE w.frontier # {}
  BY <1>3 DEF Advance
<1>4. ASSUME w.frontier = {}, ~w.moved
      PROVE  Reach(V, w.start, Depth(w) + 1) \subseteq w.nodes
  <2>1. /\ Reach(V, w.start, Depth(w)) \subseteq w.nodes \ w.next
        /\ Hop(V, w.nodes \ w.next) \subseteq w.nodes
    BY <1>1, <1>4 DEF Going
  <2>2. QED
    BY <2>1, <1>2, ReachHop
<1>5. CASE w.frontier = {} /\ (w.left = 1 \/ w.next = {})
  <2>1. Advance(w) = [w EXCEPT !.stage = "done"]
    BY <1>5 DEF Advance
  <2>2. PICK u : u = Advance(w)
    OBVIOUS
  <2>3. /\ DOMAIN u = Fields /\ u.stage = "done" /\ u.start = w.start /\ u.hops = w.hops
        /\ u.nodes = w.nodes /\ u.edges = w.edges /\ u.atStart = w.atStart
        /\ u.moved = w.moved /\ u.truncated = w.truncated /\ u.direction = w.direction
    BY <2>1, <2>2, <1>1 DEF Fields
  <2>4. w.nodes \subseteq Reach(A, w.start, w.hops)
    <3>1. Reach(A, w.start, Depth(w) + 1) \subseteq Reach(A, w.start, w.hops)
      BY <1>2, ReachFurther
    <3>2. QED
      BY <3>1, <1>1 DEF Going
  <2>5. ASSUME ~w.moved PROVE Reach(V, w.start, w.hops) \subseteq w.nodes
    <3>1. CASE w.left = 1
      <4>1. Depth(w) + 1 = w.hops
        BY <3>1, <1>2 DEF Depth
      <4>2. QED
        BY <4>1, <1>4, <1>5, <2>5
    <3>2. CASE w.next = {}
      <4>1. Hop(V, w.nodes) \subseteq w.nodes
        <5>1. w.nodes \ (w.frontier \cup w.next) = w.nodes
          BY <1>5, <3>2
        <5>2. QED
          BY <5>1, <1>1, <2>5 DEF Going
      <4>2. QED
        BY <1>1, <4>1, <1>2, ReachClosed
    <3>3. QED
      BY <3>1, <3>2, <1>5
  <2>6. Answered(u, A, V)
    BY <1>1, <2>3, <2>4, <2>5 DEF Answered
  <2>7. Found(u, A, V)
    <3>1. /\ w.start \in Entity /\ w.edges \subseteq Relation /\ w.atStart \subseteq Relation
      BY DEF Found
    <3>2. QED
      BY <2>3, <2>6, <1>1, <3>1 DEF Found
  <2>8. QED
    BY <2>2, <2>3, <2>7
<1>6. CASE w.frontier = {} /\ w.left # 1 /\ w.next # {}
  <2>1. Advance(w) = [w EXCEPT !.left = w.left - 1, !.frontier = w.next, !.next = {}]
    BY <1>6 DEF Advance
  <2>2. PICK u : u = Advance(w)
    OBVIOUS
  <2>3. /\ DOMAIN u = Fields /\ u.stage = "walking" /\ u.start = w.start /\ u.hops = w.hops
        /\ u.nodes = w.nodes /\ u.edges = w.edges /\ u.atStart = w.atStart
        /\ u.moved = w.moved /\ u.truncated = w.truncated /\ u.direction = w.direction
    BY <2>1, <2>2, <1>1 DEF Fields
  <2>4. u.left = w.left - 1 /\ u.frontier = w.next /\ u.next = {}
    BY <2>1, <2>2, <1>1 DEF Fields
  <2>5. u.left \in 1 .. u.hops /\ Depth(u) = Depth(w) + 1 /\ Depth(u) + 1 \in Nat
    BY <2>3, <2>4, <1>2, <1>6 DEF Depth
  <2>6. u.nodes \subseteq Reach(A, u.start, Depth(u))
    BY <2>3, <2>5, <1>1 DEF Going
  <2>7. u.nodes \subseteq Reach(A, u.start, Depth(u) + 1)
    <3>1. Reach(A, u.start, Depth(u)) \subseteq Reach(A, u.start, Depth(u) + 1)
      BY <1>2, <2>5, ReachFurther
    <3>2. QED
      BY <3>1, <2>6
  <2>8. ASSUME ~u.moved
        PROVE  /\ Reach(V, u.start, Depth(u)) \subseteq u.nodes \ u.next
               /\ Hop(V, u.nodes \ (u.frontier \cup u.next)) \subseteq u.nodes
    <3>1. Reach(V, w.start, Depth(w) + 1) \subseteq w.nodes
      BY <1>4, <1>6, <2>3, <2>8
    <3>2. w.nodes \ (w.frontier \cup w.next) = u.nodes \ (u.frontier \cup u.next)
      BY <1>6, <2>3, <2>4
    <3>3. Hop(V, w.nodes \ (w.frontier \cup w.next)) \subseteq w.nodes
      BY <1>1, <2>3, <2>8 DEF Going
    <3>4. QED
      BY <3>1, <3>2, <3>3, <2>3, <2>4, <2>5
  <2>9. u.frontier \subseteq u.nodes \ u.next
    <3>1. w.next \subseteq w.nodes
      BY <1>1 DEF Going
    <3>2. QED
      BY <3>1, <2>3, <2>4
  <2>10. Going(u, A, V)
    BY <1>1, <2>3, <2>4, <2>5, <2>6, <2>7, <2>8, <2>9 DEF Going
  <2>11. Found(u, A, V)
    <3>1. /\ w.start \in Entity /\ w.edges \subseteq Relation /\ w.atStart \subseteq Relation
      BY DEF Found
    <3>2. QED
      BY <2>3, <2>10, <1>1, <3>1 DEF Found
  <2>12. QED
    BY <2>2, <2>3, <2>11
<1>7. QED
  BY <1>3, <1>5, <1>6

LEMMA HopTo ==
  ASSUME NEW arcs, NEW S, NEW n \in S, NEW ends, \A m \in ends : <<n, m>> \in arcs
  PROVE  ends \subseteq Hop(arcs, S)
<1>1. ASSUME NEW m \in ends PROVE m \in Hop(arcs, S)
  <2>1. PICK arc : arc = <<n, m>>
    OBVIOUS
  <2>2. arc \in arcs /\ arc[1] = n /\ arc[2] = m
    BY <2>1
  <2>3. QED
    BY <2>2 DEF Hop
<1>2. QED
  BY <1>1

Asked(w, n, found, ends) ==
  [w EXCEPT !.frontier = w.frontier \ {n}, !.next = w.next \cup (ends \ w.nodes),
            !.nodes = w.nodes \cup (ends \ w.nodes), !.edges = w.edges \cup found,
            !.calls = w.calls + 1]

Cut(w, found, ends) ==
  [w EXCEPT !.stage = "done", !.truncated = TRUE, !.nodes = w.nodes \cup ends,
            !.calls = w.calls + 1, !.edges = w.edges \cup found]

(* One node asked: what it leads to is one hop further, and all of it is    *)
(* met.                                                                     *)
LEMMA ExpandFinds ==
  ASSUME NEW w, NEW A, NEW V, Found(w, A, V), w.stage = "walking",
         NEW n \in w.frontier, NEW found \in SUBSET Relation, NEW ends,
         \A m \in ends : <<n, m>> \in A, ~w.moved => Hop(V, {n}) \subseteq ends,
         NEW u, u = Asked(w, n, found, ends)
  PROVE  Found(u, A, V)
<1>1. /\ DOMAIN w = Fields /\ w.hops \in Nat /\ Going(w, A, V)
      /\ w.moved \in BOOLEAN /\ w.truncated \in BOOLEAN /\ w.start \in Entity
      /\ w.edges \subseteq Relation /\ w.atStart \subseteq Relation
      /\ w.left \in 1 .. w.hops /\ w.start \in w.nodes /\ ~w.truncated
  BY DEF Found, Going
<1>2. /\ DOMAIN u = Fields /\ u.stage = "walking" /\ u.start = w.start /\ u.hops = w.hops
      /\ u.edges = w.edges \cup found /\ u.atStart = w.atStart /\ u.left = w.left
      /\ u.moved = w.moved /\ u.truncated = w.truncated /\ u.direction = w.direction
  BY <1>1 DEF Fields, Asked
<1>3. /\ u.frontier = w.frontier \ {n} /\ u.next = w.next \cup (ends \ w.nodes)
      /\ u.nodes = w.nodes \cup (ends \ w.nodes)
  BY <1>1 DEF Fields, Asked
<1>4. /\ w.next \subseteq w.nodes /\ w.frontier \subseteq w.nodes \ w.next
      /\ w.nodes \subseteq Reach(A, w.start, Depth(w) + 1)
      /\ w.nodes \ w.next \subseteq Reach(A, w.start, Depth(w))
      /\ ~w.moved => /\ Reach(V, w.start, Depth(w)) \subseteq w.nodes \ w.next
                     /\ Hop(V, w.nodes \ (w.frontier \cup w.next)) \subseteq w.nodes
  BY <1>1 DEF Going
<1>5. Depth(u) = Depth(w) /\ Depth(w) \in Nat
  BY <1>1, <1>2 DEF Depth
<1>6. u.nodes \ u.next = w.nodes \ w.next /\ u.nodes = w.nodes \cup ends
  BY <1>3, <1>4
<1>7. ends \subseteq Reach(A, w.start, Depth(w) + 1)
  <2>1. PICK R : R = Reach(A, w.start, Depth(w))
    OBVIOUS
  <2>2. n \in R
    BY <1>4, <2>1
  <2>3. ends \subseteq Hop(A, R)
    BY <2>2, HopTo
  <2>4. Reach(A, w.start, Depth(w) + 1) = R \cup Hop(A, R)
    BY <2>1, <1>5, ReachNext
  <2>5. QED
    BY <2>3, <2>4
<1>8. ASSUME ~w.moved
      PROVE  Hop(V, u.nodes \ (u.frontier \cup u.next)) \subseteq u.nodes
  <2>1. PICK S : S = w.nodes \ (w.frontier \cup w.next)
    OBVIOUS
  <2>2. Hop(V, S) \subseteq w.nodes /\ Hop(V, {n}) \subseteq ends
    BY <1>4, <1>8, <2>1
  <2>3. u.nodes \ (u.frontier \cup u.next) \subseteq S \cup {n}
    BY <1>3, <1>4, <2>1
  <2>4. Hop(V, u.nodes \ (u.frontier \cup u.next)) \subseteq Hop(V, S) \cup Hop(V, {n})
    BY <2>3 DEF Hop
  <2>5. QED
    BY <2>2, <2>4, <1>6
<1>9. Going(u, A, V)
  <2>1. /\ u.next \subseteq u.nodes /\ u.frontier \subseteq u.nodes \ u.next
        /\ u.start \in u.nodes
    BY <1>1, <1>2, <1>3, <1>4
  <2>2. /\ u.nodes \subseteq Reach(A, u.start, Depth(u) + 1)
        /\ u.nodes \ u.next \subseteq Reach(A, u.start, Depth(u))
    BY <1>2, <1>4, <1>5, <1>6, <1>7
  <2>3. ~u.moved => Reach(V, u.start, Depth(u)) \subseteq u.nodes \ u.next
    BY <1>2, <1>4, <1>5, <1>6
  <2>4. QED
    BY <1>1, <1>2, <1>8, <2>1, <2>2, <2>3 DEF Going
<1>10. QED
  BY <1>1, <1>2, <1>9 DEF Found

(* A node too many.                                                         *)
LEMMA TruncateFinds ==
  ASSUME NEW w, NEW A, NEW V, Found(w, A, V), w.stage = "walking",
         NEW n \in w.frontier, NEW found \in SUBSET Relation, NEW ends,
         \A m \in ends : <<n, m>> \in A,
         Cardinality(w.nodes \cup ends) = w.budget,
         NEW u, u = Cut(w, found, ends)
  PROVE  Found(u, A, V)
<1>1. /\ DOMAIN w = Fields /\ w.hops \in Nat /\ Going(w, A, V)
      /\ w.moved \in BOOLEAN /\ w.start \in Entity
      /\ w.edges \subseteq Relation /\ w.atStart \subseteq Relation
      /\ w.left \in 1 .. w.hops
  BY DEF Found, Going
<1>2. /\ DOMAIN u = Fields /\ u.stage = "done" /\ u.start = w.start /\ u.hops = w.hops
      /\ u.edges = w.edges \cup found /\ u.atStart = w.atStart /\ u.budget = w.budget
      /\ u.moved = w.moved /\ u.truncated = TRUE /\ u.direction = w.direction
      /\ u.nodes = w.nodes \cup ends
  BY <1>1 DEF Fields, Cut
<1>3. Depth(w) \in Nat /\ Depth(w) + 1 \in Nat /\ Depth(w) + 1 <= w.hops
  BY <1>1 DEF Depth
<1>4. w.nodes \cup ends \subseteq Reach(A, w.start, Depth(w) + 1)
  <2>1. PICK R : R = Reach(A, w.start, Depth(w))
    OBVIOUS
  <2>2. n \in R
    BY <1>1, <2>1 DEF Going
  <2>3. ends \subseteq Hop(A, R)
    BY <2>2, HopTo
  <2>4. Reach(A, w.start, Depth(w) + 1) = R \cup Hop(A, R)
    BY <2>1, <1>3, ReachNext
  <2>5. QED
    BY <2>3, <2>4, <1>1 DEF Going
<1>5. Reach(A, w.start, Depth(w) + 1) \subseteq Reach(A, w.start, w.hops)
  BY <1>1, <1>3, ReachFurther
<1>6. Answered(u, A, V)
  BY <1>2, <1>4, <1>5 DEF Answered
<1>7. QED
  BY <1>1, <1>2, <1>6 DEF Found
-----------------------------------------------------------------------------
(* Relations are only added, so the arcs of those there are do not change.  *)
LEMMA ArcsGrow ==
  ASSUME \A r \in Relation : Present(r) => relation'[r] = relation[r],
         NEW direction, NEW rels \in SUBSET Relation
  PROVE  /\ Arcs(direction, rels) \subseteq Arcs(direction, rels)'
         /\ (\A r \in rels : Present(r)) => Arcs(direction, rels) = Arcs(direction, rels)'
  BY DEF Arcs, At, Ends, Present

LEMMA EdgesGrow ==
  ASSUME \A r \in Relation : Present(r) => relation'[r] = relation[r] /\ Present(r)',
         NEW w, w.edges \subseteq Relation, w.atStart \subseteq Relation,
         EdgesInv(w), w.stage = "walking" => hidden' = hidden
  PROVE  EdgesInv(w)'
<1>1. \A r \in w.edges \cup w.atStart : Ends(r)' = Ends(r) /\ Present(r)'
  BY DEF EdgesInv, Ends
<1>2. EndsOf(w.edges)' = EndsOf(w.edges)
  BY <1>1 DEF EndsOf
<1>3. ASSUME w.stage = "walking", ~w.moved PROVE w.atStart \subseteq Visible'
  BY <1>1, <1>3 DEF EdgesInv, Visible, Present
<1>4. QED
  BY <1>1, <1>2, <1>3 DEF EdgesInv

LEMMA GraphGrows ==
  ASSUME FoundInv, RelationsInv, DOMAIN relation' = Relation,
         \A r \in Relation : Present(r) => relation'[r] = relation[r],
         walk' = walk, hidden' = hidden
  PROVE  FoundInv'
<1>1. PICK w : w = walk
  OBVIOUS
<1>2. CASE w.stage = "idle"
  BY <1>1, <1>2 DEF FoundInv
<1>3. CASE w.stage # "idle"
  <2>1. PICK A, V : A = Arcs(w.direction, Relation) /\ V = Arcs(w.direction, w.atStart)
    OBVIOUS
  <2>2. Found(w, A, V) /\ EdgesInv(w)
    BY <1>1, <1>3, <2>1 DEF FoundInv
  <2>3. /\ w.edges \in SUBSET Relation /\ w.atStart \in SUBSET Relation
        /\ \A r \in w.atStart : Present(r)
    BY <2>2 DEF Found, EdgesInv
  <2>4. PICK d : d = w.direction
    OBVIOUS
  <2>5. A \subseteq Arcs(d, Relation)' /\ V = Arcs(d, w.atStart)'
    BY <2>1, <2>3, <2>4, ArcsGrow
  <2>6. PICK B : B = Arcs(d, Relation)'
    OBVIOUS
  <2>7. Found(w, B, V)
    BY <2>2, <2>5, <2>6, FoundGrows
  <2>8. \A r \in Relation : Present(r) => relation'[r] = relation[r] /\ Present(r)'
    BY DEF Present
  <2>9. EdgesInv(w)'
    BY <2>2, <2>3, <2>8, EdgesGrow
  <2>10. QED
    BY <1>1, <2>4, <2>5, <2>6, <2>7, <2>9 DEF FoundInv
<1>4. QED
  BY <1>2, <1>3

(* A step that leaves the graph alone.                                      *)
LEMMA WalkOnly ==
  ASSUME FoundInv, UNCHANGED relation, NEW v, walk' = v,
         v.stage # "idle" =>
           /\ Found(v, Arcs(v.direction, Relation), Arcs(v.direction, v.atStart))
           /\ EdgesInv(v),
         v.stage = "walking" => UNCHANGED hidden
  PROVE  FoundInv'
<1>1. Found(v, Arcs(v.direction, Relation), Arcs(v.direction, v.atStart))
        = Found(v, Arcs(v.direction, Relation), Arcs(v.direction, v.atStart))'
  <2>1. PICK d, s : d = v.direction /\ s = v.atStart
    OBVIOUS
  <2>2. Arcs(d, Relation)' = Arcs(d, Relation) /\ Arcs(d, s)' = Arcs(d, s)
    BY DEF Arcs, At, Ends
  <2>3. PICK A, V : A = Arcs(d, Relation) /\ V = Arcs(d, s)
    OBVIOUS
  <2>4. QED
    BY <2>1, <2>2, <2>3
<1>2. ASSUME EdgesInv(v) PROVE EdgesInv(v)'
  BY <1>2 DEF EdgesInv, Present, Ends, EndsOf, Visible
<1>3. QED
  BY <1>1, <1>2 DEF FoundInv

LEMMA NeighborsLead ==
  ASSUME RelationsInv, NEW w, EdgesInv(w), NEW n \in Entity, w.stage = "walking",
         w.atStart \subseteq Relation
  PROVE  /\ Neighbors(n, w.direction) \subseteq Relation
         /\ \A r \in Neighbors(n, w.direction) : Present(r)
         /\ \A m \in EndsOf(Neighbors(n, w.direction)) : <<n, m>> \in Arcs(w.direction, Relation)
         /\ n \notin hidden /\ ~w.moved =>
              Hop(Arcs(w.direction, w.atStart), {n}) \subseteq EndsOf(Neighbors(n, w.direction))
<1>1. /\ Neighbors(n, w.direction) \subseteq At(n, w.direction)
      /\ At(n, w.direction) \subseteq Relation /\ \A r \in At(n, w.direction) : Present(r)
  BY DEF Neighbors, At, Present
<1>2. ASSUME NEW m \in EndsOf(Neighbors(n, w.direction))
      PROVE  <<n, m>> \in Arcs(w.direction, Relation)
  <2>1. PICK r \in Neighbors(n, w.direction) : m \in Ends(r)
    BY DEF EndsOf
  <2>2. m \in Entity
    BY <2>1, <1>1 DEF RelationsInv, Ends, Present
  <2>3. r \in At(n, w.direction) \cap Relation
    BY <1>1, <2>1
  <2>4. QED
    BY <2>1, <2>2, <2>3 DEF Arcs
<1>3. ASSUME n \notin hidden, ~w.moved, NEW m \in Hop(Arcs(w.direction, w.atStart), {n})
      PROVE  m \in EndsOf(Neighbors(n, w.direction))
  <2>1. PICK r \in At(n, w.direction) \cap w.atStart : m \in Ends(r)
    BY DEF Hop, Arcs
  <2>2. r \in Visible
    BY <1>3, <2>1 DEF EdgesInv
  <2>3. r \notin hidden /\ OtherEnd(r, n) \notin hidden
    BY <2>2 DEF Visible, Ends, OtherEnd
  <2>4. r \in Neighbors(n, w.direction)
    BY <2>1, <2>3 DEF Neighbors
  <2>5. QED
    BY <2>1, <2>4 DEF EndsOf
<1>4. QED
  BY <1>1, <1>2, <1>3

LEMMA EdgesMore ==
  ASSUME NEW R, NEW Q PROVE EndsOf(R \cup Q) = EndsOf(R) \cup EndsOf(Q)
  BY DEF EndsOf

LEMMA ExpandStep ==
  ASSUME FoundInv, WalkInv, walk.stage = "walking", NEW n \in walk.frontier, Expand(n),
         UNCHANGED <<relation, hidden>>
  PROVE  FoundInv'
<1>1. PICK w : w = walk
  OBVIOUS
<1>2. PICK A, V : A = Arcs(w.direction, Relation) /\ V = Arcs(w.direction, w.atStart)
  OBVIOUS
<1>3. Found(w, A, V) /\ EdgesInv(w) /\ w.stage = "walking" /\ n \in w.frontier
  BY <1>1, <1>2 DEF FoundInv
<1>4. n \in Entity /\ w.atStart \subseteq Relation /\ w.nodes \subseteq Entity
  BY <1>1, <1>3 DEF WalkInv, WalkOK, Walk, Paid, Found
<1>5. PICK found, ends : found = Neighbors(n, w.direction) /\ ends = EndsOf(found)
  OBVIOUS
<1>6. /\ found \in SUBSET Relation /\ \A r \in found : Present(r)
      /\ \A m \in ends : <<n, m>> \in A
      /\ ~w.moved => Hop(V, {n}) \subseteq ends
  BY <1>2, <1>3, <1>4, <1>5, NeighborsLead DEF WalkInv, Expand
<1>7. PICK u : u = Asked(w, n, found, ends)
  OBVIOUS
<1>8. PICK v : v = Advance(u)
  OBVIOUS
<1>9. walk' = v
  BY <1>1, <1>5, <1>7, <1>8 DEF Expand, Unvisited, Asked
<1>10. /\ Found(u, A, V) /\ u.stage = "walking" /\ ~u.truncated
       /\ u.nodes = w.nodes \cup ends /\ u.edges = w.edges \cup found
       /\ u.atStart = w.atStart /\ u.moved = w.moved /\ u.direction = w.direction
  <2>1. Found(u, A, V)
    BY <1>3, <1>6, <1>7, ExpandFinds
  <2>2. DOMAIN w = Fields /\ w.nodes \cup (ends \ w.nodes) = w.nodes \cup ends /\ ~w.truncated
    BY <1>3 DEF Found, Going
  <2>3. QED
    BY <2>1, <2>2, <1>3, <1>7 DEF Asked, Fields
<1>11. /\ Found(v, A, V) /\ v.stage \in {"walking", "done"}
       /\ v.edges = u.edges /\ v.nodes = u.nodes /\ v.atStart = u.atStart
       /\ v.moved = u.moved /\ v.truncated = u.truncated /\ v.direction = u.direction
  BY <1>8, <1>10, AdvanceFinds
<1>12. EdgesInv(v)
  <2>1. EndsOf(v.edges) \subseteq v.nodes
    BY <1>3, <1>5, <1>10, <1>11, EdgesMore DEF EdgesInv
  <2>2. \A r \in v.edges \cup v.atStart : Present(r)
    BY <1>3, <1>6, <1>10, <1>11 DEF EdgesInv
  <2>3. ~v.moved => v.atStart \subseteq Visible
    BY <1>3, <1>10, <1>11 DEF EdgesInv
  <2>4. QED
    BY <2>1, <2>2, <2>3, <1>10, <1>11 DEF EdgesInv
<1>13. Found(v, Arcs(v.direction, Relation), Arcs(v.direction, v.atStart))
  BY <1>2, <1>10, <1>11
<1>14. QED
  BY <1>9, <1>12, <1>13, WalkOnly

LEMMA TruncateStep ==
  ASSUME FoundInv, WalkInv, walk.stage = "walking", NEW n \in walk.frontier, Truncate(n),
         UNCHANGED <<relation, hidden>>
  PROVE  FoundInv'
<1>1. PICK w : w = walk
  OBVIOUS
<1>2. PICK A, V : A = Arcs(w.direction, Relation) /\ V = Arcs(w.direction, w.atStart)
  OBVIOUS
<1>3. Found(w, A, V) /\ EdgesInv(w) /\ w.stage = "walking" /\ n \in w.frontier
  BY <1>1, <1>2 DEF FoundInv
<1>4. n \in Entity /\ w.atStart \subseteq Relation
  BY <1>1, <1>3 DEF WalkInv, WalkOK, Walk, Paid, Found
<1>5. PICK some \in SUBSET Neighbors(n, w.direction), last \in Neighbors(n, w.direction) :
        /\ Cardinality(w.nodes \cup EndsOf(some)) = w.budget
        /\ ~(Ends(last) \subseteq w.nodes \cup EndsOf(some))
        /\ walk' = [w EXCEPT !.stage = "done", !.truncated = TRUE,
                      !.nodes = w.nodes \cup EndsOf(some), !.calls = w.calls + 1,
                      !.edges = w.edges \cup some \cup {last}]
  BY <1>1 DEF Truncate
<1>6. PICK found, ends : found = some \cup {last} /\ ends = EndsOf(some)
  OBVIOUS
<1>7. /\ found \in SUBSET Relation /\ \A r \in found : Present(r)
      /\ \A m \in EndsOf(Neighbors(n, w.direction)) : <<n, m>> \in A
  BY <1>2, <1>3, <1>4, <1>5, <1>6, NeighborsLead DEF WalkInv
<1>8. \A m \in ends : <<n, m>> \in A
  BY <1>5, <1>6, <1>7 DEF EndsOf
<1>9. PICK u : u = Cut(w, found, ends)
  OBVIOUS
<1>10. w.edges \cup some \cup {last} = w.edges \cup found
  BY <1>6
<1>11. walk' = u
  BY <1>5, <1>6, <1>9, <1>10 DEF Cut
<1>12. /\ Found(u, A, V) /\ u.stage = "done" /\ u.truncated
       /\ u.nodes = w.nodes \cup ends /\ u.edges = w.edges \cup found
       /\ u.atStart = w.atStart /\ u.direction = w.direction
  <2>1. Found(u, A, V)
    BY <1>3, <1>5, <1>6, <1>7, <1>8, <1>9, TruncateFinds
  <2>2. DOMAIN w = Fields
    BY <1>3 DEF Found
  <2>3. QED
    BY <2>1, <2>2, <1>9 DEF Cut, Fields
<1>13. EdgesInv(u)
  <2>1. Ends(last) \subseteq EndsOf(u.edges)
    BY <1>6, <1>12 DEF EndsOf
  <2>2. ~(EndsOf(u.edges) \subseteq u.nodes)
    BY <2>1, <1>5, <1>6, <1>12
  <2>3. \A r \in u.edges \cup u.atStart : Present(r)
    BY <1>3, <1>7, <1>12 DEF EdgesInv
  <2>4. QED
    BY <2>2, <2>3, <1>12 DEF EdgesInv
<1>14. Found(u, Arcs(u.direction, Relation), Arcs(u.direction, u.atStart))
  BY <1>2, <1>12
<1>15. QED
  BY <1>11, <1>12, <1>13, <1>14, WalkOnly

LEMMA RaiseStep ==
  ASSUME FoundInv, walk.stage = "walking", NEW n \in walk.frontier, Raise(n),
         UNCHANGED <<relation, hidden>>
  PROVE  FoundInv'
<1>1. PICK w, v : w = walk /\ v = [w EXCEPT !.stage = "raised", !.calls = w.calls + 1]
  OBVIOUS
<1>2. PICK A, V : A = Arcs(w.direction, Relation) /\ V = Arcs(w.direction, w.atStart)
  OBVIOUS
<1>3. walk' = v
  BY <1>1 DEF Raise
<1>4. Found(w, A, V) /\ EdgesInv(w)
  BY <1>1, <1>2 DEF FoundInv
<1>5. /\ DOMAIN v = Fields /\ v.stage = "raised" /\ v.hops = w.hops /\ v.start = w.start
      /\ v.truncated = w.truncated /\ v.moved = w.moved /\ v.edges = w.edges
      /\ v.atStart = w.atStart /\ v.direction = w.direction
  BY <1>1, <1>4 DEF Found, Fields
<1>6. Found(v, A, V) /\ EdgesInv(v)
  BY <1>4, <1>5 DEF Found, EdgesInv
<1>7. QED
  BY <1>2, <1>3, <1>5, <1>6, WalkOnly

LEMMA ReadmitFinds ==
  ASSUME FoundInv, NEW x, Readmit(x)
  PROVE  FoundInv'
<1>1. PICK w, v : w = walk /\ v = [w EXCEPT !.moved = TRUE]
  OBVIOUS
<1>2. PICK A, V : A = Arcs(w.direction, Relation) /\ V = Arcs(w.direction, w.atStart)
  OBVIOUS
<1>3. CASE w.stage = "walking"
  <2>1. walk' = v
    BY <1>1, <1>3 DEF Readmit
  <2>2. Found(w, A, V) /\ EdgesInv(w) /\ Going(w, A, V)
    BY <1>1, <1>2, <1>3 DEF FoundInv, Found
  <2>3. /\ DOMAIN v = Fields /\ v.stage = "walking" /\ v.hops = w.hops /\ v.start = w.start
        /\ v.truncated = w.truncated /\ v.moved = TRUE /\ v.edges = w.edges
        /\ v.atStart = w.atStart /\ v.direction = w.direction
    BY <1>1, <1>3, <2>2 DEF Found, Fields
  <2>4. /\ v.left = w.left /\ v.nodes = w.nodes /\ v.next = w.next /\ v.frontier = w.frontier
    BY <1>1, <2>2 DEF Found, Fields
  <2>5. Going(v, A, V)
    BY <2>2, <2>3, <2>4 DEF Going, Depth
  <2>6. Found(v, A, V)
    BY <2>2, <2>3, <2>5 DEF Found
  <2>7. EdgesInv(v)'
    BY <1>3, <2>2, <2>3, <2>4 DEF EdgesInv, Readmit, graphVars, Present, EndsOf, Ends
  <2>8. PICK d, s : d = w.direction /\ s = w.atStart
    OBVIOUS
  <2>9. Arcs(d, Relation)' = A /\ Arcs(d, s)' = V
    BY <1>2, <2>8 DEF Readmit, graphVars, Arcs, At, Ends
  <2>10. DOMAIN relation' = Relation
    BY DEF FoundInv, Readmit, graphVars
  <2>11. QED
    BY <2>1, <2>3, <2>6, <2>7, <2>8, <2>9, <2>10 DEF FoundInv
<1>4. CASE w.stage # "walking"
  <2>1. walk' = w /\ UNCHANGED relation
    BY <1>1, <1>4 DEF Readmit, graphVars
  <2>2. w.stage # "idle" => Found(w, A, V) /\ EdgesInv(w)
    BY <1>1, <1>2 DEF FoundInv
  <2>3. QED
    BY <1>2, <1>4, <2>1, <2>2, WalkOnly
<1>5. QED
  BY <1>3, <1>4

LEMMA StartFinds ==
  ASSUME FoundInv, NEW start \in Entity, NEW hops \in 0 .. MaxHops, NEW budget \in Budget,
         NEW direction, StartWalk(start, hops, budget, direction)
  PROVE  FoundInv'
<1>1. PICK v : v = walk'
  OBVIOUS
<1>2. hops \in Nat
  BY LimitsAssumption
<1>3. /\ DOMAIN v = Fields /\ v.stage = (IF hops = 0 THEN "done" ELSE "walking")
      /\ v.hops = hops /\ v.left = hops /\ v.start = start /\ v.direction = direction
      /\ v.frontier = {start} /\ v.next = {} /\ v.nodes = {start} /\ v.edges = {}
      /\ v.truncated = FALSE /\ v.moved = FALSE /\ v.atStart = Visible
  BY <1>1 DEF StartWalk, Fields
<1>4. PICK A, V : A = Arcs(v.direction, Relation) /\ V = Arcs(v.direction, v.atStart)
  OBVIOUS
<1>5. Reach(A, start, 0) = {start} /\ Reach(V, start, 0) = {start}
  BY ReachZero
<1>6. ASSUME v.stage = "done" PROVE Answered(v, A, V)
  BY <1>3, <1>5, <1>6 DEF Answered
<1>7. ASSUME v.stage = "walking" PROVE Going(v, A, V)
  <2>1. v.left \in 1 .. v.hops /\ Depth(v) = 0
    BY <1>2, <1>3, <1>7 DEF Depth
  <2>2. Reach(A, start, 0) \subseteq Reach(A, start, 0 + 1)
    BY ReachFurther
  <2>3. Hop(V, v.nodes \ (v.frontier \cup v.next)) \subseteq v.nodes
    BY <1>3 DEF Hop
  <2>4. QED
    BY <1>3, <1>5, <2>1, <2>2, <2>3 DEF Going
<1>8. Visible \subseteq Relation /\ \A r \in Visible : Present(r)
  BY DEF Visible, Present
<1>9. Found(v, A, V)
  BY <1>2, <1>3, <1>6, <1>7, <1>8 DEF Found
<1>10. EdgesInv(v)
  BY <1>3, <1>8 DEF EdgesInv, EndsOf
<1>11. UNCHANGED <<relation, hidden>>
  BY DEF StartWalk, graphVars
<1>12. QED
  BY <1>1, <1>4, <1>9, <1>10, <1>11, WalkOnly

LEMMA FoundStep == FoundInv /\ WalkInv /\ [Next]_vars => FoundInv'
<1> SUFFICES ASSUME FoundInv, WalkInv, [Next]_vars PROVE FoundInv'
  OBVIOUS
<1>1. CASE GraphNext /\ UNCHANGED <<hidden, moves, walk>>
  <2>1. /\ DOMAIN relation' = Relation
        /\ \A r \in Relation : Present(r) => relation'[r] = relation[r]
    <3>1. CASE AddRelation
      BY <3>1 DEF AddRelation, FoundInv, Present
    <3>2. CASE UNCHANGED relation
      BY <3>2 DEF FoundInv
    <3>3. QED
      BY <1>1, <3>1, <3>2
         DEF GraphNext, AddEntity, CheckMerge, WriteMerge, FailMerge, SplitEntity
  <2>2. QED
    BY <1>1, <2>1, GraphGrows DEF WalkInv
<1>2. ASSUME NEW x \in Entity \cup Relation, Readmit(x) PROVE FoundInv'
  BY <1>2, ReadmitFinds
<1>3. ASSUME NEW start \in Entity, NEW hops \in 0 .. MaxHops, NEW budget \in Budget,
             NEW direction \in {"out", "in", "both"}, StartWalk(start, hops, budget, direction)
      PROVE  FoundInv'
  BY <1>3, StartFinds
<1>4. CASE WalkStep
  <2>1. walk.stage = "walking" /\ UNCHANGED <<relation, hidden>>
    BY <1>4 DEF WalkStep, graphVars
  <2>2. PICK n \in walk.frontier : Expand(n) \/ Truncate(n) \/ Raise(n)
    BY <1>4 DEF WalkStep
  <2>3. QED
    BY <2>1, <2>2, ExpandStep, TruncateStep, RaiseStep
<1>5. CASE UNCHANGED vars
  <2>1. walk' = walk /\ hidden' = hidden /\ relation' = relation
    BY <1>5 DEF vars, graphVars
  <2>2. QED
    BY <2>1, GraphGrows DEF FoundInv, WalkInv
<1>6. QED
  BY <1>1, <1>2, <1>3, <1>4, <1>5 DEF Next

(* An answer that does not say it is truncated has every node that was in   *)
(* readable reach when the traversal began, unless readability moved; all   *)
(* that it has is in reach, and a truncated one is full.                    *)
THEOREM TraversalFindsAll == Spec => []TraversalIsComplete
<1>1. Init => FoundInv /\ WalkInv
  BY DEF Init, GraphInit, FoundInv, WalkInv, WalkOK, RelationsInv
<1>2. FoundInv /\ WalkInv /\ [Next]_vars => (FoundInv /\ WalkInv)'
  BY FoundStep, WalkInvStep
<1>3. FoundInv => TraversalIsComplete
  <2> SUFFICES ASSUME FoundInv, walk.stage = "done" PROVE TraversalIsComplete
    BY DEF TraversalIsComplete
  <2>1. PICK A, V : A = Arcs(walk.direction, Relation) /\ V = Arcs(walk.direction, walk.atStart)
    OBVIOUS
  <2>2. Answered(walk, A, V) /\ EdgesInv(walk)
    BY <2>1 DEF FoundInv, Found
  <2>3. /\ Within(walk.start, walk.hops, walk.direction, Relation) = Reach(A, walk.start, walk.hops)
        /\ Within(walk.start, walk.hops, walk.direction, walk.atStart) = Reach(V, walk.start, walk.hops)
    BY <2>1 DEF Within
  <2>4. QED
    BY <2>2, <2>3 DEF Answered, EdgesInv, TraversalIsComplete
<1>4. QED
  BY <1>1, <1>2, <1>3, PTL DEF Spec
=============================================================================
