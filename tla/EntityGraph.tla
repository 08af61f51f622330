----------------------------- MODULE EntityGraph -----------------------------
(***************************************************************************)
(* Entities and relations, and the resolution of entities: merges that keep *)
(* the duplicates, splits that keep the origin (core/__init__.py:           *)
(* add_entity, add_relation, merge_entities, split_entity, _apply_merge,    *)
(* _apply_split).                                                           *)
(*                                                                          *)
(* merge_entities reads the entities it merges before it takes the lock;    *)
(* what it gathered waits in merging while others write.  A name is told    *)
(* apart only by whose name it is, so an entity stands for its own name;    *)
(* the further aliases a caller may give are left out.                      *)
(***************************************************************************)
EXTENDS Naturals, FiniteSets

CONSTANTS Agent, Admin,
          Entity, Relation, \* ids new_id can hand out
          Absent,
          Workload,         \* what a run exercises: "resolve", "traverse"
          MaxEvents         \* bound on the ledger

(* An entity's object; each mention of another is an id or a set of ids.     *)
EntityRecord == [owner : Agent, aliases : SUBSET Entity, mergedFrom : SUBSET Entity,
                 mergedInto : Entity \cup {Absent}, splitInto : SUBSET Entity,
                 splitFrom : Entity \cup {Absent}]

ASSUME EntityAssumption == IsFiniteSet(Entity) /\ Absent \notin EntityRecord
ASSUME AdminAssumption == Admin \subseteq Agent
ASSUME IdsAssumption == Entity \cap Relation = {} /\ Absent \notin Entity \cup Relation
ASSUME MaxEventsAssumption == MaxEvents \in Nat

VARIABLES entity, relation, \* the projection
          events,           \* length of the ledger
          merges,           \* the entity_merged events in it
          merging,          \* each agent's merge between its check and its write
          workload          \* bound: what this behaviour exercises

graphVars == <<entity, relation, events, merges, merging, workload>>

Exists(e) == entity[e] # Absent
MayChange(a, e) == entity[e].owner = a \/ a \in Admin

NewEntity(owner, origin) ==
  [owner |-> owner, aliases |-> {}, mergedFrom |-> {}, mergedInto |-> Absent,
   splitInto |-> {}, splitFrom |-> origin]

(* One event, when the ledger has room for it.                              *)
Emit == events < MaxEvents /\ events' = events + 1

-----------------------------------------------------------------------------
GraphInit ==
  /\ entity = [e \in Entity |-> Absent]
  /\ relation = [r \in Relation |-> Absent]
  /\ events = 0 /\ merges = {}
  /\ merging = [a \in Agent |-> Absent]
  /\ workload \in Workload

AddEntity(a) == \E e \in Entity :
  /\ ~Exists(e)
  /\ entity' = [entity EXCEPT ![e] = NewEntity(a, Absent)]
  /\ Emit
  /\ UNCHANGED <<relation, merges, merging, workload>>

AddRelation == \E r \in Relation, source, target \in Entity :
  /\ workload = "traverse"
  /\ relation[r] = Absent /\ Exists(source) /\ Exists(target)
  /\ relation' = [relation EXCEPT ![r] = [source |-> source, target |-> target]]
  /\ Emit
  /\ UNCHANGED <<entity, merges, merging, workload>>

(* Only the canonical entity must be the caller's.                          *)
CheckMerge(a) ==
  \E canonical \in Entity, duplicates \in SUBSET Entity :
    /\ workload = "resolve" /\ merging[a] = Absent
    /\ \A e \in {canonical} \cup duplicates : Exists(e)
    /\ duplicates # {} /\ canonical \notin duplicates
    /\ MayChange(a, canonical)
    /\ merging' = [merging EXCEPT ![a] =
         [canonical |-> canonical, duplicates |-> duplicates,
          aliases |-> entity[canonical].aliases \cup duplicates]]
    /\ UNCHANGED <<entity, relation, events, merges, workload>>

(* Mutant: the list gathered before the lock replaces the current one.      *)
CanonicalOverwritten(old, p) ==
  [old EXCEPT !.aliases = p.aliases, !.mergedFrom = @ \cup p.duplicates]

(* _apply_merge adds to what the canonical entity has by then.              *)
Canonical(old, p) ==
  [old EXCEPT !.aliases = @ \cup p.aliases, !.mergedFrom = @ \cup p.duplicates]

WriteMerge(a) ==
  LET p == merging[a]
  IN  /\ p # Absent
      /\ entity' = [e \in Entity |->
           CASE e = p.canonical -> Canonical(entity[e], p)
             [] e \in p.duplicates -> [entity[e] EXCEPT !.mergedInto = p.canonical]
             [] OTHER -> entity[e]]
      /\ Emit
      /\ merges' = merges \cup {[canonical |-> p.canonical, duplicates |-> p.duplicates]}
      /\ merging' = [merging EXCEPT ![a] = Absent]
      /\ UNCHANGED <<relation, workload>>

FailMerge(a) ==
  /\ merging[a] # Absent
  /\ merging' = [merging EXCEPT ![a] = Absent]
  /\ UNCHANGED <<entity, relation, events, merges, workload>>

(* What split_entity checks does not change: it is one step.                *)
SplitEntity(a) == \E origin \in Entity, into \in SUBSET Entity :
  /\ workload = "resolve"
  /\ Exists(origin) /\ MayChange(a, origin)
  /\ into # {} /\ \A e \in into : ~Exists(e)
  /\ entity' = [e \in Entity |->
       CASE e = origin -> [entity[e] EXCEPT !.splitInto = into]
         [] e \in into -> NewEntity(a, origin)
         [] OTHER -> entity[e]]
  /\ Emit
  /\ UNCHANGED <<relation, merges, merging, workload>>

GraphNext ==
  \/ \E a \in Agent : \/ AddEntity(a)
                     \/ CheckMerge(a) \/ WriteMerge(a) \/ FailMerge(a)
                     \/ SplitEntity(a)
  \/ AddRelation

GraphSpec == GraphInit /\ [][GraphNext]_graphVars
-----------------------------------------------------------------------------
(* However merges and splits overlap, none undoes the trace of another: a   *)
(* canonical entity still answers to the name of all that was ever merged   *)
(* into it and lists it, and a duplicate points to an entity that lists it. *)
MergesAreTraceable ==
  /\ \A m \in merges : /\ m.duplicates \subseteq entity[m.canonical].aliases
                       /\ m.duplicates \subseteq entity[m.canonical].mergedFrom
  /\ \A e \in Entity : Exists(e) /\ entity[e].mergedInto # Absent =>
       e \in entity[entity[e].mergedInto].mergedFrom

(* core line 1196: a split creates entities from one, keeping lineage, so   *)
(* the origin names all that were split from it.                            *)
SplitKeepsLineage ==
  \A e \in Entity : Exists(e) /\ entity[e].splitFrom # Absent =>
    e \in entity[entity[e].splitFrom].splitInto
=============================================================================
