---------------------------- MODULE KnowledgeSpaces ----------------------------
(***************************************************************************)
(* Who may read what: knowledge spaces, grants and placements               *)
(* (core/__init__.py: create_space, grant_capability, revoke_capability,    *)
(* share, promote, create_claim, assert_fact, supersede; the decision is    *)
(* authz/__init__.py can_read_object).                                      *)
(*                                                                          *)
(* A call first checks what it may do, on the state as it then is, and      *)
(* later commits its events in one transaction (EventStore shows that a     *)
(* transaction is one step for everybody else).  The checks of create_space,*)
(* grant and revoke rest on the owner of a space, which never changes, so   *)
(* those calls are a single step; the others may act on what was true.      *)
(* An agent has at most one call in flight.                                 *)
(***************************************************************************)
EXTENDS Naturals, Sequences, FiniteSets

CONSTANTS Agent, Tenant,
          TenantOf,   \* each agent's tenant
          Admin,      \* agents with the capability admin
          Promoter,   \* ... knowledge.promote
          Manager,    \* ... space.manage
          Obj, Space, \* ids new_id can hand out
          NoObj, NoSpace, Absent,
          Visibility, \* the levels a run uses, of PRIVATE .. PUBLIC
          MaxEvents,  \* bound on the ledger
          MaxCalls,   \* bound on the calls in flight at one time
          Calls       \* the calls a run exercises

(* spaces/__init__.py Visibility (COMMUNITY, 3, is never compared with).    *)
PRIVATE == 0
TEAM == 1
ORGANIZATION == 2
PUBLIC == 4

ASSUME TenantAssumption == TenantOf \in [Agent -> Tenant]
ASSUME CapabilityAssumption ==
  Admin \subseteq Agent /\ Promoter \subseteq Agent /\ Manager \subseteq Agent
ASSUME VisibilityAssumption == Visibility \subseteq PRIVATE .. PUBLIC
ASSUME NoIdAssumption == NoObj \notin Obj /\ NoSpace \notin Space
ASSUME BoundsAssumption == MaxEvents \in Nat /\ MaxCalls \in Nat

VARIABLES object,  \* what is known, with its owner and its placements
          space,   \* the spaces
          grant,   \* membership of each agent in each space
          ledger,  \* the committed events
          call     \* the call each agent has in flight, as checked

spaceVars == <<object, space, grant, ledger, call>>

Object == [kind : {"fact", "claim"}, owner : Agent, spaces : SUBSET Space, open : BOOLEAN]
SpaceRecord == [visibility : Visibility, owner : Agent]

(* A grant is itself an object, owned by the agent that last granted it.    *)
Grant == [owner : Agent, active : BOOLEAN]

(* about is the object the event is stored under; into the spaces it places *)
(* it in; replaces the fact whose placements it inherits.                   *)
Event == [op : {"fact_asserted", "fact_superseded", "claim_asserted", "space_created",
                "capability_granted", "capability_revoked", "knowledge_shared",
                "knowledge_promoted"},
          actor : Agent,
          about : Obj \cup Space \cup (Space \X Agent),
          into : SUBSET Space,
          replaces : Obj \cup {NoObj}]

Call == [op : {"assert", "claim", "supersede", "share", "promote"},
         obj : Obj \cup {NoObj}, dest : SUBSET Space]

ASSUME AbsentAssumption == Absent \notin Object \cup SpaceRecord \cup Grant \cup Call

Exists(o) == object[o] # Absent
Created(s) == space[s] # Absent
IsAdmin(a) == a \in Admin
IsMember(s, a) == grant[<<s, a>>] # Absent /\ grant[<<s, a>>].active
SameTenant(a, b) == TenantOf[a] = TenantOf[b]

(* can_read_object.  An object placed nowhere is its owner's alone; once it *)
(* is placed, only its spaces count.                                        *)
CanEnter(a, s) ==
  /\ Created(s) /\ SameTenant(a, space[s].owner)
  /\ \/ space[s].visibility >= ORGANIZATION
     \/ space[s].visibility = TEAM /\ (space[s].owner = a \/ IsMember(s, a))
     \/ space[s].visibility = PRIVATE /\ space[s].owner = a

MayReadPlaced(a, owner, spaces) ==
  /\ SameTenant(a, owner)
  /\ \/ IsAdmin(a)
     \/ spaces = {} /\ owner = a
     \/ \E s \in spaces : CanEnter(a, s)

CanRead(a, o) == Exists(o) /\ MayReadPlaced(a, object[o].owner, object[o].spaces)

(* Mutant: any space is found.                                              *)
LoadableAnywhere(a, s) == Created(s)

(* _load_space finds spaces of the caller's tenant only.                    *)
Loadable(a, s) == Created(s) /\ SameTenant(a, space[s].owner)

Reaches(a, s) ==
  \/ space[s].owner = a \/ IsMember(s, a)
  \/ space[s].visibility >= ORGANIZATION \/ IsAdmin(a)

(* Mutant: the capability is not required.                                  *)
MayPlaceAnywhere(a, s) == Loadable(a, s) /\ Reaches(a, s)

(* Placing into ORGANIZATION or wider needs knowledge.promote.              *)
MayPlaceInto(a, s) ==
  /\ Loadable(a, s) /\ Reaches(a, s)
  /\ space[s].visibility >= ORGANIZATION /\ ~IsAdmin(a) => a \in Promoter

(* guard_owner, in the caller's scope.                                      *)
MayChange(a, o) ==
  /\ Exists(o) /\ SameTenant(a, object[o].owner)
  /\ object[o].owner = a \/ IsAdmin(a)

(* Mutant: membership is open to whoever knows the space.                   *)
AnybodyManages(a, s) == Loadable(a, s)

ManagesSpace(a, s) ==
  /\ Loadable(a, s)
  /\ space[s].owner = a \/ IsAdmin(a) \/ a \in Manager
-----------------------------------------------------------------------------
NoCall == [op |-> "assert", obj |-> NoObj, dest |-> {}]

Init ==
  /\ object = [o \in Obj |-> Absent]
  /\ space = [s \in Space |-> Absent]
  /\ grant = [m \in Space \X Agent |-> Absent]
  /\ ledger = << >>
  /\ call = [a \in Agent |-> Absent]

Sealed(op, a, about, into, replaces) ==
  [op |-> op, actor |-> a, about |-> about, into |-> into, replaces |-> replaces]

HasRoom(n) == Len(ledger) + n <= MaxEvents

Exercised(op) == op \in Calls

CreateSpace(a) == \E s \in Space, v \in Visibility :
  /\ HasRoom(1) /\ ~Created(s)
  /\ space' = [space EXCEPT ![s] = [visibility |-> v, owner |-> a]]
  /\ ledger' = Append(ledger, Sealed("space_created", a, s, {}, NoObj))
  /\ UNCHANGED <<object, grant, call>>

GrantCapability(a) == \E s \in Space, b \in Agent :
  /\ Exercised("grant") /\ HasRoom(1) /\ ManagesSpace(a, s)
  /\ grant' = [grant EXCEPT ![<<s, b>>] = [owner |-> a, active |-> TRUE]]
  /\ ledger' = Append(ledger, Sealed("capability_granted", a, <<s, b>>, {}, NoObj))
  /\ UNCHANGED <<object, space, call>>

(* Mutant: the grant stays active.                                          *)
RevokeNothing(a) == \E s \in Space, b \in Agent :
  /\ Exercised("revoke") /\ HasRoom(1) /\ ManagesSpace(a, s)
  /\ ledger' = Append(ledger, Sealed("capability_revoked", a, <<s, b>>, {}, NoObj))
  /\ UNCHANGED <<object, space, grant, call>>

(* Revoking what was never granted is recorded and has no effect.           *)
RevokeCapability(a) == \E s \in Space, b \in Agent :
  /\ Exercised("revoke") /\ HasRoom(1) /\ ManagesSpace(a, s)
  /\ grant' = IF grant[<<s, b>>] = Absent THEN grant
                                      ELSE [grant EXCEPT ![<<s, b>>].active = FALSE]
  /\ ledger' = Append(ledger, Sealed("capability_revoked", a, <<s, b>>, {}, NoObj))
  /\ UNCHANGED <<object, space, call>>

Check(a, c) ==
  /\ call[a] = Absent /\ Exercised(c.op)
  /\ Cardinality({b \in Agent : call[b] # Absent}) < MaxCalls
  /\ call' = [call EXCEPT ![a] = c]
  /\ UNCHANGED <<object, space, grant, ledger>>

CheckAssert(a) == Check(a, [op |-> "assert", obj |-> NoObj, dest |-> {}])

(* create_claim: private, or directly in one space (_resolve_placement).    *)
CheckClaim(a) ==
  \/ Check(a, [op |-> "claim", obj |-> NoObj, dest |-> {}])
  \/ \E s \in Space :
       MayPlaceInto(a, s) /\ Check(a, [op |-> "claim", obj |-> NoObj, dest |-> {s}])

(* supersede: the placements the replacement inherits are read here.        *)
CheckSupersede(a) == \E o \in Obj :
  /\ MayChange(a, o) /\ object[o].kind = "fact" /\ object[o].open
  /\ Check(a, [op |-> "supersede", obj |-> o, dest |-> object[o].spaces])

CheckShare(a) == \E o \in Obj, s \in Space :
  /\ MayChange(a, o) /\ MayPlaceInto(a, s)
  /\ Check(a, [op |-> "share", obj |-> o, dest |-> {s}])

LevelOf(s) == IF Created(s) THEN space[s].visibility ELSE PRIVATE

CheckPromote(a) == \E o \in Obj, s \in Space :
  /\ MayChange(a, o) /\ MayPlaceInto(a, s)
  /\ \A p \in object[o].spaces : LevelOf(p) <= space[s].visibility
  /\ Check(a, [op |-> "promote", obj |-> o, dest |-> {s}])
-----------------------------------------------------------------------------
(* The write of each checked call.                                          *)
Finish(a) == call' = [call EXCEPT ![a] = Absent] /\ UNCHANGED <<space, grant>>

NewObject(kind, owner, spaces) ==
  [kind |-> kind, owner |-> owner, spaces |-> spaces, open |-> TRUE]

WriteNew(a) == \E o \in Obj :
  /\ call[a] # Absent /\ call[a].op \in {"assert", "claim"}
  /\ HasRoom(1) /\ ~Exists(o)
  /\ LET kind == IF call[a].op = "assert" THEN "fact" ELSE "claim"
     IN  /\ object' = [object EXCEPT ![o] = NewObject(kind, a, call[a].dest)]
         /\ ledger' = Append(ledger, Sealed(IF kind = "fact" THEN "fact_asserted"
                                                             ELSE "claim_asserted",
                                            a, o, call[a].dest, NoObj))
  /\ Finish(a)

(* Mutant: the replacement belongs to the agent that wrote it.              *)
WriteSupersedeAsWriter(a) == \E new \in Obj :
  /\ call[a] # Absent /\ call[a].op = "supersede"
  /\ HasRoom(2) /\ ~Exists(new)
  /\ LET old == call[a].obj
     IN  /\ object' = [object EXCEPT ![old].open = FALSE,
                                     ![new] = NewObject("fact", a, call[a].dest)]
         /\ ledger' = ledger \o <<Sealed("fact_superseded", a, old, {}, NoObj),
                                  Sealed("fact_asserted", a, new, call[a].dest, old)>>
  /\ Finish(a)

(* Mutant: the placements move from the old fact to its replacement.        *)
WriteSupersedeMoving(a) == \E new \in Obj :
  /\ call[a] # Absent /\ call[a].op = "supersede"
  /\ HasRoom(2) /\ ~Exists(new)
  /\ LET old == call[a].obj
     IN  /\ object' = [object EXCEPT ![old].open = FALSE, ![old].spaces = {},
                                     ![new] = NewObject("fact", object[old].owner,
                                                        call[a].dest)]
         /\ ledger' = ledger \o <<Sealed("fact_superseded", a, old, {}, NoObj),
                                  Sealed("fact_asserted", a, new, call[a].dest, old)>>
  /\ Finish(a)

(* The replacement keeps the owner and the placements of the old fact.      *)
WriteSupersede(a) == \E new \in Obj :
  /\ call[a] # Absent /\ call[a].op = "supersede"
  /\ HasRoom(2) /\ ~Exists(new)
  /\ LET old == call[a].obj
     IN  /\ object' = [object EXCEPT ![old].open = FALSE,
                                     ![new] = NewObject("fact", object[old].owner,
                                                        call[a].dest)]
         /\ ledger' = ledger \o <<Sealed("fact_superseded", a, old, {}, NoObj),
                                  Sealed("fact_asserted", a, new, call[a].dest, old)>>
  /\ Finish(a)

(* _apply_placement: the destination is added, nothing is taken away.       *)
WritePlacement(a) ==
  /\ call[a] # Absent /\ call[a].op \in {"share", "promote"}
  /\ HasRoom(1)
  /\ object' = [object EXCEPT ![call[a].obj].spaces = @ \cup call[a].dest]
  /\ ledger' = Append(ledger, Sealed(IF call[a].op = "share" THEN "knowledge_shared"
                                                             ELSE "knowledge_promoted",
                                     a, call[a].obj, call[a].dest, NoObj))
  /\ Finish(a)

(* The call fails after its check: nothing is written.                      *)
Fail(a) ==
  /\ call[a] # Absent
  /\ Finish(a)
  /\ UNCHANGED <<object, ledger>>

Next == \E a \in Agent :
  \/ CreateSpace(a) \/ GrantCapability(a) \/ RevokeCapability(a)
  \/ CheckAssert(a) \/ CheckClaim(a) \/ CheckSupersede(a)
  \/ CheckShare(a) \/ CheckPromote(a)
  \/ WriteNew(a) \/ WriteSupersede(a) \/ WritePlacement(a)
  \/ Fail(a)

Spec == Init /\ [][Next]_spaceVars
-----------------------------------------------------------------------------
(* Type invariant of the objects, spaces, grants and calls.                 *)
TypeOK ==
  /\ object \in [Obj -> Object \cup {Absent}]
  /\ space \in [Space -> SpaceRecord \cup {Absent}]
  /\ grant \in [Space \X Agent -> Grant \cup {Absent}]
  /\ ledger \in Seq(Event)
  /\ call \in [Agent -> Call \cup {Absent}]

(* Reading is never something one gives oneself: whoever comes to be able   *)
(* to read an existing object without owning it, administering or managing  *)
(* spaces, does so by a step of somebody else.                              *)
NobodyAdmitsThemselves ==
  [][\A o \in Obj, b \in Agent \ (Admin \cup Manager) :
       Exists(o) /\ object[o].owner # b /\ ~CanRead(b, o) /\ CanRead(b, o)'
         => ledger'[Len(ledger')].actor # b]_spaceVars

(* The one path towards PUBLIC: knowledge is in a space of ORGANIZATION or  *)
(* wider only because an agent with knowledge.promote put it there, or      *)
(* because it replaces a fact that was there, whatever raced with what.     *)
WideNeedsPromoter ==
  \A o \in Obj : Exists(o) =>
    \A s \in object[o].spaces : space[s].visibility >= ORGANIZATION =>
      \E i \in 1 .. Len(ledger) :
        /\ ledger[i].about = o /\ s \in ledger[i].into
        /\ \/ ledger[i].actor \in Promoter \cup Admin
           \/ /\ ledger[i].replaces \in Obj
              /\ s \in object[ledger[i].replaces].spaces

(* Who reads through a team space it does not own is a member by the last   *)
(* word of the ledger on that membership, also when grant, revoke, share    *)
(* and supersede cross each other.                                          *)
LastWordIsGrant(s, b) ==
  \E i \in 1 .. Len(ledger) :
    /\ ledger[i].op = "capability_granted" /\ ledger[i].about = <<s, b>>
    /\ \A j \in i + 1 .. Len(ledger) :
         ~(ledger[j].op = "capability_revoked" /\ ledger[j].about = <<s, b>>)

ReadersWereAdmitted ==
  \A o \in Obj, b \in Agent \ Admin :
    CanRead(b, o) /\ object[o].owner # b =>
      \E s \in object[o].spaces :
        \/ space[s].owner = b
        \/ space[s].visibility >= ORGANIZATION
        \/ LastWordIsGrant(s, b)

(* A correction stays with its author's audience: fact and replacement have *)
(* one owner, and the replacement is placed nowhere the fact was not.       *)
CorrectionsStayHome ==
  \A i \in 1 .. Len(ledger) :
    ledger[i].replaces \in Obj =>
      /\ object[ledger[i].about].owner = object[ledger[i].replaces].owner
      /\ ledger[i].into \subseteq object[ledger[i].replaces].spaces

(* Access ends only by a decision somebody took about it: a reader loses an *)
(* object because its membership of a space of that object is revoked, or,  *)
(* as the owner of an object placed nowhere, because it or an administrator *)
(* places the object.  No grant, correction, placement of another's or race *)
(* between them takes what an agent could read from it.                     *)
AccessEndsByDecision ==
  [][\A o \in Obj, b \in Agent : CanRead(b, o) /\ ~CanRead(b, o)' =>
       LET last == ledger'[Len(ledger')]
       IN  \/ /\ object[o].owner = b /\ object[o].spaces = {}
              /\ last.op \in {"knowledge_shared", "knowledge_promoted"}
              /\ last.about = o /\ last.actor \in Admin \cup {b}
           \/ /\ last.op = "capability_revoked"
              /\ \E s \in object[o].spaces : last.about = <<s, b>>]_spaceVars

(* Placements never cross a tenant: no object is ever in a space of another *)
(* tenant than its owner's, and nobody of another tenant reads it.          *)
TenantsStayApart ==
  \A o \in Obj : Exists(o) =>
    /\ \A s \in object[o].spaces : SameTenant(object[o].owner, space[s].owner)
    /\ \A b \in Agent : CanRead(b, o) => SameTenant(b, object[o].owner)
-----------------------------------------------------------------------------
(* SHARING_AND_PROMOTION: sharing preserves the origin placement, and the   *)
(* origin of an unplaced object is that its owner reads it.                 *)
SharingOnlyWidens ==
  [][\A a \in Agent : WritePlacement(a) =>
       \A o \in Obj, b \in Agent : CanRead(b, o) => CanRead(b, o)']_spaceVars
=============================================================================
