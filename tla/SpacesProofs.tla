---------------------------- MODULE SpacesProofs ----------------------------
(***************************************************************************)
(* Proofs about KnowledgeSpaces, for any agents, tenants, objects, spaces   *)
(* and capabilities; and, after them, about EventStream, for any viewer,    *)
(* any size of a batch and any number of broken connections.  The feed only *)
(* reads the ledger, so what is shown of the spaces holds beside it and is  *)
(* used there.                                                              *)
(***************************************************************************)
EXTENDS EventStream, TLAPS

Wide(s) == space[s].visibility >= ORGANIZATION

(* What a call carries was checked, and what it was checked on can only     *)
(* have grown: objects keep their owner and their placements, spaces theirs *)
(* and their visibility.                                                    *)
CallInv ==
  \A a \in Agent : call[a] # Absent =>
    LET c == call[a]
    IN  /\ \A s \in c.dest : Created(s)
        /\ c.op \in {"assert", "claim"} =>
             \A s \in c.dest : SameTenant(a, space[s].owner)
        /\ c.op \in {"supersede", "share", "promote"} =>
             /\ c.obj \in Obj /\ Exists(c.obj)
             /\ \A s \in c.dest : SameTenant(object[c.obj].owner, space[s].owner)
        /\ c.op \in {"share", "promote"} =>
             object[c.obj].owner = a \/ IsAdmin(a)
        /\ c.op = "supersede" => c.dest \subseteq object[c.obj].spaces
        /\ c.op # "supersede" =>
             \A s \in c.dest : Wide(s) => a \in Promoter \cup Admin

PlacedInv ==
  \A o \in Obj : Exists(o) =>
    \A s \in object[o].spaces :
      Created(s) /\ SameTenant(object[o].owner, space[s].owner)

(* A replacement keeps the owner of the old fact, and gets no placement the *)
(* old fact has not.                                                        *)
ReplacesInv ==
  \A i \in 1 .. Len(ledger) :
    ledger[i].replaces \in Obj =>
      /\ ledger[i].about \in Obj
      /\ Exists(ledger[i].about) /\ Exists(ledger[i].replaces)
      /\ object[ledger[i].about].owner = object[ledger[i].replaces].owner
      /\ ledger[i].into \subseteq object[ledger[i].replaces].spaces

GrantInv ==
  \A s \in Space, b \in Agent : IsMember(s, b) => LastWordIsGrant(s, b)

SpacesInv ==
  TypeOK /\ CallInv /\ PlacedInv /\ ReplacesInv /\ WideNeedsPromoter /\ GrantInv

LEMMA SpacesInit == Init => SpacesInv
  BY DEF Init, SpacesInv, TypeOK, CallInv, PlacedInv, ReplacesInv, WideNeedsPromoter, GrantInv,
         Exists, IsMember
-----------------------------------------------------------------------------
(* What a step leaves: the ledger is longer by New, objects and spaces are   *)
(* only added, and objects only placed further.                             *)
New == Len(ledger) + 1 .. Len(ledger')

Longer ==
  /\ ledger' \in Seq(Event) /\ Len(ledger) <= Len(ledger')
  /\ \A i \in 1 .. Len(ledger) : ledger'[i] = ledger[i]

Grows ==
  /\ \A o \in Obj : Exists(o) =>
       /\ Exists(o)' /\ object'[o].owner = object[o].owner
       /\ object[o].spaces \subseteq object'[o].spaces
  /\ \A s \in Space : Created(s) => space'[s] = space[s]

Extends == Longer /\ Grows

LEMMA NothingWritten ==
  ASSUME SpacesInv, UNCHANGED <<object, space, ledger>> PROVE Extends
  BY DEF SpacesInv, TypeOK, Extends, Longer, Grows, Exists

(* The steps, by what they change.                                          *)
LEMMA CheckStep ==
  ASSUME SpacesInv, NEW a \in Agent,
         CheckAssert(a) \/ CheckClaim(a) \/ CheckSupersede(a) \/ CheckShare(a) \/ CheckPromote(a)
  PROVE  SpacesInv' /\ Extends
<1>1. UNCHANGED <<object, space, grant, ledger>>
  BY DEF CheckAssert, CheckClaim, CheckSupersede, CheckShare, CheckPromote, Check
<1>2. PICK c \in Call :
        /\ call' = [call EXCEPT ![a] = c]
        /\ \A s \in c.dest : Created(s)
        /\ c.op \in {"assert", "claim"} => \A s \in c.dest : SameTenant(a, space[s].owner)
        /\ c.op \in {"supersede", "share", "promote"} =>
             /\ c.obj \in Obj /\ Exists(c.obj)
             /\ \A s \in c.dest : SameTenant(object[c.obj].owner, space[s].owner)
        /\ c.op \in {"share", "promote"} => object[c.obj].owner = a \/ IsAdmin(a)
        /\ c.op = "supersede" => c.dest \subseteq object[c.obj].spaces
        /\ c.op # "supersede" => \A s \in c.dest : Wide(s) => a \in Promoter \cup Admin
  <2>1. CASE CheckAssert(a)
    <3> DEFINE c == [op |-> "assert", obj |-> NoObj, dest |-> {}]
    <3>1. c \in Call /\ c.dest = {} /\ c.op = "assert" /\ call' = [call EXCEPT ![a] = c]
      BY <2>1 DEF CheckAssert, Check, Call
    <3>2. QED
      BY <3>1
  <2>2. CASE CheckClaim(a)
    <3>1. CASE Check(a, [op |-> "claim", obj |-> NoObj, dest |-> {}])
      <4> DEFINE c == [op |-> "claim", obj |-> NoObj, dest |-> {}]
      <4>1. c \in Call /\ c.dest = {} /\ c.op = "claim" /\ call' = [call EXCEPT ![a] = c]
        BY <3>1 DEF Check, Call
      <4>2. QED
        BY <4>1
    <3>2. CASE \E s \in Space : /\ MayPlaceInto(a, s)
                                 /\ Check(a, [op |-> "claim", obj |-> NoObj, dest |-> {s}])
      <4>1. PICK s \in Space : /\ MayPlaceInto(a, s)
                               /\ Check(a, [op |-> "claim", obj |-> NoObj, dest |-> {s}])
        BY <3>2
      <4> DEFINE c == [op |-> "claim", obj |-> NoObj, dest |-> {s}]
      <4>2. c \in Call /\ c.dest = {s} /\ c.op = "claim" /\ call' = [call EXCEPT ![a] = c]
        BY <4>1 DEF Check, Call
      <4>3. /\ Created(s) /\ SameTenant(a, space[s].owner)
            /\ Wide(s) => a \in Promoter \cup Admin
        BY <4>1 DEF MayPlaceInto, Loadable, Wide, IsAdmin
      <4> HIDE DEF c
      <4>4. QED
        BY <4>2, <4>3
    <3>3. QED
      BY <2>2, <3>1, <3>2 DEF CheckClaim
  <2>3. CASE CheckSupersede(a)
    <3>1. PICK o \in Obj : /\ MayChange(a, o)
                           /\ Check(a, [op |-> "supersede", obj |-> o, dest |-> object[o].spaces])
      BY <2>3 DEF CheckSupersede
    <3> DEFINE c == [op |-> "supersede", obj |-> o, dest |-> object[o].spaces]
    <3>2. object[o].spaces \in SUBSET Space
      BY <3>1 DEF MayChange, Exists, SpacesInv, TypeOK, Object
    <3>3. c \in Call /\ c.dest = object[o].spaces /\ c.op = "supersede" /\ c.obj = o
          /\ call' = [call EXCEPT ![a] = c]
      BY <3>1, <3>2 DEF Check, Call
    <3>4. QED
      BY <3>1, <3>3 DEF MayChange, SpacesInv, PlacedInv
  <2>4. CASE CheckShare(a) \/ CheckPromote(a)
    <3>1. PICK o \in Obj, s \in Space, op \in {"share", "promote"} :
            /\ MayChange(a, o) /\ MayPlaceInto(a, s)
            /\ Check(a, [op |-> op, obj |-> o, dest |-> {s}])
      <4>1. CASE CheckShare(a)
        BY <4>1 DEF CheckShare
      <4>2. CASE CheckPromote(a)
        BY <4>2 DEF CheckPromote
      <4>3. QED
        BY <2>4, <4>1, <4>2
    <3> DEFINE c == [op |-> op, obj |-> o, dest |-> {s}]
    <3>2. c \in Call /\ c.dest = {s} /\ c.op = op /\ c.obj = o
          /\ call' = [call EXCEPT ![a] = c]
      BY <3>1 DEF Check, Call
    <3>3. /\ Created(s) /\ Exists(o) /\ SameTenant(object[o].owner, space[s].owner)
          /\ object[o].owner = a \/ IsAdmin(a)
          /\ Wide(s) => a \in Promoter \cup Admin
      BY <3>1 DEF MayChange, MayPlaceInto, Loadable, SameTenant, Wide, IsAdmin
    <3> HIDE DEF c
    <3>4. QED
      BY <3>2, <3>3
  <2>5. QED
    BY <2>1, <2>2, <2>3, <2>4
<1>3. TypeOK'
  BY <1>1, <1>2 DEF SpacesInv, TypeOK
<1>4. CallInv'
  <2>1. \A b \in Agent : call'[b] = IF b = a THEN c ELSE call[b]
    BY <1>2 DEF SpacesInv, TypeOK
  <2>2. QED
    BY <1>1, <1>2, <2>1 DEF SpacesInv, CallInv, Created, Exists, Wide
<1>5. PlacedInv'
  BY <1>1 DEF SpacesInv, PlacedInv, Exists, Created
<1>6. ReplacesInv'
  BY <1>1 DEF SpacesInv, ReplacesInv, Exists
<1>7. WideNeedsPromoter'
  BY <1>1 DEF SpacesInv, WideNeedsPromoter, Exists
<1>8. GrantInv'
  BY <1>1 DEF SpacesInv, GrantInv, IsMember, LastWordIsGrant
<1>9. QED
  BY <1>1, <1>3, <1>4, <1>5, <1>6, <1>7, <1>8, NothingWritten DEF SpacesInv

LEMMA OneMore ==
  ASSUME SpacesInv, NEW e \in Event, ledger' = Append(ledger, e)
  PROVE  /\ Longer /\ New = {Len(ledger) + 1} /\ ledger'[Len(ledger) + 1] = e
         /\ Len(ledger') = Len(ledger) + 1
  BY DEF SpacesInv, TypeOK, Longer, New

LEMMA TwoMore ==
  ASSUME SpacesInv, NEW e \in Event, NEW f \in Event, ledger' = ledger \o <<e, f>>
  PROVE  /\ Longer /\ New = {Len(ledger) + 1, Len(ledger) + 2}
         /\ ledger'[Len(ledger) + 1] = e /\ ledger'[Len(ledger) + 2] = f
         /\ Len(ledger') = Len(ledger) + 2
  BY DEF SpacesInv, TypeOK, Longer, New

(* Membership follows the last word as long as no revocation is appended.   *)
LEMMA WordStands ==
  ASSUME SpacesInv, Longer, NEW s \in Space, NEW b \in Agent, LastWordIsGrant(s, b),
         \A j \in New : ~(ledger'[j].op = "capability_revoked" /\ ledger'[j].about = <<s, b>>)
  PROVE  LastWordIsGrant(s, b)'
<1>1. Len(ledger) \in Nat /\ Len(ledger') \in Nat
  BY DEF SpacesInv, TypeOK, Longer
<1>2. PICK i \in 1 .. Len(ledger) :
        /\ ledger[i].op = "capability_granted" /\ ledger[i].about = <<s, b>>
        /\ \A j \in i + 1 .. Len(ledger) :
             ~(ledger[j].op = "capability_revoked" /\ ledger[j].about = <<s, b>>)
  BY DEF LastWordIsGrant
<1>3. /\ i \in 1 .. Len(ledger')
      /\ ledger'[i].op = "capability_granted" /\ ledger'[i].about = <<s, b>>
  BY <1>1, <1>2 DEF Longer
<1>4. ASSUME NEW j \in i + 1 .. Len(ledger')
      PROVE  ~(ledger'[j].op = "capability_revoked" /\ ledger'[j].about = <<s, b>>)
  <2>1. j \in i + 1 .. Len(ledger) \/ j \in New
    BY <1>1, <1>2 DEF New
  <2>2. CASE j \in i + 1 .. Len(ledger)
    BY <1>1, <1>2, <2>2 DEF Longer
  <2>3. QED
    BY <2>1, <2>2
<1>5. QED
  BY <1>3, <1>4 DEF LastWordIsGrant

LEMMA GrantsStill ==
  ASSUME SpacesInv, Longer, UNCHANGED grant, \A j \in New : ledger'[j].op # "capability_revoked"
  PROVE  GrantInv'
<1>1. \A s \in Space, b \in Agent : LastWordIsGrant(s, b) => LastWordIsGrant(s, b)'
  BY WordStands
<1>2. QED
  BY <1>1 DEF SpacesInv, GrantInv, IsMember

LEMMA ReplacesStill ==
  ASSUME SpacesInv, Longer, Grows,
         \A j \in New : ledger'[j].replaces \in Obj =>
           /\ ledger'[j].about \in Obj
           /\ object'[ledger'[j].about] # Absent /\ object'[ledger'[j].replaces] # Absent
           /\ object'[ledger'[j].about].owner = object'[ledger'[j].replaces].owner
           /\ ledger'[j].into \subseteq object'[ledger'[j].replaces].spaces
  PROVE  ReplacesInv'
<1>1. Len(ledger) \in Nat /\ Len(ledger') \in Nat
  BY DEF SpacesInv, TypeOK, Longer
<1>2. ASSUME NEW i \in 1 .. Len(ledger'), ledger'[i].replaces \in Obj, i \notin New
      PROVE  /\ ledger'[i].about \in Obj
             /\ object'[ledger'[i].about] # Absent /\ object'[ledger'[i].replaces] # Absent
             /\ object'[ledger'[i].about].owner = object'[ledger'[i].replaces].owner
             /\ ledger'[i].into \subseteq object'[ledger'[i].replaces].spaces
  <2>1. i \in 1 .. Len(ledger) /\ ledger'[i] = ledger[i]
    BY <1>1, <1>2 DEF New, Longer
  <2>2. PICK new \in Obj, old \in Obj :
          /\ new = ledger[i].about /\ old = ledger[i].replaces
          /\ Exists(new) /\ Exists(old) /\ object[new].owner = object[old].owner
          /\ ledger[i].into \subseteq object[old].spaces
    BY <1>2, <2>1 DEF SpacesInv, ReplacesInv
  <2>3. /\ object'[new] # Absent /\ object'[old] # Absent
        /\ object'[new].owner = object[new].owner /\ object'[old].owner = object[old].owner
        /\ object[old].spaces \subseteq object'[old].spaces
    BY <2>2 DEF Grows, Exists
  <2>4. QED
    BY <2>1, <2>2, <2>3
<1>3. QED
  BY <1>2 DEF ReplacesInv, Exists

(* What placed an object where it was stays in the ledger; what places it   *)
(* further must be new there.                                               *)
LEMMA WideStill ==
  ASSUME SpacesInv, Longer, Grows,
         \A o \in Obj : Exists(o)' => \A s \in object'[o].spaces :
           \/ Exists(o) /\ s \in object[o].spaces
           \/ /\ s \in Space /\ Created(s)
              /\ Wide(s) => \E j \in New :
                   /\ ledger'[j].about = o /\ s \in ledger'[j].into
                   /\ \/ ledger'[j].actor \in Promoter \cup Admin
                      \/ /\ ledger'[j].replaces \in Obj
                         /\ s \in object'[ledger'[j].replaces].spaces
  PROVE  WideNeedsPromoter'
<1>1. Len(ledger) \in Nat /\ Len(ledger') \in Nat
  BY DEF SpacesInv, TypeOK, Longer
<1>2. New \subseteq 1 .. Len(ledger') /\ 1 .. Len(ledger) \subseteq 1 .. Len(ledger')
  BY <1>1 DEF New, Longer
<1>3. ASSUME NEW o \in Obj, Exists(o)', NEW s \in object'[o].spaces, Wide(s)'
      PROVE  \E i \in 1 .. Len(ledger') :
               /\ ledger'[i].about = o /\ s \in ledger'[i].into
               /\ \/ ledger'[i].actor \in Promoter \cup Admin
                  \/ /\ ledger'[i].replaces \in Obj
                     /\ s \in object'[ledger'[i].replaces].spaces
  <2>1. CASE Exists(o) /\ s \in object[o].spaces
    <3>1. s \in Space /\ Created(s)
      BY <2>1 DEF SpacesInv, PlacedInv, TypeOK, Exists, Object
    <3>2. Wide(s)
      BY <1>3, <3>1 DEF Grows, Wide
    <3>3. PICK i \in 1 .. Len(ledger) :
            /\ ledger[i].about = o /\ s \in ledger[i].into
            /\ \/ ledger[i].actor \in Promoter \cup Admin
               \/ /\ ledger[i].replaces \in Obj
                  /\ s \in object[ledger[i].replaces].spaces
      BY <2>1, <3>2 DEF SpacesInv, WideNeedsPromoter, Wide
    <3>4. ledger[i].replaces \in Obj =>
            object[ledger[i].replaces].spaces \subseteq object'[ledger[i].replaces].spaces
      BY DEF SpacesInv, ReplacesInv, Grows
    <3>5. ledger'[i] = ledger[i]
      BY DEF Longer
    <3>6. QED
      BY <1>2, <3>3, <3>4, <3>5
  <2>2. CASE /\ s \in Space /\ Created(s)
             /\ Wide(s) => \E j \in New :
                  /\ ledger'[j].about = o /\ s \in ledger'[j].into
                  /\ \/ ledger'[j].actor \in Promoter \cup Admin
                     \/ /\ ledger'[j].replaces \in Obj
                        /\ s \in object'[ledger'[j].replaces].spaces
    <3>1. Wide(s)
      BY <1>3, <2>2 DEF Grows, Wide
    <3>2. QED
      BY <1>2, <2>2, <3>1
  <2>3. QED
    BY <1>3, <2>1, <2>2
<1>4. QED
  BY <1>3 DEF WideNeedsPromoter, Wide

LEMMA CallStill ==
  ASSUME SpacesInv, Grows, NEW a \in Agent,
         call' = call \/ call' = [call EXCEPT ![a] = Absent]
  PROVE  CallInv'
<1>1. \A b \in Agent : call'[b] # Absent => call[b] # Absent /\ call'[b] = call[b]
  BY DEF SpacesInv, TypeOK
<1>2. ASSUME NEW b \in Agent, call[b] # Absent PROVE call[b].dest \subseteq Space
  BY <1>2 DEF SpacesInv, TypeOK, Call
<1>3. ASSUME NEW s \in Space, Created(s) PROVE Created(s)' /\ space'[s] = space[s]
  BY <1>3 DEF Grows, Created
<1>4. QED
  BY <1>1, <1>2, <1>3 DEF SpacesInv, CallInv, Grows, Wide

LEMMA PlacedStill ==
  ASSUME SpacesInv, Grows,
         \A o \in Obj : Exists(o)' => \A s \in object'[o].spaces :
           \/ Exists(o) /\ s \in object[o].spaces
           \/ s \in Space /\ Created(s) /\ SameTenant(object'[o].owner, space[s].owner)
  PROVE  PlacedInv'
<1>1. ASSUME NEW s \in Space, Created(s) PROVE Created(s)' /\ space'[s] = space[s]
  BY <1>1 DEF Grows, Created
<1>2. ASSUME NEW o \in Obj, Exists(o), NEW s \in object[o].spaces
      PROVE  /\ s \in Space /\ Created(s) /\ SameTenant(object[o].owner, space[s].owner)
             /\ object'[o].owner = object[o].owner
  BY <1>2 DEF SpacesInv, TypeOK, PlacedInv, Exists, Object, Grows
<1>3. QED
  BY <1>1, <1>2 DEF PlacedInv
-----------------------------------------------------------------------------
LEMMA SealedType ==
  ASSUME NEW op \in {"fact_asserted", "fact_superseded", "claim_asserted", "space_created",
                     "capability_granted", "capability_revoked", "knowledge_shared",
                     "knowledge_promoted"},
         NEW a \in Agent, NEW about \in Obj \cup Space \cup (Space \X Agent),
         NEW into \in SUBSET Space, NEW replaces \in Obj \cup {NoObj}
  PROVE  /\ Sealed(op, a, about, into, replaces) \in Event
         /\ Sealed(op, a, about, into, replaces).op = op
         /\ Sealed(op, a, about, into, replaces).actor = a
         /\ Sealed(op, a, about, into, replaces).about = about
         /\ Sealed(op, a, about, into, replaces).into = into
         /\ Sealed(op, a, about, into, replaces).replaces = replaces
  BY DEF Sealed, Event

LEMMA CreateSpaceStep ==
  ASSUME SpacesInv, NEW a \in Agent, CreateSpace(a) PROVE SpacesInv' /\ Extends
<1>1. PICK s \in Space, v \in Visibility :
        /\ ~Created(s)
        /\ space' = [space EXCEPT ![s] = [visibility |-> v, owner |-> a]]
        /\ ledger' = Append(ledger, Sealed("space_created", a, s, {}, NoObj))
        /\ UNCHANGED <<object, grant, call>>
  BY DEF CreateSpace
<1> DEFINE e == Sealed("space_created", a, s, {}, NoObj)
<1>2. /\ e \in Event /\ e.op = "space_created" /\ e.replaces = NoObj
  BY SealedType
<1> HIDE DEF e
<1>3. /\ Longer /\ New = {Len(ledger) + 1} /\ ledger'[Len(ledger) + 1] = e
  BY <1>1, <1>2, OneMore DEF e
<1>4. [visibility |-> v, owner |-> a] \in SpaceRecord
  BY DEF SpaceRecord
<1>5. TypeOK'
  BY <1>1, <1>3, <1>4 DEF SpacesInv, TypeOK, Longer
<1>6. Grows
  BY <1>1 DEF SpacesInv, TypeOK, Grows, Exists, Created
<1>7. CallInv'
  BY <1>1, <1>6, CallStill
<1>8. PlacedInv'
  BY <1>1, <1>6, PlacedStill DEF Exists
<1>9. ReplacesInv'
  BY <1>2, <1>3, <1>6, ReplacesStill, NoIdAssumption
<1>10. WideNeedsPromoter'
  BY <1>1, <1>3, <1>6, WideStill DEF Exists
<1>11. GrantInv'
  BY <1>1, <1>2, <1>3, GrantsStill
<1>12. QED
  BY <1>3, <1>5, <1>6, <1>7, <1>8, <1>9, <1>10, <1>11 DEF SpacesInv, Extends

LEMMA MembershipStep ==
  ASSUME SpacesInv, NEW a \in Agent, GrantCapability(a) \/ RevokeCapability(a) PROVE SpacesInv' /\ Extends
<1>1. PICK s \in Space, b \in Agent, op \in {"capability_granted", "capability_revoked"} :
        /\ op = "capability_granted" =>
             grant' = [grant EXCEPT ![<<s, b>>] = [owner |-> a, active |-> TRUE]]
        /\ op = "capability_revoked" =>
             grant' = IF grant[<<s, b>>] = Absent THEN grant
                                                  ELSE [grant EXCEPT ![<<s, b>>].active = FALSE]
        /\ ledger' = Append(ledger, Sealed(op, a, <<s, b>>, {}, NoObj))
        /\ UNCHANGED <<object, space, call>>
  <2>1. CASE GrantCapability(a)
    BY <2>1 DEF GrantCapability
  <2>2. CASE RevokeCapability(a)
    BY <2>2 DEF RevokeCapability
  <2>3. QED
    BY <2>1, <2>2
<1> DEFINE e == Sealed(op, a, <<s, b>>, {}, NoObj)
<1>2. e \in Event /\ e.op = op /\ e.about = <<s, b>> /\ e.replaces = NoObj
  BY SealedType
<1> HIDE DEF e
<1>3. /\ Longer /\ New = {Len(ledger) + 1} /\ ledger'[Len(ledger) + 1] = e
      /\ Len(ledger') = Len(ledger) + 1
  BY <1>1, <1>2, OneMore DEF e
<1>4. /\ grant' \in [Space \X Agent -> Grant \cup {Absent}]
      /\ \A r \in Space, c \in Agent : <<r, c>> # <<s, b>> => grant'[<<r, c>>] = grant[<<r, c>>]
      /\ op = "capability_revoked" => ~IsMember(s, b)'
  <2>1. <<s, b>> \in Space \X Agent /\ grant \in [Space \X Agent -> Grant \cup {Absent}]
    BY DEF SpacesInv, TypeOK
  <2>2. CASE op = "capability_granted"
    <3>1. [owner |-> a, active |-> TRUE] \in Grant
      BY DEF Grant
    <3>2. QED
      BY <1>1, <2>1, <2>2, <3>1
  <2>3. CASE op = "capability_revoked" /\ grant[<<s, b>>] = Absent
    BY <1>1, <2>1, <2>3 DEF IsMember
  <2>4. CASE op = "capability_revoked" /\ grant[<<s, b>>] # Absent
    <3>1. grant[<<s, b>>] \in Grant
      BY <2>1, <2>4
    <3>2. /\ [grant[<<s, b>>] EXCEPT !.active = FALSE] \in Grant
          /\ [grant[<<s, b>>] EXCEPT !.active = FALSE].active = FALSE
      BY <3>1 DEF Grant
    <3>3. grant' = [grant EXCEPT ![<<s, b>>] = [grant[<<s, b>>] EXCEPT !.active = FALSE]]
      BY <1>1, <2>4
    <3>4. QED
      BY <2>1, <3>2, <3>3 DEF IsMember
  <2>5. QED
    BY <2>2, <2>3, <2>4
<1>5. TypeOK'
  BY <1>1, <1>3, <1>4 DEF SpacesInv, TypeOK, Longer
<1>6. Grows
  BY <1>1 DEF Grows, Exists
<1>7. CallInv' /\ PlacedInv'
  BY <1>1, <1>6, CallStill, PlacedStill DEF Exists
<1>8. ReplacesInv'
  BY <1>2, <1>3, <1>6, ReplacesStill, NoIdAssumption
<1>9. WideNeedsPromoter'
  BY <1>1, <1>3, <1>6, WideStill DEF Exists
<1>10. ASSUME NEW r \in Space, NEW c \in Agent, IsMember(r, c)' PROVE LastWordIsGrant(r, c)'
  <2>1. CASE <<r, c>> # <<s, b>>
    <3>1. IsMember(r, c)
      BY <1>4, <1>10, <2>1 DEF IsMember
    <3>2. LastWordIsGrant(r, c)
      BY <3>1 DEF SpacesInv, GrantInv
    <3>3. QED
      BY <1>2, <1>3, <2>1, <3>2, WordStands
  <2>2. CASE r = s /\ c = b
    <3>1. op = "capability_granted"
      BY <1>4, <1>10, <2>2
    <3>2. Len(ledger) \in Nat
      BY DEF SpacesInv, TypeOK
    <3>3. /\ Len(ledger) + 1 \in 1 .. Len(ledger')
          /\ (Len(ledger) + 1) + 1 .. Len(ledger') = {}
      BY <1>3, <3>2
    <3>4. QED
      BY <1>2, <1>3, <2>2, <3>1, <3>3 DEF LastWordIsGrant
  <2>3. QED
    BY <2>1, <2>2
<1>11. GrantInv'
  BY <1>10 DEF GrantInv
<1>12. QED
  BY <1>3, <1>5, <1>6, <1>7, <1>8, <1>9, <1>11 DEF SpacesInv, Extends

LEMMA WriteNewStep ==
  ASSUME SpacesInv, NEW a \in Agent, WriteNew(a) PROVE SpacesInv' /\ Extends
<1>1. PICK o \in Obj, kind \in {"fact", "claim"}, op \in {"fact_asserted", "claim_asserted"} :
        /\ call[a] # Absent /\ call[a].op \in {"assert", "claim"} /\ ~Exists(o)
        /\ object' = [object EXCEPT ![o] = NewObject(kind, a, call[a].dest)]
        /\ ledger' = Append(ledger, Sealed(op, a, o, call[a].dest, NoObj))
        /\ call' = [call EXCEPT ![a] = Absent] /\ UNCHANGED <<space, grant>>
  BY DEF WriteNew, Finish
<1>2. /\ call[a].dest \in SUBSET Space
      /\ \A s \in call[a].dest : /\ Created(s) /\ SameTenant(a, space[s].owner)
                                 /\ Wide(s) => a \in Promoter \cup Admin
  BY <1>1 DEF SpacesInv, TypeOK, Call, CallInv
<1> DEFINE e == Sealed(op, a, o, call[a].dest, NoObj)
           n == NewObject(kind, a, call[a].dest)
<1>3. /\ e \in Event /\ e.op = op /\ e.actor = a /\ e.about = o /\ e.into = call[a].dest
      /\ e.replaces = NoObj
  BY <1>2, SealedType
<1>4. n \in Object /\ n.owner = a /\ n.spaces = call[a].dest
  BY <1>2 DEF NewObject, Object
<1> HIDE DEF e
<1>5. /\ Longer /\ New = {Len(ledger) + 1} /\ ledger'[Len(ledger) + 1] = e
  BY <1>1, <1>3, OneMore DEF e
<1> HIDE DEF n
<1>6. /\ object' \in [Obj -> Object \cup {Absent}] /\ object'[o] = n
      /\ \A p \in Obj : p # o => object'[p] = object[p]
  BY <1>1, <1>4 DEF n, SpacesInv, TypeOK
<1>7. TypeOK'
  BY <1>1, <1>5, <1>6 DEF SpacesInv, TypeOK, Longer
<1>8. Grows
  BY <1>1, <1>6 DEF Grows, Exists
<1>9. CallInv'
  BY <1>1, <1>8, CallStill
<1>10. ASSUME NEW p \in Obj, Exists(p)', NEW s \in object'[p].spaces, p # o
       PROVE  Exists(p) /\ s \in object[p].spaces
  BY <1>6, <1>10 DEF Exists
<1>11. PlacedInv'
  <2>1. ASSUME NEW s \in object'[o].spaces
        PROVE  s \in Space /\ Created(s) /\ SameTenant(object'[o].owner, space[s].owner)
    BY <1>2, <1>4, <1>6
  <2>2. QED
    BY <1>8, <1>10, <2>1, PlacedStill
<1>12. ReplacesInv'
  BY <1>3, <1>5, <1>8, ReplacesStill, NoIdAssumption
<1>13. WideNeedsPromoter'
  <2>1. ASSUME NEW s \in object'[o].spaces
        PROVE  /\ s \in Space /\ Created(s)
               /\ Wide(s) => \E j \in New : /\ ledger'[j].about = o /\ s \in ledger'[j].into
                                            /\ ledger'[j].actor \in Promoter \cup Admin
    BY <1>2, <1>3, <1>4, <1>5, <1>6
  <2>2. QED
    BY <1>5, <1>8, <1>10, <2>1, WideStill
<1>14. GrantInv'
  BY <1>1, <1>3, <1>5, GrantsStill
<1>15. QED
  BY <1>5, <1>7, <1>8, <1>9, <1>11, <1>12, <1>13, <1>14 DEF SpacesInv, Extends

LEMMA WriteSupersedeStep ==
  ASSUME SpacesInv, NEW a \in Agent, WriteSupersede(a) PROVE SpacesInv' /\ Extends
<1>1. PICK new \in Obj :
        /\ call[a] # Absent /\ call[a].op = "supersede" /\ ~Exists(new)
        /\ object' = [object EXCEPT ![call[a].obj].open = FALSE,
                                    ![new] = NewObject("fact", object[call[a].obj].owner,
                                                       call[a].dest)]
        /\ ledger' = ledger \o <<Sealed("fact_superseded", a, call[a].obj, {}, NoObj),
                                 Sealed("fact_asserted", a, new, call[a].dest, call[a].obj)>>
        /\ call' = [call EXCEPT ![a] = Absent] /\ UNCHANGED <<space, grant>>
  BY DEF WriteSupersede, Finish
<1>2. PICK old \in Obj : old = call[a].obj /\ Exists(old) /\ old # new
  BY <1>1 DEF SpacesInv, CallInv
<1>3. /\ call[a].dest \in SUBSET Space /\ call[a].dest \subseteq object[old].spaces
      /\ \A s \in call[a].dest : Created(s) /\ SameTenant(object[old].owner, space[s].owner)
  BY <1>1, <1>2 DEF SpacesInv, TypeOK, Call, CallInv
<1> DEFINE e == Sealed("fact_superseded", a, old, {}, NoObj)
           f == Sealed("fact_asserted", a, new, call[a].dest, old)
           n == NewObject("fact", object[old].owner, call[a].dest)
           closed == [object[old] EXCEPT !.open = FALSE]
<1>4. /\ e \in Event /\ e.op = "fact_superseded" /\ e.replaces = NoObj
      /\ f \in Event /\ f.op = "fact_asserted" /\ f.about = new /\ f.into = call[a].dest
      /\ f.replaces = old
  BY <1>3, SealedType
<1>5. /\ n \in Object /\ n.owner = object[old].owner /\ n.spaces = call[a].dest
      /\ closed \in Object /\ closed.owner = object[old].owner
      /\ closed.spaces = object[old].spaces
  <2>1. object[old] \in Object
    BY <1>2 DEF SpacesInv, TypeOK, Exists
  <2>2. QED
    BY <1>3, <2>1 DEF NewObject, Object
<1> HIDE DEF e, f
<1>6. /\ Longer /\ New = {Len(ledger) + 1, Len(ledger) + 2}
      /\ ledger'[Len(ledger) + 1] = e /\ ledger'[Len(ledger) + 2] = f
  BY <1>1, <1>2, <1>4, TwoMore DEF e, f
<1>7. /\ object' \in [Obj -> Object \cup {Absent}] /\ object'[new] = n /\ object'[old] = closed
      /\ \A p \in Obj : p # new /\ p # old => object'[p] = object[p]
  <2>1. object' = [object EXCEPT ![old] = closed, ![new] = n]
    BY <1>1, <1>2
  <2> HIDE DEF n, closed
  <2>2. QED
    BY <1>2, <1>5, <2>1 DEF SpacesInv, TypeOK
<1> HIDE DEF n, closed
<1>8. n # Absent /\ closed # Absent
  BY <1>5, AbsentAssumption
<1>9. TypeOK'
  BY <1>1, <1>6, <1>7 DEF SpacesInv, TypeOK, Longer
<1>10. Grows
  <2>1. ASSUME NEW p \in Obj, Exists(p)
        PROVE  /\ Exists(p)' /\ object'[p].owner = object[p].owner
               /\ object[p].spaces \subseteq object'[p].spaces
    <3>1. p # new
      BY <1>1, <2>1
    <3>2. CASE p = old
      BY <1>5, <1>7, <1>8, <3>2 DEF Exists
    <3>3. CASE p # old
      BY <1>7, <2>1, <3>1, <3>3 DEF Exists
    <3>4. QED
      BY <3>2, <3>3
  <2>2. QED
    BY <1>1, <2>1 DEF Grows
<1>11. CallInv'
  BY <1>1, <1>10, CallStill
<1>12. ASSUME NEW p \in Obj, Exists(p)', NEW s \in object'[p].spaces, p # new
       PROVE  Exists(p) /\ s \in object[p].spaces
  BY <1>2, <1>5, <1>7, <1>12 DEF Exists
<1>13. PlacedInv'
  <2>1. ASSUME NEW s \in object'[new].spaces
        PROVE  s \in Space /\ Created(s) /\ SameTenant(object'[new].owner, space[s].owner)
    BY <1>3, <1>5, <1>7
  <2>2. QED
    BY <1>10, <1>12, <2>1, PlacedStill
<1>14. ReplacesInv'
  <2>1. ASSUME NEW j \in New, ledger'[j].replaces \in Obj
        PROVE  /\ ledger'[j].about = new /\ ledger'[j].replaces = old
               /\ ledger'[j].into = call[a].dest
    BY <1>4, <1>6, <2>1, NoIdAssumption
  <2>2. /\ object'[new] # Absent /\ object'[old] # Absent
        /\ object'[new].owner = object'[old].owner
        /\ call[a].dest \subseteq object'[old].spaces
    BY <1>3, <1>5, <1>7, <1>8
  <2>3. QED
    BY <1>6, <1>10, <2>1, <2>2, ReplacesStill
<1>15. WideNeedsPromoter'
  <2>1. ASSUME NEW s \in object'[new].spaces
        PROVE  /\ s \in Space /\ Created(s)
               /\ \E j \in New : /\ ledger'[j].about = new /\ s \in ledger'[j].into
                                 /\ ledger'[j].replaces \in Obj
                                 /\ s \in object'[ledger'[j].replaces].spaces
    BY <1>3, <1>4, <1>5, <1>6, <1>7
  <2>2. QED
    BY <1>6, <1>10, <1>12, <2>1, WideStill
<1>16. GrantInv'
  BY <1>1, <1>4, <1>6, GrantsStill
<1>17. QED
  BY <1>6, <1>9, <1>10, <1>11, <1>13, <1>14, <1>15, <1>16 DEF SpacesInv, Extends

LEMMA WritePlacementStep ==
  ASSUME SpacesInv, NEW a \in Agent, WritePlacement(a) PROVE SpacesInv' /\ Extends
<1>1. PICK op \in {"knowledge_shared", "knowledge_promoted"} :
        /\ call[a] # Absent /\ call[a].op \in {"share", "promote"}
        /\ object' = [object EXCEPT ![call[a].obj].spaces = @ \cup call[a].dest]
        /\ ledger' = Append(ledger, Sealed(op, a, call[a].obj, call[a].dest, NoObj))
        /\ call' = [call EXCEPT ![a] = Absent] /\ UNCHANGED <<space, grant>>
  BY DEF WritePlacement, Finish
<1>2. PICK o \in Obj : o = call[a].obj /\ Exists(o)
  BY <1>1 DEF SpacesInv, CallInv
<1>3. /\ call[a].dest \in SUBSET Space
      /\ \A s \in call[a].dest : /\ Created(s) /\ SameTenant(object[o].owner, space[s].owner)
                                 /\ Wide(s) => a \in Promoter \cup Admin
  BY <1>1, <1>2 DEF SpacesInv, TypeOK, Call, CallInv
<1> DEFINE e == Sealed(op, a, o, call[a].dest, NoObj)
           n == [object[o] EXCEPT !.spaces = object[o].spaces \cup call[a].dest]
<1>4. /\ e \in Event /\ e.op = op /\ e.actor = a /\ e.about = o /\ e.into = call[a].dest
      /\ e.replaces = NoObj
  BY <1>3, SealedType
<1>5. /\ n \in Object /\ n.owner = object[o].owner
      /\ n.spaces = object[o].spaces \cup call[a].dest
  <2>1. object[o] \in Object
    BY <1>2 DEF SpacesInv, TypeOK, Exists
  <2>2. QED
    BY <1>3, <2>1 DEF Object
<1> HIDE DEF e
<1>6. /\ Longer /\ New = {Len(ledger) + 1} /\ ledger'[Len(ledger) + 1] = e
  BY <1>1, <1>2, <1>4, OneMore DEF e
<1>7. /\ object' \in [Obj -> Object \cup {Absent}] /\ object'[o] = n
      /\ \A p \in Obj : p # o => object'[p] = object[p]
  <2>1. object' = [object EXCEPT ![o] = n]
    BY <1>1, <1>2
  <2> HIDE DEF n
  <2>2. QED
    BY <1>2, <1>5, <2>1 DEF SpacesInv, TypeOK
<1> HIDE DEF n
<1>8. TypeOK'
  BY <1>1, <1>6, <1>7 DEF SpacesInv, TypeOK, Longer
<1>9. Grows
  <2>1. n # Absent
    BY <1>5, AbsentAssumption
  <2>2. QED
    BY <1>1, <1>2, <1>5, <1>7, <2>1 DEF Grows, Exists
<1>10. CallInv'
  BY <1>1, <1>9, CallStill
<1>11. ASSUME NEW p \in Obj, Exists(p)', NEW s \in object'[p].spaces
       PROVE  \/ Exists(p) /\ s \in object[p].spaces
              \/ p = o /\ s \in call[a].dest
  BY <1>2, <1>5, <1>7, <1>11 DEF Exists
<1>12. PlacedInv'
  <2>1. ASSUME NEW s \in call[a].dest
        PROVE  s \in Space /\ Created(s) /\ SameTenant(object'[o].owner, space[s].owner)
    BY <1>3, <1>5, <1>7
  <2>2. QED
    BY <1>9, <1>11, <2>1, PlacedStill
<1>13. ReplacesInv'
  BY <1>4, <1>6, <1>9, ReplacesStill, NoIdAssumption
<1>14. WideNeedsPromoter'
  <2>1. ASSUME NEW s \in call[a].dest
        PROVE  /\ s \in Space /\ Created(s)
               /\ Wide(s) => \E j \in New : /\ ledger'[j].about = o /\ s \in ledger'[j].into
                                            /\ ledger'[j].actor \in Promoter \cup Admin
    BY <1>3, <1>4, <1>6
  <2>2. QED
    BY <1>6, <1>9, <1>11, <2>1, WideStill
<1>15. GrantInv'
  BY <1>1, <1>4, <1>6, GrantsStill
<1>16. QED
  BY <1>6, <1>8, <1>9, <1>10, <1>12, <1>13, <1>14, <1>15 DEF SpacesInv, Extends

(* A step that writes nothing: a call that fails, or a stutter.             *)
LEMMA IdleStep ==
  ASSUME SpacesInv, NEW a \in Agent, UNCHANGED <<object, space, grant, ledger>>,
         call' = call \/ call' = [call EXCEPT ![a] = Absent]
  PROVE  SpacesInv' /\ Extends
<1>1. TypeOK'
  BY DEF SpacesInv, TypeOK
<1>2. CallInv'
  <2>1. Grows
    BY DEF Grows, Exists
  <2>2. QED
    BY <2>1, CallStill
<1>3. PlacedInv' /\ ReplacesInv'
  BY DEF SpacesInv, PlacedInv, ReplacesInv, Exists, Created
<1>4. WideNeedsPromoter'
  BY DEF SpacesInv, WideNeedsPromoter, Exists
<1>5. GrantInv'
  BY DEF SpacesInv, GrantInv, IsMember, LastWordIsGrant
<1>6. QED
  BY <1>1, <1>2, <1>3, <1>4, <1>5, NothingWritten DEF SpacesInv

LEMMA SpacesStep == SpacesInv /\ [Next]_spaceVars => SpacesInv' /\ Extends
<1> SUFFICES ASSUME SpacesInv, [Next]_spaceVars PROVE SpacesInv' /\ Extends
  OBVIOUS
<1>1. CASE Next
  <2>1. PICK a \in Agent :
          \/ CreateSpace(a) \/ GrantCapability(a) \/ RevokeCapability(a)
          \/ CheckAssert(a) \/ CheckClaim(a) \/ CheckSupersede(a)
          \/ CheckShare(a) \/ CheckPromote(a)
          \/ WriteNew(a) \/ WriteSupersede(a) \/ WritePlacement(a)
          \/ Fail(a)
    BY <1>1 DEF Next
  <2>2. CASE CreateSpace(a)
    BY <2>2, CreateSpaceStep
  <2>3. CASE GrantCapability(a) \/ RevokeCapability(a)
    BY <2>3, MembershipStep
  <2>4. CASE CheckAssert(a) \/ CheckClaim(a) \/ CheckSupersede(a) \/ CheckShare(a)
             \/ CheckPromote(a)
    BY <2>4, CheckStep
  <2>5. CASE WriteNew(a)
    BY <2>5, WriteNewStep
  <2>6. CASE WriteSupersede(a)
    BY <2>6, WriteSupersedeStep
  <2>7. CASE WritePlacement(a)
    BY <2>7, WritePlacementStep
  <2>8. CASE Fail(a)
    BY <2>8, IdleStep DEF Fail, Finish
  <2>9. QED
    BY <2>1, <2>2, <2>3, <2>4, <2>5, <2>6, <2>7, <2>8
<1>2. CASE UNCHANGED spaceVars
  <2>1. TypeOK' /\ CallInv'
    BY <1>2 DEF spaceVars, SpacesInv, TypeOK, CallInv, Exists, Created, Wide
  <2>2. PlacedInv' /\ ReplacesInv'
    BY <1>2 DEF spaceVars, SpacesInv, PlacedInv, ReplacesInv, Exists, Created
  <2>3. WideNeedsPromoter' /\ GrantInv'
    BY <1>2 DEF spaceVars, SpacesInv, WideNeedsPromoter, GrantInv, Exists, IsMember,
                LastWordIsGrant
  <2>4. QED
    BY <1>2, <2>1, <2>2, <2>3, NothingWritten DEF SpacesInv, spaceVars
<1>3. QED
  BY <1>1, <1>2
-----------------------------------------------------------------------------
(* The inductive invariant holds of every behaviour.                        *)
THEOREM SpacesInvariant == Spec => []SpacesInv
<1>1. Init => SpacesInv
  BY SpacesInit
<1>2. SpacesInv /\ [Next]_spaceVars => SpacesInv'
  BY SpacesStep
<1>3. QED
  BY <1>1, <1>2, PTL DEF Spec

(* No object is ever placed in, or read from, a tenant other than its       *)
(* owner's, whatever checks and writes of share, promote, supersede and     *)
(* create_claim cross each other (core/__init__.py _load_space, _resolve_   *)
(* placement; authz can_read_object).                                       *)
THEOREM TenantsAreApart == Spec => []TenantsStayApart
<1>1. SpacesInv => TenantsStayApart
  BY DEF SpacesInv, PlacedInv, TenantsStayApart, CanRead, MayReadPlaced
<1>2. QED
  BY <1>1, SpacesInvariant, PTL

(* A supersede's replacement has its old fact's owner and none but its      *)
(* placements, though the placements are read before the transaction.       *)
THEOREM CorrectionsAreHome == Spec => []CorrectionsStayHome
<1>1. SpacesInv => CorrectionsStayHome
  BY DEF SpacesInv, ReplacesInv, CorrectionsStayHome
<1>2. QED
  BY <1>1, SpacesInvariant, PTL

(* Whatever is in a space of ORGANIZATION or wider was put there by an agent *)
(* with knowledge.promote, or replaces a fact that was there.               *)
THEOREM WideIsPromoted == Spec => []WideNeedsPromoter
<1>1. SpacesInv => WideNeedsPromoter
  BY DEF SpacesInv
<1>2. QED
  BY <1>1, SpacesInvariant, PTL

(* Who reads what it does not own owns the space, reads a wide one, or is a *)
(* member of it by the ledger's last word.                                  *)
THEOREM ReadersAreAdmitted == Spec => []ReadersWereAdmitted
<1>1. SpacesInv => ReadersWereAdmitted
  <2> SUFFICES ASSUME SpacesInv, NEW o \in Obj, NEW b \in Agent \ Admin,
                      CanRead(b, o), object[o].owner # b
               PROVE  \E s \in object[o].spaces :
                        \/ space[s].owner = b
                        \/ space[s].visibility >= ORGANIZATION
                        \/ LastWordIsGrant(s, b)
    BY DEF ReadersWereAdmitted
  <2>1. PICK s \in object[o].spaces : CanEnter(b, s)
    BY DEF CanRead, MayReadPlaced, IsAdmin
  <2>2. s \in Space
    BY <2>1 DEF CanRead, Exists, SpacesInv, TypeOK, Object
  <2>3. QED
    BY <2>1, <2>2 DEF CanEnter, SpacesInv, GrantInv
<1>2. QED
  BY <1>1, SpacesInvariant, PTL
-----------------------------------------------------------------------------
(* What an agent's own step can make readable to it.                        *)
Gains(b, o) == Exists(o) /\ object[o].owner # b /\ ~CanRead(b, o) /\ CanRead(b, o)'

(* Nothing is gained where the object's placements and, for the spaces it   *)
(* is in, entry are as they were.                                           *)
LEMMA NoGain ==
  ASSUME SpacesInv, NEW b \in Agent, NEW o \in Obj, Exists(o),
         object'[o].owner = object[o].owner, object'[o].spaces = object[o].spaces,
         \A s \in object[o].spaces : CanEnter(b, s)' => CanEnter(b, s)
  PROVE  ~Gains(b, o)
  BY DEF Gains, CanRead, MayReadPlaced

LEMMA SameEntry ==
  ASSUME SpacesInv, NEW b \in Agent, NEW s \in Space, Created(s), space'[s] = space[s],
         grant'[<<s, b>>] = grant[<<s, b>>]
  PROVE  CanEnter(b, s)' => CanEnter(b, s)
  BY DEF CanEnter, Created, IsMember

LEMMA PlacedWhere ==
  ASSUME SpacesInv, NEW o \in Obj, Exists(o), NEW s \in object[o].spaces
  PROVE  s \in Space /\ Created(s)
  BY DEF SpacesInv, TypeOK, PlacedInv, Exists, Object

LEMMA CreatingGainsNothing ==
  ASSUME SpacesInv, NEW b \in Agent, NEW o \in Obj, Exists(o), CreateSpace(b)
  PROVE  ~Gains(b, o)
<1>1. \A s \in Space : Created(s) => space'[s] = space[s]
  BY DEF CreateSpace, SpacesInv, TypeOK, Created
<1>2. UNCHANGED <<object, grant>>
  BY DEF CreateSpace
<1>3. \A s \in object[o].spaces : CanEnter(b, s)' => CanEnter(b, s)
  BY <1>1, <1>2, PlacedWhere, SameEntry
<1>4. QED
  BY <1>2, <1>3, NoGain

(* A step on membership gains its agent nothing: unless it administers or   *)
(* manages spaces, the space is its own.                                    *)
LEMMA MembershipGainsNothing ==
  ASSUME SpacesInv, NEW b \in Agent \ (Admin \cup Manager), NEW o \in Obj, Exists(o),
         GrantCapability(b) \/ RevokeCapability(b)
  PROVE  ~Gains(b, o)
<1>1. PICK s \in Space, c \in Agent :
        /\ ManagesSpace(b, s)
        /\ \A r \in Space : r # s => grant'[<<r, b>>] = grant[<<r, b>>]
        /\ UNCHANGED <<object, space>>
  <2>1. PICK s \in Space, c \in Agent :
          /\ ManagesSpace(b, s)
          /\ \/ grant' = [grant EXCEPT ![<<s, c>>] = [owner |-> b, active |-> TRUE]]
             \/ grant' = grant
             \/ grant' = [grant EXCEPT ![<<s, c>>] = [grant[<<s, c>>] EXCEPT !.active = FALSE]]
          /\ UNCHANGED <<object, space>>
    BY DEF GrantCapability, RevokeCapability
  <2>2. \A r \in Space : r # s => grant'[<<r, b>>] = grant[<<r, b>>]
    BY <2>1 DEF SpacesInv, TypeOK
  <2>3. QED
    BY <2>1, <2>2
<1>2. space[s].owner = b /\ Created(s) /\ SameTenant(b, space[s].owner)
  BY <1>1 DEF ManagesSpace, Loadable, IsAdmin
<1>3. ASSUME NEW r \in object[o].spaces, CanEnter(b, r)' PROVE CanEnter(b, r)
  <2>1. CASE r = s
    BY <1>1, <1>2, <1>3, <2>1 DEF CanEnter, Created
  <2>2. CASE r # s
    BY <1>1, <1>3, <2>2, PlacedWhere, SameEntry
  <2>3. QED
    BY <2>1, <2>2
<1>4. QED
  BY <1>1, <1>3, NoGain

(* A write gains its agent nothing: it leaves the placements of what        *)
(* existed alone, or the object is the agent's.                             *)
LEMMA WritingGainsNothing ==
  ASSUME SpacesInv, NEW b \in Agent \ (Admin \cup Manager), NEW o \in Obj, Exists(o),
         object[o].owner # b, WriteNew(b) \/ WriteSupersede(b) \/ WritePlacement(b)
  PROVE  ~Gains(b, o)
<1>1. UNCHANGED <<space, grant>>
  BY DEF WriteNew, WriteSupersede, WritePlacement, Finish
<1>2. object'[o].owner = object[o].owner /\ object'[o].spaces = object[o].spaces
  <2>1. CASE WriteNew(b)
    BY <2>1 DEF WriteNew, SpacesInv, TypeOK, Exists
  <2>2. CASE WriteSupersede(b)
    <3>1. PICK new \in Obj, n \in {NewObject("fact", object[call[b].obj].owner, call[b].dest)} :
            /\ ~Exists(new)
            /\ object' = [object EXCEPT
                            ![call[b].obj] = [object[call[b].obj] EXCEPT !.open = FALSE],
                            ![new] = n]
      BY <2>2 DEF WriteSupersede
    <3>2. o # new
      BY <3>1
    <3>3. object[o] \in Object
      BY DEF SpacesInv, TypeOK, Exists
    <3>4. CASE o = call[b].obj
      <4>1. object'[o] = [object[o] EXCEPT !.open = FALSE]
        BY <3>1, <3>2, <3>4 DEF SpacesInv, TypeOK
      <4>2. QED
        BY <3>3, <4>1 DEF Object
    <3>5. CASE o # call[b].obj
      BY <3>1, <3>2, <3>5 DEF SpacesInv, TypeOK
    <3>6. QED
      BY <3>4, <3>5
  <2>3. CASE WritePlacement(b)
    <3>1. call[b].obj # o
      BY <2>3 DEF WritePlacement, SpacesInv, CallInv, IsAdmin
    <3>2. QED
      BY <2>3, <3>1 DEF WritePlacement, SpacesInv, TypeOK
  <2>4. QED
    BY <2>1, <2>2, <2>3
<1>3. \A s \in object[o].spaces : CanEnter(b, s)' => CanEnter(b, s)
  BY <1>1, PlacedWhere, SameEntry
<1>4. QED
  BY <1>2, <1>3, NoGain

LEMMA IdlingGainsNothing ==
  ASSUME SpacesInv, NEW b \in Agent, NEW o \in Obj, Exists(o), UNCHANGED <<object, space, grant>>
  PROVE  ~Gains(b, o)
<1>1. \A s \in object[o].spaces : CanEnter(b, s)' => CanEnter(b, s)
  BY PlacedWhere, SameEntry
<1>2. QED
  BY <1>1, NoGain

(* The event a step appends names the agent that took it.                   *)
LEMMA ActorSigns ==
  ASSUME SpacesInv, NEW a \in Agent,
         \/ CreateSpace(a) \/ GrantCapability(a) \/ RevokeCapability(a)
         \/ WriteNew(a) \/ WriteSupersede(a) \/ WritePlacement(a)
  PROVE  ledger'[Len(ledger')].actor = a
<1>1. ledger \in Seq(Event)
  BY DEF SpacesInv, TypeOK
<1>2. \/ \E e : e.actor = a /\ ledger' = Append(ledger, e)
      \/ \E e, f : f.actor = a /\ ledger' = ledger \o <<e, f>>
  <2>1. CASE CreateSpace(a)
    BY <2>1 DEF CreateSpace, Sealed
  <2>2. CASE GrantCapability(a)
    BY <2>2 DEF GrantCapability, Sealed
  <2>3. CASE RevokeCapability(a)
    BY <2>3 DEF RevokeCapability, Sealed
  <2>4. CASE WriteNew(a)
    BY <2>4 DEF WriteNew, Sealed
  <2>5. CASE WriteSupersede(a)
    BY <2>5 DEF WriteSupersede, Sealed
  <2>6. CASE WritePlacement(a)
    BY <2>6 DEF WritePlacement, Sealed
  <2>7. QED
    BY <2>1, <2>2, <2>3, <2>4, <2>5, <2>6
<1>3. ASSUME NEW e, e.actor = a, ledger' = Append(ledger, e)
      PROVE  ledger'[Len(ledger')].actor = a
  <2>1. ledger \in Seq(Event \cup {e})
    BY <1>1
  <2>2. QED
    BY <1>3, <2>1
<1>4. CASE \E e : e.actor = a /\ ledger' = Append(ledger, e)
  BY <1>3, <1>4, Zenon
<1>5. CASE \E e, f : f.actor = a /\ ledger' = ledger \o <<e, f>>
  <2>1. PICK e, f : f.actor = a /\ ledger' = ledger \o <<e, f>>
    BY <1>5
  <2>2. ledger \in Seq(Event \cup {e, f})
    BY <1>1
  <2>3. QED
    BY <2>1, <2>2
<1>6. QED
  BY <1>2, <1>4, <1>5

(* Nobody comes to read an object by its own step, unless it owns the       *)
(* object, administers, or manages spaces.                                  *)
THEOREM NobodyIsSelfAdmitted == Spec => NobodyAdmitsThemselves
<1>1. ASSUME SpacesInv, [Next]_spaceVars,
             NEW o \in Obj, NEW b \in Agent \ (Admin \cup Manager), Gains(b, o)
      PROVE  ledger'[Len(ledger')].actor # b
  <2>1. ~UNCHANGED <<object, space, grant>> /\ Exists(o) /\ object[o].owner # b
    BY <1>1, IdlingGainsNothing DEF Gains
  <2>2. PICK a \in Agent :
          \/ CreateSpace(a) \/ GrantCapability(a) \/ RevokeCapability(a)
          \/ WriteNew(a) \/ WriteSupersede(a) \/ WritePlacement(a)
    BY <1>1, <2>1 DEF Next, spaceVars, Fail, Finish, CheckAssert, CheckClaim, CheckSupersede,
                      CheckShare, CheckPromote, Check
  <2>3. ledger'[Len(ledger')].actor = a
    BY <1>1, <2>2, ActorSigns
  <2>4. a # b
    BY <1>1, <2>1, <2>2, CreatingGainsNothing, MembershipGainsNothing, WritingGainsNothing
  <2>5. QED
    BY <2>3, <2>4
<1>2. SpacesInv /\ [Next]_spaceVars
        => [\A o \in Obj, b \in Agent \ (Admin \cup Manager) :
              Exists(o) /\ object[o].owner # b /\ ~CanRead(b, o) /\ CanRead(b, o)'
                => ledger'[Len(ledger')].actor # b]_spaceVars
  BY <1>1 DEF Gains
<1>3. QED
  BY <1>2, SpacesInvariant, PTL DEF Spec, NobodyAdmitsThemselves
-----------------------------------------------------------------------------
(* What a step can make unreadable.                                         *)
Loses(b, o) == CanRead(b, o) /\ ~CanRead(b, o)'

(* Nothing is lost where the object has a placement already, or gets none,  *)
(* and no membership of its spaces ends.                                    *)
LEMMA NoLoss ==
  ASSUME SpacesInv, Grows, NEW b \in Agent, NEW o \in Obj, Exists(o),
         object[o].spaces # {} \/ object'[o].spaces = {},
         \A s \in object[o].spaces : IsMember(s, b) => IsMember(s, b)'
  PROVE  ~Loses(b, o)
<1>1. /\ Exists(o)' /\ object'[o].owner = object[o].owner
      /\ object[o].spaces \subseteq object'[o].spaces
  BY DEF Grows
<1>2. ASSUME NEW s \in object[o].spaces, CanEnter(b, s) PROVE CanEnter(b, s)'
  <2>1. s \in Space /\ Created(s) /\ space'[s] = space[s]
    BY PlacedWhere DEF Grows
  <2>2. QED
    BY <1>2, <2>1 DEF CanEnter, Created
<1>3. QED
  BY <1>1, <1>2 DEF Loses, CanRead, MayReadPlaced

(* Where nothing existing is placed and nothing revoked, nothing is lost.   *)
LEMMA KeepingLosesNothing ==
  ASSUME SpacesInv, Grows, NEW b \in Agent, NEW o \in Obj, Exists(o),
         object'[o].spaces = object[o].spaces, UNCHANGED grant
  PROVE  ~Loses(b, o)
BY NoLoss DEF IsMember

(* Recording and correcting leave the placements of what exists alone.      *)
LEMMA WritingKeepsPlacements ==
  ASSUME SpacesInv, NEW a \in Agent, NEW o \in Obj, Exists(o), WriteNew(a) \/ WriteSupersede(a)
  PROVE  object'[o].spaces = object[o].spaces
<1>1. CASE WriteNew(a)
  BY <1>1 DEF WriteNew, SpacesInv, TypeOK, Exists
<1>2. CASE WriteSupersede(a)
  <2>1. PICK new \in Obj, n \in {NewObject("fact", object[call[a].obj].owner, call[a].dest)} :
          /\ ~Exists(new)
          /\ object' = [object EXCEPT
                          ![call[a].obj] = [object[call[a].obj] EXCEPT !.open = FALSE],
                          ![new] = n]
    BY <1>2 DEF WriteSupersede
  <2>2. o # new /\ object[o] \in Object
    BY <2>1 DEF SpacesInv, TypeOK, Exists
  <2>3. CASE o = call[a].obj
    <3>1. object'[o] = [object[o] EXCEPT !.open = FALSE]
      BY <2>1, <2>2, <2>3 DEF SpacesInv, TypeOK
    <3>2. QED
      BY <2>2, <3>1 DEF Object
  <2>4. CASE o # call[a].obj
    BY <2>1, <2>2, <2>4 DEF SpacesInv, TypeOK
  <2>5. QED
    BY <2>3, <2>4
<1>3. QED
  BY <1>1, <1>2

(* The decisions that end access.                                           *)
Placed(b, o, e) ==
  /\ object[o].owner = b /\ object[o].spaces = {}
  /\ e.op \in {"knowledge_shared", "knowledge_promoted"}
  /\ e.about = o /\ e.actor \in Admin \cup {b}

Revoked(b, o, e) ==
  e.op = "capability_revoked" /\ \E s \in object[o].spaces : e.about = <<s, b>>

LEMMA PlacementLoses ==
  ASSUME SpacesInv, Grows, NEW a \in Agent, NEW b \in Agent, NEW o \in Obj, WritePlacement(a),
         Loses(b, o)
  PROVE  Placed(b, o, ledger'[Len(ledger')])
<1>1. PICK op \in {"knowledge_shared", "knowledge_promoted"} :
        /\ call[a] # Absent /\ call[a].op \in {"share", "promote"}
        /\ object' = [object EXCEPT ![call[a].obj].spaces = @ \cup call[a].dest]
        /\ ledger' = Append(ledger, Sealed(op, a, call[a].obj, call[a].dest, NoObj))
        /\ UNCHANGED grant
  BY DEF WritePlacement, Finish
<1>2. /\ call[a].obj \in Obj /\ call[a].dest \in SUBSET Space
      /\ object[call[a].obj].owner = a \/ IsAdmin(a)
  BY <1>1 DEF SpacesInv, CallInv, TypeOK, Call
<1>3. Exists(o)
  BY DEF Loses, CanRead
<1>4. o = call[a].obj
  <2>1. CASE o # call[a].obj
    <3>1. object'[o] = object[o]
      BY <1>1, <2>1 DEF SpacesInv, TypeOK
    <3>2. QED
      BY <1>1, <1>3, <3>1, KeepingLosesNothing
  <2>2. QED
    BY <2>1
<1>5. object[o].spaces = {}
  BY <1>1, <1>3, NoLoss DEF IsMember
<1>6. object[o].owner = b /\ ~IsAdmin(b)
  <2>1. MayReadPlaced(b, object[o].owner, {})
    BY <1>5 DEF Loses, CanRead
  <2>2. ~IsAdmin(b)
    BY <1>3, <2>1 DEF Loses, CanRead, MayReadPlaced, Grows
  <2>3. QED
    BY <2>1, <2>2 DEF MayReadPlaced
<1> DEFINE e == Sealed(op, a, call[a].obj, call[a].dest, NoObj)
<1>7. e \in Event /\ e.op = op /\ e.about = call[a].obj /\ e.actor = a
  BY <1>1, <1>2, SealedType
<1> HIDE DEF e
<1>8. ledger'[Len(ledger')] = e
  BY <1>1, <1>7, OneMore DEF e
<1>9. QED
  BY <1>2, <1>4, <1>5, <1>6, <1>7, <1>8 DEF Placed, IsAdmin

LEMMA MembershipLoses ==
  ASSUME SpacesInv, Grows, NEW a \in Agent, NEW b \in Agent, NEW o \in Obj,
         GrantCapability(a) \/ RevokeCapability(a), Loses(b, o)
  PROVE  Revoked(b, o, ledger'[Len(ledger')])
<1>1. PICK s \in Space, c \in Agent, op \in {"capability_granted", "capability_revoked"} :
        /\ op = "capability_granted" =>
             grant' = [grant EXCEPT ![<<s, c>>] = [owner |-> a, active |-> TRUE]]
        /\ \A r \in Space, d \in Agent : <<r, d>> # <<s, c>> => grant'[<<r, d>>] = grant[<<r, d>>]
        /\ ledger' = Append(ledger, Sealed(op, a, <<s, c>>, {}, NoObj))
        /\ UNCHANGED <<object, space>>
  <2>1. CASE GrantCapability(a)
    BY <2>1 DEF GrantCapability, SpacesInv, TypeOK
  <2>2. CASE RevokeCapability(a)
    <3>1. PICK s \in Space, c \in Agent :
            /\ \/ grant' = grant
               \/ grant' = [grant EXCEPT ![<<s, c>>] = [grant[<<s, c>>] EXCEPT !.active = FALSE]]
            /\ ledger' = Append(ledger, Sealed("capability_revoked", a, <<s, c>>, {}, NoObj))
            /\ UNCHANGED <<object, space>>
      BY <2>2 DEF RevokeCapability
    <3>2. \A r \in Space, d \in Agent : <<r, d>> # <<s, c>> => grant'[<<r, d>>] = grant[<<r, d>>]
      BY <3>1 DEF SpacesInv, TypeOK
    <3>3. QED
      BY <3>1, <3>2
  <2>3. QED
    BY <2>1, <2>2
<1>2. Exists(o) /\ object'[o].spaces = object[o].spaces
  BY <1>1 DEF Loses, CanRead
<1>3. PICK r \in object[o].spaces : IsMember(r, b) /\ ~IsMember(r, b)'
  BY <1>2, NoLoss
<1>4. r \in Space
  BY <1>2, PlacedWhere
<1>5. r = s /\ b = c
  BY <1>1, <1>3, <1>4 DEF IsMember
<1>6. op = "capability_revoked"
  <2>1. CASE op = "capability_granted"
    <3>1. <<s, c>> \in Space \X Agent /\ [owner |-> a, active |-> TRUE] \in Grant
      BY DEF Grant
    <3>2. grant'[<<s, c>>] = [owner |-> a, active |-> TRUE]
      BY <1>1, <2>1, <3>1 DEF SpacesInv, TypeOK
    <3>3. Absent \notin Grant
      BY AbsentAssumption
    <3>4. grant'[<<s, c>>] # Absent /\ grant'[<<s, c>>].active
      <4>1. grant'[<<s, c>>] \in Grant /\ grant'[<<s, c>>].active = TRUE
        BY <3>1, <3>2
      <4>2. QED
        BY <3>3, <4>1
    <3>5. ~(grant'[<<s, c>>] # Absent /\ grant'[<<s, c>>].active)
      BY <1>3, <1>5 DEF IsMember
    <3>6. QED
      BY <3>4, <3>5
  <2>2. QED
    BY <2>1
<1> DEFINE e == Sealed(op, a, <<s, c>>, {}, NoObj)
<1>7. e \in Event /\ e.op = op /\ e.about = <<s, c>>
  BY SealedType
<1> HIDE DEF e
<1>8. ledger'[Len(ledger')] = e
  BY <1>1, <1>7, OneMore DEF e
<1>9. QED
  BY <1>3, <1>5, <1>6, <1>7, <1>8 DEF Revoked

(* What an agent could read it can read until its membership of a space of  *)
(* the object is revoked or, for an object of its own placed nowhere, until *)
(* it or an administrator places it (authz can_read_object; core share,     *)
(* promote, supersede, revoke_capability).                                  *)
THEOREM AccessEndsAsDecided == Spec => AccessEndsByDecision
<1>1. ASSUME SpacesInv, [Next]_spaceVars, NEW o \in Obj, NEW b \in Agent, Loses(b, o)
      PROVE  \/ Placed(b, o, ledger'[Len(ledger')])
             \/ Revoked(b, o, ledger'[Len(ledger')])
  <2>1. Grows /\ Exists(o)
    BY <1>1, SpacesStep DEF Extends, Loses, CanRead
  <2>2. object'[o].spaces = object[o].spaces => ~UNCHANGED grant
    BY <1>1, <2>1, KeepingLosesNothing
  <2>3. PICK a \in Agent :
          \/ GrantCapability(a) \/ RevokeCapability(a) \/ WritePlacement(a)
          \/ WriteNew(a) \/ WriteSupersede(a)
    BY <1>1, <2>2 DEF Next, spaceVars, CreateSpace, Fail, Finish, CheckAssert, CheckClaim,
                      CheckSupersede, CheckShare, CheckPromote, Check
  <2>4. ~(WriteNew(a) \/ WriteSupersede(a))
    BY <1>1, <2>1, <2>2, WritingKeepsPlacements DEF WriteNew, WriteSupersede, Finish
  <2>5. QED
    BY <1>1, <2>1, <2>3, <2>4, PlacementLoses, MembershipLoses
<1>2. SpacesInv /\ [Next]_spaceVars
        => [\A o \in Obj, b \in Agent : CanRead(b, o) /\ ~CanRead(b, o)' =>
              LET last == ledger'[Len(ledger')]
              IN  \/ /\ object[o].owner = b /\ object[o].spaces = {}
                     /\ last.op \in {"knowledge_shared", "knowledge_promoted"}
                     /\ last.about = o /\ last.actor \in Admin \cup {b}
                  \/ /\ last.op = "capability_revoked"
                     /\ \E s \in object[o].spaces : last.about = <<s, b>>]_spaceVars
  BY <1>1 DEF Loses, Placed, Revoked
<1>3. QED
  BY <1>2, SpacesInvariant, PTL DEF Spec, AccessEndsByDecision
-----------------------------------------------------------------------------
(* The feed.                                                                *)

(* Sequences of positions in the ledger.                                    *)
Sorted(s) == \A i, j \in 1 .. Len(s) : i < j => s[i] < s[j]

LEMMA Members ==
  ASSUME NEW s \in Seq(Nat), NEW x
  PROVE  x \in ToSet(s) <=> \E i \in 1 .. Len(s) : s[i] = x
  BY DEF ToSet

LEMMA MembersAreNat == ASSUME NEW s \in Seq(Nat) PROVE \A x \in ToSet(s) : x \in Nat
<1>1. \A i \in 1 .. Len(s) : s[i] \in Nat
  OBVIOUS
<1>2. QED
  BY <1>1 DEF ToSet

LEMMA NoMembers == Sorted(<< >>) /\ ToSet(<< >>) = {} /\ << >> \in Seq(Nat)
  BY DEF Sorted, ToSet

LEMMA TailOf ==
  ASSUME NEW s \in Seq(Nat), s # << >>, Sorted(s)
  PROVE  /\ Tail(s) \in Seq(Nat) /\ Sorted(Tail(s))
         /\ Head(s) \in ToSet(s) /\ Head(s) \in Nat
         /\ ToSet(s) = {Head(s)} \cup ToSet(Tail(s))
         /\ \A x \in ToSet(Tail(s)) : Head(s) < x
<1>1. /\ Tail(s) \in Seq(Nat) /\ Len(s) \in Nat \ {0} /\ Len(Tail(s)) = Len(s) - 1
      /\ Head(s) = s[1] /\ s[1] \in Nat
      /\ \A i \in 1 .. Len(s) - 1 : Tail(s)[i] = s[i + 1]
  OBVIOUS
<1>2. Sorted(Tail(s))
  BY <1>1 DEF Sorted
<1>3. Head(s) \in ToSet(s)
  BY <1>1, Members
<1>4. ASSUME NEW x \in ToSet(Tail(s)) PROVE x \in ToSet(s) /\ Head(s) < x
  <2>1. PICK i \in 1 .. Len(Tail(s)) : Tail(s)[i] = x
    BY <1>1, <1>4, Members
  <2>2. i + 1 \in 1 .. Len(s) /\ 1 \in 1 .. Len(s) /\ 1 < i + 1 /\ s[i + 1] = x
    BY <1>1, <2>1
  <2>3. QED
    BY <1>1, <2>2, Members DEF Sorted
<1>5. ASSUME NEW x \in ToSet(s), x # Head(s) PROVE x \in ToSet(Tail(s))
  <2>1. PICK i \in 1 .. Len(s) : s[i] = x
    BY <1>5, Members
  <2>2. i # 1
    BY <1>1, <1>5, <2>1
  <2>3. i - 1 \in 1 .. Len(Tail(s)) /\ Tail(s)[i - 1] = x
    BY <1>1, <2>1, <2>2
  <2>4. QED
    BY <1>1, <2>3, Members
<1>6. QED
  BY <1>1, <1>2, <1>3, <1>4, <1>5

LEMMA AppendTo ==
  ASSUME NEW s \in Seq(Nat), NEW y \in Nat, Sorted(s), \A x \in ToSet(s) : x < y
  PROVE  /\ Append(s, y) \in Seq(Nat) /\ Sorted(Append(s, y))
         /\ ToSet(Append(s, y)) = ToSet(s) \cup {y}
<1>1. /\ Append(s, y) \in Seq(Nat) /\ Len(s) \in Nat /\ Len(Append(s, y)) = Len(s) + 1
      /\ Append(s, y)[Len(s) + 1] = y
      /\ \A i \in 1 .. Len(s) : Append(s, y)[i] = s[i]
  OBVIOUS
<1>2. \A i \in 1 .. Len(s) : s[i] < y /\ s[i] \in Nat
  BY Members
<1>3. \A i : i \in 1 .. Len(Append(s, y)) <=> i \in 1 .. Len(s) \/ i = Len(s) + 1
  BY <1>1
<1>4. Sorted(Append(s, y))
  <2>1. SUFFICES ASSUME NEW i \in 1 .. Len(Append(s, y)), NEW j \in 1 .. Len(Append(s, y)), i < j
                 PROVE  Append(s, y)[i] < Append(s, y)[j]
    BY DEF Sorted
  <2>2. i \in 1 .. Len(s)
    BY <1>1, <1>3, <2>1
  <2>3. CASE j \in 1 .. Len(s)
    BY <1>1, <2>1, <2>2, <2>3 DEF Sorted
  <2>4. CASE j = Len(s) + 1
    BY <1>1, <1>2, <2>2, <2>4
  <2>5. QED
    BY <1>3, <2>3, <2>4
<1>5. ASSUME NEW x PROVE x \in ToSet(Append(s, y)) <=> x \in ToSet(s) \/ x = y
  <2>1. x \in ToSet(Append(s, y)) <=> \E i \in 1 .. Len(Append(s, y)) : Append(s, y)[i] = x
    BY <1>1, Members
  <2>2. (\E i \in 1 .. Len(Append(s, y)) : Append(s, y)[i] = x)
          <=> (\E i \in 1 .. Len(s) : s[i] = x) \/ x = y
    BY <1>1, <1>3
  <2>3. QED
    BY <2>1, <2>2, Members
<1>6. QED
  BY <1>1, <1>4, <1>5

LEMMA LastOf ==
  ASSUME NEW s \in Seq(Nat), s # << >>, Sorted(s)
  PROVE  /\ Last(s) \in ToSet(s) /\ Last(s) \in Nat
         /\ \A x \in ToSet(s) : x <= Last(s)
<1>1. Len(s) \in Nat \ {0} /\ Last(s) = s[Len(s)] /\ Len(s) \in 1 .. Len(s)
  BY DEF Last
<1>2. Last(s) \in ToSet(s) /\ Last(s) \in Nat
  BY <1>1, Members
<1>3. ASSUME NEW x \in ToSet(s) PROVE x <= Last(s)
  <2>1. PICK i \in 1 .. Len(s) : s[i] = x
    BY <1>3, Members
  <2>2. i = Len(s) \/ i < Len(s)
    BY <1>1
  <2>3. s[i] \in Nat
    OBVIOUS
  <2>4. QED
    BY <1>1, <1>2, <2>1, <2>2, <2>3 DEF Sorted
<1>4. QED
  BY <1>2, <1>3
-----------------------------------------------------------------------------
(* Every call and every event is of the tenant of what it is about, so an   *)
(* event is never held back from a viewer that may read what it is about.   *)
Attributed(r) ==
  /\ r.about \in Obj => Exists(r.about) /\ SameTenant(r.actor, object[r.about].owner)
  /\ r.about \in Space => Created(r.about) /\ SameTenant(r.actor, space[r.about].owner)
  /\ r.about \in Space \X Agent =>
       Created(r.about[1]) /\ SameTenant(r.actor, space[r.about[1]].owner)

CallTenant ==
  \A a \in Agent : call[a] # Absent /\ call[a].op \in {"supersede", "share", "promote"} =>
    SameTenant(a, object[call[a].obj].owner)

GrantTenant ==
  \A s \in Space, b \in Agent : grant[<<s, b>>] # Absent =>
    Created(s) /\ SameTenant(grant[<<s, b>>].owner, space[s].owner)

TenantInv ==
  CallTenant /\ GrantTenant /\ \A i \in 1 .. Len(ledger) : Attributed(ledger[i])

LEMMA StaysAttributed ==
  ASSUME SpacesInv, Extends, NEW r, Attributed(r) PROVE Attributed(r)'
  BY DEF Extends, Grows, Attributed, Created, Exists

LEMMA LedgerAttributed ==
  ASSUME SpacesInv, TenantInv, Extends,
         \A i \in New : \A r : r = ledger'[i] => Attributed(r)'
  PROVE  (\A i \in 1 .. Len(ledger) : Attributed(ledger[i]))'
<1>1. Len(ledger) \in Nat /\ Len(ledger') \in Nat
  BY DEF SpacesInv, TypeOK, Extends, Longer
<1>2. ASSUME NEW i \in 1 .. Len(ledger'), NEW r, r = ledger'[i] PROVE Attributed(r)'
  <2>1. CASE i \in 1 .. Len(ledger)
    <3>1. r = ledger[i] /\ Attributed(r)
      BY <1>2, <2>1 DEF TenantInv, Extends, Longer
    <3>2. QED
      BY <3>1, StaysAttributed
  <2>2. CASE i \in New
    BY <1>2, <2>2
  <2>3. QED
    BY <1>1, <2>1, <2>2 DEF New
<1>3. QED
  BY <1>2

(* The step of one call, by what it appends.                                *)
LEMMA TenantStill ==
  ASSUME SpacesInv, TenantInv, Extends, NEW a \in Agent,
         call' = call \/ call' = [call EXCEPT ![a] = Absent],
         \A s \in Space, b \in Agent : grant'[<<s, b>>] # Absent =>
           \/ grant[<<s, b>>] # Absent /\ grant'[<<s, b>>].owner = grant[<<s, b>>].owner
           \/ Created(s) /\ SameTenant(grant'[<<s, b>>].owner, space[s].owner),
         \A i \in New : \A r : r = ledger'[i] => Attributed(r)'
  PROVE  TenantInv'
<1>1. CallTenant'
  <2>1. \A b \in Agent : call'[b] # Absent => call[b] # Absent /\ call'[b] = call[b]
    BY DEF SpacesInv, TypeOK
  <2>2. QED
    BY <2>1 DEF SpacesInv, CallInv, TenantInv, CallTenant, Extends, Grows
<1>2. GrantTenant'
  <2>1. \A s \in Space : Created(s) => Created(s)' /\ space'[s] = space[s]
    BY DEF Extends, Grows, Created
  <2>2. QED
    BY <2>1 DEF TenantInv, GrantTenant, SameTenant
<1>3. QED
  BY <1>1, <1>2, LedgerAttributed DEF TenantInv

LEMMA AboutObject ==
  ASSUME SpacesInv, Extends, NEW r, r.about \in Obj,
         Exists(r.about)', SameTenant(r.actor, object'[r.about].owner)
  PROVE  Attributed(r)'
  BY IdsAssumption DEF Attributed

LEMMA TenantStep ==
  ASSUME SpacesInv, TenantInv, [Next]_spaceVars PROVE TenantInv'
<1>1. SpacesInv' /\ Extends
  BY SpacesStep
<1>2. CASE UNCHANGED spaceVars
  BY <1>2 DEF spaceVars, TenantInv, CallTenant, GrantTenant, Attributed, Exists, Created
<1>3. ASSUME NEW a \in Agent, CreateSpace(a) PROVE TenantInv'
  <2>1. PICK s \in Space, v \in Visibility :
          /\ space' = [space EXCEPT ![s] = [visibility |-> v, owner |-> a]]
          /\ ledger' = Append(ledger, Sealed("space_created", a, s, {}, NoObj))
          /\ UNCHANGED <<object, grant, call>>
    BY <1>3 DEF CreateSpace
  <2> DEFINE e == Sealed("space_created", a, s, {}, NoObj)
  <2>2. e \in Event /\ e.about = s /\ e.actor = a
    BY SealedType
  <2> HIDE DEF e
  <2>3. New = {Len(ledger) + 1} /\ ledger'[Len(ledger) + 1] = e
    BY <2>1, <2>2, OneMore DEF e
  <2>4. Created(s)' /\ space'[s].owner = a
    <3>1. space'[s] = [visibility |-> v, owner |-> a] /\ [visibility |-> v, owner |-> a] \in SpaceRecord
      BY <2>1 DEF SpacesInv, TypeOK, SpaceRecord
    <3>2. QED
      BY <3>1, AbsentAssumption DEF Created
  <2>5. Attributed(e)'
    BY <2>2, <2>4, IdsAssumption DEF Attributed, SameTenant
  <2>6. QED
    BY <1>1, <2>1, <2>3, <2>5, TenantStill
<1>4. ASSUME NEW a \in Agent, GrantCapability(a) \/ RevokeCapability(a) PROVE TenantInv'
  <2>1. PICK s \in Space, b \in Agent, op \in {"capability_granted", "capability_revoked"} :
          /\ Created(s) /\ SameTenant(a, space[s].owner)
          /\ \/ grant' = [grant EXCEPT ![<<s, b>>] = [owner |-> a, active |-> TRUE]]
             \/ grant' = grant
             \/ /\ grant[<<s, b>>] # Absent
                /\ grant' = [grant EXCEPT ![<<s, b>>] = [grant[<<s, b>>] EXCEPT !.active = FALSE]]
          /\ ledger' = Append(ledger, Sealed(op, a, <<s, b>>, {}, NoObj))
          /\ UNCHANGED <<object, space, call>>
    BY <1>4 DEF GrantCapability, RevokeCapability, ManagesSpace, Loadable
  <2> DEFINE e == Sealed(op, a, <<s, b>>, {}, NoObj)
  <2>2. e \in Event /\ e.about = <<s, b>> /\ e.actor = a
    BY SealedType
  <2> HIDE DEF e
  <2>3. New = {Len(ledger) + 1} /\ ledger'[Len(ledger) + 1] = e
    BY <2>1, <2>2, OneMore DEF e
  <2>4. Attributed(e)'
    BY <2>1, <2>2, IdsAssumption DEF Attributed, Created
  <2>5. ASSUME NEW r \in Space, NEW c \in Agent, grant'[<<r, c>>] # Absent
        PROVE  \/ grant[<<r, c>>] # Absent /\ grant'[<<r, c>>].owner = grant[<<r, c>>].owner
               \/ Created(r) /\ SameTenant(grant'[<<r, c>>].owner, space[r].owner)
    <3>1. grant \in [Space \X Agent -> Grant \cup {Absent}]
          /\ <<s, b>> \in Space \X Agent /\ <<r, c>> \in Space \X Agent
      BY DEF SpacesInv, TypeOK
    <3>2. CASE grant' = [grant EXCEPT ![<<s, b>>] = [owner |-> a, active |-> TRUE]]
      BY <2>1, <2>5, <3>1, <3>2
    <3>3. CASE grant' = grant
      BY <2>5, <3>3
    <3>4. CASE /\ grant[<<s, b>>] # Absent
               /\ grant' = [grant EXCEPT ![<<s, b>>] = [grant[<<s, b>>] EXCEPT !.active = FALSE]]
      <4>1. grant[<<s, b>>] \in Grant
        BY <3>1, <3>4
      <4>2. [grant[<<s, b>>] EXCEPT !.active = FALSE].owner = grant[<<s, b>>].owner
        BY <4>1 DEF Grant
      <4>3. QED
        BY <2>5, <3>1, <3>4, <4>2
    <3>5. QED
      BY <2>1, <3>2, <3>3, <3>4
  <2>6. QED
    BY <1>1, <2>1, <2>3, <2>4, <2>5, TenantStill
<1>5. ASSUME NEW a \in Agent, WriteNew(a) PROVE TenantInv'
  <2>1. PICK o \in Obj, kind \in {"fact", "claim"}, op \in {"fact_asserted", "claim_asserted"} :
          /\ call[a] # Absent
          /\ object' = [object EXCEPT ![o] = NewObject(kind, a, call[a].dest)]
          /\ ledger' = Append(ledger, Sealed(op, a, o, call[a].dest, NoObj))
          /\ call' = [call EXCEPT ![a] = Absent] /\ UNCHANGED <<space, grant>>
    BY <1>5 DEF WriteNew, Finish
  <2>2. call[a].dest \in SUBSET Space
    BY <2>1 DEF SpacesInv, TypeOK, Call
  <2>3. PICK e \in Event : ledger' = Append(ledger, e) /\ e.about = o /\ e.actor = a
    BY <2>1, <2>2, SealedType
  <2>4. New = {Len(ledger) + 1} /\ ledger'[Len(ledger) + 1] = e
    BY <2>3, OneMore
  <2>5. object'[o] # Absent /\ object'[o].owner = a
    <3>1. NewObject(kind, a, call[a].dest) \in Object
          /\ NewObject(kind, a, call[a].dest).owner = a
      BY <2>2 DEF NewObject, Object
    <3>2. QED
      BY <2>1, <3>1, AbsentAssumption DEF SpacesInv, TypeOK
  <2>6. Attributed(e)'
    BY <1>1, <2>3, <2>5, AboutObject DEF Exists, SameTenant
  <2>7. QED
    BY <1>1, <2>1, <2>4, <2>6, TenantStill
<1>6. ASSUME NEW a \in Agent, WriteSupersede(a) PROVE TenantInv'
  <2>1. PICK new \in Obj :
          /\ call[a] # Absent /\ call[a].op = "supersede" /\ ~Exists(new)
          /\ object' = [object EXCEPT ![call[a].obj].open = FALSE,
                                      ![new] = NewObject("fact", object[call[a].obj].owner,
                                                         call[a].dest)]
          /\ ledger' = ledger \o <<Sealed("fact_superseded", a, call[a].obj, {}, NoObj),
                                   Sealed("fact_asserted", a, new, call[a].dest, call[a].obj)>>
          /\ call' = [call EXCEPT ![a] = Absent] /\ UNCHANGED <<space, grant>>
    BY <1>6 DEF WriteSupersede, Finish
  <2>2. PICK old \in Obj : /\ old = call[a].obj /\ Exists(old) /\ old # new
                           /\ SameTenant(a, object[old].owner)
    BY <2>1 DEF SpacesInv, CallInv, TenantInv, CallTenant
  <2>3. call[a].dest \in SUBSET Space /\ object[old] \in Object
    BY <2>1, <2>2 DEF SpacesInv, TypeOK, Call, Exists
  <2>4. PICK e \in Event, f \in Event :
          /\ ledger' = ledger \o <<e, f>>
          /\ e.about = old /\ e.actor = a /\ f.about = new /\ f.actor = a
    <3> DEFINE e == Sealed("fact_superseded", a, old, {}, NoObj)
               f == Sealed("fact_asserted", a, new, call[a].dest, old)
    <3>1. /\ e \in Event /\ e.about = old /\ e.actor = a
          /\ f \in Event /\ f.about = new /\ f.actor = a
      BY <2>3, SealedType
    <3>2. ledger' = ledger \o <<e, f>>
      BY <2>1, <2>2
    <3> HIDE DEF e, f
    <3>3. QED
      BY <3>1, <3>2
  <2>5. /\ New = {Len(ledger) + 1, Len(ledger) + 2}
        /\ ledger'[Len(ledger) + 1] = e /\ ledger'[Len(ledger) + 2] = f
    BY <2>4, TwoMore
  <2> DEFINE n == NewObject("fact", object[old].owner, call[a].dest)
  <2>6. n \in Object /\ n.owner = object[old].owner
    BY <2>3 DEF NewObject, Object
  <2>7. object'[new] = n
    <3>1. object' = [object EXCEPT ![old] = [object[old] EXCEPT !.open = FALSE], ![new] = n]
      BY <2>1, <2>2
    <3> HIDE DEF n
    <3>2. QED
      BY <3>1 DEF SpacesInv, TypeOK
  <2> HIDE DEF n
  <2>8. Attributed(f)'
    <3>1. n # Absent
      BY <2>6, AbsentAssumption
    <3>2. QED
      BY <1>1, <2>2, <2>4, <2>6, <2>7, <3>1, AboutObject DEF Exists, SameTenant
  <2>9. Attributed(e)'
    BY <1>1, <2>2, <2>4, AboutObject DEF Extends, Grows, SameTenant
  <2>10. QED
    BY <1>1, <2>1, <2>5, <2>8, <2>9, TenantStill
<1>7. ASSUME NEW a \in Agent, WritePlacement(a) PROVE TenantInv'
  <2>1. PICK op \in {"knowledge_shared", "knowledge_promoted"} :
          /\ call[a] # Absent /\ call[a].op \in {"share", "promote"}
          /\ ledger' = Append(ledger, Sealed(op, a, call[a].obj, call[a].dest, NoObj))
          /\ call' = [call EXCEPT ![a] = Absent] /\ UNCHANGED <<space, grant>>
    BY <1>7 DEF WritePlacement, Finish
  <2>2. PICK o \in Obj : o = call[a].obj /\ Exists(o) /\ SameTenant(a, object[o].owner)
    BY <2>1 DEF SpacesInv, CallInv, TenantInv, CallTenant
  <2>3. call[a].dest \in SUBSET Space
    BY <2>1 DEF SpacesInv, TypeOK, Call
  <2>4. PICK e \in Event : ledger' = Append(ledger, e) /\ e.about = o /\ e.actor = a
    BY <2>1, <2>2, <2>3, SealedType
  <2>5. New = {Len(ledger) + 1} /\ ledger'[Len(ledger) + 1] = e
    BY <2>4, OneMore
  <2>6. Attributed(e)'
    BY <1>1, <2>2, <2>4, AboutObject DEF Extends, Grows, SameTenant
  <2>7. QED
    BY <1>1, <2>1, <2>5, <2>6, TenantStill
<1>8. ASSUME NEW a \in Agent, Fail(a) PROVE TenantInv'
  <2>1. New = {}
    BY <1>8 DEF Fail, New, SpacesInv, TypeOK
  <2>2. QED
    BY <1>1, <1>8, <2>1, TenantStill DEF Fail, Finish
<1>9. ASSUME NEW a \in Agent, \/ CheckAssert(a) \/ CheckClaim(a) \/ CheckSupersede(a)
                              \/ CheckShare(a) \/ CheckPromote(a)
      PROVE  TenantInv'
  <2>1. UNCHANGED <<object, space, grant, ledger>>
    BY <1>9 DEF CheckAssert, CheckClaim, CheckSupersede, CheckShare, CheckPromote, Check
  <2>2. PICK op, obj, dest :
          /\ call' = [call EXCEPT ![a] = [op |-> op, obj |-> obj, dest |-> dest]]
          /\ op \in {"supersede", "share", "promote"} => SameTenant(a, object[obj].owner)
    <3>1. CASE CheckAssert(a)
      <4>1. call' = [call EXCEPT ![a] = [op |-> "assert", obj |-> NoObj, dest |-> {}]]
        BY <3>1 DEF CheckAssert, Check
      <4> WITNESS "assert", NoObj, {}
      <4>2. QED
        BY <4>1
    <3>2. CASE CheckClaim(a)
      <4>1. PICK dest \in SUBSET Space :
              call' = [call EXCEPT ![a] = [op |-> "claim", obj |-> NoObj, dest |-> dest]]
        BY <3>2 DEF CheckClaim, Check
      <4> WITNESS "claim", NoObj, dest
      <4>2. QED
        BY <4>1
    <3>3. CASE CheckSupersede(a)
      BY <3>3 DEF CheckSupersede, Check, MayChange
    <3>4. CASE CheckShare(a)
      BY <3>4 DEF CheckShare, Check, MayChange
    <3>5. CASE CheckPromote(a)
      BY <3>5 DEF CheckPromote, Check, MayChange
    <3>6. QED
      BY <1>9, <3>1, <3>2, <3>3, <3>4, <3>5
  <2>3. CallTenant'
    <3>1. \A b \in Agent : call'[b] = IF b = a THEN [op |-> op, obj |-> obj, dest |-> dest] ELSE call[b]
      BY <2>2 DEF SpacesInv, TypeOK
    <3>2. QED
      BY <2>1, <2>2, <3>1 DEF TenantInv, CallTenant
  <2>4. QED
    BY <2>1, <2>3 DEF TenantInv, GrantTenant, Attributed, Exists, Created
<1>10. QED
  BY <1>2, <1>3, <1>4, <1>5, <1>6, <1>7, <1>8, <1>9 DEF Next
LEMMA TenantInitial == Init => TenantInv
  BY DEF Init, TenantInv, CallTenant, GrantTenant

(* An event the viewer may read, and that names its object, passes.         *)
LEMMA ReadablePasses ==
  ASSUME SpacesInv, TenantInv, NEW i \in 1 .. Len(ledger),
         RecordIsReadable(i), Concerns(ledger[i])
  PROVE  Passes(ledger[i])
<1> DEFINE r == ledger[i]
<1>1. Attributed(r) /\ r.about \in Obj \cup Space \cup (Space \X Agent) /\ r.actor \in Agent
  <2>1. ledger \in Seq(Event)
    BY DEF SpacesInv, TypeOK
  <2>2. r \in Event
    BY <2>1
  <2>3. Attributed(r)
    BY DEF TenantInv
  <2> HIDE DEF r
  <2>4. QED
    BY <2>2, <2>3 DEF Event
<1> HIDE DEF r
<1>2. SameTenant(Viewer, r.actor)
  <2>1. CASE r.about \in Obj
    BY <1>1, <2>1 DEF RecordIsReadable, MayRead, CanRead, MayReadPlaced, Attributed, SameTenant, r
  <2>2. CASE r.about \in Space
    BY <1>1, <2>2, IdsAssumption DEF RecordIsReadable, MayRead, Attributed, SameTenant, r
  <2>3. CASE r.about \in Space \X Agent
    <3>1. PICK s \in Space, b \in Agent : r.about = <<s, b>>
      BY <2>3
    <3>2. r.about \notin Obj /\ r.about \notin Space
      BY <2>3, IdsAssumption
    <3>3. grant[<<s, b>>] # Absent /\ SameTenant(Viewer, grant[<<s, b>>].owner)
      BY <3>1, <3>2 DEF RecordIsReadable, MayRead, r
    <3>4. SameTenant(grant[<<s, b>>].owner, space[s].owner)
      BY <3>3 DEF TenantInv, GrantTenant
    <3>5. SameTenant(r.actor, space[s].owner)
      BY <1>1, <2>3, <3>1 DEF Attributed
    <3>6. QED
      BY <3>3, <3>4, <3>5 DEF SameTenant
  <2>4. QED
    BY <1>1, <2>1, <2>2, <2>3
<1>3. MayRead(Viewer, ledger[i].about)
  BY DEF RecordIsReadable
<1>4. SameTenant(Viewer, ledger[i].actor)
  BY <1>2 DEF r
<1>5. QED
  BY <1>3, <1>4 DEF Passes
-----------------------------------------------------------------------------
(* Where an event is on its way, by position in the ledger: received, then  *)
(* on the wire, up to since; out, then scan, beyond it.                     *)
FeedType ==
  /\ pc \in {"poll", "filter", "send", "down"}
  /\ since \in Nat /\ since <= Len(ledger)
  /\ scan \in Seq(Nat) /\ out \in Seq(Nat) /\ wire \in Seq(Nat) /\ received \in Seq(Nat)

PhaseInv ==
  /\ pc \in {"poll", "down"} => scan = << >> /\ out = << >>
  /\ pc = "send" => scan = << >>
  /\ pc = "down" => wire = << >>

OrderInv ==
  /\ Sorted(received) /\ Sorted(wire) /\ Sorted(out) /\ Sorted(scan)
  /\ \A x \in ToSet(received) : x <= since /\ \A y \in ToSet(wire) : x < y
  /\ \A x \in ToSet(wire) : x <= since
  /\ \A x \in ToSet(out) : since < x /\ x <= Len(ledger) /\ \A y \in ToSet(scan) : x < y
  /\ \A x \in ToSet(scan) : since < x /\ x <= Len(ledger)

(* The records of a poll are consecutive.                                   *)
ScanInv == \A i \in 1 .. Len(scan) : scan[i] = Head(scan) + i - 1

(* Nothing that is due is passed over at any stage of its way.              *)
Due == {i \in stable : Concerns(ledger[i])}

StableInv == \A i \in stable : i \in 1 .. Len(ledger) /\ RecordIsReadable(i)

CoverInv ==
  \A i \in Due :
    /\ \A x \in ToSet(received) : i <= x => i \in ToSet(received)
    /\ pc # "down" /\ i <= since => i \in ToSet(received) \cup ToSet(wire)
    /\ since < i =>
         /\ \A x \in ToSet(out) : i <= x => i \in ToSet(out)
         /\ scan # << >> /\ i < Head(scan) => i \in ToSet(out)

FeedInv == FeedType /\ PhaseInv /\ OrderInv /\ ScanInv /\ StableInv /\ CoverInv

StreamInv == SpacesInv /\ TenantInv /\ FeedInv

LEMMA StreamInitial == StreamInit => StreamInv
<1> SUFFICES ASSUME StreamInit PROVE StreamInv
  OBVIOUS
<1>1. SpacesInv /\ TenantInv
  BY SpacesInit, TenantInitial DEF StreamInit
<1>2. Len(ledger) = 0
  BY DEF StreamInit, Init
<1>3. FeedInv
  BY <1>2, NoMembers DEF StreamInit, FeedInv, FeedType, PhaseInv, OrderInv, ScanInv, StableInv,
     CoverInv, Due
<1>4. QED
  BY <1>1, <1>3 DEF StreamInv

(* A step of the feed changes nothing of the spaces.                        *)
LEMMA FeedKeeps ==
  ASSUME StreamInv, UNCHANGED <<spaceVars, stable>>
  PROVE  /\ SpacesInv' /\ TenantInv' /\ StableInv'
         /\ Len(ledger) \in Nat /\ Len(ledger') = Len(ledger) /\ Due' = Due
<1>1. SpacesInv'
  BY SpacesStep DEF StreamInv
<1>2. TenantInv'
  BY TenantStep DEF StreamInv
<1>3. UNCHANGED <<object, space, grant, ledger, stable>>
  BY DEF spaceVars
<1>4. StableInv'
  BY <1>3 DEF StreamInv, FeedInv, StableInv, RecordIsReadable, MayRead, CanRead, MayReadPlaced,
     Exists, CanEnter, Created, IsMember
<1>5. Due' = Due
  BY <1>3 DEF Due, Concerns
<1>6. Len(ledger) \in Nat
  BY DEF StreamInv, SpacesInv, TypeOK
<1>7. QED
  BY <1>1, <1>2, <1>3, <1>4, <1>5, <1>6

(* What the feed has not passed is beyond all that it has taken up; so is   *)
(* what agents write.                                                       *)
LEMMA AheadIsBeyond ==
  ASSUME StreamInv, NEW i \in Nat, Ahead(i)
  PROVE  /\ \A x \in ToSet(received) : ~(i <= x)
         /\ \A x \in ToSet(out) : ~(i <= x)
         /\ pc # "down" => ~(i <= since)
         /\ scan # << >> => ~(i < Head(scan))
<1>1. /\ received \in Seq(Nat) /\ out \in Seq(Nat) /\ scan \in Seq(Nat) /\ since \in Nat
      /\ Sorted(received) /\ Sorted(out) /\ Sorted(scan)
      /\ \A x \in ToSet(received) : x <= since
  BY DEF StreamInv, FeedInv, FeedType, OrderInv
<1>2. ASSUME NEW x \in ToSet(received) PROVE ~(i <= x)
  <2>1. x \in Nat /\ x <= since
    BY <1>1, MembersAreNat
  <2>2. CASE pc = "down"
    <3>1. received # << >>
      BY NoMembers
    <3>2. x <= Last(received) /\ Last(received) \in Nat
      BY <1>1, <3>1, LastOf
    <3>3. i > Last(received)
      BY <2>2, <3>1 DEF Ahead, Resumed
    <3>4. QED
      BY <2>1, <3>2, <3>3
  <2>3. CASE pc # "down"
    BY <1>1, <2>1, <2>3 DEF Ahead
  <2>4. QED
    BY <2>2, <2>3
<1>3. ASSUME NEW x \in ToSet(out) PROVE ~(i <= x)
  <2>1. out # << >>
    BY NoMembers
  <2>2. x \in Nat /\ x <= Last(out) /\ Last(out) \in Nat
    BY <1>1, <2>1, LastOf, MembersAreNat
  <2>3. QED
    BY <2>1, <2>2 DEF Ahead
<1>4. scan # << >> => ~(i < Head(scan))
  BY <1>1 DEF Ahead
<1>5. pc # "down" => ~(i <= since)
  BY <1>1 DEF Ahead
<1>6. QED
  BY <1>2, <1>3, <1>4, <1>5

(* A write adds to what is due only events the feed has not passed.         *)
LEMMA WriteStep == ASSUME StreamInv, Write PROVE StreamInv'
<1>1. SpacesInv' /\ Extends /\ TenantInv'
  BY SpacesStep, TenantStep DEF StreamInv, Write
<1>2. Len(ledger) \in Nat /\ Len(ledger') \in Nat /\ Len(ledger) <= Len(ledger')
  BY <1>1 DEF Extends, Longer, StreamInv, SpacesInv, TypeOK
<1>3. UNCHANGED <<pc, since, scan, out, wire, received, drops>>
  BY DEF Write, streamVars
<1>4. stable' = {i \in 1 .. Len(ledger') : (i \in stable \/ Ahead(i)) /\ RecordIsReadable(i)'}
  BY DEF Write, StillStable
<1>5. StableInv'
  BY <1>2, <1>4 DEF StreamInv, FeedInv, StableInv
<1>6. ASSUME NEW i \in Due' PROVE i \in Due \/ (i \in Nat /\ Ahead(i))
  <2>1. CASE i \in stable
    <3>1. i \in 1 .. Len(ledger) /\ ledger'[i] = ledger[i]
      BY <1>1, <2>1 DEF StreamInv, FeedInv, StableInv, Extends, Longer
    <3>2. QED
      BY <1>6, <2>1, <3>1 DEF Due, Concerns
  <2>2. QED
    BY <1>4, <1>6, <2>1 DEF Due
<1>7. FeedType' /\ PhaseInv' /\ OrderInv' /\ ScanInv'
  <2>1. FeedType' /\ PhaseInv' /\ ScanInv'
    BY <1>2, <1>3 DEF StreamInv, FeedInv, FeedType, PhaseInv, ScanInv
  <2>2. \A x \in ToSet(out) \cup ToSet(scan) : x \in Nat
    BY MembersAreNat DEF StreamInv, FeedInv, FeedType
  <2>3. \A x \in ToSet(out) \cup ToSet(scan) : x <= Len(ledger')
    BY <1>2, <2>2 DEF StreamInv, FeedInv, OrderInv
  <2>4. OrderInv'
    BY <1>3, <2>3 DEF StreamInv, FeedInv, OrderInv, Sorted
  <2>5. QED
    BY <2>1, <2>4
<1>8. CoverInv'
  <2>1. ASSUME NEW i \in Due', i \notin Due
        PROVE  /\ \A x \in ToSet(received) \cup ToSet(out) : ~(i <= x)
               /\ pc # "down" => ~(i <= since)
               /\ scan # << >> => ~(i < Head(scan))
    BY <1>6, <2>1, AheadIsBeyond
  <2>2. QED
    BY <1>3, <2>1 DEF StreamInv, FeedInv, CoverInv
<1>9. QED
  BY <1>1, <1>5, <1>7, <1>8 DEF StreamInv, FeedInv
-----------------------------------------------------------------------------
(* The steps of the feed itself.                                            *)
LEMMA FeedDone ==
  ASSUME StreamInv, UNCHANGED <<spaceVars, stable>>,
         FeedType', PhaseInv', OrderInv', ScanInv', CoverInv'
  PROVE  StreamInv'
  BY FeedKeeps DEF StreamInv, FeedInv

LEMMA FromList ==
  ASSUME Len(ledger) \in Nat, NEW i \in Nat, i < Len(ledger)
  PROVE  /\ From(i) \in Seq(Nat) /\ Sorted(From(i)) /\ From(i) # << >>
         /\ Len(From(i)) = Len(ledger) - i /\ Head(From(i)) = i + 1
         /\ \A k \in 1 .. Len(From(i)) : From(i)[k] = i + k
         /\ \A x \in ToSet(From(i)) : i < x /\ x <= Len(ledger)
<1>1. Len(ledger) - i \in Nat /\ \A k \in 1 .. Len(ledger) - i : i + k \in Nat
  OBVIOUS
<1>2. /\ From(i) \in Seq(Nat) /\ Len(From(i)) = Len(ledger) - i
      /\ \A k \in 1 .. Len(From(i)) : From(i)[k] = i + k
  BY <1>1 DEF From
<1>3. From(i) # << >> /\ Head(From(i)) = i + 1
  BY <1>1, <1>2
<1>4. Sorted(From(i))
  BY <1>1, <1>2 DEF Sorted
<1>5. \A x \in ToSet(From(i)) : i < x /\ x <= Len(ledger)
  BY <1>1, <1>2, Members
<1>6. QED
  BY <1>2, <1>3, <1>4, <1>5

(* Everything up to since is accounted for when a poll starts beyond it.    *)
LEMMA PollStep == ASSUME StreamInv, Poll PROVE StreamInv'
<1>1. UNCHANGED <<spaceVars, stable, since, out, wire, received>>
      /\ pc = "poll" /\ pc' = "filter" /\ scan' = From(since) /\ out = << >>
  BY DEF Poll, StreamInv, FeedInv, PhaseInv
<1>2. since \in Nat /\ since < Len(ledger) /\ Len(ledger) \in Nat /\ Len(ledger') = Len(ledger)
      /\ Due' = Due
  BY <1>1, FeedKeeps DEF Poll, StreamInv, FeedInv, FeedType
<1>3. /\ scan' \in Seq(Nat) /\ Sorted(scan') /\ scan' # << >> /\ Head(scan') = since + 1
      /\ \A k \in 1 .. Len(scan') : scan'[k] = since + k
      /\ \A x \in ToSet(scan') : since < x /\ x <= Len(ledger)
  BY <1>1, <1>2, FromList
<1>4. FeedType' /\ PhaseInv'
  BY <1>1, <1>2, <1>3 DEF StreamInv, FeedInv, FeedType, PhaseInv
<1>5. ScanInv'
  BY <1>2, <1>3 DEF ScanInv
<1>6. OrderInv'
  <2>1. ToSet(out) = {}
    BY <1>1, NoMembers
  <2>2. QED
    BY <1>1, <1>2, <1>3, <2>1 DEF StreamInv, FeedInv, OrderInv, Sorted
<1>7. CoverInv'
  <2>1. ToSet(out) = {}
    BY <1>1, NoMembers
  <2>2. \A i \in Due : i \in Nat
    BY <1>2 DEF StreamInv, FeedInv, StableInv, Due
  <2>3. \A i \in Due : since < i => ~(i < Head(scan'))
    BY <1>2, <1>3, <2>2
  <2>4. QED
    BY <1>1, <1>2, <2>1, <2>3 DEF StreamInv, FeedInv, CoverInv
<1>8. QED
  BY <1>1, <1>4, <1>5, <1>6, <1>7, FeedDone

(* A due record is readable whenever it is looked at, so it goes out.       *)
LEMMA FilterStep == ASSUME StreamInv, Filter PROVE StreamInv'
<1>1. UNCHANGED <<spaceVars, stable, pc, since, wire, received>>
      /\ pc = "filter" /\ scan # << >> /\ scan' = Tail(scan)
  BY DEF Filter
<1>2. Len(ledger) \in Nat /\ Len(ledger') = Len(ledger) /\ Due' = Due
  BY <1>1, FeedKeeps
<1>3. PICK h : h = Head(scan)
  OBVIOUS
<1>4. /\ scan' \in Seq(Nat) /\ Sorted(scan') /\ h \in ToSet(scan) /\ h \in Nat
      /\ ToSet(scan) = {h} \cup ToSet(scan') /\ \A x \in ToSet(scan') : h < x
  BY <1>1, <1>3, TailOf DEF StreamInv, FeedInv, FeedType, OrderInv
<1>5. since \in Nat /\ since < h /\ h <= Len(ledger) /\ out \in Seq(Nat) /\ Sorted(out)
      /\ scan \in Seq(Nat) /\ \A x \in ToSet(out) : x < h
  BY <1>4 DEF StreamInv, FeedInv, FeedType, OrderInv
<1>6. \/ out' = out /\ ~Passes(ledger[h])
      \/ out' = Append(out, h)
  BY <1>3 DEF Filter
<1>7. /\ out' \in Seq(Nat) /\ Sorted(out')
      /\ ToSet(out') \subseteq ToSet(out) \cup {h} /\ ToSet(out) \subseteq ToSet(out')
      /\ Passes(ledger[h]) => h \in ToSet(out')
  <2>1. CASE out' = out /\ ~Passes(ledger[h])
    BY <1>5, <2>1
  <2>2. CASE out' = Append(out, h)
    <3>1. /\ Append(out, h) \in Seq(Nat) /\ Sorted(Append(out, h))
          /\ ToSet(Append(out, h)) = ToSet(out) \cup {h}
      BY <1>4, <1>5, AppendTo
    <3>2. QED
      BY <2>2, <3>1
  <2>3. QED
    BY <1>6, <2>1, <2>2
<1>8. FeedType' /\ PhaseInv'
  BY <1>1, <1>2, <1>4, <1>7 DEF StreamInv, FeedInv, FeedType, PhaseInv
<1>9. ScanInv' /\ (scan' # << >> => Head(scan') = h + 1)
  <2>1. /\ Len(scan) \in Nat /\ Len(scan') = Len(scan) - 1
        /\ \A i \in 1 .. Len(scan) - 1 : scan'[i] = scan[i + 1]
        /\ scan' # << >> => Head(scan') = scan'[1] /\ Len(scan') >= 1
    BY <1>1, <1>4, <1>5
  <2>2. \A i \in 1 .. Len(scan) : scan[i] = h + i - 1
    BY <1>3 DEF StreamInv, FeedInv, ScanInv
  <2>3. \A i \in 1 .. Len(scan') : scan'[i] = h + i
    BY <1>4, <2>1, <2>2
  <2>4. scan' # << >> => Head(scan') = h + 1
    BY <2>1, <2>3
  <2>5. ASSUME NEW i \in 1 .. Len(scan') PROVE scan'[i] = Head(scan') + i - 1
    BY <1>4, <2>1, <2>3, <2>4
  <2>6. QED
    BY <2>4, <2>5 DEF ScanInv
<1>10. OrderInv'
  <2>1. \A x \in ToSet(out) \cup ToSet(scan) : since < x /\ x <= Len(ledger)
    BY DEF StreamInv, FeedInv, OrderInv
  <2>2. \A x \in ToSet(out') : since < x /\ x <= Len(ledger)
    BY <1>4, <1>7, <2>1
  <2>3. \A x \in ToSet(out') : \A y \in ToSet(scan') : x < y
    BY <1>4, <1>7 DEF StreamInv, FeedInv, OrderInv
  <2>4. QED
    BY <1>1, <1>2, <1>4, <1>7, <2>1, <2>2, <2>3 DEF StreamInv, FeedInv, OrderInv, Sorted
<1>11. CoverInv'
  <2>1. h \in Due => h \in ToSet(out')
    <3>1. SUFFICES ASSUME h \in Due PROVE Passes(ledger[h])
      BY <1>7
    <3>2. h \in 1 .. Len(ledger) /\ RecordIsReadable(h) /\ Concerns(ledger[h])
      BY <3>1 DEF Due, StreamInv, FeedInv, StableInv
    <3>3. QED
      BY <3>2, ReadablePasses DEF StreamInv
  <2>2. ASSUME NEW i \in Due, since < i, NEW x \in ToSet(out'), i <= x PROVE i \in ToSet(out')
    <3>0. i \in Nat
      BY <1>2 DEF Due, StreamInv, FeedInv, StableInv
    <3>1. CASE x \in ToSet(out)
      BY <1>7, <2>2, <3>1 DEF StreamInv, FeedInv, CoverInv
    <3>2. CASE x = h /\ i < h
      BY <1>1, <1>3, <1>7, <2>2, <3>2 DEF StreamInv, FeedInv, CoverInv
    <3>3. CASE x = h /\ i = h
      BY <2>1, <3>3
    <3>4. QED
      BY <1>4, <1>7, <2>2, <3>0, <3>1, <3>2, <3>3
  <2>3. ASSUME NEW i \in Due, since < i, scan' # << >>, i < Head(scan') PROVE i \in ToSet(out')
    <3>0. i \in Nat
      BY <1>2 DEF Due, StreamInv, FeedInv, StableInv
    <3>1. i < h \/ i = h
      BY <1>4, <1>9, <2>3, <3>0
    <3>2. CASE i < h
      BY <1>1, <1>3, <1>7, <2>3, <3>2 DEF StreamInv, FeedInv, CoverInv
    <3>3. QED
      BY <2>1, <2>3, <3>1, <3>2
  <2>4. QED
    BY <1>1, <1>2, <2>2, <2>3 DEF StreamInv, FeedInv, CoverInv
<1>12. QED
  BY <1>1, <1>8, <1>9, <1>10, <1>11, FeedDone

LEMMA EndFilterStep == ASSUME StreamInv, EndFilter PROVE StreamInv'
<1>1. UNCHANGED <<spaceVars, stable, since, out, wire, received>>
      /\ pc = "filter" /\ pc' = "send" /\ scan' = << >>
  BY DEF EndFilter
<1>2. Len(ledger) \in Nat /\ Len(ledger') = Len(ledger) /\ Due' = Due
  BY <1>1, FeedKeeps
<1>3. FeedType' /\ PhaseInv' /\ ScanInv'
  BY <1>1, <1>2 DEF StreamInv, FeedInv, FeedType, PhaseInv, ScanInv
<1>4. OrderInv'
  BY <1>1, <1>2, NoMembers DEF StreamInv, FeedInv, OrderInv, Sorted
<1>5. CoverInv'
  BY <1>1, <1>2 DEF StreamInv, FeedInv, CoverInv
<1>6. QED
  BY <1>1, <1>3, <1>4, <1>5, FeedDone

(* The cursor moves over the records that did not pass, none of them due.   *)
LEMMA SendStep == ASSUME StreamInv, Send PROVE StreamInv'
<1>1. UNCHANGED <<spaceVars, stable, pc, scan, received>>
      /\ pc = "send" /\ out # << >> /\ out' = Tail(out) /\ scan = << >>
  BY DEF Send, StreamInv, FeedInv, PhaseInv
<1>2. Len(ledger) \in Nat /\ Len(ledger') = Len(ledger) /\ Due' = Due
  BY <1>1, FeedKeeps
<1>3. PICK h : h = Head(out) /\ since' = h /\ wire' = Append(wire, h)
  BY DEF Send
<1>4. /\ out' \in Seq(Nat) /\ Sorted(out') /\ h \in ToSet(out) /\ h \in Nat
      /\ ToSet(out) = {h} \cup ToSet(out') /\ \A x \in ToSet(out') : h < x
  BY <1>1, <1>3, TailOf DEF StreamInv, FeedInv, FeedType, OrderInv
<1>5. /\ since \in Nat /\ since < h /\ h <= Len(ledger)
      /\ wire \in Seq(Nat) /\ Sorted(wire) /\ received \in Seq(Nat)
  BY <1>4 DEF StreamInv, FeedInv, FeedType, OrderInv
<1>6. /\ \A x \in ToSet(wire) : x <= since /\ x \in Nat
      /\ \A x \in ToSet(received) : x <= since /\ x \in Nat /\ \A y \in ToSet(wire) : x < y
  BY <1>5, Members DEF StreamInv, FeedInv, OrderInv
<1>7. /\ wire' \in Seq(Nat) /\ Sorted(wire') /\ ToSet(wire') = ToSet(wire) \cup {h}
  <2>1. \A x \in ToSet(wire) : x < h
    BY <1>4, <1>5, <1>6
  <2>2. QED
    BY <1>3, <1>4, <1>5, <2>1, AppendTo
<1>8. FeedType' /\ PhaseInv' /\ ScanInv'
  BY <1>1, <1>2, <1>3, <1>4, <1>5, <1>7 DEF StreamInv, FeedInv, FeedType, PhaseInv, ScanInv
<1>9. OrderInv'
  <2>1. \A x \in ToSet(received) : x <= since' /\ \A y \in ToSet(wire') : x < y
    BY <1>3, <1>4, <1>5, <1>6, <1>7
  <2>2. \A x \in ToSet(wire') : x <= since'
    BY <1>3, <1>4, <1>5, <1>6, <1>7
  <2>3. \A x \in ToSet(out') : since' < x /\ x <= Len(ledger)
    BY <1>3, <1>4 DEF StreamInv, FeedInv, OrderInv
  <2>4. Sorted(received) /\ ToSet(scan) = {} /\ Sorted(scan)
    BY <1>1, NoMembers DEF StreamInv, FeedInv, OrderInv
  <2>5. QED
    BY <1>1, <1>2, <1>4, <1>7, <2>1, <2>2, <2>3, <2>4 DEF OrderInv, Sorted
<1>10. CoverInv'
  <2>1. ASSUME NEW i \in Due, i <= since' PROVE i \in ToSet(received) \cup ToSet(wire')
    <3>0. i \in Nat
      BY <1>2 DEF Due, StreamInv, FeedInv, StableInv
    <3>1. CASE i <= since
      BY <1>1, <1>7, <3>1 DEF StreamInv, FeedInv, CoverInv
    <3>2. CASE since < i
      <4>1. i \in ToSet(out)
        BY <1>3, <1>4, <2>1, <3>2 DEF StreamInv, FeedInv, CoverInv
      <4>2. i = h
        BY <1>3, <1>4, <2>1, <3>0, <4>1
      <4>3. QED
        BY <1>7, <4>2
    <3>3. QED
      BY <1>5, <3>0, <3>1, <3>2
  <2>2. ASSUME NEW i \in Due, since' < i, NEW x \in ToSet(out'), i <= x PROVE i \in ToSet(out')
    <3>0. i \in Nat
      BY <1>2 DEF Due, StreamInv, FeedInv, StableInv
    <3>1. since < i /\ i # h
      BY <1>3, <1>4, <1>5, <2>2, <3>0
    <3>2. i \in ToSet(out)
      BY <1>4, <2>2, <3>1 DEF StreamInv, FeedInv, CoverInv
    <3>3. QED
      BY <1>4, <3>1, <3>2
  <2>3. QED
    BY <1>1, <1>2, <2>1, <2>2 DEF StreamInv, FeedInv, CoverInv
<1>11. QED
  BY <1>1, <1>8, <1>9, <1>10, FeedDone

LEMMA EndSendStep == ASSUME StreamInv, EndSend PROVE StreamInv'
<1>1. UNCHANGED <<spaceVars, stable, since, scan, out, wire, received>>
      /\ pc = "send" /\ pc' = "poll" /\ out = << >> /\ scan = << >>
  BY DEF EndSend, StreamInv, FeedInv, PhaseInv
<1>2. Len(ledger') = Len(ledger) /\ Due' = Due
  BY <1>1, FeedKeeps
<1>3. FeedType' /\ PhaseInv' /\ ScanInv' /\ OrderInv'
  BY <1>1, <1>2 DEF StreamInv, FeedInv, FeedType, PhaseInv, ScanInv, OrderInv, Sorted
<1>4. CoverInv'
  BY <1>1, <1>2 DEF StreamInv, FeedInv, CoverInv
<1>5. QED
  BY <1>1, <1>3, <1>4, FeedDone

(* The wire keeps the order, so nothing due is still on it behind what the  *)
(* browser reads.                                                           *)
LEMMA ReceiveStep == ASSUME StreamInv, Receive PROVE StreamInv'
<1>1. UNCHANGED <<spaceVars, stable, pc, since, scan, out>>
      /\ wire # << >> /\ wire' = Tail(wire) /\ pc # "down"
  BY DEF Receive, StreamInv, FeedInv, PhaseInv
<1>2. Len(ledger') = Len(ledger) /\ Due' = Due /\ Len(ledger) \in Nat
  BY <1>1, FeedKeeps
<1>3. PICK h : h = Head(wire) /\ received' = Append(received, h)
  BY DEF Receive
<1>4. /\ wire' \in Seq(Nat) /\ Sorted(wire') /\ h \in ToSet(wire) /\ h \in Nat
      /\ ToSet(wire) = {h} \cup ToSet(wire') /\ \A x \in ToSet(wire') : h < x
  BY <1>1, <1>3, TailOf DEF StreamInv, FeedInv, FeedType, OrderInv
<1>5. /\ received \in Seq(Nat) /\ Sorted(received) /\ since \in Nat /\ h <= since
      /\ \A x \in ToSet(received) : x < h
  BY <1>4 DEF StreamInv, FeedInv, FeedType, OrderInv
<1>6. /\ received' \in Seq(Nat) /\ Sorted(received') /\ ToSet(received') = ToSet(received) \cup {h}
  BY <1>3, <1>4, <1>5, AppendTo
<1>7. FeedType' /\ PhaseInv' /\ ScanInv'
  BY <1>1, <1>2, <1>4, <1>6 DEF StreamInv, FeedInv, FeedType, PhaseInv, ScanInv
<1>8. OrderInv'
  <2>1. \A x \in ToSet(received') : x <= since /\ \A y \in ToSet(wire') : x < y
    BY <1>4, <1>5, <1>6 DEF StreamInv, FeedInv, OrderInv
  <2>2. \A x \in ToSet(wire') : x <= since
    BY <1>4 DEF StreamInv, FeedInv, OrderInv
  <2>3. QED
    BY <1>1, <1>2, <1>4, <1>6, <2>1, <2>2 DEF StreamInv, FeedInv, OrderInv, Sorted
<1>9. CoverInv'
  <2>1. ASSUME NEW i \in Due, NEW x \in ToSet(received'), i <= x PROVE i \in ToSet(received')
    <3>0. i \in Nat
      BY <1>2 DEF Due, StreamInv, FeedInv, StableInv
    <3>1. CASE x \in ToSet(received)
      BY <1>6, <2>1, <3>1 DEF StreamInv, FeedInv, CoverInv
    <3>2. CASE x = h
      <4>1. i <= since
        BY <1>4, <1>5, <2>1, <3>0, <3>2
      <4>2. i \in ToSet(received) \cup ToSet(wire)
        BY <1>1, <4>1 DEF StreamInv, FeedInv, CoverInv
      <4>3. i \notin ToSet(wire')
        BY <1>4, <2>1, <3>0, <3>2
      <4>4. QED
        BY <1>4, <1>6, <4>2, <4>3
    <3>3. QED
      BY <1>6, <2>1, <3>1, <3>2
  <2>2. ToSet(received') \cup ToSet(wire') = ToSet(received) \cup ToSet(wire)
    BY <1>4, <1>6
  <2>3. QED
    BY <1>1, <1>2, <2>1, <2>2 DEF StreamInv, FeedInv, CoverInv
<1>10. QED
  BY <1>1, <1>7, <1>8, <1>9, FeedDone

(* What a break loses is taken up again from the last event received.       *)
LEMMA DropStep == ASSUME StreamInv, Drop PROVE StreamInv'
<1>1. UNCHANGED <<spaceVars, stable, since, received>>
      /\ pc' = "down" /\ scan' = << >> /\ out' = << >> /\ wire' = << >>
  BY DEF Drop
<1>2. Len(ledger') = Len(ledger) /\ Due' = Due
  BY <1>1, FeedKeeps
<1>3. FeedType' /\ PhaseInv' /\ ScanInv'
  BY <1>1, <1>2 DEF StreamInv, FeedInv, FeedType, PhaseInv, ScanInv
<1>4. OrderInv' /\ ToSet(out') = {}
  BY <1>1, <1>2, NoMembers DEF StreamInv, FeedInv, OrderInv, Sorted
<1>5. CoverInv'
  BY <1>1, <1>2, <1>4 DEF StreamInv, FeedInv, CoverInv
<1>6. QED
  BY <1>1, <1>3, <1>4, <1>5, FeedDone

LEMMA ReconnectStep == ASSUME StreamInv, Reconnect PROVE StreamInv'
<1>1. UNCHANGED <<spaceVars, stable, scan, out, wire, received>>
      /\ pc = "down" /\ pc' = "poll"
      /\ scan = << >> /\ out = << >> /\ wire = << >>
      /\ since' = IF received = << >> THEN 0 ELSE Last(received)
  BY DEF Reconnect, Resumed, StreamInv, FeedInv, PhaseInv
<1>2. Len(ledger') = Len(ledger) /\ Due' = Due /\ Len(ledger) \in Nat
  BY <1>1, FeedKeeps
<1>3. ToSet(scan) = {} /\ ToSet(out) = {} /\ ToSet(wire) = {}
  BY <1>1, NoMembers
<1>4. received \in Seq(Nat) /\ Sorted(received) /\ since \in Nat /\ since <= Len(ledger)
      /\ \A x \in ToSet(received) : x <= since
  BY DEF StreamInv, FeedInv, FeedType, OrderInv
<1>5. /\ since' \in Nat /\ since' <= Len(ledger)
      /\ \A x \in ToSet(received) : x <= since'
      /\ since' = 0 \/ since' \in ToSet(received)
  <2>1. CASE received = << >>
    BY <1>1, <1>2, <2>1, NoMembers
  <2>2. CASE received # << >>
    BY <1>1, <1>2, <1>4, <2>2, LastOf
  <2>3. QED
    BY <2>1, <2>2
<1>6. FeedType' /\ PhaseInv' /\ ScanInv'
  BY <1>1, <1>2, <1>5 DEF StreamInv, FeedInv, FeedType, PhaseInv, ScanInv
<1>7. OrderInv'
  BY <1>1, <1>2, <1>3, <1>5 DEF StreamInv, FeedInv, OrderInv, Sorted
<1>8. CoverInv'
  <2>1. \A i \in Due : i \in Nat /\ i >= 1
    BY <1>2 DEF Due, StreamInv, FeedInv, StableInv
  <2>2. \A i \in Due : i <= since' => i \in ToSet(received)
    BY <1>5, <2>1 DEF StreamInv, FeedInv, CoverInv
  <2>3. QED
    BY <1>1, <1>2, <1>3, <2>2 DEF StreamInv, FeedInv, CoverInv
<1>9. QED
  BY <1>1, <1>6, <1>7, <1>8, FeedDone

LEMMA StreamStep == ASSUME StreamInv, [StreamNext]_vars PROVE StreamInv'
<1>1. CASE UNCHANGED vars
  <2>1. UNCHANGED <<spaceVars, stable, pc, since, scan, out, wire, received>>
    BY <1>1 DEF vars, streamVars
  <2>2. Len(ledger') = Len(ledger) /\ Due' = Due
    BY <2>1, FeedKeeps
  <2>3. FeedType' /\ PhaseInv' /\ ScanInv' /\ OrderInv'
    BY <2>1, <2>2 DEF StreamInv, FeedInv, FeedType, PhaseInv, ScanInv, OrderInv, Sorted
  <2>4. CoverInv'
    BY <2>1, <2>2 DEF StreamInv, FeedInv, CoverInv
  <2>5. QED
    BY <2>1, <2>3, <2>4, FeedDone
<1>2. QED
  BY <1>1, WriteStep, PollStep, FilterStep, EndFilterStep, SendStep, EndSendStep, ReceiveStep,
     DropStep, ReconnectStep DEF StreamNext, Feed
-----------------------------------------------------------------------------
(* The invariant of the feed beside the agents that write: where the cursor *)
(* is, every due event up to it is with the browser or on the wire, and     *)
(* every due one beyond it is out or still to be looked at.                 *)
THEOREM StreamInvariant == StreamSpec => []StreamInv
<1>1. StreamInit => StreamInv
  BY StreamInitial
<1>2. StreamInv /\ [StreamNext]_vars => StreamInv'
  BY StreamStep
<1>3. QED
  BY <1>1, <1>2, PTL DEF StreamSpec

(* The browser gets events in ledger order and none twice, whatever is      *)
(* written meanwhile and wherever its connection breaks.                    *)
THEOREM FeedIsInOrder == StreamSpec => []InOrderOnce
<1>1. StreamInv => InOrderOnce
  BY DEF StreamInv, FeedInv, OrderInv, Sorted, InOrderOnce
<1>2. QED
  BY <1>1, StreamInvariant, PTL

(* No event that was readable before the feed passed it, and is since, is   *)
(* skipped.                                                                 *)
THEOREM FeedHasNoGap == StreamSpec => []NoGap
<1>1. ASSUME StreamInv PROVE NoGap
  <2>1. SUFFICES ASSUME received # << >>, NEW i \in stable, i < Last(received), Concerns(ledger[i])
                 PROVE  i \in ToSet(received)
    BY DEF NoGap
  <2>2. Last(received) \in ToSet(received) /\ Last(received) \in Nat
    BY <1>1, <2>1, LastOf DEF StreamInv, FeedInv, FeedType, OrderInv
  <2>3. i \in Due /\ i \in Nat
    BY <1>1, <2>1, FeedKeeps DEF Due, StreamInv, FeedInv, StableInv, SpacesInv, TypeOK
  <2>4. QED
    BY <1>1, <2>1, <2>2, <2>3 DEF StreamInv, FeedInv, CoverInv
<1>2. QED
  BY <1>1, StreamInvariant, PTL
=============================================================================
