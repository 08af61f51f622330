---------------------------- MODULE ContextProofs ----------------------------
(***************************************************************************)
(* Proofs about ContextEnvelope, for any objects, tokens and bounds.        *)
(***************************************************************************)
EXTENDS ContextEnvelope, TLAPS

(* What the reader may read now lies between what it could read all the     *)
(* time and what it could read at some time.                                *)
Witness(call) == Readable \subseteq call.seen /\ call.steady \subseteq Readable

BuildShape(b) ==
  \/ b = Idle
  \/ DOMAIN b = {"stage", "collapse", "left", "objs", "seen", "steady"} /\ b.stage = "fetch"
  \/ /\ DOMAIN b = {"stage", "objs", "groups", "left", "pinned", "seen", "steady"}
     /\ b.stage = "pinning"
  \/ /\ DOMAIN b = {"stage", "objs", "groups", "items", "seen", "steady", "believed",
                    "incomplete"}
     /\ b.stage = "done"

(* Groups fold what was read; there is at most one of duplicates.           *)
GroupsOK(groups, read) ==
  \A g \in groups :
    /\ g.kind \in {"history", "duplicate"}
    /\ g.collapsed \subseteq read
    /\ g.kind = "duplicate" =>
         /\ g.canonical \in read /\ g.canonical \notin g.collapsed
         /\ \A h \in groups : h.kind = "duplicate" => h = g

ReadContradictions(objs) == {o \in DOMAIN objs : Contradicts(objs, o)}
LinkedTo(objs) == UNION {objs[c].disputedBy : c \in DOMAIN objs \cap Claim}

FetchInv(b) == Witness(b) /\ DOMAIN b.objs \subseteq b.seen

(* A contradiction is pinned, still to be read, or was unreadable at a time. *)
PinningInv(b) ==
  /\ FetchInv(b)
  /\ GroupsOK(b.groups, DOMAIN b.objs)
  /\ b.pinned \subseteq b.seen
  /\ b.steady \cap (ReadContradictions(b.objs) \cup LinkedTo(b.objs))
       \subseteq b.pinned \cup b.left

HonestEnvelope(b) ==
  ~b.incomplete =>
    \A o \in DOMAIN b.objs :
      \/ o \in b.items
      \/ \E g \in b.groups : g.kind = "duplicate" /\ o \in g.collapsed /\ g.canonical \in b.items

DoneInv(b) ==
  /\ b.items \cup Folded(b.groups) \subseteq b.seen
  /\ b.steady \cap (ReadContradictions(b.objs) \cup LinkedTo(b.objs)) \subseteq b.items
  /\ HonestEnvelope(b)

BuildInv ==
  /\ BuildShape(build)
  /\ build.stage = "fetch" => FetchInv(build)
  /\ build.stage = "pinning" => PinningInv(build)
  /\ build.stage = "done" => DoneInv(build)

RedeemShape(r) ==
  \/ r = Idle
  \/ DOMAIN r = {"stage", "by", "of", "left", "members", "seen", "steady"} /\ r.stage = "members"
  \/ /\ DOMAIN r = {"stage", "by", "of", "members", "complete", "seen", "steady"}
     /\ r.stage = "done"

(* Every member was read while readable, or could not be read at some time. *)
AskedInv(r) ==
  /\ Witness(r)
  /\ r.by = r.of.by
  /\ r.members \subseteq r.seen
  /\ (r.of.members \ r.left) \cap r.steady \subseteq r.members

AnsweredInv(r) ==
  /\ r.members \subseteq r.seen
  /\ r.members # {} => r.by = r.of.by
  /\ r.complete => r.members = r.of.members
  /\ r.of # Absent /\ r.of.by = r.by => r.of.members \cap r.steady \subseteq r.members

RedeemInv ==
  /\ RedeemShape(redeem)
  /\ redeem.stage = "members" => AskedInv(redeem)
  /\ redeem.stage = "done" => AnsweredInv(redeem)
-----------------------------------------------------------------------------
(* A move of others widens what was seen and narrows what is steady.        *)
LEMMA WitnessedFields ==
  ASSUME NEW call, {"seen", "steady"} \subseteq DOMAIN call, NEW readable
  PROVE  /\ DOMAIN Witnessed(call, readable) = DOMAIN call
         /\ Witnessed(call, readable).seen = call.seen \cup readable
         /\ Witnessed(call, readable).steady = call.steady \cap readable
         /\ \A x \in DOMAIN call \ {"seen", "steady"} :
              Witnessed(call, readable)[x] = call[x]
  BY DEF Witnessed

LEMMA BuildMove ==
  ASSUME BuildInv, build' = Witnessed(build, Readable')
  PROVE  BuildInv'
<1>1. CASE build = Idle
  BY <1>1 DEF BuildInv, BuildShape, Witnessed, Idle
<1>2. CASE build.stage = "fetch" /\ build # Idle
  <2>1. DOMAIN build = {"stage", "collapse", "left", "objs", "seen", "steady"}
    BY <1>2 DEF BuildInv, BuildShape
  <2>2. /\ build'.stage = "fetch" /\ DOMAIN build' = DOMAIN build
        /\ build'.seen = build.seen \cup Readable' /\ build'.steady = build.steady \cap Readable'
        /\ build'.objs = build.objs
    BY <1>2, <2>1, WitnessedFields
  <2>3. QED
    BY <1>2, <2>1, <2>2 DEF BuildInv, BuildShape, FetchInv, Witness
<1>3. CASE build.stage = "pinning" /\ build # Idle
  <2>1. DOMAIN build = {"stage", "objs", "groups", "left", "pinned", "seen", "steady"}
    BY <1>3 DEF BuildInv, BuildShape
  <2>2. /\ build'.stage = "pinning" /\ DOMAIN build' = DOMAIN build
        /\ build'.seen = build.seen \cup Readable' /\ build'.steady = build.steady \cap Readable'
        /\ build'.objs = build.objs /\ build'.groups = build.groups
        /\ build'.pinned = build.pinned /\ build'.left = build.left
    BY <1>3, <2>1, WitnessedFields
  <2>3. PinningInv(build)
    BY <1>3 DEF BuildInv
  <2>4. PinningInv(build)'
    BY <2>2, <2>3 DEF PinningInv, FetchInv, Witness, GroupsOK, Folded,
                      ReadContradictions, LinkedTo, Contradicts
  <2>5. QED
    BY <1>3, <2>1, <2>2, <2>4 DEF BuildInv, BuildShape
<1>4. CASE build.stage = "done" /\ build # Idle
  <2>1. DOMAIN build = {"stage", "objs", "groups", "items", "seen", "steady", "believed",
                        "incomplete"}
    BY <1>4 DEF BuildInv, BuildShape
  <2>2. /\ build'.stage = "done" /\ DOMAIN build' = DOMAIN build
        /\ build'.seen = build.seen \cup Readable' /\ build'.steady = build.steady \cap Readable'
        /\ build'.objs = build.objs /\ build'.groups = build.groups
        /\ build'.items = build.items /\ build'.incomplete = build.incomplete
    BY <1>4, <2>1, WitnessedFields
  <2>3. DoneInv(build)'
    BY <1>4, <2>2 DEF BuildInv, DoneInv, HonestEnvelope, Folded, ReadContradictions,
                             LinkedTo, Contradicts
  <2>4. QED
    BY <1>4, <2>1, <2>2, <2>3 DEF BuildInv, BuildShape
<1>5. QED
  BY <1>1, <1>2, <1>3, <1>4 DEF BuildInv, BuildShape

LEMMA RedeemMove ==
  ASSUME RedeemInv, redeem' = Witnessed(redeem, Readable')
  PROVE  RedeemInv'
<1>1. CASE redeem = Idle
  BY <1>1 DEF RedeemInv, RedeemShape, Witnessed, Idle
<1>2. CASE redeem.stage = "members" /\ redeem # Idle
  <2>1. DOMAIN redeem = {"stage", "by", "of", "left", "members", "seen", "steady"}
    BY <1>2 DEF RedeemInv, RedeemShape
  <2>2. /\ redeem'.stage = "members" /\ DOMAIN redeem' = DOMAIN redeem
        /\ redeem'.seen = redeem.seen \cup Readable' /\ redeem'.steady = redeem.steady \cap Readable'
        /\ redeem'.by = redeem.by /\ redeem'.of = redeem.of
        /\ redeem'.left = redeem.left /\ redeem'.members = redeem.members
    BY <1>2, <2>1, WitnessedFields
  <2>3. QED
    BY <1>2, <2>1, <2>2 DEF RedeemInv, RedeemShape, AskedInv, Witness
<1>3. CASE redeem.stage = "done" /\ redeem # Idle
  <2>1. DOMAIN redeem = {"stage", "by", "of", "members", "complete", "seen", "steady"}
    BY <1>3 DEF RedeemInv, RedeemShape
  <2>2. /\ redeem'.stage = "done" /\ DOMAIN redeem' = DOMAIN redeem
        /\ redeem'.seen = redeem.seen \cup Readable' /\ redeem'.steady = redeem.steady \cap Readable'
        /\ redeem'.by = redeem.by /\ redeem'.of = redeem.of
        /\ redeem'.members = redeem.members /\ redeem'.complete = redeem.complete
    BY <1>3, <2>1, WitnessedFields
  <2>3. QED
    BY <1>3, <2>1, <2>2 DEF RedeemInv, RedeemShape, AnsweredInv
<1>4. QED
  BY <1>1, <1>2, <1>3 DEF RedeemInv, RedeemShape
-----------------------------------------------------------------------------
(* Whatever _collapse chooses, it folds only what was read, and the copy    *)
(* that stands for the duplicates is not folded itself.                     *)
LEMMA FoldingsAreGroups ==
  ASSUME NEW objs, NEW collapse, NEW groups \in Foldings(objs, collapse)
  PROVE  GroupsOK(groups, DOMAIN objs)
<1> DEFINE stmts == IF collapse THEN Versions(objs) ELSE {}
           dups == Duplicates(objs)
           one(e) == [kind |-> "duplicate", canonical |-> e, collapsed |-> dups \ {e}]
<1>1. ASSUME NEW vs \in stmts, NEW g \in Histories(objs, vs)
      PROVE  g.kind = "history" /\ g.collapsed \subseteq DOMAIN objs
  <2>1. vs \subseteq DOMAIN objs
    BY <1>1 DEF Versions
  <2>2. QED
    BY <1>1, <2>1 DEF Histories
<1>2. PICK gs \in SUBSET UNION {Histories(objs, vs) : vs \in stmts} :
        groups = gs \/ \E e \in dups : groups = gs \cup {one(e)}
  BY DEF Foldings
<1>3. \A g \in gs : g.kind = "history" /\ g.collapsed \subseteq DOMAIN objs
  BY <1>1
<1>4. CASE groups = gs
  BY <1>3, <1>4 DEF GroupsOK
<1>5. ASSUME NEW e \in dups, groups = gs \cup {one(e)} PROVE GroupsOK(groups, DOMAIN objs)
  <2>1. /\ one(e).kind = "duplicate" /\ one(e).collapsed \subseteq DOMAIN objs
        /\ one(e).canonical \in DOMAIN objs /\ one(e).canonical \notin one(e).collapsed
    BY DEF Duplicates
  <2>2. QED
    BY <1>3, <1>5, <2>1 DEF GroupsOK
<1>6. QED
  BY <1>2, <1>4, <1>5

LEMMA SameReadable == UnchangedWorld => Readable' = Readable
  BY DEF UnchangedWorld, Readable, Exists

LEMMA SearchStep ==
  ASSUME BuildInv, Search PROVE BuildInv'
<1>1. PICK unmatched \in SUBSET (Evidence \cap Readable),
           collapse \in {MayCollapse(active) : active \in SUBSET Marker} :
        build' = [stage |-> "fetch", collapse |-> collapse,
                  left |-> Readable \ unmatched, objs |-> << >>,
                  seen |-> Readable, steady |-> Readable]
  BY DEF Search
<1>2. /\ DOMAIN build' = {"stage", "collapse", "left", "objs", "seen", "steady"}
      /\ build'.stage = "fetch" /\ build'.objs = << >>
      /\ build'.seen = Readable /\ build'.steady = Readable
  BY <1>1
<1>3. Readable' = Readable
  BY SameReadable DEF Search
<1>4. DOMAIN << >> = {}
  OBVIOUS
<1>5. QED
  BY <1>2, <1>3, <1>4 DEF BuildInv, BuildShape, FetchInv, Witness

LEMMA FetchStep ==
  ASSUME BuildInv, Fetch PROVE BuildInv'
<1>1. /\ DOMAIN build = {"stage", "collapse", "left", "objs", "seen", "steady"}
      /\ build.stage = "fetch" /\ FetchInv(build)
  BY DEF BuildInv, BuildShape, Fetch, Idle
<1>2. PICK some \in SUBSET build.left \ {{}} :
        build' = [build EXCEPT !.left = build.left \ some,
                    !.objs = [o \in DOMAIN build.objs \cup (some \cap Readable) |->
                                IF o \in DOMAIN build.objs THEN build.objs[o] ELSE object[o]]]
  BY DEF Fetch
<1>3. /\ DOMAIN build' = DOMAIN build /\ build'.stage = "fetch"
      /\ DOMAIN build'.objs = DOMAIN build.objs \cup (some \cap Readable)
      /\ build'.seen = build.seen /\ build'.steady = build.steady
  BY <1>1, <1>2
<1>4. Readable' = Readable
  BY SameReadable DEF Fetch
<1>5. QED
  BY <1>1, <1>3, <1>4 DEF BuildInv, BuildShape, FetchInv, Witness

LEMMA FoldStep ==
  ASSUME BuildInv, Fold PROVE BuildInv'
<1>1. build.stage = "fetch" /\ FetchInv(build)
  BY DEF BuildInv, Fold
<1> DEFINE objs == build.objs
<1>2. PICK groups \in Foldings(objs, build.collapse) :
        build' = [stage |-> "pinning", objs |-> objs, groups |-> groups,
                  left |-> Linked(objs, groups) \ ReadContradictions(objs),
                  pinned |-> ReadContradictions(objs),
                  seen |-> build.seen, steady |-> build.steady]
  BY DEF Fold, ReadContradictions
<1>3. /\ DOMAIN build' = {"stage", "objs", "groups", "left", "pinned", "seen", "steady"}
      /\ build'.stage = "pinning" /\ build'.objs = objs /\ build'.groups = groups
      /\ build'.left = Linked(objs, groups) \ ReadContradictions(objs)
      /\ build'.pinned = ReadContradictions(objs)
      /\ build'.seen = build.seen /\ build'.steady = build.steady
  BY <1>2
<1>4. Readable' = Readable
  BY SameReadable DEF Fold
<1>5. PinningInv(build)'
  <2>1. FetchInv(build)'
    BY <1>1, <1>3, <1>4 DEF FetchInv, Witness
  <2>2. GroupsOK(build.groups, DOMAIN build.objs)'
    BY <1>3, FoldingsAreGroups DEF GroupsOK
  <2>3. ReadContradictions(objs) \subseteq build.seen
    BY <1>1 DEF FetchInv, ReadContradictions
  <2>4. /\ ReadContradictions(build.objs)' = ReadContradictions(objs)
        /\ LinkedTo(build.objs)' = Linked(objs, groups)
    BY <1>3 DEF ReadContradictions, LinkedTo, Linked, Contradicts
  <2>5. QED
    BY <1>3, <2>1, <2>2, <2>3, <2>4 DEF PinningInv
<1>6. QED
  BY <1>3, <1>5 DEF BuildInv, BuildShape

LEMMA PinStep ==
  ASSUME BuildInv, Pin PROVE BuildInv'
<1>1. /\ DOMAIN build = {"stage", "objs", "groups", "left", "pinned", "seen", "steady"}
      /\ build.stage = "pinning" /\ PinningInv(build)
  BY DEF BuildInv, BuildShape, Pin, Idle
<1>2. PICK some \in SUBSET build.left :
        build' = [build EXCEPT !.left = build.left \ some,
                               !.pinned = build.pinned \cup Authorized(some)]
  BY DEF Pin
<1>3. /\ DOMAIN build' = DOMAIN build /\ build'.stage = "pinning"
      /\ build'.left = build.left \ some
      /\ build'.pinned = build.pinned \cup (some \cap Readable)
      /\ build'.objs = build.objs /\ build'.groups = build.groups
      /\ build'.seen = build.seen /\ build'.steady = build.steady
  BY <1>1, <1>2 DEF Authorized
<1>4. Readable' = Readable
  BY SameReadable DEF Pin
<1>5. PinningInv(build)'
  <2>1. FetchInv(build)' /\ GroupsOK(build.groups, DOMAIN build.objs)'
    BY <1>1, <1>3, <1>4 DEF PinningInv, FetchInv, Witness, GroupsOK
  <2>2. /\ ReadContradictions(build.objs)' = ReadContradictions(build.objs)
        /\ LinkedTo(build.objs)' = LinkedTo(build.objs)
    BY <1>3 DEF ReadContradictions, LinkedTo, Contradicts
  <2>3. QED
    BY <1>1, <1>3, <2>1, <2>2 DEF PinningInv, FetchInv, Witness
<1>6. QED
  BY <1>1, <1>3, <1>5 DEF BuildInv, BuildShape

LEMMA DeliverStep ==
  ASSUME BuildInv, Deliver PROVE BuildInv'
<1>1. PinningInv(build) /\ build.left = {}
  BY DEF BuildInv, Deliver
<1> DEFINE objs == build.objs
           groups == build.groups
           items == Items(build)
<1>2. PICK dropped \in SUBSET Optional(build) :
        build' = [stage |-> "done", objs |-> objs, groups |-> groups,
                  items |-> items \ dropped, seen |-> build.seen, steady |-> build.steady,
                  believed |-> {c \in Claim : Exists(c) /\ object[c].open},
                  incomplete |-> Incomplete(groups, dropped, build.pinned \ (items \ dropped))]
  BY DEF Deliver
<1>3. /\ DOMAIN build' = {"stage", "objs", "groups", "items", "seen", "steady", "believed",
                        "incomplete"}
      /\ build'.stage = "done" /\ build'.objs = objs /\ build'.groups = groups
      /\ build'.items = items \ dropped
      /\ build'.seen = build.seen /\ build'.steady = build.steady
      /\ build'.incomplete = Incomplete(groups, dropped, build.pinned \ (items \ dropped))
  BY <1>2
<1>4. build.pinned \subseteq items \ dropped
  BY DEF Optional, Items
<1>5. items \cup Folded(groups) \subseteq build.seen
  BY <1>1 DEF PinningInv, FetchInv, GroupsOK, Folded, Items
<1>6. ASSUME ~build'.incomplete, NEW o \in DOMAIN objs
      PROVE  \/ o \in build'.items
             \/ \E g \in groups : /\ g.kind = "duplicate" /\ o \in g.collapsed
                                  /\ g.canonical \in build'.items
  <2>1. dropped = {} /\ \A g \in groups : g.kind = "duplicate"
    BY <1>1, <1>3, <1>6 DEF Incomplete, PinningInv, GroupsOK
  <2>2. CASE o \in Folded(groups)
    <3>1. PICK g \in groups : o \in g.collapsed
      BY <2>2 DEF Folded
    <3>2. \A h \in groups : h = g
      BY <1>1, <2>1 DEF PinningInv, GroupsOK
    <3>3. g.canonical \in DOMAIN objs \ Folded(groups)
      BY <1>1, <2>1, <3>2 DEF PinningInv, GroupsOK, Folded
    <3>4. QED
      BY <1>3, <2>1, <3>1, <3>3 DEF Items
  <2>3. CASE o \notin Folded(groups)
    BY <1>3, <2>1, <2>3 DEF Items
  <2>4. QED
    BY <2>2, <2>3
<1>7. DoneInv(build)'
  <2>1. (build.items \cup Folded(build.groups) \subseteq build.seen)'
    BY <1>3, <1>5 DEF Folded
  <2>2. (build.steady \cap (ReadContradictions(build.objs) \cup LinkedTo(build.objs))
           \subseteq build.items)'
    BY <1>1, <1>3, <1>4 DEF PinningInv, ReadContradictions, LinkedTo, Contradicts
  <2>3. HonestEnvelope(build)'
    BY <1>3, <1>6 DEF HonestEnvelope
  <2>4. QED
    BY <2>1, <2>2, <2>3 DEF DoneInv
<1>8. QED
  BY <1>3, <1>7 DEF BuildInv, BuildShape
-----------------------------------------------------------------------------
LEMMA RedeemStep ==
  ASSUME RedeemInv, NEW p \in Reader, NEW t \in Token, Redeem(p, t) PROVE RedeemInv'
<1>1. Readable' = Readable
  BY SameReadable DEF Redeem
<1>2. CASE MayRedeem(p, t)
  <2>1. redeem' = [stage |-> "members", by |-> p, of |-> handle[t], left |-> handle[t].members,
                   members |-> {}, seen |-> Readable, steady |-> Readable]
    BY <1>2 DEF Redeem
  <2>2. QED
    BY <1>1, <1>2, <2>1 DEF MayRedeem, RedeemInv, RedeemShape, AskedInv, Witness
<1>3. CASE ~MayRedeem(p, t)
  <2>1. redeem' = [stage |-> "done", by |-> p, of |-> handle[t], members |-> {},
                   complete |-> FALSE, seen |-> {}, steady |-> {}]
    BY <1>3 DEF Redeem
  <2>2. QED
    BY <2>1 DEF RedeemInv, RedeemShape, AnsweredInv
<1>4. QED
  BY <1>2, <1>3

LEMMA MembersStep ==
  ASSUME RedeemInv, RedeemMembers PROVE RedeemInv'
<1>1. /\ DOMAIN redeem = {"stage", "by", "of", "left", "members", "seen", "steady"}
      /\ redeem.stage = "members" /\ AskedInv(redeem)
  BY DEF RedeemInv, RedeemShape, RedeemMembers, Idle
<1>2. PICK some \in SUBSET redeem.left :
        redeem' = [redeem EXCEPT !.left = redeem.left \ some,
                                 !.members = redeem.members \cup Authorized(some)]
  BY DEF RedeemMembers
<1>3. /\ DOMAIN redeem' = DOMAIN redeem /\ redeem'.stage = "members"
      /\ redeem'.left = redeem.left \ some
      /\ redeem'.members = redeem.members \cup (some \cap Readable)
      /\ redeem'.by = redeem.by /\ redeem'.of = redeem.of
      /\ redeem'.seen = redeem.seen /\ redeem'.steady = redeem.steady
  BY <1>1, <1>2 DEF Authorized
<1>4. Readable' = Readable
  BY SameReadable DEF RedeemMembers
<1>5. QED
  BY <1>1, <1>3, <1>4 DEF RedeemInv, RedeemShape, AskedInv, Witness

LEMMA EndRedeemStep ==
  ASSUME RedeemInv, EndRedeem PROVE RedeemInv'
<1>1. redeem.stage = "members" /\ redeem.left = {} /\ AskedInv(redeem)
  BY DEF RedeemInv, EndRedeem
<1>2. redeem' = [stage |-> "done", by |-> redeem.by, of |-> redeem.of,
                 members |-> redeem.members, seen |-> redeem.seen, steady |-> redeem.steady,
                 complete |-> redeem.members = redeem.of.members]
  BY DEF EndRedeem
<1>3. /\ DOMAIN redeem' = {"stage", "by", "of", "members", "complete", "seen", "steady"}
      /\ redeem'.stage = "done" /\ redeem'.by = redeem.by /\ redeem'.of = redeem.of
      /\ redeem'.members = redeem.members
      /\ redeem'.seen = redeem.seen /\ redeem'.steady = redeem.steady
      /\ redeem'.complete => redeem.members = redeem.of.members
  BY <1>2
<1>4. QED
  BY <1>1, <1>3 DEF RedeemInv, RedeemShape, AskedInv, AnsweredInv
-----------------------------------------------------------------------------
LEMMA ContextInit == Init => BuildInv /\ RedeemInv
  BY DEF Init, Idle, BuildInv, BuildShape, RedeemInv, RedeemShape

LEMMA BuildStill ==
  ASSUME BuildInv, UNCHANGED build, Readable' = Readable PROVE BuildInv'
  BY DEF BuildInv, BuildShape, FetchInv, Witness, PinningInv, GroupsOK, Folded, DoneInv,
         HonestEnvelope, ReadContradictions, LinkedTo, Contradicts, Idle

LEMMA RedeemStill ==
  ASSUME RedeemInv, UNCHANGED redeem, Readable' = Readable PROVE RedeemInv'
  BY DEF RedeemInv, RedeemShape, AskedInv, AnsweredInv, Witness, Idle

LEMMA ContextStep == BuildInv /\ RedeemInv /\ [Next]_vars => BuildInv' /\ RedeemInv'
<1> SUFFICES ASSUME BuildInv, RedeemInv, [Next]_vars PROVE BuildInv' /\ RedeemInv'
  OBVIOUS
<1>1. CASE Move
  BY <1>1, BuildMove, RedeemMove DEF Move
<1>2. CASE Search
  BY <1>2, SearchStep, RedeemStill, SameReadable DEF Search
<1>3. CASE Fetch
  BY <1>3, FetchStep, RedeemStill, SameReadable DEF Fetch
<1>4. CASE Fold
  BY <1>4, FoldStep, RedeemStill, SameReadable DEF Fold
<1>5. CASE Pin
  BY <1>5, PinStep, RedeemStill, SameReadable DEF Pin
<1>6. CASE Deliver
  BY <1>6, DeliverStep, RedeemStill, SameReadable DEF Deliver
<1>7. ASSUME NEW p \in Reader, NEW t \in Token, Redeem(p, t) PROVE BuildInv' /\ RedeemInv'
  BY <1>7, RedeemStep, BuildStill, SameReadable DEF Redeem
<1>8. CASE RedeemMembers
  BY <1>8, MembersStep, BuildStill, SameReadable DEF RedeemMembers
<1>9. CASE EndRedeem
  BY <1>9, EndRedeemStep, BuildStill, SameReadable DEF EndRedeem
<1>10. CASE Restart
  BY <1>10 DEF Restart, Idle, BuildInv, BuildShape, RedeemInv, RedeemShape
<1>11. CASE UNCHANGED vars
  BY <1>11, BuildStill, RedeemStill DEF vars, Readable, Exists
<1>12. QED
  BY <1>1, <1>2, <1>3, <1>4, <1>5, <1>6, <1>7, <1>8, <1>9, <1>10, <1>11 DEF Next

(* An envelope that does not say it is incomplete leaves out nothing that   *)
(* was read, but copies of what it delivers.                                *)
THEOREM HonestyHolds == Spec => []EnvelopeIsHonest
<1>1. BuildInv => EnvelopeIsHonest
  BY DEF BuildInv, DoneInv, HonestEnvelope, EnvelopeIsHonest, Ended
<1>2. QED
  BY <1>1, ContextInit, ContextStep, PTL DEF Spec

(* No contradiction that was read, or linked to a claim that was read, is   *)
(* folded away or dropped for the budget.                                   *)
THEOREM ContradictionsHold == Spec => []ContradictionsSurvive
<1>1. BuildInv => ContradictionsSurvive
  BY DEF BuildInv, DoneInv, ReadContradictions, LinkedTo, ContradictionsSurvive, Ended
<1>2. QED
  BY <1>1, ContextInit, ContextStep, PTL DEF Spec

(* An envelope has nothing that its reader could not read while it was      *)
(* built, whatever was revoked meanwhile.                                   *)
THEOREM AuthorizationHolds == Spec => []EnvelopeIsAuthorized
<1>1. BuildInv => EnvelopeIsAuthorized
  BY DEF BuildInv, DoneInv, EnvelopeIsAuthorized, Ended
<1>2. QED
  BY <1>1, ContextInit, ContextStep, PTL DEF Spec

(* A handle is redeemed on what may be read then, by its minter only.       *)
THEOREM ExpansionHolds == Spec => []ExpansionIsLive
<1>1. RedeemInv => ExpansionIsLive
  BY DEF RedeemInv, AnsweredInv, ExpansionIsLive, Ended
<1>2. QED
  BY <1>1, ContextInit, ContextStep, PTL DEF Spec
=============================================================================
