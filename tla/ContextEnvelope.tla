---------------------------- MODULE ContextEnvelope ----------------------------
(***************************************************************************)
(* The context envelope (context/builder.py), its expansion handles         *)
(* (protocol/wire.py build_epctx, protocol/handles.py) and what becomes of  *)
(* both while others write and readability moves.                           *)
(*                                                                          *)
(* A build searches, reads each hit again, folds what is redundant, reads   *)
(* the contradictions linked to the claims among the hits, packs, and mints *)
(* a handle for every folded group.  Redeeming a handle reads each member   *)
(* again.  Only single reads are atomic.  The envelope is the builder's:    *)
(* build_epctx reads its items once more to lay them out in sections        *)
(* (wire.py 163-181), which is left out.                                    *)
(*                                                                          *)
(* All facts speak of one subject and predicate, all claims of another, and *)
(* the hashed pieces of evidence have one content: what may be folded       *)
(* together.  Which items fit a token budget is a matter of their sizes,    *)
(* which are left open.                                                     *)
(***************************************************************************)
EXTENDS Naturals, FiniteSets, Functions, TLC

CONSTANTS Fact, Claim, Evidence, \* ids of objects
          Token,                 \* handles uuid4 can give
          Absent,
          MaxObjects,            \* bound on the objects of the store
          MaxMoves,              \* bound on what others do
          MaxOpens               \* bound on restarts

ASSUME KindsAreDisjoint ==
  Fact \cap Claim = {} /\ Fact \cap Evidence = {} /\ Claim \cap Evidence = {}
ASSUME BoundsAssumption == MaxObjects \in Nat /\ MaxMoves \in Nat /\ MaxOpens \in Nat

VARIABLES object,  \* the store
          hidden,  \* objects the reader may not read
          moves, opens,
          build,   \* the reader's build in progress, or its envelope
          handle,  \* the registry of the engine
          redeem   \* the redemption in progress, or its answer

vars == <<object, hidden, moves, opens, build, handle, redeem>>

Obj == Fact \cup Claim \cup Evidence
Reader == {"reader", "other"}

(* open: believed, or a claim not retracted; disputedBy: the links of a     *)
(* claim with the relation contradicts or weakens.                          *)
StoredFact == [open : BOOLEAN]
StoredClaim(linkable) == [open : BOOLEAN, disputedBy : SUBSET linkable]
StoredEvidence == [contradicts : BOOLEAN, hashed : BOOLEAN]

Exists(o) == object[o] # Absent
Readable == {o \in Obj : Exists(o)} \ hidden
-----------------------------------------------------------------------------
Idle == [stage |-> "idle"]

(* Any store of a few objects; links lead to evidence that exists.          *)
Init ==
  /\ \E fs \in SUBSET Fact, cs \in SUBSET Claim, es \in SUBSET Evidence :
       /\ Cardinality(fs \cup cs \cup es) <= MaxObjects
       /\ \E f \in [fs -> StoredFact], c \in [cs -> StoredClaim(es)], e \in [es -> StoredEvidence] :
            object = f @@ c @@ e @@ [o \in Obj |-> Absent]
       /\ hidden \in SUBSET es
  /\ moves = 0 /\ opens = 0
  /\ build = Idle /\ redeem = Idle
  /\ handle = [t \in Token |-> Absent]

(* What others do: close a fact or retract a claim, link a contradiction,   *)
(* share or revoke.                                                         *)
Close(o) == Exists(o) /\ object[o].open /\ object' = [object EXCEPT ![o].open = FALSE]

Link(c, e) ==
  /\ Exists(c) /\ Exists(e) /\ e \notin object[c].disputedBy
  /\ object' = [object EXCEPT ![c].disputedBy = @ \cup {e}]

(* seen and steady are bookkeeping: what the reader could read at some time *)
(* since the call began, and what at all times; so is believed, the claims  *)
(* not retracted when the handles were minted.                              *)
Witnessed(call, readable) ==
  IF "seen" \in DOMAIN call
    THEN [call EXCEPT !.seen = @ \cup readable, !.steady = @ \cap readable]
    ELSE call

Readmit(o) ==
  /\ Exists(o)
  /\ hidden' = IF o \in hidden THEN hidden \ {o} ELSE hidden \cup {o}
  /\ UNCHANGED object

Move ==
  /\ moves < MaxMoves /\ moves' = moves + 1
  /\ \/ \E o \in Fact \cup Claim : Close(o) /\ UNCHANGED hidden
     \/ \E c \in Claim, e \in Evidence : Link(c, e) /\ UNCHANGED hidden
     \/ \E o \in Obj : Readmit(o)
  /\ build' = Witnessed(build, Readable') /\ redeem' = Witnessed(redeem, Readable')
  /\ UNCHANGED <<opens, handle>>
-----------------------------------------------------------------------------
(* classify_intent: only a query about now, with no sign of anything else,  *)
(* lets history be folded.                                                  *)
Marker == {"historical", "change", "decision", "contradiction", "current"}
MayCollapse(active) == active = {"current"}

UnchangedWorld == UNCHANGED <<object, hidden, moves, opens>>

(* search is over what the query matches and the reader may read; but for   *)
(* evidence, what does not match is as if it were absent.  One build in the *)
(* life of an engine: builds share nothing but the registry, where each     *)
(* mints tokens of its own.                                                 *)
Search ==
  /\ build.stage = "idle"
  /\ \E unmatched \in SUBSET (Evidence \cap Readable),
        collapse \in {MayCollapse(active) : active \in SUBSET Marker} :
       build' = [stage |-> "fetch", collapse |-> collapse,
                 left |-> Readable \ unmatched, objs |-> << >>,
                 seen |-> Readable, steady |-> Readable]
  /\ UNCHANGED <<handle, redeem>> /\ UnchangedWorld

(* The hits are read again, one by one; reads with no move between them are *)
(* one step.                                                                *)
Fetch ==
  /\ build.stage = "fetch"
  /\ \E some \in SUBSET build.left \ {{}} :
     build' = [build EXCEPT !.left = @ \ some,
                 !.objs = [o \in DOMAIN @ \cup (some \cap Readable) |->
                             IF o \in DOMAIN @ THEN @[o] ELSE object[o]]]
  /\ UNCHANGED <<handle, redeem>> /\ UnchangedWorld

(* What of the objects read is a contradiction, current, of one statement,  *)
(* or of one content.                                                       *)
Contradicts(objs, o) == o \in Evidence /\ objs[o].contradicts
Current(objs, o) == o \notin Fact \cup Claim \/ objs[o].open

Versions(objs) ==
  {vs \in {DOMAIN objs \cap Fact, DOMAIN objs \cap Claim} : Cardinality(vs) > 1}

Duplicates(objs) ==
  {e \in DOMAIN objs \cap Evidence : objs[e].hashed /\ ~Contradicts(objs, e)}

(* The group that versions vs may become: the first current one stays, or   *)
(* the best.                                                                *)
Histories(objs, vs) ==
  LET current == {v \in vs : Current(objs, v)}
  IN  {[kind |-> "history", canonical |-> v, collapsed |-> vs \ {v}] :
         v \in IF current # {} THEN current ELSE vs}

(* _collapse: a choice of groups.                                           *)
Foldings(objs, collapse) ==
  LET stmts == IF collapse THEN Versions(objs) ELSE {}
      dups == Duplicates(objs)
      histories == {gs \in SUBSET UNION {Histories(objs, vs) : vs \in stmts} :
                      \A vs \in stmts : Cardinality(gs \cap Histories(objs, vs)) = 1}
  IN  IF Cardinality(dups) > 1
        THEN {gs \cup {[kind |-> "duplicate", canonical |-> e, collapsed |-> dups \ {e}]} :
                gs \in histories, e \in dups}
        ELSE histories

Folded(groups) == UNION {g.collapsed : g \in groups}

(* Mutant: the links are gathered from what is left after folding.          *)
LinkedAfterFolding(objs, groups) ==
  UNION {objs[c].disputedBy : c \in (DOMAIN objs \cap Claim) \ Folded(groups)}

(* What the claims among the hits, folded or not, are disputed by.          *)
Linked(objs, groups) == UNION {objs[c].disputedBy : c \in DOMAIN objs \cap Claim}

(* Once the hits are read: _collapse, and of _contradictions those among    *)
(* the hits.                                                                *)
Fold ==
  /\ build.stage = "fetch" /\ build.left = {}
  /\ \E groups \in Foldings(build.objs, build.collapse) :
       LET contradictions == {o \in DOMAIN build.objs : Contradicts(build.objs, o)}
       IN  build' = [stage |-> "pinning", objs |-> build.objs, groups |-> groups,
                     left |-> Linked(build.objs, groups) \ contradictions,
                     pinned |-> contradictions,
                     seen |-> build.seen, steady |-> build.steady]
  /\ UNCHANGED <<handle, redeem>> /\ UnchangedWorld

(* Mutant: whatever there is may be read.                                   *)
AuthorizedAll(some) == some

(* Each object is taken only if the reader may read it at that moment.      *)
Authorized(some) == some \cap Readable

(* The rest of _contradictions: the linked ones, read one by one.           *)
Pin ==
  /\ build.stage = "pinning"
  /\ \E some \in SUBSET build.left \ {{}} :
       build' = [build EXCEPT !.left = @ \ some, !.pinned = @ \cup Authorized(some)]
  /\ UNCHANGED <<handle, redeem>> /\ UnchangedWorld

Items(b) == (DOMAIN b.objs \ Folded(b.groups)) \cup b.pinned

(* The items that need not fit the budget may be left out: history and      *)
(* support, unless pinned.                                                  *)
Optional(b) ==
  {o \in Items(b) \ b.pinned : (o \in Evidence /\ ~Contradicts(b.objs, o))
                                 \/ ~Current(b.objs, o)}

(* Mutant: the folded history is not mentioned.                             *)
IncompleteIfDropped(groups, dropped, missing) == dropped # {} \/ missing # {}

(* _finalize.                                                               *)
Incomplete(groups, dropped, missing) ==
  \/ dropped # {} \/ missing # {}
  \/ \E g \in groups : g.kind = "history"

(* _pack, _finalize, and the handles minted for the groups.                 *)
Minted(groups, token) ==
  [t \in Token |-> IF \E g \in groups : token[g] = t
                   THEN [by |-> "reader", members |-> (CHOOSE g \in groups : token[g] = t).collapsed]
                   ELSE handle[t]]

Deliver ==
  /\ build.stage = "pinning" /\ build.left = {}
  /\ \E dropped \in SUBSET Optional(build) :
       LET items == Items(build) \ dropped
           missing == build.pinned \ items
       IN  build' = [stage |-> "done", objs |-> build.objs, groups |-> build.groups,
                     items |-> items, seen |-> build.seen, steady |-> build.steady,
                     believed |-> {c \in Claim : Exists(c) /\ object[c].open},
                     incomplete |-> Incomplete(build.groups, dropped, missing)]
  /\ \E token \in Injection(build.groups, {t \in Token : handle[t] = Absent}) :
       handle' = Minted(build.groups, token)
  /\ UNCHANGED redeem /\ UnchangedWorld
-----------------------------------------------------------------------------
(* Mutant: whoever holds the handle may redeem it.                          *)
BearerMayRedeem(p, t) == handle[t] # Absent

MayRedeem(p, t) == handle[t] # Absent /\ handle[t].by = p

(* expand.  The other reader reads what the first one does: being another   *)
(* is all that tells them apart.                                            *)
Redeem(p, t) ==
  /\ redeem.stage \in {"idle", "done"}
  /\ redeem' = IF MayRedeem(p, t)
       THEN [stage |-> "members", by |-> p, of |-> handle[t], left |-> handle[t].members,
             members |-> {}, seen |-> Readable, steady |-> Readable]
       ELSE [stage |-> "done", by |-> p, of |-> handle[t], members |-> {}, complete |-> FALSE,
             seen |-> {}, steady |-> {}]
  /\ UNCHANGED <<build, handle>> /\ UnchangedWorld

RedeemMembers ==
  /\ redeem.stage = "members"
  /\ \E some \in SUBSET redeem.left \ {{}} :
       redeem' = [redeem EXCEPT !.left = @ \ some, !.members = @ \cup Authorized(some)]
  /\ UNCHANGED <<build, handle>> /\ UnchangedWorld

EndRedeem ==
  /\ redeem.stage = "members" /\ redeem.left = {}
  /\ redeem' = [stage |-> "done", by |-> redeem.by, of |-> redeem.of,
                members |-> redeem.members, seen |-> redeem.seen, steady |-> redeem.steady,
                complete |-> redeem.members = redeem.of.members]
  /\ UNCHANGED <<build, handle>> /\ UnchangedWorld

(* The handles of an engine go with it.                                     *)
Restart ==
  /\ opens < MaxOpens /\ opens' = opens + 1
  /\ handle' = [t \in Token |-> Absent]
  /\ build' = Idle /\ redeem' = Idle
  /\ UNCHANGED <<object, hidden, moves>>

Next ==
  \/ Move
  \/ Search \/ Fetch \/ Fold \/ Pin \/ Deliver
  \/ \E p \in Reader, t \in Token : Redeem(p, t)
  \/ RedeemMembers \/ EndRedeem
  \/ Restart

Spec == Init /\ [][Next]_vars
-----------------------------------------------------------------------------
Ended(call) == call.stage = "done"

(* An envelope that does not say it is incomplete leaves out nothing that   *)
(* was read, but copies of what it delivers.                                *)
EnvelopeIsHonest ==
  Ended(build) /\ ~build.incomplete =>
    \A o \in DOMAIN build.objs :
      \/ o \in build.items
      \/ \E g \in build.groups : /\ g.kind = "duplicate" /\ o \in g.collapsed
                                 /\ g.canonical \in build.items

(* Neither folding nor a budget removes a contradiction: one that was read, *)
(* or that is linked to a claim that was read, folded or not, is delivered  *)
(* if the reader could read it all the time.                                *)
ContradictionsSurvive ==
  Ended(build) =>
    LET read == {o \in DOMAIN build.objs : Contradicts(build.objs, o)}
        linked == UNION {build.objs[c].disputedBy : c \in DOMAIN build.objs \cap Claim}
    IN  build.steady \cap (read \cup linked) \subseteq build.items

(* Whatever is revoked during a build, an envelope has nothing, inline or   *)
(* behind a handle, that its reader could not read at some time in it.      *)
EnvelopeIsAuthorized ==
  Ended(build) => build.items \cup Folded(build.groups) \subseteq build.seen

(* A redemption is answered on what may be read while it lasts, not on what *)
(* could be read when the handle was minted; only its minter is answered;   *)
(* and it is called complete only if it is.  Only readability counts: what  *)
(* was closed or retracted since is answered, against the comment quoted at *)
(* RetractionDropsMembers.                                                  *)
ExpansionIsLive ==
  Ended(redeem) =>
    /\ redeem.members \subseteq redeem.seen
    /\ redeem.members # {} => redeem.by = redeem.of.by
    /\ redeem.complete => redeem.members = redeem.of.members
    /\ redeem.of # Absent /\ redeem.of.by = redeem.by =>
         redeem.of.members \cap redeem.steady \subseteq redeem.members
-----------------------------------------------------------------------------
(* protocol/handles.py lines 104-105: retraction since minting drops the    *)
(* member, so a claim that was not retracted when the handle was minted,    *)
(* and is when it is read again, is not answered.                           *)
RetractionDropsMembers ==
  [][RedeemMembers =>
       \A c \in Claim \cap (redeem'.members \ redeem.members) :
         c \in build.believed => object[c].open]_vars

(* context/builder.py line 9: what may be collapsed are superseded versions *)
(* of one statement, and contradictions never.                              *)
OnlySupersededIsFolded ==
  Ended(build) =>
    \A g \in build.groups : g.kind = "history" =>
      \A o \in g.collapsed : ~Current(build.objs, o)
=============================================================================
