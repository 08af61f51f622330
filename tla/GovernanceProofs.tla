--------------------------- MODULE GovernanceProofs ---------------------------
(***************************************************************************)
(* Proofs about ClaimGovernance and the panel's views of it, for any        *)
(* agents, claims, reviews, evidence and bounds: what the calls in flight   *)
(* carry stays true of the claim they are about, what a claim says of       *)
(* itself is what the ledger says, and so is what the panel tells of it.    *)
(***************************************************************************)
EXTENDS PanelViews, TLAPS

EntryOp == {"fact_asserted", "claim_asserted", "space_created", "capability_granted",
            "capability_revoked", "knowledge_shared", "knowledge_promoted",
            "evidence_recorded", "claim_retracted", "claim_reviewed", "claim_accepted",
            "claim_rejected", "evidence_attached"}

About == Obj \cup Space \cup (Space \X Agent) \cup Evidence \cup Review \cup (Obj \X Link)

Entry == [op : EntryOp, actor : Agent, about : About, into : SUBSET Space, replaces : {NoObj}]

GovernanceType ==
  /\ object \in [Obj -> Object \cup {Absent}]
  /\ call \in [Agent -> Call \cup {Absent}]
  /\ claim \in [Obj -> ClaimRecord \cup {Absent}]
  /\ review = [r \in Review |-> review[r]]
  /\ matter = [a \in Agent |-> matter[a]]
  /\ ledger \in Seq(Entry)

(* Objects are placed only when they exist, and each has its claim record.  *)
ExistsInv ==
  /\ \A o \in Obj : Exists(o) => claim[o] # Absent
  /\ \A a \in Agent : call[a] # Absent /\ call[a].op \in {"share", "promote"} =>
       call[a].obj \in Obj /\ Exists(call[a].obj)

(* What a governance call read of its claim is still so, or has only grown. *)
MatterInv ==
  \A a \in Agent : matter[a] # Absent =>
    LET m == matter[a]
    IN  /\ m.claim \in Obj /\ Exists(m.claim)
        /\ m.op = "review" =>
             m.spaces \subseteq object[m.claim].spaces /\ SameTenant(a, object[m.claim].owner)
        /\ m.op = "attach" => m.link \in Link
        /\ m.op \in {"accept", "rejectClaim"} =>
             a \in Acceptor /\ (claim[m.claim].claimant = a => IsAdmin(a))

ReviewInv ==
  \A r \in Review : review[r] # Absent =>
    /\ review[r].claim \in Obj /\ Exists(review[r].claim)
    /\ review[r].spaces \subseteq object[review[r].claim].spaces
    /\ SameTenant(review[r].owner, object[review[r].claim].owner)

AcceptedFor(c, claimant) ==
  \E i \in 1 .. Len(ledger) :
    /\ ledger[i].op = "claim_accepted" /\ ledger[i].about = c
    /\ ledger[i].actor \in Acceptor
    /\ ledger[i].actor # claimant \/ IsAdmin(ledger[i].actor)

(* The markers on a claim are what the ledger records of it.                *)
RecordInv ==
  \A c \in Obj :
    /\ claim[c] = Absent => ~Recorded("claim_retracted", c) /\ ~Recorded("claim_rejected", c)
    /\ claim[c] # Absent =>
         /\ claim[c].status = "retracted" <=> Recorded("claim_retracted", c)
         /\ claim[c].rejected <=> Recorded("claim_rejected", c)
         /\ claim[c].accepted => AcceptedFor(c, claim[c].claimant)

GovInv == GovernanceType /\ ExistsInv /\ MatterInv /\ ReviewInv /\ RecordInv

LEMMA GovernanceInitial == GovernanceInit => GovInv
  BY DEF GovernanceInit, Init, GovInv, GovernanceType, ExistsInv, MatterInv, ReviewInv,
         RecordInv, Recorded, AcceptedFor, Exists
-----------------------------------------------------------------------------
(* Steps by what they change: objects and claims are only added, objects    *)
(* only placed further, and a claim keeps its claimant and its markers.     *)
ObjectsGrow ==
  \A o \in Obj : Exists(o) =>
    /\ Exists(o)' /\ object'[o].owner = object[o].owner
    /\ object[o].spaces \subseteq object'[o].spaces

ClaimsHarden ==
  \A c \in Obj : claim[c] # Absent =>
    /\ claim'[c] # Absent /\ claim'[c].claimant = claim[c].claimant
    /\ claim[c].status = "retracted" => claim'[c].status = "retracted"
    /\ claim[c].rejected => claim'[c].rejected
    /\ claim[c].accepted => claim'[c].accepted

Steady == ObjectsGrow /\ ClaimsHarden

LEMMA MatterStill ==
  ASSUME GovInv, Steady, NEW a \in Agent,
         matter' = matter \/ matter' = [matter EXCEPT ![a] = Absent]
  PROVE  MatterInv' /\ matter' = [b \in Agent |-> matter'[b]]
<1>1. matter = [b \in Agent |-> matter[b]]
  BY DEF GovInv, GovernanceType
<1>2. /\ matter' = [b \in Agent |-> matter'[b]]
      /\ \A b \in Agent : matter'[b] # Absent => matter[b] # Absent /\ matter'[b] = matter[b]
  BY <1>1
<1>3. \A b \in Agent : matter[b] # Absent => claim[matter[b].claim] # Absent
  BY DEF GovInv, MatterInv, ExistsInv
<1>4. MatterInv'
  BY <1>2, <1>3 DEF GovInv, MatterInv, Steady, ObjectsGrow, ClaimsHarden
<1>5. QED
  BY <1>2, <1>4

LEMMA ReviewsStill ==
  ASSUME GovInv, ObjectsGrow, review' = review
  PROVE  ReviewInv' /\ review' = [r \in Review |-> review'[r]]
  BY DEF GovInv, GovernanceType, ReviewInv, ObjectsGrow

LEMMA CallsStill ==
  ASSUME GovInv, ObjectsGrow, NEW a \in Agent,
         call' = call \/ call' = [call EXCEPT ![a] = Absent],
         \A o \in Obj : Exists(o)' => claim'[o] # Absent
  PROVE  ExistsInv' /\ call' \in [Agent -> Call \cup {Absent}]
<1>1. call' \in [Agent -> Call \cup {Absent}]
      /\ \A b \in Agent : call'[b] # Absent => call[b] # Absent /\ call'[b] = call[b]
  BY DEF GovInv, GovernanceType
<1>2. QED
  BY <1>1 DEF GovInv, ExistsInv, ObjectsGrow

LEMMA SealedEntry ==
  ASSUME NEW op \in EntryOp, NEW a \in Agent, NEW about \in About, NEW into \in SUBSET Space
  PROVE  /\ Sealed(op, a, about, into, NoObj) \in Entry
         /\ Sealed(op, a, about, into, NoObj).op = op
         /\ Sealed(op, a, about, into, NoObj).actor = a
         /\ Sealed(op, a, about, into, NoObj).about = about
  BY DEF Sealed, Entry

LEMMA OneMore ==
  ASSUME GovInv, NEW e \in Entry, ledger' = Append(ledger, e)
  PROVE  /\ ledger' \in Seq(Entry)
         /\ \A op, about :
              Recorded(op, about)' <=> Recorded(op, about) \/ (e.op = op /\ e.about = about)
         /\ \A c, claimant : AcceptedFor(c, claimant) => AcceptedFor(c, claimant)'
         /\ \A c, claimant :
              /\ e.op = "claim_accepted" /\ e.about = c /\ e.actor \in Acceptor
              /\ e.actor # claimant \/ IsAdmin(e.actor)
              => AcceptedFor(c, claimant)'
<1>1. /\ Len(ledger) \in Nat /\ Len(ledger') = Len(ledger) + 1 /\ ledger' \in Seq(Entry)
      /\ ledger'[Len(ledger) + 1] = e /\ \A i \in 1 .. Len(ledger) : ledger'[i] = ledger[i]
  BY DEF GovInv, GovernanceType
<1>2. \A i : i \in 1 .. Len(ledger') <=> i \in 1 .. Len(ledger) \/ i = Len(ledger) + 1
  BY <1>1
<1>3. \A op, about :
        Recorded(op, about)' <=> Recorded(op, about) \/ (e.op = op /\ e.about = about)
  BY <1>1, <1>2 DEF Recorded
<1>4. \A c, claimant : AcceptedFor(c, claimant) => AcceptedFor(c, claimant)'
  BY <1>1, <1>2 DEF AcceptedFor
<1>5. \A c, claimant :
        /\ e.op = "claim_accepted" /\ e.about = c /\ e.actor \in Acceptor
        /\ e.actor # claimant \/ IsAdmin(e.actor)
        => AcceptedFor(c, claimant)'
  BY <1>1, <1>2 DEF AcceptedFor
<1>6. QED
  BY <1>1, <1>3, <1>4, <1>5

(* An entry that decides nothing leaves the markers right.                  *)
LEMMA RecordsStill ==
  ASSUME GovInv, NEW e \in Entry, ledger' = Append(ledger, e),
         e.op \notin {"claim_retracted", "claim_rejected"},
         \A c \in Obj : claim[c] # Absent =>
           /\ claim'[c] # Absent /\ claim'[c].claimant = claim[c].claimant
           /\ claim'[c].status = claim[c].status /\ claim'[c].rejected = claim[c].rejected
           /\ claim'[c].accepted = claim[c].accepted,
         \A c \in Obj : claim[c] = Absent /\ claim'[c] # Absent =>
           claim'[c].status = "open" /\ claim'[c].rejected = FALSE /\ claim'[c].accepted = FALSE
  PROVE  RecordInv'
<1>1. \A c \in Obj : /\ Recorded("claim_retracted", c)' <=> Recorded("claim_retracted", c)
                     /\ Recorded("claim_rejected", c)' <=> Recorded("claim_rejected", c)
  BY OneMore
<1>2. \A c, claimant : AcceptedFor(c, claimant) => AcceptedFor(c, claimant)'
  BY OneMore
<1>3. QED
  BY <1>1, <1>2 DEF GovInv, RecordInv

LEMMA RecordsSame ==
  ASSUME GovInv, UNCHANGED <<ledger, claim>> PROVE RecordInv'
  BY DEF GovInv, RecordInv, Recorded, AcceptedFor
-----------------------------------------------------------------------------
LEMMA CreateClaimStep ==
  ASSUME GovInv, NEW a \in Agent, CreateClaim(a) PROVE GovInv' /\ ClaimsHarden
<1>1. PICK claimant \in Agent, o \in Obj, kind \in {"fact", "claim"},
           op \in {"fact_asserted", "claim_asserted"} :
        /\ call[a] # Absent /\ ~Exists(o)
        /\ object' = [object EXCEPT ![o] = NewObject(kind, a, call[a].dest)]
        /\ ledger' = Append(ledger, Sealed(op, a, o, call[a].dest, NoObj))
        /\ call' = [call EXCEPT ![a] = Absent]
        /\ claim' = [x \in Obj |-> IF claim[x] = Absent /\ object'[x] # Absent
                                   THEN NewClaim(claimant) ELSE claim[x]]
        /\ UNCHANGED <<review, evidence, matter>>
  BY DEF CreateClaim, WriteNew, Finish
<1>2. call[a].dest \in SUBSET Space
  BY <1>1 DEF GovInv, GovernanceType, Call
<1> DEFINE e == Sealed(op, a, o, call[a].dest, NoObj)
           n == NewObject(kind, a, call[a].dest)
<1>3. e \in Entry /\ e.op = op
  <2>1. op \in EntryOp /\ o \in About
    BY DEF EntryOp, About
  <2>2. QED
    BY <1>2, <2>1, SealedEntry
<1>4. n \in Object
  BY <1>2 DEF NewObject, Object
<1> HIDE DEF e, n
<1>5. /\ object' \in [Obj -> Object \cup {Absent}]
      /\ \A x \in Obj : x # o => object'[x] = object[x]
  BY <1>1, <1>4 DEF n, GovInv, GovernanceType
<1>6. NewClaim(claimant) \in ClaimRecord
      /\ NewClaim(claimant).status = "open" /\ NewClaim(claimant).rejected = FALSE
      /\ NewClaim(claimant).accepted = FALSE
  BY DEF NewClaim, ClaimRecord
<1>7. NewClaim(claimant) # Absent
  BY <1>6, ClaimAssumption
<1>8. /\ claim' \in [Obj -> ClaimRecord \cup {Absent}]
      /\ \A c \in Obj : claim[c] # Absent => claim'[c] = claim[c]
      /\ \A c \in Obj : claim[c] = Absent /\ claim'[c] # Absent => claim'[c] = NewClaim(claimant)
      /\ \A c \in Obj : object'[c] # Absent => claim'[c] # Absent
  BY <1>1, <1>6, <1>7 DEF GovInv, GovernanceType
<1>9. Steady
  BY <1>1, <1>5, <1>8 DEF Steady, ObjectsGrow, ClaimsHarden, Exists
<1>10. MatterInv' /\ matter' = [b \in Agent |-> matter'[b]]
  BY <1>1, <1>9, MatterStill
<1>11. ReviewInv' /\ review' = [r \in Review |-> review'[r]]
  BY <1>1, <1>9, ReviewsStill DEF Steady
<1>12. ExistsInv' /\ call' \in [Agent -> Call \cup {Absent}]
  BY <1>1, <1>8, <1>9, CallsStill DEF Steady, Exists
<1>13. ledger' \in Seq(Entry)
  BY <1>1, <1>3, OneMore DEF e
<1>14. RecordInv'
  BY <1>1, <1>3, <1>6, <1>8, RecordsStill DEF e
<1>15. QED
  BY <1>5, <1>8, <1>9, <1>10, <1>11, <1>12, <1>13, <1>14 DEF GovInv, GovernanceType, Steady

(* A step that leaves objects, claims and reviews alone, and of the calls   *)
(* in flight at most ends one.                                              *)
LEMMA QuietStep ==
  ASSUME GovInv, NEW a \in Agent, UNCHANGED <<object, claim, review>>,
         matter' = matter \/ matter' = [matter EXCEPT ![a] = Absent],
         call' = call \/ call' = [call EXCEPT ![a] = Absent],
         \/ ledger' = ledger
         \/ \E e \in Entry : /\ ledger' = Append(ledger, e)
                             /\ e.op \notin {"claim_retracted", "claim_rejected"}
  PROVE  GovInv' /\ ClaimsHarden
<1>1. Steady
  BY DEF Steady, ObjectsGrow, ClaimsHarden, Exists
<1>2. MatterInv' /\ matter' = [b \in Agent |-> matter'[b]]
  BY <1>1, MatterStill
<1>3. ReviewInv' /\ review' = [r \in Review |-> review'[r]]
  BY <1>1, ReviewsStill DEF Steady
<1>4. ExistsInv' /\ call' \in [Agent -> Call \cup {Absent}]
  <2>1. \A o \in Obj : Exists(o)' => claim'[o] # Absent
    BY DEF GovInv, ExistsInv, Exists
  <2>2. QED
    BY <1>1, <2>1, CallsStill DEF Steady
<1>5. ledger' \in Seq(Entry) /\ RecordInv'
  <2>1. CASE ledger' = ledger
    BY <2>1, RecordsSame DEF GovInv, GovernanceType
  <2>2. ASSUME NEW e \in Entry, ledger' = Append(ledger, e),
               e.op \notin {"claim_retracted", "claim_rejected"}
        PROVE  ledger' \in Seq(Entry) /\ RecordInv'
    BY <2>2, OneMore, RecordsStill
  <2>3. QED
    BY <2>1, <2>2
<1>6. QED
  BY <1>1, <1>2, <1>3, <1>4, <1>5 DEF GovInv, GovernanceType, Steady

LEMMA RecordStep ==
  ASSUME GovInv, NEW a \in Agent,
         \/ CreateSpace(a) \/ GrantCapability(a) \/ RevokeCapability(a) \/ CreateEvidence(a),
         UNCHANGED <<claim, review, matter>>
  PROVE  GovInv' /\ ClaimsHarden
<1>1. UNCHANGED <<object, call>>
  BY DEF CreateSpace, GrantCapability, RevokeCapability, CreateEvidence
<1>2. PICK op \in EntryOp \ {"claim_retracted", "claim_rejected"}, about \in About,
           into \in SUBSET Space :
        ledger' = Append(ledger, Sealed(op, a, about, into, NoObj))
  <2>1. CASE CreateSpace(a)
    BY <2>1 DEF CreateSpace, EntryOp, About
  <2>2. CASE GrantCapability(a)
    BY <2>2 DEF GrantCapability, EntryOp, About
  <2>3. CASE RevokeCapability(a)
    BY <2>3 DEF RevokeCapability, EntryOp, About
  <2>4. CASE CreateEvidence(a)
    BY <2>4 DEF CreateEvidence, EntryOp, About
  <2>5. QED
    BY <2>1, <2>2, <2>3, <2>4
<1>3. \E e \in Entry : /\ ledger' = Append(ledger, e)
                       /\ e.op \notin {"claim_retracted", "claim_rejected"}
  BY <1>2, SealedEntry
<1>4. QED
  BY <1>1, <1>3, QuietStep

LEMMA CheckStep ==
  ASSUME GovInv, NEW a \in Agent, CheckClaim(a) \/ CheckShare(a), UNCHANGED claimVars
  PROVE  GovInv' /\ ClaimsHarden
<1>1. PICK c \in Call :
        /\ call' = [call EXCEPT ![a] = c]
        /\ c.op = "share" => c.obj \in Obj /\ Exists(c.obj)
        /\ c.op \in {"claim", "share"}
        /\ UNCHANGED <<object, ledger>>
  <2>1. CASE CheckClaim(a)
    <3>1. PICK dest \in SUBSET Space :
            Check(a, [op |-> "claim", obj |-> NoObj, dest |-> dest])
      BY <2>1 DEF CheckClaim
    <3> DEFINE c == [op |-> "claim", obj |-> NoObj, dest |-> dest]
    <3>2. c \in Call /\ c.op = "claim"
      BY DEF Call
    <3>3. QED
      BY <3>1, <3>2 DEF Check
  <2>2. CASE CheckShare(a)
    <3>1. PICK o \in Obj, s \in Space :
            Exists(o) /\ Check(a, [op |-> "share", obj |-> o, dest |-> {s}])
      BY <2>2 DEF CheckShare, MayChange
    <3> DEFINE c == [op |-> "share", obj |-> o, dest |-> {s}]
    <3>2. c \in Call /\ c.op = "share" /\ c.obj = o
      BY DEF Call
    <3>3. QED
      BY <3>1, <3>2 DEF Check
  <2>3. QED
    BY <2>1, <2>2
<1>2. UNCHANGED <<claim, review, matter>>
  BY DEF claimVars
<1>3. Steady
  BY <1>1, <1>2 DEF Steady, ObjectsGrow, ClaimsHarden, Exists
<1>4. MatterInv' /\ matter' = [b \in Agent |-> matter'[b]]
  BY <1>2, <1>3, MatterStill
<1>5. ReviewInv' /\ review' = [r \in Review |-> review'[r]]
  BY <1>2, <1>3, ReviewsStill DEF Steady
<1>6. ExistsInv' /\ call' \in [Agent -> Call \cup {Absent}]
  <2>1. /\ call' \in [Agent -> Call \cup {Absent}]
        /\ \A b \in Agent : call'[b] = IF b = a THEN c ELSE call[b]
    BY <1>1 DEF GovInv, GovernanceType
  <2>2. QED
    BY <1>1, <1>2, <2>1 DEF GovInv, ExistsInv, Exists
<1>7. RecordInv'
  BY <1>1, <1>2, RecordsSame
<1>8. QED
  BY <1>1, <1>2, <1>3, <1>4, <1>5, <1>6, <1>7 DEF GovInv, GovernanceType, Steady

LEMMA PlacementStep ==
  ASSUME GovInv, NEW a \in Agent, WritePlacement(a), UNCHANGED claimVars
  PROVE  GovInv' /\ ClaimsHarden
<1>1. PICK op \in {"knowledge_shared", "knowledge_promoted"} :
        /\ call[a] # Absent /\ call[a].op \in {"share", "promote"}
        /\ object' = [object EXCEPT ![call[a].obj].spaces = @ \cup call[a].dest]
        /\ ledger' = Append(ledger, Sealed(op, a, call[a].obj, call[a].dest, NoObj))
        /\ call' = [call EXCEPT ![a] = Absent]
  BY DEF WritePlacement, Finish
<1>2. UNCHANGED <<claim, review, matter>>
  BY DEF claimVars
<1>3. PICK o \in Obj : o = call[a].obj /\ Exists(o)
  BY <1>1 DEF GovInv, ExistsInv
<1>4. call[a].dest \in SUBSET Space /\ object[o] \in Object
  BY <1>1, <1>3 DEF GovInv, GovernanceType, Call, Exists
<1> DEFINE n == [object[o] EXCEPT !.spaces = object[o].spaces \cup call[a].dest]
<1>5. /\ n \in Object /\ n.owner = object[o].owner
      /\ n.spaces = object[o].spaces \cup call[a].dest
  BY <1>4 DEF Object
<1>6. /\ object' \in [Obj -> Object \cup {Absent}] /\ object'[o] = n
      /\ \A p \in Obj : p # o => object'[p] = object[p]
  <2>1. object' = [object EXCEPT ![o] = n]
    BY <1>1, <1>3
  <2> HIDE DEF n
  <2>2. QED
    BY <1>3, <1>5, <2>1 DEF GovInv, GovernanceType
<1> HIDE DEF n
<1>7. Steady
  <2>1. n # Absent
    BY <1>5, AbsentAssumption
  <2>2. QED
    BY <1>2, <1>5, <1>6, <2>1 DEF Steady, ObjectsGrow, ClaimsHarden, Exists
<1>8. MatterInv' /\ matter' = [b \in Agent |-> matter'[b]]
  BY <1>2, <1>7, MatterStill
<1>9. ReviewInv' /\ review' = [r \in Review |-> review'[r]]
  BY <1>2, <1>7, ReviewsStill DEF Steady
<1>10. ExistsInv' /\ call' \in [Agent -> Call \cup {Absent}]
  <2>1. \A p \in Obj : Exists(p)' => claim'[p] # Absent
    BY <1>2, <1>3, <1>6 DEF GovInv, ExistsInv, Exists
  <2>2. QED
    BY <1>1, <1>7, <2>1, CallsStill DEF Steady
<1>11. PICK e \in Entry : ledger' = Append(ledger, e) /\ e.op = op
  <2>1. op \in EntryOp /\ o \in About
    BY DEF EntryOp, About
  <2>2. QED
    BY <1>1, <1>3, <1>4, <2>1, SealedEntry
<1>12. ledger' \in Seq(Entry) /\ RecordInv'
  BY <1>2, <1>11, OneMore, RecordsStill
<1>13. QED
  BY <1>2, <1>6, <1>7, <1>8, <1>9, <1>10, <1>12 DEF GovInv, GovernanceType, Steady
-----------------------------------------------------------------------------
(* The governance calls: what each checks.                                  *)
LEMMA TakeStep ==
  ASSUME GovInv, NEW a \in Agent, NEW m, Take(a, m), m.claim \in Obj,
         m.op = "review" => m.spaces = object[m.claim].spaces,
         m.op = "attach" => m.link \in Link,
         m.op \in {"accept", "rejectClaim"} =>
           a \in Acceptor /\ (claim[m.claim].claimant = a => IsAdmin(a))
  PROVE  GovInv' /\ ClaimsHarden
<1>1. /\ UNCHANGED <<object, call, ledger, claim, review>>
      /\ matter' = [matter EXCEPT ![a] = m]
      /\ CanRead(a, m.claim)
  BY DEF Take, spaceVars
<1>2. Exists(m.claim) /\ SameTenant(a, object[m.claim].owner)
  BY <1>1 DEF CanRead, MayReadPlaced
<1>3. /\ matter' = [b \in Agent |-> matter'[b]]
      /\ \A b \in Agent : matter'[b] = IF b = a THEN m ELSE matter[b]
  BY <1>1 DEF GovInv, GovernanceType
<1>4. MatterInv'
  BY <1>1, <1>2, <1>3 DEF GovInv, MatterInv, Exists
<1>5. ReviewInv' /\ ExistsInv'
  BY <1>1 DEF GovInv, ReviewInv, ExistsInv, Exists
<1>6. RecordInv'
  BY <1>1, RecordsSame
<1>7. QED
  BY <1>1, <1>3, <1>4, <1>5, <1>6 DEF GovInv, GovernanceType, ClaimsHarden

LEMMA TakingStep ==
  ASSUME GovInv, NEW a \in Agent,
         CheckRetract(a) \/ CheckReview(a) \/ CheckAttach(a) \/ CheckGovern(a)
  PROVE  GovInv' /\ ClaimsHarden
<1>1. CASE CheckRetract(a)
  <2>1. PICK c \in Obj : Take(a, [op |-> "retract", claim |-> c])
    BY <1>1 DEF CheckRetract
  <2>2. QED
    BY <2>1, TakeStep
<1>2. CASE CheckReview(a)
  <2>1. PICK c \in Obj, v \in Verdict :
          Take(a, [op |-> "review", claim |-> c, verdict |-> v, spaces |-> object[c].spaces])
    BY <1>2 DEF CheckReview
  <2>2. QED
    BY <2>1, TakeStep
<1>3. CASE CheckAttach(a)
  <2>1. PICK c \in Obj, e \in Evidence, relation \in {"supports", "contradicts"} :
          Take(a, [op |-> "attach", claim |-> c,
                   link |-> [evidence |-> e, relation |-> relation]])
    BY <1>3 DEF CheckAttach
  <2>2. [evidence |-> e, relation |-> relation] \in Link
    BY DEF Link
  <2>3. QED
    BY <2>1, <2>2, TakeStep
<1>4. CASE CheckGovern(a)
  <2>1. PICK c \in Obj, op \in {"accept", "rejectClaim"} :
          /\ a \in Acceptor /\ (claim[c].claimant = a => IsAdmin(a))
          /\ Take(a, [op |-> op, claim |-> c])
    BY <1>4 DEF CheckGovern
  <2>2. QED
    BY <2>1, TakeStep
<1>5. QED
  BY <1>1, <1>2, <1>3, <1>4

(* What each writes: a new record r of the claim c, and an entry e that     *)
(* says so.                                                                 *)
LEMMA MarkStep ==
  ASSUME GovInv, NEW a \in Agent, NEW c \in Obj, NEW r \in ClaimRecord, NEW e \in Entry,
         claim[c] # Absent, claim' = [claim EXCEPT ![c] = r],
         ledger' = Append(ledger, e), matter' = [matter EXCEPT ![a] = Absent],
         UNCHANGED <<object, call, review>>,
         r.claimant = claim[c].claimant,
         r.status = IF e.op = "claim_retracted" THEN "retracted" ELSE claim[c].status,
         r.rejected = IF e.op = "claim_rejected" THEN TRUE ELSE claim[c].rejected,
         r.accepted = IF e.op = "claim_accepted" THEN TRUE ELSE claim[c].accepted,
         e.op \in {"claim_retracted", "claim_rejected", "claim_accepted"} => e.about = c,
         e.op = "claim_accepted" =>
           e.actor \in Acceptor /\ (e.actor # claim[c].claimant \/ IsAdmin(e.actor))
  PROVE  GovInv' /\ ClaimsHarden
<1>1. claim[c] \in ClaimRecord /\ r # Absent
  BY ClaimAssumption DEF GovInv, GovernanceType
<1>2. /\ claim' \in [Obj -> ClaimRecord \cup {Absent}]
      /\ \A x \in Obj : claim'[x] = IF x = c THEN r ELSE claim[x]
  BY DEF GovInv, GovernanceType
<1>3. Steady
  BY <1>1, <1>2 DEF Steady, ObjectsGrow, ClaimsHarden, Exists
<1>4. MatterInv' /\ matter' = [b \in Agent |-> matter'[b]]
  BY <1>3, MatterStill
<1>5. ReviewInv' /\ review' = [x \in Review |-> review'[x]]
  BY <1>3, ReviewsStill DEF Steady
<1>6. ExistsInv' /\ call' \in [Agent -> Call \cup {Absent}]
  <2>1. \A x \in Obj : Exists(x)' => claim'[x] # Absent
    BY <1>1, <1>2 DEF GovInv, ExistsInv, Exists
  <2>2. QED
    BY <1>3, <2>1, CallsStill DEF Steady
<1>7. /\ ledger' \in Seq(Entry)
      /\ \A op, about :
           Recorded(op, about)' <=> Recorded(op, about) \/ (e.op = op /\ e.about = about)
      /\ \A x, claimant : AcceptedFor(x, claimant) => AcceptedFor(x, claimant)'
      /\ e.op = "claim_accepted" => AcceptedFor(c, r.claimant)'
  BY OneMore
<1>8. \A x \in Obj : /\ Recorded("claim_retracted", x)' <=>
                          Recorded("claim_retracted", x) \/ (x = c /\ e.op = "claim_retracted")
                     /\ Recorded("claim_rejected", x)' <=>
                          Recorded("claim_rejected", x) \/ (x = c /\ e.op = "claim_rejected")
  BY <1>7
<1>9. RecordInv'
  <2>1. ASSUME NEW x \in Obj, x # c
        PROVE  /\ claim[x] = Absent =>
                    ~Recorded("claim_retracted", x)' /\ ~Recorded("claim_rejected", x)'
               /\ claim[x] # Absent =>
                    /\ claim[x].status = "retracted" <=> Recorded("claim_retracted", x)'
                    /\ claim[x].rejected <=> Recorded("claim_rejected", x)'
                    /\ claim[x].accepted =>
                         \A claimant : claimant = claim[x].claimant => AcceptedFor(x, claimant)'
    BY <1>7, <1>8, <2>1 DEF GovInv, RecordInv
  <2>2. r.status = "retracted" <=> Recorded("claim_retracted", c)'
    BY <1>1, <1>8 DEF GovInv, RecordInv
  <2>3. r.rejected <=> Recorded("claim_rejected", c)'
    BY <1>1, <1>8 DEF GovInv, RecordInv
  <2>4. r.accepted => AcceptedFor(c, r.claimant)'
    BY <1>1, <1>7 DEF GovInv, RecordInv
  <2>5. ASSUME NEW x \in Obj
        PROVE  /\ claim'[x] = Absent =>
                    ~Recorded("claim_retracted", x)' /\ ~Recorded("claim_rejected", x)'
               /\ claim'[x] # Absent =>
                    /\ claim'[x].status = "retracted" <=> Recorded("claim_retracted", x)'
                    /\ claim'[x].rejected <=> Recorded("claim_rejected", x)'
                    /\ claim'[x].accepted =>
                         \A claimant : claimant = claim'[x].claimant => AcceptedFor(x, claimant)'
    BY <1>1, <1>2, <2>1, <2>2, <2>3, <2>4
  <2>6. QED
    BY <2>5 DEF RecordInv
<1>10. QED
  BY <1>2, <1>3, <1>4, <1>5, <1>6, <1>7, <1>9 DEF GovInv, GovernanceType, Steady

LEMMA LinkedType ==
  ASSUME NEW links \in Seq(Link), NEW link \in Link
  PROVE  Linked(links, link) \in Seq(Link)
<1> DEFINE all == IF Contains(links, link) THEN links ELSE Append(links, link)
           from == IF Len(all) > MaxLinks THEN Len(all) - MaxLinks + 1 ELSE 1
<1>1. all \in Seq(Link) /\ MaxLinks \in Nat \ {0} /\ Len(all) \in Nat
  BY MaxLinksAssumption
<1> HIDE DEF all
<1>2. from \in Nat \ {0}
  BY <1>1
<1> HIDE DEF from
<1>3. SubSeq(all, from, Len(all)) \in Seq(Link)
  BY <1>1, <1>2
<1>4. QED
  BY <1>3 DEF Linked, all, from

LEMMA WritingStep ==
  ASSUME GovInv, NEW a \in Agent,
         WriteRetract(a) \/ WriteAccept(a) \/ WriteReject(a) \/ WriteAttach(a)
  PROVE  GovInv' /\ ClaimsHarden
<1> DEFINE c == matter[a].claim
<1>1. /\ matter[a] # Absent /\ c \in Obj /\ claim[c] \in ClaimRecord /\ claim[c] # Absent
      /\ matter[a].op = "attach" => matter[a].link \in Link
      /\ matter[a].op \in {"accept", "rejectClaim"} =>
           a \in Acceptor /\ (claim[c].claimant = a => IsAdmin(a))
  BY DEF WriteRetract, WriteAccept, WriteReject, WriteAttach, InMatter,
         GovInv, GovernanceType, MatterInv, ExistsInv
<1>2. /\ matter' = [matter EXCEPT ![a] = Absent]
      /\ UNCHANGED <<object, call, review>>
  BY DEF WriteRetract, WriteAccept, WriteReject, WriteAttach, Settle
<1>3. CASE WriteRetract(a)
  <2> DEFINE r == [claim[c] EXCEPT !.status = "retracted"]
             e == Sealed("claim_retracted", a, c, {}, NoObj)
  <2>1. claim' = [claim EXCEPT ![c] = r] /\ ledger' = Append(ledger, e)
    BY <1>3 DEF WriteRetract, Settle
  <2>2. r \in ClaimRecord /\ r.claimant = claim[c].claimant /\ r.status = "retracted"
        /\ r.rejected = claim[c].rejected /\ r.accepted = claim[c].accepted
    BY <1>1 DEF ClaimRecord
  <2>3. e \in Entry /\ e.op = "claim_retracted" /\ e.about = c
    BY <1>1, SealedEntry DEF EntryOp, About
  <2> HIDE DEF r, e, c
  <2>4. QED
    BY <1>1, <1>2, <2>1, <2>2, <2>3, MarkStep
<1>4. CASE WriteAccept(a)
  <2> DEFINE r == [claim[c] EXCEPT !.accepted = TRUE]
             e == Sealed("claim_accepted", a, c, {}, NoObj)
  <2>1. claim' = [claim EXCEPT ![c] = r] /\ ledger' = Append(ledger, e) /\ matter[a].op = "accept"
    BY <1>4 DEF WriteAccept, Settle, InMatter
  <2>2. r \in ClaimRecord /\ r.claimant = claim[c].claimant /\ r.status = claim[c].status
        /\ r.rejected = claim[c].rejected /\ r.accepted = TRUE
    BY <1>1 DEF ClaimRecord
  <2>3. e \in Entry /\ e.op = "claim_accepted" /\ e.about = c /\ e.actor = a
    BY <1>1, SealedEntry DEF EntryOp, About
  <2>4. e.actor \in Acceptor /\ (e.actor # claim[c].claimant \/ IsAdmin(e.actor))
    BY <1>1, <2>1, <2>3
  <2> HIDE DEF r, e, c
  <2>5. QED
    BY <1>1, <1>2, <2>1, <2>2, <2>3, <2>4, MarkStep
<1>5. CASE WriteReject(a)
  <2> DEFINE r == [claim[c] EXCEPT !.rejected = TRUE]
             e == Sealed("claim_rejected", a, c, {}, NoObj)
  <2>1. claim' = [claim EXCEPT ![c] = r] /\ ledger' = Append(ledger, e)
    BY <1>5 DEF WriteReject, Settle
  <2>2. r \in ClaimRecord /\ r.claimant = claim[c].claimant /\ r.status = claim[c].status
        /\ r.rejected = TRUE /\ r.accepted = claim[c].accepted
    BY <1>1 DEF ClaimRecord
  <2>3. e \in Entry /\ e.op = "claim_rejected" /\ e.about = c
    BY <1>1, SealedEntry DEF EntryOp, About
  <2> HIDE DEF r, e, c
  <2>4. QED
    BY <1>1, <1>2, <2>1, <2>2, <2>3, MarkStep
<1>6. CASE WriteAttach(a)
  <2> DEFINE link == matter[a].link
             r == [claim[c] EXCEPT !.links = Linked(claim[c].links, link)]
             e == Sealed("evidence_attached", a, <<c, link>>, {}, NoObj)
  <2>1. claim' = [claim EXCEPT ![c] = r] /\ ledger' = Append(ledger, e) /\ matter[a].op = "attach"
    BY <1>6 DEF WriteAttach, Settle, InMatter
  <2>2. link \in Link /\ claim[c].links \in Seq(Link)
    BY <1>1, <2>1 DEF ClaimRecord
  <2>3. Linked(claim[c].links, link) \in Seq(Link)
    BY <2>2, LinkedType
  <2>4. r \in ClaimRecord /\ r.claimant = claim[c].claimant /\ r.status = claim[c].status
        /\ r.rejected = claim[c].rejected /\ r.accepted = claim[c].accepted
    BY <1>1, <2>3 DEF ClaimRecord
  <2>5. e \in Entry /\ e.op = "evidence_attached"
    BY <1>1, <2>2, SealedEntry DEF EntryOp, About
  <2> HIDE DEF r, e, c, link
  <2>6. QED
    BY <1>1, <1>2, <2>1, <2>4, <2>5, MarkStep
<1>7. QED
  BY <1>3, <1>4, <1>5, <1>6

LEMMA WriteReviewStep ==
  ASSUME GovInv, NEW a \in Agent, WriteReview(a) PROVE GovInv' /\ ClaimsHarden
<1> DEFINE c == matter[a].claim
<1>1. PICK r \in Review :
        /\ matter[a] # Absent /\ matter[a].op = "review"
        /\ review' = [review EXCEPT ![r] = [owner |-> a, claim |-> c,
                                            verdict |-> matter[a].verdict,
                                            spaces |-> matter[a].spaces]]
        /\ ledger' = Append(ledger, Sealed("claim_reviewed", a, r, {}, NoObj))
        /\ matter' = [matter EXCEPT ![a] = Absent]
        /\ UNCHANGED <<object, call, claim>>
  BY DEF WriteReview, InMatter, Settle
<1>2. /\ c \in Obj /\ Exists(c) /\ SameTenant(a, object[c].owner)
      /\ matter[a].spaces \subseteq object[c].spaces
  BY <1>1 DEF GovInv, MatterInv
<1>3. Steady
  BY <1>1 DEF Steady, ObjectsGrow, ClaimsHarden, Exists
<1>4. MatterInv' /\ matter' = [b \in Agent |-> matter'[b]]
  BY <1>1, <1>3, MatterStill
<1>5. ReviewInv' /\ review' = [x \in Review |-> review'[x]]
  <2> DEFINE n == [owner |-> a, claim |-> c, verdict |-> matter[a].verdict,
                   spaces |-> matter[a].spaces]
  <2>1. n.owner = a /\ n.claim = c /\ n.spaces = matter[a].spaces
    OBVIOUS
  <2>2. review' = [review EXCEPT ![r] = n]
    BY <1>1
  <2> HIDE DEF n
  <2>3. /\ review' = [x \in Review |-> review'[x]]
        /\ \A x \in Review : review'[x] = IF x = r THEN n ELSE review[x]
    BY <2>2 DEF GovInv, GovernanceType
  <2>4. QED
    BY <1>1, <1>2, <2>1, <2>3 DEF GovInv, ReviewInv, Exists
<1>6. ExistsInv' /\ call' \in [Agent -> Call \cup {Absent}]
  BY <1>1 DEF GovInv, GovernanceType, ExistsInv, Exists
<1>7. ledger' \in Seq(Entry) /\ RecordInv'
  <2>1. PICK e \in Entry : ledger' = Append(ledger, e) /\ e.op = "claim_reviewed"
    BY <1>1, SealedEntry DEF EntryOp, About
  <2>2. QED
    BY <1>1, <2>1, OneMore, RecordsStill
<1>8. QED
  BY <1>1, <1>3, <1>4, <1>5, <1>6, <1>7 DEF GovInv, GovernanceType, Steady
-----------------------------------------------------------------------------
LEMMA GovernanceStep == GovInv /\ [GovernanceNext]_vars => GovInv' /\ ClaimsHarden
<1> SUFFICES ASSUME GovInv, [GovernanceNext]_vars PROVE GovInv' /\ ClaimsHarden
  OBVIOUS
<1>1. CASE GovernanceNext
  <2>1. PICK a \in Agent :
          \/ CreateClaim(a) \/ SpaceStep(a) \/ CreateEvidence(a)
          \/ CheckRetract(a) \/ CheckReview(a) \/ CheckAttach(a) \/ CheckGovern(a)
          \/ WriteRetract(a) \/ WriteReview(a) \/ WriteAccept(a) \/ WriteReject(a)
          \/ WriteAttach(a) \/ FailMatter(a)
    BY <1>1 DEF GovernanceNext
  <2>2. CASE CreateClaim(a)
    BY <2>2, CreateClaimStep
  <2>3. CASE SpaceStep(a)
    <3>1. UNCHANGED claimVars /\ UNCHANGED <<claim, review, matter>>
      BY <2>3 DEF SpaceStep, claimVars
    <3>2. CASE CreateSpace(a) \/ GrantCapability(a) \/ RevokeCapability(a)
      BY <3>1, <3>2, RecordStep
    <3>3. CASE CheckClaim(a) \/ CheckShare(a)
      BY <3>1, <3>3, CheckStep
    <3>4. CASE WritePlacement(a)
      BY <3>1, <3>4, PlacementStep
    <3>5. CASE Fail(a)
      BY <3>1, <3>5, QuietStep DEF Fail, Finish
    <3>6. QED
      BY <2>3, <3>2, <3>3, <3>4, <3>5 DEF SpaceStep
  <2>4. CASE CreateEvidence(a)
    BY <2>4, RecordStep DEF CreateEvidence
  <2>5. CASE CheckRetract(a) \/ CheckReview(a) \/ CheckAttach(a) \/ CheckGovern(a)
    BY <2>5, TakingStep
  <2>6. CASE WriteRetract(a) \/ WriteAccept(a) \/ WriteReject(a) \/ WriteAttach(a)
    BY <2>6, WritingStep
  <2>7. CASE WriteReview(a)
    BY <2>7, WriteReviewStep
  <2>8. CASE FailMatter(a)
    BY <2>8, QuietStep DEF FailMatter, spaceVars
  <2>9. QED
    BY <2>1, <2>2, <2>3, <2>4, <2>5, <2>6, <2>7, <2>8
<1>2. CASE UNCHANGED vars
  BY <1>2, RecordsSame DEF vars, spaceVars, claimVars, GovInv, GovernanceType, ExistsInv,
     MatterInv, ReviewInv, Exists, ClaimsHarden
<1>3. QED
  BY <1>1, <1>2

(* The inductive invariant holds of every behaviour.                        *)
THEOREM GovernanceInvariant == GovernanceSpec => []GovInv
<1>1. GovInv /\ [GovernanceNext]_vars => GovInv'
  BY GovernanceStep
<1>2. QED
  BY <1>1, GovernanceInitial, PTL DEF GovernanceSpec

(* What derive_belief tells any reader of a claim is what the ledger        *)
(* decided, and behind an acceptance is an agent that may accept and whose  *)
(* claim it was not (core/__init__.py retract_claim, accept_claim,          *)
(* reject_claim; claims/belief.py), whatever the calls' checks were worth   *)
(* by the time they wrote.                                                  *)
THEOREM BeliefFollowsLedger == GovernanceSpec => []BeliefIsGoverned
<1>1. GovInv => BeliefIsGoverned
  <2> SUFFICES ASSUME GovInv, NEW c \in Obj, NEW b \in Agent, IsClaim(c)
               PROVE  /\ Belief(b, c) = "RETRACTED" <=> Recorded("claim_retracted", c)
                      /\ Belief(b, c) = "REJECTED" <=> /\ Recorded("claim_rejected", c)
                                                      /\ ~Recorded("claim_retracted", c)
                      /\ Belief(b, c) = "ACCEPTED" => AcceptedFor(c, claim[c].claimant)
    BY DEF BeliefIsGoverned, AcceptedFor
  <2>1. claim[c] # Absent
    BY DEF IsClaim, GovInv, ExistsInv
  <2>2. /\ claim[c].status = "retracted" <=> Recorded("claim_retracted", c)
        /\ claim[c].rejected <=> Recorded("claim_rejected", c)
        /\ claim[c].accepted => AcceptedFor(c, claim[c].claimant)
    BY <2>1 DEF GovInv, RecordInv
  <2>3. QED
    BY <2>2 DEF Belief
<1>2. QED
  BY <1>1, GovernanceInvariant, PTL

(* A reader's belief never goes back from accepted, rejected or retracted   *)
(* (core/__init__.py retract_claim, accept_claim, reject_claim).            *)
THEOREM DecisionsAreFinal == GovernanceSpec => DecisionsStand
<1>1. ASSUME GovInv, [GovernanceNext]_vars, NEW c \in Obj, NEW b \in Agent, IsClaim(c)
      PROVE  Hardness(Belief(b, c)) <= Hardness(Belief(b, c)')
  <2>1. /\ claim[c].status = "retracted" => claim'[c].status = "retracted"
        /\ claim[c].rejected => claim'[c].rejected
        /\ claim[c].accepted => claim'[c].accepted
    <3>1. claim[c] # Absent /\ ClaimsHarden
      BY <1>1, GovernanceStep DEF IsClaim, GovInv, ExistsInv
    <3>2. QED
      BY <3>1 DEF ClaimsHarden
  <2>2. Hardness(Belief(b, c)) = IF claim[c].status = "retracted" THEN 3
                                 ELSE IF claim[c].rejected THEN 2
                                 ELSE IF claim[c].accepted THEN 1 ELSE 0
    BY DEF Belief, Hardness
  <2>3. Hardness(Belief(b, c)') = IF claim'[c].status = "retracted" THEN 3
                                  ELSE IF claim'[c].rejected THEN 2
                                  ELSE IF claim'[c].accepted THEN 1 ELSE 0
    BY DEF Belief, Hardness
  <2>4. QED
    BY <2>1, <2>2, <2>3
<1>2. GovInv /\ [GovernanceNext]_vars =>
        \A c \in Obj, b \in Agent :
          IsClaim(c) => Hardness(Belief(b, c)) <= Hardness(Belief(b, c)')
  BY <1>1
<1>3. QED
  BY <1>2, GovernanceInvariant, PTL DEF GovernanceSpec, DecisionsStand

(* Whoever reads another's review can read the claim (core/__init__.py      *)
(* review_claim copies the placements; authz can_read_object).              *)
THEOREM ReviewsAreInside == GovernanceSpec => []ReviewsStayInside
<1>1. GovInv => ReviewsStayInside
  <2> SUFFICES ASSUME GovInv, NEW r \in Review, NEW b \in Agent,
                      CanReadReview(b, r), review[r].owner # b
               PROVE  CanRead(b, review[r].claim)
    BY DEF ReviewsStayInside
  <2>1. /\ review[r].claim \in Obj /\ Exists(review[r].claim)
        /\ review[r].spaces \subseteq object[review[r].claim].spaces
        /\ SameTenant(review[r].owner, object[review[r].claim].owner)
    BY DEF CanReadReview, GovInv, ReviewInv
  <2>2. QED
    BY <2>1 DEF CanReadReview, CanRead, MayReadPlaced, SameTenant
<1>2. QED
  BY <1>1, GovernanceInvariant, PTL
-----------------------------------------------------------------------------
(* The panel tells again from the ledger what the engine has in its         *)
(* objects: whatever exists was told of, and the links of a claim are those *)
(* that were told, up to the ones its full list has pushed out.             *)
ToldInv ==
  /\ \A c \in Obj : IsClaim(c) => Recorded("claim_asserted", c)
  /\ \A r \in Review : review[r] # Absent => Recorded("claim_reviewed", r)
  /\ \A e \in Evidence : evidence[e] # Absent => Recorded("evidence_recorded", e)
  /\ evidence = [e \in Evidence |-> evidence[e]]

LinksTold(c) ==
  /\ Len(claim[c].links) <= MaxLinks
  /\ \A link \in Link :
       /\ Contains(claim[c].links, link) => Recorded("evidence_attached", <<c, link>>)
       /\ Recorded("evidence_attached", <<c, link>>) =>
            Contains(claim[c].links, link) \/ Len(claim[c].links) = MaxLinks

LinkInv ==
  /\ \A i \in 1 .. Len(ledger) :
       ledger[i].op = "evidence_attached" => ledger[i].about \in Obj \X Link
  /\ \A c \in Obj :
       IF claim[c] = Absent THEN \A link \in Link : ~Recorded("evidence_attached", <<c, link>>)
                            ELSE LinksTold(c)

PanelInv == ToldInv /\ LinkInv

LEMMA PanelInitial == GovernanceInit => PanelInv
  BY DEF GovernanceInit, Init, PanelInv, ToldInv, LinkInv, Recorded, IsClaim, Exists

(* Attaching a link: it is in the list, the list keeps its bound, nothing   *)
(* else came in, and nothing went but from a full list.                     *)
LEMMA LinkedKeeps ==
  ASSUME NEW links \in Seq(Link), NEW link \in Link, Len(links) <= MaxLinks
  PROVE  /\ Contains(Linked(links, link), link)
         /\ Len(Linked(links, link)) <= MaxLinks
         /\ \A x : Contains(Linked(links, link), x) => Contains(links, x) \/ x = link
         /\ \A x : Contains(links, x) =>
              Contains(Linked(links, link), x) \/ Len(Linked(links, link)) = MaxLinks
         /\ Len(links) <= Len(Linked(links, link))
<1>1. MaxLinks \in Nat \ {0} /\ Len(links) \in Nat
  BY MaxLinksAssumption
<1> DEFINE every == IF Contains(links, link) THEN links ELSE Append(links, link)
           from == IF Len(every) > MaxLinks THEN Len(every) - MaxLinks + 1 ELSE 1
<1>2. Linked(links, link) = SubSeq(every, from, Len(every))
  BY DEF Linked
<1>3. CASE Contains(links, link)
  <2>1. every = links /\ from = 1
    BY <1>1, <1>3
  <2> HIDE DEF every, from
  <2>2. Linked(links, link) = links
    BY <1>2, <2>1
  <2>3. QED
    BY <1>3, <2>2
<1>4. CASE ~Contains(links, link)
  <2> DEFINE all == Append(links, link)
             n == Len(links)
  <2>1. /\ all \in Seq(Link) /\ Len(all) = n + 1 /\ all[n + 1] = link
        /\ \A i \in 1 .. n : all[i] = links[i]
    OBVIOUS
  <2>2. \A x : Contains(all, x) <=> Contains(links, x) \/ x = link
    <3>1. \A i : i \in 1 .. n + 1 <=> i \in 1 .. n \/ i = n + 1
      BY <1>1
    <3>2. QED
      BY <2>1, <3>1 DEF Contains
  <2>3. CASE n < MaxLinks
    <3>1. every = all /\ from = 1
      BY <1>1, <1>4, <2>1, <2>3
    <3>2. Linked(links, link) = all
      <4> HIDE DEF every, from
      <4>1. QED
        BY <1>2, <3>1, <2>1
    <3>3. QED
      BY <1>1, <2>1, <2>2, <2>3, <3>2
  <2>4. CASE n = MaxLinks
    <3> DEFINE new == SubSeq(all, 2, n + 1)
    <3>1. Linked(links, link) = new
      <4>1. every = all /\ from = 2
        BY <1>1, <1>4, <2>1, <2>4
      <4> HIDE DEF every, from
      <4>2. QED
        BY <1>2, <4>1, <2>1
    <3>2. Len(new) = n /\ \A i \in 1 .. n : new[i] = all[i + 1]
      BY <1>1, <2>1
    <3>3. Contains(new, link)
      BY <1>1, <2>1, <2>4, <3>2 DEF Contains
    <3>4. \A x : Contains(new, x) => Contains(all, x)
      <4>1. \A i \in 1 .. n : i + 1 \in 1 .. n + 1
        BY <1>1
      <4>2. QED
        BY <2>1, <3>2, <4>1 DEF Contains
    <3> HIDE DEF new, all
    <3>5. QED
      BY <1>1, <2>2, <2>4, <3>1, <3>2, <3>3, <3>4
  <2>5. QED
    BY <1>1, <2>3, <2>4
<1>5. QED
  BY <1>3, <1>4

(* Every step but the attaching of a link.                                  *)
LEMMA PanelStill ==
  ASSUME GovInv, PanelInv,
         \/ ledger' = ledger
         \/ \E e \in Entry : ledger' = Append(ledger, e) /\ e.op # "evidence_attached",
         \A o \in Obj : IsClaim(o)' => IsClaim(o) \/ Recorded("claim_asserted", o)',
         \A r \in Review : review'[r] # Absent =>
           review[r] # Absent \/ Recorded("claim_reviewed", r)',
         \A d \in Evidence : evidence'[d] # Absent =>
           evidence[d] # Absent \/ Recorded("evidence_recorded", d)',
         evidence' = [d \in Evidence |-> evidence'[d]],
         \A c \in Obj : claim[c] = Absent => claim'[c] = Absent \/ claim'[c].links = << >>,
         \A c \in Obj : claim[c] # Absent =>
           claim'[c] # Absent /\ claim'[c].links = claim[c].links
  PROVE  PanelInv'
<1>1. \A op, about :
        /\ Recorded(op, about) => Recorded(op, about)'
        /\ op = "evidence_attached" => (Recorded(op, about)' <=> Recorded(op, about))
  <2>1. CASE ledger' = ledger
    BY <2>1 DEF Recorded
  <2>2. ASSUME NEW e \in Entry, ledger' = Append(ledger, e), e.op # "evidence_attached"
        PROVE  \A op, about :
                 /\ Recorded(op, about) => Recorded(op, about)'
                 /\ op = "evidence_attached" => (Recorded(op, about)' <=> Recorded(op, about))
    BY <2>2, OneMore
  <2>3. QED
    BY <2>1, <2>2
<1>2. ToldInv'
  BY <1>1 DEF PanelInv, ToldInv
<1>3. \A i \in 1 .. Len(ledger') :
        ledger'[i].op = "evidence_attached" => ledger'[i].about \in Obj \X Link
  <2>1. CASE ledger' = ledger
    BY <2>1 DEF PanelInv, LinkInv
  <2>2. ASSUME NEW e \in Entry, ledger' = Append(ledger, e), e.op # "evidence_attached"
        PROVE  \A i \in 1 .. Len(ledger') :
                 ledger'[i].op = "evidence_attached" => ledger'[i].about \in Obj \X Link
    <3>1. /\ Len(ledger) \in Nat /\ Len(ledger') = Len(ledger) + 1
          /\ ledger'[Len(ledger) + 1] = e
          /\ \A i \in 1 .. Len(ledger) : ledger'[i] = ledger[i]
      BY <2>2 DEF GovInv, GovernanceType
    <3>2. \A i \in 1 .. Len(ledger') : i \in 1 .. Len(ledger) \/ i = Len(ledger) + 1
      BY <3>1
    <3>3. QED
      BY <2>2, <3>1, <3>2 DEF PanelInv, LinkInv
  <2>3. QED
    BY <2>1, <2>2
<1>4. ASSUME NEW c \in Obj
      PROVE  IF claim'[c] = Absent
               THEN \A link \in Link : ~Recorded("evidence_attached", <<c, link>>)'
               ELSE LinksTold(c)'
  <2>1. CASE claim[c] = Absent /\ claim'[c] = Absent
    BY <2>1, <1>1 DEF PanelInv, LinkInv
  <2>2. CASE claim[c] = Absent /\ claim'[c] # Absent
    BY <2>2, <1>1, MaxLinksAssumption DEF PanelInv, LinkInv, LinksTold, Contains
  <2>3. CASE claim[c] # Absent
    BY <2>3, <1>1 DEF PanelInv, LinkInv, LinksTold
  <2>4. QED
    BY <2>1, <2>2, <2>3
<1>5. QED
  BY <1>2, <1>3, <1>4 DEF PanelInv, LinkInv

LEMMA AttachStep ==
  ASSUME GovInv, PanelInv, NEW a \in Agent, WriteAttach(a)
  PROVE  PanelInv'
<1>1. PICK c \in Obj, link \in Link :
        /\ claim[c] \in ClaimRecord /\ claim[c] # Absent
        /\ claim' = [claim EXCEPT ![c].links = Linked(claim[c].links, link)]
        /\ ledger' = Append(ledger, Sealed("evidence_attached", a, <<c, link>>, {}, NoObj))
        /\ UNCHANGED <<object, review, evidence>>
  BY DEF WriteAttach, Settle, InMatter, GovInv, GovernanceType, MatterInv, ExistsInv
<1> DEFINE new == Linked(claim[c].links, link)
           e == Sealed("evidence_attached", a, <<c, link>>, {}, NoObj)
<1>2. claim[c].links \in Seq(Link) /\ Len(claim[c].links) <= MaxLinks
  BY <1>1 DEF ClaimRecord, PanelInv, LinkInv, LinksTold
<1>3. new \in Seq(Link)
  BY <1>1, <1>2, LinkedType
<1>4. /\ claim'[c] # Absent /\ claim'[c].links = new
      /\ \A x \in Obj : x # c => claim'[x] = claim[x]
  <2> DEFINE r == [claim[c] EXCEPT !.links = new]
  <2>1. r \in ClaimRecord /\ r.links = new
    BY <1>1, <1>3 DEF ClaimRecord
  <2>2. claim' = [claim EXCEPT ![c] = r]
    BY <1>1
  <2> HIDE DEF r
  <2>3. QED
    BY <1>1, <2>1, <2>2, ClaimAssumption DEF GovInv, GovernanceType
<1>5. /\ e \in Entry /\ e.op = "evidence_attached" /\ e.about = <<c, link>>
      /\ ledger' = Append(ledger, e)
  BY <1>1, SealedEntry DEF EntryOp, About
<1> HIDE DEF e
<1>6. \A op, about : Recorded(op, about)' <=>
        Recorded(op, about) \/ (op = "evidence_attached" /\ about = <<c, link>>)
  BY <1>1, <1>5, OneMore
<1>7. ToldInv'
  BY <1>1, <1>6 DEF PanelInv, ToldInv, IsClaim, Exists
<1>8. \A i \in 1 .. Len(ledger') :
        ledger'[i].op = "evidence_attached" => ledger'[i].about \in Obj \X Link
  <2>1. /\ Len(ledger) \in Nat /\ Len(ledger') = Len(ledger) + 1
        /\ ledger'[Len(ledger) + 1] = e
        /\ \A i \in 1 .. Len(ledger) : ledger'[i] = ledger[i]
    BY <1>1, <1>5 DEF GovInv, GovernanceType
  <2>2. \A i \in 1 .. Len(ledger') : i \in 1 .. Len(ledger) \/ i = Len(ledger) + 1
    BY <2>1
  <2>3. QED
    BY <1>1, <1>5, <2>1, <2>2 DEF PanelInv, LinkInv
<1>9. LinksTold(c)'
  <2>1. /\ Contains(new, link) /\ Len(new) <= MaxLinks
        /\ \A x : Contains(new, x) => Contains(claim[c].links, x) \/ x = link
        /\ \A x : Contains(claim[c].links, x) => Contains(new, x) \/ Len(new) = MaxLinks
        /\ Len(claim[c].links) <= Len(new)
    BY <1>1, <1>2, LinkedKeeps
  <2>2. LinksTold(c)
    BY <1>1 DEF PanelInv, LinkInv
  <2>3. Len(claim[c].links) = MaxLinks => Len(new) = MaxLinks
    BY <1>2, <1>3, <2>1, MaxLinksAssumption
  <2> HIDE DEF new
  <2>4. QED
    BY <1>1, <1>4, <1>6, <2>1, <2>2, <2>3 DEF LinksTold
<1>10. ASSUME NEW x \in Obj, x # c
       PROVE  IF claim'[x] = Absent
                THEN \A l \in Link : ~Recorded("evidence_attached", <<x, l>>)'
                ELSE LinksTold(x)'
  <2>1. \A l : Recorded("evidence_attached", <<x, l>>)' <=> Recorded("evidence_attached", <<x, l>>)
    BY <1>6, <1>10
  <2>2. claim'[x] = claim[x]
    BY <1>4, <1>10
  <2>3. QED
    BY <2>1, <2>2 DEF PanelInv, LinkInv, LinksTold
<1>11. QED
  BY <1>4, <1>7, <1>8, <1>9, <1>10 DEF PanelInv, LinkInv

LEMMA PanelStep == GovInv /\ PanelInv /\ [GovernanceNext]_vars => PanelInv'
<1> SUFFICES ASSUME GovInv, PanelInv, [GovernanceNext]_vars PROVE PanelInv'
  OBVIOUS
<1> DEFINE Appends(op, about) ==
             \E e \in Entry : ledger' = Append(ledger, e) /\ e.op = op /\ e.about = about
           Quietly == ledger' = ledger \/ \E op \in EntryOp, about \in About :
                        op # "evidence_attached" /\ Appends(op, about)
<1>1. evidence = [d \in Evidence |-> evidence[d]]
  BY DEF PanelInv, ToldInv
<1>2. ASSUME NEW op \in EntryOp, NEW a \in Agent, NEW about \in About,
             NEW into \in SUBSET Space,
             ledger' = Append(ledger, Sealed(op, a, about, into, NoObj))
      PROVE  Appends(op, about)
  BY <1>2, SealedEntry
<1>3. ASSUME NEW op, NEW about, Appends(op, about) PROVE Recorded(op, about)'
  BY <1>3, OneMore
<1>4. Quietly => \/ ledger' = ledger
                 \/ \E e \in Entry : ledger' = Append(ledger, e) /\ e.op # "evidence_attached"
  OBVIOUS
<1>5. ASSUME NEW a \in Agent, CreateClaim(a) PROVE PanelInv'
  <2>1. PICK claimant \in Agent, o \in Obj, kind \in {"fact", "claim"} :
          /\ call[a] # Absent /\ ~Exists(o)
          /\ object' = [object EXCEPT ![o] = NewObject(kind, a, call[a].dest)]
          /\ ledger' = Append(ledger, Sealed(IF kind = "fact" THEN "fact_asserted"
                                                              ELSE "claim_asserted",
                                             a, o, call[a].dest, NoObj))
          /\ claim' = [x \in Obj |-> IF claim[x] = Absent /\ object'[x] # Absent
                                     THEN NewClaim(claimant) ELSE claim[x]]
          /\ UNCHANGED <<review, evidence>>
    BY <1>5 DEF CreateClaim, WriteNew
  <2> DEFINE op == IF kind = "fact" THEN "fact_asserted" ELSE "claim_asserted"
  <2>2. call[a].dest \in SUBSET Space
    BY <2>1 DEF GovInv, GovernanceType, Call
  <2>3. op \in EntryOp /\ o \in About /\ op # "evidence_attached"
    BY DEF EntryOp, About
  <2>4. Appends(op, o)
    BY <2>1, <2>2, <2>3, <1>2
  <2>5. Recorded(op, o)'
    BY <2>4, <1>3
  <2>6. \A x \in Obj : IsClaim(x)' => IsClaim(x) \/ Recorded("claim_asserted", x)'
    <3>1. \A x \in Obj : x # o => object'[x] = object[x]
      BY <2>1 DEF GovInv, GovernanceType
    <3>2. object'[o].kind = kind
      BY <2>1 DEF GovInv, GovernanceType, NewObject
    <3>3. IsClaim(o)' => Recorded("claim_asserted", o)'
      BY <2>5, <3>2 DEF IsClaim
    <3>4. QED
      BY <3>1, <3>3 DEF IsClaim, Exists
  <2>7. \A c \in Obj : /\ claim[c] = Absent => claim'[c] = Absent \/ claim'[c].links = << >>
                       /\ claim[c] # Absent => claim'[c] = claim[c]
    BY <2>1 DEF NewClaim
  <2>8. Quietly
    BY <2>3, <2>4
  <2> HIDE DEF Quietly
  <2>9. QED
    BY <2>1, <2>6, <2>7, <2>8, <1>1, <1>4, PanelStill
<1>6. ASSUME NEW a \in Agent, UNCHANGED <<object, claim, review, evidence>>, Quietly
      PROVE  PanelInv'
  <2> HIDE DEF Quietly
  <2>1. QED
    BY <1>1, <1>4, <1>6, PanelStill DEF IsClaim, Exists
<1>7. ASSUME NEW a \in Agent, SpaceStep(a) PROVE PanelInv'
  <2>1. UNCHANGED <<claim, review, evidence>>
    BY <1>7 DEF SpaceStep, claimVars
  <2>2. CASE CreateSpace(a) \/ GrantCapability(a) \/ RevokeCapability(a)
    <3>1. UNCHANGED object
      BY <2>2 DEF CreateSpace, GrantCapability, RevokeCapability
    <3>2. PICK op \in EntryOp \ {"evidence_attached"}, about \in About :
            ledger' = Append(ledger, Sealed(op, a, about, {}, NoObj))
      <4>1. CASE CreateSpace(a)
        BY <4>1 DEF CreateSpace, EntryOp, About
      <4>2. CASE GrantCapability(a)
        BY <4>2 DEF GrantCapability, EntryOp, About
      <4>3. CASE RevokeCapability(a)
        BY <4>3 DEF RevokeCapability, EntryOp, About
      <4>4. QED
        BY <2>2, <4>1, <4>2, <4>3
    <3>3. Quietly
      BY <3>2, <1>2
    <3>4. QED
      BY <2>1, <3>1, <3>3, <1>6
  <2>3. CASE CheckClaim(a) \/ CheckShare(a) \/ Fail(a)
    <3>1. UNCHANGED <<object, ledger>>
      BY <2>3 DEF CheckClaim, CheckShare, Check, Fail
    <3>2. QED
      BY <2>1, <3>1, <1>6
  <2>4. CASE WritePlacement(a)
    <3>1. PICK op \in {"knowledge_shared", "knowledge_promoted"} :
            /\ call[a] # Absent /\ call[a].op \in {"share", "promote"}
            /\ object' = [object EXCEPT ![call[a].obj].spaces = @ \cup call[a].dest]
            /\ ledger' = Append(ledger, Sealed(op, a, call[a].obj, call[a].dest, NoObj))
      BY <2>4 DEF WritePlacement
    <3>2. PICK o \in Obj : o = call[a].obj /\ Exists(o)
      BY <3>1 DEF GovInv, ExistsInv
    <3>3. call[a].dest \in SUBSET Space /\ object[o] \in Object
      BY <3>1, <3>2 DEF GovInv, GovernanceType, Call, Exists
    <3>4. \A x \in Obj : IsClaim(x)' => IsClaim(x)
      BY <3>1, <3>2, <3>3 DEF IsClaim, Exists, Object, GovInv, GovernanceType
    <3>5. op \in EntryOp \ {"evidence_attached"} /\ o \in About
      BY DEF EntryOp, About
    <3>6. Quietly
      BY <3>1, <3>2, <3>3, <3>5, <1>2
    <3> HIDE DEF Quietly
    <3>7. QED
      BY <2>1, <3>4, <3>6, <1>1, <1>4, PanelStill
  <2>5. QED
    BY <1>7, <2>2, <2>3, <2>4 DEF SpaceStep
<1>8. ASSUME NEW a \in Agent, CreateEvidence(a) PROVE PanelInv'
  <2>1. PICK d \in Evidence, dest \in SUBSET Space :
          /\ evidence' = [evidence EXCEPT ![d] = [owner |-> a, spaces |-> dest]]
          /\ ledger' = Append(ledger, Sealed("evidence_recorded", a, d, dest, NoObj))
          /\ UNCHANGED <<object, claim, review>>
    BY <1>8 DEF CreateEvidence
  <2>2. "evidence_recorded" \in EntryOp /\ d \in About
    BY DEF EntryOp, About
  <2>3. Appends("evidence_recorded", d)
    BY <2>1, <2>2, <1>2
  <2>4. Recorded("evidence_recorded", d)'
    BY <2>3, <1>3
  <2>5. /\ evidence' = [x \in Evidence |-> evidence'[x]]
        /\ \A x \in Evidence : x # d => evidence'[x] = evidence[x]
    BY <2>1, <1>1
  <2>6. Quietly
    BY <2>2, <2>3
  <2> HIDE DEF Quietly
  <2>7. QED
    BY <2>1, <2>4, <2>5, <2>6, <1>4, PanelStill DEF IsClaim, Exists
<1>9. ASSUME NEW a \in Agent,
             \/ CheckRetract(a) \/ CheckReview(a) \/ CheckAttach(a) \/ CheckGovern(a)
             \/ FailMatter(a)
      PROVE  PanelInv'
  <2>1. UNCHANGED <<object, claim, review, evidence, ledger>>
    BY <1>9 DEF CheckRetract, CheckReview, CheckAttach, CheckGovern, FailMatter, Take, spaceVars
  <2>2. QED
    BY <2>1, <1>6
<1>10. ASSUME NEW a \in Agent, WriteRetract(a) \/ WriteAccept(a) \/ WriteReject(a)
       PROVE  PanelInv'
  <2>1. PICK c \in Obj, op \in {"claim_retracted", "claim_accepted", "claim_rejected"} :
          /\ \/ claim' = [claim EXCEPT ![c].status = "retracted"]
             \/ claim' = [claim EXCEPT ![c].accepted = TRUE]
             \/ claim' = [claim EXCEPT ![c].rejected = TRUE]
          /\ ledger' = Append(ledger, Sealed(op, a, c, {}, NoObj))
          /\ claim[c] # Absent
          /\ UNCHANGED <<object, review, evidence>>
    BY <1>10 DEF WriteRetract, WriteAccept, WriteReject, InMatter, Settle, GovInv, MatterInv,
       ExistsInv
  <2>2. claim[c] \in ClaimRecord
    BY <2>1 DEF GovInv, GovernanceType
  <2>3. /\ claim'[c] \in ClaimRecord /\ claim'[c].links = claim[c].links
        /\ \A x \in Obj : x # c => claim'[x] = claim[x]
    <3>1. CASE claim' = [claim EXCEPT ![c].status = "retracted"]
      <4> DEFINE r == [claim[c] EXCEPT !.status = "retracted"]
      <4>1. r \in ClaimRecord /\ r.links = claim[c].links
        BY <2>2 DEF ClaimRecord
      <4>2. claim' = [claim EXCEPT ![c] = r]
        BY <3>1
      <4> HIDE DEF r
      <4>3. QED
        BY <4>1, <4>2 DEF GovInv, GovernanceType
    <3>2. CASE claim' = [claim EXCEPT ![c].accepted = TRUE]
      <4> DEFINE r == [claim[c] EXCEPT !.accepted = TRUE]
      <4>1. r \in ClaimRecord /\ r.links = claim[c].links
        BY <2>2 DEF ClaimRecord
      <4>2. claim' = [claim EXCEPT ![c] = r]
        BY <3>2
      <4> HIDE DEF r
      <4>3. QED
        BY <4>1, <4>2 DEF GovInv, GovernanceType
    <3>3. CASE claim' = [claim EXCEPT ![c].rejected = TRUE]
      <4> DEFINE r == [claim[c] EXCEPT !.rejected = TRUE]
      <4>1. r \in ClaimRecord /\ r.links = claim[c].links
        BY <2>2 DEF ClaimRecord
      <4>2. claim' = [claim EXCEPT ![c] = r]
        BY <3>3
      <4> HIDE DEF r
      <4>3. QED
        BY <4>1, <4>2 DEF GovInv, GovernanceType
    <3>4. QED
      BY <2>1, <3>1, <3>2, <3>3
  <2>4. op \in EntryOp \ {"evidence_attached"} /\ c \in About
    BY DEF EntryOp, About
  <2>5. Quietly
    BY <2>1, <2>4, <1>2
  <2> HIDE DEF Quietly
  <2>6. \A x \in Obj : /\ claim[x] = Absent => claim'[x] = Absent
                       /\ claim[x] # Absent =>
                            claim'[x] # Absent /\ claim'[x].links = claim[x].links
    BY <2>1, <2>3, ClaimAssumption
  <2>7. QED
    BY <2>1, <2>5, <2>6, <1>1, <1>4, PanelStill DEF IsClaim, Exists
<1>11. ASSUME NEW a \in Agent, WriteReview(a) PROVE PanelInv'
  <2>1. PICK r \in Review :
          /\ \E n : review' = [review EXCEPT ![r] = n]
          /\ ledger' = Append(ledger, Sealed("claim_reviewed", a, r, {}, NoObj))
          /\ UNCHANGED <<object, claim, evidence>>
    BY <1>11 DEF WriteReview, Settle
  <2>2. "claim_reviewed" \in EntryOp /\ r \in About
    BY DEF EntryOp, About
  <2>3. Appends("claim_reviewed", r)
    BY <2>1, <2>2, <1>2
  <2>4. Recorded("claim_reviewed", r)'
    BY <2>3, <1>3
  <2>5. \A x \in Review : x # r => review'[x] = review[x]
    BY <2>1 DEF GovInv, GovernanceType
  <2>6. Quietly
    BY <2>2, <2>3
  <2> HIDE DEF Quietly
  <2>7. QED
    BY <2>1, <2>4, <2>5, <2>6, <1>1, <1>4, PanelStill DEF IsClaim, Exists
<1>12. CASE UNCHANGED vars
  BY <1>12, <1>1, PanelStill DEF vars, spaceVars, claimVars, IsClaim, Exists
<1>13. QED
  BY <1>5, <1>7, <1>8, <1>9, <1>10, <1>11, <1>12, AttachStep DEF GovernanceNext
-----------------------------------------------------------------------------
(* What the panel tells from the ledger is in every reachable state what    *)
(* the engine's objects hold, whatever calls are in flight.                 *)
THEOREM PanelInvariant == GovernanceSpec => [](GovInv /\ PanelInv)
<1>1. GovernanceInit => GovInv /\ PanelInv
  BY GovernanceInitial, PanelInitial
<1>2. GovInv /\ PanelInv /\ [GovernanceNext]_vars => (GovInv /\ PanelInv)'
  BY GovernanceStep, PanelStep
<1>3. QED
  BY <1>1, <1>2, PTL DEF GovernanceSpec

LEMMA ToldIsRecorded ==
  ASSUME NEW op, NEW about
  PROVE  about \in Told(Len(ledger), op) <=> Recorded(op, about)
  BY DEF Told, Recorded

(* attach_evidence: a link that was recorded is on its claim for every      *)
(* reader of the evidence, unless the claim's list is full.                 *)
THEOREM EvidenceIsKept == GovernanceSpec => []EvidenceStaysLinked
<1>1. GovInv /\ PanelInv => EvidenceStaysLinked
  <2> SUFFICES ASSUME GovInv, PanelInv, NEW i \in 1 .. Len(ledger), NEW b \in Agent,
                      ledger[i].op = "evidence_attached",
                      CanReadEvidence(b, ledger[i].about[2].evidence)
               PROVE  \/ ledger[i].about[2] \in EvidenceSeen(b, ledger[i].about[1])
                      \/ Len(claim[ledger[i].about[1]].links) = MaxLinks
    BY DEF EvidenceStaysLinked
  <2>1. PICK c \in Obj, link \in Link : ledger[i].about = <<c, link>>
    BY DEF PanelInv, LinkInv
  <2>2. Recorded("evidence_attached", <<c, link>>)
    BY <2>1 DEF Recorded
  <2>3. LinksTold(c)
    BY <2>2 DEF PanelInv, LinkInv
  <2>4. Contains(claim[c].links, link) \/ Len(claim[c].links) = MaxLinks
    BY <2>2, <2>3 DEF LinksTold
  <2>5. claim[c].links \in Seq(Link)
    <3>1. claim[c] # Absent
      BY <2>2 DEF PanelInv, LinkInv
    <3>2. QED
      BY <3>1 DEF GovInv, GovernanceType, ClaimRecord
  <2>6. Contains(claim[c].links, link) => link \in ToSet(claim[c].links)
    BY <2>5 DEF Contains, ToSet
  <2>7. QED
    BY <2>1, <2>4, <2>6 DEF EvidenceSeen
<1>2. QED
  BY <1>1, PanelInvariant, PTL

(* api/panel.py: the graph told again from the whole ledger is the live     *)
(* graph, up to links a full list pushed out, and the belief behind the     *)
(* counters is the one derive_belief derives.                               *)
THEOREM PanelIsTheEngine == GovernanceSpec => []PanelAgrees
<1>1. ASSUME GovInv, PanelInv, NEW a \in Agent
      PROVE  LET live == LiveGraph(a)
                 told == GraphAsOf(a, Len(ledger))
             IN  /\ told.nodes = live.nodes /\ told.status = live.status
                 /\ live.edges \subseteq told.edges
                 /\ \A e \in told.edges \ live.edges : Len(claim[e.to].links) = MaxLinks
                 /\ \A c \in live.nodes \cap Obj : PanelBelief(a, c) = Belief(a, c)
  <2> DEFINE nodes == ReadableNodes(a)
             existed == AsOfState(Len(ledger)).existed
             links == UNION {{LinkEdge(c, claim[c].links[i]) : i \in DOMAIN claim[c].links} :
                               c \in nodes \cap Obj}
             toldLinks == {LinkEdge(l[1], l[2]) : l \in Told(Len(ledger), "evidence_attached")}
             reviews == ReviewEdges(nodes)
  <2>1. nodes \subseteq existed
    <3>1. \A x \in nodes : \/ Recorded("claim_asserted", x)
                           \/ Recorded("claim_reviewed", x)
                           \/ Recorded("evidence_recorded", x)
      BY <1>1 DEF ReadableNodes, PanelInv, ToldInv, CanReadReview, CanReadEvidence
    <3>2. QED
      BY <3>1, ToldIsRecorded DEF AsOfState
  <2>2. \A c \in nodes \cap Obj : IsClaim(c) /\ claim[c] # Absent /\ claim[c] \in ClaimRecord
    BY <1>1, KindsAreDisjoint
    DEF ReadableNodes, IsClaim, GovInv, GovernanceType, ExistsInv
  <2>3. \A c \in nodes \cap Obj :
          claim[c].status = IF c \in Told(Len(ledger), "claim_retracted")
                              THEN "retracted" ELSE "open"
    <3> SUFFICES ASSUME NEW c \in nodes \cap Obj
                 PROVE  claim[c].status = IF c \in Told(Len(ledger), "claim_retracted")
                                            THEN "retracted" ELSE "open"
      OBVIOUS
    <3>1. claim[c].status \in {"open", "retracted"}
      BY <2>2 DEF ClaimRecord
    <3>2. claim[c].status = "retracted" <=> Recorded("claim_retracted", c)
      BY <1>1, <2>2 DEF GovInv, RecordInv
    <3>3. QED
      BY <3>1, <3>2, ToldIsRecorded
  <2>4. links \subseteq toldLinks
    <3> SUFFICES ASSUME NEW c \in nodes \cap Obj, NEW i \in DOMAIN claim[c].links
                 PROVE  LinkEdge(c, claim[c].links[i]) \in toldLinks
      OBVIOUS
    <3> DEFINE link == claim[c].links[i]
    <3>1. link \in Link /\ Contains(claim[c].links, link)
      BY <2>2 DEF ClaimRecord, Contains
    <3>2. Recorded("evidence_attached", <<c, link>>)
      BY <1>1, <2>2, <3>1 DEF PanelInv, LinkInv, LinksTold
    <3>3. <<c, link>> \in Told(Len(ledger), "evidence_attached")
      BY <3>2, ToldIsRecorded
    <3>4. QED
      BY <3>3
  <2>5. ASSUME NEW e \in toldLinks, e.to \in nodes
        PROVE  e \in links \/ Len(claim[e.to].links) = MaxLinks
    <3>1. PICK l \in Told(Len(ledger), "evidence_attached") : e = LinkEdge(l[1], l[2])
      OBVIOUS
    <3>2. Recorded("evidence_attached", l)
      BY ToldIsRecorded
    <3>3. PICK c \in Obj, link \in Link : l = <<c, link>>
      BY <1>1, <3>2 DEF Recorded, PanelInv, LinkInv
    <3>4. e = LinkEdge(c, link) /\ e.to = c
      BY <3>1, <3>3 DEF LinkEdge
    <3>5. Contains(claim[c].links, link) \/ Len(claim[c].links) = MaxLinks
      BY <1>1, <2>2, <2>5, <3>2, <3>3, <3>4 DEF PanelInv, LinkInv, LinksTold
    <3>6. ASSUME Contains(claim[c].links, link) PROVE e \in links
      <4>1. PICK i \in DOMAIN claim[c].links : claim[c].links[i] = link
        BY <2>2, <2>5, <3>4, <3>6 DEF Contains, ClaimRecord
      <4>2. QED
        BY <2>5, <3>4, <4>1
    <3>7. QED
      BY <3>4, <3>5, <3>6
  <2>6. LiveGraph(a) = [nodes |-> nodes,
                        status |-> [c \in nodes \cap Obj |-> claim[c].status],
                        edges |-> Among(links \cup reviews, nodes)]
    BY DEF LiveGraph
  <2>7. GraphAsOf(a, Len(ledger)) =
          [nodes |-> nodes,
           status |-> [c \in nodes \cap Obj |->
                         IF c \in Told(Len(ledger), "claim_retracted")
                           THEN "retracted" ELSE "open"],
           edges |-> Among(toldLinks \cup reviews, nodes)]
    <3>1. nodes \cap existed = nodes
      BY <2>1
    <3>2. /\ AsOfState(Len(ledger)).retracted = Told(Len(ledger), "claim_retracted")
          /\ AsOfState(Len(ledger)).links = Told(Len(ledger), "evidence_attached")
      BY DEF AsOfState
    <3> HIDE DEF nodes, existed, reviews
    <3>3. QED
      BY <3>1, <3>2 DEF GraphAsOf, nodes, existed, reviews
  <2>8. \A c \in nodes \cap Obj : PanelBelief(a, c) = Belief(a, c)
    <3> SUFFICES ASSUME NEW c \in nodes \cap Obj PROVE PanelBelief(a, c) = Belief(a, c)
      OBVIOUS
    <3>1. \A q \in Review : q \in nodes <=> CanReadReview(a, q)
      BY KindsAreDisjoint DEF ReadableNodes
    <3>2. {q \in nodes \cap Review : review[q].claim = c} = ReadableReviews(a, c)
      BY <3>1 DEF ReadableReviews
    <3>3. claim[c].status \in {"open", "retracted"} /\ claim[c].accepted \in BOOLEAN
          /\ claim[c].rejected \in BOOLEAN
      BY <2>2 DEF ClaimRecord
    <3> HIDE DEF nodes
    <3>4. QED
      BY <3>2, <3>3 DEF PanelBelief, Belief, nodes
  <2> HIDE DEF nodes, links, toldLinks, reviews
  <2>9. [c \in nodes \cap Obj |-> claim[c].status] =
          [c \in nodes \cap Obj |-> IF c \in Told(Len(ledger), "claim_retracted")
                                      THEN "retracted" ELSE "open"]
    BY <2>3
  <2>10. Among(links \cup reviews, nodes) \subseteq Among(toldLinks \cup reviews, nodes)
    BY <2>4 DEF Among
  <2>11. \A e \in Among(toldLinks \cup reviews, nodes) \ Among(links \cup reviews, nodes) :
           Len(claim[e.to].links) = MaxLinks
    BY <2>5 DEF Among
  <2> DEFINE live == LiveGraph(a)
             told == GraphAsOf(a, Len(ledger))
  <2>12. /\ live.nodes = nodes /\ live.status = [c \in nodes \cap Obj |-> claim[c].status]
         /\ live.edges = Among(links \cup reviews, nodes)
    BY <2>6
  <2>13. /\ told.nodes = nodes /\ told.edges = Among(toldLinks \cup reviews, nodes)
         /\ told.status = [c \in nodes \cap Obj |->
                             IF c \in Told(Len(ledger), "claim_retracted")
                               THEN "retracted" ELSE "open"]
    BY <2>7
  <2>14. told.status = live.status
    BY <2>9, <2>12, <2>13
  <2> HIDE DEF live, told
  <2>15. /\ told.nodes = live.nodes /\ live.edges \subseteq told.edges
         /\ \A e \in told.edges \ live.edges : Len(claim[e.to].links) = MaxLinks
         /\ \A c \in live.nodes \cap Obj : PanelBelief(a, c) = Belief(a, c)
    BY <2>8, <2>10, <2>11, <2>12, <2>13
  <2>16. QED
    BY <2>14, <2>15 DEF live, told
<1>2. GovInv /\ PanelInv => PanelAgrees
  BY <1>1 DEF PanelAgrees
<1>3. QED
  BY <1>2, PanelInvariant, PTL
=============================================================================
