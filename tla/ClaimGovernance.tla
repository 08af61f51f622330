--------------------------- MODULE ClaimGovernance ---------------------------
(***************************************************************************)
(* What becomes of a claim: evidence, reviews, acceptance, rejection and    *)
(* retraction (core/__init__.py: create_claim .. explain_claim), and the    *)
(* belief each reader derives from them (claims/belief.py).                 *)
(*                                                                          *)
(* Claims are objects of KnowledgeSpaces, so they are shared, promoted and  *)
(* lost from sight while the calls of this module are in flight.  As there, *)
(* a call checks on the state it finds, and writes later; what it read and  *)
(* will write is in matter.                                                 *)
(***************************************************************************)
EXTENDS KnowledgeSpaces, SequencesExt

CONSTANTS Acceptor,  \* agents with the capability knowledge.accept
          Review, Evidence, \* ids new_id can hand out
          Verdict,   \* the verdicts a run uses
          MaxLinks   \* links kept on a claim (_MAX_ANNOTATIONS, 256)

ASSUME AcceptorAssumption == Acceptor \subseteq Agent
ASSUME VerdictAssumption == Verdict \subseteq {"confirm", "dispute", "reject", "abstain"}
ASSUME MaxLinksAssumption == MaxLinks \in Nat \ {0}

VARIABLES claim,    \* what a claim has besides owner and placements
          review,   \* the reviews, objects of their own
          evidence, \* the pieces of evidence, objects of their own
          matter    \* the governance call each agent has in flight

claimVars == <<claim, review, evidence, matter>>
vars == <<spaceVars, claimVars>>

(* accepted, rejected: the markers in the claim's metadata.                 *)
Link == [evidence : Evidence, relation : {"supports", "contradicts"}]
ClaimRecord == [claimant : Agent, status : {"open", "retracted"}, accepted : BOOLEAN,
                rejected : BOOLEAN, links : Seq(Link)]

ASSUME ClaimAssumption == Absent \notin ClaimRecord

NewClaim(claimant) ==
  [claimant |-> claimant, status |-> "open",
   accepted |-> FALSE, rejected |-> FALSE, links |-> << >>]

IsClaim(o) == Exists(o) /\ object[o].kind = "claim"

CanReadReview(a, r) == review[r] # Absent /\ MayReadPlaced(a, review[r].owner, review[r].spaces)
CanReadEvidence(a, e) ==
  evidence[e] # Absent /\ MayReadPlaced(a, evidence[e].owner, evidence[e].spaces)

ReadableReviews(a, c) == {r \in Review : CanReadReview(a, r) /\ review[r].claim = c}

(* Mutant: an acceptance is looked for before a rejection.                  *)
AcceptedFirst(a, c) ==
  LET verdicts == {review[r].verdict : r \in ReadableReviews(a, c)}
  IN  IF claim[c].status = "retracted" THEN "RETRACTED"
      ELSE IF claim[c].accepted THEN "ACCEPTED"
      ELSE IF claim[c].rejected THEN "REJECTED"
      ELSE IF verdicts \cap {"dispute", "reject"} # {} THEN "DISPUTED"
      ELSE IF "confirm" \in verdicts THEN "SUPPORTED" ELSE "PROPOSED"

(* derive_belief, over the reviews that a may read.                         *)
Belief(a, c) ==
  LET verdicts == {review[r].verdict : r \in ReadableReviews(a, c)}
  IN  IF claim[c].status = "retracted" THEN "RETRACTED"
      ELSE IF claim[c].rejected THEN "REJECTED"
      ELSE IF claim[c].accepted THEN "ACCEPTED"
      ELSE IF verdicts \cap {"dispute", "reject"} # {} THEN "DISPUTED"
      ELSE IF "confirm" \in verdicts THEN "SUPPORTED" ELSE "PROPOSED"

(* claim_evidence: the links whose evidence the caller may read.            *)
EvidenceSeen(a, c) ==
  {link \in ToSet(claim[c].links) : CanReadEvidence(a, link.evidence)}
-----------------------------------------------------------------------------
GovernanceInit ==
  /\ Init
  /\ claim = [o \in Obj |-> Absent]
  /\ review = [r \in Review |-> Absent]
  /\ evidence = [e \in Evidence |-> Absent]
  /\ matter = [a \in Agent |-> Absent]

Idle(a) ==
  /\ call[a] = Absent /\ matter[a] = Absent
  /\ Cardinality({b \in Agent : call[b] # Absent \/ matter[b] # Absent}) < MaxCalls

(* A claim's own creation and placement, by KnowledgeSpaces; the agent   *)
(* may name another as the claimant.                                        *)
CreateClaim(a) == \E claimant \in Agent :
  /\ WriteNew(a)
  /\ claim' = [o \in Obj |-> IF claim[o] = Absent /\ object'[o] # Absent
                             THEN NewClaim(claimant) ELSE claim[o]]
  /\ UNCHANGED <<review, evidence, matter>>

SpaceStep(a) ==
  /\ \/ CreateSpace(a) \/ GrantCapability(a) \/ RevokeCapability(a)
     \/ Idle(a) /\ (CheckClaim(a) \/ CheckShare(a))
     \/ WritePlacement(a) \/ Fail(a)
  /\ UNCHANGED claimVars

(* _resolve_placement, as for a claim; the call is one step, for nothing    *)
(* but the caller's own new object depends on what it checked.              *)
CreateEvidence(a) == \E e \in Evidence, dest \in {{}} \cup {{s} : s \in Space} :
  /\ Exercised("evidence") /\ Idle(a) /\ HasRoom(1)
  /\ evidence[e] = Absent
  /\ \A s \in dest : MayPlaceInto(a, s)
  /\ evidence' = [evidence EXCEPT ![e] = [owner |-> a, spaces |-> dest]]
  /\ ledger' = Append(ledger, Sealed("evidence_recorded", a, e, dest, NoObj))
  /\ UNCHANGED <<object, space, grant, call, claim, review, matter>>

(* The check of a governance call on claim c, and what it keeps of it.      *)
Take(a, m) ==
  /\ Exercised(m.op) /\ Idle(a)
  /\ IsClaim(m.claim) /\ CanRead(a, m.claim)
  /\ matter' = [matter EXCEPT ![a] = m]
  /\ UNCHANGED <<spaceVars, claim, review, evidence>>

CheckRetract(a) == \E c \in Obj :
  /\ IsClaim(c) /\ claim[c].status = "open"
  /\ object[c].owner = a \/ IsAdmin(a)
  /\ Take(a, [op |-> "retract", claim |-> c])

(* Mutant: the claim's text is all that must be readable.                   *)
CheckReviewEverywhere(a) == \E c \in Obj, v \in Verdict :
  IsClaim(c) /\ Take(a, [op |-> "review", claim |-> c, verdict |-> v, spaces |-> Space])

(* The review will have the placements the claim has now.                   *)
CheckReview(a) == \E c \in Obj, v \in Verdict :
  /\ IsClaim(c)
  /\ Take(a, [op |-> "review", claim |-> c, verdict |-> v, spaces |-> object[c].spaces])

CheckAttach(a) == \E c \in Obj, e \in Evidence, relation \in {"supports", "contradicts"} :
  /\ CanReadEvidence(a, e)
  /\ Take(a, [op |-> "attach", claim |-> c, link |-> [evidence |-> e, relation |-> relation]])

(* Mutant: the claimant is not told apart.                                  *)
CheckGovernOwn(a) == \E c \in Obj, op \in {"accept", "rejectClaim"} :
  /\ a \in Acceptor
  /\ IsClaim(c) /\ claim[c].status = "open"
  /\ Take(a, [op |-> op, claim |-> c])

(* _govern and LocalDefaultPolicy.                                          *)
CheckGovern(a) == \E c \in Obj, op \in {"accept", "rejectClaim"} :
  /\ a \in Acceptor
  /\ IsClaim(c) /\ claim[c].status = "open"
  /\ claim[c].claimant = a => IsAdmin(a)
  /\ Take(a, [op |-> op, claim |-> c])
-----------------------------------------------------------------------------
(* The writes.  A retraction or a governance decision is recorded whatever  *)
(* has happened to the claim since the check.                               *)
Settle(a, op, about) ==
  /\ HasRoom(1)
  /\ ledger' = Append(ledger, Sealed(op, a, about, {}, NoObj))
  /\ matter' = [matter EXCEPT ![a] = Absent]
  /\ UNCHANGED <<object, space, grant, call, evidence>>

InMatter(a, op) == matter[a] # Absent /\ matter[a].op = op

WriteRetract(a) ==
  /\ InMatter(a, "retract")
  /\ claim' = [claim EXCEPT ![matter[a].claim].status = "retracted"]
  /\ Settle(a, "claim_retracted", matter[a].claim)
  /\ UNCHANGED review

WriteReview(a) == \E r \in Review :
  /\ InMatter(a, "review") /\ review[r] = Absent
  /\ review' = [review EXCEPT ![r] = [owner |-> a, claim |-> matter[a].claim,
                                      verdict |-> matter[a].verdict,
                                      spaces |-> matter[a].spaces]]
  /\ Settle(a, "claim_reviewed", r)
  /\ UNCHANGED claim

WriteAccept(a) ==
  /\ InMatter(a, "accept")
  /\ claim' = [claim EXCEPT ![matter[a].claim].accepted = TRUE]
  /\ Settle(a, "claim_accepted", matter[a].claim)
  /\ UNCHANGED review

WriteReject(a) ==
  /\ InMatter(a, "rejectClaim")
  /\ claim' = [claim EXCEPT ![matter[a].claim].rejected = TRUE]
  /\ Settle(a, "claim_rejected", matter[a].claim)
  /\ UNCHANGED review

(* Mutant: one link too many is dropped once the list is full.              *)
LinkedOneShort(links, link) ==
  LET all == IF Contains(links, link) THEN links ELSE Append(links, link)
  IN  SubSeq(all, IF Len(all) >= MaxLinks THEN Len(all) - MaxLinks + 2 ELSE 1, Len(all))

(* A link is not repeated, and only the newest MaxLinks are kept.           *)
Linked(links, link) ==
  LET all == IF Contains(links, link) THEN links ELSE Append(links, link)
  IN  SubSeq(all, IF Len(all) > MaxLinks THEN Len(all) - MaxLinks + 1 ELSE 1, Len(all))

WriteAttach(a) ==
  /\ InMatter(a, "attach")
  /\ claim' = [claim EXCEPT ![matter[a].claim].links = Linked(@, matter[a].link)]
  /\ Settle(a, "evidence_attached", <<matter[a].claim, matter[a].link>>)
  /\ UNCHANGED review

FailMatter(a) ==
  /\ matter[a] # Absent
  /\ matter' = [matter EXCEPT ![a] = Absent]
  /\ UNCHANGED <<spaceVars, claim, review, evidence>>

GovernanceNext == \E a \in Agent :
  \/ CreateClaim(a) \/ SpaceStep(a) \/ CreateEvidence(a)
  \/ CheckRetract(a) \/ CheckReview(a) \/ CheckAttach(a) \/ CheckGovern(a)
  \/ WriteRetract(a) \/ WriteReview(a) \/ WriteAccept(a) \/ WriteReject(a)
  \/ WriteAttach(a) \/ FailMatter(a)

GovernanceSpec == GovernanceInit /\ [][GovernanceNext]_vars
-----------------------------------------------------------------------------
Recorded(op, about) ==
  \E i \in 1 .. Len(ledger) : ledger[i].op = op /\ ledger[i].about = about

(* The belief every reader derives is what the ledger decided: whatever     *)
(* races with a retraction, a retracted claim is believed by nobody; a      *)
(* rejection outweighs every acceptance; and behind an acceptance is an     *)
(* agent that may accept and whose claim it was not.                        *)
BeliefIsGoverned ==
  \A c \in Obj, b \in Agent : IsClaim(c) /\ CanRead(b, c) =>
    /\ Belief(b, c) = "RETRACTED" <=> Recorded("claim_retracted", c)
    /\ Belief(b, c) = "REJECTED" <=> /\ Recorded("claim_rejected", c)
                                    /\ ~Recorded("claim_retracted", c)
    /\ Belief(b, c) = "ACCEPTED" =>
         \E i \in 1 .. Len(ledger) :
           /\ ledger[i].op = "claim_accepted" /\ ledger[i].about = c
           /\ ledger[i].actor \in Acceptor
           /\ ledger[i].actor # claim[c].claimant \/ IsAdmin(ledger[i].actor)

(* Decisions only harden: no call, also none that checked before a decision *)
(* and writes after it, takes a reader's belief back from accepted,         *)
(* rejected or retracted to an earlier stage.                               *)
Hardness(belief) == CASE belief = "ACCEPTED" -> 1 [] belief = "REJECTED" -> 2
                      [] belief = "RETRACTED" -> 3 [] OTHER -> 0

DecisionsStand ==
  [][\A c \in Obj, b \in Agent :
       IsClaim(c) => Hardness(Belief(b, c)) <= Hardness(Belief(b, c)')]_vars

(* A review is no way to learn of a claim: who reads one that is not his    *)
(* own can read the claim, however placements and memberships have moved    *)
(* since the reviewer read it.                                              *)
ReviewsStayInside ==
  \A r \in Review, b \in Agent :
    CanReadReview(b, r) /\ review[r].owner # b => CanRead(b, review[r].claim)

(* Evidence that was attached is seen on the claim by whoever may read it,  *)
(* as long as the list is not full, whoever else attached what in between.  *)
EvidenceStaysLinked ==
  \A i \in 1 .. Len(ledger), b \in Agent : ledger[i].op = "evidence_attached" =>
    LET c == ledger[i].about[1]
        link == ledger[i].about[2]
    IN  CanReadEvidence(b, link.evidence)
          => link \in EvidenceSeen(b, c) \/ Len(claim[c].links) = MaxLinks
-----------------------------------------------------------------------------
(* core line 1652: a review's visibility tracks the claim exactly.          *)
ReviewTracksClaim ==
  \A r \in Review, b \in Agent :
    review[r] # Absent /\ CanRead(b, review[r].claim) => CanReadReview(b, r)
=============================================================================
