------------------------------ MODULE PanelViews ------------------------------
(***************************************************************************)
(* The panel's own views of claims (api/panel.py): the live graph, read     *)
(* from the objects; the graph as of an instant, told again from the first  *)
(* events of the ledger; and the belief behind its counters.  Each derives  *)
(* anew what the engine has already derived.                                *)
(***************************************************************************)
EXTENDS ClaimGovernance

(* new_id puts the kind of an object into its id.                           *)
ASSUME KindsAreDisjoint ==
  Obj \cap Review = {} /\ Obj \cap Evidence = {} /\ Review \cap Evidence = {}

Node == Obj \cup Review \cup Evidence

(* _readable_by_kinds, of claims, reviews and evidence.                     *)
ReadableNodes(a) ==
  {c \in Obj : IsClaim(c) /\ CanRead(a, c)}
    \cup {r \in Review : CanReadReview(a, r)}
    \cup {e \in Evidence : CanReadEvidence(a, e)}

LinkEdge(c, link) == [from |-> link.evidence, to |-> c, rel |-> link.relation]
ReviewEdge(r) == [from |-> r, to |-> review[r].claim, rel |-> "reviewed_by"]
Among(edges, nodes) == {e \in edges : {e.from, e.to} \subseteq nodes}
ReviewEdges(nodes) == {ReviewEdge(r) : r \in nodes \cap Review}

(* knowledge_graph.                                                         *)
LiveGraph(a) ==
  LET nodes == ReadableNodes(a)
      links == UNION {{LinkEdge(c, claim[c].links[i]) : i \in DOMAIN claim[c].links} :
                        c \in nodes \cap Obj}
  IN  [nodes |-> nodes,
       status |-> [c \in nodes \cap Obj |-> claim[c].status],
       edges |-> Among(links \cup ReviewEdges(nodes), nodes)]

Told(n, op) == {ledger[i].about : i \in {j \in 1 .. n : ledger[j].op = op}}

(* Mutant: a retraction is looked for under another key than claim_id.      *)
AsOfStateDeaf(n) ==
  [existed |-> UNION {Told(n, op) : op \in {"claim_asserted", "evidence_recorded",
                                           "claim_reviewed"}},
   retracted |-> {}, links |-> Told(n, "evidence_attached")]

(* _asof_state: what the first n events tell.                               *)
AsOfState(n) ==
  [existed |-> UNION {Told(n, op) : op \in {"claim_asserted", "evidence_recorded",
                                           "claim_reviewed"}},
   retracted |-> Told(n, "claim_retracted"), links |-> Told(n, "evidence_attached")]

(* as_of: readability is that of now.                                       *)
GraphAsOf(a, n) ==
  LET then == AsOfState(n)
      nodes == ReadableNodes(a) \cap then.existed
  IN  [nodes |-> nodes,
       status |-> [c \in nodes \cap Obj |->
                     IF c \in then.retracted THEN "retracted" ELSE "open"],
       edges |-> Among({LinkEdge(l[1], l[2]) : l \in then.links} \cup ReviewEdges(nodes),
                       nodes)]

(* counts: the verdicts of all readable reviews, by claim.                  *)
PanelBelief(a, c) ==
  LET verdicts == {review[r].verdict : r \in {q \in ReadableNodes(a) \cap Review :
                                                review[q].claim = c}}
  IN  CASE claim[c].status = "retracted" -> "RETRACTED"
        [] claim[c].status = "open" /\ claim[c].rejected -> "REJECTED"
        [] claim[c].status = "open" /\ claim[c].accepted /\ ~claim[c].rejected -> "ACCEPTED"
        [] OTHER -> IF verdicts \cap {"dispute", "reject"} # {} THEN "DISPUTED"
                    ELSE IF "confirm" \in verdicts THEN "SUPPORTED" ELSE "PROPOSED"
-----------------------------------------------------------------------------
(* The panel agrees with the engine and with itself: the graph told again   *)
(* from the whole ledger is the live graph, for every reader and whatever   *)
(* calls crossed, but for links the full list of a claim has pushed out;    *)
(* and its counters count the beliefs that derive_belief derives.           *)
PanelAgrees ==
  \A a \in Agent :
    LET live == LiveGraph(a)
        told == GraphAsOf(a, Len(ledger))
    IN  /\ told.nodes = live.nodes /\ told.status = live.status
        /\ live.edges \subseteq told.edges
        /\ \A e \in told.edges \ live.edges : Len(claim[e.to].links) = MaxLinks
        /\ \A c \in live.nodes \cap Obj : PanelBelief(a, c) = Belief(a, c)
=============================================================================
