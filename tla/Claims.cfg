SPECIFICATION GovernanceSpec
CONSTANTS
  alice = alice
  bob = bob
  acme = acme
  Agent = {alice, bob}
  Tenant = {acme}
  TenantOf <- MCTenantOf
  Admin = {}
  Promoter = {}
  Manager = {}
  Obj = {o1}
  Space = {s1}
  NoObj = NoObj
  NoSpace = NoSpace
  Absent = Absent
  Visibility = {1}
  Acceptor = {bob}
  Review = {r1}
  Evidence = {e1}
  Verdict = {"dispute"}
  MaxLinks = 2
  MaxEvents = 5
  MaxCalls = 2
  Calls = {"claim", "share", "grant", "revoke", "evidence", "retract", "review", "attach", "accept", "rejectClaim"}
SYMMETRY Symmetry
INVARIANTS PanelAgrees BeliefIsGoverned ReviewsStayInside EvidenceStaysLinked
PROPERTY DecisionsStand
