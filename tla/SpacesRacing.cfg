SPECIFICATION Spec
CONSTANTS
  alice = alice
  bob = bob
  eve = eve
  acme = acme
  other = other
  Agent = {alice, bob}
  Tenant = {acme, other}
  TenantOf <- MCTenantOf
  Admin = {}
  Promoter = {bob}
  Manager = {}
  Obj = {o1, o2}
  Space = {s1}
  NoObj = NoObj
  NoSpace = NoSpace
  Absent = Absent
  Visibility = {1, 2}
  MaxEvents = 5
  MaxCalls = 2
  Calls = {"assert", "claim", "supersede", "share", "promote", "grant", "revoke"}
SYMMETRY Symmetry
INVARIANTS WideNeedsPromoter ReadersWereAdmitted
PROPERTIES NobodyAdmitsThemselves AccessEndsByDecision
