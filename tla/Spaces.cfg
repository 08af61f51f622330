SPECIFICATION Spec
CONSTANTS
  alice = alice
  bob = bob
  eve = eve
  acme = acme
  other = other
  Agent = {alice, bob, eve}
  Tenant = {acme, other}
  TenantOf <- MCTenantOf
  Admin = {bob, eve}
  Promoter = {}
  Manager = {}
  Obj = {o1, o2}
  Space = {s1}
  NoObj = NoObj
  NoSpace = NoSpace
  Absent = Absent
  Visibility = {0, 2}
  MaxEvents = 5
  MaxCalls = 2
  Calls = {"assert", "claim", "supersede", "share", "promote"}
SYMMETRY Symmetry
INVARIANTS TenantsStayApart CorrectionsStayHome
