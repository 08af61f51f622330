SPECIFICATION FairStreamSpec
CONSTANTS
  alice = alice
  bob = bob
  acme = acme
  Agent = {alice, bob}
  Tenant = {acme}
  TenantOf <- MCTenantOf
  Admin = {}
  Promoter = {}
  Manager = {}
  Obj = {o1}
  Space = {s1}
  NoObj = NoObj
  NoSpace = NoSpace
  Absent = Absent
  Visibility = {1}
  MaxEvents = 4
  Calls = {"claim", "share", "grant", "revoke"}
  MaxCalls = 1
  Viewer = bob
  MaxBatch = 1
  MaxDrops = 1
INVARIANTS InOrderOnce NoGap
PROPERTY StableIsDelivered
