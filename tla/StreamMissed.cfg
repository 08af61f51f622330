SPECIFICATION StreamSpec
CONSTANTS
  alice = alice
  bob = bob
  acme = acme
  Agent = {alice, bob}
  Tenant = {acme}
  TenantOf <- MCTenantOf
  Admin = {}
  Promoter = {}
  Manager = {}
  Obj = {o1, o2}
  Space = {s1}
  NoObj = NoObj
  NoSpace = NoSpace
  Absent = Absent
  Visibility = {1}
  MaxEvents = 4
  Calls = {"assert", "claim", "supersede", "share", "promote"}
  MaxCalls = 1
  Viewer = bob
  MaxBatch = 2
  MaxDrops = 1
INVARIANT NoAuthorizedEventMissed
