SPECIFICATION MCSpec
CONSTANTS
  a = a
  b = b
  a1 = a1
  b1 = b1
  Tenants <- MCTenants
  Connectors <- MCConnectors
  TenantOf <- MCTenantOf
  Sealed = {a1}
  Tasks = {t1, t2, t3}
  None = None
  MaxIngests = 3
  org = org
  org2 = org2
  user = user
  user2 = user2
  r1 = r1
  r2 = r2
  Orgs = {org, org2}
  Users = {user, user2}
  OrgOf <- MCOrgOf
  Passwords = {p1}
  Secrets = {s1}
  Requests = {r1, r2}
  KindsOf <- MCKindsOf
  Pool = {c1, c2}
  Nothing = Nothing
INVARIANTS OneLiveTimer EngineOutlivesLoops DefaultDeny LockedOut
PROPERTIES QueueStaysLive EveryConnectorPolled EveryTenantHunted ShutdownEnds
CHECK_DEADLOCK FALSE
