SPECIFICATION AccountSpec
CONSTANTS
  org = org
  org2 = org2
  user = user
  user2 = user2
  r1 = r1
  r2 = r2
  Orgs = {org, org2}
  Users = {user}
  OrgOf <- MCOrgOf
  Passwords = {p1}
  Secrets = {s1, s2}
  Requests = {r1, r2}
  KindsOf <- MCEither
  Pool = {c1, c2}
  Nothing = Nothing
INVARIANT EnabledIsVerified
