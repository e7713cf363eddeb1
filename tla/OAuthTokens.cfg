\* Two logins of one client, two requests, restarts of the memory store.
SPECIFICATION Spec
SYMMETRY Symmetry
CONSTANTS
  Client = {p1}
  Code = {c1, c2}
  Refresh = {t1, t2, t3}
  Family = {f1, f2}
  Request = {r1, r2}
  None = None
  ClientTTL = 1
  CodeTTL = 1
  RefreshTTL = 1
  AccessTTL = 1
  Durable = FALSE
INVARIANTS
  MintedOnce
  OneLiveToken
  CompromiseNeedsReplay
  JwtOutlivesRecord
PROPERTIES
  CompromisedFamilyWindsDown
  ImplementsOneTimeGrants
