\* Reuse detection under fairness: no symmetry, it is unsound for liveness.
SPECIFICATION EndlessSpec
CONSTANTS
  Client = {p1}
  Code = {c1}
  Refresh = {t1, t2, t3}
  Family = {f1}
  Request = {r1, r2}
  None = None
  ClientTTL = 1
  CodeTTL = 1
  RefreshTTL = 1
  AccessTTL = 1
  Durable = TRUE
PROPERTIES
  CompromisedFamilyDies
