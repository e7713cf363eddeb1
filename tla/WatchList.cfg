SPECIFICATION Spec
SYMMETRY Alike
CONSTANTS
  a = a
  b = b
  q1 = q1
  q2 = q2
  n1 = n1
  n2 = n2
  Idle = Idle
  Name = {a, b}
  Query = {q1, q2}
  Notice = {n1, n2}
  Call = {k1, k2}
  Matches <- MCMatches
  Transports = {"stdio", "http"}
INVARIANTS
  SeenWasReported
  ReportedOnce
