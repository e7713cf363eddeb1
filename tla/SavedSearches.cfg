\* One name, two conditions, two overlapping checks, stdio and stateless HTTP, a day and a half.
SPECIFICATION Spec
SYMMETRY Symmetry
CONSTANTS
  n1 = n1
  n2 = n2
  narrow = narrow
  wide = wide
  Name = {alert}
  Criteria = {narrow, wide}
  Notice = {n1, n2}
  Call = {k1, k2}
  Matches <- MCMatches
  Page = 2
  MaxClock = 3
  Never = Never
INVARIANTS
  NothingSkipped
