SPECIFICATION Spec
CONSTANTS
  Sessions = {s1, s2}
  Clients = {c1}
  MaxCrashes = 0
  MaxFailures = 0
SYMMETRY Symmetry
INVARIANT FileIsCurrent
