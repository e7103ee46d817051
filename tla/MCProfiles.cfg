CONSTANTS
  n1 = n1
  n2 = n2
  r1 = r1
  r2 = r2
  Names = {n1, n2}
  Secrets = {secret}
  Requests = {r1, r2}
  Commands = {command}
  MaxRequests = 3
SPECIFICATION Spec
SYMMETRY NamesAlike
INVARIANTS TypeOK NamesAreUnique
PROPERTIES OthersAreKept PasswordIsKept
