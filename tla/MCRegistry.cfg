SPECIFICATION Spec
CONSTANTS
  Sessions = {s1, s2}
  Clients = {c1}
  MaxCrashes = 1
  MaxFailures = 1
INVARIANTS
  TypeOK
  LiveIsReachable
  EndedIsTrue
  LiveHasWatcher
PROPERTIES
  EndIsRecorded
