CONSTANTS
  Senders = {"s1"}
  Listers = {"l1"}
  MaxOutput = 3
  MaxFaults = 1
SPECIFICATION Spec
INVARIANTS TypeOK OutputIsLogged
PROPERTIES IndexIsKept EventsAreLogged
