CONSTANTS
  c1 = c1
  c2 = c2
  Clients = {c1, c2}
  Threshold = 2
  MinAdvance = 2
  MaxBytes = 5
  MaxReaders = 2
  Limits <- MCLimits
SPECIFICATION Spec
INVARIANTS TypeOK Retained BoundedRetention NoLostWakeup
PROPERTIES WakesUp ImplementsLog
