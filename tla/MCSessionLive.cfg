CONSTANTS
  t1 = t1
  t2 = t2
  s1 = s1
  Terminators = {t1, t2}
  Submitters = {s1}
SPECIFICATION Spec
PROPERTIES ImplementsLifecycle Ends CallsReturn
