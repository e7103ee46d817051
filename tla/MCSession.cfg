CONSTANTS
  t1 = t1
  t2 = t2
  s1 = s1
  s2 = s2
  Terminators = {t1, t2}
  Submitters = {s1, s2}
SPECIFICATION Spec
INVARIANTS TypeOK TeardownClosedOnce FinalBeforeEof NoOrphan PromptOfAwaiting
