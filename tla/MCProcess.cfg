CONSTANTS
  MaxOutput = 3
SPECIFICATION Spec
INVARIANTS TypeOK OutputIsWhole
 
