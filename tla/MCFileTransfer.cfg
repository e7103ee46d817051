CONSTANTS
  a1 = a1
  a2 = a2
  Actors = {a1, a2}
  Asked = {"f", "d", "l", "l/f"}
  MaxRequests = 2
  MaxTrouble = 1
SPECIFICATION Spec
SYMMETRY ActorsAlike
INVARIANTS TypeOK TargetStays DataIsHidden
PROPERTIES NotOverwritten DownloadIsWhole
