SPECIFICATION Spec
SYMMETRY MCSymmetry
CONSTANTS
  Runs = {r1, r2}
  Projects = {k1}
  Tasks = {rera, portal}
  Rera = rera
  MaxVersion = 2
  MaxMidnights = 1
  MaxTries = 1
INVARIANTS
  TypeOK
  RecordsAccountedFor
  HistoryIsKept
PROPERTIES
  CachedRunHasBatch
  RowsGoBackOnlyByOverlap
CHECK_DEADLOCK FALSE
