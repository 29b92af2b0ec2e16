SPECIFICATION FairSpec
CONSTANTS
  Workers = {w1, w2}
  Jobs = {j1}
  Agents = {a1, a2}
  Sessions = {s1}
  Heads = {h1}
  MaxFaults = 1
  MaxCrashes = 1
INVARIANTS
  TypeOK
  DealHasJob
  VerdictHasSession
PROPERTIES
  KeepsPromise
  StepsBackOnlyByFault
  RoundEnds
  EndIsFinal
  ActiveEnds
CHECK_DEADLOCK FALSE
