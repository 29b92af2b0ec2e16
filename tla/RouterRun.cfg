SPECIFICATION FairSpec
CONSTANTS
  Runs = {r1}
  Providers = {"cerebras", "nvidia"}
  Local = "local"
  Stages <- TwoChains
  Suspects <- TwoSuspects
  Blame <- NvidiaBlamesCerebras
  Reported = {"cerebras"}
  MaxRetries = 2
  Threshold = 2
  Window = 2
  HalfOpenAfter = 1
  StaleAfter = 2
  MaxLate = 1
INVARIANTS
  TypeOK
  ClosedMeansHealthy
  NoReattempt
  ExclusionsEnd
PROPERTIES
  ImplementsBreaker
  StageEnds
  OpenEndsWhenAsked
