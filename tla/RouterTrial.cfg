SPECIFICATION Spec
CONSTANTS
  Runs = {r1}
  Providers = {"cerebras"}
  Local = "local"
  Stages <- OneChain
  Suspects <- OneSuspect
  Blame <- OwnFault
  Reported = {"cerebras"}
  MaxRetries = 3
  Threshold = 3
  Window = 5
  HalfOpenAfter = 1
  StaleAfter = 2
  MaxLate = 1
PROPERTY FailedTrialReopens
