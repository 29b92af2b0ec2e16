SPECIFICATION FairSpec
CONSTANTS
  Callers = {c1, c2}
  NoCaller = NoCaller
  rera = rera
  portal = portal
  deal = deal
  blank = blank
  tender = tender
  north = north
  south = south
  NoMarket = NoMarket
  Tasks <- MCTasks
  Position <- MCPosition
  Markets <- MCMarkets
  MarketOf <- MCMarketOf
  Hashes <- MCHashes
  Feeds <- MCFeeds
  Valid <- MCValid
  Routed <- MCHashes
  PlainInsert <- MCPlainInsert
  Unique <- MCUnique
  MaxWorkers = 2
  CacheMax = 2
  MaxRecords = 4
  MaxRetries = 1
  MaxFaults = 1
  MaxCrashes = 1
INVARIANTS
  TypeOK
  NoSilentLoss
  DuplicateOnlyByFault
  EveryRecordCounted
  OneRunAtATime
PROPERTIES
  ImplementsAuditTrail
  CancelStays
  RunEnds
