SPECIFICATION FairSpec
CONSTANTS
  Workers = {w1, w2}
  Nobody = Nobody
  Markets = {yelahanka, hebbal}
  MaxOutages = 1
  MaxRestarts = 1
INVARIANTS
  TypeOK
  ChildrenAreKnown
PROPERTY
  CallsReturnWithRedis
CHECK_DEADLOCK FALSE
