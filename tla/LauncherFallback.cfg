SPECIFICATION FairSpec
CONSTANTS
  Workers = {w1}
  Nobody = Nobody
  Markets = {yelahanka}
  MaxOutages = 1
  MaxRestarts = 0
PROPERTY
  CallsReturn
CHECK_DEADLOCK FALSE
