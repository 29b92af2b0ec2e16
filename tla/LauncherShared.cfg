SPECIFICATION Spec
CONSTANTS
  Workers = {w1, w2}
  Nobody = Nobody
  Markets = {yelahanka}
  MaxOutages = 0
  MaxRestarts = 0
INVARIANT
  OnePipelinePerMarket
