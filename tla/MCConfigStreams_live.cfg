\* A subscriber while rows are written and an outage passes; no stop.
CONSTANTS
  Tags = {t1, t2, t3}
  EngineId = "e1"
  Asked = {0}
  MaxVersion = 2
  MaxOutages = 1
  MayClose = FALSE
  MayStop = FALSE
SPECIFICATION FairSpec
PROPERTY StreamCatchesUp
CHECK_DEADLOCK FALSE
