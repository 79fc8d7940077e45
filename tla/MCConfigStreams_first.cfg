\* A subscriber is there before the engine's first row.
CONSTANTS
  Tags = {t1, t2, t3}
  EngineId = "e1"
  Asked = {0}
  MaxVersion = 1
  MaxOutages = 0
  MayClose = FALSE
  MayStop = FALSE
SPECIFICATION FairSpec
PROPERTY LatestReachesSubscriber
CHECK_DEADLOCK FALSE
