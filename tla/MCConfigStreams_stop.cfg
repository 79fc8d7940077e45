\* Stop while a GetEngineConfig call is under way.
CONSTANTS
  Tags = {t1, t2, t3}
  EngineId = "e1"
  Asked = {0}
  MaxVersion = 1
  MaxOutages = 0
  MayClose = FALSE
  MayStop = TRUE
SPECIFICATION Spec
INVARIANT HandlerOutlivesTags
CHECK_DEADLOCK FALSE
