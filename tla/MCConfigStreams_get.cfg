\* A GetEngineConfig caller goes away before its answer is sent.
CONSTANTS
  Tags = {t1, t2, t3}
  EngineId = ""
  Asked = {0}
  MaxVersion = 1
  MaxOutages = 0
  MayClose = FALSE
  MayStop = FALSE
SPECIFICATION Spec
INVARIANT GetIsServed
CHECK_DEADLOCK FALSE
