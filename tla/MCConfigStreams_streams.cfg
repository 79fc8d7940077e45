\* One GetEngineConfig slot, a subscriber and the next acceptor; streams that
\* are gone may leak their tag; the connection pool closes at any time.
CONSTANTS
  Tags = {t1, t2, t3}
  EngineId = ""
  Asked = {0}
  MaxVersion = 2
  MaxOutages = 1
  MayClose = TRUE
  MayStop = TRUE
SPECIFICATION Spec
INVARIANTS TypeOK OneOperationPerTag OneAcceptor OwnConfiguration
PROPERTY VersionsIncrease
CHECK_DEADLOCK FALSE
