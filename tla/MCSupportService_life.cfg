\* A process of each service from main() to its exit and a second boot, with
\* files that are wrong or edited, a database that comes and goes, and calls.
CONSTANTS
  Documents <- SomeDocuments
  PoolLimit = 100
  MaxCalls = 2
  MaxEdits = 1
  MaxOutages = 1
  MaxBoots = 2
SPECIFICATION FairSpec
INVARIANTS TypeOK ReadyIsBacked ReadyIsConfigured CallsKeepTheirService ExitIsClean
PROPERTIES SchemaRepeats SignalEndsProcess
CHECK_DEADLOCK FALSE
