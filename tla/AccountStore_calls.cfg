\* Two threads and two connections contend for the rows of one account.
CONSTANTS
  Threads = {t1, t2}
  Connections = {k1, k2}
  Ids = {"a"}
  Lines = {"l"}
  Passwords = {"p", "q"}
  Statuses = {"active", "disabled"}
  Pool = Pool
SPECIFICATION FairSpec
INVARIANTS TypeOK PoolRestored NoLockCycle CredentialIsThere
PROPERTIES AnswersAreTrue OnlyThatAccount BookImplemented CallsReturn
CHECK_DEADLOCK FALSE
