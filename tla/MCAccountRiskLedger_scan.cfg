\* A reservation falls due and no call follows.
CONSTANTS
  Accounts = {a1}
  OrderIds = {o1}
  Threads = {t1}
  Intents <- OneIntent
  Ttls <- TtlDefault
  Policies <- OpenPolicy
  MaxVersion = 1
  MaxClock = 3
  MaxRestarts = 0
  DefaultTtl = 1
  NoRequest = NoRequest
SPECIFICATION FairSpec
PROPERTY DueGetsSwept
