\* A client repeats a ReserveOrder after the policy's version moved on.
CONSTANTS
  Accounts = {a1}
  OrderIds = {o1}
  Threads = {t1}
  Intents <- OneIntent
  Ttls <- TtlDefault
  Policies <- OpenPolicy
  MaxVersion = 2
  MaxClock = 1
  MaxRestarts = 0
  DefaultTtl = 2
  NoRequest = NoRequest
SPECIFICATION Spec
PROPERTY RejectedHoldsNothing
