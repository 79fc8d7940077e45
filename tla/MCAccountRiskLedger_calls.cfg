\* Two handler threads race for the quota of one account, under policy changes
\* and lapses and across a restart of the process.
CONSTANTS
  Accounts = {a1}
  OrderIds = {o1, o2}
  Threads = {t1, t2}
  Intents <- OneIntent
  Ttls <- TtlDefault
  Policies <- ChangingPolicies
  MaxVersion = 2
  MaxClock = 2
  MaxRestarts = 1
  DefaultTtl = 1
  NoRequest = NoRequest
SYMMETRY Symmetry
SPECIFICATION Spec
INVARIANTS TypeOK Balanced
PROPERTIES ExpiresOnlyWhenDue RejectionEarned RepliesAreFresh  OrdersEndOnce
