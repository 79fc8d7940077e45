\* The asynchronous kind: Stop and Wait take the server apart together.
CONSTANTS
  Documents <- ShippedOnly
  PoolLimit = 100
  MaxCalls = 2
  MaxEdits = 0
  MaxOutages = 0
  MaxBoots = 1
SPECIFICATION Spec
INVARIANT QueueOutlivesLoop
CHECK_DEADLOCK FALSE
