SPECIFICATION Spec
CONSTANTS
  Digests = {"a", "b"}
  Size <- MCSize
  Writers = {w1}
  Kept = "a"
  Asked = {"b"}
  Budget = 2
  Batch = 2
  MaxClock = 3
  MaxFaults = 1
INVARIANTS TypeOK CountExact EvictedGone LookupFinds
PROPERTY BudgetKept
CHECK_DEADLOCK FALSE
