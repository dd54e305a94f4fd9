SPECIFICATION Spec
CONSTANTS
  Keys = {k1}
  MaxVersions = 2
  MaxTries = 1
  MaxFaults = 1
INVARIANTS TypeOK CountSettles
PROPERTY OutboxDrains
CHECK_DEADLOCK FALSE
