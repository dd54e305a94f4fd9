SPECIFICATION Spec
CONSTANTS
  Requests = {r1}
  MaxGrants = 2
  MaxStores = 3
  MaxRestarts = 1
INVARIANTS TypeOK StoreClean RevokedRefused
CHECK_DEADLOCK FALSE
PROPERTY RevocationsTake
