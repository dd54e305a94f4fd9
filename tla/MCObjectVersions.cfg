SPECIFICATION Spec
CONSTANTS
  Requests = {r1, r2}
  MaxSeq = 3
INVARIANTS TypeOK IdsResolve ClaimsExact ListingComplete
PROPERTY ImplementsHistory
CHECK_DEADLOCK FALSE
SYMMETRY Symmetry
