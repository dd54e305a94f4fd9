SPECIFICATION Spec
CONSTANTS
  Keys <- MCKeys
  Vals = {v1, v2}
  MaxZeros = 2
INVARIANTS RootCanonical ReadsExact
PROPERTY DiffExact
