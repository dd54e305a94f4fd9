SPECIFICATION Spec
CONSTANTS
  Keys <- MCKeys
  Prefixes <- MCPrefixes
  Delimiters <- MCDelimiters
  Markers <- MCMarkers
  Limits = {0, 1, 2}
  MaxWrites = 1
  MaxListed = 4
INVARIANTS TypeOK PageExact ListingExact
