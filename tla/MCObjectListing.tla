--------------------------- MODULE MCObjectListing ---------------------------
(* Listings of five keys: 2 is the delimiter, one key is a common prefix,  *)
(* two are prefixes of others and one begins with the delimiter.           *)
EXTENDS ObjectListing

MCKeys == {<<1>>, <<1, 2>>, <<1, 2, 1>>, <<1, 3>>, <<2>>}
MCPrefixes == {<< >>, <<1>>}
MCDelimiters == {<< >>, <<2>>, <<2, 1>>}
MCMarkers == {<< >>, <<1>>, <<1, 2>>}
=============================================================================
