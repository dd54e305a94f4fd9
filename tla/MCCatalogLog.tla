---------------------------- MODULE MCCatalogLog ----------------------------
(* Small catalogs for TLC.                                                 *)
EXTENDS CatalogLog, TLC

CONSTANTS n1, n2, r1, r2

\* r2 is a node above r1's single node, so r2 -> r1 writes no block.
MCTree == (r1 :> {n1}) @@ (r2 :> {n1, n2}) @@ (NoRoot :> {})

\* One root over one node.
MCOneTree == (r1 :> {n1}) @@ (NoRoot :> {})
=============================================================================
