--------------------------- MODULE MCAuctionHouse ---------------------------
(* AuctionHouse on a small instance: one seller, two who bid. *)
EXTENDS AuctionHouse

CONSTANTS p1, p2, p3, g1, g2

Purses == (p1 :> 1) @@ (p2 :> 1) @@ (p3 :> 3)

\* One stack of two units, and a guid for what is split off it.
Stack == (g1 :> 2) @@ (g2 :> 0)
=============================================================================
