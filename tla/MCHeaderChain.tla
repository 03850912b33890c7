--------------------------- MODULE MCHeaderChain ---------------------------
(* Header trees small enough to deliver in every order, for HeaderChain.   *)
EXTENDS HeaderChain, MCDoubles

CONSTANTS g, a1, a2, a3, a4, b1, b2, c1, o1, o2, none

(* A main chain of four, of which a2 adds nothing to the rounded sum and   *)
(* a4 more than its own work, a fork from genesis with more work than it,  *)
(* a header that claims no work on top of a3, and two headers whose first  *)
(* ancestor the node never sees.                                           *)
MCBlocks == {g, a1, a2, a3, a4, b1, b2, c1, o1, o2}

MCPrev ==
    [b \in MCBlocks |->
        CASE b \in {g, o1} -> none
          [] b \in {a1, b1} -> g
          [] b = a2 -> a1
          [] b = a3 -> a2
          [] b = a4 -> a3
          [] b = b2 -> b1
          [] b = c1 -> a3
          [] b = o2 -> o1]

MCWork ==
    [b \in MCBlocks |->
        CASE b \in {g, a1, b1} -> 4
          [] b \in {a2, a4, o2} -> 1
          [] b = a3 -> 2
          [] b = b2 -> 6
          [] b = c1 -> 0
          [] b = o1 -> 10]

=============================================================================
