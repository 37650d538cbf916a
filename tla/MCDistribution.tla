--------------------------- MODULE MCDistribution ---------------------------
(* A property with an active channel on one of two connections; two pushes, *)
(* one of which may carry rates, a batch of two days and an admin.         *)
EXTENDS Distribution, TLC
CONSTANTS d1, d2, opening, both, c1, c2, h1, n1, n2, r1, p1, p2, hotel
MCEntriesOf == (opening :> <<>>) @@ (both :> <<d1, d2>>)
MCRoomsOf == (p1 :> {}) @@ (p2 :> {r1})
MCConnected ==
  {[id |-> c1, name |-> n1, status |-> "active", hasSecret |-> FALSE],
   [id |-> c2, name |-> n2, status |-> "active", hasSecret |-> FALSE]}
MCLinked == {[id |-> h1, prop |-> hotel, conn |-> c1, status |-> "active"]}
=============================================================================
