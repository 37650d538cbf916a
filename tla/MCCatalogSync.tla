--------------------------- MODULE MCCatalogSync ---------------------------
(* Two hotels, one of which may be unlisted; a room that changes its type   *)
(* and a type that is closed; two syncs.                                   *)
EXTENDS CatalogSync, TLC
CONSTANTS inn, lodge, single, double, r1, r2
Home(a, b) == (r1 :> a) @@ (r2 :> b)
Wide == [types |-> {single, double}, home |-> Home(single, double)]
Moved == [types |-> {single, double}, home |-> Home(double, None)]
Narrow == [types |-> {single}, home |-> Home(None, single)]
MCListings == {inn :> Wide, inn :> Moved, (inn :> Narrow) @@ (lodge :> Nothing)}
=============================================================================
