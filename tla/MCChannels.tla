----------------------------- MODULE MCChannels -----------------------------
(* Two hotels, one of them linked, two providers' names and two admins.    *)
EXTENDS Channels, TLC
CONSTANTS c1, h1, n1, n2, hotel
MCConnected == {[id |-> c1, name |-> n1, status |-> "active", hasSecret |-> FALSE]}
MCLinked == {[id |-> h1, prop |-> hotel, conn |-> c1, status |-> "active"]}
AdminSymmetry == Permutations(Admins)
=============================================================================
