---------------------------- MODULE MCSoftHolds ----------------------------
(* Small instances of SoftHolds for TLC.                                   *)
EXTENDS SoftHolds, TLC

CONSTANTS w1, w2, g1, g2, t1, t2, t3, r1, r2

Stay(rooms, from, to) == [rooms |-> rooms, from |-> from, to |-> to]

(* The first stay overlaps the second and third, which name the same rooms *)
(* in another order, and ends on the day the fourth begins.                *)
MCStays == { Stay(<<r1>>, 1, 3), Stay(<<r1, r2>>, 2, 4),
             Stay(<<r2, r1>>, 2, 4), Stay(<<r1>>, 3, 5) }

(* Exact searches of the first stay and the fourth, and a flexible one of  *)
(* the first two.                                                          *)
MCWindows ==
  LET first == Stay(<<r1>>, 1, 3) IN
  { {first}, {Stay(<<r1>>, 3, 5)}, {first, Stay(<<r1, r2>>, 2, 4)} }

MCSymmetry ==
  Permutations(Guests) \cup Permutations(Workers) \cup Permutations(Tokens)
=============================================================================
