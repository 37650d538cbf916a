----------------------------- MODULE MCOtaFetch -----------------------------
(* Small instances of OtaFetch for TLC.                                    *)
EXTENDS OtaFetch, TLC

CONSTANTS w1, w2, conn1, conn2, e1, e2, blank, f1

MCKeys == {<<k, e>> : k \in FetchKeys, e \in Externals}
MCWorkers == {w1, w2}
(* The workers are alike, and so are the two channels with OwnNumbers.     *)
SwapChannels == conn1 :> conn2 @@ conn2 :> conn1 @@ e1 :> e2 @@ e2 :> e1
MCSymmetry == Permutations(Workers) \cup {SwapChannels}

(* Each channel numbers its bookings in its own way.                      *)
OwnNumbers ==
  [c \in Connections |-> IF c = conn1 THEN {e1} ELSE {e2}]
=============================================================================
