---------------------------- MODULE MCInventory ----------------------------
(* Two days; a client's batch over both and one over the second, with keys, *)
(* a batch without a key that names a day twice, and one of the PMS ingest  *)
(* with two offers of the room type for the first day; four calls.         *)
EXTENDS Inventory, TLC
CONSTANTS d1, d2, both, second, keyless, ingest
MCEntriesOf == (both :> <<d1, d2>>) @@ (second :> <<d2>>)
                 @@ (keyless :> <<d1, d1>>) @@ (ingest :> <<d1, d1, d2>>)
WriteSymmetry == Permutations(Writes)
=============================================================================
