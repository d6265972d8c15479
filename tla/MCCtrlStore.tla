----------------------------- MODULE MCCtrlStore -----------------------------
(* Instances of CtrlStore for TLC: one existing lane over two tiles.  Geometry *)
(* "even" reads back the tiles it was built with; "first" has only its first   *)
(* point in tile 1, which the reader skips; "mid" crosses tile 2 with its      *)
(* centre line only, which the builder skips.                                  *)
EXTENDS CtrlStoreInv, TLC
CONSTANTS base, c1, c2, c3, t1, t2

MCIds == {base, c1, c2}
MCTiles == 1..2
MCGeos == {"even", "first", "mid"}
EvenGeoOf == [id \in MCIds |-> "even"]
OddIds == MCIds \cup {c3}
OddGeoOf == [id \in OddIds |-> IF id = c2 THEN "first" ELSE "mid"]
OddDrawable == MCIds
MCBuilt == [g \in MCGeos |-> IF g = "mid" THEN {1} ELSE {1, 2}]
MCReread == [g \in MCGeos |-> IF g = "first" THEN {2} ELSE {1, 2}]
MCCrosses == [g \in MCGeos |-> {1, 2}]
MCThreads == {t1, t2}
Behind == -2
EvenSymmetry == Permutations(MCThreads) \cup Permutations({c1, c2})
=============================================================================
