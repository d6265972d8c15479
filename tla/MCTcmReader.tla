----------------------------- MODULE MCTcmReader -----------------------------
(* Instances of TcmReader over the lanes of MCCtrlStore.                      *)
EXTENDS TcmReader, TLC
CONSTANTS base, c1, c2, t1, t2

MCIds == {base, c1, c2}
MCTiles == 1..2
MCGeos == {"even", "far"}
EvenGeoOf == [id \in MCIds |-> "even"]
TwoGeoOf == [id \in MCIds |-> IF id = c1 THEN "far" ELSE "even"]
BothTiles == [g \in MCGeos |-> {1, 2}]
MCThreads == {t1, t2}
ReaderSymmetry == Permutations(MCThreads) \cup Permutations({c1, c2})

Box(oldest, tiles, geos) == [oldest |-> oldest, tiles |-> tiles, near |-> geos, inside |-> geos]
OneBounds == {<<Box(0, {1, 2}, {"even"})>>}
TwoBounds == {<<Box(0, {1, 2}, {"even"}), Box(1, {1, 2}, {"even"})>>}
OneOrTwo == OneBounds \cup TwoBounds
ApartBounds == {<<Box(0, {1}, {"far"}), Box(0, {1, 2}, {"even"})>>}
=============================================================================
