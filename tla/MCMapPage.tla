------------------------------ MODULE MCMapPage ------------------------------
(* A small instance of MapPage: two types, one lane, two tiles.               *)
EXTENDS MapPage, TLC
CONSTANTS stop, speed, l1, c1, c2, c3

MCLanes == {l1}
MCTypes == {stop, speed}
MCCtrls == {c1, c2, c3}
MCTypeOf == [c \in MCCtrls |-> IF c = c2 THEN speed ELSE stop]
MCTiles == {1, 2}
MCTileOf == [c \in MCCtrls |-> IF c = c2 THEN 2 ELSE 1]
MCViews == {{1}, {2}}
MCBounds == [p \in BOOLEAN |-> IF p THEN [asks |-> 2, visits |-> 2, loads |-> 2, features |-> 2]
                                       ELSE [asks |-> 1, visits |-> 2, loads |-> 1, features |-> 2]]
MCLive == {c1, c2}
=============================================================================
