------------------------------- MODULE MCParts -------------------------------
(* An instance of each part.  Rule 1 is archived, and one rule is written;   *)
(* a detector asks for less, a little more or much more than the last         *)
(* control; a road of three segments, digitised along it but for the last, or *)
(* against it; a long lane with an even number of points, one with an odd     *)
(* number, and one so short that a control covers it.  The tabs of a browser  *)
(* are alike.                                                                 *)
EXTENDS Parts, TLC

MCRops == 1..2
MCRopFile == [id \in MCRops |-> IF id = 1 THEN Rop(1, "A") ELSE NoRop]
MCTabs == Permutations(Tabs)
MCData == [limit : {6}, slow : {TRUE}, target : {1, 8}] \cup {[limit |-> 6, slow |-> FALSE, target |-> 4]}
MCLowest == -30
MCBends == <<1, 3, 4, 6>>
MCBackwards == {{3}, {1, 2, 3}}
MCLanes == {"a", "b", "c"}
MCFull == [lane \in MCLanes |-> CASE lane = "a" -> 8 [] lane = "b" -> 5 [] OTHER -> 2]
MCMile ==
  [lane \in MCLanes |-> CASE lane = "a" -> [i \in 0..4 |-> <<0, 2, 3, 4, 8>>[i + 1]]
                          [] lane = "b" -> [i \in 0..2 |-> 3 * i]
                          [] OTHER -> [i \in 0..1 |-> i]]
MCWide == [lane \in MCLanes |-> [i \in DOMAIN MCMile[lane] |-> IF lane = "b" THEN 4 ELSE 3]]
=============================================================================
