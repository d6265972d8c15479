----------------------------- MODULE CtrlLedger -----------------------------
(***************************************************************************)
(* What the control store promises its readers.  A control is stored once,  *)
(* then enters the tiles it covers one at a time, and leaves each of them   *)
(* for good: an ended control never comes back, and none is seen in a tile  *)
(* before its file exists.  The store implements this without a lock that   *)
(* all of its writers share.                                                *)
(***************************************************************************)
CONSTANTS Ids, Tiles

VARIABLES
  stored, \* controls that have a file
  life    \* per control and tile: "none", "live" or "ended"

LedgerVars == <<stored, life>>

LedgerTypeOK ==
  /\ stored \subseteq Ids
  /\ life \in [Ids -> [Tiles -> {"none", "live", "ended"}]]

LedgerInit == LedgerTypeOK /\ \A id \in Ids, tile \in Tiles :
                life[id][tile] # "none" => id \in stored /\ life[id][tile] = "live"

Store(id) == stored' = stored \cup {id} /\ UNCHANGED life

Advance(id, tile, from, to) ==
  /\ id \in stored /\ life[id][tile] = from
  /\ life' = [life EXCEPT ![id] = [@ EXCEPT ![tile] = to]]
  /\ UNCHANGED stored

Publish(id, tile) == Advance(id, tile, "none", "live")
End(id, tile) == Advance(id, tile, "live", "ended")

LedgerNext ==
  \E id \in Ids : Store(id) \/ \E tile \in Tiles : Publish(id, tile) \/ End(id, tile)

Spec == LedgerInit /\ [][LedgerNext]_LedgerVars
=============================================================================
