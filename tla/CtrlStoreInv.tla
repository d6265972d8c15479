----------------------------- MODULE CtrlStoreInv -----------------------------
(***************************************************************************)
(* The inductive invariant of CtrlStore.  Layer by layer it says what a    *)
(* handler may rely on at each of its steps, although no lock protects it: *)
(* an id being written is known to nobody else, a tile still to be indexed *)
(* holds no record of the new control, a tile already visited does.        *)
(***************************************************************************)
EXTENDS CtrlStore

(* Which requests can be at which step.                                      *)
Shaped(r) ==
  /\ r.pc = "idle" => r = Idle
  /\ r.pc \in {"open", "write"} => r.op \in {"add", "message", "edit", "relabel"}
  /\ r.pc \in {"index", "draw"} => r.op \in {"add", "message", "edit"}
  /\ r.pc \in {"open", "write", "index", "draw"} => r.id \in Ids
  /\ r.pc = "lock" => r.op \in {"edit", "delete"}
  /\ r.pc \in {"find", "mark"} => r.op \in {"edit", "delete", "cleanup"}
  /\ r.pc \in {"lock", "find", "mark"} => r.orig \in Ids
  /\ r.op = "edit" => r.id \in Ids /\ r.orig \in Ids /\ Succeeds(r.id, r.orig)
  /\ r.op \in {"delete", "cleanup"} => r.id = NoId

Handler == {r \in Request : Shaped(r)}

Shape == th \in [Threads -> Handler]

(* A thread that creates the control th[t].id.                               *)
Creates(t) == th[t].op \in {"add", "message", "edit"} /\ th[t].pc # "idle"

(* Nobody else has the id of a control being created in hand, but a label    *)
(* edit may once the file is written.                                        *)
IdsApart ==
  \A t, u \in Threads :
    t # u /\ Creates(t) /\ th[t].id = th[u].id =>
      th[u].op = "relabel" /\ th[t].pc \notin {"open", "write"}

Kept(id) == bin[id] = "whole" \/ (bin[id] # "absent" /\ id \in relabelled)

FileWritten ==
  \A t \in Threads :
    /\ Creates(t) => CASE th[t].pc = "open" -> bin[th[t].id] = "absent"
                       [] th[t].pc = "write" -> bin[th[t].id] = "partial" /\ ~th[t].clash
                       [] OTHER -> Kept(th[t].id)
    /\ th[t].op = "relabel" /\ th[t].pc = "open" => bin[th[t].id] # "absent"
    /\ th[t].op = "relabel" /\ th[t].pc = "write" => th[t].id \in relabelled

FileInv == IdsApart /\ FileWritten /\ IndexedIsStored

-----------------------------------------------------------------------------
(* The tiles whose index the thread has yet to write.                        *)
Unindexed(t) ==
  IF th[t].pc \in {"open", "write"} THEN Tiles
  ELSE IF th[t].pc = "index" THEN th[t].todo
  ELSE IF th[t].pc = "draw" THEN {tile \in th[t].todo : ~IsNext(tile, th[t].todo)}
  ELSE {}

NotYetIndexed ==
  \A t \in Threads : Creates(t) => \A tile \in Unindexed(t) : ~Holds(tile, th[t].id)

IndexedThenDrawn ==
  \A t \in Threads, tile \in Tiles :
    th[t].pc = "draw" /\ IsNext(tile, th[t].todo) /\ tile \in CrossedTiles(th[t].id) =>
      Holds(tile, th[t].id)

(* Only controls that renderCtrls knows how to draw are ever indexed.         *)
IndexedDrawable ==
  \A tile \in Tiles : \A k \in 1..Len(ndx[tile]) : ndx[tile][k].id \in Drawable

(* A request has tiles to index only if its control can be drawn.             *)
LoopDrawable ==
  \A t \in Threads :
    th[t].pc \in {"index", "draw"} /\ th[t].todo # {} => th[t].id \in Drawable

IndexInv ==
  /\ NotYetIndexed /\ IndexedThenDrawn /\ IndexedDrawable /\ LoopDrawable
  /\ OneRecordPerTile /\ FoundStays /\ DrawnIsIndexed

-----------------------------------------------------------------------------
(* An edit has put a replacement that can be drawn into every tile it has    *)
(* passed.                                                                   *)
Replaced ==
  \A t \in Threads :
    /\ th[t].op = "edit" /\ th[t].pc \in {"index", "draw", "lock", "find", "mark"}
    /\ th[t].id \in Drawable
    => \A tile \in (FileTiles(th[t].orig) \cap CrossedTiles(th[t].orig)) \ Unindexed(t) :
        \E k \in 1..Len(ndx[tile]) :
          ndx[tile][k].id = th[t].id /\ ndx[tile][k].start = th[t].ts

Past(time) == time <= clock \/ time <= SourceTime

(* End times come from a clock that has been read.                           *)
EndsInPast ==
  \A t \in Threads :
    th[t].op \in {"edit", "cleanup"} \/ th[t].pc = "mark" => Past(th[t].ts)

EndedIn(tile, id) ==
  /\ Holds(tile, id)
  /\ \A k \in 1..Len(ndx[tile]) : ndx[tile][k].id = id => Past(ndx[tile][k].end)

(* A handler that has found a record is at a tile.                           *)
MarksATile ==
  \A t \in Threads : th[t].pc = "mark" => \E tile \in Tiles : IsNext(tile, th[t].todo)

(* A deletion has ended the control in every tile it has passed.             *)
EndedSoFar ==
  \A t \in Threads :
    th[t].op \in {"delete", "cleanup"} /\ th[t].pc # "idle" =>
      \A tile \in FileTiles(th[t].orig) \ th[t].todo : EndedIn(tile, th[t].orig)

RetiredEnded == \A id \in retired : \A tile \in FileTiles(id) : EndedIn(tile, id)

EndInv == Replaced /\ EndsInPast /\ MarksATile /\ EndedSoFar /\ RetiredEnded

(* All of it: a handler at any step can rely on what its earlier steps did.   *)
StoreInv == TypeOK /\ Shape /\ FileInv /\ IndexInv /\ EndInv
=============================================================================
