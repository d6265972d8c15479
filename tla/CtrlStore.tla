------------------------------ MODULE CtrlStore ------------------------------
(***************************************************************************)
(* The traffic-control store of CARMA Cloud: one .bin file per control     *)
(* under traf_ctrls, and per map tile an index file (.ndx) of fixed-size   *)
(* records and a file of drawn features (td).  Request threads add, edit,  *)
(* re-label and delete controls (ws/CtrlTiles, ctrl/proc/ProcCtrl), the    *)
(* roadside-message collector adds and cleans up its own (rsm/RsmParser,   *)
(* rsm/RsmCollect).  Every step below ends at an access to a shared file   *)
(* or lock, so the model interleaves handlers the way the servlet engine   *)
(* does.  An id stands for the SHAKE-256 hash TrafCtrl.generateId takes of *)
(* the control's fields, creation millisecond included.                    *)
(***************************************************************************)
EXTENDS Integers, Sequences

CONSTANTS
  Ids,      \* the controls that may ever exist
  Geos,     \* the lane geometries that controls cover
  GeoOf,    \* the geometry of each control
  Built,    \* per geometry, the tiles CtrlGeo finds while it expands the lane
  Reread,   \* per geometry, the tiles CtrlGeo finds when it reads a .bin back
  Crosses,  \* per geometry, the tiles some cross section of the lane touches
  Tiles,    \* tile numbers, in the order of Mercator.TILECOMP
  Drawable, \* controls of a type renderCtrls has a case for
  Threads,  \* request and collector threads
  Base,     \* the control that offline processing has stored beforehand
  SimSkew,  \* TimeSource minus System.currentTimeMillis; 0 in real-time mode
  MaxClock, \* bound: the last tick of the wall clock
  MaxRequests, \* bound: the number of requests that arrive
  Forever,  \* Long.MAX_VALUE, the end of a control nobody has ended
  NoId, NoThread

ASSUME StoreAssumption ==
  /\ Tiles \subseteq Nat
  /\ Drawable \subseteq Ids /\ Base \in Drawable
  /\ NoId \notin Ids /\ NoThread \notin Threads
  /\ GeoOf \in [Ids -> Geos]
  /\ Built \in [Geos -> SUBSET Tiles]
  /\ Reread \in [Geos -> SUBSET Tiles]
  /\ Crosses \in [Geos -> SUBSET Tiles]
  /\ \A g \in Geos : Built[g] \subseteq Crosses[g]
  /\ MaxClock \in Nat \ {0} /\ MaxRequests \in Nat /\ SimSkew \in Int
  /\ Forever \in Int /\ Forever > MaxClock /\ Forever > MaxClock + SimSkew

VARIABLES
  clock,     \* System.currentTimeMillis, in ticks of 10 ms
  bin,       \* content of each control's .bin file
  ndx,       \* per tile, the records of its .ndx file
  td,        \* per tile, the controls that have features in its td file
  th,        \* the request each thread is working on
  arrived,   \* how many requests have come in
  indexLock, \* holder of ProcCtrl.INDEXLOCK
  servlet,   \* holder of the monitor of the CtrlTiles servlet
  relabelled, \* history: controls a label-only edit has rewritten
  retired    \* history: controls some handler reported as deleted

fileVars == <<bin, ndx, td>>
histVars == <<relabelled, retired>>
vars == <<clock, bin, ndx, td, th, arrived, indexLock, servlet,
          relabelled, retired>>

IndexRecord == [id : Ids, start : Int, end : Int]

Collector == {"message", "cleanup"}
Ops == {"add", "edit", "relabel", "delete"} \cup Collector

Request == [pc : {"idle", "open", "write", "index", "draw", "lock", "find", "mark"},
            op : Ops,
            orig : Ids \cup {NoId},  \* oOriginalCtrl
            id : Ids \cup {NoId},    \* the control being written
            todo : SUBSET Tiles,     \* tiles the current loop has left
            pos : Nat,               \* nPos of updateIndex, as a record number
            ts : Int,                \* lNow, or the end time being written
            clash : BOOLEAN]         \* another thread had the same .bin open

Begin(pc, op, orig, id, todo, ts) ==
  [pc |-> pc, op |-> op, orig |-> orig, id |-> id, todo |-> todo,
   pos |-> 0, ts |-> ts, clash |-> FALSE]

Idle == Begin("idle", "add", NoId, NoId, {}, 0)

(* TimeSource.getInstance().currentTimeMillis(); the handlers that call      *)
(* System.currentTimeMillis() instead read clock.                            *)
SourceTime == clock + SimSkew

(* Mutant: the margin is added instead of taken off.                         *)
AgoLate(time) == time + 1

(* "- 10" milliseconds                                                       *)
Ago(time) == time - 1

(* The tiles of a control: where its edges have points as CtrlGeo builds the *)
(* lane, where they have points when its file is read back, and where a     *)
(* cross section of the lane reaches.                                        *)
LaneTiles(id) == Built[GeoOf[id]]
FileTiles(id) == Reread[GeoOf[id]]
CrossedTiles(id) == Crosses[GeoOf[id]]

(* The tiles are visited in TILECOMP order.                                  *)
IsNext(tile, todo) == tile \in todo /\ \A other \in todo : tile <= other

Holds(tile, id) == \E k \in 1..Len(ndx[tile]) : ndx[tile][k].id = id

(* Mutant: the scan does not compare ids.                                    *)
IsFirstAnyId(tile, id, k) == k \in 1..Len(ndx[tile])

(* The record updateIndex stops at: the first one with the id.               *)
IsFirst(tile, id, k) ==
  /\ k \in 1..Len(ndx[tile]) /\ ndx[tile][k].id = id
  /\ \A j \in 1..(k - 1) : ndx[tile][j].id # id

(* Mutant: the hash leaves the creation time out, so a stored id comes back. *)
FreshUntimed(id) == \A t \in Threads : th[t].id # id

(* TrafCtrl reads the whole file or throws.                                  *)
Readable(id) == bin[id] = "whole"

(* An id no file and no running request uses.                                *)
Fresh(id) == bin[id] = "absent" /\ \A t \in Threads : th[t].id # id

-----------------------------------------------------------------------------
TypeOK ==
  /\ clock \in 1..MaxClock
  /\ bin \in [Ids -> {"absent", "partial", "whole", "mixed"}]
  /\ ndx \in [Tiles -> Seq(IndexRecord)]
  /\ td \in [Tiles -> SUBSET Ids]
  /\ th \in [Threads -> Request] /\ arrived \in 0..MaxRequests
  /\ indexLock \in Threads \cup {NoThread}
  /\ servlet \in Threads \cup {NoThread}
  /\ relabelled \subseteq Ids /\ retired \subseteq Ids

Init ==
  /\ clock = 1
  /\ bin = [i \in Ids |-> IF i = Base THEN "whole" ELSE "absent"]
  /\ ndx = [tile \in Tiles |->
              IF tile \in LaneTiles(Base)
              THEN <<[id |-> Base, start |-> 0, end |-> Forever]>> ELSE <<>>]
  /\ td = [tile \in Tiles |-> IF tile \in LaneTiles(Base) THEN {Base} ELSE {}]
  /\ th = [t \in Threads |-> Idle] /\ arrived = 0
  /\ indexLock = NoThread /\ servlet = NoThread
  /\ relabelled = {} /\ retired = {}

Become(t, request) == th' = [th EXCEPT ![t] = request]

Tick == clock < MaxClock /\ clock' = clock + 1
        /\ UNCHANGED <<fileVars, th, arrived, indexLock, servlet, histVars>>

-----------------------------------------------------------------------------
(* Handlers, as the idle thread t takes them up (Arrive).  Each starts by    *)
(* reading the original's .bin; when that throws the handler answers 400     *)
(* having changed nothing.                                                   *)

(* Mutant: the new control is rendered without having been written.          *)
AddControlUnwritten(t) ==
  \E orig \in Ids, id \in Ids :
    /\ Readable(orig) /\ Fresh(id)
    /\ Become(t, Begin("index", "add", orig, id, LaneTiles(id), Ago(SourceTime)))

(* CtrlTiles.addControl: a new control on part of an existing one's lane.    *)
AddControl(t) ==
  /\ \E orig \in Ids, id \in Ids :
       /\ Readable(orig) /\ Fresh(id)
       /\ Become(t, Begin("open", "add", orig, id, {}, Ago(SourceTime)))

(* RsmCollect.m_bRunning: one collection at a time.                          *)
CollectorFree == \A u \in Threads : th[u].op \notin Collector

(* RsmParser.parseRequest: a control out of a roadside message.  Its start   *)
(* is the message's own start date, past or to come.                         *)
AddFromMessage(t) ==
  /\ CollectorFree
  /\ \E id \in Ids, start \in {Ago(clock), clock + 1} :
       /\ Fresh(id)
       /\ Become(t, Begin("open", "message", NoId, id, {}, start))

(* An edited control keeps its geometry, and the edit page keeps its type.   *)
Succeeds(id, orig) == GeoOf[id] = GeoOf[orig] /\ (id \in Drawable <=> orig \in Drawable)

(* Mutant: the original is ended first and the new control never written.    *)
SaveEditEndsFirst(t) ==
  \E orig \in Ids, id \in Ids :
    /\ Readable(orig) /\ Fresh(id) /\ Succeeds(id, orig)
    /\ Become(t, Begin("lock", "edit", orig, id, FileTiles(orig), SourceTime))

(* CtrlTiles.saveEdit, the branch taken when value, regulatory flag or       *)
(* vehicle types differ: a new control on the original's points.             *)
SaveEdit(t) ==
  /\ \E orig \in Ids, id \in Ids :
       /\ Readable(orig) /\ Fresh(id) /\ Succeeds(id, orig)
       /\ Become(t, Begin("open", "edit", orig, id, {}, SourceTime))

(* CtrlTiles.saveEdit, the branch for a new label: the file is rewritten     *)
(* under the same id, because the hash leaves the label out.                 *)
SaveLabel(t) ==
  /\ \E orig \in Ids :
       /\ Readable(orig)
       /\ Become(t, Begin("open", "relabel", orig, orig, {}, 0))

(* ProcCtrl.deleteControl                                                    *)
DeleteControl(t) ==
  /\ \E orig \in Ids :
       /\ Readable(orig)
       /\ Become(t, Begin("lock", "delete", orig, NoId, FileTiles(orig), 0))

(* RsmCollect.RsmRecord.cleanup for one control; its lock is the record's    *)
(* own, which no other thread ever takes, so it has no step of its own.      *)
Cleanup(t) ==
  /\ CollectorFree
  /\ \E orig \in Ids :
       /\ Readable(orig)
       /\ Become(t, Begin("find", "cleanup", orig, NoId, FileTiles(orig), Ago(clock)))

-----------------------------------------------------------------------------
(* TrafCtrl.writeBin opens with CREATE and TRUNCATE_EXISTING, and every      *)
(* field is a write of its own.                                              *)
SharesFile(t, u) == u # t /\ th[u].pc = "write" /\ th[u].id = th[t].id

OpenBin(t) ==
  /\ th[t].pc = "open"
  /\ bin' = [bin EXCEPT ![th[t].id] = "partial"]
  /\ th' = [u \in Threads |->
              IF u = t
              THEN [th[t] EXCEPT !.pc = "write",
                                 !.clash = \E w \in Threads : SharesFile(t, w)]
              ELSE IF SharesFile(t, u) THEN [th[u] EXCEPT !.clash = TRUE] ELSE th[u]]
  /\ relabelled' = IF th[t].op = "relabel" THEN relabelled \cup {th[t].id}
                   ELSE relabelled
  /\ UNCHANGED <<clock, ndx, td, indexLock, servlet, retired>>

(* The tiles the handler renders to: the new control's own for an add, the   *)
(* original's, as read back, for an edit.  renderCtrls does nothing, and      *)
(* reports nothing, for a type it has no case for.                            *)
RenderTiles(request) ==
  IF request.id \notin Drawable THEN {}
  ELSE IF request.op = "edit" THEN FileTiles(request.orig) ELSE LaneTiles(request.id)

(* The last write.  Two threads that had the file open at once have written  *)
(* over each other: the labels' lengths decide whether it can be read.       *)
CloseBin(t) ==
  LET id == th[t].id IN
  /\ th[t].pc = "write"
  /\ \E content \in {"partial", "whole", "mixed"} :
       /\ content = "partial" <=> \E u \in Threads : SharesFile(t, u)
       /\ content = "mixed" => th[t].clash
       /\ bin' = [bin EXCEPT ![id] = content]
  /\ Become(t, IF th[t].op = "relabel" THEN Idle
               ELSE [th[t] EXCEPT !.pc = "index", !.todo = RenderTiles(th[t])])
  /\ UNCHANGED <<clock, ndx, td, indexLock, servlet, histVars>>

(* Mutant: newest records first.                                             *)
IndexTileInFront(t, tile) ==
  LET id == th[t].id IN
  /\ th[t].pc = "index" /\ IsNext(tile, th[t].todo)
  /\ ndx' = [ndx EXCEPT ![tile] = <<[id |-> id, start |-> th[t].ts, end |-> Forever]>> \o @]
  /\ Become(t, [th[t] EXCEPT !.pc = "draw"])
  /\ UNCHANGED <<clock, bin, td, indexLock, servlet, histVars>>

(* ProcCtrl.writeIndexFile for the next tile of renderTiledData's loop: one  *)
(* buffered append of the whole record.                                      *)
IndexTile(t, tile) ==
  LET id == th[t].id IN
  /\ th[t].pc = "index" /\ IsNext(tile, th[t].todo)
  /\ ndx' = IF tile \in CrossedTiles(id)
            THEN [ndx EXCEPT ![tile] =
                    Append(@, [id |-> id, start |-> th[t].ts, end |-> Forever])]
            ELSE ndx
  /\ Become(t, [th[t] EXCEPT !.pc = "draw"])
  /\ UNCHANGED <<clock, bin, td, indexLock, servlet, histVars>>

(* Mutant: features carry the id of the original.                            *)
DrawTileOriginal(t, tile) ==
  /\ th[t].pc = "draw" /\ IsNext(tile, th[t].todo)
  /\ td' = [td EXCEPT ![tile] = @ \cup {th[t].orig}]
  /\ Become(t, [th[t] EXCEPT !.pc = "index", !.todo = @ \ {tile}])
  /\ UNCHANGED <<clock, bin, ndx, indexLock, servlet, histVars>>

(* The rest of that iteration: the features clipped to the tile go to its td *)
(* file, unless the lane has no edge point there.                            *)
DrawTile(t, tile) ==
  LET id == th[t].id IN
  /\ th[t].pc = "draw" /\ IsNext(tile, th[t].todo)
  /\ td' = IF tile \in LaneTiles(id) THEN [td EXCEPT ![tile] = @ \cup {id}] ELSE td
  /\ Become(t, [th[t] EXCEPT !.pc = "index", !.todo = @ \ {tile}])
  /\ UNCHANGED <<clock, bin, ndx, indexLock, servlet, histVars>>

(* Every tile is rendered: an add has answered, an edit goes on to end the   *)
(* original.                                                                 *)
Rendered(t) ==
  /\ th[t].pc = "index" /\ th[t].todo = {}
  /\ Become(t, IF th[t].op = "edit"
               THEN [th[t] EXCEPT !.pc = "lock", !.todo = FileTiles(th[t].orig)]
               ELSE Idle)
  /\ UNCHANGED <<clock, fileVars, indexLock, servlet, histVars>>

-----------------------------------------------------------------------------
(* synchronized (INDEXLOCK) in deleteControl, synchronized (this) in         *)
(* saveEdit: two different locks around the same files.                      *)
Lock(t) ==
  /\ th[t].pc = "lock"
  /\ \/ th[t].op = "delete" /\ indexLock = NoThread /\ indexLock' = t /\ UNCHANGED servlet
     \/ th[t].op = "edit" /\ servlet = NoThread /\ servlet' = t /\ UNCHANGED indexLock
  /\ Become(t, [th[t] EXCEPT !.pc = "find"])
  /\ UNCHANGED <<clock, fileVars, histVars>>

Free(holder, t) == IF holder = t THEN NoThread ELSE holder

Unlock(t) == indexLock' = Free(indexLock, t) /\ servlet' = Free(servlet, t)

(* updateIndex, first half: scan the tile's index for the id.  deleteControl *)
(* reads the clock anew for every tile.                                      *)
FindRecord(t, tile) ==
  /\ th[t].pc = "find" /\ IsNext(tile, th[t].todo)
  /\ \E k \in 1..Len(ndx[tile]) :
       /\ IsFirst(tile, th[t].orig, k)
       /\ Become(t, [th[t] EXCEPT !.pc = "mark", !.pos = k,
                       !.ts = IF th[t].op = "delete" THEN Ago(clock) ELSE @])
  /\ UNCHANGED <<clock, fileVars, indexLock, servlet, histVars>>

(* Mutants: a tile without the id is passed over; the lock stays held.       *)
NotFoundSkips(t, tile) ==
  /\ th[t].pc = "find" /\ IsNext(tile, th[t].todo) /\ ~Holds(tile, th[t].orig)
  /\ Become(t, [th[t] EXCEPT !.todo = @ \ {tile}])
  /\ UNCHANGED <<clock, fileVars, indexLock, servlet, histVars>>
NotFoundKeepsLock(t, tile) ==
  /\ th[t].pc = "find" /\ IsNext(tile, th[t].todo) /\ ~Holds(tile, th[t].orig)
  /\ Become(t, Idle)
  /\ UNCHANGED <<clock, fileVars, indexLock, servlet, histVars>>

(* "Id not found", or no index file at all: the exception leaves the loop,   *)
(* the tiles already visited stay ended and the handler answers 400.         *)
NotFound(t, tile) ==
  /\ th[t].pc = "find" /\ IsNext(tile, th[t].todo) /\ ~Holds(tile, th[t].orig)
  /\ Become(t, Idle) /\ Unlock(t)
  /\ UNCHANGED <<clock, fileVars, histVars>>

(* Mutant: an edit of an ended control writes its end back to "never".       *)
MarkEndForever(t, tile) ==
  /\ th[t].pc = "mark" /\ IsNext(tile, th[t].todo)
  /\ ndx' = [ndx EXCEPT ![tile] = [@ EXCEPT ![th[t].pos].end =
               IF @ = Forever THEN th[t].ts ELSE Forever]]
  /\ Become(t, [th[t] EXCEPT !.pc = "find", !.todo = @ \ {tile}])
  /\ UNCHANGED <<clock, bin, td, indexLock, servlet, histVars>>

(* updateIndex, second half: write the end time at the position found.       *)
MarkEnd(t, tile) ==
  /\ th[t].pc = "mark" /\ IsNext(tile, th[t].todo)
  /\ ndx' = [ndx EXCEPT ![tile] = [@ EXCEPT ![th[t].pos].end = th[t].ts]]
  /\ Become(t, [th[t] EXCEPT !.pc = "find", !.todo = @ \ {tile}])
  /\ UNCHANGED <<clock, bin, td, indexLock, servlet, histVars>>

Ended(t) ==
  /\ th[t].pc = "find" /\ th[t].todo = {}
  /\ Become(t, Idle) /\ Unlock(t)
  /\ retired' = IF th[t].op = "edit" THEN retired ELSE retired \cup {th[t].orig}
  /\ UNCHANGED <<clock, fileVars, relabelled>>

-----------------------------------------------------------------------------
(* Any file access may throw; the handlers catch it, answer 400 and leave    *)
(* the files as they are.                                                    *)
Fail(t) ==
  /\ th[t].pc \notin {"idle", "lock"} /\ Become(t, Idle) /\ Unlock(t)
  /\ UNCHANGED <<clock, fileVars, histVars>>

(* The server stops and starts again: the files are all that is left.        *)
Restart ==
  /\ th' = [t \in Threads |-> Idle]
  /\ indexLock' = NoThread /\ servlet' = NoThread
  /\ UNCHANGED <<clock, fileVars, arrived, histVars>>

OnTile(t, tile) ==
  IndexTile(t, tile) \/ DrawTile(t, tile) \/ FindRecord(t, tile)
  \/ NotFound(t, tile) \/ MarkEnd(t, tile)

Arrive(t) ==
  /\ th[t].pc = "idle" /\ arrived < MaxRequests /\ arrived' = arrived + 1
  /\ \/ AddControl(t) \/ AddFromMessage(t) \/ SaveEdit(t) \/ SaveLabel(t)
     \/ DeleteControl(t) \/ Cleanup(t)
  /\ UNCHANGED <<clock, fileVars, indexLock, servlet, histVars>>

Work(t) ==
  /\ \/ OpenBin(t) \/ CloseBin(t) \/ Rendered(t) \/ Lock(t) \/ Ended(t) \/ Fail(t)
     \/ \E tile \in Tiles : OnTile(t, tile)
  /\ UNCHANGED arrived

Next == Tick \/ Restart \/ \E t \in Threads : Arrive(t) \/ Work(t)

Spec == Init /\ [][Next]_vars

(* A thread the servlet engine has started keeps running.                    *)
FairSpec == Spec /\ \A t \in Threads : WF_vars(Work(t))

-----------------------------------------------------------------------------
(* Properties.                                                               *)

(* A reader that finds an id in an index also finds its .bin file (write      *)
(* precedes renderCtrls in every handler), and finds it complete unless a     *)
(* label-only edit has rewritten it in place.                                 *)
IndexedIsStored ==
  \A tile \in Tiles : \A k \in 1..Len(ndx[tile]) :
    LET id == ndx[tile][k].id IN bin[id] = "whole" \/ (bin[id] # "absent" /\ id \in relabelled)

(* The position updateIndex found is still the first record of that control   *)
(* when it writes there, although the append of another handler may fall      *)
(* between the two and the three locks around updateIndex exclude nobody.     *)
FoundStays ==
  \A t \in Threads : \A tile \in Tiles :
    th[t].pc = "mark" /\ IsNext(tile, th[t].todo) => IsFirst(tile, th[t].orig, th[t].pos)

(* A tile's index holds one record per control, so ending the first ends all. *)
OneRecordPerTile ==
  \A tile \in Tiles : \A j, k \in 1..Len(ndx[tile]) :
    ndx[tile][j].id = ndx[tile][k].id => j = k

(* When an edit writes the end of the original, in any tile, the replacement  *)
(* is already in that tile and starts at the very time being written: vehicles *)
(* never see the lane without a control, even if the edit stops half way.     *)
SuccessorFirst ==
  \A t \in Threads : th[t].pc = "mark" /\ th[t].op = "edit" =>
    \A tile \in FileTiles(th[t].orig) \cap CrossedTiles(th[t].orig) :
      \E k \in 1..Len(ndx[tile]) :
        ndx[tile][k].id = th[t].id /\ ndx[tile][k].start = th[t].ts

(* A deletion that was not answered with an error has ended the control in    *)
(* every tile its file leads to, whatever ran in between.                     *)
RetiredIsEnded ==
  \A id \in retired : \A tile \in FileTiles(id) :
    /\ Holds(tile, id)
    /\ \A k \in 1..Len(ndx[tile]) : ndx[tile][k].id = id => ndx[tile][k].end # Forever

(* The test TcmReqServlet makes before it sends a control to vehicles.        *)
InForce(record) == record.end > SourceTime

(* The test CtrlTiles.doGet makes before it shows a control on the map.       *)
OnMap(record) == record.start >= SourceTime \/ record.end > SourceTime

RetiredRecords(Test(_)) ==
  \A id \in retired : \A tile \in FileTiles(id) : \A k \in 1..Len(ndx[tile]) :
    ndx[tile][k].id = id => ~Test(ndx[tile][k])

(* A deleted control is not sent to vehicles any more.                        *)
RetiredNotInForce == RetiredRecords(InForce)

(* The map shows "everything valid now and in the future": no deleted control. *)
RetiredNotOnMap == RetiredRecords(OnMap)

(* The map draws, in a tile, only controls that tile's index can switch off.   *)
DrawnIsIndexed == \A tile \in Tiles : \A id \in td[tile] : Holds(tile, id)

(* The end of a record changes only while some handler is ending that control. *)
OnlyTargetEnds ==
  [][\A tile \in Tiles : \A k \in 1..Len(ndx[tile]) :
       ndx'[tile][k].end # ndx[tile][k].end =>
         \E t \in Threads : th[t].pc = "mark" /\ th[t].orig = ndx[tile][k].id]_vars

(* Whoever takes INDEXLOCK or the servlet's monitor gives it back, on the      *)
(* error paths too.                                                            *)
LocksReleased ==
  /\ indexLock # NoThread ~> indexLock = NoThread
  /\ servlet # NoThread ~> servlet = NoThread

-----------------------------------------------------------------------------
(* What the store promises (CtrlLedger): a control's life in a tile.           *)
Life ==
  [id \in Ids |-> [tile \in Tiles |->
     IF ~Holds(tile, id) THEN "none"
     ELSE IF \E k \in 1..Len(ndx[tile]) : ndx[tile][k].id = id /\ ndx[tile][k].end = Forever
          THEN "live" ELSE "ended"]]

Ledger == INSTANCE CtrlLedger WITH stored <- {id \in Ids : bin[id] # "absent"}, life <- Life

(* Every step of the store is a step of the ledger or leaves it alone.         *)
ImplementsLedger == Ledger!Spec
=============================================================================
