--------------------------- MODULE CtrlStoreProofs ---------------------------
(* Theorems about CtrlStore, for every set of controls, geometries, tiles and *)
(* threads.                                                                   *)
EXTENDS CtrlStoreInv, TLAPS

Typed == TypeOK /\ Shape

(* The steps a request goes through, one action at a time.                    *)
LEMMA ThreadSteps ==
  ASSUME NEW t \in Threads, Work(t)
  PROVE  \/ OpenBin(t) \/ CloseBin(t) \/ Rendered(t) \/ Lock(t) \/ Ended(t) \/ Fail(t)
         \/ \E tile \in Tiles : IndexTile(t, tile) \/ DrawTile(t, tile)
              \/ FindRecord(t, tile) \/ NotFound(t, tile) \/ MarkEnd(t, tile)
BY DEF Work, OnTile

LEMMA ClockType ==
  ASSUME TypeOK
  PROVE  /\ clock \in Int /\ clock + 1 \in Int /\ SourceTime \in Int
         /\ Ago(clock) \in Int /\ Ago(SourceTime) \in Int
BY StoreAssumption DEF TypeOK, SourceTime, Ago

LEMMA TileSets ==
  ASSUME NEW id \in Ids
  PROVE  /\ LaneTiles(id) \in SUBSET Tiles /\ FileTiles(id) \in SUBSET Tiles
         /\ CrossedTiles(id) \in SUBSET Tiles /\ LaneTiles(id) \subseteq CrossedTiles(id)
BY StoreAssumption DEF LaneTiles, FileTiles, CrossedTiles

LEMMA IdleType == Idle \in Handler
BY StoreAssumption DEF Idle, Begin, Handler, Request, Ops, Shaped

(* A request is well formed if its handler starts it at the right step.       *)
LEMMA BeginType ==
  ASSUME NEW pc \in {"open", "lock", "find"},
         NEW op \in Ops, NEW orig \in Ids \cup {NoId}, NEW id \in Ids \cup {NoId},
         NEW todo \in SUBSET Tiles, NEW ts \in Int,
         pc = "open" => op \in {"add", "message", "edit", "relabel"} /\ id \in Ids,
         pc # "open" => op \in {"delete", "cleanup"} /\ orig \in Ids /\ id = NoId,
         pc = "lock" <=> op = "delete",
         op = "edit" => orig \in Ids /\ Succeeds(id, orig)
  PROVE  Begin(pc, op, orig, id, todo, ts) \in Handler
<1>1. Begin(pc, op, orig, id, todo, ts) \in Request
  BY DEF Begin, Request
<1>2. Shaped(Begin(pc, op, orig, id, todo, ts))
  BY DEF Begin, Shaped
<1>3. QED
  BY <1>1, <1>2 DEF Handler

LEMMA BecomeType ==
  ASSUME NEW t \in Threads, NEW request \in Handler, Shape, Become(t, request)
  PROVE  Shape' /\ th' \in [Threads -> Request]
BY DEF Shape, Become, Handler

LEMMA UnlockType ==
  ASSUME NEW t \in Threads, TypeOK, Unlock(t)
  PROVE  indexLock' \in Threads \cup {NoThread} /\ servlet' \in Threads \cup {NoThread}
BY DEF TypeOK, Unlock, Free

-----------------------------------------------------------------------------
(* Whatever request arrives, the thread takes up a well-formed one.           *)
LEMMA ArriveHandler ==
  ASSUME NEW t \in Threads, Typed, Arrive(t)
  PROVE  \E request \in Handler : Become(t, request)
<1>1. CASE AddControl(t)
  <2>1. PICK orig \in Ids, id \in Ids :
          Become(t, Begin("open", "add", orig, id, {}, Ago(SourceTime)))
    BY <1>1 DEF AddControl
  <2>2. Ago(SourceTime) \in Int
    BY ClockType DEF Typed
  <2>3. QED
    BY <2>1, <2>2, BeginType DEF Ops
<1>2. CASE AddFromMessage(t)
  <2>1. PICK id \in Ids, start \in {Ago(clock), clock + 1} :
          Become(t, Begin("open", "message", NoId, id, {}, start))
    BY <1>2 DEF AddFromMessage
  <2>2. start \in Int
    BY ClockType DEF Typed
  <2>3. QED
    BY <2>1, <2>2, BeginType DEF Ops, Collector
<1>3. CASE SaveEdit(t)
  <2>1. PICK orig \in Ids, id \in Ids :
          Succeeds(id, orig) /\ Become(t, Begin("open", "edit", orig, id, {}, SourceTime))
    BY <1>3 DEF SaveEdit
  <2>2. SourceTime \in Int
    BY ClockType DEF Typed
  <2>3. QED
    BY <2>1, <2>2, BeginType DEF Ops
<1>4. CASE SaveLabel(t)
  BY <1>4, BeginType DEF SaveLabel, Ops
<1>5. CASE DeleteControl(t)
  BY <1>5, BeginType, TileSets DEF DeleteControl, Ops
<1>6. CASE Cleanup(t)
  <2>1. PICK orig \in Ids :
          Become(t, Begin("find", "cleanup", orig, NoId, FileTiles(orig), Ago(clock)))
    BY <1>6 DEF Cleanup
  <2>2. Ago(clock) \in Int
    BY ClockType DEF Typed
  <2>3. QED
    BY <2>1, <2>2, BeginType, TileSets DEF Ops, Collector
<1>7. QED
  BY <1>1, <1>2, <1>3, <1>4, <1>5, <1>6 DEF Arrive

(* So does every step that goes on with a request.                            *)
LEMMA WorkHandler ==
  ASSUME NEW t \in Threads, Typed,
         \/ CloseBin(t) \/ Rendered(t) \/ Lock(t) \/ Ended(t) \/ Fail(t)
         \/ \E tile \in Tiles : OnTile(t, tile)
  PROVE  \E request \in Handler : Become(t, request)
<1>1. th[t] \in Handler
  BY DEF Typed, Shape
<1> USE <1>1 DEF Handler, Request, Shaped
<1>2. CASE CloseBin(t)
  <2>1. RenderTiles(th[t]) \in SUBSET Tiles
    BY <1>2, TileSets DEF CloseBin, RenderTiles
  <2>2. QED
    BY <1>2, <2>1, IdleType DEF CloseBin
<1>3. CASE Rendered(t)
  <2>1. CASE th[t].op = "edit"
    <3>1. FileTiles(th[t].orig) \in SUBSET Tiles
      BY <2>1, TileSets
    <3>2. QED
      BY <1>3, <2>1, <3>1 DEF Rendered
  <2>2. CASE th[t].op # "edit"
    BY <1>3, <2>2, IdleType DEF Rendered
  <2>3. QED
    BY <2>1, <2>2
<1>4. CASE Lock(t)
  BY <1>4 DEF Lock
<1>5. CASE Ended(t) \/ Fail(t)
  BY <1>5, IdleType DEF Ended, Fail
<1>6. ASSUME NEW tile \in Tiles, OnTile(t, tile)
      PROVE  \E request \in Handler : Become(t, request)
  <2>1. CASE IndexTile(t, tile)
    BY <2>1 DEF IndexTile
  <2>2. CASE DrawTile(t, tile)
    BY <2>2 DEF DrawTile
  <2>3. CASE FindRecord(t, tile)
    <3>1. PICK k \in 1..Len(ndx[tile]) :
            Become(t, [th[t] EXCEPT !.pc = "mark", !.pos = k,
                         !.ts = IF th[t].op = "delete" THEN Ago(clock) ELSE @])
      BY <2>3 DEF FindRecord
    <3>2. k \in Nat /\ Ago(clock) \in Int
      BY <3>1, ClockType DEF Typed
    <3>3. QED
      BY <2>3, <3>1, <3>2 DEF FindRecord
  <2>4. CASE NotFound(t, tile)
    BY <2>4, IdleType DEF NotFound
  <2>5. CASE MarkEnd(t, tile)
    BY <2>5 DEF MarkEnd
  <2>6. QED
    BY <1>6, <2>1, <2>2, <2>3, <2>4, <2>5 DEF OnTile
<1>7. QED
  BY <1>2, <1>3, <1>4, <1>5, <1>6

LEMMA ClashType ==
  ASSUME NEW request \in Handler, NEW clash \in BOOLEAN,
         request.pc \in {"open", "write"}
  PROVE  /\ [request EXCEPT !.clash = clash] \in Handler
         /\ [request EXCEPT !.pc = "write", !.clash = clash] \in Handler
<1>1. [request EXCEPT !.clash = clash] \in Handler
  BY DEF Handler, Request, Shaped
<1>2. [request EXCEPT !.pc = "write", !.clash = clash] \in Handler
  BY DEF Handler, Request, Shaped
<1>3. QED
  BY <1>1, <1>2

LEMMA OpenBinTyped ==
  ASSUME NEW t \in Threads, Typed, OpenBin(t)
  PROVE  Shape' /\ th' \in [Threads -> Request]
<1>1. \A u \in Threads : th[u] \in Handler
  BY DEF Typed, Shape
<1>2. ASSUME NEW u \in Threads
      PROVE  th'[u] \in Handler
  <2>1. CASE u = t
    <3>1. th[t].pc = "open"
      BY DEF OpenBin
    <3>2. PICK shared \in BOOLEAN : shared <=> \E w \in Threads : SharesFile(t, w)
      OBVIOUS
    <3>3. th'[u] = [th[t] EXCEPT !.pc = "write", !.clash = shared]
      BY <2>1, <3>2 DEF OpenBin
    <3>4. [th[t] EXCEPT !.pc = "write", !.clash = shared] \in Handler
      BY <1>1, <3>1, <3>2, ClashType
    <3>5. QED
      BY <2>1, <3>3, <3>4
  <2>2. CASE u # t /\ SharesFile(t, u)
    <3>1. th'[u] = [th[u] EXCEPT !.clash = TRUE] /\ th[u].pc = "write"
      BY <2>2 DEF OpenBin, SharesFile
    <3>2. QED
      BY <1>1, <3>1, ClashType
  <2>3. CASE u # t /\ ~SharesFile(t, u)
    BY <1>1, <2>3 DEF OpenBin
  <2>4. QED
    BY <2>1, <2>2, <2>3
<1>3. QED
  BY <1>2 DEF OpenBin, Shape, Handler

LEMMA ArriveTyped ==
  ASSUME NEW t \in Threads, Typed, Arrive(t)
  PROVE  Typed'
<1>1. Shape' /\ th' \in [Threads -> Request]
  BY ArriveHandler, BecomeType DEF Typed
<1>2. arrived' \in 0..MaxRequests
  BY StoreAssumption DEF Arrive, Typed, TypeOK
<1>3. QED
  BY <1>1, <1>2 DEF Typed, TypeOK, Arrive, fileVars, histVars

(* Writing an end time leaves the number of records and every other field.    *)
LEMMA EndWritten ==
  ASSUME NEW records \in Seq(IndexRecord), NEW k \in Nat, NEW time \in Int,
         NEW written, written = [records EXCEPT ![k].end = time]
  PROVE  /\ written \in Seq(IndexRecord) /\ Len(written) = Len(records)
         /\ \A j \in 1..Len(records) :
              /\ written[j].id = records[j].id /\ written[j].start = records[j].start
              /\ written[j].end = IF j = k THEN time ELSE records[j].end
<1>1. \A j \in 1..Len(records) : records[j] \in IndexRecord
  OBVIOUS
<1>2. DOMAIN written = 1..Len(records)
  OBVIOUS
<1>3. \A j \in 1..Len(records) :
        written[j] = IF j = k THEN [records[j] EXCEPT !.end = time] ELSE records[j]
  OBVIOUS
<1>4. \A j \in 1..Len(records) : written[j] \in IndexRecord
  <2>1. \A j \in 1..Len(records) : [records[j] EXCEPT !.end = time] \in IndexRecord
    BY <1>1 DEF IndexRecord
  <2>2. QED
    BY <1>1, <1>3, <2>1
<1>5. written \in [1..Len(records) -> IndexRecord]
  BY <1>2, <1>3, <1>4
<1>6. written \in Seq(IndexRecord) /\ Len(written) = Len(records)
  BY <1>5
<1>7. QED
  BY <1>1, <1>3, <1>6 DEF IndexRecord

(* What the index files hold stays a sequence of records.                     *)
LEMMA OnTileTyped ==
  ASSUME NEW t \in Threads, NEW tile \in Tiles, Typed, OnTile(t, tile)
  PROVE  ndx' \in [Tiles -> Seq(IndexRecord)] /\ td' \in [Tiles -> SUBSET Ids]
<1>1. th[t] \in Handler /\ ndx[tile] \in Seq(IndexRecord)
  BY DEF Typed, TypeOK, Shape
<1>2. CASE IndexTile(t, tile)
  <2>1. [id |-> th[t].id, start |-> th[t].ts, end |-> Forever] \in IndexRecord
    BY <1>1, <1>2, StoreAssumption DEF IndexTile, Handler, Request, Shaped, IndexRecord
  <2>2. QED
    BY <1>1, <1>2, <2>1 DEF IndexTile, Typed, TypeOK
<1>3. CASE DrawTile(t, tile)
  BY <1>1, <1>3 DEF DrawTile, Typed, TypeOK, Handler, Shaped
<1>4. CASE FindRecord(t, tile) \/ NotFound(t, tile)
  BY <1>4 DEF FindRecord, NotFound, Typed, TypeOK, fileVars
<1>5. CASE MarkEnd(t, tile)
  <2>1. [ndx[tile] EXCEPT ![th[t].pos].end = th[t].ts] \in Seq(IndexRecord)
    <3>1. th[t].pos \in Nat /\ th[t].ts \in Int
      BY <1>1 DEF Handler, Request
    <3>2. QED
      BY <1>1, <3>1, EndWritten
  <2>2. QED
    BY <1>5, <2>1 DEF MarkEnd, Typed, TypeOK
<1>6. QED
  BY <1>2, <1>3, <1>4, <1>5 DEF OnTile

LEMMA WorkTyped ==
  ASSUME NEW t \in Threads, Typed, Work(t)
  PROVE  Typed'
<1>1. arrived' = arrived
  BY DEF Work
<1>2. CASE OpenBin(t)
  <2>1. th[t].id \in Ids
    BY <1>2 DEF OpenBin, Typed, Shape, Handler, Shaped
  <2>2. bin' \in [Ids -> {"absent", "partial", "whole", "mixed"}] /\ relabelled' \subseteq Ids
    BY <1>2, <2>1 DEF OpenBin, Typed, TypeOK
  <2>3. QED
    BY <1>1, <1>2, <2>2, OpenBinTyped DEF OpenBin, Typed, TypeOK
<1>3. CASE \/ CloseBin(t) \/ Rendered(t) \/ Lock(t) \/ Ended(t) \/ Fail(t)
           \/ \E tile \in Tiles : OnTile(t, tile)
  <2>1. Shape' /\ th' \in [Threads -> Request]
    BY <1>3, WorkHandler, BecomeType DEF Typed
  <2>2. CASE CloseBin(t)
    BY <1>1, <2>1, <2>2 DEF CloseBin, Typed, TypeOK, histVars
  <2>3. CASE Rendered(t)
    BY <1>1, <2>1, <2>3 DEF Rendered, Typed, TypeOK, fileVars, histVars
  <2>4. CASE Lock(t)
    BY <1>1, <2>1, <2>4 DEF Lock, Typed, TypeOK, fileVars, histVars
  <2>5. CASE Ended(t)
    <3>1. retired' \subseteq Ids
      BY <2>5 DEF Ended, Typed, TypeOK, Shape, Handler, Shaped
    <3>2. QED
      BY <1>1, <2>1, <2>5, <3>1, UnlockType DEF Ended, Typed, TypeOK, fileVars
  <2>6. CASE Fail(t)
    BY <1>1, <2>1, <2>6, UnlockType DEF Fail, Typed, TypeOK, fileVars, histVars
  <2>7. ASSUME NEW tile \in Tiles, OnTile(t, tile)
        PROVE  Typed'
    <3>1. CASE NotFound(t, tile)
      BY <1>1, <2>1, <3>1, UnlockType DEF NotFound, Typed, TypeOK, fileVars, histVars
    <3>2. CASE IndexTile(t, tile) \/ DrawTile(t, tile) \/ FindRecord(t, tile) \/ MarkEnd(t, tile)
      BY <1>1, <2>1, <2>7, <3>2, OnTileTyped
         DEF IndexTile, DrawTile, FindRecord, MarkEnd, Typed, TypeOK, fileVars, histVars
    <3>3. QED
      BY <2>7, <3>1, <3>2 DEF OnTile
  <2>8. QED
    BY <1>3, <2>2, <2>3, <2>4, <2>5, <2>6, <2>7
<1>4. QED
  BY <1>2, <1>3 DEF Work

LEMMA NextTyped ==
  ASSUME Typed, [Next]_vars
  PROVE  Typed'
<1>1. CASE Tick
  BY <1>1, StoreAssumption DEF Tick, Typed, TypeOK, Shape, fileVars, histVars
<1>2. CASE Restart
  BY <1>2, IdleType DEF Restart, Typed, TypeOK, Shape, Handler, fileVars, histVars
<1>3. CASE UNCHANGED vars
  BY <1>3 DEF vars, Typed, TypeOK, Shape
<1>4. QED
  BY <1>1, <1>2, <1>3, ArriveTyped, WorkTyped DEF Next

LEMMA InitTyped == Init => Typed
<1> SUFFICES ASSUME Init PROVE Typed
  OBVIOUS
<1> USE StoreAssumption DEF Init
<1>1. Shape
  BY IdleType DEF Shape
<1>2. \A start \in Int, end \in Int : <<[id |-> Base, start |-> start, end |-> end]>> \in Seq(IndexRecord)
  BY DEF IndexRecord
<1>3. ndx \in [Tiles -> Seq(IndexRecord)]
  BY <1>2
<1>4. QED
  BY <1>1, <1>3 DEF Typed, TypeOK, Shape, Handler

(* The state of the store is what its file formats and handlers say it is,    *)
(* whatever the number of threads, tiles and controls.                        *)
THEOREM TypeCorrect == Spec => [](TypeOK /\ Shape)
<1>1. Typed /\ [Next]_vars => Typed'
  BY NextTyped
<1>2. QED
  BY InitTyped, <1>1, PTL DEF Spec, Typed

-----------------------------------------------------------------------------
(* The first layer of the inductive invariant of CtrlStore: what is indexed is *)
(* stored.  A control's file is written by the one handler that made its id    *)
(* up, before any index names it, and rewritten by label edits only.           *)

Stored == Typed /\ FileInv

LEMMA ThreadShape ==
  ASSUME Typed, NEW t \in Threads
  PROVE  th[t] \in Request /\ Shaped(th[t]) /\ (Creates(t) => th[t].id \in Ids)
<1>1. th[t] \in Request /\ Shaped(th[t])
  BY DEF Typed, Shape, Handler
<1>2. ASSUME Creates(t) PROVE th[t].id \in Ids
  BY <1>1, <1>2 DEF Shaped, Creates, Request
<1>3. QED
  BY <1>1, <1>2

-----------------------------------------------------------------------------
(* What each kind of step does to the requests.                               *)

(* A request that comes in makes up a new id, rewrites a complete file, or     *)
(* writes none.                                                               *)
LEMMA ArriveBrings ==
  ASSUME Typed, NEW t \in Threads, Arrive(t)
  PROVE  \E request \in Request :
           /\ Become(t, request) /\ ~request.clash
           /\ \/ /\ request.op \in {"add", "message", "edit"} /\ request.pc = "open"
                 /\ request.id \in Ids /\ Fresh(request.id)
              \/ /\ request.op = "relabel" /\ request.pc = "open"
                 /\ request.id \in Ids /\ Readable(request.id)
              \/ /\ request.op \in {"delete", "cleanup"} /\ request.pc \in {"lock", "find"}
                 /\ request.id = NoId
<1> DEFINE Brings(request) ==
      /\ ~request.clash
      /\ \/ /\ request.op \in {"add", "message", "edit"} /\ request.pc = "open"
            /\ request.id \in Ids /\ Fresh(request.id)
         \/ /\ request.op = "relabel" /\ request.pc = "open"
            /\ request.id \in Ids /\ Readable(request.id)
         \/ /\ request.op \in {"delete", "cleanup"} /\ request.pc \in {"lock", "find"}
            /\ request.id = NoId
<1>0. PICK request \in Handler : Become(t, request)
  BY ArriveHandler
<1>1. request \in Request /\ th'[t] = request
  BY <1>0 DEF Handler, Become, Typed, TypeOK
<1>2. ASSUME NEW r, Become(t, r) PROVE request = r
  BY <1>1, <1>2 DEF Become, Typed, TypeOK
<1> SUFFICES Brings(request)
  BY <1>0, <1>1
<1>3. CASE AddControl(t)
  <2>1. PICK orig \in Ids, id \in Ids : Fresh(id) /\ Become(t, Begin("open", "add", orig, id, {}, Ago(SourceTime)))
    BY <1>3 DEF AddControl
  <2>2. request = Begin("open", "add", orig, id, {}, Ago(SourceTime))
    BY <1>2, <2>1
  <2>3. QED
    BY <2>1, <2>2 DEF Begin
<1>4. CASE AddFromMessage(t)
  <2>1. PICK id \in Ids, start \in {Ago(clock), clock + 1} : Fresh(id) /\ Become(t, Begin("open", "message", NoId, id, {}, start))
    BY <1>4 DEF AddFromMessage
  <2>2. request = Begin("open", "message", NoId, id, {}, start)
    BY <1>2, <2>1
  <2>3. QED
    BY <2>1, <2>2 DEF Begin
<1>5. CASE SaveEdit(t)
  <2>1. PICK orig \in Ids, id \in Ids : Fresh(id) /\ Become(t, Begin("open", "edit", orig, id, {}, SourceTime))
    BY <1>5 DEF SaveEdit
  <2>2. request = Begin("open", "edit", orig, id, {}, SourceTime)
    BY <1>2, <2>1
  <2>3. QED
    BY <2>1, <2>2 DEF Begin
<1>6. CASE SaveLabel(t)
  <2>1. PICK orig \in Ids : Readable(orig) /\ Become(t, Begin("open", "relabel", orig, orig, {}, 0))
    BY <1>6 DEF SaveLabel
  <2>2. request = Begin("open", "relabel", orig, orig, {}, 0)
    BY <1>2, <2>1
  <2>3. QED
    BY <2>1, <2>2 DEF Begin
<1>7. CASE DeleteControl(t)
  <2>1. PICK orig \in Ids : Become(t, Begin("lock", "delete", orig, NoId, FileTiles(orig), 0))
    BY <1>7 DEF DeleteControl
  <2>2. request = Begin("lock", "delete", orig, NoId, FileTiles(orig), 0)
    BY <1>2, <2>1
  <2>3. QED
    BY <2>1, <2>2 DEF Begin
<1>8. CASE Cleanup(t)
  <2>1. PICK orig \in Ids : Become(t, Begin("find", "cleanup", orig, NoId, FileTiles(orig), Ago(clock)))
    BY <1>8 DEF Cleanup
  <2>2. request = Begin("find", "cleanup", orig, NoId, FileTiles(orig), Ago(clock))
    BY <1>2, <2>1
  <2>3. QED
    BY <2>1, <2>2 DEF Begin
<1>9. QED
  BY <1>3, <1>4, <1>5, <1>6, <1>7, <1>8 DEF Arrive

GoesOn(u) ==
  /\ th'[u].op = th[u].op /\ th'[u].id = th[u].id
  /\ th[u].pc # "idle" /\ th'[u].pc \notin {"idle", "open"}
  /\ th'[u].pc = "write" => th[u].pc \in {"open", "write"}

(* A step of a handler leaves every request alone, ends it or takes it on.     *)
LEMMA WorkGoesOn ==
  ASSUME Typed, NEW t \in Threads, Work(t), NEW u \in Threads
  PROVE  th'[u] = th[u] \/ th'[u] = Idle \/ GoesOn(u)
<1> USE DEF GoesOn, Become
<1>0. th \in [Threads -> Request]
  BY DEF Typed, TypeOK
<1>1. CASE OpenBin(t)
  <2>1. CASE u = t
    <3>1. PICK shared : th'[u] = [th[u] EXCEPT !.pc = "write", !.clash = shared]
      BY <1>1, <2>1 DEF OpenBin
    <3>2. th[u].pc = "open"
      BY <1>1, <2>1 DEF OpenBin
    <3>3. QED
      BY <1>0, <3>1, <3>2 DEF Request
  <2>2. CASE u # t /\ SharesFile(t, u)
    <3>1. th'[u] = [th[u] EXCEPT !.clash = TRUE] /\ th[u].pc = "write"
      BY <1>1, <2>2 DEF OpenBin, SharesFile
    <3>2. QED
      BY <1>0, <3>1 DEF Request
  <2>3. CASE u # t /\ ~SharesFile(t, u)
    BY <1>1, <2>3 DEF OpenBin
  <2>4. QED
    BY <2>1, <2>2, <2>3
<1>2. CASE CloseBin(t)
  BY <1>0, <1>2 DEF CloseBin, Request
<1>3. CASE Rendered(t)
  BY <1>0, <1>3 DEF Rendered, Request
<1>4. CASE Lock(t)
  BY <1>0, <1>4 DEF Lock, Request
<1>5. CASE Ended(t) \/ Fail(t)
  BY <1>0, <1>5 DEF Ended, Fail
<1>6. ASSUME NEW tile \in Tiles, OnTile(t, tile)
      PROVE  th'[u] = th[u] \/ th'[u] = Idle \/ GoesOn(u)
  <2>1. CASE IndexTile(t, tile)
    BY <1>0, <2>1 DEF IndexTile, Request
  <2>2. CASE DrawTile(t, tile)
    BY <1>0, <2>2 DEF DrawTile, Request
  <2>3. CASE FindRecord(t, tile)
    BY <1>0, <2>3 DEF FindRecord, Request
  <2>4. CASE NotFound(t, tile)
    BY <1>0, <2>4 DEF NotFound
  <2>5. CASE MarkEnd(t, tile)
    BY <1>0, <2>5 DEF MarkEnd, Request
  <2>6. QED
    BY <1>6, <2>1, <2>2, <2>3, <2>4, <2>5 DEF OnTile
<1>7. QED
  BY <1>1, <1>2, <1>3, <1>4, <1>5, <1>6 DEF Work

(* Only opening and closing a .bin changes what is stored.                     *)
LEMMA FilesChange ==
  ASSUME [Next]_vars, ~\E t \in Threads : OpenBin(t) \/ CloseBin(t)
  PROVE  bin' = bin /\ relabelled' = relabelled
<1>1. CASE Tick \/ Restart \/ UNCHANGED vars
  BY <1>1 DEF Tick, Restart, vars, fileVars, histVars
<1>2. ASSUME NEW t \in Threads, Arrive(t)
      PROVE  bin' = bin /\ relabelled' = relabelled
  BY <1>2 DEF Arrive, fileVars, histVars
<1>3. ASSUME NEW t \in Threads, Work(t)
      PROVE  bin' = bin /\ relabelled' = relabelled
  <2>1. CASE Rendered(t) \/ Lock(t) \/ Ended(t) \/ Fail(t)
    BY <2>1 DEF Rendered, Lock, Ended, Fail, fileVars, histVars
  <2>2. ASSUME NEW tile \in Tiles, OnTile(t, tile)
        PROVE  bin' = bin /\ relabelled' = relabelled
    BY <2>2 DEF OnTile, IndexTile, DrawTile, FindRecord, NotFound, MarkEnd, fileVars, histVars
  <2>3. QED
    BY <1>3, <2>1, <2>2 DEF Work
<1>4. QED
  BY <1>1, <1>2, <1>3 DEF Next

(* Only two actions write to an index.                                         *)
LEMMA IndexSteps ==
  ASSUME [Next]_vars, ndx' # ndx
  PROVE  \E t \in Threads, tile \in Tiles : IndexTile(t, tile) \/ MarkEnd(t, tile)
<1>1. PICK t \in Threads : Work(t)
  BY DEF Next, Tick, Restart, Arrive, vars, fileVars
<1>2. PICK tile \in Tiles : OnTile(t, tile)
  BY <1>1 DEF Work, OpenBin, CloseBin, Rendered, Lock, Ended, Fail, fileVars
<1>3. QED
  BY <1>2 DEF OnTile, DrawTile, FindRecord, NotFound, fileVars

NewRecord(t) == [id |-> th[t].id, start |-> th[t].ts, end |-> Forever]

(* An index gets one more record at its end, or a new end in one record.       *)
LEMMA IndexChange ==
  ASSUME Typed, [Next]_vars, NEW tile \in Tiles
  PROVE  \/ ndx'[tile] = ndx[tile]
         \/ \E t \in Threads : /\ IndexTile(t, tile) /\ tile \in CrossedTiles(th[t].id)
                               /\ ndx'[tile] = Append(ndx[tile], NewRecord(t))
         \/ \E t \in Threads : /\ MarkEnd(t, tile) /\ th[t].pos \in Nat /\ th[t].ts \in Int
                               /\ ndx'[tile] = [ndx[tile] EXCEPT ![th[t].pos].end = th[t].ts]
<1>0. ndx \in [Tiles -> Seq(IndexRecord)]
  BY DEF Typed, TypeOK
<1>1. CASE ndx' = ndx
  BY <1>1
<1>2. ASSUME NEW t \in Threads, NEW other \in Tiles, IndexTile(t, other)
      PROVE  \/ ndx'[tile] = ndx[tile]
             \/ other = tile /\ tile \in CrossedTiles(th[t].id)
                /\ ndx'[tile] = Append(ndx[tile], NewRecord(t))
  BY <1>0, <1>2 DEF IndexTile, NewRecord
<1>3. ASSUME NEW t \in Threads, NEW other \in Tiles, MarkEnd(t, other)
      PROVE  \/ ndx'[tile] = ndx[tile]
             \/ /\ other = tile /\ th[t].pos \in Nat /\ th[t].ts \in Int
                /\ ndx'[tile] = [ndx[tile] EXCEPT ![th[t].pos].end = th[t].ts]
  <2>1. th[t].pos \in Nat /\ th[t].ts \in Int
    BY ThreadShape DEF Request
  <2>2. QED
    BY <1>0, <1>3, <2>1 DEF MarkEnd
<1>4. QED
  BY <1>1, <1>2, <1>3, IndexSteps

LEMMA Appended ==
  ASSUME NEW records \in Seq(IndexRecord), NEW record, NEW longer,
         longer = Append(records, record)
  PROVE  /\ Len(records) \in Nat /\ Len(longer) = Len(records) + 1
         /\ longer[Len(records) + 1] = record
         /\ \A j \in 1..Len(records) : j \in 1..Len(longer) /\ longer[j] = records[j]
         /\ \A j \in 1..Len(longer) : j \in 1..Len(records) \/ j = Len(records) + 1
OBVIOUS

(* A record of an index was there before, or its control is being indexed.     *)
LEMMA IndexGrows ==
  ASSUME Typed, [Next]_vars, NEW tile \in Tiles, NEW k \in 1..Len(ndx'[tile])
  PROVE  \/ /\ k \in 1..Len(ndx[tile])
            /\ ndx'[tile][k].id = ndx[tile][k].id /\ ndx'[tile][k].start = ndx[tile][k].start
         \/ \E t \in Threads :
              /\ IndexTile(t, tile) /\ k = Len(ndx[tile]) + 1 /\ tile \in CrossedTiles(th[t].id)
              /\ ndx'[tile][k].id = th[t].id /\ ndx'[tile][k].start = th[t].ts
<1>0. ndx[tile] \in Seq(IndexRecord)
  BY DEF Typed, TypeOK
<1>1. CASE ndx'[tile] = ndx[tile]
  BY <1>1
<1>2. ASSUME NEW t \in Threads, IndexTile(t, tile), tile \in CrossedTiles(th[t].id),
             ndx'[tile] = Append(ndx[tile], NewRecord(t))
      PROVE  \/ k \in 1..Len(ndx[tile]) /\ ndx'[tile][k] = ndx[tile][k]
             \/ k = Len(ndx[tile]) + 1 /\ ndx'[tile][k].id = th[t].id
                /\ ndx'[tile][k].start = th[t].ts
  <2>1. NewRecord(t).id = th[t].id /\ NewRecord(t).start = th[t].ts
    BY DEF NewRecord
  <2>2. QED
    BY <1>0, <1>2, <2>1, Appended
<1>3. ASSUME NEW t \in Threads, th[t].pos \in Nat, th[t].ts \in Int,
             ndx'[tile] = [ndx[tile] EXCEPT ![th[t].pos].end = th[t].ts]
      PROVE  /\ k \in 1..Len(ndx[tile])
             /\ ndx'[tile][k].id = ndx[tile][k].id /\ ndx'[tile][k].start = ndx[tile][k].start
  BY <1>0, <1>3, EndWritten
<1>4. QED
  BY <1>1, <1>2, <1>3, IndexChange

-----------------------------------------------------------------------------
(* While a control is being created nobody else has its file open.            *)
LEMMA NobodyShares ==
  ASSUME Stored, NEW t \in Threads, Creates(t), th[t].pc \in {"open", "write"}
  PROVE  /\ \A u \in Threads : ~SharesFile(t, u) /\ ~SharesFile(u, t)
         /\ \A u \in Threads \ {t} : th[u].id # th[t].id
BY DEF Stored, FileInv, IdsApart, SharesFile

LEMMA OnlyMakers ==
  ASSUME Stored, NEW t \in Threads, th[t].pc \in {"open", "write"}
  PROVE  (Creates(t) \/ th[t].op = "relabel") /\ th[t].id \in Ids
BY ThreadShape DEF Stored, Creates, Shaped

(* Opening and closing a file leave every other one as it was.                *)
LEMMA OpenBinFiles ==
  ASSUME Stored, NEW t \in Threads, OpenBin(t)
  PROVE  /\ \A id \in Ids \ {th[t].id} : bin'[id] = bin[id]
         /\ bin'[th[t].id] = "partial" /\ relabelled \subseteq relabelled'
         /\ th[t].op = "relabel" => th[t].id \in relabelled'
         /\ Creates(t) => ~Kept(th[t].id)
<1>1. bin' = [bin EXCEPT ![th[t].id] = "partial"] /\ th[t].pc = "open" /\ th[t].id \in Ids
  BY OnlyMakers DEF OpenBin
<1>2. bin \in [Ids -> {"absent", "partial", "whole", "mixed"}]
  BY DEF Stored, Typed, TypeOK
<1>3. Creates(t) => ~Kept(th[t].id)
  BY <1>1 DEF Stored, FileInv, FileWritten, Kept
<1>4. QED
  BY <1>1, <1>2, <1>3 DEF OpenBin

LEMMA CloseBinFiles ==
  ASSUME Stored, NEW t \in Threads, CloseBin(t)
  PROVE  /\ \A id \in Ids \ {th[t].id} : bin'[id] = bin[id]
         /\ bin'[th[t].id] \in {"partial", "whole", "mixed"} /\ relabelled' = relabelled
         /\ \A id \in Ids : id = th[t].id => Kept(id)'
<1>1. th[t].pc = "write" /\ th[t].id \in Ids /\ (Creates(t) \/ th[t].op = "relabel")
  BY OnlyMakers DEF CloseBin
<1>2. bin \in [Ids -> {"absent", "partial", "whole", "mixed"}]
  BY DEF Stored, Typed, TypeOK
<1>3. PICK content \in {"partial", "whole", "mixed"} :
        /\ content = "partial" <=> \E u \in Threads : SharesFile(t, u)
        /\ content = "mixed" => th[t].clash
        /\ bin' = [bin EXCEPT ![th[t].id] = content]
  BY DEF CloseBin
<1>4. relabelled' = relabelled
  BY DEF CloseBin, histVars
<1>5. CASE Creates(t)
  <2>1. ~th[t].clash
    BY <1>1, <1>5 DEF Stored, FileInv, FileWritten
  <2>2. ~\E u \in Threads : SharesFile(t, u)
    BY <1>1, <1>5, NobodyShares
  <2>3. QED
    BY <1>1, <1>2, <1>3, <1>4, <2>1, <2>2 DEF Kept
<1>6. CASE th[t].op = "relabel"
  <2>1. th[t].id \in relabelled
    BY <1>1, <1>6 DEF Stored, FileInv, FileWritten
  <2>2. QED
    BY <1>1, <1>2, <1>3, <1>4, <2>1 DEF Kept
<1>7. QED
  BY <1>1, <1>5, <1>6

(* A file that a reader can count on stays one; no file ever disappears.      *)
LEMMA KeptStays ==
  ASSUME Stored, [Next]_vars, NEW id \in Ids
  PROVE  /\ Kept(id) => Kept(id)'
         /\ bin[id] # "absent" => bin'[id] # "absent"
         /\ id \in relabelled => id \in relabelled'
<1>1. CASE ~\E t \in Threads : OpenBin(t) \/ CloseBin(t)
  BY <1>1, FilesChange DEF Kept
<1>2. ASSUME NEW t \in Threads, OpenBin(t)
      PROVE  /\ Kept(id) => Kept(id)'
             /\ bin[id] # "absent" => bin'[id] # "absent"
             /\ id \in relabelled => id \in relabelled'
  <2>1. th[t].pc = "open"
    BY <1>2 DEF OpenBin
  <2>2. Creates(t) \/ th[t].op = "relabel"
    BY <2>1, OnlyMakers
  <2>3. QED
    BY <1>2, <2>2, OpenBinFiles DEF Kept
<1>3. ASSUME NEW t \in Threads, CloseBin(t)
      PROVE  /\ Kept(id) => Kept(id)'
             /\ bin[id] # "absent" => bin'[id] # "absent"
             /\ id \in relabelled => id \in relabelled'
  BY <1>3, CloseBinFiles DEF Kept
<1>4. QED
  BY <1>1, <1>2, <1>3

-----------------------------------------------------------------------------
(* The requests of the next state, seen from this one.                        *)
LEMMA StepOfThread ==
  ASSUME Typed, [Next]_vars, NEW u \in Threads
  PROVE  \/ th'[u] = th[u] \/ th'[u] = Idle \/ GoesOn(u)
         \/ Arrive(u)
<1>1. th \in [Threads -> Request]
  BY DEF Typed, TypeOK
<1>2. CASE Tick \/ Restart \/ UNCHANGED vars
  BY <1>2 DEF Tick, Restart, vars
<1>3. ASSUME NEW t \in Threads, Arrive(t)
      PROVE  th'[u] = th[u] \/ Arrive(u)
  BY <1>1, <1>3, ArriveBrings DEF Become
<1>4. ASSUME NEW t \in Threads, Work(t)
      PROVE  th'[u] = th[u] \/ th'[u] = Idle \/ GoesOn(u)
  BY <1>4, WorkGoesOn
<1>5. QED
  BY <1>2, <1>3, <1>4 DEF Next

(* A new request in one thread leaves the others alone.                       *)
LEMMA ArriveAlone ==
  ASSUME Typed, NEW t \in Threads, Arrive(t), NEW u \in Threads, u # t
  PROVE  th'[u] = th[u]
BY ArriveBrings DEF Become, Typed, TypeOK

(* What a thread does in one step, its own or that of another.                *)
LEMMA OwnStep ==
  ASSUME Typed, [Next]_vars, NEW u \in Threads
  PROVE  \/ th'[u] = th[u] \/ th'[u] = Idle \/ Arrive(u)
         \/ \E t \in Threads \ {u} :
              OpenBin(t) /\ SharesFile(t, u) /\ th'[u] = [th[u] EXCEPT !.clash = TRUE]
         \/ OpenBin(u) \/ CloseBin(u) \/ Rendered(u) \/ Lock(u)
         \/ \E tile \in Tiles : OnTile(u, tile)
<1>1. th \in [Threads -> Request]
  BY DEF Typed, TypeOK
<1>2. CASE Tick \/ Restart \/ UNCHANGED vars
  BY <1>2 DEF Tick, Restart, vars
<1>3. ASSUME NEW t \in Threads, Arrive(t)
      PROVE  th'[u] = th[u] \/ Arrive(u)
  BY <1>3, ArriveAlone
<1>4. ASSUME NEW t \in Threads, Work(t), t # u
      PROVE  \/ th'[u] = th[u]
             \/ OpenBin(t) /\ SharesFile(t, u) /\ th'[u] = [th[u] EXCEPT !.clash = TRUE]
  <2>1. CASE OpenBin(t)
    BY <1>1, <1>4, <2>1 DEF OpenBin
  <2>2. CASE CloseBin(t) \/ Rendered(t) \/ Lock(t) \/ Ended(t) \/ Fail(t)
    BY <1>1, <1>4, <2>2 DEF CloseBin, Rendered, Lock, Ended, Fail, Become
  <2>3. ASSUME NEW tile \in Tiles, OnTile(t, tile)
        PROVE  th'[u] = th[u]
    BY <1>1, <1>4, <2>3 DEF OnTile, IndexTile, DrawTile, FindRecord, NotFound, MarkEnd, Become
  <2>4. QED
    BY <1>4, <2>1, <2>2, <2>3 DEF Work
<1>5. CASE Work(u)
  BY <1>1, <1>5 DEF Work, Ended, Fail, Become
<1>6. QED
  BY <1>2, <1>3, <1>4, <1>5 DEF Next

LEMMA IdleCreatesNothing ==
  ASSUME NEW u \in Threads, th'[u] = Idle
  PROVE  ~Creates(u)' /\ th'[u].op # "relabel" /\ th'[u].id = NoId
BY DEF Creates, Idle, Begin

LEMMA GoesOnCreates ==
  ASSUME NEW u \in Threads, th'[u] = th[u] \/ GoesOn(u)
  PROVE  /\ th'[u].op = th[u].op /\ th'[u].id = th[u].id
         /\ Creates(u)' => Creates(u)
         /\ th'[u].pc \in {"open", "write"} => th[u].pc \in {"open", "write"}
BY DEF GoesOn, Creates

LEMMA IdsApartStays ==
  ASSUME Stored, [Next]_vars
  PROVE  IdsApart'
<1> SUFFICES ASSUME NEW t \in Threads, NEW u \in Threads, t # u,
                    Creates(t)', th'[t].id = th'[u].id
             PROVE  th'[u].op = "relabel" /\ th'[t].pc \notin {"open", "write"}
  BY DEF IdsApart, Creates
<1>0. Typed /\ Typed'
  BY NextTyped DEF Stored
<1>1. th'[t].id \in Ids /\ th'[t].id # NoId
  <2>1. Shaped(th'[t]) /\ th'[t] \in Request
    BY <1>0 DEF Typed, Shape, Handler
  <2>2. th'[t].id \in Ids
    BY <2>1 DEF Creates, Shaped, Request
  <2>3. QED
    BY <2>2, StoreAssumption
<1>2. CASE Arrive(t)
  <2>1. th'[u] = th[u]
    BY <1>0, <1>2, ArriveAlone
  <2>2. PICK request \in Request :
          /\ Become(t, request)
          /\ \/ /\ request.op \in {"add", "message", "edit"} /\ request.pc = "open"
                /\ request.id \in Ids /\ Fresh(request.id)
             \/ request.op = "relabel"
             \/ request.op \in {"delete", "cleanup"}
    BY <1>0, <1>2, ArriveBrings
  <2>3. th'[t] = request
    BY <1>0, <2>2 DEF Become, Typed, TypeOK
  <2>4. Fresh(th'[t].id)
    BY <2>2, <2>3 DEF Creates
  <2>5. QED
    BY <2>1, <2>4 DEF Fresh
<1>3. CASE Arrive(u)
  <2>1. th'[t] = th[t] /\ Creates(t)
    BY <1>0, <1>3, ArriveAlone DEF Creates
  <2>2. PICK request \in Request :
          /\ Become(u, request)
          /\ \/ request.id \in Ids /\ Fresh(request.id)
             \/ request.op = "relabel" /\ request.id \in Ids /\ Readable(request.id)
             \/ request.id = NoId
    BY <1>0, <1>3, ArriveBrings
  <2>3. th'[u] = request
    BY <1>0, <2>2 DEF Become, Typed, TypeOK
  <2>4. ~Fresh(request.id) /\ request.id # NoId
    BY <1>1, <2>1, <2>3 DEF Fresh
  <2>5. request.op = "relabel" /\ bin[th[t].id] = "whole"
    BY <2>1, <2>2, <2>3, <2>4 DEF Readable
  <2>6. th[t].pc \notin {"open", "write"}
    BY <2>1, <2>5 DEF Stored, FileInv, FileWritten
  <2>7. QED
    BY <2>1, <2>3, <2>5, <2>6
<1>4. CASE ~Arrive(t) /\ ~Arrive(u)
  <2>1. (th'[t] = th[t] \/ GoesOn(t)) /\ (th'[u] = th[u] \/ GoesOn(u))
    BY <1>0, <1>1, <1>4, StepOfThread, IdleCreatesNothing
  <2>2. Creates(t) /\ th[t].id = th[u].id
    BY <2>1, GoesOnCreates
  <2>3. th[u].op = "relabel" /\ th[t].pc \notin {"open", "write"}
    BY <2>2 DEF Stored, FileInv, IdsApart
  <2>4. QED
    BY <2>1, <2>3, GoesOnCreates
<1>5. QED
  BY <1>2, <1>3, <1>4

(* Nobody but the thread itself moves it out of "open" or "write".            *)
LEMMA OpensItself ==
  ASSUME Typed, [Next]_vars, NEW u \in Threads, th[u].pc = "open", th'[u].pc = "write"
  PROVE  OpenBin(u)
<1>1. th \in [Threads -> Request] /\ ~Arrive(u) /\ th'[u] # Idle /\ th'[u] # th[u]
  BY DEF Typed, TypeOK, Arrive, Idle, Begin
<1>2. \A t \in Threads : ~SharesFile(t, u)
  BY DEF SharesFile
<1>3. ~CloseBin(u) /\ ~Rendered(u) /\ ~Lock(u)
  BY DEF CloseBin, Rendered, Lock
<1>4. \A tile \in Tiles : ~OnTile(u, tile)
  BY DEF OnTile, IndexTile, DrawTile, FindRecord, NotFound, MarkEnd
<1>5. QED
  BY <1>1, <1>2, <1>3, <1>4, OwnStep

LEMMA ClosesItself ==
  ASSUME Typed, [Next]_vars, NEW u \in Threads, th[u].pc \in {"open", "write"},
         th'[u].pc \notin {"open", "write"}, th'[u] # Idle
  PROVE  CloseBin(u)
<1>1. th \in [Threads -> Request] /\ ~Arrive(u) /\ th'[u] # th[u]
  BY DEF Typed, TypeOK, Arrive
<1>2. th'[u] # [th[u] EXCEPT !.clash = TRUE]
  BY <1>1 DEF Request
<1>3. ~OpenBin(u)
  <2>1. SUFFICES ASSUME OpenBin(u) PROVE FALSE
    OBVIOUS
  <2>2. PICK shared : th'[u] = [th[u] EXCEPT !.pc = "write", !.clash = shared]
    BY <2>1 DEF OpenBin
  <2>3. th'[u].pc = "write"
    BY <1>1, <2>2 DEF Request
  <2>4. QED
    BY <2>3
<1>4. ~Rendered(u) /\ ~Lock(u)
  BY DEF Rendered, Lock
<1>5. \A tile \in Tiles : ~OnTile(u, tile)
  BY DEF OnTile, IndexTile, DrawTile, FindRecord, NotFound, MarkEnd
<1>6. QED
  BY <1>1, <1>2, <1>3, <1>4, <1>5, OwnStep

LEMMA StaysPut ==
  ASSUME Typed, [Next]_vars, NEW u \in Threads, th[u].pc \in {"open", "write"},
         th'[u].pc = th[u].pc, ~\E t \in Threads : OpenBin(t) \/ CloseBin(t)
  PROVE  th'[u] = th[u]
<1>1. ~Arrive(u) /\ th'[u] # Idle /\ ~Rendered(u) /\ ~Lock(u)
  BY DEF Arrive, Idle, Begin, Rendered, Lock
<1>2. \A tile \in Tiles : ~OnTile(u, tile)
  BY DEF OnTile, IndexTile, DrawTile, FindRecord, NotFound, MarkEnd
<1>3. QED
  BY <1>1, <1>2, OwnStep

(* As long as a maker stays where it is, its file does, too.                  *)
LEMMA MakersUndisturbed ==
  ASSUME Stored, [Next]_vars, NEW u \in Threads, Creates(u), th[u].pc \in {"open", "write"},
         th'[u].pc = th[u].pc, th'[u].id = th[u].id, th'[u] = th[u] \/ GoesOn(u)
  PROVE  bin'[th[u].id] = bin[th[u].id] /\ (th[u].pc = "write" => ~th'[u].clash)
<1>0. th \in [Threads -> Request] /\ th[u].id \in Ids
  BY ThreadShape DEF Stored, Typed, TypeOK
<1>1. th[u].pc = "write" => ~th[u].clash
  BY DEF Stored, FileInv, FileWritten
<1>2. ASSUME NEW t \in Threads, OpenBin(t)
      PROVE  bin'[th[u].id] = bin[th[u].id] /\ th'[u] = th[u]
  <2>1. t # u
    BY <1>0, <1>2 DEF OpenBin, Request
  <2>2. ~SharesFile(t, u) /\ th[t].id # th[u].id
    BY <2>1, NobodyShares
  <2>3. QED
    BY <1>0, <1>2, <2>1, <2>2, OpenBinFiles DEF OpenBin
<1>3. ASSUME NEW t \in Threads, CloseBin(t)
      PROVE  bin'[th[u].id] = bin[th[u].id] /\ th'[u] = th[u]
  <2>1. t # u
    BY <1>0, <1>3 DEF CloseBin, Become, Idle, Begin, Request
  <2>2. th[t].id # th[u].id
    BY <2>1, NobodyShares
  <2>3. QED
    BY <1>0, <1>3, <2>1, <2>2, CloseBinFiles DEF CloseBin, Become
<1>4. CASE ~\E t \in Threads : OpenBin(t) \/ CloseBin(t)
  <2>1. bin' = bin
    BY <1>4, FilesChange
  <2>2. th'[u] = th[u]
    BY <1>0, <1>4, StaysPut DEF Stored
  <2>3. QED
    BY <1>1, <2>1, <2>2
<1>5. QED
  BY <1>1, <1>2, <1>3, <1>4

(* The file of a control being created goes from absent over partial to        *)
(* complete, and no other handler touches it before that.                     *)
LEMMA FileWrittenStays ==
  ASSUME Stored, [Next]_vars
  PROVE  FileWritten'
<1> DEFINE Made(u) == Creates(u) => CASE th[u].pc = "open" -> bin[th[u].id] = "absent"
                       [] th[u].pc = "write" -> bin[th[u].id] = "partial" /\ ~th[u].clash
                       [] OTHER -> Kept(th[u].id)
           Opened(u) == th[u].op = "relabel" /\ th[u].pc = "open" => bin[th[u].id] # "absent"
           Noted(u) == th[u].op = "relabel" /\ th[u].pc = "write" => th[u].id \in relabelled
<1>0. Typed /\ Typed' /\ \A u \in Threads : Made(u) /\ Opened(u) /\ Noted(u)
  BY NextTyped DEF Stored, FileInv, FileWritten
<1> SUFFICES ASSUME NEW u \in Threads
             PROVE  Made(u)' /\ Opened(u)' /\ Noted(u)'
  BY DEF FileWritten
<1>1. CASE th'[u] = Idle
  BY <1>1, IdleCreatesNothing DEF Idle, Begin
<1>2. CASE Arrive(u)
  <2>1. PICK request \in Request :
          /\ Become(u, request)
          /\ \/ request.pc = "open" /\ Fresh(request.id) /\ request.op # "relabel"
             \/ request.op = "relabel" /\ request.pc = "open" /\ Readable(request.id)
             \/ request.op \in {"delete", "cleanup"}
    BY <1>0, <1>2, ArriveBrings
  <2>2. th'[u] = request
    BY <1>0, <2>1 DEF Become, Typed, TypeOK
  <2>3. bin' = bin
    BY <1>2 DEF Arrive, fileVars
  <2>4. QED
    BY <2>1, <2>2, <2>3 DEF Creates, Fresh, Readable
<1>3. CASE GoesOn(u) \/ th'[u] = th[u]
  <2>0. /\ th'[u].op = th[u].op /\ th'[u].id = th[u].id /\ (Creates(u)' => Creates(u))
        /\ th'[u].pc \in {"open", "write"} => th[u].pc \in {"open", "write"}
        /\ th'[u].pc = "open" => th[u].pc = "open" /\ th'[u] = th[u]
    BY <1>3, GoesOnCreates DEF GoesOn
  <2>1. ASSUME th'[u].op = "relabel"
        PROVE  Opened(u)' /\ Noted(u)'
    <3>1. th[u].op = "relabel" /\ (th'[u].pc \in {"open", "write"} => th[u].id \in Ids)
      BY <1>0, <2>0, <2>1, ThreadShape DEF Shaped
    <3>2. Opened(u)'
      BY <1>0, <2>0, <3>1, KeptStays
    <3>3. CASE th'[u].pc = "write" /\ th[u].pc = "write"
      BY <1>0, <2>0, <3>1, <3>2, <3>3, KeptStays
    <3>4. CASE th'[u].pc = "write" /\ th[u].pc = "open"
      <4>1. OpenBin(u)
        BY <1>0, <3>4, OpensItself
      <4>2. QED
        BY <2>0, <3>1, <3>2, <4>1, OpenBinFiles
    <3>5. QED
      BY <2>0, <3>2, <3>3, <3>4
  <2>2. ASSUME Creates(u)'
        PROVE  Made(u)'
    <3>1. Creates(u) /\ th[u].id \in Ids /\ th'[u].id = th[u].id
      BY <1>0, <2>0, <2>2, ThreadShape
    <3>2. CASE th'[u].pc = "open" \/ (th'[u].pc = "write" /\ th[u].pc = "write")
      <4>1. th[u].pc = th'[u].pc /\ th[u].pc \in {"open", "write"}
        BY <2>0, <3>2
      <4>2. bin'[th[u].id] = bin[th[u].id] /\ (th[u].pc = "write" => ~th'[u].clash)
        BY <1>0, <2>0, <3>1, <1>3, <3>2, <4>1, MakersUndisturbed
      <4>3. QED
        BY <1>0, <3>1, <3>2, <4>1, <4>2
    <3>3. CASE th'[u].pc = "write" /\ th[u].pc = "open"
      <4>1. OpenBin(u) /\ ~\E w \in Threads : SharesFile(u, w)
        BY <1>0, <3>1, <3>3, OpensItself, NobodyShares
      <4>2. bin'[th[u].id] = "partial" /\ ~th'[u].clash
        <5>1. PICK shared \in BOOLEAN : shared <=> \E w \in Threads : SharesFile(u, w)
          OBVIOUS
        <5>2. th'[u] = [th[u] EXCEPT !.pc = "write", !.clash = shared] /\ th[u] \in Request
          BY <1>0, <4>1, <5>1 DEF OpenBin, Typed, TypeOK
        <5>3. ~th'[u].clash
          BY <4>1, <5>1, <5>2 DEF Request
        <5>4. QED
          BY <4>1, <5>3, OpenBinFiles
      <4>3. QED
        BY <3>1, <3>3, <4>2
    <3>4. CASE th'[u].pc \notin {"open", "write"}
      <4>1. CASE th[u].pc \notin {"open", "write"}
        <5>1. Kept(th[u].id)
          BY <1>0, <3>1, <4>1
        <5>2. QED
          BY <3>1, <3>4, <5>1, KeptStays DEF Kept
      <4>2. CASE th[u].pc \in {"open", "write"}
        <5>1. CloseBin(u)
          BY <1>0, <3>4, <4>2, ClosesItself, <2>2 DEF Creates, Idle, Begin
        <5>2. QED
          BY <3>1, <3>4, <5>1, CloseBinFiles DEF Kept
      <4>3. QED
        BY <4>1, <4>2
    <3>5. QED
      BY <3>2, <3>3, <3>4, <2>0
  <2>3. QED
    BY <2>1, <2>2
<1>4. QED
  BY <1>0, <1>1, <1>2, <1>3, StepOfThread

LEMMA IndexedIsStoredStays ==
  ASSUME Stored, [Next]_vars
  PROVE  IndexedIsStored'
<1>0. Typed /\ Typed'
  BY NextTyped DEF Stored
<1> SUFFICES ASSUME NEW tile \in Tiles, NEW k \in 1..Len(ndx'[tile]),
                    NEW id, id = ndx'[tile][k].id
             PROVE  Kept(id)'
  BY DEF IndexedIsStored, Kept
<1>1. CASE k \in 1..Len(ndx[tile]) /\ ndx'[tile][k].id = ndx[tile][k].id
  <2>1. Kept(ndx[tile][k].id)
    BY <1>1 DEF Stored, FileInv, IndexedIsStored, Kept
  <2>2. ndx[tile][k].id \in Ids
    <3>1. ndx[tile] \in Seq(IndexRecord)
      BY <1>0 DEF Typed, TypeOK
    <3>2. ndx[tile][k] \in IndexRecord
      BY <1>1, <3>1
    <3>3. QED
      BY <3>2 DEF IndexRecord
  <2>3. QED
    BY <1>1, <2>1, <2>2, KeptStays DEF Kept
<1>2. ASSUME NEW t \in Threads, IndexTile(t, tile), ndx'[tile][k].id = th[t].id
      PROVE  Kept(id)'
  <2>1. Creates(t) /\ th[t].id \in Ids /\ th[t].pc = "index"
    BY <1>0, <1>2, ThreadShape DEF IndexTile, Creates, Shaped
  <2>2. Kept(th[t].id)
    BY <2>1 DEF Stored, FileInv, FileWritten
  <2>3. QED
    BY <1>2, <2>1, <2>2, KeptStays DEF Kept
<1>3. QED
  BY <1>0, <1>1, <1>2, IndexGrows

LEMMA NextStored ==
  ASSUME Stored, [Next]_vars
  PROVE  Stored'
BY NextTyped, IdsApartStays, FileWrittenStays, IndexedIsStoredStays DEF Stored, FileInv

LEMMA InitStored == Init => Stored
<1> SUFFICES ASSUME Init PROVE Stored
  OBVIOUS
<1>1. Typed
  BY InitTyped
<1>2. \A t \in Threads : th[t] = Idle
  BY DEF Init
<1>3. IdsApart /\ FileWritten
  BY <1>2 DEF IdsApart, FileWritten, Creates, Idle, Begin
<1>4. IndexedIsStored
  <2> SUFFICES ASSUME NEW tile \in Tiles, NEW k \in 1..Len(ndx[tile])
               PROVE  bin[ndx[tile][k].id] = "whole"
    BY DEF IndexedIsStored
  <2>1. ndx[tile] = <<[id |-> Base, start |-> 0, end |-> Forever]>> \/ ndx[tile] = <<>>
    BY DEF Init
  <2>2. ndx[tile][k].id = Base
    BY <2>1
  <2>3. QED
    BY <2>2, StoreAssumption DEF Init
<1>5. QED
  BY <1>1, <1>3, <1>4 DEF Stored, FileInv

(* A reader that finds a control in any index finds its file, complete unless *)
(* a label edit has rewritten it: for every number of controls, tiles, lanes,  *)
(* threads and requests, with failures and restarts at any step.              *)
THEOREM StoredCorrect == Spec => []IndexedIsStored
<1>1. Stored /\ [Next]_vars => Stored'
  BY NextStored
<1>2. Stored => IndexedIsStored
  BY DEF Stored, FileInv
<1>3. QED
  BY InitStored, <1>1, <1>2, PTL DEF Spec

-----------------------------------------------------------------------------
(* The second layer: an index only grows, at its end, and holds a control at  *)
(* most once, so that the position updateIndex has found stays right without   *)
(* any lock.                                                                  *)

Indexed == Stored /\ IndexInv

-----------------------------------------------------------------------------
(* The records of an index.                                                    *)

LEMMA RecordIds ==
  ASSUME Typed, NEW tile \in Tiles
  PROVE  ndx[tile] \in Seq(IndexRecord) /\ Len(ndx[tile]) \in Nat
BY DEF Typed, TypeOK

(* No record goes away or changes its control or start.                        *)
LEMMA RecordsStay ==
  ASSUME Typed, [Next]_vars, NEW tile \in Tiles, NEW k \in 1..Len(ndx[tile])
  PROVE  /\ k \in 1..Len(ndx'[tile])
         /\ ndx'[tile][k].id = ndx[tile][k].id /\ ndx'[tile][k].start = ndx[tile][k].start
<1>0. ndx[tile] \in Seq(IndexRecord)
  BY RecordIds
<1>1. CASE ndx'[tile] = ndx[tile]
  BY <1>1
<1>2. ASSUME NEW t \in Threads, ndx'[tile] = Append(ndx[tile], NewRecord(t))
      PROVE  k \in 1..Len(ndx'[tile]) /\ ndx'[tile][k] = ndx[tile][k]
  BY <1>0, <1>2, Appended
<1>3. ASSUME NEW t \in Threads, th[t].pos \in Nat, th[t].ts \in Int,
             ndx'[tile] = [ndx[tile] EXCEPT ![th[t].pos].end = th[t].ts]
      PROVE  /\ k \in 1..Len(ndx'[tile])
             /\ ndx'[tile][k].id = ndx[tile][k].id /\ ndx'[tile][k].start = ndx[tile][k].start
  BY <1>0, <1>3, EndWritten
<1>4. QED
  BY <1>1, <1>2, <1>3, IndexChange

LEMMA HoldsStays ==
  ASSUME Typed, [Next]_vars, NEW tile \in Tiles, NEW id, Holds(tile, id)
  PROVE  Holds(tile, id)'
BY RecordsStay DEF Holds

LEMMA HoldsNew ==
  ASSUME Typed, [Next]_vars, NEW tile \in Tiles, NEW id, Holds(tile, id)', ~Holds(tile, id)
  PROVE  \E t \in Threads : IndexTile(t, tile) /\ th[t].id = id
<1>1. PICK k \in 1..Len(ndx'[tile]) : ndx'[tile][k].id = id
  BY DEF Holds
<1>2. QED
  BY <1>1, IndexGrows DEF Holds

(* The record that an IndexTile step appends.                                  *)
LEMMA IndexTileRecord ==
  ASSUME Typed, NEW t \in Threads, NEW tile \in Tiles, IndexTile(t, tile),
         tile \in CrossedTiles(th[t].id)
  PROVE  \E k \in 1..Len(ndx'[tile]) :
           ndx'[tile][k].id = th[t].id /\ ndx'[tile][k].start = th[t].ts
<1>1. ndx'[tile] = Append(ndx[tile], NewRecord(t)) /\ ndx[tile] \in Seq(IndexRecord)
  BY DEF IndexTile, Typed, TypeOK, NewRecord
<1>2. NewRecord(t).id = th[t].id /\ NewRecord(t).start = th[t].ts
  BY DEF NewRecord
<1>3. Len(ndx[tile]) + 1 \in 1..Len(ndx'[tile]) /\ ndx'[tile][Len(ndx[tile]) + 1] = NewRecord(t)
  BY <1>1, Appended
<1>4. QED
  BY <1>2, <1>3

LEMMA IndexTileHolds ==
  ASSUME Typed, NEW t \in Threads, NEW tile \in Tiles, NEW id, id = th[t].id,
         IndexTile(t, tile), tile \in CrossedTiles(id)
  PROVE  Holds(tile, id)'
BY IndexTileRecord DEF Holds

LEMMA NextIsOne ==
  ASSUME NEW todo \in SUBSET Tiles, NEW x \in Tiles, NEW y \in Tiles,
         IsNext(x, todo), IsNext(y, todo)
  PROVE  x = y
BY StoreAssumption DEF IsNext

(* A stored control appears in no index before it is written.                  *)
LEMMA FreshUnindexed ==
  ASSUME Stored, NEW id \in Ids, bin[id] = "absent", NEW tile \in Tiles
  PROVE  ~Holds(tile, id)
BY DEF Stored, FileInv, IndexedIsStored, Holds

(* A handler that indexes a tile finds no record of its control there.         *)
LEMMA IndexTileFirst ==
  ASSUME Indexed, NEW t \in Threads, NEW tile \in Tiles, IndexTile(t, tile)
  PROVE  /\ Creates(t) /\ th[t].id \in Ids /\ tile \in th[t].todo
         /\ ~Holds(tile, th[t].id) /\ th[t].id \in Drawable
<1>1. Creates(t) /\ th[t].id \in Ids /\ th[t].pc = "index" /\ tile \in th[t].todo
  BY ThreadShape DEF Indexed, Stored, IndexTile, IsNext, Creates, Shaped
<1>2. ~Holds(tile, th[t].id)
  BY <1>1 DEF Indexed, IndexInv, NotYetIndexed, Unindexed
<1>3. th[t].id \in Drawable
  BY <1>1 DEF Indexed, IndexInv, LoopDrawable
<1>4. QED
  BY <1>1, <1>2, <1>3

-----------------------------------------------------------------------------
(* How a handler moves through its loops.                                      *)
LEMMA LoopSteps ==
  ASSUME Typed, [Next]_vars, NEW u \in Threads, th'[u] # th[u], th'[u] # Idle, ~Arrive(u)
  PROVE  /\ th'[u].pc = "index" =>
              \/ CloseBin(u) /\ th'[u].todo = RenderTiles(th[u])
              \/ \E tile \in Tiles : DrawTile(u, tile) /\ th'[u].todo = th[u].todo \ {tile}
         /\ th'[u].pc = "draw" =>
              \E tile \in Tiles : IndexTile(u, tile) /\ th'[u].todo = th[u].todo
         /\ th'[u].pc = "mark" =>
              \E tile \in Tiles : FindRecord(u, tile) /\ th'[u].todo = th[u].todo
                /\ th'[u].orig = th[u].orig /\ IsFirst(tile, th[u].orig, th'[u].pos)
<1>0. th \in [Threads -> Request]
  BY DEF Typed, TypeOK
<1> USE DEF Become
<1>1. CASE th'[u] = [th[u] EXCEPT !.clash = TRUE] /\ th[u].pc = "write"
  BY <1>0, <1>1 DEF Request
<1>2. CASE OpenBin(u)
  BY <1>0, <1>2 DEF OpenBin, Request
<1>3. CASE CloseBin(u)
  BY <1>0, <1>3 DEF CloseBin, Request
<1>4. CASE Rendered(u)
  <2>1. th'[u] = [th[u] EXCEPT !.pc = "lock", !.todo = FileTiles(th[u].orig)]
    BY <1>0, <1>4 DEF Rendered
  <2>2. QED
    BY <1>0, <2>1 DEF Request
<1>5. CASE Lock(u)
  <2>1. th'[u] = [th[u] EXCEPT !.pc = "find"]
    BY <1>0, <1>5 DEF Lock
  <2>2. QED
    BY <1>0, <2>1 DEF Request
<1>6. ASSUME NEW tile \in Tiles, OnTile(u, tile)
      PROVE  /\ th'[u].pc = "index" => DrawTile(u, tile) /\ th'[u].todo = th[u].todo \ {tile}
             /\ th'[u].pc = "draw" => IndexTile(u, tile) /\ th'[u].todo = th[u].todo
             /\ th'[u].pc = "mark" => FindRecord(u, tile) /\ th'[u].todo = th[u].todo
                  /\ th'[u].orig = th[u].orig /\ IsFirst(tile, th[u].orig, th'[u].pos)
  <2>1. CASE IndexTile(u, tile)
    BY <1>0, <2>1 DEF IndexTile, Request
  <2>2. CASE DrawTile(u, tile)
    BY <1>0, <2>2 DEF DrawTile, Request
  <2>3. CASE FindRecord(u, tile)
    <3>1. PICK k \in 1..Len(ndx[tile]) : \E time :
            /\ IsFirst(tile, th[u].orig, k)
            /\ th'[u] = [th[u] EXCEPT !.pc = "mark", !.pos = k, !.ts = time]
      BY <1>0, <2>3 DEF FindRecord
    <3>2. /\ th'[u].pc = "mark" /\ th'[u].todo = th[u].todo
          /\ th'[u].orig = th[u].orig /\ th'[u].pos = k
      BY <1>0, <3>1 DEF Request
    <3>3. QED
      BY <2>3, <3>1, <3>2
  <2>4. CASE NotFound(u, tile)
    BY <1>0, <2>4 DEF NotFound
  <2>5. CASE MarkEnd(u, tile)
    BY <1>0, <2>5 DEF MarkEnd, Request
  <2>6. QED
    BY <1>6, <2>1, <2>2, <2>3, <2>4, <2>5 DEF OnTile
<1>7. QED
  BY <1>1, <1>2, <1>3, <1>4, <1>5, <1>6, OwnStep DEF SharesFile

(* A new request starts in front of every loop that uses the index.            *)
LEMMA ArriveStarts ==
  ASSUME Typed, NEW u \in Threads, Arrive(u)
  PROVE  th'[u].pc \in {"open", "lock", "find"} /\ ndx' = ndx /\ td' = td
<1>1. ndx' = ndx /\ td' = td
  BY DEF Arrive, fileVars
<1>2. QED
  BY <1>1, ArriveBrings DEF Become, Typed, TypeOK

-----------------------------------------------------------------------------
LEMMA OneRecordStays ==
  ASSUME Indexed, [Next]_vars
  PROVE  OneRecordPerTile'
<1>0. Typed
  BY DEF Indexed, Stored
<1> SUFFICES ASSUME NEW tile \in Tiles, NEW j \in 1..Len(ndx'[tile]), NEW k \in 1..Len(ndx'[tile]),
                    ndx'[tile][j].id = ndx'[tile][k].id
             PROVE  j = k
  BY DEF OneRecordPerTile
<1> DEFINE Old(i) == i \in 1..Len(ndx[tile]) /\ ndx'[tile][i].id = ndx[tile][i].id
           New(i) == \E t \in Threads : /\ IndexTile(t, tile) /\ i = Len(ndx[tile]) + 1
                                        /\ ndx'[tile][i].id = th[t].id
<1>1. \A i \in 1..Len(ndx'[tile]) : Old(i) \/ New(i)
  BY <1>0, IndexGrows
<1>2. CASE Old(j) /\ Old(k)
  BY <1>2 DEF Indexed, IndexInv, OneRecordPerTile
<1>3. CASE New(j) /\ New(k)
  BY <1>3
<1>4. ASSUME NEW a \in {j, k}, NEW b \in {j, k}, Old(a), New(b) PROVE FALSE
  BY <1>4, IndexTileFirst DEF Holds
<1>5. QED
  BY <1>1, <1>2, <1>3, <1>4

LEMMA IndexedDrawableStays ==
  ASSUME Indexed, [Next]_vars
  PROVE  IndexedDrawable'
<1>0. Typed
  BY DEF Indexed, Stored
<1> SUFFICES ASSUME NEW tile \in Tiles, NEW k \in 1..Len(ndx'[tile])
             PROVE  ndx'[tile][k].id \in Drawable
  BY DEF IndexedDrawable
<1>1. CASE k \in 1..Len(ndx[tile]) /\ ndx'[tile][k].id = ndx[tile][k].id
  BY <1>1 DEF Indexed, IndexInv, IndexedDrawable
<1>2. CASE \E t \in Threads : IndexTile(t, tile) /\ ndx'[tile][k].id = th[t].id
  BY <1>2, IndexTileFirst
<1>3. QED
  BY <1>0, <1>1, <1>2, IndexGrows

LEMMA LoopDrawableStays ==
  ASSUME Indexed, [Next]_vars
  PROVE  LoopDrawable'
<1>0. Typed /\ LoopDrawable
  BY DEF Indexed, Stored, IndexInv
<1> SUFFICES ASSUME NEW u \in Threads, th'[u].pc \in {"index", "draw"}, th'[u].todo # {}
             PROVE  th'[u].id \in Drawable
  BY DEF LoopDrawable
<1>1. CASE th'[u] = th[u]
  BY <1>0, <1>1 DEF LoopDrawable
<1>2. CASE th'[u] # th[u]
  <2>1. th'[u] # Idle /\ ~Arrive(u)
    BY <1>0, ArriveStarts DEF Idle, Begin
  <2>2. th'[u].id = th[u].id
    BY <1>0, <1>2, <2>1, StepOfThread DEF GoesOn
  <2>3. CASE CloseBin(u) /\ th'[u].todo = RenderTiles(th[u])
    BY <2>2, <2>3 DEF RenderTiles
  <2>4. ASSUME NEW tile \in Tiles,
               \/ DrawTile(u, tile) /\ th'[u].todo = th[u].todo \ {tile}
               \/ IndexTile(u, tile) /\ th'[u].todo = th[u].todo
        PROVE  th'[u].id \in Drawable
    BY <1>0, <2>2, <2>4 DEF LoopDrawable, DrawTile, IndexTile, IsNext
  <2>5. QED
    BY <1>0, <1>2, <2>1, <2>3, <2>4, LoopSteps
<1>3. QED
  BY <1>1, <1>2

LEMMA IsFirstStays ==
  ASSUME Typed, [Next]_vars, NEW tile \in Tiles, NEW id, NEW k, IsFirst(tile, id, k)
  PROVE  IsFirst(tile, id, k)'
<1>1. k \in 1..Len(ndx[tile]) /\ Len(ndx[tile]) \in Nat
  BY RecordIds DEF IsFirst
<1>2. \A j \in 1..(k - 1) : j \in 1..Len(ndx[tile])
  BY <1>1
<1>3. QED
  BY <1>1, <1>2, RecordsStay DEF IsFirst

(* The position found stays the first record of the control.                   *)
LEMMA FoundStaysStays ==
  ASSUME Indexed, [Next]_vars
  PROVE  FoundStays'
<1>0. Typed /\ FoundStays
  BY DEF Indexed, Stored, IndexInv
<1> SUFFICES ASSUME NEW u \in Threads, NEW tile \in Tiles, NEW id, NEW k,
                    id = th'[u].orig, k = th'[u].pos,
                    th'[u].pc = "mark", IsNext(tile, th'[u].todo)
             PROVE  IsFirst(tile, id, k)'
  BY DEF FoundStays, IsNext, IsFirst
<1>1. CASE th'[u] = th[u]
  BY <1>0, <1>1, IsFirstStays DEF FoundStays
<1>2. CASE th'[u] # th[u]
  <2>1. th'[u] # Idle /\ ~Arrive(u)
    BY <1>0, ArriveStarts DEF Idle, Begin
  <2>2. PICK x \in Tiles : FindRecord(u, x) /\ th'[u].todo = th[u].todo
                /\ th'[u].orig = th[u].orig /\ IsFirst(x, th[u].orig, th'[u].pos)
    BY <1>0, <1>2, <2>1, LoopSteps
  <2>3. th[u].todo \in SUBSET Tiles /\ IsNext(x, th[u].todo)
    BY <1>0, <2>2, ThreadShape DEF Request, FindRecord
  <2>4. x = tile
    BY <2>2, <2>3, NextIsOne
  <2>5. QED
    BY <1>0, <2>2, <2>4, IsFirstStays
<1>3. QED
  BY <1>1, <1>2

(* No thread but the one that creates a control puts it into an index.         *)
LEMMA OnlyCreatorIndexes ==
  ASSUME Indexed, NEW u \in Threads, Creates(u), NEW w \in Threads, NEW tile \in Tiles,
         IndexTile(w, tile), th[w].id = th[u].id
  PROVE  w = u
<1>1. Creates(w) /\ th[w].op # "relabel"
  BY IndexTileFirst DEF Creates
<1>2. th[u].op # "relabel"
  BY DEF Creates
<1>3. QED
  BY <1>1, <1>2 DEF Indexed, Stored, FileInv, IdsApart

(* The tiles a thread has yet to index only become fewer, and the one it       *)
(* indexes leaves them.                                                        *)
LEMMA UnindexedShrinks ==
  ASSUME Typed, [Next]_vars, NEW u \in Threads, Creates(u)', ~Arrive(u)
  PROVE  /\ Unindexed(u)' \subseteq Unindexed(u)
         /\ \A tile \in Tiles : IndexTile(u, tile) => tile \notin Unindexed(u)'
<1>0. th \in [Threads -> Request] /\ th' \in [Threads -> Request]
  BY NextTyped DEF Typed, TypeOK
<1>1. th'[u] # Idle
  BY DEF Creates, Idle, Begin
<1>2. \A tile \in Tiles : IndexTile(u, tile) =>
        /\ th[u].pc = "index" /\ th'[u].pc = "draw" /\ th'[u].todo = th[u].todo
        /\ IsNext(tile, th'[u].todo)
  BY <1>0 DEF IndexTile, Become, Request
<1>3. \A tile \in Tiles : IndexTile(u, tile) => tile \notin Unindexed(u)'
  BY <1>2 DEF Unindexed
<1>4. Unindexed(u)' \subseteq Unindexed(u)
  <2>1. CASE th'[u].pc \in {"open", "write"}
    BY <1>0, <1>1, <2>1, StepOfThread DEF GoesOn, Unindexed
  <2>2. CASE th'[u] = th[u]
    BY <2>2 DEF Unindexed, IsNext
  <2>3. CASE th'[u].pc = "index" /\ th'[u] # th[u]
    <3>1. CASE CloseBin(u)
      BY <1>0, <2>3, <3>1 DEF CloseBin, Unindexed, Request
    <3>2. ASSUME NEW x \in Tiles, DrawTile(u, x), th'[u].todo = th[u].todo \ {x}
          PROVE  Unindexed(u)' \subseteq Unindexed(u)
      <4>1. \A tile \in th[u].todo \ {x} : ~IsNext(tile, th[u].todo)
        BY <1>0, <3>2, NextIsOne DEF DrawTile, Request
      <4>2. QED
        BY <2>3, <3>2, <4>1 DEF DrawTile, Unindexed
    <3>3. QED
      BY <1>1, <2>3, <3>1, <3>2, LoopSteps
  <2>4. CASE th'[u].pc = "draw" /\ th'[u] # th[u]
    <3>1. PICK x \in Tiles : IndexTile(u, x) /\ th'[u].todo = th[u].todo
      BY <1>1, <2>4, LoopSteps
    <3>2. QED
      BY <1>2, <2>4, <3>1 DEF Unindexed
  <2>5. CASE th'[u].pc \notin {"open", "write", "index", "draw"}
    BY <2>5 DEF Unindexed
  <2>6. QED
    BY <2>1, <2>2, <2>3, <2>4, <2>5
<1>5. QED
  BY <1>3, <1>4

(* A new control is in no index its creator has yet to write.                  *)
LEMMA NotYetIndexedStays ==
  ASSUME Indexed, [Next]_vars
  PROVE  NotYetIndexed'
<1>0. Typed /\ Typed' /\ Stored /\ NotYetIndexed
  BY NextTyped DEF Indexed, Stored, IndexInv
<1>a. \A u \in Threads : Unindexed(u)' \subseteq Tiles
  BY <1>0 DEF Unindexed, Typed, TypeOK, Request
<1> SUFFICES ASSUME NEW u \in Threads, Creates(u)', NEW tile \in Tiles, tile \in Unindexed(u)',
                    NEW id, id = th'[u].id, Holds(tile, id)'
             PROVE  FALSE
  BY <1>a DEF NotYetIndexed, Holds
<1>1. CASE Arrive(u)
  <2>1. id \in Ids /\ bin[id] = "absent" /\ ndx' = ndx
    <3>1. PICK request \in Request :
             /\ Become(u, request)
             /\ \/ request.op \in {"add", "message", "edit"} /\ request.id \in Ids /\ Fresh(request.id)
                \/ request.op \in {"relabel", "delete", "cleanup"}
      BY <1>0, <1>1, ArriveBrings
    <3>2. th'[u] = request
      BY <1>0, <3>1 DEF Become, Typed, TypeOK
    <3>3. QED
      BY <1>0, <1>1, <3>1, <3>2, ArriveStarts DEF Creates, Fresh
  <2>2. QED
    BY <1>0, <2>1, FreshUnindexed DEF Holds
<1>2. CASE ~Arrive(u)
  <2>1. Creates(u) /\ th[u].id = id
    BY <1>0, <1>2, StepOfThread, GoesOnCreates, IdleCreatesNothing
  <2>2. ~Holds(tile, id)
    BY <1>0, <1>2, <2>1, UnindexedShrinks DEF NotYetIndexed
  <2>3. PICK w \in Threads : IndexTile(w, tile) /\ th[w].id = id
    BY <1>0, <2>2, HoldsNew
  <2>4. w = u
    BY <2>1, <2>3, OnlyCreatorIndexes
  <2>5. QED
    BY <1>0, <1>2, <2>3, <2>4, UnindexedShrinks
<1>3. QED
  BY <1>1, <1>2

(* A tile about to be drawn has its record.                                    *)
LEMMA IndexedThenDrawnStays ==
  ASSUME Indexed, [Next]_vars
  PROVE  IndexedThenDrawn'
<1>0. Typed /\ IndexedThenDrawn
  BY DEF Indexed, Stored, IndexInv
<1> SUFFICES ASSUME NEW u \in Threads, NEW tile \in Tiles, NEW id, id = th'[u].id,
                    th'[u].pc = "draw", IsNext(tile, th'[u].todo), tile \in CrossedTiles(id)
             PROVE  Holds(tile, id)'
  BY DEF IndexedThenDrawn, IsNext, CrossedTiles, Holds
<1>1. CASE th'[u] = th[u]
  BY <1>0, <1>1, HoldsStays DEF IndexedThenDrawn
<1>2. CASE th'[u] # th[u]
  <2>1. th'[u] # Idle /\ ~Arrive(u)
    BY <1>0, ArriveStarts DEF Idle, Begin
  <2>2. PICK x \in Tiles : IndexTile(u, x) /\ th'[u].todo = th[u].todo
    BY <1>0, <1>2, <2>1, LoopSteps
  <2>3. th[u].todo \in SUBSET Tiles /\ IsNext(x, th[u].todo)
    BY <1>0, <2>2, ThreadShape DEF Request, IndexTile
  <2>4. x = tile
    BY <2>2, <2>3, NextIsOne
  <2>5. th[u].id = id
    BY <1>0, <1>2, <2>1, StepOfThread DEF GoesOn
  <2>6. QED
    BY <1>0, <2>2, <2>4, <2>5, IndexTileHolds
<1>3. QED
  BY <1>1, <1>2

(* Only a DrawTile step adds to a tile's drawing, and only its own control.    *)
LEMMA DrawingGrows ==
  ASSUME Typed, [Next]_vars, NEW tile \in Tiles, NEW id \in td'[tile], id \notin td[tile]
  PROVE  \E t \in Threads : DrawTile(t, tile) /\ id = th[t].id /\ tile \in LaneTiles(id)
<1>0. td \in [Tiles -> SUBSET Ids] /\ td' # td
  BY DEF Typed, TypeOK
<1>1. PICK t \in Threads : Work(t)
  BY <1>0 DEF Next, Tick, Restart, Arrive, vars, fileVars
<1>2. PICK other \in Tiles : OnTile(t, other)
  BY <1>0, <1>1 DEF Work, OpenBin, CloseBin, Rendered, Lock, Ended, Fail, fileVars
<1>3. DrawTile(t, other)
  BY <1>0, <1>2 DEF OnTile, IndexTile, FindRecord, NotFound, MarkEnd, fileVars
<1>4. QED
  BY <1>0, <1>3 DEF DrawTile

LEMMA DrawnIsIndexedStays ==
  ASSUME Indexed, [Next]_vars
  PROVE  DrawnIsIndexed'
<1>0. Typed /\ DrawnIsIndexed /\ IndexedThenDrawn
  BY DEF Indexed, Stored, IndexInv
<1> SUFFICES ASSUME NEW tile \in Tiles, NEW id \in td'[tile]
             PROVE  Holds(tile, id)'
  BY DEF DrawnIsIndexed, Holds
<1>1. CASE id \in td[tile]
  BY <1>0, <1>1, HoldsStays DEF DrawnIsIndexed
<1>2. CASE id \notin td[tile]
  <2>1. PICK t \in Threads : DrawTile(t, tile) /\ id = th[t].id /\ tile \in LaneTiles(id)
    BY <1>0, <1>2, DrawingGrows
  <2>2. id \in Ids
    BY <1>0, <2>1, ThreadShape DEF DrawTile, Shaped
  <2>3. tile \in CrossedTiles(id)
    BY <2>1, <2>2, StoreAssumption DEF LaneTiles, CrossedTiles
  <2>4. Holds(tile, id)
    BY <1>0, <2>1, <2>3 DEF IndexedThenDrawn, DrawTile
  <2>5. QED
    BY <1>0, <2>4, HoldsStays
<1>3. QED
  BY <1>1, <1>2

-----------------------------------------------------------------------------
LEMMA NextIndexed ==
  ASSUME Indexed, [Next]_vars
  PROVE  Indexed'
<1>1. Stored'
  BY NextStored DEF Indexed
<1>2. IndexInv'
  BY NotYetIndexedStays, IndexedThenDrawnStays, IndexedDrawableStays, LoopDrawableStays,
     OneRecordStays, FoundStaysStays, DrawnIsIndexedStays DEF IndexInv
<1>3. QED
  BY <1>1, <1>2 DEF Indexed

LEMMA InitIndexed == Init => Indexed
<1> SUFFICES ASSUME Init PROVE Indexed
  OBVIOUS
<1>1. \A t \in Threads : th[t] = Idle
  BY DEF Init
<1>2. NotYetIndexed /\ IndexedThenDrawn /\ LoopDrawable /\ FoundStays
  BY <1>1 DEF NotYetIndexed, IndexedThenDrawn, LoopDrawable, FoundStays, Creates, Idle, Begin
<1>3. ASSUME NEW tile \in Tiles
      PROVE  IF tile \in LaneTiles(Base)
             THEN Len(ndx[tile]) = 1 /\ ndx[tile][1].id = Base /\ td[tile] = {Base}
             ELSE Len(ndx[tile]) = 0 /\ td[tile] = {}
  BY DEF Init
<1>4. IndexedDrawable /\ OneRecordPerTile /\ DrawnIsIndexed
  BY <1>3, StoreAssumption DEF IndexedDrawable, OneRecordPerTile, DrawnIsIndexed, Holds
<1>5. QED
  BY <1>2, <1>4, InitStored DEF Indexed, IndexInv

(* updateIndex may scan a tile's index, let others append to it, and still     *)
(* write the end time into the right record: in every state of the store, for  *)
(* any number of threads, controls and tiles, without any lock.                *)
THEOREM FoundCorrect == Spec => []FoundStays
<1>1. Indexed /\ [Next]_vars => Indexed'
  BY NextIndexed
<1>2. Indexed => FoundStays
  BY DEF Indexed, IndexInv
<1>3. QED
  BY InitIndexed, <1>1, <1>2, PTL DEF Spec

(* A control has at most one record in a tile, so ending the first one         *)
(* updateIndex meets ends them all.                                            *)
THEOREM OneRecordCorrect == Spec => []OneRecordPerTile
<1>1. Indexed /\ [Next]_vars => Indexed'
  BY NextIndexed
<1>2. Indexed => OneRecordPerTile
  BY DEF Indexed, IndexInv
<1>3. QED
  BY InitIndexed, <1>1, <1>2, PTL DEF Spec

(* Whatever the map draws in a tile has a record there that can switch it off. *)
THEOREM DrawnCorrect == Spec => []DrawnIsIndexed
<1>1. Indexed /\ [Next]_vars => Indexed'
  BY NextIndexed
<1>2. Indexed => DrawnIsIndexed
  BY DEF Indexed, IndexInv
<1>3. QED
  BY InitIndexed, <1>1, <1>2, PTL DEF Spec

-----------------------------------------------------------------------------
(* The last layer of the inductive invariant: where a handler has passed, the *)
(* control it ends is ended and the one it puts in its place is there.  From  *)
(* it follow what an edit and a deletion promise.                             *)

(* The clock.                                                                   *)
LEMMA ClockRuns ==
  ASSUME [Next]_vars
  PROVE  clock' = clock \/ clock' = clock + 1
<1>1. ASSUME NEW t \in Threads, Work(t) PROVE clock' = clock
  <2>1. ASSUME NEW tile \in Tiles, OnTile(t, tile) PROVE clock' = clock
    BY <2>1 DEF OnTile, IndexTile, DrawTile, FindRecord, NotFound, MarkEnd
  <2>2. CASE OpenBin(t) \/ CloseBin(t) \/ Rendered(t)
    BY <2>2 DEF OpenBin, CloseBin, Rendered
  <2>3. CASE Lock(t) \/ Ended(t) \/ Fail(t)
    BY <2>3 DEF Lock, Ended, Fail
  <2>4. QED
    BY <1>1, <2>1, <2>2, <2>3 DEF Work
<1>2. QED
  BY <1>1 DEF Next, Tick, Restart, Arrive, vars

LEMMA PastStays ==
  ASSUME Typed, [Next]_vars, NEW time \in Int, Past(time)
  PROVE  Past(time)'
<1>1. clock \in Int /\ SimSkew \in Int
  BY StoreAssumption DEF Typed, TypeOK
<1>2. QED
  BY <1>1, ClockRuns DEF Past, SourceTime

LEMMA PastIsNotForever ==
  ASSUME Typed, NEW time \in Int, Past(time)
  PROVE  time # Forever
<1>1. clock \in Int /\ clock <= MaxClock /\ MaxClock \in Int
  BY StoreAssumption DEF Typed, TypeOK
<1>2. QED
  BY <1>1, StoreAssumption DEF Past, SourceTime

-----------------------------------------------------------------------------
(* What a request carries from step to step.                                    *)

(* The time an edit or a cleanup will write has been read from a clock, and     *)
(* every tile is ahead of a deletion that comes in.                             *)
LEMMA ArriveTimes ==
  ASSUME Typed, NEW u \in Threads, Arrive(u)
  PROVE  /\ th'[u].op \in {"edit", "cleanup"} => th'[u].ts \in {SourceTime, Ago(clock)}
         /\ th'[u].op \in {"delete", "cleanup"} => th'[u].todo = FileTiles(th'[u].orig)
         /\ th'[u].op = "edit" => th'[u].pc = "open"
<1> DEFINE Goal(r) ==
      /\ r.op \in {"edit", "cleanup"} => r.ts \in {SourceTime, Ago(clock)}
      /\ r.op \in {"delete", "cleanup"} => r.todo = FileTiles(r.orig)
      /\ r.op = "edit" => r.pc = "open"
<1>0. \A r : Become(u, r) => th'[u] = r
  BY DEF Become, Typed, TypeOK
<1> SUFFICES Goal(th'[u])
  OBVIOUS
<1>1. CASE AddControl(u) \/ AddFromMessage(u) \/ SaveLabel(u)
  <2>1. CASE AddControl(u)
    BY <1>0, <2>1 DEF AddControl, Begin
  <2>2. CASE AddFromMessage(u)
    BY <1>0, <2>2 DEF AddFromMessage, Begin
  <2>3. CASE SaveLabel(u)
    BY <1>0, <2>3 DEF SaveLabel, Begin
  <2>4. QED
    BY <1>1, <2>1, <2>2, <2>3
<1>2. CASE SaveEdit(u)
  BY <1>0, <1>2 DEF SaveEdit, Begin
<1>3. CASE DeleteControl(u)
  BY <1>0, <1>3 DEF DeleteControl, Begin
<1>4. CASE Cleanup(u)
  BY <1>0, <1>4 DEF Cleanup, Begin
<1>5. QED
  BY <1>1, <1>2, <1>3, <1>4 DEF Arrive

(* A handler keeps the control it started from; only a deletion reads the       *)
(* clock again.                                                                 *)
LEMMA KeepsOriginal ==
  ASSUME Typed, [Next]_vars, NEW u \in Threads, th'[u] # Idle, ~Arrive(u)
  PROVE  /\ th'[u].orig = th[u].orig /\ th'[u].op = th[u].op
         /\ th'[u].ts = th[u].ts \/ th[u].op = "delete"
         /\ th'[u].ts = th[u].ts \/ th'[u].ts = Ago(clock)
<1>0. th \in [Threads -> Request]
  BY DEF Typed, TypeOK
<1> USE DEF Become
<1>1. CASE th'[u] = th[u] \/ th'[u] = [th[u] EXCEPT !.clash = TRUE]
  BY <1>0, <1>1 DEF Request
<1>2. CASE OpenBin(u) \/ CloseBin(u) \/ Rendered(u) \/ Lock(u)
  <2>1. CASE OpenBin(u)
    BY <1>0, <2>1 DEF OpenBin, Request
  <2>2. CASE CloseBin(u)
    BY <1>0, <2>2 DEF CloseBin, Request
  <2>3. CASE Rendered(u)
    BY <1>0, <2>3 DEF Rendered, Request
  <2>4. CASE Lock(u)
    BY <1>0, <2>4 DEF Lock, Request
  <2>5. QED
    BY <1>2, <2>1, <2>2, <2>3, <2>4
<1>3. ASSUME NEW tile \in Tiles, OnTile(u, tile)
      PROVE  /\ th'[u].orig = th[u].orig /\ th'[u].op = th[u].op
             /\ th'[u].ts = th[u].ts \/ th[u].op = "delete"
             /\ th'[u].ts = th[u].ts \/ th'[u].ts = Ago(clock)
  <2>1. CASE IndexTile(u, tile)
    BY <1>0, <2>1 DEF IndexTile, Request
  <2>2. CASE DrawTile(u, tile)
    BY <1>0, <2>2 DEF DrawTile, Request
  <2>3. CASE MarkEnd(u, tile)
    BY <1>0, <2>3 DEF MarkEnd, Request
  <2>4. CASE FindRecord(u, tile)
    <3>1. PICK k, time :
            /\ th'[u] = [th[u] EXCEPT !.pc = "mark", !.pos = k, !.ts = time]
            /\ time = IF th[u].op = "delete" THEN Ago(clock) ELSE th[u].ts
      BY <1>0, <2>4 DEF FindRecord
    <3>2. QED
      BY <1>0, <3>1 DEF Request
  <2>5. CASE NotFound(u, tile)
    BY <1>0, <2>5 DEF NotFound
  <2>6. QED
    BY <1>3, <2>1, <2>2, <2>3, <2>4, <2>5 DEF OnTile
<1>4. QED
  BY <1>1, <1>2, <1>3, OwnStep

(* A deletion leaves a tile behind only by ending the control there.            *)
LEMMA DeletionSteps ==
  ASSUME Typed, [Next]_vars, NEW u \in Threads, th'[u] # Idle, ~Arrive(u),
         th[u].op \in {"delete", "cleanup"}, th[u].pc # "idle"
  PROVE  \/ th'[u].todo = th[u].todo
         \/ \E tile \in Tiles : MarkEnd(u, tile) /\ th'[u].todo = th[u].todo \ {tile}
<1>0. th \in [Threads -> Request] /\ th[u].pc \in {"lock", "find", "mark"}
  BY ThreadShape DEF Typed, TypeOK, Request, Shaped
<1> USE DEF Become
<1>1. CASE th'[u] = th[u] \/ th'[u] = [th[u] EXCEPT !.clash = TRUE]
  BY <1>0, <1>1 DEF Request
<1>2. ~OpenBin(u) /\ ~CloseBin(u) /\ ~Rendered(u)
  BY <1>0 DEF OpenBin, CloseBin, Rendered
<1>3. CASE Lock(u)
  BY <1>0, <1>3 DEF Lock, Request
<1>4. ASSUME NEW tile \in Tiles, OnTile(u, tile)
      PROVE  th'[u].todo = th[u].todo \/ (MarkEnd(u, tile) /\ th'[u].todo = th[u].todo \ {tile})
  <2>1. ~IndexTile(u, tile) /\ ~DrawTile(u, tile)
    BY <1>0 DEF IndexTile, DrawTile
  <2>2. CASE FindRecord(u, tile)
    BY <1>0, <2>2 DEF FindRecord, Request
  <2>3. CASE NotFound(u, tile)
    BY <1>0, <2>3 DEF NotFound
  <2>4. CASE MarkEnd(u, tile)
    BY <1>0, <2>4 DEF MarkEnd, Request
  <2>5. QED
    BY <1>4, <2>1, <2>2, <2>3, <2>4 DEF OnTile
<1>5. QED
  BY <1>1, <1>2, <1>3, <1>4, OwnStep

-----------------------------------------------------------------------------
(* What happens to the end times in an index.                                   *)
(* A MarkEnd step writes its time into the one record of its control, and into  *)
(* nothing else.                                                                *)
LEMMA MarkEndEnds ==
  ASSUME Indexed, NEW t \in Threads, NEW tile \in Tiles, MarkEnd(t, tile)
  PROVE  /\ th[t].pc = "mark" /\ th[t].orig \in Ids /\ th[t].ts \in Int
         /\ Holds(tile, th[t].orig)
         /\ Len(ndx'[tile]) = Len(ndx[tile])
         /\ \A k \in 1..Len(ndx[tile]) :
              /\ ndx'[tile][k].id = ndx[tile][k].id
              /\ ndx'[tile][k].end = IF ndx[tile][k].id = th[t].orig THEN th[t].ts
                                     ELSE ndx[tile][k].end
         /\ \A other \in Tiles \ {tile} : ndx'[other] = ndx[other]
<1>0. ndx \in [Tiles -> Seq(IndexRecord)] /\ ndx[tile] \in Seq(IndexRecord)
  BY DEF Indexed, Stored, Typed, TypeOK
<1>1. th[t].pc = "mark" /\ th[t].orig \in Ids /\ th[t].pos \in Nat /\ th[t].ts \in Int
  BY ThreadShape DEF Indexed, Stored, MarkEnd, Shaped, Request
<1>2. IsFirst(tile, th[t].orig, th[t].pos)
  BY DEF Indexed, IndexInv, FoundStays, MarkEnd
<1>3. \A k \in 1..Len(ndx[tile]) : ndx[tile][k].id = th[t].orig <=> k = th[t].pos
  BY <1>2 DEF IsFirst, Indexed, IndexInv, OneRecordPerTile
<1>4. ndx'[tile] = [ndx[tile] EXCEPT ![th[t].pos].end = th[t].ts]
      /\ \A other \in Tiles \ {tile} : ndx'[other] = ndx[other]
  BY <1>0 DEF MarkEnd
<1>5. /\ Len(ndx'[tile]) = Len(ndx[tile])
      /\ \A k \in 1..Len(ndx[tile]) :
           /\ ndx'[tile][k].id = ndx[tile][k].id
           /\ ndx'[tile][k].end = IF k = th[t].pos THEN th[t].ts ELSE ndx[tile][k].end
  BY <1>0, <1>1, <1>4, EndWritten
<1>6. Holds(tile, th[t].orig)
  BY <1>2 DEF Holds, IsFirst
<1>7. QED
  BY <1>1, <1>3, <1>4, <1>5, <1>6

(* Only the handler that is ending a control changes the end of its record.     *)
LEMMA EndChanges ==
  ASSUME Indexed, [Next]_vars, NEW tile \in Tiles, NEW k \in 1..Len(ndx[tile]),
         ndx'[tile][k].end # ndx[tile][k].end
  PROVE  \E t \in Threads : /\ MarkEnd(t, tile) /\ th[t].pc = "mark"
                            /\ th[t].orig = ndx[tile][k].id /\ ndx'[tile][k].end = th[t].ts
<1>0. Typed /\ ndx[tile] \in Seq(IndexRecord)
  BY DEF Indexed, Stored, Typed, TypeOK
<1>1. ASSUME NEW t \in Threads, ndx'[tile] = Append(ndx[tile], NewRecord(t)) PROVE FALSE
  <2>1. ndx'[tile][k] = ndx[tile][k]
    BY <1>0, <1>1, Appended
  <2>2. QED
    BY <2>1
<1>2. PICK t \in Threads : MarkEnd(t, tile)
  BY <1>0, <1>1, IndexChange
<1>3. QED
  BY <1>2, MarkEndEnds

LEMMA EndedInStays ==
  ASSUME Indexed, EndsInPast, [Next]_vars, NEW tile \in Tiles, NEW id, EndedIn(tile, id)
  PROVE  EndedIn(tile, id)'
<1>0. Typed
  BY DEF Indexed, Stored
<1>1. Holds(tile, id) /\ Holds(tile, id)'
  BY <1>0, HoldsStays DEF EndedIn
<1>2. ASSUME NEW k \in 1..Len(ndx'[tile]), NEW time, ndx'[tile][k].id = id,
             time = ndx'[tile][k].end
      PROVE  Past(time)'
  <2>1. k \in 1..Len(ndx[tile]) /\ ndx[tile][k].id = id
    BY <1>0, <1>1, <1>2, IndexGrows, IndexTileFirst
  <2>2. ndx[tile][k].end \in Int
    <3>1. ndx[tile][k] \in IndexRecord
      BY <1>0, <2>1, RecordIds
    <3>2. QED
      BY <3>1 DEF IndexRecord
  <2>3. CASE time = ndx[tile][k].end
    BY <1>0, <2>1, <2>2, <2>3, PastStays DEF EndedIn
  <2>4. CASE time # ndx[tile][k].end
    <3>1. PICK t \in Threads : MarkEnd(t, tile) /\ th[t].pc = "mark" /\ time = th[t].ts
      BY <1>2, <2>1, <2>4, EndChanges
    <3>2. th[t].ts \in Int /\ Past(th[t].ts)
      BY <3>1, MarkEndEnds DEF EndsInPast
    <3>3. QED
      BY <1>0, <3>1, <3>2, PastStays
  <2>5. QED
    BY <2>3, <2>4
<1>3. QED
  BY <1>1, <1>2 DEF EndedIn, Past, SourceTime

(* What a MarkEnd step ends is ended.                                           *)
LEMMA MarkEndIsPast ==
  ASSUME Indexed, EndsInPast, [Next]_vars, NEW t \in Threads, NEW tile \in Tiles,
         MarkEnd(t, tile), NEW id, id = th[t].orig
  PROVE  EndedIn(tile, id)'
<1>0. Typed
  BY DEF Indexed, Stored
<1>1. Holds(tile, id)'
  BY <1>0, MarkEndEnds, HoldsStays
<1>2. th[t].ts \in Int /\ Past(th[t].ts)
  BY MarkEndEnds DEF EndsInPast
<1>3. \A time : time = th[t].ts => Past(time)'
  BY <1>0, <1>2, PastStays
<1>4. \A k \in 1..Len(ndx'[tile]) : ndx'[tile][k].id = id => ndx'[tile][k].end = th[t].ts
  BY MarkEndEnds
<1>5. QED
  BY <1>1, <1>3, <1>4 DEF EndedIn, Past, SourceTime

-----------------------------------------------------------------------------
(* The conjuncts of EndInv, one by one.                                         *)
EndIndexed == Indexed /\ EndInv

LEMMA EndsInPastStays ==
  ASSUME EndIndexed, [Next]_vars
  PROVE  EndsInPast'
<1>0. Typed /\ EndsInPast /\ clock \in Int
  BY DEF EndIndexed, EndInv, Indexed, Stored, Typed, TypeOK
<1> SUFFICES ASSUME NEW u \in Threads, th'[u].op \in {"edit", "cleanup"} \/ th'[u].pc = "mark",
                    NEW time, time = th'[u].ts
             PROVE  Past(time)'
  BY DEF EndsInPast, Past, SourceTime
<1>1. Past(clock) /\ Past(Ago(clock)) /\ Past(SourceTime)
      /\ Ago(clock) \in Int /\ SourceTime \in Int
  BY <1>0, StoreAssumption DEF Past, Ago, SourceTime
<1>2. th'[u] # Idle
  BY DEF Idle, Begin
<1>3. CASE Arrive(u)
  <2>1. time \in {SourceTime, Ago(clock)}
    BY <1>0, <1>3, ArriveTimes, ArriveStarts
  <2>2. QED
    BY <1>0, <1>1, <2>1, PastStays
<1>4. CASE ~Arrive(u) /\ time = Ago(clock)
  BY <1>0, <1>1, <1>4, PastStays
<1>5. CASE ~Arrive(u) /\ time = th[u].ts
  <2>1. CASE th[u].op \in {"edit", "cleanup"} \/ th'[u] = th[u]
    <3>1. Past(time) /\ time \in Int
      BY <1>0, <1>5, <2>1, ThreadShape DEF EndsInPast, Request
    <3>2. QED
      BY <1>0, <3>1, PastStays
  <2>2. CASE th[u].op \notin {"edit", "cleanup"} /\ th'[u] # th[u]
    <3>1. th'[u].pc = "mark"
      BY <1>0, <1>2, <1>5, <2>2, KeepsOriginal
    <3>2. PICK x \in Tiles : FindRecord(u, x)
      BY <1>0, <1>2, <1>5, <2>2, <3>1, LoopSteps
    <3>3. th[u] \in Request /\ th[u].op = "delete" /\ th \in [Threads -> Request]
      BY <1>0, <2>2, <3>2, ThreadShape DEF FindRecord, Shaped, Typed, TypeOK
    <3>4. time = Ago(clock)
      BY <3>2, <3>3 DEF FindRecord, Become, Request
    <3>5. QED
      BY <1>4, <1>5, <3>4
  <2>3. QED
    BY <2>1, <2>2
<1>6. QED
  BY <1>0, <1>2, <1>3, <1>4, <1>5, KeepsOriginal

LEMMA MarksATileStays ==
  ASSUME EndIndexed, [Next]_vars
  PROVE  MarksATile'
<1>0. Typed /\ MarksATile
  BY DEF EndIndexed, EndInv, Indexed, Stored
<1> SUFFICES ASSUME NEW u \in Threads, th'[u].pc = "mark"
             PROVE  \E tile \in Tiles : IsNext(tile, th'[u].todo)
  BY DEF MarksATile, IsNext
<1>1. CASE th'[u] = th[u]
  BY <1>0, <1>1 DEF MarksATile
<1>2. CASE th'[u] # th[u]
  <2>1. th'[u] # Idle /\ ~Arrive(u)
    BY <1>0, ArriveStarts DEF Idle, Begin
  <2>2. QED
    BY <1>0, <1>2, <2>1, LoopSteps DEF FindRecord
<1>3. QED
  BY <1>1, <1>2

LEMMA EndedSoFarStays ==
  ASSUME EndIndexed, [Next]_vars
  PROVE  EndedSoFar'
<1>0. Typed /\ Indexed /\ EndsInPast /\ EndedSoFar
  BY DEF EndIndexed, EndInv, Indexed, Stored
<1> SUFFICES ASSUME NEW u \in Threads, th'[u].op \in {"delete", "cleanup"}, th'[u].pc # "idle",
                    NEW id, id = th'[u].orig, NEW tile \in FileTiles(id) \ th'[u].todo
             PROVE  EndedIn(tile, id)'
  BY DEF EndedSoFar, FileTiles, EndedIn, Holds, Past, SourceTime
<1>1. th'[u] # Idle
  BY DEF Idle, Begin
<1>2. CASE Arrive(u)
  BY <1>0, <1>2, ArriveTimes
<1>3. CASE ~Arrive(u)
  <2>1. th[u].orig = id /\ th[u].op \in {"delete", "cleanup"} /\ th[u].pc # "idle"
    BY <1>0, <1>1, <1>3, KeepsOriginal, StepOfThread DEF GoesOn
  <2>2. id \in Ids /\ FileTiles(id) \subseteq Tiles
    BY <1>0, <2>1, ThreadShape, TileSets DEF Shaped, Request
  <2>3. CASE tile \notin th[u].todo
    BY <1>0, <2>1, <2>2, <2>3, EndedInStays DEF EndedSoFar
  <2>4. CASE tile \in th[u].todo
    <3>1. MarkEnd(u, tile)
      BY <1>0, <1>1, <1>3, <2>1, <2>4, DeletionSteps
    <3>2. QED
      BY <1>0, <2>1, <2>2, <3>1, MarkEndIsPast
  <2>5. QED
    BY <2>3, <2>4
<1>4. QED
  BY <1>2, <1>3

(* Only a deletion that has passed every tile adds to the retired controls.     *)
LEMMA RetiredGrows ==
  ASSUME [Next]_vars, NEW id \in retired', id \notin retired
  PROVE  \E t \in Threads : /\ th[t].pc = "find" /\ th[t].todo = {} /\ th[t].op # "edit"
                            /\ th[t].orig = id
<1>1. PICK t \in Threads : Work(t)
  BY DEF Next, Tick, Restart, Arrive, vars, histVars
<1>2. \A tile \in Tiles : ~OnTile(t, tile)
  BY DEF OnTile, IndexTile, DrawTile, FindRecord, NotFound, MarkEnd, histVars
<1>3. Ended(t)
  BY <1>1, <1>2 DEF Work, OpenBin, CloseBin, Rendered, Lock, Fail, histVars
<1>4. QED
  BY <1>3 DEF Ended

LEMMA RetiredEndedStays ==
  ASSUME EndIndexed, [Next]_vars
  PROVE  RetiredEnded'
<1>0. Typed /\ Indexed /\ EndsInPast /\ EndedSoFar /\ RetiredEnded /\ retired \subseteq Ids
  BY DEF EndIndexed, EndInv, Indexed, Stored, Typed, TypeOK
<1> SUFFICES ASSUME NEW id \in retired', NEW tile \in FileTiles(id)
             PROVE  EndedIn(tile, id)'
  BY DEF RetiredEnded, FileTiles, EndedIn, Holds, Past, SourceTime
<1>1. id \in Ids /\ EndedIn(tile, id)
  <2>1. CASE id \in retired
    BY <1>0, <2>1 DEF RetiredEnded
  <2>2. CASE id \notin retired
    <3>1. PICK t \in Threads : /\ th[t].pc = "find" /\ th[t].todo = {} /\ th[t].op # "edit"
                               /\ th[t].orig = id
      BY <2>2, RetiredGrows
    <3>2. th[t].op \in {"delete", "cleanup"} /\ id \in Ids
      BY <1>0, <3>1, ThreadShape DEF Shaped
    <3>3. QED
      BY <1>0, <3>1, <3>2 DEF EndedSoFar
  <2>3. QED
    BY <2>1, <2>2
<1>2. tile \in Tiles
  BY <1>1, TileSets
<1>3. QED
  BY <1>0, <1>1, <1>2, EndedInStays

(* An edit leaves a tile unindexed behind only by appending its record there.   *)
LEMMA EditSteps ==
  ASSUME Indexed, [Next]_vars, NEW u \in Threads, th[u].op = "edit", th'[u] # Idle, ~Arrive(u),
         th[u].id \in Drawable, NEW tile \in FileTiles(th[u].orig),
         th'[u].pc \in {"index", "draw", "lock", "find", "mark"}, tile \notin Unindexed(u)'
  PROVE  \/ th[u].pc \in {"index", "draw", "lock", "find", "mark"} /\ tile \notin Unindexed(u)
         \/ IndexTile(u, tile)
<1>0. /\ Typed /\ th \in [Threads -> Request] /\ tile \in Tiles
      /\ th[u].todo \in SUBSET Tiles
  BY ThreadShape, TileSets DEF Indexed, Stored, Typed, TypeOK, Shaped, Request
<1>1. CASE th'[u] = th[u]
  BY <1>1 DEF Unindexed, IsNext
<1>2. CASE th[u].pc \in {"open", "write"}
  <2>1. CloseBin(u)
    BY <1>0, <1>2, ClosesItself
  <2>2. th'[u].pc = "index" /\ th'[u].todo = FileTiles(th[u].orig)
    BY <1>0, <2>1 DEF CloseBin, Become, Request, RenderTiles
  <2>3. QED
    BY <2>2 DEF Unindexed
<1>3. CASE th[u].pc = "index" /\ th'[u] # th[u]
  <2>1. ~OpenBin(u) /\ ~CloseBin(u) /\ ~Lock(u)
    BY <1>3 DEF OpenBin, CloseBin, Lock
  <2>2. ~\E t \in Threads : SharesFile(t, u)
    BY <1>3 DEF SharesFile
  <2>3. CASE Rendered(u)
    BY <1>3, <2>3 DEF Rendered, Unindexed
  <2>4. ASSUME NEW x \in Tiles, OnTile(u, x)
        PROVE  tile \notin Unindexed(u) \/ IndexTile(u, tile)
    <3>1. IndexTile(u, x)
      BY <1>3, <2>4 DEF OnTile, DrawTile, FindRecord, NotFound, MarkEnd
    <3>2. th'[u].pc = "draw" /\ th'[u].todo = th[u].todo /\ IsNext(x, th[u].todo)
      BY <1>0, <3>1 DEF IndexTile, Become, Request
    <3>3. CASE tile \in th[u].todo
      <4>1. IsNext(tile, th[u].todo)
        BY <3>2, <3>3 DEF Unindexed
      <4>2. x = tile
        BY <1>0, <3>2, <4>1, NextIsOne
      <4>3. QED
        BY <3>1, <4>2
    <3>4. CASE tile \notin th[u].todo
      BY <1>3, <3>4 DEF Unindexed
    <3>5. QED
      BY <3>3, <3>4
  <2>5. QED
    BY <1>0, <1>3, <2>1, <2>2, <2>3, <2>4, OwnStep
<1>4. CASE th[u].pc = "draw" /\ th'[u] # th[u]
  <2>1. ~OpenBin(u) /\ ~CloseBin(u) /\ ~Rendered(u) /\ ~Lock(u)
    BY <1>4 DEF OpenBin, CloseBin, Rendered, Lock
  <2>2. ~\E t \in Threads : SharesFile(t, u)
    BY <1>4 DEF SharesFile
  <2>3. PICK x \in Tiles : OnTile(u, x)
    BY <1>0, <1>4, <2>1, <2>2, OwnStep
  <2>4. DrawTile(u, x)
    BY <1>4, <2>3 DEF OnTile, IndexTile, FindRecord, NotFound, MarkEnd
  <2>5. th'[u].pc = "index" /\ th'[u].todo = th[u].todo \ {x} /\ IsNext(x, th[u].todo)
    BY <1>0, <2>4 DEF DrawTile, Become, Request
  <2>6. QED
    BY <1>4, <2>5 DEF Unindexed
<1>5. CASE th[u].pc \in {"lock", "find", "mark"}
  BY <1>5 DEF Unindexed
<1>6. QED
  <2>1. th[u].pc # "idle"
    BY <1>0, ThreadShape DEF Shaped, Idle, Begin
  <2>2. QED
    BY <1>0, <1>1, <1>2, <1>3, <1>4, <1>5, <2>1 DEF Request

LEMMA ReplacedStays ==
  ASSUME EndIndexed, [Next]_vars
  PROVE  Replaced'
<1>0. Typed /\ Indexed /\ Replaced
  BY DEF EndIndexed, EndInv, Indexed, Stored
<1> SUFFICES ASSUME NEW u \in Threads, th'[u].op = "edit", th'[u].id \in Drawable,
                    th'[u].pc \in {"index", "draw", "lock", "find", "mark"},
                    NEW tile \in (FileTiles(th'[u].orig) \cap CrossedTiles(th'[u].orig)),
                    tile \notin Unindexed(u)'
             PROVE  \E k \in 1..Len(ndx'[tile]) :
                      ndx'[tile][k].id = th'[u].id /\ ndx'[tile][k].start = th'[u].ts
  BY DEF Replaced, FileTiles, CrossedTiles
<1>1. th'[u] # Idle /\ ~Arrive(u)
  BY <1>0, ArriveTimes DEF Idle, Begin
<1>2. /\ th'[u].orig = th[u].orig /\ th[u].op = "edit"
      /\ th'[u].ts = th[u].ts /\ th'[u].id = th[u].id
  BY <1>0, <1>1, KeepsOriginal, StepOfThread DEF GoesOn
<1>3. tile \in Tiles /\ tile \in CrossedTiles(th[u].id)
  <2>1. th[u].orig \in Ids /\ th[u].id \in Ids /\ GeoOf[th[u].id] = GeoOf[th[u].orig]
    BY <1>0, <1>2, ThreadShape DEF Shaped, Succeeds
  <2>2. QED
    BY <1>2, <2>1, TileSets DEF CrossedTiles
<1>4. CASE th[u].pc \in {"index", "draw", "lock", "find", "mark"} /\ tile \notin Unindexed(u)
  <2>1. PICK k \in 1..Len(ndx[tile]) :
          ndx[tile][k].id = th[u].id /\ ndx[tile][k].start = th[u].ts
    BY <1>0, <1>2, <1>4 DEF Replaced
  <2>2. QED
    BY <1>0, <1>2, <1>3, <2>1, RecordsStay
<1>5. CASE IndexTile(u, tile)
  BY <1>0, <1>2, <1>3, <1>5, IndexTileRecord
<1>6. QED
  BY <1>0, <1>1, <1>2, <1>4, <1>5, EditSteps

-----------------------------------------------------------------------------
LEMMA NextEndIndexed ==
  ASSUME EndIndexed, [Next]_vars
  PROVE  EndIndexed'
<1>1. Indexed'
  BY NextIndexed DEF EndIndexed
<1>2. EndInv'
  BY ReplacedStays, EndsInPastStays, MarksATileStays, EndedSoFarStays, RetiredEndedStays
     DEF EndInv
<1>3. QED
  BY <1>1, <1>2 DEF EndIndexed

LEMMA InitEndIndexed == Init => EndIndexed
<1> SUFFICES ASSUME Init PROVE EndIndexed
  OBVIOUS
<1>1. \A t \in Threads : th[t] = Idle
  BY DEF Init
<1>2. Replaced /\ EndsInPast /\ MarksATile /\ EndedSoFar
  BY <1>1 DEF Replaced, EndsInPast, MarksATile, EndedSoFar, Idle, Begin
<1>3. RetiredEnded
  BY DEF Init, RetiredEnded
<1>4. QED
  BY <1>2, <1>3, InitIndexed DEF EndIndexed, EndInv

LEMMA AlwaysEndIndexed == Spec => []EndIndexed
<1>1. EndIndexed /\ [Next]_vars => EndIndexed'
  BY NextEndIndexed
<1>2. QED
  BY InitEndIndexed, <1>1, PTL DEF Spec

(* An edit never leaves a lane without a control: whenever it is about to end   *)
(* the original in a tile, in every tile its replacement is there and starts at *)
(* the time being written, for any number of concurrent requests and failures.  *)
THEOREM SuccessorCorrect == Spec => []SuccessorFirst
<1>1. ASSUME EndIndexed PROVE SuccessorFirst
  <2> SUFFICES ASSUME NEW t \in Threads, th[t].pc = "mark", th[t].op = "edit",
                      NEW tile \in FileTiles(th[t].orig) \cap CrossedTiles(th[t].orig)
               PROVE  \E k \in 1..Len(ndx[tile]) :
                        ndx[tile][k].id = th[t].id /\ ndx[tile][k].start = th[t].ts
    BY DEF SuccessorFirst
  <2>1. PICK x \in Tiles : IsNext(x, th[t].todo)
    BY <1>1 DEF EndIndexed, EndInv, MarksATile
  <2>2. IsFirst(x, th[t].orig, th[t].pos)
    BY <1>1, <2>1 DEF EndIndexed, Indexed, IndexInv, FoundStays
  <2>3. th[t].orig \in Drawable
    BY <1>1, <2>2 DEF IsFirst, EndIndexed, Indexed, IndexInv, IndexedDrawable
  <2>4. th[t].id \in Drawable
    BY <1>1, <2>3, ThreadShape DEF EndIndexed, Indexed, Stored, Shaped, Succeeds
  <2>5. Unindexed(t) = {}
    BY DEF Unindexed
  <2>6. QED
    BY <1>1, <2>4, <2>5 DEF EndIndexed, EndInv, Replaced
<1>2. QED
  BY AlwaysEndIndexed, <1>1, PTL

LEMMA RetiredPast ==
  ASSUME EndIndexed, NEW id \in retired, NEW tile \in FileTiles(id)
  PROVE  /\ tile \in Tiles /\ Holds(tile, id)
         /\ \A k \in 1..Len(ndx[tile]) : ndx[tile][k].id = id =>
              ndx[tile][k].end \in Int /\ Past(ndx[tile][k].end)
<1>1. Typed /\ id \in Ids /\ EndedIn(tile, id)
  BY DEF EndIndexed, EndInv, RetiredEnded, Indexed, Stored, Typed, TypeOK
<1>2. tile \in Tiles
  BY <1>1, TileSets
<1>3. \A k \in 1..Len(ndx[tile]) : ndx[tile][k] \in IndexRecord
  BY <1>1, <1>2, RecordIds
<1>4. QED
  BY <1>1, <1>2, <1>3 DEF EndedIn, IndexRecord

(* A deletion that was answered without an error has ended the control in every *)
(* tile its file leads to, whatever other handlers did meanwhile.               *)
THEOREM RetiredCorrect == Spec => []RetiredIsEnded
<1>1. ASSUME EndIndexed PROVE RetiredIsEnded
  <2>1. Typed
    BY <1>1 DEF EndIndexed, Indexed, Stored
  <2>2. QED
    BY <1>1, <2>1, RetiredPast, PastIsNotForever DEF RetiredIsEnded
<1>2. QED
  BY AlwaysEndIndexed, <1>1, PTL

(* As long as the simulated clock is not behind the real one, a control deleted *)
(* successfully is never sent to vehicles again.                                *)
THEOREM NotInForceCorrect ==
  ASSUME SimSkew >= 0
  PROVE  Spec => []RetiredNotInForce
<1>1. ASSUME EndIndexed PROVE RetiredNotInForce
  <2>1. clock \in Int /\ SimSkew \in Int
    BY <1>1, StoreAssumption DEF EndIndexed, Indexed, Stored, Typed, TypeOK
  <2>2. \A time \in Int : Past(time) => ~(time > SourceTime)
    BY <2>1 DEF Past, SourceTime
  <2>3. QED
    BY <1>1, <2>2, RetiredPast DEF RetiredNotInForce, RetiredRecords, InForce
<1>2. QED
  BY AlwaysEndIndexed, <1>1, PTL

(* The end of a record changes only while a handler is ending that control.     *)
THEOREM EndsCorrect == Spec => OnlyTargetEnds
<1> DEFINE Step == \A tile \in Tiles : \A k \in 1..Len(ndx[tile]) :
       ndx'[tile][k].end # ndx[tile][k].end =>
         \E t \in Threads : th[t].pc = "mark" /\ th[t].orig = ndx[tile][k].id
<1>1. EndIndexed /\ [Next]_vars => [Step]_vars
  BY EndChanges DEF EndIndexed
<1>2. QED
  BY AlwaysEndIndexed, <1>1, PTL DEF Spec, OnlyTargetEnds

-----------------------------------------------------------------------------
(* The store implements the ledger: whatever handlers run at once, fail or are  *)
(* cut short, a control is stored, enters a tile, leaves it, and never returns. *)

StoredIds == {id \in Ids : bin[id] # "absent"}

Stages == {"none", "live", "ended"}

LEMMA LifeType == Life \in [Ids -> [Tiles -> Stages]]
BY DEF Life, Stages

LEMMA LifeTypeNext == Life' \in [Ids -> [Tiles -> Stages]]
BY DEF Life, Stages

(* A table that changes in one place.                                           *)
LEMMA OnePlace ==
  ASSUME NEW id \in Ids, NEW tile \in Tiles, NEW to, Life'[id][tile] = to,
         \A i \in Ids, x \in Tiles : i # id \/ x # tile => Life'[i][x] = Life[i][x]
  PROVE  Life' = [Life EXCEPT ![id] = [@ EXCEPT ![tile] = to]]
<1>1. Life'[id] = [Life[id] EXCEPT ![tile] = to]
  BY LifeType, LifeTypeNext
<1>2. ASSUME NEW i \in Ids, i # id PROVE Life'[i] = Life[i]
  <2>1. \A x \in Tiles : Life'[i][x] = Life[i][x]
    BY <1>2
  <2>2. QED
    BY <2>1, LifeType, LifeTypeNext
<1>3. QED
  BY <1>1, <1>2, LifeType, LifeTypeNext

LEMMA NoPlace ==
  ASSUME \A i \in Ids, x \in Tiles : Life'[i][x] = Life[i][x]
  PROVE  Life' = Life
<1>1. ASSUME NEW i \in Ids PROVE Life'[i] = Life[i]
  BY LifeType, LifeTypeNext
<1>2. QED
  BY <1>1, LifeType, LifeTypeNext

(* The life of a control in a tile depends on its records there alone.          *)
LEMMA LifeSame ==
  ASSUME NEW id \in Ids, NEW tile \in Tiles, Len(ndx'[tile]) = Len(ndx[tile]),
         \A k \in 1..Len(ndx[tile]) :
           /\ ndx'[tile][k].id = ndx[tile][k].id
           /\ ndx[tile][k].id = id => ndx'[tile][k].end = ndx[tile][k].end
  PROVE  Life'[id][tile] = Life[id][tile]
<1> DEFINE Live == \E k \in 1..Len(ndx[tile]) : ndx[tile][k].id = id /\ ndx[tile][k].end = Forever
<1>1. Holds(tile, id)' <=> Holds(tile, id)
  BY DEF Holds
<1>2. Live' <=> Live
  OBVIOUS
<1>3. Life[id][tile] = IF ~Holds(tile, id) THEN "none" ELSE IF Live THEN "live" ELSE "ended"
  BY DEF Life
<1>4. Life'[id][tile] = IF ~Holds(tile, id)' THEN "none" ELSE IF Live' THEN "live" ELSE "ended"
  BY DEF Life
<1>5. QED
  BY <1>1, <1>2, <1>3, <1>4

-----------------------------------------------------------------------------
(* Steps that leave the indexes alone.                                          *)
LEMMA FilesStep ==
  ASSUME EndIndexed, [Next]_vars, ndx' = ndx
  PROVE  [Ledger!LedgerNext]_(Ledger!LedgerVars)
<1>0. Stored /\ Life' = Life
  BY DEF EndIndexed, Indexed, Life, Holds
<1>1. CASE ~\E t \in Threads : OpenBin(t) \/ CloseBin(t)
  <2>1. bin' = bin
    BY <1>1, FilesChange
  <2>2. QED
    BY <1>0, <2>1 DEF Ledger!LedgerVars
<1>2. ASSUME NEW t \in Threads, OpenBin(t) \/ CloseBin(t), NEW id, id = th[t].id
      PROVE  Ledger!LedgerNext
  <2>1. id \in Ids
    BY <1>0, <1>2, OnlyMakers DEF OpenBin, CloseBin
  <2>2. bin'[id] # "absent" /\ \A other \in Ids \ {id} : bin'[other] = bin[other]
    BY <1>0, <1>2, OpenBinFiles, CloseBinFiles
  <2>3. StoredIds' = StoredIds \cup {id}
    BY <2>1, <2>2 DEF StoredIds
  <2>4. Ledger!Store(id)
    BY <1>0, <2>3 DEF Ledger!Store, StoredIds
  <2>5. QED
    BY <2>1, <2>4 DEF Ledger!LedgerNext
<1>3. QED
  BY <1>1, <1>2

(* Indexing a tile publishes the control there.                                 *)
LEMMA IndexTilePublishes ==
  ASSUME EndIndexed, [Next]_vars, NEW t \in Threads, NEW tile \in Tiles, IndexTile(t, tile),
         NEW id, id = th[t].id
  PROVE  [Ledger!LedgerNext]_(Ledger!LedgerVars)
<1>0. Typed /\ Stored /\ Indexed /\ ndx \in [Tiles -> Seq(IndexRecord)]
  BY DEF EndIndexed, Indexed, Stored, Typed, TypeOK
<1>1. Creates(t) /\ id \in Ids /\ ~Holds(tile, id) /\ th[t].pc = "index"
  BY <1>0, IndexTileFirst DEF IndexTile
<1>2. id \in StoredIds
  BY <1>0, <1>1 DEF StoredIds, Stored, FileInv, FileWritten, Kept
<1>3. StoredIds' = StoredIds
  BY DEF IndexTile, StoredIds
<1>4. CASE tile \notin CrossedTiles(id)
  BY <1>0, <1>4, FilesStep DEF IndexTile
<1>5. CASE tile \in CrossedTiles(id)
  <2>1. ndx'[tile] = Append(ndx[tile], NewRecord(t))
        /\ \A x \in Tiles \ {tile} : ndx'[x] = ndx[x]
    BY <1>0, <1>5 DEF IndexTile, NewRecord
  <2>2. NewRecord(t).id = id /\ NewRecord(t).end = Forever
    BY DEF NewRecord
  <2>3. /\ Len(ndx'[tile]) = Len(ndx[tile]) + 1 /\ Len(ndx[tile]) \in Nat
        /\ ndx'[tile][Len(ndx[tile]) + 1] = NewRecord(t)
        /\ \A k \in 1..Len(ndx[tile]) : ndx'[tile][k] = ndx[tile][k]
    BY <1>0, <2>1, Appended
  <2>4. Life[id][tile] = "none" /\ Life'[id][tile] = "live"
    <3>1. Life[id][tile] = "none"
      BY <1>1 DEF Life
    <3>2. \E k \in 1..Len(ndx'[tile]) : ndx'[tile][k].id = id /\ ndx'[tile][k].end = Forever
      <4>1. Len(ndx[tile]) + 1 \in 1..Len(ndx'[tile])
        BY <2>3
      <4>2. QED
        BY <2>2, <2>3, <4>1
    <3>3. Holds(tile, id)'
      BY <3>2 DEF Holds
    <3>4. QED
      BY <1>1, <3>1, <3>2, <3>3 DEF Life
  <2>5. ASSUME NEW i \in Ids, NEW x \in Tiles, i # id \/ x # tile
        PROVE  Life'[i][x] = Life[i][x]
    <3>1. CASE x # tile
      BY <2>1, <3>1, LifeSame
    <3>2. CASE x = tile /\ i # id
      <4>1. \A k \in 1..Len(ndx'[tile]) : k \in 1..Len(ndx[tile]) \/ ndx'[tile][k].id # i
        BY <2>2, <2>3, <3>2
      <4>2. 1..Len(ndx[tile]) \subseteq 1..Len(ndx'[tile])
        BY <2>3
      <4>3. Holds(tile, i)' <=> Holds(tile, i)
        BY <2>3, <4>1, <4>2 DEF Holds
      <4>4. (\E k \in 1..Len(ndx'[tile]) : ndx'[tile][k].id = i /\ ndx'[tile][k].end = Forever)
            <=> \E k \in 1..Len(ndx[tile]) : ndx[tile][k].id = i /\ ndx[tile][k].end = Forever
        BY <2>3, <4>1, <4>2
      <4>5. QED
        BY <3>2, <4>3, <4>4 DEF Life
    <3>3. QED
      BY <2>5, <3>1, <3>2
  <2>6. Life' = [Life EXCEPT ![id] = [@ EXCEPT ![tile] = "live"]]
    BY <1>1, <2>4, <2>5, OnePlace
  <2>7. Ledger!Publish(id, tile)
    BY <1>2, <1>3, <2>4, <2>6 DEF Ledger!Publish, Ledger!Advance, StoredIds
  <2>8. QED
    BY <1>1, <2>7 DEF Ledger!LedgerNext
<1>6. QED
  BY <1>4, <1>5

(* Writing an end time ends the control there, or leaves it ended.              *)
LEMMA MarkEndAdvances ==
  ASSUME EndIndexed, [Next]_vars, NEW t \in Threads, NEW tile \in Tiles, MarkEnd(t, tile),
         NEW id, id = th[t].orig
  PROVE  [Ledger!LedgerNext]_(Ledger!LedgerVars)
<1>0. Typed /\ Stored /\ Indexed /\ EndsInPast
  BY DEF EndIndexed, EndInv, Indexed, Stored
<1>1. /\ th[t].pc = "mark" /\ id \in Ids /\ th[t].ts \in Int
      /\ Holds(tile, id)
      /\ Len(ndx'[tile]) = Len(ndx[tile])
      /\ \A k \in 1..Len(ndx[tile]) :
           /\ ndx'[tile][k].id = ndx[tile][k].id
           /\ ndx'[tile][k].end = IF ndx[tile][k].id = id THEN th[t].ts ELSE ndx[tile][k].end
      /\ \A other \in Tiles \ {tile} : ndx'[other] = ndx[other]
  BY <1>0, MarkEndEnds
<1>2. id \in StoredIds
  BY <1>0, <1>1 DEF StoredIds, Stored, FileInv, IndexedIsStored, Holds
<1>3. StoredIds' = StoredIds
  BY DEF MarkEnd, StoredIds
<1>4. th[t].ts # Forever
  BY <1>0, <1>1, PastIsNotForever DEF EndsInPast
<1>5. Life'[id][tile] = "ended" /\ Life[id][tile] \in {"live", "ended"}
  BY <1>1, <1>4 DEF Life, Holds
<1>6. ASSUME NEW i \in Ids, NEW x \in Tiles, i # id \/ x # tile
      PROVE  Life'[i][x] = Life[i][x]
  BY <1>1, <1>6, LifeSame
<1>7. CASE Life[id][tile] = "live"
  <2>1. Life' = [Life EXCEPT ![id] = [@ EXCEPT ![tile] = "ended"]]
    BY <1>1, <1>5, <1>6, OnePlace
  <2>2. Ledger!End(id, tile)
    BY <1>2, <1>3, <1>7, <2>1 DEF Ledger!End, Ledger!Advance, StoredIds
  <2>3. QED
    BY <1>1, <2>2 DEF Ledger!LedgerNext
<1>8. CASE Life[id][tile] = "ended"
  <2>1. Life' = Life
    BY <1>5, <1>6, <1>8, NoPlace
  <2>2. QED
    BY <1>3, <2>1 DEF Ledger!LedgerVars, StoredIds
<1>9. QED
  BY <1>5, <1>7, <1>8

-----------------------------------------------------------------------------
LEMMA LedgerStep ==
  ASSUME EndIndexed, [Next]_vars
  PROVE  [Ledger!LedgerNext]_(Ledger!LedgerVars)
BY IndexSteps, FilesStep, IndexTilePublishes, MarkEndAdvances

LEMMA LedgerStart ==
  ASSUME Init
  PROVE  Ledger!LedgerInit
<1>1. Typed /\ \A tile \in Tiles, id \in Ids :
        IF tile \in LaneTiles(Base) /\ id = Base
        THEN Life[id][tile] = "live" ELSE Life[id][tile] = "none"
  <2>1. ASSUME NEW tile \in Tiles
        PROVE  IF tile \in LaneTiles(Base)
               THEN Len(ndx[tile]) = 1 /\ ndx[tile][1].id = Base /\ ndx[tile][1].end = Forever
               ELSE Len(ndx[tile]) = 0
    BY DEF Init
  <2>2. QED
    BY <2>1, InitTyped DEF Life, Holds
<1>2. bin[Base] = "whole"
  BY StoreAssumption DEF Init
<1>3. QED
  BY <1>1, <1>2, LifeType DEF Ledger!LedgerInit, Ledger!LedgerTypeOK, Stages

(* Every behaviour of the store is one of the ledger: a control is published in *)
(* a tile only after it is stored, at most once, and once ended stays ended.    *)
THEOREM LedgerCorrect == Spec => ImplementsLedger
<1>1. EndIndexed /\ [Next]_vars => [Ledger!LedgerNext]_(Ledger!LedgerVars)
  BY LedgerStep
<1>2. Init => Ledger!LedgerInit
  BY LedgerStart
<1>3. QED
  BY AlwaysEndIndexed, <1>1, <1>2, PTL DEF Spec, ImplementsLedger, Ledger!Spec
=============================================================================
