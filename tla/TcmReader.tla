------------------------------ MODULE TcmReader ------------------------------
(***************************************************************************)
(* The answer to a vehicle's control request (ws/TcmReqServlet), read from *)
(* the files of CtrlStore while its handlers go on changing them.  The     *)
(* thread takes no lock: it reads the index of each tile its bounds cover, *)
(* one after another, then the .bin of each control it has picked.  Request *)
(* threads share nothing among themselves, so one is enough.               *)
(***************************************************************************)
EXTENDS CtrlStore

CONSTANT Requests \* the lists of bounds that vehicles ask for

(* A TcBounds: the tiles of its bounding box, the geometries whose bounding   *)
(* box meets its own, and those with a cross section inside its four corners. *)
TcBounds == [oldest : Int, tiles : SUBSET Tiles, near : SUBSET Geos, inside : SUBSET Geos]

ASSUME ReaderAssumption ==
  \A request \in Requests :
    /\ request \in Seq(TcBounds) /\ request # <<>>
    /\ \A i \in 1..Len(request) : request[i].inside \subseteq request[i].near

VARIABLES
  rd,          \* the request thread
  asked,       \* history: the bounds it was asked for
  wanted,      \* history: per bounds, the controls then in force within them
  retiredThen, \* history: the controls deleted by then
  endedThen,   \* history: the controls by then ended in some tile
  heirs,       \* history: each control, and the controls edits put in its place
  deleting     \* history: controls a handler is deleting, or was since then

readerHist == <<asked, wanted, retiredThen, endedThen>>
readerVars == <<vars, rd, readerHist, heirs, deleting>>

(* An id picked from an index, and where it stood.                            *)
Pick == [at : Nat, id : Ids]

Reader == [pc : {"idle", "tile", "control", "send", "failed"},
           now : Int,                   \* lNow
           bounds : Seq(TcBounds),      \* the current one and those to come
           todo : SUBSET Tiles,         \* its tiles still to visit
           loaded : SUBSET Tiles,       \* oTiles: the indexes already read
           ids : [Tiles -> SUBSET Pick], \* what was picked from each
           pending : SUBSET Pick,       \* picks of the current tile yet to look at
           processed : SUBSET Ids,      \* oProcessed
           answer : Seq(Ids)]           \* oResCtrls

NoRequest == [pc |-> "idle", now |-> 0, bounds |-> <<>>, todo |-> {}, loaded |-> {},
              ids |-> [tile \in Tiles |-> {}], pending |-> {}, processed |-> {},
              answer |-> <<>>]

Records(tile) == {ndx[tile][k] : k \in 1..Len(ndx[tile])}

(* The controls that, for the reader's clock or any later one, are in force.  *)
InForceWithin(b) ==
  {id \in Ids : /\ GeoOf[id] \in b.inside
                /\ \E tile \in b.tiles : \E r \in Records(tile) :
                     r.id = id /\ r.end = Forever /\ b.oldest <= r.start}

Answered == {rd.answer[i] : i \in 1..Len(rd.answer)}

-----------------------------------------------------------------------------
ReaderTypeOK ==
  /\ rd \in Reader /\ (rd.pc = "idle" => rd = NoRequest) /\ asked \in {<<>>} \cup Requests
  /\ retiredThen \subseteq Ids /\ endedThen \subseteq Ids /\ deleting \subseteq Ids
  /\ heirs \in [Ids -> SUBSET Ids]

ReaderInit ==
  /\ Init
  /\ rd = NoRequest /\ asked = <<>> /\ wanted = <<>>
  /\ retiredThen = {} /\ endedThen = {} /\ heirs = [id \in Ids |-> {id}] /\ deleting = {}

NoReader ==
  /\ rd' = NoRequest /\ asked' = <<>> /\ wanted' = <<>>
  /\ retiredThen' = {} /\ endedThen' = {} /\ heirs' = [id \in Ids |-> {id}] /\ deleting' = {}

Replacements(state, ids) ==
  {state[t].id : t \in {u \in Threads : state[u].op = "edit" /\ state[u].orig \in ids}}

(* What the edits in hand put in the place of a control, and of that in turn. *)
InHand(id) ==
  {heir \in Ids : \A ids \in SUBSET Ids :
     id \in ids /\ Replacements(th, ids) \subseteq ids => heir \in ids}

Deletions(state) ==
  {state[t].orig : t \in {u \in Threads : state[u].op \in {"delete", "cleanup"}}}

(* TcmReqParser keeps every bounds of a version 1.0 request, TcmReqParser2,   *)
(* for any other, only the last: each start tag clears the list.              *)
Parsed(request) == {request, <<request[Len(request)]>>}

(* doPost starts a thread for the request, which reads the clock and parses   *)
(* the bounds.                                                                *)
Receive(request) ==
  /\ rd.pc = "idle"
  /\ \E bounds \in Parsed(request) :
       rd' = [NoRequest EXCEPT !.pc = "tile", !.now = SourceTime, !.bounds = bounds,
                               !.todo = bounds[1].tiles]
  /\ asked' = request /\ retiredThen' = retired
  /\ endedThen' = {r.id : r \in {q \in UNION {Records(tile) : tile \in Tiles} : q.end # Forever}}
  /\ wanted' = [i \in 1..Len(request) |-> InForceWithin(request[i])]
  /\ heirs' = [id \in Ids |-> InHand(id)] /\ deleting' = Deletions(th)

(* Mutants: the test of the map; a control that starts this very millisecond  *)
(* is left for later.                                                         *)
PickedOnMap(r, b) ==
  /\ b.oldest <= r.start /\ (r.start >= rd.now \/ r.end > rd.now) /\ GeoOf[r.id] \in b.near
PickedStarted(r, b) ==
  /\ b.oldest <= r.start /\ r.start < rd.now /\ r.end > rd.now /\ GeoOf[r.id] \in b.near

(* The test on an index record.  The two control types it leaves out as well  *)
(* are written by the offline tools only.                                     *)
Picked(r, b) == b.oldest <= r.start /\ r.end > rd.now /\ GeoOf[r.id] \in b.near

Found(tile, b) ==
  {[at |-> k, id |-> ndx[tile][k].id] :
     k \in {i \in 1..Len(ndx[tile]) : Picked(ndx[tile][i], b)}}

(* One tile: an index is read once per request, with the bounds that come     *)
(* across it first.  An end time half written is no smaller than the new one. *)
VisitTile(tile) ==
  LET found == Found(tile, Head(rd.bounds)) IN
  /\ rd.pc = "tile" /\ IsNext(tile, rd.todo)
  /\ rd' = IF ndx[tile] = <<>> THEN [rd EXCEPT !.todo = @ \ {tile}]
           ELSE IF tile \in rd.loaded THEN [rd EXCEPT !.pc = "control", !.pending = rd.ids[tile]]
           ELSE [rd EXCEPT !.pc = "control", !.loaded = @ \cup {tile},
                           !.ids[tile] = found, !.pending = found]

(* Mutant: a control is marked as processed only if it is not answered.       *)
LookAtUnmarked(id) ==
  IF bin[id] = "absent" \/ GeoOf[id] \notin Head(rd.bounds).inside
  THEN [rd EXCEPT !.processed = @ \cup {id}]
  ELSE IF ~Readable(id) THEN [NoRequest EXCEPT !.pc = "failed"]
  ELSE [rd EXCEPT !.answer = Append(@, id)]

(* One control of the tile: each id is looked at once per request, whichever  *)
(* tile or bounds it turns up in.  A .bin that cannot be read to its end      *)
(* throws, and the whole request goes without an answer.                      *)
LookAt(id) ==
  IF id \in rd.processed \/ bin[id] = "absent" THEN [rd EXCEPT !.processed = @ \cup {id}]
  ELSE IF ~Readable(id) THEN [NoRequest EXCEPT !.pc = "failed"]
  ELSE [rd EXCEPT !.processed = @ \cup {id},
                  !.answer = IF GeoOf[id] \in Head(rd.bounds).inside THEN Append(@, id) ELSE @]

(* They are looked at in the order of the index.                              *)
TakeControl ==
  /\ rd.pc = "control"
  /\ \E p \in rd.pending :
       /\ \A q \in rd.pending : p.at <= q.at
       /\ LET seen == LookAt(p.id)
          IN rd' = [seen EXCEPT !.pending = IF seen.pc = "failed" THEN {} ELSE rd.pending \ {p}]

TileDone ==
  /\ rd.pc = "control" /\ rd.pending = {}
  /\ rd' = [rd EXCEPT !.pc = "tile", !.todo = {x \in @ : ~IsNext(x, @)}]

(* Of the request, only the answer is used after the last bounds.             *)
BoundsDone ==
  /\ rd.pc = "tile" /\ rd.todo = {}
  /\ rd' = IF Len(rd.bounds) = 1 THEN [NoRequest EXCEPT !.pc = "send", !.answer = rd.answer]
           ELSE [rd EXCEPT !.bounds = Tail(@), !.todo = rd.bounds[2].tiles]

(* Mutant: the thread is used again with what it had collected.               *)
SentKeepsAll == rd.pc \in {"send", "failed"} /\ rd' = [rd EXCEPT !.pc = "idle"]
                /\ UNCHANGED <<readerHist, heirs, deleting>>

(* The messages go out (TcmParts) and the thread ends; or it ended unanswered. *)
Sent ==
  rd.pc \in {"send", "failed"} /\ NoReader

Read ==
  /\ \/ \E request \in Requests : Receive(request)
     \/ Sent
     \/ /\ \/ \E tile \in Tiles : VisitTile(tile)
           \/ TakeControl \/ TileDone \/ BoundsDone
        /\ UNCHANGED <<readerHist, heirs, deleting>>
  /\ UNCHANGED vars

(* A step of the store; while a request is read, the books are kept of what    *)
(* replaces what.                                                              *)
Write ==
  /\ Tick \/ \E t \in Threads : Arrive(t) \/ Work(t)
  /\ IF rd.pc = "idle" THEN UNCHANGED <<heirs, deleting>>
     ELSE /\ heirs' = [id \in Ids |-> heirs[id] \cup Replacements(th', heirs[id])]
          /\ deleting' = deleting \cup Deletions(th')
  /\ UNCHANGED <<rd, readerHist>>

(* The server goes down with the request.                                      *)
Crash == Restart /\ NoReader

ReaderNext == Read \/ Write \/ Crash

ReaderSpec == ReaderInit /\ [][ReaderNext]_readerVars

-----------------------------------------------------------------------------
(* Properties.                                                                *)

(* A control that lies in several tiles, or several bounds, is answered once. *)
AnsweredOnce ==
  \A i, j \in 1..Len(rd.answer) : rd.answer[i] = rd.answer[j] => i = j

(* A handler ends the control, again if it was ended: an edit or a deletion.  *)
EndedAgain(id) == heirs[id] # {id} \/ id \in deleting

(* What had been deleted when the request came in is not part of the answer,   *)
(* whatever the handlers do while it is put together: unless one of them ends  *)
(* that very control once more, which may move its end beyond the request.     *)
NothingDeleted ==
  rd.pc = "send" => \A id \in retiredThen \cap Answered : EndedAgain(id)

(* The control starts too early for the bounds.                               *)
TooOld(id, b) ==
  \E tile \in Tiles : \E r \in Records(tile) : r.id = id /\ r.start < b.oldest

(* The answer covers the control: it holds it or what an edit put in its      *)
(* place, unless that is being deleted, had been ended already or starts too  *)
(* early.                                                                     *)
Covered(id, b) ==
  \E heir \in heirs[id] :
    heir \in Answered \cup deleting \cup (endedThen \ {id}) \/ TooOld(heir, b)

(* No gap: a control in force when the request came in, inside the bounds, is  *)
(* in the answer, or its replacement is.  The reader looks at each tile at a   *)
(* different moment and takes no lock; it is the order of an edit's writes     *)
(* that keeps the lane covered.                                                *)
NoGap ==
  rd.pc = "send" /\ Len(asked) = 1 => \A id \in wanted[1] : Covered(id, asked[1])

(* "bounds SEQUENCE OF TrafficControlBounds": the same of each bounds asked.   *)
NoGapAnyBounds ==
  rd.pc = "send" => \A i \in 1..Len(asked) : \A id \in wanted[i] : Covered(id, asked[i])

(* A request goes unanswered only if a label edit has rewritten, in place, the *)
(* file of a control in force: no other handler disturbs a reader.             *)
FailsOnRelabelOnly == rd.pc = "failed" => relabelled # {}
=============================================================================
