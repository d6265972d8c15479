---------------------------- MODULE TcmReaderProofs ----------------------------
(***************************************************************************)
(* What is proved of TcmReader, for every set of controls, tiles, threads   *)
(* and requests.  A step of the reader leaves the store alone, so that      *)
(* everything proved of CtrlStore holds while a request is read.            *)
(***************************************************************************)
EXTENDS TcmReader, CtrlStoreProofs

Busy == rd.pc \in {"tile", "control"}

(* What one step does to the request: it comes in, it is gone, the reader goes *)
(* on, or the store does.                                                     *)
ReaderGoesOn ==
  /\ \/ \E tile \in Tiles : VisitTile(tile)
     \/ TakeControl \/ TileDone \/ BoundsDone
  /\ UNCHANGED <<vars, readerHist, heirs, deleting>>

Booked ==
  /\ heirs' = [id \in Ids |-> heirs[id] \cup Replacements(th', heirs[id])]
  /\ deleting' = deleting \cup Deletions(th')

StoreGoesOn ==
  /\ [Next]_vars /\ UNCHANGED <<rd, readerHist>>
  /\ \/ rd.pc # "idle" /\ Booked
     \/ UNCHANGED <<heirs, deleting>> /\ (rd.pc = "idle" \/ UNCHANGED vars)

LEMMA ReaderSteps ==
  ASSUME [ReaderNext]_readerVars
  PROVE  /\ [Next]_vars
         /\ \/ UNCHANGED vars /\ \E request \in Requests : Receive(request)
            \/ NoReader
            \/ ReaderGoesOn
            \/ StoreGoesOn
<1>1. CASE Read
  BY <1>1 DEF Read, Sent, ReaderGoesOn
<1>2. CASE Write
  <2>1. [Next]_vars
    BY <1>2 DEF Write, Next
  <2>2. QED
    BY <1>2, <2>1 DEF Write, StoreGoesOn, Booked
<1>3. CASE Crash
  BY <1>3 DEF Crash, Next
<1>4. CASE UNCHANGED readerVars
  BY <1>4 DEF readerVars, StoreGoesOn
<1>5. QED
  BY <1>1, <1>2, <1>3, <1>4 DEF ReaderNext

-----------------------------------------------------------------------------
(* Types.                                                                     *)
LEMMA NoRequestType == NoRequest \in Reader
BY DEF NoRequest, Reader, Pick

LEMMA RequestBounds ==
  ASSUME NEW request \in Requests, NEW bounds \in Parsed(request)
  PROVE  /\ bounds \in Seq(TcBounds) /\ bounds # <<>> /\ request \in Seq(TcBounds)
         /\ bounds[1] \in TcBounds /\ bounds[1].tiles \in SUBSET Tiles
         /\ Len(request) = 1 => bounds = request
<1>1. request \in Seq(TcBounds) /\ request # <<>>
  BY ReaderAssumption
<1>2. request[Len(request)] \in TcBounds
  BY <1>1
<1>3. bounds \in Seq(TcBounds) /\ bounds # <<>>
  <2>1. \A b \in TcBounds : <<b>> \in Seq(TcBounds) /\ <<b>> # <<>>
    OBVIOUS
  <2>2. bounds = request \/ bounds = <<request[Len(request)]>>
    BY DEF Parsed
  <2>3. QED
    BY <1>1, <1>2, <2>1, <2>2
<1>4. bounds[1] \in TcBounds
  BY <1>3
<1>5. Len(request) = 1 => request = <<request[Len(request)]>>
  BY <1>1
<1>6. QED
  BY <1>1, <1>3, <1>4, <1>5 DEF TcBounds, Parsed

(* The records an index holds, and the picks from it.                         *)
LEMMA RecordsType ==
  ASSUME Typed, NEW tile \in Tiles
  PROVE  Records(tile) \subseteq IndexRecord
BY RecordIds DEF Records

LEMMA FoundType ==
  ASSUME Typed, NEW tile \in Tiles, NEW b
  PROVE  Found(tile, b) \in SUBSET Pick
<1>1. ASSUME NEW k \in 1..Len(ndx[tile]) PROVE k \in Nat /\ ndx[tile][k].id \in Ids
  <2>1. ndx[tile][k] \in IndexRecord /\ k \in Nat
    BY RecordIds
  <2>2. QED
    BY <2>1 DEF IndexRecord
<1>2. QED
  BY <1>1 DEF Found, Pick

(* What is looked at, in a request that is not spoilt by it.                  *)
LEMMA LookAtCases ==
  ASSUME rd \in Reader, NEW id \in Ids
  PROVE  /\ LookAt(id) \in Reader
         /\ \/ /\ LookAt(id) = [NoRequest EXCEPT !.pc = "failed"]
               /\ bin[id] # "absent" /\ ~Readable(id)
            \/ LookAt(id) = [rd EXCEPT !.processed = @ \cup {id}]
               /\ \/ id \in rd.processed \/ bin[id] = "absent"
                  \/ GeoOf[id] \notin Head(rd.bounds).inside
            \/ LookAt(id) = [rd EXCEPT !.processed = @ \cup {id}, !.answer = Append(@, id)]
               /\ id \notin rd.processed /\ GeoOf[id] \in Head(rd.bounds).inside
<1>1. [NoRequest EXCEPT !.pc = "failed"] \in Reader
  BY NoRequestType DEF Reader
<1>2. [rd EXCEPT !.processed = @ \cup {id}] \in Reader
  BY DEF Reader
<1>3. [rd EXCEPT !.processed = @ \cup {id}, !.answer = Append(@, id)] \in Reader
  <2>1. Append(rd.answer, id) \in Seq(Ids) /\ rd.processed \cup {id} \in SUBSET Ids
    BY DEF Reader
  <2>2. QED
    BY <2>1 DEF Reader
<1>4. [rd EXCEPT !.processed = @ \cup {id}, !.answer = @] = [rd EXCEPT !.processed = @ \cup {id}]
  BY DEF Reader
<1>5. QED
  BY <1>1, <1>2, <1>3, <1>4 DEF LookAt

-----------------------------------------------------------------------------
(* The reader's steps, field by field.                                        *)
SameRequest == rd'.now = rd.now /\ rd'.bounds = rd.bounds
SameAnswer == rd'.processed = rd.processed /\ rd'.answer = rd.answer
SamePicks == rd'.loaded = rd.loaded /\ rd'.ids = rd.ids

LEMMA VisitFields ==
  ASSUME Typed, rd \in Reader, NEW tile \in Tiles, VisitTile(tile)
  PROVE  /\ rd' \in Reader /\ rd.pc = "tile" /\ IsNext(tile, rd.todo)
         /\ SameRequest /\ SameAnswer
         /\ \/ /\ ndx[tile] = <<>> /\ rd'.pc = "tile" /\ rd'.todo = rd.todo \ {tile}
               /\ SamePicks /\ rd'.pending = rd.pending
            \/ /\ tile \in rd.loaded /\ rd'.pc = "control" /\ rd'.todo = rd.todo
               /\ SamePicks /\ rd'.pending = rd.ids[tile]
            \/ /\ tile \notin rd.loaded /\ rd'.pc = "control" /\ rd'.todo = rd.todo
               /\ rd'.loaded = rd.loaded \cup {tile}
               /\ rd'.pending = Found(tile, Head(rd.bounds))
               /\ rd'.ids = [rd.ids EXCEPT ![tile] = rd'.pending]
<1> DEFINE found == Found(tile, Head(rd.bounds))
<1>1. found \in SUBSET Pick
  BY FoundType
<1> HIDE DEF found
<1>2. rd.pc = "tile" /\ IsNext(tile, rd.todo)
  BY DEF VisitTile
<1>3. CASE rd' = [rd EXCEPT !.todo = @ \ {tile}] /\ ndx[tile] = <<>>
  BY <1>2, <1>3 DEF Reader, SameRequest, SameAnswer, SamePicks
<1>4. CASE tile \in rd.loaded /\ rd' = [rd EXCEPT !.pc = "control", !.pending = rd.ids[tile]]
  BY <1>2, <1>4 DEF Reader, SameRequest, SameAnswer, SamePicks
<1>5. CASE /\ tile \notin rd.loaded
           /\ rd' = [rd EXCEPT !.pc = "control", !.loaded = @ \cup {tile},
                               !.ids[tile] = found, !.pending = found]
  <2>1. [rd.ids EXCEPT ![tile] = found] \in [Tiles -> SUBSET Pick]
    BY <1>1 DEF Reader
  <2>2. rd'.ids = [rd.ids EXCEPT ![tile] = found] /\ rd'.pending = found
    BY <1>5 DEF Reader
  <2>3. rd' \in Reader
    BY <1>1, <1>5, <2>1, <2>2 DEF Reader
  <2>4. SameRequest /\ SameAnswer /\ rd'.pc = "control" /\ rd'.todo = rd.todo
        /\ rd'.loaded = rd.loaded \cup {tile}
    BY <1>5 DEF Reader, SameRequest, SameAnswer
  <2>5. QED
    BY <1>2, <1>5, <2>2, <2>3, <2>4 DEF found
<1>6. QED
  BY <1>3, <1>4, <1>5 DEF VisitTile, found

LEMMA TakeFields ==
  ASSUME rd \in Reader, TakeControl
  PROVE  \E p \in rd.pending :
           /\ p.id \in Ids /\ rd' \in Reader
           /\ \/ /\ rd' = [NoRequest EXCEPT !.pc = "failed"]
                 /\ bin[p.id] # "absent" /\ ~Readable(p.id)
              \/ /\ rd'.pc = "control" /\ rd'.todo = rd.todo /\ SameRequest /\ SamePicks
                 /\ rd'.pending = rd.pending \ {p}
                 /\ rd'.processed = rd.processed \cup {p.id}
                 /\ \/ /\ rd'.answer = rd.answer
                       /\ \/ p.id \in rd.processed \/ bin[p.id] = "absent"
                          \/ GeoOf[p.id] \notin Head(rd.bounds).inside
                    \/ /\ rd'.answer = Append(rd.answer, p.id) /\ p.id \notin rd.processed
                       /\ GeoOf[p.id] \in Head(rd.bounds).inside
<1>0. rd.pc = "control"
  BY DEF TakeControl
<1>1. PICK p \in rd.pending :
        rd' = [LookAt(p.id) EXCEPT !.pending = IF LookAt(p.id).pc = "failed" THEN {}
                                               ELSE rd.pending \ {p}]
  BY DEF TakeControl
<1>2. p.id \in Ids /\ rd.pending \in SUBSET Pick
  BY DEF Reader, Pick
<1>3. CASE LookAt(p.id) = [NoRequest EXCEPT !.pc = "failed"]
  <2>1. NoRequest \in Reader /\ NoRequest.pending = {}
    BY NoRequestType DEF NoRequest
  <2>2. LookAt(p.id).pc = "failed" /\ LookAt(p.id).pending = {} /\ LookAt(p.id) \in Reader
    BY <1>3, <2>1 DEF Reader
  <2>3. rd' = [LookAt(p.id) EXCEPT !.pending = {}]
    BY <1>1, <2>2
  <2>4. rd' = LookAt(p.id)
    BY <2>2, <2>3 DEF Reader
  <2>5. bin[p.id] # "absent" /\ ~Readable(p.id)
    <3>1. /\ [rd EXCEPT !.processed = @ \cup {p.id}].pc = "control"
          /\ [rd EXCEPT !.processed = @ \cup {p.id}, !.answer = Append(@, p.id)].pc = "control"
      BY <1>0 DEF Reader
    <3>2. QED
      BY <1>2, <2>2, <3>1, LookAtCases
  <2>6. QED
    BY <1>2, <1>3, <2>2, <2>4, <2>5
<1>4. CASE LookAt(p.id) = [rd EXCEPT !.processed = @ \cup {p.id}]
  <2>1. rd' = [rd EXCEPT !.processed = @ \cup {p.id}, !.pending = rd.pending \ {p}]
    BY <1>0, <1>1, <1>4 DEF Reader
  <2>2. rd' \in Reader
    BY <1>2, <2>1 DEF Reader
  <2>3. \/ p.id \in rd.processed \/ bin[p.id] = "absent"
        \/ GeoOf[p.id] \notin Head(rd.bounds).inside
    <3>1. LookAt(p.id).pc = "control"
      BY <1>0, <1>4 DEF Reader
    <3>2. [NoRequest EXCEPT !.pc = "failed"].pc = "failed"
      BY NoRequestType DEF Reader
    <3>3. Append(rd.answer, p.id) # rd.answer /\ LookAt(p.id).answer = rd.answer
      BY <1>2, <1>4 DEF Reader
    <3>4. [rd EXCEPT !.processed = @ \cup {p.id}, !.answer = Append(@, p.id)].answer
          = Append(rd.answer, p.id)
      BY DEF Reader
    <3>5. QED
      BY <1>2, <3>1, <3>2, <3>3, <3>4, LookAtCases
  <2>4. QED
    BY <1>0, <1>2, <2>1, <2>2, <2>3 DEF Reader, SameRequest, SamePicks
<1>5. CASE /\ LookAt(p.id) = [rd EXCEPT !.processed = @ \cup {p.id}, !.answer = Append(@, p.id)]
           /\ p.id \notin rd.processed /\ GeoOf[p.id] \in Head(rd.bounds).inside
  <2>1. rd' = [rd EXCEPT !.processed = @ \cup {p.id}, !.answer = Append(@, p.id),
                        !.pending = rd.pending \ {p}]
    BY <1>0, <1>1, <1>5 DEF Reader
  <2>2. Append(rd.answer, p.id) \in Seq(Ids)
    BY <1>2 DEF Reader
  <2>3. rd' \in Reader
    BY <1>2, <2>1, <2>2 DEF Reader
  <2>4. QED
    BY <1>0, <1>2, <1>5, <2>1, <2>3 DEF Reader, SameRequest, SamePicks
<1>6. QED
  BY <1>2, <1>3, <1>4, <1>5, LookAtCases

LEMMA TileDoneFields ==
  ASSUME rd \in Reader, TileDone
  PROVE  /\ rd' \in Reader /\ rd.pc = "control" /\ rd.pending = {} /\ rd'.pending = {}
         /\ rd'.pc = "tile" /\ rd'.todo = {x \in rd.todo : ~IsNext(x, rd.todo)}
         /\ SameRequest /\ SamePicks /\ SameAnswer
BY DEF TileDone, Reader, SameRequest, SamePicks, SameAnswer

LEMMA MoreToCome ==
  ASSUME NEW S, NEW s \in Seq(S), s # <<>>, Len(s) # 1
  PROVE  Len(s) > 1 /\ s[2] \in S /\ Tail(s) \in Seq(S) /\ Tail(s) # <<>>
<1>0. \A n \in Nat : n # 0 /\ n # 1 => n > 1 /\ 2 \in 1..n /\ n - 1 # 0
  OBVIOUS
<1>1. Len(s) \in Nat /\ Len(s) # 0
  OBVIOUS
<1>2. Len(s) > 1 /\ 2 \in 1..Len(s) /\ Len(s) - 1 # 0
  BY <1>0, <1>1
<1>3. Tail(s) \in Seq(S) /\ Len(Tail(s)) = Len(s) - 1
  BY <1>1
<1>4. Tail(s) # <<>>
  BY <1>2, <1>3
<1>5. QED
  BY <1>2, <1>3, <1>4

LEMMA BoundsDoneFields ==
  ASSUME rd \in Reader, rd.bounds # <<>>, BoundsDone
  PROVE  /\ rd' \in Reader /\ rd.pc = "tile" /\ rd.todo = {}
         /\ \/ /\ Len(rd.bounds) = 1 /\ rd'.pc = "send" /\ rd'.answer = rd.answer
               /\ rd' = [NoRequest EXCEPT !.pc = "send", !.answer = rd.answer]
            \/ /\ Len(rd.bounds) > 1 /\ rd'.pc = "tile" /\ rd'.bounds = Tail(rd.bounds)
               /\ rd'.bounds # <<>> /\ rd'.now = rd.now /\ rd'.pending = rd.pending
               /\ SamePicks /\ SameAnswer
<1>1. rd.pc = "tile" /\ rd.todo = {} /\ rd.bounds \in Seq(TcBounds)
  BY DEF BoundsDone, Reader
<1>2. CASE Len(rd.bounds) = 1
  <2>1. rd' = [NoRequest EXCEPT !.pc = "send", !.answer = rd.answer]
    BY <1>2 DEF BoundsDone
  <2>2. QED
    BY <1>1, <1>2, <2>1, NoRequestType DEF Reader
<1>3. CASE Len(rd.bounds) # 1
  <2>1. rd' = [rd EXCEPT !.bounds = Tail(@), !.todo = rd.bounds[2].tiles]
    BY <1>3 DEF BoundsDone
  <2>2. rd.bounds[2] \in TcBounds /\ Tail(rd.bounds) \in Seq(TcBounds) /\ Tail(rd.bounds) # <<>>
    BY <1>1, <1>3, MoreToCome
  <2>3. rd.bounds[2].tiles \in SUBSET Tiles
    BY <2>2 DEF TcBounds
  <2>4. rd' \in Reader
    BY <2>1, <2>2, <2>3 DEF Reader
  <2>5. Len(rd.bounds) > 1 /\ rd'.pc = "tile"
    BY <1>1, <1>3, <2>1, MoreToCome DEF Reader
  <2>6. rd'.bounds = Tail(rd.bounds) /\ rd'.now = rd.now /\ rd'.pending = rd.pending
        /\ SamePicks /\ SameAnswer
    BY <2>1 DEF Reader, SamePicks, SameAnswer
  <2>7. QED
    BY <1>1, <2>2, <2>4, <2>5, <2>6
<1>4. QED
  BY <1>2, <1>3

-----------------------------------------------------------------------------
(* The first layer of the inductive invariant: what the reader holds on to.   *)
PicksKept ==
  /\ \A p \in rd.pending : Kept(p.id)
  /\ \A tile \in Tiles : \A p \in rd.ids[tile] : Kept(p.id)

ReadShape ==
  /\ rd.pc # "control" => rd.pending = {}
  /\ Busy => rd.bounds # <<>> /\ Answered \subseteq rd.processed
  /\ rd.pc = "control" => \E tile \in Tiles : IsNext(tile, rd.todo)

ReadInv ==
  EndIndexed /\ ReaderTypeOK /\ PicksKept /\ ReadShape /\ AnsweredOnce /\ FailsOnRelabelOnly

LEMMA HandsType ==
  ASSUME Typed
  PROVE  /\ \A ids : Replacements(th, ids) \subseteq Ids
         /\ Deletions(th) \subseteq Ids
<1>1. \A t \in Threads : th[t].op = "edit" => th[t].id \in Ids
  BY ThreadShape DEF Shaped
<1>2. ASSUME NEW t \in Threads, th[t].op \in {"delete", "cleanup"} PROVE th[t].orig \in Ids
  <2>1. th[t].pc # "idle"
    BY <1>2, ThreadShape DEF Shaped, Idle, Begin
  <2>2. QED
    BY <1>2, <2>1, ThreadShape DEF Shaped, Request
<1>3. QED
  BY <1>1, <1>2 DEF Replacements, Deletions

LEMMA AppendedOnce ==
  ASSUME NEW S, NEW s \in Seq(S), NEW e \in S,
         \A i, j \in 1..Len(s) : s[i] = s[j] => i = j,
         \A i \in 1..Len(s) : s[i] # e
  PROVE  \A i, j \in 1..Len(Append(s, e)) : Append(s, e)[i] = Append(s, e)[j] => i = j
<1> DEFINE longer == Append(s, e)
<1>1. /\ Len(s) \in Nat /\ longer[Len(s) + 1] = e
      /\ \A j \in 1..Len(s) : longer[j] = s[j]
      /\ \A j \in 1..Len(longer) : j \in 1..Len(s) \/ j = Len(s) + 1
  BY Appended
<1>2. QED
  BY <1>1

(* The request comes in.                                                      *)
LEMMA ReceiveFields ==
  ASSUME Typed, ReaderTypeOK, NEW request \in Requests, Receive(request)
  PROVE  /\ rd' \in Reader /\ rd'.pc = "tile" /\ rd'.now = SourceTime /\ rd.pc = "idle"
         /\ rd'.bounds \in Parsed(request) /\ rd'.bounds # <<>> /\ rd'.todo = rd'.bounds[1].tiles
         /\ rd'.loaded = {} /\ rd'.pending = {} /\ rd'.processed = {} /\ rd'.answer = <<>>
         /\ rd'.ids = [tile \in Tiles |-> {}]
         /\ endedThen' \subseteq Ids
<1>1. PICK bounds \in Parsed(request) :
        rd' = [NoRequest EXCEPT !.pc = "tile", !.now = SourceTime, !.bounds = bounds,
                                !.todo = bounds[1].tiles]
  BY DEF Receive
<1>2. bounds \in Seq(TcBounds) /\ bounds # <<>> /\ bounds[1].tiles \in SUBSET Tiles
  BY RequestBounds
<1>3. rd' \in Reader
  <2>1. SourceTime \in Int
    BY ClockType DEF Typed
  <2>2. QED
    BY <1>1, <1>2, <2>1, NoRequestType DEF Reader
<1>4. endedThen' \subseteq Ids
  <2>1. \A r \in UNION {Records(tile) : tile \in Tiles} : r.id \in Ids
    BY RecordsType DEF IndexRecord
  <2>2. QED
    BY <2>1 DEF Receive
<1>5. QED
  BY <1>1, <1>2, <1>3, <1>4 DEF NoRequest, Receive

LEMMA ReceiveRead ==
  ASSUME ReadInv, EndIndexed', UNCHANGED vars, NEW request \in Requests, Receive(request)
  PROVE  ReadInv'
<1>0. Typed
  BY DEF ReadInv, EndIndexed, Indexed, Stored
<1>1. ReaderTypeOK'
  <2>1. rd' \in Reader /\ rd'.pc # "idle" /\ endedThen' \subseteq Ids
    BY <1>0, ReceiveFields DEF ReadInv
  <2>2. retired \subseteq Ids /\ deleting' \subseteq Ids
    BY <1>0, HandsType DEF Typed, TypeOK, Receive
  <2>3. heirs' \in [Ids -> SUBSET Ids]
    BY DEF Receive, InHand
  <2>4. QED
    BY <2>1, <2>2, <2>3 DEF ReaderTypeOK, Receive
<1>2. PicksKept' /\ ReadShape' /\ AnsweredOnce' /\ FailsOnRelabelOnly'
  BY <1>0, ReceiveFields
     DEF ReadInv, PicksKept, ReadShape, AnsweredOnce, FailsOnRelabelOnly, Busy, Answered
<1>3. QED
  BY <1>1, <1>2 DEF ReadInv

LEMMA NoReaderRead ==
  ASSUME ReadInv, EndIndexed', NoReader
  PROVE  ReadInv'
<1>1. ReaderTypeOK'
  BY NoRequestType DEF NoReader, ReaderTypeOK
<1>2. PicksKept' /\ ReadShape' /\ AnsweredOnce' /\ FailsOnRelabelOnly'
  BY DEF NoReader, NoRequest, PicksKept, ReadShape, AnsweredOnce, FailsOnRelabelOnly, Busy,
         Answered
<1>3. QED
  BY <1>1, <1>2 DEF ReadInv

LEMMA StoreRead ==
  ASSUME ReadInv, EndIndexed', StoreGoesOn
  PROVE  ReadInv'
<1>0. Stored /\ Typed' /\ [Next]_vars /\ UNCHANGED <<rd, readerHist>>
      /\ rd \in Reader /\ heirs \in [Ids -> SUBSET Ids] /\ deleting \subseteq Ids
  BY DEF ReadInv, EndIndexed, Indexed, Stored, ReaderTypeOK, StoreGoesOn
<1>1. ReaderTypeOK'
  <2>1. heirs' \in [Ids -> SUBSET Ids] /\ deleting' \subseteq Ids
    <3>1. (\A ids : Replacements(th', ids) \subseteq Ids) /\ Deletions(th') \subseteq Ids
      <4>1. \A t \in Threads : th'[t].op = "edit" => th'[t].id \in Ids
        BY <1>0, ThreadShape DEF Typed, Shape, Handler, Shaped
      <4>2. ASSUME NEW t \in Threads, th'[t].op \in {"delete", "cleanup"}
            PROVE  th'[t].orig \in Ids
        <5>1. th'[t] \in Request /\ Shaped(th'[t])
          BY <1>0 DEF Typed, Shape, Handler
        <5>2. th'[t].pc # "idle"
          BY <4>2, <5>1 DEF Shaped, Idle, Begin
        <5>3. QED
          BY <4>2, <5>1, <5>2 DEF Shaped, Request
      <4>3. QED
        BY <4>1, <4>2 DEF Replacements, Deletions
    <3>2. QED
      BY <1>0, <3>1 DEF StoreGoesOn, Booked
  <2>2. QED
    BY <1>0, <2>1 DEF ReadInv, ReaderTypeOK, readerHist
<1>2. PicksKept'
  <2>1. \A p \in Pick : Kept(p.id) => Kept(p.id)'
    BY <1>0, KeptStays DEF Pick
  <2>2. rd.pending \subseteq Pick /\ \A tile \in Tiles : rd.ids[tile] \subseteq Pick
    BY <1>0 DEF Reader
  <2>3. QED
    BY <1>0, <2>1, <2>2 DEF ReadInv, PicksKept
<1>3. ReadShape' /\ AnsweredOnce'
  BY <1>0 DEF ReadInv, ReadShape, AnsweredOnce, Busy, Answered, IsNext
<1>4. FailsOnRelabelOnly'
  <2>1. relabelled \subseteq Ids /\ \A id \in Ids : id \in relabelled => id \in relabelled'
    BY <1>0, KeptStays DEF Stored, Typed, TypeOK
  <2>2. QED
    BY <1>0, <2>1 DEF ReadInv, FailsOnRelabelOnly
<1>5. QED
  BY <1>1, <1>2, <1>3, <1>4 DEF ReadInv

LEMMA GoesOnRead ==
  ASSUME ReadInv, EndIndexed', ReaderGoesOn
  PROVE  ReadInv'
<1>0. /\ Typed /\ Stored /\ rd \in Reader /\ UNCHANGED <<vars, readerHist, heirs, deleting>>
      /\ ReaderTypeOK /\ PicksKept /\ ReadShape /\ AnsweredOnce
  BY DEF ReadInv, EndIndexed, Indexed, Stored, ReaderTypeOK, ReaderGoesOn
<1>1. ASSUME rd' \in Reader, rd'.pc # "idle" PROVE ReaderTypeOK'
  BY <1>0, <1>1 DEF ReaderTypeOK, readerHist
<1>2. UNCHANGED <<bin, relabelled>>
  BY <1>0 DEF vars, histVars
<1>3. ASSUME NEW tile \in Tiles, VisitTile(tile) PROVE ReadInv'
  <2>1. \A b : \A p \in Found(tile, b) : Kept(p.id)
    BY <1>0 DEF Stored, FileInv, IndexedIsStored, Found, Kept
  <2>2. PicksKept'
    <3>1. \A p \in rd'.pending : Kept(p.id)
      <4>1. \/ rd'.pending = rd.pending \/ rd'.pending = rd.ids[tile]
            \/ rd'.pending = Found(tile, Head(rd.bounds))
        BY <1>0, <1>3, VisitFields
      <4>2. QED
        BY <1>0, <2>1, <4>1 DEF PicksKept
    <3>2. rd.ids \in [Tiles -> SUBSET Pick]
      BY <1>0 DEF Reader
    <3>3. \A x \in Tiles : \A p \in rd'.ids[x] : Kept(p.id)
      BY <1>0, <1>3, <3>1, <3>2, VisitFields DEF PicksKept, SamePicks
    <3>4. QED
      BY <1>2, <3>1, <3>3 DEF PicksKept, Kept
  <2>3. ReadShape' /\ AnsweredOnce' /\ FailsOnRelabelOnly' /\ rd' \in Reader /\ rd'.pc # "idle"
    <3>1. rd' \in Reader /\ rd'.pc \in {"tile", "control"} /\ Busy
      BY <1>0, <1>3, VisitFields DEF Busy
    <3>2. AnsweredOnce' /\ FailsOnRelabelOnly'
      BY <1>0, <1>3, <3>1, VisitFields DEF AnsweredOnce, FailsOnRelabelOnly, SameAnswer
    <3>3. ReadShape'
      <4>1. rd'.pc # "control" => rd'.pending = {}
        BY <1>0, <1>3, VisitFields DEF ReadShape
      <4>2. Answered' = Answered /\ rd'.processed = rd.processed /\ rd'.bounds = rd.bounds
        <5>1. rd'.answer = rd.answer /\ rd'.processed = rd.processed /\ rd'.bounds = rd.bounds
          BY <1>0, <1>3, VisitFields DEF SameAnswer, SameRequest
        <5>2. QED
          BY <5>1 DEF Answered
      <4>3. rd'.pc = "control" => rd'.todo = rd.todo /\ IsNext(tile, rd.todo)
        BY <1>0, <1>3, VisitFields
      <4>4. rd'.pc = "control" => \E x \in Tiles : IsNext(x, rd'.todo)
        BY <4>3
      <4>5. rd'.bounds # <<>> /\ Answered' \subseteq rd'.processed
        BY <1>0, <3>1, <4>2 DEF ReadShape
      <4>6. QED
        BY <4>1, <4>4, <4>5 DEF ReadShape, IsNext
    <3>4. QED
      BY <3>1, <3>2, <3>3
  <2>4. QED
    BY <1>1, <2>2, <2>3 DEF ReadInv
<1>4. ASSUME TakeControl PROVE ReadInv'
  <2>0. rd.pc = "control" /\ Busy
    BY <1>4 DEF TakeControl, Busy
  <2>1. PICK p \in rd.pending :
          /\ p.id \in Ids /\ rd' \in Reader
          /\ \/ /\ rd' = [NoRequest EXCEPT !.pc = "failed"]
                /\ bin[p.id] # "absent" /\ ~Readable(p.id)
             \/ /\ rd'.pc = "control" /\ rd'.todo = rd.todo /\ SameRequest /\ SamePicks
                /\ rd'.pending = rd.pending \ {p}
                /\ rd'.processed = rd.processed \cup {p.id}
                /\ \/ rd'.answer = rd.answer
                   \/ rd'.answer = Append(rd.answer, p.id) /\ p.id \notin rd.processed
    BY <1>0, <1>4, TakeFields
  <2>2. CASE rd' = [NoRequest EXCEPT !.pc = "failed"] /\ bin[p.id] # "absent" /\ ~Readable(p.id)
    <3>1. rd'.pc = "failed" /\ rd'.pending = {} /\ rd'.ids = [tile \in Tiles |-> {}]
          /\ rd'.answer = <<>>
      BY <2>2 DEF NoRequest
    <3>2. p.id \in relabelled
      BY <1>0, <2>1, <2>2 DEF PicksKept, Kept, Readable
    <3>3. PicksKept' /\ ReadShape' /\ AnsweredOnce' /\ FailsOnRelabelOnly'
      BY <1>2, <3>1, <3>2
         DEF PicksKept, ReadShape, AnsweredOnce, FailsOnRelabelOnly, Busy, Answered
    <3>4. QED
      BY <1>1, <2>1, <3>1, <3>3 DEF ReadInv
  <2>3. CASE /\ rd'.pc = "control" /\ rd'.todo = rd.todo /\ SameRequest /\ SamePicks
             /\ rd'.pending = rd.pending \ {p}
             /\ rd'.processed = rd.processed \cup {p.id}
             /\ \/ rd'.answer = rd.answer
                \/ rd'.answer = Append(rd.answer, p.id) /\ p.id \notin rd.processed
    <3>1. PicksKept' /\ FailsOnRelabelOnly'
      BY <1>0, <1>2, <2>3 DEF PicksKept, Kept, SamePicks, FailsOnRelabelOnly
    <3>2. AnsweredOnce' /\ Answered' \subseteq rd'.processed
      <4>1. CASE rd'.answer = rd.answer
        BY <1>0, <2>0, <2>3, <4>1 DEF AnsweredOnce, Answered, ReadShape
      <4>2. CASE rd'.answer = Append(rd.answer, p.id) /\ p.id \notin rd.processed
        <5>1. rd.answer \in Seq(Ids) /\ \A i \in 1..Len(rd.answer) : rd.answer[i] \in rd.processed
          BY <1>0, <2>0 DEF Reader, ReadShape, Answered
        <5>2. AnsweredOnce'
          BY <1>0, <2>1, <4>2, <5>1, AppendedOnce DEF AnsweredOnce
        <5>3. Answered' = Answered \cup {p.id}
          BY <2>1, <4>2, <5>1, Appended DEF Answered
        <5>4. QED
          BY <1>0, <2>0, <2>3, <5>2, <5>3 DEF ReadShape
      <4>3. QED
        BY <2>3, <4>1, <4>2
    <3>3. ReadShape'
      BY <1>0, <2>0, <2>3, <3>2 DEF ReadShape, SameRequest, Busy
    <3>4. QED
      BY <1>1, <2>1, <2>3, <3>1, <3>2, <3>3 DEF ReadInv
  <2>4. QED
    BY <2>1, <2>2, <2>3
<1>5. ASSUME TileDone PROVE ReadInv'
  <2>1. PicksKept' /\ ReadShape' /\ AnsweredOnce' /\ FailsOnRelabelOnly'
        /\ rd' \in Reader /\ rd'.pc # "idle"
    BY <1>0, <1>2, <1>5, TileDoneFields
       DEF PicksKept, Kept, SamePicks, SameAnswer, SameRequest, ReadShape, AnsweredOnce,
           FailsOnRelabelOnly, Busy, Answered
  <2>2. QED
    BY <1>1, <2>1 DEF ReadInv
<1>6. ASSUME BoundsDone PROVE ReadInv'
  <2>0. rd.pc = "tile" /\ Busy /\ rd.bounds # <<>>
    BY <1>0, <1>6 DEF BoundsDone, Busy, ReadShape
  <2>1. CASE rd' = [NoRequest EXCEPT !.pc = "send", !.answer = rd.answer]
    <3>1. rd'.pc = "send" /\ rd'.pending = {} /\ rd'.ids = [tile \in Tiles |-> {}]
          /\ rd'.answer = rd.answer
      BY <2>1 DEF NoRequest
    <3>2. PicksKept' /\ ReadShape' /\ AnsweredOnce' /\ FailsOnRelabelOnly'
      BY <1>0, <3>1 DEF PicksKept, ReadShape, AnsweredOnce, FailsOnRelabelOnly, Busy
    <3>3. QED
      BY <1>0, <1>1, <1>6, <2>0, <3>1, <3>2, BoundsDoneFields DEF ReadInv
  <2>2. CASE /\ rd'.pc = "tile" /\ rd'.bounds # <<>> /\ rd'.pending = rd.pending
             /\ SamePicks /\ SameAnswer
    <3>1. PicksKept' /\ ReadShape' /\ AnsweredOnce' /\ FailsOnRelabelOnly'
      BY <1>0, <1>2, <2>0, <2>2
         DEF PicksKept, Kept, SamePicks, SameAnswer, ReadShape, AnsweredOnce,
             FailsOnRelabelOnly, Busy, Answered
    <3>2. QED
      BY <1>0, <1>1, <1>6, <2>0, <2>2, <3>1, BoundsDoneFields DEF ReadInv
  <2>3. QED
    BY <1>0, <1>6, <2>0, <2>1, <2>2, BoundsDoneFields
<1>7. QED
  BY <1>3, <1>4, <1>5, <1>6 DEF ReaderGoesOn

LEMMA NextReadInv ==
  ASSUME ReadInv, [ReaderNext]_readerVars
  PROVE  ReadInv'
<1>1. [Next]_vars
  BY ReaderSteps
<1>2. EndIndexed'
  BY <1>1, NextEndIndexed DEF ReadInv
<1>3. QED
  BY <1>2, ReaderSteps, ReceiveRead, NoReaderRead, GoesOnRead, StoreRead

LEMMA InitReadInv == ReaderInit => ReadInv
<1> SUFFICES ASSUME ReaderInit PROVE ReadInv
  OBVIOUS
<1>1. EndIndexed
  BY InitEndIndexed DEF ReaderInit
<1>2. ReaderTypeOK
  BY NoRequestType DEF ReaderInit, ReaderTypeOK
<1>3. PicksKept /\ ReadShape /\ AnsweredOnce /\ FailsOnRelabelOnly
  BY DEF ReaderInit, NoRequest, PicksKept, ReadShape, AnsweredOnce, FailsOnRelabelOnly, Busy
<1>4. QED
  BY <1>1, <1>2, <1>3 DEF ReadInv

LEMMA AlwaysReadInv == ReaderSpec => []ReadInv
<1>1. ReadInv /\ [ReaderNext]_readerVars => ReadInv'
  BY NextReadInv
<1>2. QED
  BY InitReadInv, <1>1, PTL DEF ReaderSpec

(* The request thread and its books are always well formed.                   *)
THEOREM ReaderTypeCorrect == ReaderSpec => []ReaderTypeOK
<1>1. ReadInv => ReaderTypeOK
  BY DEF ReadInv
<1>2. QED
  BY AlwaysReadInv, <1>1, PTL

(* Whatever overlaps there are among tiles and bounds, and whatever the       *)
(* handlers do in between, a control is in the answer at most once.           *)
THEOREM AnsweredOnceCorrect == ReaderSpec => []AnsweredOnce
<1>1. ReadInv => AnsweredOnce
  BY DEF ReadInv
<1>2. QED
  BY AlwaysReadInv, <1>1, PTL

(* No handler but an edit of labels can make a request go unanswered.         *)
THEOREM FailsOnRelabelCorrect == ReaderSpec => []FailsOnRelabelOnly
<1>1. ReadInv => FailsOnRelabelOnly
  BY DEF ReadInv
<1>2. QED
  BY AlwaysReadInv, <1>1, PTL

-----------------------------------------------------------------------------
(* What an answer to a vehicle leaves out and what it does not: the invariants *)
(* from here on follow a control through the edits that replace it while the   *)
(* reader is on its way from tile to tile.                                     *)

(* Of the store: an edit replaces a stored control with another one, edits in *)
(* hand do not go round in a circle, and no index holds a control in a tile   *)
(* it does not cross.                                                         *)
EditsApart ==
  \A t \in Threads : th[t].op = "edit" =>
    th[t].orig # th[t].id /\ bin[th[t].orig] # "absent"

HandAcyclic ==
  \A g, h \in Ids : h \in InHand(g) /\ g \in InHand(h) => g = h

EndsInFile ==
  \A t \in Threads : th[t].pc \in {"lock", "find", "mark"} =>
    th[t].todo \subseteq FileTiles(th[t].orig)

IndexedCrossed ==
  \A tile \in Tiles, id \in Ids : Holds(tile, id) => tile \in CrossedTiles(id)

HandInv == EditsApart /\ HandAcyclic /\ EndsInFile /\ IndexedCrossed

(* What replaces what, as long as a request is read.                          *)
HeirsOrdered ==
  /\ \A g \in Ids : g \in heirs[g]
  /\ \A g \in Ids : \A h \in heirs[g] : heirs[h] \subseteq heirs[g] /\ GeoOf[h] = GeoOf[g]
  /\ \A g, h \in Ids : h \in heirs[g] /\ g \in heirs[h] => g = h
  /\ \A g \in Ids : bin[g] = "absent" => heirs[g] = {g}

HeirsBooked ==
  rd.pc # "idle" =>
    /\ \A g \in Ids : Replacements(th, heirs[g]) \subseteq heirs[g]
    /\ Deletions(th) \subseteq deleting

HeirInv == ReadInv /\ HandInv /\ HeirsOrdered /\ HeirsBooked

-----------------------------------------------------------------------------
(* A deleted control stays ended, and out of what the reader has picked,      *)
(* unless it is ended once more.                                              *)
LoopInFile ==
  \A t \in Threads : th[t].pc \in {"index", "draw"} => th[t].todo \subseteq FileTiles(th[t].id)

IndexedInFile ==
  \A tile \in Tiles, id \in Ids : Holds(tile, id) => tile \in FileTiles(id)

StayEnded ==
  Busy => \A id \in retiredThen : EndedAgain(id) \/
    \A tile \in Tiles : \A k \in 1..Len(ndx[tile]) :
      ndx[tile][k].id = id => ndx[tile][k].end <= rd.now

NotPicked ==
  Busy => \A id \in retiredThen : EndedAgain(id) \/
    /\ \A p \in rd.pending : p.id # id
    /\ \A tile \in Tiles : \A p \in rd.ids[tile] : p.id # id
    /\ id \notin Answered

DeletedInv ==
  /\ HeirInv /\ LoopInFile /\ IndexedInFile
  /\ rd.pc # "idle" => retiredThen \subseteq retired
  /\ StayEnded /\ NotPicked /\ NothingDeleted

-----------------------------------------------------------------------------
(* A control in force is still to be come across, in a tile that it or what   *)
(* replaces it is in force in, or has been come across.                       *)
LiveIn(tile, id) ==
  \E k \in 1..Len(ndx[tile]) : ndx[tile][k].id = id /\ ndx[tile][k].end = Forever

Excused(h, id) == h \in deleting \/ (h \in endedThen /\ h # id)

Led(id, tile) == \E h \in heirs[id] : LiveIn(tile, h) \/ Excused(h, id)

Ahead == {x \in rd.todo : rd.pc = "control" => ~IsNext(x, rd.todo)}

Met(id) ==
  \E h \in heirs[id] :
    \/ h \in Answered \/ Excused(h, id) \/ TooOld(h, asked[1])
    \/ \E p \in rd.pending : p.id = h

LiveIsLed ==
  Busy => \A tile \in Tiles : \A id \in Ids :
    Holds(tile, id) /\ id \notin endedThen => Led(id, tile)

WantedIds == rd.pc # "idle" /\ Len(asked) = 1 => wanted[1] \subseteq Ids

OneBox == Busy /\ Len(asked) = 1

AsksOnce ==
  OneBox =>
    /\ rd.bounds = asked /\ rd.now < Forever /\ rd.loaded \cap Ahead = {}
    /\ \A id \in rd.processed : id \in Answered \/ GeoOf[id] \notin asked[1].inside
    /\ wanted[1] \subseteq {id \in Ids : GeoOf[id] \in asked[1].inside}

StillAhead ==
  OneBox => \A id \in wanted[1] : (\E x \in Ahead : Led(id, x)) \/ Met(id)

GapInv == HeirInv /\ LiveIsLed /\ WantedIds /\ AsksOnce /\ StillAhead /\ NoGap

-----------------------------------------------------------------------------
(* The edits in hand.                                                         *)
LEMMA EditArrives ==
  ASSUME Typed, NEW u \in Threads, Arrive(u), th'[u].op = "edit"
  PROVE  /\ th'[u].orig \in Ids /\ Readable(th'[u].orig) /\ th'[u].id \in Ids /\ Fresh(th'[u].id)
         /\ GeoOf[th'[u].id] = GeoOf[th'[u].orig] /\ th'[u].pc = "open" /\ bin' = bin
<1>0. \A r : Become(u, r) => th'[u] = r
  BY DEF Become, Typed, TypeOK
<1>1. bin' = bin
  BY DEF Arrive, fileVars
<1>2. CASE AddControl(u) \/ AddFromMessage(u) \/ SaveLabel(u)
  <2>1. CASE AddControl(u)
    BY <1>0, <2>1 DEF AddControl, Begin
  <2>2. CASE AddFromMessage(u)
    BY <1>0, <2>2 DEF AddFromMessage, Begin
  <2>3. CASE SaveLabel(u)
    BY <1>0, <2>3 DEF SaveLabel, Begin
  <2>4. QED
    BY <1>2, <2>1, <2>2, <2>3
<1>3. CASE DeleteControl(u) \/ Cleanup(u)
  <2>1. CASE DeleteControl(u)
    BY <1>0, <2>1 DEF DeleteControl, Begin
  <2>2. CASE Cleanup(u)
    BY <1>0, <2>2 DEF Cleanup, Begin
  <2>3. QED
    BY <1>3, <2>1, <2>2
<1>4. CASE SaveEdit(u)
  <2>1. PICK orig \in Ids, id \in Ids :
          /\ Readable(orig) /\ Fresh(id) /\ Succeeds(id, orig)
          /\ th'[u] = Begin("open", "edit", orig, id, {}, SourceTime)
    BY <1>0, <1>4 DEF SaveEdit
  <2>2. th'[u].orig = orig /\ th'[u].id = id /\ th'[u].pc = "open"
    BY <2>1 DEF Begin
  <2>3. QED
    BY <1>1, <2>1, <2>2 DEF Succeeds
<1>5. QED
  BY <1>2, <1>3, <1>4 DEF Arrive

LEMMA EditsOf ==
  ASSUME Typed, [Next]_vars, NEW u \in Threads, th'[u].op = "edit", ~Arrive(u)
  PROVE  th[u].op = "edit" /\ th'[u].id = th[u].id /\ th'[u].orig = th[u].orig
<1>1. th'[u] # Idle
  BY DEF Idle, Begin
<1>2. QED
  BY <1>1, KeepsOriginal, StepOfThread DEF GoesOn

LEMMA EditsApartStays ==
  ASSUME Stored, EditsApart, [Next]_vars
  PROVE  EditsApart'
<1>0. Typed
  BY DEF Stored
<1> SUFFICES ASSUME NEW u \in Threads, th'[u].op = "edit"
             PROVE  th'[u].orig # th'[u].id /\ bin'[th'[u].orig] # "absent"
  BY DEF EditsApart
<1>1. CASE Arrive(u)
  BY <1>0, <1>1, EditArrives DEF Readable, Fresh
<1>2. CASE ~Arrive(u)
  <2>1. th[u].op = "edit" /\ th'[u].id = th[u].id /\ th'[u].orig = th[u].orig
    BY <1>0, <1>2, EditsOf
  <2>2. th[u].orig \in Ids
    BY <1>0, <2>1, ThreadShape DEF Shaped
  <2>3. QED
    BY <2>1, <2>2, KeptStays DEF EditsApart
<1>3. QED
  BY <1>1, <1>2

-----------------------------------------------------------------------------
(* What is in the hands of the edits: a closure.                              *)
LEMMA InHandCloses ==
  ASSUME NEW ids \in SUBSET Ids, NEW g \in ids, Replacements(th, ids) \subseteq ids
  PROVE  InHand(g) \subseteq ids
BY DEF InHand

LEMMA InHandClosed ==
  ASSUME Typed, NEW g \in Ids
  PROVE  /\ g \in InHand(g) /\ InHand(g) \subseteq Ids
         /\ Replacements(th, InHand(g)) \subseteq InHand(g)
<1>1. g \in InHand(g) /\ InHand(g) \subseteq Ids
  BY DEF InHand
<1>2. ASSUME NEW t \in Threads, th[t].op = "edit", th[t].orig \in InHand(g)
      PROVE  th[t].id \in InHand(g)
  <2>1. th[t].id \in Ids
    BY <1>2, ThreadShape DEF Shaped
  <2>2. ASSUME NEW ids \in SUBSET Ids, g \in ids, Replacements(th, ids) \subseteq ids
        PROVE  th[t].id \in ids
    <3>1. th[t].orig \in ids
      BY <1>2, <2>2 DEF InHand
    <3>2. QED
      BY <1>2, <2>2, <3>1 DEF Replacements
  <2>3. QED
    BY <2>1, <2>2 DEF InHand
<1>3. QED
  BY <1>1, <1>2 DEF Replacements

LEMMA InHandTransitive ==
  ASSUME Typed, NEW g \in Ids, NEW h \in InHand(g)
  PROVE  InHand(h) \subseteq InHand(g)
BY InHandClosed, InHandCloses

(* No edit starts from a control that is not stored.                          *)
LEMMA InHandAbsent ==
  ASSUME EditsApart, NEW g \in Ids, bin[g] = "absent"
  PROVE  InHand(g) = {g}
<1>1. Replacements(th, {g}) = {}
  BY DEF Replacements, EditsApart
<1>2. InHand(g) \subseteq {g}
  BY <1>1, InHandCloses
<1>3. g \in InHand(g)
  BY DEF InHand
<1>4. QED
  BY <1>2, <1>3

(* A replacement is for the same geometry.                                    *)
LEMMA InHandGeo ==
  ASSUME Typed, NEW g \in Ids, NEW h \in InHand(g)
  PROVE  GeoOf[h] = GeoOf[g]
<1> DEFINE same == {id \in Ids : GeoOf[id] = GeoOf[g]}
<1>1. ASSUME NEW t \in Threads, th[t].op = "edit", th[t].orig \in same PROVE th[t].id \in same
  BY <1>1, ThreadShape DEF Shaped, Succeeds
<1>2. Replacements(th, same) \subseteq same
  BY <1>1 DEF Replacements
<1>3. InHand(g) \subseteq same
  BY <1>2, InHandCloses
<1>4. QED
  BY <1>3

(* One step adds no more to it than the edit that comes in.                   *)
LEMMA InHandGrows ==
  ASSUME Stored, EditsApart, [Next]_vars, NEW g \in Ids
  PROVE  \A h \in InHand(g)' : h \in InHand(g) \/ bin'[h] = "absent"
<1>0. Typed
  BY DEF Stored
<1> DEFINE new == {h \in Ids : bin'[h] = "absent"}
           ids == InHand(g) \cup new
<1>1. ids \in SUBSET Ids /\ g \in ids
  BY <1>0, InHandClosed
<1>2. ASSUME NEW u \in Threads, th'[u].op = "edit", th'[u].orig \in ids PROVE th'[u].id \in ids
  <2>1. CASE Arrive(u)
    BY <1>0, <2>1, <1>2, EditArrives DEF Fresh
  <2>2. CASE ~Arrive(u)
    <3>1. th[u].op = "edit" /\ th'[u].id = th[u].id /\ th'[u].orig = th[u].orig
      BY <1>0, <1>2, <2>2, EditsOf
    <3>2. bin'[th'[u].orig] # "absent"
      BY <1>2, EditsApartStays DEF EditsApart
    <3>3. th[u].orig \in InHand(g)
      BY <1>2, <3>1, <3>2
    <3>4. QED
      BY <1>0, <3>1, <3>3, InHandClosed DEF Replacements
  <2>3. QED
    BY <2>1, <2>2
<1>3. Replacements(th', ids) \subseteq ids
  BY <1>2 DEF Replacements
<1>4. InHand(g)' \subseteq ids
  BY <1>1, <1>3 DEF InHand
<1>5. QED
  BY <1>4

LEMMA HandAcyclicStays ==
  ASSUME Stored, EditsApart, HandAcyclic, [Next]_vars
  PROVE  HandAcyclic'
<1> SUFFICES ASSUME NEW g \in Ids, NEW h \in Ids, h \in InHand(g)', g \in InHand(h)'
             PROVE  g = h
  BY DEF HandAcyclic
<1>1. EditsApart'
  BY EditsApartStays
<1>2. CASE h \in InHand(g) /\ g \in InHand(h)
  BY <1>2 DEF HandAcyclic
<1>3. ASSUME NEW a \in Ids, bin'[a] = "absent", NEW b \in InHand(a)' PROVE b = a
  <2>1. Replacements(th', {a}) = {}
    BY <1>1, <1>3 DEF Replacements, EditsApart
  <2>2. QED
    BY <1>3, <2>1 DEF InHand
<1>4. CASE bin'[h] = "absent" \/ bin'[g] = "absent"
  BY <1>3, <1>4
<1>5. QED
  BY <1>2, <1>4, InHandGrows

-----------------------------------------------------------------------------
(* The tiles a handler has left.                                              *)
LEMMA TodoSteps ==
  ASSUME Typed, [Next]_vars, NEW u \in Threads, th'[u] # Idle, ~Arrive(u)
  PROVE  /\ th'[u].pc \in {"lock", "find", "mark"} =>
              \/ th[u].pc \in {"lock", "find", "mark"} /\ th'[u].todo \subseteq th[u].todo
              \/ th[u].op = "edit" /\ th'[u].todo = FileTiles(th[u].orig)
         /\ th'[u].pc \in {"index", "draw"} =>
              \/ th[u].pc \in {"index", "draw"} /\ th'[u].todo \subseteq th[u].todo
              \/ Creates(u) /\ th'[u].todo = RenderTiles(th[u])
<1>0. th \in [Threads -> Request] /\ th[u] \in Request
  BY DEF Typed, TypeOK
<1> USE DEF Become
<1>1. CASE th'[u] = th[u] \/ th'[u] = [th[u] EXCEPT !.clash = TRUE]
  BY <1>0, <1>1 DEF Request
<1>2. CASE OpenBin(u)
  BY <1>0, <1>2 DEF OpenBin, Request
<1>3. CASE CloseBin(u)
  <2>1. th[u].pc = "write" /\ th[u].op # "relabel"
    BY <1>0, <1>3 DEF CloseBin
  <2>2. Creates(u)
    BY <2>1, ThreadShape DEF Shaped, Creates
  <2>3. th'[u] = [th[u] EXCEPT !.pc = "index", !.todo = RenderTiles(th[u])]
    BY <1>0, <1>3, <2>1 DEF CloseBin
  <2>4. QED
    BY <1>0, <2>2, <2>3 DEF Request
<1>4. CASE Rendered(u)
  BY <1>0, <1>4 DEF Rendered, Request
<1>5. CASE Lock(u)
  BY <1>0, <1>5 DEF Lock, Request
<1>6. ASSUME NEW tile \in Tiles, OnTile(u, tile)
      PROVE  /\ th'[u].todo \subseteq th[u].todo
             /\ th'[u].pc \in {"lock", "find", "mark"} => th[u].pc \in {"lock", "find", "mark"}
             /\ th'[u].pc \in {"index", "draw"} => th[u].pc \in {"index", "draw"}
  <2>0. CASE IndexTile(u, tile)
    BY <1>0, <2>0 DEF IndexTile, Request
  <2>1. CASE DrawTile(u, tile)
    BY <1>0, <2>1 DEF DrawTile, Request
  <2>2. CASE MarkEnd(u, tile)
    BY <1>0, <2>2 DEF MarkEnd, Request
  <2>3. CASE FindRecord(u, tile)
    BY <1>0, <2>3 DEF FindRecord, Request
  <2>4. CASE NotFound(u, tile)
    BY <1>0, <2>4 DEF NotFound
  <2>5. QED
    BY <1>6, <2>0, <2>1, <2>2, <2>3, <2>4 DEF OnTile
<1>7. QED
  BY <1>1, <1>2, <1>3, <1>4, <1>5, <1>6, OwnStep

LEMMA EndsInFileStays ==
  ASSUME Typed, Typed', EndsInFile, [Next]_vars
  PROVE  EndsInFile'
<1> SUFFICES ASSUME NEW u \in Threads, th'[u].pc \in {"lock", "find", "mark"}
             PROVE  th'[u].todo \subseteq FileTiles(th'[u].orig)
  BY DEF EndsInFile, FileTiles
<1>1. th'[u] # Idle
  BY DEF Idle, Begin
<1>2. CASE Arrive(u)
  <2>1. th'[u].op \in {"edit", "delete", "cleanup"}
    BY DEF Typed, Shape, Handler, Shaped
  <2>2. QED
    BY <1>2, <2>1, ArriveTimes
<1>3. CASE ~Arrive(u)
  <2>1. th'[u].orig = th[u].orig
    BY <1>1, <1>3, KeepsOriginal
  <2>2. QED
    BY <1>1, <1>3, <2>1, TodoSteps DEF EndsInFile
<1>4. QED
  BY <1>2, <1>3

LEMMA IndexedCrossedStays ==
  ASSUME Typed, IndexedCrossed, [Next]_vars
  PROVE  IndexedCrossed'
<1> SUFFICES ASSUME NEW tile \in Tiles, NEW id \in Ids, Holds(tile, id)'
             PROVE  tile \in CrossedTiles(id)
  BY DEF IndexedCrossed, CrossedTiles
<1>1. CASE Holds(tile, id)
  BY <1>1 DEF IndexedCrossed
<1>2. CASE ~Holds(tile, id)
  <2>1. PICK k \in 1..Len(ndx'[tile]) : ndx'[tile][k].id = id
    BY DEF Holds
  <2>2. PICK t \in Threads : /\ tile \in CrossedTiles(th[t].id)
                             /\ ndx'[tile][k].id = th[t].id
    BY <1>2, <2>1, IndexGrows DEF Holds
  <2>3. QED
    BY <2>1, <2>2
<1>3. QED
  BY <1>1, <1>2

LEMMA NextHandInv ==
  ASSUME EndIndexed, HandInv, [Next]_vars
  PROVE  HandInv'
<1>1. Stored /\ Typed /\ Typed'
  BY NextStored DEF EndIndexed, Indexed, Stored
<1>2. QED
  BY <1>1, EditsApartStays, HandAcyclicStays, EndsInFileStays, IndexedCrossedStays DEF HandInv

(* Indexed in the beginning are the tiles of the one control there is.        *)
LEMMA InitHolds ==
  ASSUME Init, NEW tile \in Tiles, NEW id, Holds(tile, id)
  PROVE  id = Base /\ tile \in LaneTiles(Base)
<1>1. ndx[tile] = IF tile \in LaneTiles(Base)
                  THEN <<[id |-> Base, start |-> 0, end |-> Forever]>> ELSE <<>>
  BY DEF Init
<1>2. CASE tile \in LaneTiles(Base)
  BY <1>1, <1>2 DEF Holds
<1>3. CASE tile \notin LaneTiles(Base)
  BY <1>1, <1>3 DEF Holds
<1>4. QED
  BY <1>2, <1>3

LEMMA InitHandInv == Init => HandInv
<1> SUFFICES ASSUME Init PROVE HandInv
  OBVIOUS
<1>1. \A t \in Threads : th[t] = Idle
  BY DEF Init
<1>2. EditsApart /\ EndsInFile
  BY <1>1 DEF EditsApart, EndsInFile, Idle, Begin
<1>3. HandAcyclic
  <2>1. ASSUME NEW g \in Ids PROVE InHand(g) \subseteq {g}
    <3>1. Replacements(th, {g}) \subseteq {g}
      BY <1>1 DEF Replacements, Idle, Begin
    <3>2. QED
      BY <3>1, InHandCloses
  <2>2. QED
    BY <2>1 DEF HandAcyclic
<1>4. IndexedCrossed
  <2>1. Base \in Ids
    BY StoreAssumption
  <2>2. QED
    BY <2>1, InitHolds, TileSets DEF IndexedCrossed
<1>5. QED
  BY <1>2, <1>3, <1>4 DEF HandInv

-----------------------------------------------------------------------------
(* The books of what replaces what.                                           *)
LEMMA HeirsStart ==
  ASSUME Typed, HandInv, heirs' = [id \in Ids |-> InHand(id)], deleting' = Deletions(th),
         UNCHANGED vars
  PROVE  HeirsOrdered' /\ HeirsBooked'
<1>0. \A g \in Ids : heirs'[g] = InHand(g)
  OBVIOUS
<1>1. UNCHANGED <<th, bin>>
  BY DEF vars
<1>2. \A g \in Ids : g \in heirs'[g] /\ Replacements(th, heirs'[g]) \subseteq heirs'[g]
  BY <1>0, InHandClosed
<1>3. \A g \in Ids : \A h \in heirs'[g] : heirs'[h] \subseteq heirs'[g] /\ GeoOf[h] = GeoOf[g]
  <2> SUFFICES ASSUME NEW g \in Ids, NEW h \in heirs'[g]
               PROVE  heirs'[h] \subseteq heirs'[g] /\ GeoOf[h] = GeoOf[g]
    OBVIOUS
  <2>1. h \in InHand(g) /\ h \in Ids
    BY <1>0, InHandClosed
  <2>2. QED
    BY <1>0, <2>1, InHandTransitive, InHandGeo
<1>4. \A g, h \in Ids : h \in heirs'[g] /\ g \in heirs'[h] => g = h
  BY <1>0 DEF HandInv, HandAcyclic
<1>5. \A g \in Ids : bin[g] = "absent" => heirs'[g] = {g}
  BY <1>0, InHandAbsent DEF HandInv
<1>6. QED
  BY <1>1, <1>2, <1>3, <1>4, <1>5 DEF HeirsOrdered, HeirsBooked, Replacements, Deletions

LEMMA HeirsAlone ==
  ASSUME heirs' = [id \in Ids |-> {id}], rd'.pc = "idle"
  PROVE  HeirsOrdered' /\ HeirsBooked'
BY DEF HeirsOrdered, HeirsBooked

(* A step of the store adds what an edit that comes in puts in the place of   *)
(* one of them.                                                               *)
LEMMA HeirsGrow ==
  ASSUME Stored, EditsApart, heirs \in [Ids -> SUBSET Ids], HeirsBooked, rd.pc # "idle",
         [Next]_vars, Booked, NEW g \in Ids
  PROVE  /\ heirs[g] \subseteq heirs'[g]
         /\ \A h \in heirs'[g] :
              \/ h \in heirs[g]
              \/ h \in Ids /\ bin'[h] = "absent" /\ \E k \in heirs[g] : GeoOf[h] = GeoOf[k]
<1>0. Typed /\ heirs'[g] = heirs[g] \cup Replacements(th', heirs[g])
  BY DEF Stored, Booked
<1>1. ASSUME NEW u \in Threads, th'[u].op = "edit", th'[u].orig \in heirs[g]
      PROVE  \/ th'[u].id \in heirs[g]
             \/ th'[u].id \in Ids /\ bin'[th'[u].id] = "absent"
                /\ GeoOf[th'[u].id] = GeoOf[th'[u].orig]
  <2>1. CASE Arrive(u)
    BY <1>0, <1>1, <2>1, EditArrives DEF Fresh
  <2>2. CASE ~Arrive(u)
    <3>1. th[u].op = "edit" /\ th'[u].id = th[u].id /\ th'[u].orig = th[u].orig
      BY <1>0, <1>1, <2>2, EditsOf
    <3>2. QED
      BY <1>1, <3>1 DEF HeirsBooked, Replacements
  <2>3. QED
    BY <2>1, <2>2
<1>2. QED
  BY <1>0, <1>1 DEF Replacements

LEMMA HeirsStay ==
  ASSUME Stored, HandInv, heirs \in [Ids -> SUBSET Ids], HeirsOrdered, HeirsBooked,
         rd.pc # "idle", [Next]_vars, Booked
  PROVE  HeirsOrdered' /\ HeirsBooked'
<1>0. EditsApart /\ EditsApart'
  BY EditsApartStays DEF HandInv
<1>1. \A g \in Ids : heirs'[g] = heirs[g] \cup Replacements(th', heirs[g])
  BY DEF Booked
<1>2. ASSUME NEW g \in Ids, bin'[g] = "absent" PROVE heirs'[g] = {g}
  <2>1. heirs[g] = {g}
    BY <1>2, KeptStays DEF HeirsOrdered
  <2>2. Replacements(th', {g}) = {}
    BY <1>0, <1>2 DEF Replacements, EditsApart
  <2>3. QED
    BY <1>1, <2>1, <2>2
<1>3. \A g \in Ids : g \in heirs'[g]
  BY <1>1 DEF HeirsOrdered
<1>4. ASSUME NEW g \in Ids, NEW h \in heirs'[g]
      PROVE  heirs'[h] \subseteq heirs'[g] /\ GeoOf[h] = GeoOf[g]
  <2>1. CASE h \in heirs[g]
    <3>1. h \in Ids /\ heirs[h] \subseteq heirs[g] /\ GeoOf[h] = GeoOf[g]
      BY <2>1 DEF HeirsOrdered
    <3>2. Replacements(th', heirs[h]) \subseteq Replacements(th', heirs[g])
      BY <3>1 DEF Replacements
    <3>3. QED
      BY <1>1, <3>1, <3>2
  <2>2. CASE h \notin heirs[g]
    <3>1. h \in Ids /\ bin'[h] = "absent" /\ \E k \in heirs[g] : GeoOf[h] = GeoOf[k]
      BY <1>0, <1>4, <2>2, HeirsGrow
    <3>2. heirs'[h] = {h}
      BY <1>2, <3>1
    <3>3. QED
      BY <1>4, <3>1, <3>2 DEF HeirsOrdered
  <2>3. QED
    BY <2>1, <2>2
<1>5. ASSUME NEW g \in Ids, NEW h \in Ids, h \in heirs'[g], g \in heirs'[h] PROVE g = h
  <2>1. CASE bin'[g] = "absent" \/ bin'[h] = "absent"
    BY <1>2, <1>5, <2>1
  <2>2. CASE bin'[g] # "absent" /\ bin'[h] # "absent"
    <3>1. h \in heirs[g] /\ g \in heirs[h]
      BY <1>0, <1>5, <2>2, HeirsGrow
    <3>2. QED
      BY <3>1 DEF HeirsOrdered
  <2>3. QED
    BY <2>1, <2>2
<1>6. HeirsOrdered'
  BY <1>2, <1>3, <1>4, <1>5 DEF HeirsOrdered
<1>7. ASSUME NEW g \in Ids, NEW u \in Threads, th'[u].op = "edit", th'[u].orig \in heirs'[g]
      PROVE  th'[u].id \in heirs'[g]
  <2>1. bin'[th'[u].orig] # "absent"
    BY <1>0, <1>7 DEF EditsApart
  <2>2. th'[u].orig \in heirs[g]
    BY <1>0, <1>7, <2>1, HeirsGrow
  <2>3. QED
    BY <1>1, <1>7, <2>2 DEF Replacements
<1>8. \A g \in Ids : Replacements(th', heirs'[g]) \subseteq heirs'[g]
  BY <1>7 DEF Replacements
<1>9. HeirsBooked'
  BY <1>8 DEF HeirsBooked, Booked, Replacements, Deletions
<1>10. QED
  BY <1>6, <1>9

(* A reader's own step is made while a request is there.                      *)
LEMMA ReaderIsBusy ==
  ASSUME ReaderGoesOn
  PROVE  Busy
BY DEF ReaderGoesOn, VisitTile, TakeControl, TileDone, BoundsDone, Busy

LEMMA NextHeirInv ==
  ASSUME HeirInv, [ReaderNext]_readerVars
  PROVE  HeirInv'
<1>0. /\ ReadInv /\ ReadInv' /\ [Next]_vars /\ EndIndexed /\ Stored /\ Typed
      /\ heirs \in [Ids -> SUBSET Ids]
  BY NextReadInv, ReaderSteps
     DEF HeirInv, ReadInv, EndIndexed, Indexed, Stored, ReaderTypeOK
<1>1. HandInv'
  BY <1>0, NextHandInv DEF HeirInv
<1> SUFFICES HeirsOrdered' /\ HeirsBooked'
  BY <1>0, <1>1 DEF HeirInv
<1>2. CASE UNCHANGED vars /\ \E request \in Requests : Receive(request)
  BY <1>0, <1>2, HeirsStart DEF HeirInv, Receive
<1>3. CASE NoReader
  BY <1>3, HeirsAlone DEF NoReader, NoRequest
<1>4. CASE UNCHANGED <<heirs, deleting>> /\ ((UNCHANGED vars /\ rd.pc # "idle") \/ rd'.pc = "idle")
  <2>1. HeirsOrdered'
    BY <1>0, <1>4, KeptStays DEF HeirInv, HeirsOrdered
  <2>2. HeirsBooked'
    <3>1. CASE rd'.pc = "idle"
      BY <3>1 DEF HeirsBooked
    <3>2. CASE UNCHANGED vars /\ rd.pc # "idle"
      <4>1. th' = th
        BY <3>2 DEF vars
      <4>2. QED
        BY <1>4, <3>2, <4>1 DEF HeirInv, HeirsBooked, Replacements, Deletions
    <3>3. QED
      BY <1>4, <3>1, <3>2
  <2>3. QED
    BY <2>1, <2>2
<1>5. CASE ReaderGoesOn
  <2>1. rd.pc # "idle"
    BY <1>5, ReaderIsBusy DEF Busy
  <2>2. UNCHANGED vars /\ UNCHANGED <<heirs, deleting>>
    BY <1>5 DEF ReaderGoesOn
  <2>3. QED
    BY <1>4, <2>1, <2>2
<1>6. CASE StoreGoesOn
  <2>1. CASE rd.pc # "idle" /\ Booked
    BY <1>0, <2>1, HeirsStay DEF HeirInv
  <2>2. CASE UNCHANGED <<heirs, deleting>> /\ (rd.pc = "idle" \/ UNCHANGED vars)
    <3>1. rd' = rd
      BY <1>6 DEF StoreGoesOn
    <3>2. QED
      BY <1>4, <2>2, <3>1
  <2>3. QED
    BY <1>6, <2>1, <2>2 DEF StoreGoesOn
<1>7. QED
  BY <1>2, <1>3, <1>5, <1>6, ReaderSteps

LEMMA InitHeirInv == ReaderInit => HeirInv
<1> SUFFICES ASSUME ReaderInit PROVE HeirInv
  OBVIOUS
<1>1. ReadInv /\ HandInv
  BY InitReadInv, InitHandInv DEF ReaderInit
<1>2. HeirsOrdered /\ HeirsBooked
  BY DEF ReaderInit, NoRequest, HeirsOrdered, HeirsBooked
<1>3. QED
  BY <1>1, <1>2 DEF HeirInv

-----------------------------------------------------------------------------
(* Deleted controls.                                                          *)
AllInFile == \A g \in Geos : Built[g] \subseteq Reread[g]

LEMMA LaneInFile ==
  ASSUME AllInFile, NEW id \in Ids
  PROVE  LaneTiles(id) \subseteq FileTiles(id)
BY StoreAssumption DEF AllInFile, LaneTiles, FileTiles

LEMMA LoopInFileStays ==
  ASSUME AllInFile, Typed, LoopInFile, [Next]_vars
  PROVE  LoopInFile'
<1> SUFFICES ASSUME NEW u \in Threads, th'[u].pc \in {"index", "draw"}
             PROVE  th'[u].todo \subseteq FileTiles(th'[u].id)
  BY DEF LoopInFile, FileTiles
<1>1. th'[u] # Idle /\ ~Arrive(u)
  BY ArriveStarts DEF Idle, Begin
<1>2. th'[u].id = th[u].id
  BY <1>1, StepOfThread DEF GoesOn
<1>3. CASE th[u].pc \in {"index", "draw"} /\ th'[u].todo \subseteq th[u].todo
  BY <1>2, <1>3 DEF LoopInFile
<1>4. CASE Creates(u) /\ th'[u].todo = RenderTiles(th[u])
  <2>1. th[u].id \in Ids /\ (th[u].op = "edit" => GeoOf[th[u].id] = GeoOf[th[u].orig])
    BY <1>4, ThreadShape DEF Shaped, Succeeds
  <2>2. RenderTiles(th[u]) \subseteq FileTiles(th[u].id)
    <3>1. CASE th[u].op = "edit"
      BY <2>1, <3>1 DEF RenderTiles, FileTiles
    <3>2. CASE th[u].op # "edit"
      BY <2>1, <3>2, LaneInFile DEF RenderTiles
    <3>3. QED
      BY <3>1, <3>2
  <2>3. QED
    BY <1>2, <1>4, <2>2
<1>5. QED
  BY <1>1, <1>3, <1>4, TodoSteps

LEMMA IndexedInFileStays ==
  ASSUME Typed, LoopInFile, IndexedInFile, [Next]_vars
  PROVE  IndexedInFile'
<1> SUFFICES ASSUME NEW tile \in Tiles, NEW id \in Ids, Holds(tile, id)'
             PROVE  tile \in FileTiles(id)
  BY DEF IndexedInFile, FileTiles
<1>1. CASE Holds(tile, id)
  BY <1>1 DEF IndexedInFile
<1>2. CASE ~Holds(tile, id)
  <2>1. PICK t \in Threads : IndexTile(t, tile) /\ th[t].id = id
    BY <1>2, HoldsNew
  <2>2. th[t].pc = "index" /\ tile \in th[t].todo
    BY <2>1 DEF IndexTile, IsNext
  <2>3. QED
    BY <2>1, <2>2 DEF LoopInFile
<1>3. QED
  BY <1>1, <1>2

(* Nothing is retired for a while only.                                       *)
LEMMA RetiredStays ==
  ASSUME [Next]_vars
  PROVE  retired \subseteq retired'
<1>1. ASSUME NEW t \in Threads, Work(t) PROVE retired \subseteq retired'
  <2>1. CASE OpenBin(t) \/ CloseBin(t) \/ Rendered(t) \/ Lock(t) \/ Fail(t)
    BY <2>1 DEF OpenBin, CloseBin, Rendered, Lock, Fail, histVars
  <2>2. CASE Ended(t)
    BY <2>2 DEF Ended
  <2>3. CASE \E tile \in Tiles : OnTile(t, tile)
    BY <2>3 DEF OnTile, IndexTile, DrawTile, FindRecord, NotFound, MarkEnd, histVars
  <2>4. QED
    BY <1>1, <2>1, <2>2, <2>3 DEF Work
<1>2. QED
  BY <1>1 DEF Next, Tick, Restart, Arrive, vars, histVars

LEMMA EndedAgainStays ==
  ASSUME HeirsOrdered, Booked, NEW id \in Ids, EndedAgain(id)
  PROVE  EndedAgain(id)'
BY DEF HeirsOrdered, Booked, EndedAgain

(* Who writes into the record of a control ends that control.                 *)
LEMMA WriterEnds ==
  ASSUME HeirInv, rd.pc # "idle", NEW t \in Threads, NEW tile \in Tiles, MarkEnd(t, tile),
         NEW id, id = th[t].orig
  PROVE  EndedAgain(id)
<1>1. Typed /\ th[t].pc = "mark"
  BY DEF HeirInv, ReadInv, EndIndexed, Indexed, Stored, MarkEnd
<1>2. id \in Ids /\ th[t].op \in {"edit", "delete", "cleanup"}
  BY <1>1, ThreadShape DEF Shaped
<1>3. CASE th[t].op = "edit"
  <2>1. id \in heirs[id] /\ th[t].id # id
    BY <1>2, <1>3 DEF HeirInv, HeirsOrdered, HandInv, EditsApart
  <2>2. th[t].id \in heirs[id]
    BY <1>2, <1>3, <2>1 DEF HeirInv, HeirsBooked, Replacements
  <2>3. QED
    BY <2>1, <2>2 DEF EndedAgain
<1>4. CASE th[t].op # "edit"
  BY <1>2, <1>4 DEF HeirInv, HeirsBooked, Deletions, EndedAgain
<1>5. QED
  BY <1>3, <1>4

LEMMA StayEndedStore ==
  ASSUME DeletedInv, Busy, [Next]_vars, Booked, UNCHANGED <<rd, retiredThen>>,
         NEW id \in retiredThen, ~EndedAgain(id)',
         NEW tile \in Tiles, NEW k \in 1..Len(ndx'[tile]), ndx'[tile][k].id = id
  PROVE  ndx'[tile][k].end <= rd.now
<1>0. /\ Indexed /\ EndIndexed /\ Typed /\ HeirInv /\ rd.pc # "idle"
      /\ id \in retired /\ id \in Ids
  BY DEF DeletedInv, HeirInv, ReadInv, EndIndexed, Indexed, Stored, Typed, TypeOK, Busy
<1>1. ~EndedAgain(id)
  BY <1>0, EndedAgainStays DEF HeirInv
<1>2. CASE k \in 1..Len(ndx[tile]) /\ ndx'[tile][k].id = ndx[tile][k].id
  <2>1. ndx[tile][k].end <= rd.now
    BY <1>1, <1>2 DEF DeletedInv, StayEnded
  <2>2. CASE ndx'[tile][k].end = ndx[tile][k].end
    BY <2>1, <2>2
  <2>3. CASE ndx'[tile][k].end # ndx[tile][k].end
    <3>1. PICK t \in Threads : MarkEnd(t, tile) /\ th[t].orig = id
      BY <1>0, <1>2, <2>3, EndChanges
    <3>2. QED
      BY <1>0, <1>1, <3>1, WriterEnds
  <2>4. QED
    BY <2>2, <2>3
<1>3. ASSUME NEW t \in Threads, IndexTile(t, tile), ndx'[tile][k].id = th[t].id PROVE FALSE
  <2>1. tile \in FileTiles(id)
    BY <1>3 DEF DeletedInv, LoopInFile, IndexTile, IsNext
  <2>2. Holds(tile, id) /\ ~Holds(tile, th[t].id)
    BY <1>0, <1>3, <2>1, RetiredPast, IndexTileFirst
  <2>3. QED
    BY <1>3, <2>2
<1>4. QED
  BY <1>0, <1>2, <1>3, IndexGrows

LEMMA StayEndedStart ==
  ASSUME SimSkew >= 0, DeletedInv, UNCHANGED vars, NEW request \in Requests, Receive(request)
  PROVE  StayEnded' /\ NotPicked'
<1>0. Typed /\ EndIndexed /\ ReaderTypeOK /\ clock \in Int /\ SimSkew \in Int
  BY StoreAssumption
     DEF DeletedInv, HeirInv, ReadInv, EndIndexed, Indexed, Stored, Typed, TypeOK
<1>1. /\ rd'.now = SourceTime /\ rd'.pending = {} /\ rd'.answer = <<>>
      /\ rd'.ids = [tile \in Tiles |-> {}]
  BY <1>0, ReceiveFields
<1>2. retiredThen' = retired /\ ndx' = ndx /\ retired \subseteq Ids
  BY <1>0 DEF Receive, vars, Typed, TypeOK
<1>3. ASSUME NEW id \in retired, NEW tile \in Tiles, NEW k \in 1..Len(ndx[tile]),
             ndx[tile][k].id = id
      PROVE  ndx[tile][k].end <= rd'.now
  <2>1. tile \in FileTiles(id)
    BY <1>2, <1>3 DEF DeletedInv, IndexedInFile, Holds
  <2>2. ndx[tile][k].end \in Int /\ Past(ndx[tile][k].end)
    BY <1>0, <1>3, <2>1, RetiredPast
  <2>3. QED
    BY <1>0, <1>1, <2>2 DEF Past, SourceTime
<1>4. StayEnded'
  BY <1>2, <1>3 DEF StayEnded
<1>5. NotPicked'
  BY <1>1 DEF NotPicked, Answered
<1>6. QED
  BY <1>4, <1>5

(* The reader does not pick what is ended.                                    *)
LEMMA NotPickedRead ==
  ASSUME DeletedInv, ReaderGoesOn
  PROVE  NotPicked' /\ NothingDeleted'
<1>0. /\ Typed /\ rd \in Reader /\ ReadShape /\ Busy /\ NotPicked /\ StayEnded
      /\ UNCHANGED <<retiredThen, heirs, deleting>>
  BY ReaderIsBusy
     DEF DeletedInv, HeirInv, ReadInv, EndIndexed, Indexed, Stored, ReaderTypeOK, ReaderGoesOn,
         readerHist
<1>1. \A id : EndedAgain(id)' <=> EndedAgain(id)
  BY <1>0 DEF EndedAgain
<1>2. ASSUME NEW tile \in Tiles, VisitTile(tile) PROVE NotPicked' /\ NothingDeleted'
  <2>1. ASSUME NEW id \in retiredThen, ~EndedAgain(id), NEW b, NEW p \in Found(tile, b)
        PROVE  p.id # id
    <3>1. PICK k \in 1..Len(ndx[tile]) : Picked(ndx[tile][k], b) /\ p.id = ndx[tile][k].id
      BY <2>1 DEF Found
    <3>2. ndx[tile][k].end \in Int /\ rd.now \in Int
      <4>1. ndx[tile][k] \in IndexRecord
        BY <1>0, RecordIds
      <4>2. QED
        BY <1>0, <4>1 DEF IndexRecord, Reader
    <3>3. QED
      BY <1>0, <2>1, <3>1, <3>2 DEF StayEnded, Picked
  <2>2. ASSUME NEW id \in retiredThen, ~EndedAgain(id)
        PROVE  /\ \A p \in rd'.pending : p.id # id
               /\ \A x \in Tiles : \A p \in rd'.ids[x] : p.id # id
               /\ id \notin Answered'
    <3>1. rd.ids \in [Tiles -> SUBSET Pick]
      BY <1>0 DEF Reader
    <3>2. /\ \A p \in rd.pending : p.id # id
          /\ \A x \in Tiles : \A p \in rd.ids[x] : p.id # id
          /\ id \notin Answered
      BY <1>0, <2>2 DEF NotPicked
    <3>3. \A p \in Found(tile, Head(rd.bounds)) : p.id # id
      BY <2>1, <2>2
    <3>4. id \notin Answered'
      <4>1. rd'.answer = rd.answer
        BY <1>0, <1>2, VisitFields DEF SameAnswer
      <4>2. QED
        BY <3>2, <4>1 DEF Answered
    <3>5. \A p \in rd'.pending : p.id # id
      <4>1. \/ rd'.pending = rd.pending \/ rd'.pending = rd.ids[tile]
            \/ rd'.pending = Found(tile, Head(rd.bounds))
        BY <1>0, <1>2, VisitFields
      <4>2. QED
        BY <3>2, <3>3, <4>1
    <3>6. \A x \in Tiles : \A p \in rd'.ids[x] : p.id # id
      <4>1. rd'.ids = rd.ids \/ rd'.ids = [rd.ids EXCEPT ![tile] = rd'.pending]
        BY <1>0, <1>2, VisitFields DEF SamePicks
      <4>2. QED
        BY <3>1, <3>2, <3>5, <4>1
    <3>7. QED
      BY <3>4, <3>5, <3>6
  <2>3. rd'.pc # "send"
    BY <1>0, <1>2, VisitFields
  <2>4. QED
    BY <1>0, <1>1, <2>2, <2>3 DEF NotPicked, NothingDeleted
<1>3. ASSUME TakeControl PROVE NotPicked' /\ NothingDeleted'
  <2>1. PICK p \in rd.pending :
          \/ rd' = [NoRequest EXCEPT !.pc = "failed"]
          \/ /\ rd'.pc = "control" /\ SamePicks /\ rd'.pending = rd.pending \ {p}
             /\ rd'.answer = rd.answer \/ (rd'.answer = Append(rd.answer, p.id) /\ p.id \in Ids)
    BY <1>0, <1>3, TakeFields
  <2>2. CASE rd' = [NoRequest EXCEPT !.pc = "failed"]
    <3>1. rd'.pc = "failed"
      BY <2>2 DEF NoRequest
    <3>2. QED
      BY <3>1 DEF NotPicked, NothingDeleted, Busy
  <2>3. CASE /\ rd'.pc = "control" /\ SamePicks /\ rd'.pending = rd.pending \ {p}
             /\ rd'.answer = rd.answer \/ (rd'.answer = Append(rd.answer, p.id) /\ p.id \in Ids)
    <3>1. Answered' \subseteq Answered \cup {p.id}
      <4>1. CASE rd'.answer = rd.answer
        BY <4>1 DEF Answered
      <4>2. CASE rd'.answer = Append(rd.answer, p.id) /\ p.id \in Ids
        <5>1. rd.answer \in Seq(Ids)
          BY <1>0 DEF Reader
        <5>2. QED
          BY <4>2, <5>1, Appended DEF Answered
      <4>3. QED
        BY <2>3, <4>1, <4>2
    <3>2. QED
      BY <1>0, <1>1, <2>3, <3>1 DEF NotPicked, NothingDeleted, SamePicks
  <2>4. QED
    BY <2>1, <2>2, <2>3
<1>4. ASSUME TileDone PROVE NotPicked' /\ NothingDeleted'
  <2>1. rd'.pending = {} /\ rd'.pc = "tile" /\ rd'.ids = rd.ids /\ rd'.answer = rd.answer
    BY <1>0, <1>4, TileDoneFields DEF SamePicks, SameAnswer
  <2>2. QED
    BY <1>0, <1>1, <2>1 DEF NotPicked, NothingDeleted, Answered
<1>5. ASSUME BoundsDone PROVE NotPicked' /\ NothingDeleted'
  <2>1. rd'.answer = rd.answer /\ (rd'.pc = "send" \/ (rd'.ids = rd.ids /\ rd'.pending = rd.pending
                                                     /\ rd'.pc = "tile"))
    BY <1>0, <1>5, BoundsDoneFields DEF SamePicks, SameAnswer, ReadShape
  <2>2. Answered' = Answered
    BY <2>1 DEF Answered
  <2>3. QED
    BY <1>0, <1>1, <2>1, <2>2 DEF NotPicked, NothingDeleted, Busy
<1>6. QED
  BY <1>2, <1>3, <1>4, <1>5 DEF ReaderGoesOn

LEMMA StayEndedRead ==
  ASSUME DeletedInv, ReaderGoesOn
  PROVE  StayEnded'
<1>0. /\ Typed /\ rd \in Reader /\ ReadShape /\ Busy /\ StayEnded
      /\ UNCHANGED <<retiredThen, heirs, deleting, ndx>>
  BY ReaderIsBusy
     DEF DeletedInv, HeirInv, ReadInv, EndIndexed, Indexed, Stored, ReaderTypeOK, ReaderGoesOn,
         readerHist, vars
<1>1. Busy' => rd'.now = rd.now
  <2>1. ASSUME NEW tile \in Tiles, VisitTile(tile) PROVE rd'.now = rd.now
    BY <1>0, <2>1, VisitFields DEF SameRequest
  <2>2. CASE TakeControl
    <3>1. CASE rd' = [NoRequest EXCEPT !.pc = "failed"]
      BY <3>1 DEF NoRequest, Busy
    <3>2. CASE SameRequest
      BY <3>2 DEF SameRequest
    <3>3. QED
      BY <1>0, <2>2, <3>1, <3>2, TakeFields
  <2>3. CASE TileDone
    BY <1>0, <2>3, TileDoneFields DEF SameRequest
  <2>4. CASE BoundsDone
    BY <1>0, <2>4, BoundsDoneFields DEF ReadShape, Busy
  <2>5. QED
    BY <2>1, <2>2, <2>3, <2>4 DEF ReaderGoesOn
<1>2. \A id : EndedAgain(id)' <=> EndedAgain(id)
  BY <1>0 DEF EndedAgain
<1>3. QED
  BY <1>0, <1>1, <1>2 DEF StayEnded

LEMMA NextDeletedInv ==
  ASSUME SimSkew >= 0, AllInFile, DeletedInv, [ReaderNext]_readerVars
  PROVE  DeletedInv'
<1>0. /\ HeirInv' /\ [Next]_vars /\ Typed /\ HeirInv /\ ReaderTypeOK
      /\ retiredThen \subseteq Ids
  BY NextHeirInv, ReaderSteps
     DEF DeletedInv, HeirInv, ReadInv, EndIndexed, Indexed, Stored, ReaderTypeOK
<1>1. LoopInFile' /\ IndexedInFile'
  BY <1>0, LoopInFileStays, IndexedInFileStays DEF DeletedInv
<1> DEFINE Then == rd.pc # "idle" => retiredThen \subseteq retired
<1> SUFFICES Then' /\ StayEnded' /\ NotPicked' /\ NothingDeleted'
  BY <1>0, <1>1 DEF DeletedInv
<1>2. CASE UNCHANGED vars /\ \E request \in Requests : Receive(request)
  <2>1. PICK request \in Requests : Receive(request)
    BY <1>2
  <2>2. StayEnded' /\ NotPicked'
    BY <1>2, <2>1, StayEndedStart
  <2>3. rd'.pc = "tile"
    BY <1>0, <2>1, ReceiveFields
  <2>4. retiredThen' = retired /\ retired' = retired
    BY <1>2, <2>1 DEF Receive, vars, histVars
  <2>5. QED
    BY <2>2, <2>3, <2>4 DEF NothingDeleted
<1>3. CASE NoReader
  BY <1>3 DEF NoReader, NoRequest, StayEnded, NotPicked, NothingDeleted, Busy
<1>4. CASE ReaderGoesOn
  <2>1. rd.pc # "idle" /\ retiredThen' = retiredThen /\ retired' = retired
    BY <1>4, ReaderIsBusy DEF Busy, ReaderGoesOn, readerHist, vars, histVars
  <2>2. QED
    BY <1>4, <2>1, StayEndedRead, NotPickedRead DEF DeletedInv
<1>5. CASE StoreGoesOn
  <2>0. UNCHANGED <<rd, retiredThen>> /\ (Busy' <=> Busy) /\ Answered' = Answered
    BY <1>5 DEF StoreGoesOn, readerHist, Busy, Answered
  <2>1. Then'
    BY <1>0, <2>0, RetiredStays DEF DeletedInv
  <2>2. CASE rd.pc # "idle" /\ Booked
    <3>1. \A id \in retiredThen : EndedAgain(id) => EndedAgain(id)'
      BY <1>0, <2>2, EndedAgainStays DEF HeirInv
    <3>2. StayEnded'
      <4>1. CASE ~Busy
        BY <2>0, <4>1 DEF StayEnded
      <4>2. CASE Busy
        BY <1>0, <2>0, <2>2, <4>2, StayEndedStore DEF StayEnded
      <4>3. QED
        BY <4>1, <4>2
    <3>3. NotPicked' /\ NothingDeleted'
      BY <2>0, <3>1 DEF DeletedInv, NotPicked, NothingDeleted
    <3>4. QED
      BY <2>1, <3>2, <3>3
  <2>3. CASE rd.pc = "idle"
    BY <2>0, <2>1, <2>3 DEF StayEnded, NotPicked, NothingDeleted, Busy
  <2>4. CASE UNCHANGED <<heirs, deleting>> /\ UNCHANGED vars
    <3>1. \A id : EndedAgain(id)' <=> EndedAgain(id)
      BY <2>4 DEF EndedAgain
    <3>2. ndx' = ndx
      BY <2>4 DEF vars
    <3>3. QED
      BY <2>0, <2>1, <3>1, <3>2 DEF DeletedInv, StayEnded, NotPicked, NothingDeleted
  <2>5. QED
    BY <1>5, <2>2, <2>3, <2>4 DEF StoreGoesOn
<1>6. QED
  BY <1>2, <1>3, <1>4, <1>5, ReaderSteps

(* What had been deleted when the request came in is not in the answer, as     *)
(* long as the simulated clock is not behind the real one and a control read   *)
(* back from its file leads to every tile it was written to; the one exception *)
(* is a control that some handler ends once more.                              *)
THEOREM NothingDeletedCorrect ==
  ASSUME SimSkew >= 0, \A g \in Geos : Built[g] \subseteq Reread[g]
  PROVE  ReaderSpec => []NothingDeleted
<1>0. AllInFile
  BY DEF AllInFile
<1>1. ReaderInit => DeletedInv
  <2> SUFFICES ASSUME ReaderInit PROVE DeletedInv
    OBVIOUS
  <2>1. HeirInv /\ Init /\ rd.pc = "idle"
    BY InitHeirInv DEF ReaderInit, NoRequest
  <2>2. LoopInFile
    BY <2>1 DEF Init, LoopInFile, Idle, Begin
  <2>3. IndexedInFile
    <3>1. Base \in Ids
      BY StoreAssumption
    <3>2. QED
      BY <1>0, <2>1, <3>1, InitHolds, LaneInFile DEF IndexedInFile
  <2>4. QED
    BY <2>1, <2>2, <2>3 DEF DeletedInv, StayEnded, NotPicked, NothingDeleted, Busy
<1>2. DeletedInv /\ [ReaderNext]_readerVars => DeletedInv'
  BY <1>0, NextDeletedInv
<1>3. DeletedInv => NothingDeleted
  BY DEF DeletedInv
<1>4. QED
  BY <1>1, <1>2, <1>3, PTL DEF ReaderSpec

-----------------------------------------------------------------------------
(* What stays in force, and what comes to be.                                 *)
LEMMA NewIsLive ==
  ASSUME Typed, [Next]_vars, NEW tile \in Tiles, NEW id, Holds(tile, id)', ~Holds(tile, id)
  PROVE  LiveIn(tile, id)'
<1>0. ndx[tile] \in Seq(IndexRecord)
  BY DEF Typed, TypeOK
<1>1. PICK k \in 1..Len(ndx'[tile]) : ndx'[tile][k].id = id
  BY DEF Holds
<1>2. PICK t \in Threads : k = Len(ndx[tile]) + 1 /\ IndexTile(t, tile)
  BY <1>1, IndexGrows DEF Holds
<1>3. ndx'[tile] # ndx[tile]
  BY <1>0, <1>1, <1>2
<1>4. ASSUME NEW u \in Threads, ndx'[tile] = Append(ndx[tile], NewRecord(u))
      PROVE  ndx'[tile][k].end = Forever
  <2>1. ndx'[tile][k] = NewRecord(u)
    BY <1>0, <1>2, <1>4, Appended
  <2>2. QED
    BY <2>1 DEF NewRecord
<1>5. ASSUME NEW u \in Threads, th[u].pos \in Nat, th[u].ts \in Int,
             ndx'[tile] = [ndx[tile] EXCEPT ![th[u].pos].end = th[u].ts]
      PROVE  FALSE
  <2>1. Len(ndx'[tile]) = Len(ndx[tile]) /\ Len(ndx[tile]) \in Nat
    BY <1>0, <1>5, EndWritten
  <2>2. QED
    BY <1>1, <1>2, <2>1
<1>6. \/ \E u \in Threads : ndx'[tile] = Append(ndx[tile], NewRecord(u))
      \/ \E u \in Threads : /\ th[u].pos \in Nat /\ th[u].ts \in Int
                            /\ ndx'[tile] = [ndx[tile] EXCEPT ![th[u].pos].end = th[u].ts]
  BY <1>3, IndexChange
<1>7. QED
  BY <1>1, <1>4, <1>5, <1>6 DEF LiveIn

LEMMA LiveStays ==
  ASSUME Indexed, [Next]_vars, NEW tile \in Tiles, NEW id, LiveIn(tile, id)
  PROVE  \/ LiveIn(tile, id)'
         \/ \E t \in Threads : MarkEnd(t, tile) /\ th[t].orig = id
<1>1. PICK k \in 1..Len(ndx[tile]) : ndx[tile][k].id = id /\ ndx[tile][k].end = Forever
  BY DEF LiveIn
<1>2. k \in 1..Len(ndx'[tile]) /\ ndx'[tile][k].id = id
  BY <1>1, RecordsStay DEF Indexed, Stored
<1>3. CASE ndx'[tile][k].end = Forever
  BY <1>2, <1>3 DEF LiveIn
<1>4. CASE ndx'[tile][k].end # Forever
  BY <1>1, <1>4, EndChanges
<1>5. QED
  BY <1>3, <1>4

LEMMA TooOldStays ==
  ASSUME Typed, [Next]_vars, NEW id, NEW b, TooOld(id, b)
  PROVE  TooOld(id, b)'
<1>0. PICK tile \in Tiles : \E r \in Records(tile) : r.id = id /\ r.start < b.oldest
  BY DEF TooOld
<1>1. PICK r \in Records(tile) : r.id = id /\ r.start < b.oldest
  BY <1>0
<1>2. PICK k \in 1..Len(ndx[tile]) : r = ndx[tile][k]
  BY <1>1 DEF Records
<1>3. /\ k \in 1..Len(ndx'[tile]) /\ ndx'[tile][k].id = id
      /\ ndx'[tile][k].start < b.oldest
  BY <1>1, <1>2, RecordsStay
<1>4. ndx'[tile][k] \in Records(tile)'
  BY <1>3 DEF Records
<1>5. QED
  BY <1>3, <1>4 DEF TooOld

LEMMA ExcusedStays ==
  ASSUME Booked, UNCHANGED endedThen, NEW h, NEW id, Excused(h, id)
  PROVE  Excused(h, id)'
BY DEF Booked, Excused

(* An edit that is about to end the original in a tile has its replacement    *)
(* there.                                                                     *)
LEMMA SuccessorHolds ==
  ASSUME HeirInv, NEW t \in Threads, NEW tile \in Tiles, MarkEnd(t, tile), th[t].op = "edit"
  PROVE  Holds(tile, th[t].id)
<1>0. EndIndexed /\ Indexed /\ Typed
  BY DEF HeirInv, ReadInv, EndIndexed, Indexed, Stored
<1>1. th[t].pc = "mark" /\ tile \in th[t].todo
  BY DEF MarkEnd, IsNext
<1>2. th[t].orig \in Ids /\ Holds(tile, th[t].orig)
  BY <1>0, MarkEndEnds
<1>3. tile \in FileTiles(th[t].orig) \cap CrossedTiles(th[t].orig)
  BY <1>1, <1>2 DEF HeirInv, HandInv, EndsInFile, IndexedCrossed
<1>4. th[t].orig \in Drawable
  BY <1>0, <1>2 DEF Holds, Indexed, IndexInv, IndexedDrawable
<1>5. th[t].id \in Drawable
  BY <1>0, <1>4, ThreadShape DEF Shaped, Succeeds
<1>6. Unindexed(t) = {}
  BY <1>1 DEF Unindexed
<1>7. QED
  BY <1>0, <1>1, <1>3, <1>5, <1>6 DEF EndIndexed, EndInv, Replaced, Holds

(* Whatever the handlers do, a control in force in a tile keeps something in   *)
(* force there that replaces it, unless it is being deleted or was ended        *)
(* before: when an edit ends it, the replacement has come before it.            *)
LEMMA LedStays ==
  ASSUME HeirInv, LiveIsLed, Busy, [Next]_vars, Booked, UNCHANGED <<rd, endedThen>>,
         NEW id \in Ids, NEW tile \in Tiles, Led(id, tile)
  PROVE  Led(id, tile)'
<1>0. /\ Indexed /\ Typed /\ HeirsOrdered /\ HeirsBooked /\ rd.pc # "idle"
      /\ heirs \in [Ids -> SUBSET Ids]
  BY DEF HeirInv, ReadInv, EndIndexed, Indexed, Stored, Busy, ReaderTypeOK
<1>1. heirs[id] \subseteq heirs'[id]
  BY DEF Booked
<1>2. ASSUME NEW h \in heirs[id], Excused(h, id) PROVE Led(id, tile)'
  BY <1>1, <1>2, ExcusedStays DEF Led
<1>3. ASSUME NEW h \in heirs[id], LiveIn(tile, h)' PROVE Led(id, tile)'
  BY <1>1, <1>3 DEF Led
<1>4. ASSUME NEW h \in heirs[id], NEW t \in Threads, MarkEnd(t, tile), th[t].orig = h
      PROVE  Led(id, tile)'
  <2>1. th[t].pc = "mark" /\ h \in Ids /\ th[t].op \in {"edit", "delete", "cleanup"}
    BY <1>0, <1>4, ThreadShape DEF MarkEnd, Shaped
  <2>2. CASE th[t].op # "edit"
    <3>1. h \in deleting
      BY <1>0, <1>4, <2>1, <2>2 DEF HeirsBooked, Deletions
    <3>2. QED
      BY <1>2, <3>1 DEF Excused
  <2>3. CASE th[t].op = "edit"
    <3> DEFINE n == th[t].id
    <3>1. n \in Ids /\ n # h
      BY <1>0, <1>4, <2>3, ThreadShape DEF HeirInv, HandInv, EditsApart, Shaped
    <3>2. n \in heirs[h] /\ heirs[h] \subseteq heirs[id]
      BY <1>0, <1>4, <2>1, <2>3 DEF HeirsOrdered, HeirsBooked, Replacements
    <3>3. n # id
      BY <1>0, <1>4, <2>1, <3>1, <3>2 DEF HeirsOrdered
    <3>4. Holds(tile, n)
      BY <1>4, <2>3, SuccessorHolds
    <3> HIDE DEF n
    <3>5. CASE n \in endedThen
      BY <1>2, <3>2, <3>3, <3>5 DEF Excused
    <3>6. CASE n \notin endedThen
      <4>1. PICK k \in heirs[n] : LiveIn(tile, k) \/ Excused(k, n)
        BY <3>1, <3>4, <3>6 DEF LiveIsLed, Led
      <4>2. k \in heirs[id] /\ k \in Ids /\ n \in heirs[id]
        BY <1>0, <3>1, <3>2, <4>1 DEF HeirsOrdered
      <4>3. k # id /\ k # h
        BY <1>0, <2>1, <3>1, <3>2, <3>3, <4>1, <4>2 DEF HeirsOrdered
      <4>4. CASE LiveIn(tile, k)
        <5>1. LiveIn(tile, k)'
          BY <1>0, <1>4, <4>3, <4>4, MarkEndEnds DEF LiveIn
        <5>2. QED
          BY <1>3, <4>2, <5>1
      <4>5. CASE Excused(k, n)
        BY <1>2, <4>2, <4>3, <4>5 DEF Excused
      <4>6. QED
        BY <4>1, <4>4, <4>5
    <3>7. QED
      BY <3>5, <3>6
  <2>4. QED
    BY <2>2, <2>3
<1>5. PICK h \in heirs[id] : LiveIn(tile, h) \/ Excused(h, id)
  BY DEF Led
<1>6. QED
  BY <1>0, <1>2, <1>3, <1>4, <1>5, LiveStays

LEMMA MetStays ==
  ASSUME HeirInv, Busy, [Next]_vars, Booked, UNCHANGED <<rd, asked, endedThen>>,
         NEW id \in Ids, Met(id)
  PROVE  Met(id)'
<1>0. Typed
  BY DEF HeirInv, ReadInv, EndIndexed, Indexed, Stored
<1>1. heirs[id] \subseteq heirs'[id]
  BY DEF Booked
<1>2. PICK h \in heirs[id] :
        \/ h \in Answered \/ Excused(h, id) \/ TooOld(h, asked[1])
        \/ \E p \in rd.pending : p.id = h
  BY DEF Met
<1>3. CASE h \in Answered \/ \E p \in rd.pending : p.id = h
  BY <1>1, <1>3 DEF Met, Answered
<1>4. CASE Excused(h, id)
  BY <1>1, <1>4, ExcusedStays DEF Met
<1>5. CASE TooOld(h, asked[1])
  <2>1. ASSUME NEW b, b = asked[1] PROVE TooOld(h, b)'
    BY <1>0, <1>5, <2>1, TooOldStays
  <2>2. TooOld(h, asked[1])'
    BY <2>1 DEF TooOld, Records
  <2>3. QED
    BY <1>1, <2>2 DEF Met
<1>6. QED
  BY <1>2, <1>3, <1>4, <1>5

-----------------------------------------------------------------------------
(* A control in force somewhere within the bounds is in a tile still ahead.   *)
LEMMA GapStart ==
  ASSUME HeirInv, HeirInv', UNCHANGED vars, NEW request \in Requests, Receive(request)
  PROVE  LiveIsLed' /\ WantedIds' /\ AsksOnce' /\ StillAhead' /\ NoGap'
<1>0. /\ Typed /\ ReaderTypeOK /\ HeirsOrdered' /\ clock \in Int /\ clock <= MaxClock
      /\ heirs' \in [Ids -> SUBSET Ids]
  BY DEF HeirInv, ReadInv, EndIndexed, Indexed, Stored, Typed, TypeOK, ReaderTypeOK
<1>1. /\ rd'.pc = "tile" /\ rd'.now = SourceTime /\ rd'.bounds \in Parsed(request)
      /\ rd'.todo = rd'.bounds[1].tiles /\ rd'.loaded = {} /\ rd'.processed = {}
  BY <1>0, ReceiveFields
<1>2. /\ asked' = request /\ ndx' = ndx /\ request # <<>> /\ request \in Seq(TcBounds)
      /\ wanted' = [i \in 1..Len(request) |-> InForceWithin(request[i])]
  BY ReaderAssumption DEF Receive, vars
<1>3. ASSUME NEW g \in Ids, NEW tile \in Tiles, LiveIn(tile, g) PROVE Led(g, tile)'
  BY <1>0, <1>2, <1>3 DEF HeirsOrdered, Led, LiveIn
<1>4. LiveIsLed'
  <2> SUFFICES ASSUME NEW tile \in Tiles, NEW g \in Ids, Holds(tile, g), g \notin endedThen'
               PROVE  Led(g, tile)'
    BY <1>2 DEF LiveIsLed, Holds
  <2>1. PICK k \in 1..Len(ndx[tile]) : ndx[tile][k].id = g
    BY DEF Holds
  <2>2. ndx[tile][k] \in Records(tile)
    BY DEF Records
  <2>3. ndx[tile][k].end = Forever
    BY <2>1, <2>2 DEF Receive
  <2>4. QED
    BY <1>3, <2>1, <2>3 DEF LiveIn
<1>5. Len(asked') = 1 => wanted'[1] = InForceWithin(request[1])
  BY <1>2
<1>6. WantedIds'
  BY <1>5 DEF WantedIds, InForceWithin
<1>7. AsksOnce'
  <2> SUFFICES ASSUME Len(request) = 1
               PROVE  /\ rd'.bounds = asked' /\ rd'.now < Forever
                      /\ wanted'[1] \subseteq {id \in Ids : GeoOf[id] \in asked'[1].inside}
    BY <1>1, <1>2 DEF AsksOnce, OneBox
  <2>1. rd'.bounds = asked'
    BY <1>1, <1>2, RequestBounds
  <2>2. rd'.now < Forever
    BY <1>0, <1>1, StoreAssumption DEF SourceTime
  <2>3. QED
    BY <1>2, <1>5, <2>1, <2>2 DEF InForceWithin
<1>8. StillAhead'
  <2> SUFFICES ASSUME Len(request) = 1, NEW id \in wanted'[1]
               PROVE  \E x \in Ahead' : Led(id, x)'
    BY <1>2 DEF StillAhead, OneBox
  <2>1. rd'.bounds = request
    BY <1>1, RequestBounds
  <2>2. Ahead' = request[1].tiles
    BY <1>1, <2>1 DEF Ahead
  <2>3. id \in Ids /\ \E x \in request[1].tiles : \E r \in Records(x) : r.id = id /\ r.end = Forever
    BY <1>2, <1>5 DEF InForceWithin
  <2>4. PICK x \in request[1].tiles : \E r \in Records(x) : r.id = id /\ r.end = Forever
    BY <2>3
  <2>5. x \in Tiles
    BY <2>4, <2>1, <1>1, RequestBounds
  <2>6. LiveIn(x, id)
    BY <2>4 DEF Records, LiveIn
  <2>7. QED
    BY <1>3, <2>2, <2>3, <2>5, <2>6
<1>9. NoGap'
  BY <1>1 DEF NoGap
<1>10. QED
  BY <1>4, <1>6, <1>7, <1>8, <1>9

(* A step of the store.                                                       *)
LEMMA GapStore ==
  ASSUME GapInv, HeirInv', rd.pc # "idle", [Next]_vars, Booked, UNCHANGED <<rd, readerHist>>
  PROVE  LiveIsLed' /\ WantedIds' /\ AsksOnce' /\ StillAhead' /\ NoGap'
<1>0. /\ Typed /\ HeirInv /\ LiveIsLed /\ HeirsOrdered' /\ UNCHANGED <<rd, asked, wanted, endedThen>>
      /\ heirs' \in [Ids -> SUBSET Ids]
  BY DEF GapInv, HeirInv, ReadInv, EndIndexed, Indexed, Stored, readerHist, ReaderTypeOK
<1>1. (Busy' <=> Busy) /\ Answered' = Answered /\ Ahead' = Ahead
  BY <1>0 DEF Busy, Answered, Ahead, IsNext
<1>2. LiveIsLed'
  <2> SUFFICES ASSUME Busy, NEW tile \in Tiles, NEW g \in Ids, Holds(tile, g)', g \notin endedThen
               PROVE  Led(g, tile)'
    BY <1>0, <1>1 DEF LiveIsLed
  <2>1. CASE Holds(tile, g)
    BY <1>0, <2>1, LedStays DEF LiveIsLed
  <2>2. CASE ~Holds(tile, g)
    BY <1>0, <2>2, NewIsLive DEF HeirsOrdered, Led
  <2>3. QED
    BY <2>1, <2>2
<1>3. WantedIds' /\ AsksOnce'
  BY <1>0, <1>1 DEF GapInv, WantedIds, AsksOnce, OneBox
<1>4. StillAhead'
  <2> SUFFICES ASSUME OneBox, NEW id \in wanted[1]
               PROVE  (\E x \in Ahead : Led(id, x)') \/ Met(id)'
    BY <1>0, <1>1 DEF StillAhead, OneBox
  <2>1. id \in Ids /\ Busy
    BY DEF GapInv, WantedIds, OneBox, Busy
  <2>2. Ahead \subseteq Tiles
    BY <1>0 DEF HeirInv, ReadInv, ReaderTypeOK, Reader, Ahead
  <2>3. CASE \E x \in Ahead : Led(id, x)
    BY <1>0, <2>1, <2>2, <2>3, LedStays
  <2>4. CASE Met(id)
    BY <1>0, <2>1, <2>4, MetStays
  <2>5. QED
    BY <2>3, <2>4 DEF GapInv, StillAhead
<1>5. NoGap'
  <2> SUFFICES ASSUME rd.pc = "send", Len(asked) = 1, NEW id \in wanted[1]
               PROVE  \E heir \in heirs'[id] :
                        \/ heir \in Answered \cup deleting' \cup (endedThen \ {id})
                        \/ TooOld(heir, asked[1])'
    BY <1>0, <1>1 DEF NoGap, Covered
  <2>1. id \in Ids
    BY DEF GapInv, WantedIds
  <2>2. heirs[id] \subseteq heirs'[id] /\ deleting \subseteq deleting'
    BY <2>1 DEF Booked
  <2>3. PICK heir \in heirs[id] : \/ heir \in Answered \cup deleting \cup (endedThen \ {id})
                                  \/ TooOld(heir, asked[1])
    BY DEF GapInv, NoGap, Covered
  <2>4. ASSUME NEW b, b = asked[1], TooOld(heir, b) PROVE TooOld(heir, b)'
    BY <1>0, <2>4, TooOldStays
  <2>5. TooOld(heir, asked[1]) => TooOld(heir, asked[1])'
    BY <1>0, <2>4 DEF TooOld, Records
  <2>6. QED
    BY <2>2, <2>3, <2>5
<1>6. QED
  BY <1>2, <1>3, <1>4, <1>5

-----------------------------------------------------------------------------
(* The reader's own steps: they move the tiles that lie ahead and what has    *)
(* been met.                                                                  *)
MetSoFar(id, pending, answered) ==
  \E h \in heirs[id] :
    \/ h \in answered \/ Excused(h, id) \/ TooOld(h, asked[1])
    \/ \E p \in pending : p.id = h

Underway == GapInv /\ ReaderGoesOn /\ OneBox

LEMMA UnderwayFacts ==
  ASSUME Underway
  PROVE  /\ Typed /\ rd \in Reader /\ ReadShape /\ PicksKept /\ HeirsOrdered /\ Busy
         /\ UNCHANGED <<ndx, asked, wanted, endedThen, heirs, deleting>>
         /\ asked \in Seq(TcBounds) /\ asked[1] \in TcBounds
         /\ asked[1].inside \subseteq asked[1].near
         /\ Head(rd.bounds) = asked[1] /\ wanted[1] \subseteq Ids
         /\ \A id \in wanted[1] : (\E x \in Ahead : Led(id, x)) \/ Met(id)
<1>1. /\ Typed /\ rd \in Reader /\ ReadShape /\ PicksKept /\ HeirsOrdered /\ Busy
      /\ UNCHANGED <<ndx, asked, wanted, endedThen, heirs, deleting>>
      /\ wanted[1] \subseteq Ids /\ ReaderTypeOK
  BY DEF Underway, GapInv, HeirInv, ReadInv, EndIndexed, Indexed, Stored, ReaderTypeOK,
         ReaderGoesOn, readerHist, vars, OneBox, WantedIds, Busy
<1>2. asked \in Requests
  BY <1>1 DEF Underway, OneBox, ReaderTypeOK
<1>3. asked \in Seq(TcBounds) /\ asked[1] \in TcBounds /\ asked[1].inside \subseteq asked[1].near
  BY <1>2, ReaderAssumption DEF Underway, OneBox
<1>4. Head(rd.bounds) = asked[1]
  BY <1>3 DEF Underway, GapInv, AsksOnce
<1>5. QED
  BY <1>1, <1>3, <1>4 DEF Underway, GapInv, StillAhead

LEMMA SameLed ==
  ASSUME Underway, NEW id, NEW x
  PROVE  Led(id, x)' <=> Led(id, x)
BY UnderwayFacts DEF Led, LiveIn, Excused

LEMMA SameMet ==
  ASSUME Underway, NEW id, MetSoFar(id, rd'.pending, Answered')
  PROVE  Met(id)'
BY UnderwayFacts DEF Met, MetSoFar, Excused, TooOld, Records

(* A tile that is read: what is in force there is picked.                     *)
LEMMA FoundMeets ==
  ASSUME Underway, NEW tile \in Tiles, NEW id \in wanted[1], Led(id, tile)
  PROVE  MetSoFar(id, Found(tile, asked[1]), Answered)
<1>0. /\ id \in Ids /\ GeoOf[id] \in asked[1].near /\ rd.now < Forever
      /\ asked[1].oldest \in Int
  BY UnderwayFacts DEF Underway, GapInv, AsksOnce, TcBounds
<1>1. PICK h \in heirs[id] : LiveIn(tile, h) \/ Excused(h, id)
  BY DEF Led
<1>2. CASE Excused(h, id)
  BY <1>1, <1>2 DEF MetSoFar
<1>3. CASE LiveIn(tile, h)
  <2>1. PICK k \in 1..Len(ndx[tile]) : ndx[tile][k].id = h /\ ndx[tile][k].end = Forever
    BY <1>3 DEF LiveIn
  <2>2. ndx[tile][k] \in Records(tile) /\ ndx[tile][k].start \in Int
    <3>1. ndx[tile][k] \in IndexRecord
      BY UnderwayFacts, RecordIds
    <3>2. QED
      BY <3>1 DEF Records, IndexRecord
  <2>3. CASE ndx[tile][k].start < asked[1].oldest
    BY <1>1, <2>1, <2>2, <2>3 DEF TooOld, MetSoFar
  <2>4. CASE ~(ndx[tile][k].start < asked[1].oldest)
    <3>1. GeoOf[h] = GeoOf[id]
      BY <1>0, <1>1, UnderwayFacts DEF HeirsOrdered
    <3>2. Picked(ndx[tile][k], asked[1])
      BY <1>0, <2>1, <2>2, <2>4, <3>1, StoreAssumption DEF Picked
    <3>3. [at |-> k, id |-> h] \in Found(tile, asked[1])
      BY <2>1, <3>2 DEF Found
    <3>4. QED
      BY <1>1, <3>3 DEF MetSoFar
  <2>5. QED
    BY <2>3, <2>4
<1>4. QED
  BY <1>1, <1>2, <1>3

(* A tile without an index has nothing in force.                              *)
LEMMA EmptyMeets ==
  ASSUME Underway, NEW tile, ndx[tile] = <<>>, NEW id, Led(id, tile)
  PROVE  MetSoFar(id, {}, Answered)
BY DEF Led, LiveIn, MetSoFar

LEMMA GapVisit ==
  ASSUME Underway, NEW tile \in Tiles, VisitTile(tile)
  PROVE  AsksOnce' /\ StillAhead' /\ NoGap'
<1>0. /\ rd \in Reader /\ Typed /\ Busy /\ ReadShape /\ Head(rd.bounds) = asked[1]
      /\ UNCHANGED <<asked, wanted>>
  BY UnderwayFacts
<1>1. /\ rd.pc = "tile" /\ IsNext(tile, rd.todo) /\ rd'.bounds = rd.bounds /\ rd'.now = rd.now
      /\ rd'.processed = rd.processed /\ rd'.answer = rd.answer /\ rd'.pc \in {"tile", "control"}
  BY <1>0, VisitFields DEF SameRequest, SameAnswer
<1>2. Ahead = rd.todo /\ tile \in Ahead /\ Answered' = Answered /\ rd.pending = {}
  BY <1>0, <1>1 DEF Ahead, IsNext, Answered, ReadShape
<1>3. /\ rd.bounds = asked /\ rd.now < Forever /\ rd.loaded \cap Ahead = {}
      /\ \A id \in rd.processed : id \in Answered \/ GeoOf[id] \notin asked[1].inside
      /\ wanted[1] \subseteq {id \in Ids : GeoOf[id] \in asked[1].inside}
  BY DEF Underway, GapInv, AsksOnce
<1>4. NoGap'
  BY <1>1 DEF NoGap
<1>5. ASSUME rd'.loaded \cap Ahead' = {} PROVE AsksOnce'
  BY <1>0, <1>1, <1>2, <1>3, <1>5 DEF AsksOnce
<1>6. CASE /\ ndx[tile] = <<>> /\ rd'.pc = "tile" /\ rd'.todo = rd.todo \ {tile}
           /\ rd'.loaded = rd.loaded /\ rd'.pending = rd.pending
  <2>1. Ahead' = Ahead \ {tile}
    BY <1>2, <1>6 DEF Ahead
  <2>2. ASSUME NEW id \in wanted[1] PROVE (\E x \in Ahead' : Led(id, x)') \/ Met(id)'
    <3>1. CASE \E x \in Ahead \ {tile} : Led(id, x)
      BY <2>1, <3>1, SameLed
    <3>2. CASE Led(id, tile)
      <4>1. MetSoFar(id, {}, Answered)
        BY <1>6, <3>2, EmptyMeets
      <4>2. QED
        BY <1>2, <1>6, <4>1, SameMet
    <3>3. CASE Met(id)
      BY <1>2, <1>6, <3>3, SameMet DEF Met, MetSoFar
    <3>4. QED
      BY <2>2, <3>1, <3>2, <3>3, UnderwayFacts
  <2>3. QED
    BY <1>0, <1>3, <1>4, <1>5, <1>6, <2>1, <2>2 DEF StillAhead
<1>7. CASE /\ tile \notin rd.loaded /\ rd'.pc = "control" /\ rd'.todo = rd.todo
           /\ rd'.loaded = rd.loaded \cup {tile} /\ rd'.pending = Found(tile, asked[1])
  <2>1. Ahead' = {x \in rd.todo : ~IsNext(x, rd.todo)}
    BY <1>7 DEF Ahead, IsNext
  <2>2. Ahead' \subseteq Ahead \ {tile} /\ Ahead \ {tile} \subseteq Ahead'
    <3>1. \A x \in rd.todo : IsNext(x, rd.todo) => x = tile
      BY <1>0, <1>1, NextIsOne DEF Reader
    <3>2. QED
      BY <1>1, <1>2, <2>1, <3>1
  <2>3. ASSUME NEW id \in wanted[1] PROVE (\E x \in Ahead' : Led(id, x)') \/ Met(id)'
    <3>1. CASE \E x \in Ahead \ {tile} : Led(id, x)
      BY <2>2, <3>1, SameLed
    <3>2. CASE Led(id, tile)
      BY <1>2, <1>7, <3>2, FoundMeets, SameMet
    <3>3. CASE Met(id)
      <4>1. MetSoFar(id, Found(tile, asked[1]), Answered)
        BY <1>2, <3>3 DEF Met, MetSoFar
      <4>2. QED
        BY <1>2, <1>7, <4>1, SameMet
    <3>4. QED
      BY <2>3, <3>1, <3>2, <3>3, UnderwayFacts
  <2>4. QED
    BY <1>0, <1>3, <1>4, <1>5, <1>7, <2>2, <2>3 DEF StillAhead
<1>8. tile \notin rd.loaded
  BY <1>2, <1>3
<1>9. QED
  BY <1>0, <1>6, <1>7, <1>8, VisitFields DEF SamePicks

LEMMA GapTake ==
  ASSUME Underway, TakeControl
  PROVE  AsksOnce' /\ StillAhead' /\ NoGap'
<1>0. /\ rd \in Reader /\ PicksKept /\ Busy /\ Head(rd.bounds) = asked[1]
      /\ UNCHANGED <<asked, wanted>> /\ rd.pc = "control"
  BY UnderwayFacts DEF TakeControl
<1>1. /\ rd.bounds = asked /\ rd.now < Forever /\ rd.loaded \cap Ahead = {}
      /\ \A id \in rd.processed : id \in Answered \/ GeoOf[id] \notin asked[1].inside
      /\ wanted[1] \subseteq {id \in Ids : GeoOf[id] \in asked[1].inside}
  BY DEF Underway, GapInv, AsksOnce
<1>2. PICK p \in rd.pending :
        /\ p.id \in Ids
        /\ \/ rd' = [NoRequest EXCEPT !.pc = "failed"]
           \/ /\ rd'.pc = "control" /\ rd'.todo = rd.todo /\ SameRequest /\ SamePicks
              /\ rd'.pending = rd.pending \ {p}
              /\ rd'.processed = rd.processed \cup {p.id}
              /\ \/ /\ rd'.answer = rd.answer
                    /\ \/ p.id \in rd.processed \/ bin[p.id] = "absent"
                       \/ GeoOf[p.id] \notin asked[1].inside
                 \/ rd'.answer = Append(rd.answer, p.id)
  BY <1>0, TakeFields
<1>3. CASE rd' = [NoRequest EXCEPT !.pc = "failed"]
  <2>1. rd'.pc = "failed"
    BY <1>3 DEF NoRequest
  <2>2. QED
    BY <2>1 DEF AsksOnce, StillAhead, NoGap, OneBox, Busy
<1>4. CASE /\ rd'.pc = "control" /\ rd'.todo = rd.todo /\ SameRequest /\ SamePicks
           /\ rd'.pending = rd.pending \ {p}
           /\ rd'.processed = rd.processed \cup {p.id}
           /\ \/ /\ rd'.answer = rd.answer
                 /\ \/ p.id \in rd.processed \/ bin[p.id] = "absent"
                    \/ GeoOf[p.id] \notin asked[1].inside
              \/ rd'.answer = Append(rd.answer, p.id)
  <2>1. Ahead' = Ahead /\ rd'.loaded = rd.loaded /\ rd'.bounds = rd.bounds /\ rd'.now = rd.now
    BY <1>0, <1>4 DEF Ahead, IsNext, SamePicks, SameRequest
  <2>2. Answered \subseteq Answered' /\ (p.id \in Answered' \/ GeoOf[p.id] \notin asked[1].inside)
    <3>1. CASE rd'.answer = Append(rd.answer, p.id)
      <4>1. rd.answer \in Seq(Ids)
        BY <1>0 DEF Reader
      <4>2. Answered' = Answered \cup {p.id}
        <5>1. ASSUME NEW e \in Answered' PROVE e \in Answered \cup {p.id}
          BY <3>1, <4>1, <5>1, Appended DEF Answered
        <5>2. ASSUME NEW e \in Answered PROVE e \in Answered'
          BY <3>1, <4>1, <5>2, Appended DEF Answered
        <5>3. p.id \in Answered'
          <6>1. /\ Len(rd.answer) + 1 \in 1..Len(rd'.answer)
                /\ rd'.answer[Len(rd.answer) + 1] = p.id
            BY <3>1, <4>1, Appended
          <6>2. QED
            BY <6>1 DEF Answered
        <5>4. QED
          BY <5>1, <5>2, <5>3
      <4>3. QED
        BY <4>2
    <3>2. CASE /\ rd'.answer = rd.answer
               /\ \/ p.id \in rd.processed \/ bin[p.id] = "absent"
                  \/ GeoOf[p.id] \notin asked[1].inside
      <4>1. bin[p.id] # "absent"
        BY <1>0 DEF PicksKept, Kept
      <4>2. Answered' = Answered
        BY <3>2 DEF Answered
      <4>3. QED
        BY <1>1, <3>2, <4>1, <4>2
    <3>3. QED
      BY <1>4, <3>1, <3>2
  <2>3. AsksOnce'
    BY <1>0, <1>1, <1>4, <2>1, <2>2 DEF AsksOnce
  <2>4. ASSUME NEW id \in wanted[1] PROVE (\E x \in Ahead' : Led(id, x)') \/ Met(id)'
    <3>1. CASE \E x \in Ahead : Led(id, x)
      BY <2>1, <3>1, SameLed
    <3>2. CASE Met(id)
      <4>1. PICK h \in heirs[id] :
              \/ h \in Answered \/ Excused(h, id) \/ TooOld(h, asked[1])
              \/ \E q \in rd.pending : q.id = h
        BY <3>2 DEF Met
      <4>2. CASE \E q \in rd.pending \ {p} : q.id = h
        BY <1>4, <4>2, SameMet DEF MetSoFar
      <4>3. CASE h = p.id
        <5>1. GeoOf[h] \in asked[1].inside
          BY <1>1, <2>4, <4>1, UnderwayFacts DEF HeirsOrdered
        <5>2. QED
          BY <2>2, <4>1, <4>3, <5>1, SameMet DEF MetSoFar
      <4>4. CASE h \in Answered \/ Excused(h, id) \/ TooOld(h, asked[1])
        BY <2>2, <4>1, <4>4, SameMet DEF MetSoFar
      <4>5. QED
        BY <4>1, <4>2, <4>3, <4>4
    <3>3. QED
      BY <2>4, <3>1, <3>2, UnderwayFacts
  <2>5. QED
    BY <1>0, <1>4, <2>3, <2>4 DEF StillAhead, NoGap
<1>5. QED
  BY <1>2, <1>3, <1>4

LEMMA GapTileDone ==
  ASSUME Underway, TileDone
  PROVE  AsksOnce' /\ StillAhead' /\ NoGap'
<1>0. rd \in Reader /\ Busy /\ UNCHANGED <<asked, wanted>>
  BY UnderwayFacts
<1>1. /\ rd.pc = "control" /\ rd.pending = {} /\ rd'.pending = {} /\ rd'.pc = "tile"
      /\ rd'.todo = {x \in rd.todo : ~IsNext(x, rd.todo)}
      /\ SameRequest /\ SamePicks /\ SameAnswer
  BY <1>0, TileDoneFields
<1>2. Ahead' = Ahead /\ Answered' = Answered
  BY <1>1 DEF Ahead, Answered, SameAnswer
<1>3. AsksOnce'
  BY <1>0, <1>1, <1>2 DEF AsksOnce, Underway, GapInv, SameRequest, SamePicks, SameAnswer
<1>4. ASSUME NEW id \in wanted[1] PROVE (\E x \in Ahead' : Led(id, x)') \/ Met(id)'
  <2>1. CASE \E x \in Ahead : Led(id, x)
    BY <1>2, <2>1, SameLed
  <2>2. CASE Met(id)
    BY <1>1, <1>2, <2>2, SameMet DEF Met, MetSoFar
  <2>3. QED
    BY <1>4, <2>1, <2>2, UnderwayFacts
<1>5. QED
  BY <1>0, <1>1, <1>3, <1>4 DEF StillAhead, NoGap

(* The last tile is behind: what was wanted has been met.                     *)
LEMMA GapBoundsDone ==
  ASSUME Underway, BoundsDone
  PROVE  AsksOnce' /\ StillAhead' /\ NoGap'
<1>0. /\ rd \in Reader /\ Busy /\ ReadShape /\ UNCHANGED <<asked, wanted, heirs, endedThen, deleting, ndx>>
      /\ rd.bounds = asked /\ Len(asked) = 1
  BY UnderwayFacts DEF Underway, GapInv, AsksOnce, OneBox
<1>1. rd'.pc = "send" /\ rd'.answer = rd.answer /\ rd.todo = {} /\ rd.pc = "tile"
  BY <1>0, BoundsDoneFields DEF ReadShape
<1>2. Ahead = {} /\ rd.pending = {} /\ Answered' = Answered
  BY <1>0, <1>1 DEF Ahead, ReadShape, Answered
<1>3. NoGap'
  <2> SUFFICES ASSUME NEW id \in wanted[1]
               PROVE  Covered(id, asked[1])'
    BY <1>0 DEF NoGap
  <2>1. Met(id)
    BY <1>2, UnderwayFacts
  <2>2. PICK h \in heirs[id] : h \in Answered \/ Excused(h, id) \/ TooOld(h, asked[1])
    BY <1>2, <2>1 DEF Met
  <2>3. TooOld(h, asked[1])' <=> TooOld(h, asked[1])
    BY <1>0 DEF TooOld, Records
  <2>4. QED
    BY <1>0, <1>2, <2>2, <2>3 DEF Covered, Excused
<1>4. QED
  BY <1>1, <1>3 DEF AsksOnce, StillAhead, OneBox, Busy

LEMMA GapRead ==
  ASSUME GapInv, ReaderGoesOn
  PROVE  LiveIsLed' /\ WantedIds' /\ AsksOnce' /\ StillAhead' /\ NoGap'
<1>0. UNCHANGED <<ndx, asked, wanted, endedThen, heirs, deleting>> /\ Busy
  BY ReaderIsBusy DEF ReaderGoesOn, readerHist, vars
<1>1. LiveIsLed'
  <2>1. \A id, x : Led(id, x)' <=> Led(id, x)
    BY <1>0 DEF Led, LiveIn, Excused
  <2>2. QED
    BY <1>0, <2>1 DEF GapInv, LiveIsLed, Holds
<1>2. WantedIds'
  BY <1>0 DEF GapInv, WantedIds, Busy
<1>3. CASE OneBox
  <2>1. Underway
    BY <1>3 DEF Underway
  <2>2. AsksOnce' /\ StillAhead' /\ NoGap'
    BY <2>1, GapVisit, GapTake, GapTileDone, GapBoundsDone DEF ReaderGoesOn
  <2>3. QED
    BY <1>1, <1>2, <2>2
<1>4. CASE ~OneBox
  BY <1>0, <1>1, <1>2, <1>4 DEF OneBox, AsksOnce, StillAhead, NoGap
<1>5. QED
  BY <1>3, <1>4

LEMMA NextGapInv ==
  ASSUME GapInv, [ReaderNext]_readerVars
  PROVE  GapInv'
<1>0. HeirInv /\ HeirInv' /\ [Next]_vars
  BY NextHeirInv, ReaderSteps DEF GapInv
<1> SUFFICES LiveIsLed' /\ WantedIds' /\ AsksOnce' /\ StillAhead' /\ NoGap'
  BY <1>0 DEF GapInv
<1>1. CASE UNCHANGED vars /\ \E request \in Requests : Receive(request)
  BY <1>0, <1>1, GapStart
<1>2. CASE rd'.pc = "idle"
  BY <1>2 DEF LiveIsLed, WantedIds, AsksOnce, StillAhead, NoGap, OneBox, Busy
<1>3. CASE NoReader
  BY <1>2, <1>3 DEF NoReader, NoRequest
<1>4. CASE StoreGoesOn
  <2>0. UNCHANGED <<rd, readerHist>>
    BY <1>4 DEF StoreGoesOn
  <2>1. CASE rd.pc # "idle" /\ Booked
    BY <1>0, <2>0, <2>1, GapStore
  <2>2. CASE rd.pc = "idle"
    BY <1>2, <2>0, <2>2
  <2>3. CASE UNCHANGED <<heirs, deleting>> /\ UNCHANGED vars
    <3>1. UNCHANGED <<ndx, asked, wanted, endedThen>>
      BY <2>0, <2>3 DEF readerHist, vars
    <3>2. QED
      BY <2>0, <2>3, <3>1
         DEF GapInv, LiveIsLed, WantedIds, AsksOnce, StillAhead, NoGap, OneBox, Busy, Answered,
             Ahead, IsNext, Led, LiveIn, Holds, Excused, Met, TooOld, Records, Covered
  <2>4. QED
    BY <1>4, <2>1, <2>2, <2>3 DEF StoreGoesOn
<1>5. QED
  BY <1>1, <1>3, <1>4, GapRead, ReaderSteps

(* No gap, for one set of bounds: a control in force inside them when the      *)
(* request came in is in the answer, or what edits put in its place is, unless *)
(* that is being deleted, had been ended already or starts before the oldest   *)
(* time asked for; whatever the handlers do while the reader, without a lock,  *)
(* goes from tile to tile, and however often the server fails in between.      *)
THEOREM NoGapCorrect == ReaderSpec => []NoGap
<1>1. ReaderInit => GapInv
  <2> SUFFICES ASSUME ReaderInit PROVE GapInv
    OBVIOUS
  <2>1. HeirInv /\ rd.pc = "idle"
    BY InitHeirInv DEF ReaderInit, NoRequest
  <2>2. QED
    BY <2>1 DEF GapInv, LiveIsLed, WantedIds, AsksOnce, StillAhead, NoGap, OneBox, Busy
<1>2. GapInv /\ [ReaderNext]_readerVars => GapInv'
  BY NextGapInv
<1>3. GapInv => NoGap
  BY DEF GapInv
<1>4. QED
  BY <1>1, <1>2, <1>3, PTL DEF ReaderSpec
=============================================================================
