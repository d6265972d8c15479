------------------------------- MODULE LaneSpan -------------------------------
(***************************************************************************)
(* Drawing a control along a lane (web/script/map.js): every other point of *)
(* the lane's geometry is kept, a click begins a piece at least as long as  *)
(* the lane is wide, the pointer draws it out, and the piece sent is the    *)
(* one the second search for the point of the click found.  The service     *)
(* (CtrlTiles.addControl) turns the indexes back into points.               *)
(***************************************************************************)
EXTENDS Integers

CONSTANTS
  Lanes,
  NoLane,
  Full,        \* how many points the geometry of each lane has
  Mile,        \* how far along the lane each of the points kept is
  Wide,        \* how wide the lane is at each of the points kept
  MaxPieces    \* how many controls are drawn

Kept(lane) == 1 + Full[lane] \div 2
Index(lane) == 0..(Kept(lane) - 1)

ASSUME SpanAssumption ==
  /\ NoLane \notin Lanes /\ MaxPieces \in Nat
  /\ Full \in [Lanes -> Nat] /\ \A lane \in Lanes : Full[lane] >= 2

ASSUME MileAssumption ==
  \A lane \in Lanes :
    /\ Mile[lane] \in [Index(lane) -> Nat] /\ Wide[lane] \in [Index(lane) -> Nat \ {0}]
    /\ \A i, j \in Index(lane) : i < j => Mile[lane][i] < Mile[lane][j]

VARIABLES
  lsLane,    \* the lane a piece is drawn on
  lsDone,    \* whether the second click was made and the dialog is open
  lsCur,     \* oCurCLane of each lane: where the piece began and its ends
  lsShown,   \* the piece drawn on the map
  lsSent,    \* the last piece sent, and the one shown then
  lsPieces,  \* history: how many pieces were begun
  lsStart,   \* history: the point of the first click
  lsDrawn    \* history: whether the pointer has drawn the piece out

lsVars == <<lsLane, lsDone, lsCur, lsShown, lsSent, lsPieces, lsStart, lsDrawn>>

NoPiece == [o |-> 0, s |-> 1, e |-> 0]

LsTypeOK ==
  /\ lsLane \in Lanes \cup {NoLane} /\ lsDone \in BOOLEAN /\ lsDrawn \in BOOLEAN /\ lsStart \in Nat
  /\ lsCur \in [Lanes -> [o : Nat, s : Nat, e : Nat]]
  /\ lsShown \in [o : Nat, s : Nat, e : Nat]
  /\ lsSent \in [lane : Lanes \cup {NoLane}, s : Nat, e : Nat, atEnd : BOOLEAN,
                 shown : [o : Nat, s : Nat, e : Nat]]
  /\ lsPieces \in 0..MaxPieces

LsInit ==
  /\ lsLane = NoLane /\ lsDone = FALSE /\ lsDrawn = FALSE /\ lsStart = 0 /\ lsPieces = 0
  /\ lsCur = [lane \in Lanes |-> NoPiece] /\ lsShown = NoPiece
  /\ lsSent = [lane |-> NoLane, s |-> 0, e |-> 0, atEnd |-> FALSE, shown |-> NoPiece]

-----------------------------------------------------------------------------
(* Forward from the click until the piece is as long as the lane is wide, or  *)
(* the last point but one is reached.                                         *)
ForwardTo(lane, o, e) ==
  LET Enough(i) == Mile[lane][i] - Mile[lane][o] >= Wide[lane][o]
      limit == Kept(lane) - 2
  IN /\ o <= e
     /\ e = o \/ e <= limit
     /\ Enough(e) \/ e >= limit
     /\ \A i \in o..(e - 1) : ~Enough(i)

(* Then backward, until the two together are, or the first point is reached.  *)
BackTo(lane, o, e, s) ==
  LET Enough(i) == Mile[lane][e] - Mile[lane][i] >= Wide[lane][o]
  IN /\ s <= o
     /\ Enough(s) \/ s = 0
     /\ \A i \in (s + 1)..o : ~Enough(i)

(* Mutants: the first point, or the last, is taken for the other.             *)
FoundInside(o, s, e) == s < o /\ o < e
FoundAtEnd(o, s, e) == s <= o /\ o <= e
Found(o, s, e) == s <= o /\ o < e

(* carmaclStartLanePoly, createPolyStart, setCurCLane: if the click is not in *)
(* the piece, the one drawn on the lane before stays the current one.         *)
Start(lane, o) ==
  /\ lsLane = NoLane /\ lsPieces < MaxPieces /\ lsPieces' = lsPieces + 1
  /\ \E s, e \in Index(lane) :
       /\ ForwardTo(lane, o, e) /\ BackTo(lane, o, e, s)
       /\ lsShown' = [o |-> o, s |-> s, e |-> e]
       /\ lsCur' = IF Found(o, s, e) THEN [lsCur EXCEPT ![lane] = [o |-> o, s |-> s, e |-> e]]
                                     ELSE lsCur
  /\ lsStart' = o /\ lsDrawn' = FALSE
  /\ lsLane' = lane /\ lsDone' = FALSE /\ UNCHANGED lsSent

Drawn(piece, n) ==
  IF n > piece.o THEN [o |-> piece.o, s |-> piece.o, e |-> n]
  ELSE IF n < piece.o THEN [o |-> piece.o, s |-> n, e |-> piece.o] ELSE piece

(* carmaclUpdateLanePoly: one end of the piece goes to the point the pointer  *)
(* is near; without a current piece the handler fails.                        *)
UpdateLanePoly(n) ==
  /\ lsLane # NoLane /\ ~lsDone /\ lsCur[lsLane] # NoPiece
  /\ lsCur' = [lsCur EXCEPT ![lsLane] = Drawn(@, n)]
  /\ lsShown' = Drawn(lsCur[lsLane], n)
  /\ lsDrawn' = (lsDrawn \/ lsShown # Drawn(lsCur[lsLane], n))
  /\ UNCHANGED <<lsLane, lsDone, lsSent, lsPieces, lsStart>>

EndLanePoly ==
  /\ lsLane # NoLane /\ ~lsDone /\ lsDone' = TRUE
  /\ UNCHANGED <<lsLane, lsCur, lsShown, lsSent, lsPieces, lsStart, lsDrawn>>

AtEnd == lsStart >= Kept(lsLane) - 2

(* addControl fails without a current piece, the dialog stays.                *)
AddControl ==
  /\ lsDone /\ lsCur[lsLane] # NoPiece
  /\ lsSent' = [lane |-> lsLane, s |-> lsCur[lsLane].s, e |-> lsCur[lsLane].e,
                atEnd |-> AtEnd, shown |-> lsShown]
  /\ lsLane' = NoLane /\ lsDone' = FALSE
  /\ UNCHANGED <<lsCur, lsShown, lsPieces, lsStart, lsDrawn>>

CancelAdd ==
  /\ lsLane # NoLane /\ lsLane' = NoLane /\ lsDone' = FALSE
  /\ UNCHANGED <<lsCur, lsShown, lsSent, lsPieces, lsStart, lsDrawn>>

LsNext ==
  \/ \E lane \in Lanes : \E o \in Index(lane) : Start(lane, o)
  \/ lsLane # NoLane /\ \E n \in Index(lsLane) : UpdateLanePoly(n)
  \/ EndLanePoly \/ AddControl \/ CancelAdd

LsSpec == LsInit /\ [][LsNext]_lsVars

-----------------------------------------------------------------------------
(* geoSuccess keeps the first two points, then every other one; addControl    *)
(* takes two points of the lane for every one that was kept.                  *)
PointKept(i) == IF i = 0 THEN 0 ELSE 2 * i - 1
PointTaken(i) == 2 * i

(* A control that is sent is a piece of its lane, from one point of it to a   *)
(* later one, and the service takes each end within a point of where it was   *)
(* shown; the end lies beyond the lane if, and only if, the lane has an even  *)
(* number of points and the control goes to its last.                         *)
SentInLane ==
  lsSent.lane # NoLane =>
  LET n == Full[lsSent.lane]
  IN /\ lsSent.s < lsSent.e /\ PointKept(lsSent.e) < n
     /\ PointTaken(lsSent.e) >= n <=> n % 2 = 0 /\ lsSent.e = Kept(lsSent.lane) - 1

(* What is sent is what was shown, unless the piece began at one of the last  *)
(* two points: then it is the one drawn on the lane before.                   *)
SentIsShown ==
  lsSent.lane # NoLane /\ ~lsSent.atEnd =>
  lsSent.s = lsSent.shown.s /\ lsSent.e = lsSent.shown.e

(* The piece that is shown holds the point of the click.  It is as long as    *)
(* the lane is wide there, or the lane is too short, until the pointer draws  *)
(* it: then it goes from there to the pointer.                                *)
ShownFromStart ==
  lsLane # NoLane =>
  IF lsDrawn THEN AtEnd \/ lsStart \in {lsShown.s, lsShown.e}
  ELSE /\ lsShown.s <= lsStart /\ lsStart <= lsShown.e
       /\ \/ Mile[lsLane][lsShown.e] - Mile[lsLane][lsShown.s] >= Wide[lsLane][lsStart]
          \/ lsShown.s = 0 /\ lsShown.e >= Kept(lsLane) - 2

(* The control that is sent is the piece shown, from where it was begun, and  *)
(* lies on its lane.                                                          *)
PieceSent == SentInLane /\ SentIsShown /\ ShownFromStart
=============================================================================
