----------------------------- MODULE IhpCorridor -----------------------------
(***************************************************************************)
(* Drawing a corridor on the map of the speed harmonisation page            *)
(* (web/script/ihp.js): end points of subsegments are clicked first, then   *)
(* inner points are dragged, each leaving two more; one button undoes both. *)
(* A point is its place in the source all_points, from 1; a line of the     *)
(* source center_line is the sequence of the points its coordinates are     *)
(* those of.  Which line runs near an inner point is taken to be its own.   *)
(***************************************************************************)
EXTENDS Integers, SequencesExt

CONSTANTS
  MaxEnds,     \* how many end points are clicked
  MaxMoves,    \* how many inner points are dragged
  MaxDrawings  \* how many corridors are begun

ASSUME CorridorAssumption ==
  MaxEnds \in Nat /\ MaxEnds >= 4 /\ MaxMoves \in Nat /\ MaxDrawings \in Nat

VARIABLES
  cor,      \* oCurState, with the sources, the handlers and the buttons
  corSent,  \* history: the lines the last save sent, and how many ends it had
  corBegun, \* history: how many corridors were begun
  corMarks  \* history: what happened that the page does not provide for

corVars == <<cor, corSent, corBegun, corMarks>>

Point(inner, at) == [inner |-> inner, at |-> at]
EndPoint == Point(FALSE, 0)
NoMove == [point |-> 0, line |-> 0]

CorTypeOK ==
  /\ cor \in [handlers : {"none", "ends", "inner"}, drawing : BOOLEAN, index : 0..MaxEnds,
              add : BOOLEAN, continue : BOOLEAN, end : BOOLEAN, moving : BOOLEAN,
              pts : Seq([inner : BOOLEAN, at : Nat]), lines : Seq(Seq(Nat)),
              addons : Seq(Seq(Nat)), undo : Seq([point : Nat, line : Nat]),
              point : [point : Nat, line : Nat], undoes : {"ends", "inner"},
              undoOn : BOOLEAN, saveOn : BOOLEAN, saving : BOOLEAN, stale : BOOLEAN]
  /\ corSent \in [lines : Seq(Seq(Nat)), ends : 0..MaxEnds] /\ corBegun \in 0..MaxDrawings
  /\ corMarks \subseteq {"again", "cancelled"}

CorInit ==
  /\ cor = [handlers |-> "none", drawing |-> FALSE, index |-> 0, add |-> FALSE,
            continue |-> FALSE, end |-> FALSE, moving |-> FALSE, pts |-> <<>>,
            lines |-> <<>>, addons |-> <<>>, undo |-> <<>>, point |-> NoMove,
            undoes |-> "ends", undoOn |-> FALSE, saveOn |-> FALSE,
            saving |-> FALSE, stale |-> FALSE]
  /\ corSent = [lines |-> <<>>, ends |-> 0] /\ corBegun = 0 /\ corMarks = {}

-----------------------------------------------------------------------------
(* A new corridor.  The lines drawn before stay in their source, and the undo *)
(* button keeps the handler it had.                                           *)
New(s) ==
  [s EXCEPT !.handlers = "ends", !.drawing = TRUE, !.index = 0, !.add = FALSE,
            !.continue = FALSE, !.end = FALSE, !.moving = FALSE, !.pts = <<EndPoint>>,
            !.addons = <<>>, !.undo = <<>>, !.point = NoMove, !.undoOn = FALSE, !.saveOn = FALSE]

NewCorridor ==
  /\ ~cor.drawing /\ corBegun < MaxDrawings /\ corBegun' = corBegun + 1
  /\ cor' = New(cor)
  /\ corMarks' = corMarks \cup (IF corBegun > 0 THEN {"again"} ELSE {})
  /\ UNCHANGED corSent

(* Whether a point is being placed, which follows the pointer.                *)
Placing(s) == s.index < 4 \/ s.add

(* The pointer nears the last end point, the first, or neither.               *)
UpdateEndPoint(near) ==
  /\ cor.handlers = "ends" /\ ~Placing(cor)
  /\ cor' = CASE near = "last" -> [cor EXCEPT !.continue = TRUE]
              [] near = "first" -> [cor EXCEPT !.end = TRUE]
              [] OTHER -> [cor EXCEPT !.continue = FALSE, !.end = FALSE]
  /\ UNCHANGED <<corSent, corBegun, corMarks>>

Placed(s) ==
  [s EXCEPT !.index = @ + 1, !.undoOn = TRUE,
            !.pts = IF s.index + 1 < 4 THEN Append(@, EndPoint) ELSE @,
            !.add = IF s.index + 1 < 4 THEN @ ELSE FALSE,
            !.continue = IF s.index + 1 < 4 THEN @ ELSE TRUE]

Continued(s) == [s EXCEPT !.pts = Append(@, EndPoint), !.continue = FALSE, !.add = TRUE]

(* Every two end points in turn become a line with a point in the middle.     *)
Segments(n) == n - 1
Straight(n) == [k \in 1..Segments(n) |-> <<k, n + k, k + 1>>]

Ended(s) ==
  [s EXCEPT !.lines = @ \o Straight(Len(s.pts)),
            !.pts = @ \o [k \in 1..Segments(Len(s.pts)) |-> Point(TRUE, 2)],
            !.addons = [k \in 1..Segments(Len(s.pts)) |-> <<>>],
            !.handlers = "inner", !.saveOn = TRUE,
            !.undoes = "inner"]

UpdateEndPointClick ==
  /\ cor.handlers = "ends"
  /\ \/ Placing(cor) /\ cor.index < MaxEnds /\ cor' = Placed(cor)
     \/ ~Placing(cor) /\ cor.continue /\ cor.index < MaxEnds /\ cor' = Continued(cor)
     \/ ~Placing(cor) /\ ~cor.continue /\ cor.end /\ cor' = Ended(cor)
  /\ UNCHANGED <<corSent, corBegun, corMarks>>

EndUndone(s) ==
  LET i == s.index - 1
      short == Front(s.pts)
  IN IF i = 0 THEN New(s)
     ELSE [s EXCEPT
       !.index = IF s.add THEN i + 1 ELSE i, !.add = FALSE,
       !.pts = IF ~s.add /\ i = 3 THEN Append(short, EndPoint) ELSE short]

-----------------------------------------------------------------------------
(* Inner points.  The point under the pointer stays chosen through an undo    *)
(* until the pointer moves again; it is taken to move before the next click.  *)
(* On a second corridor of one page the handlers of this part find the lines  *)
(* and the undo handler of the first and fail; there they are left out.       *)
First == "again" \notin corMarks

UpdateInnerPoint ==
  /\ cor.handlers = "inner" /\ ~cor.moving /\ First
  /\ \/ cor.point # NoMove /\ cor' = [cor EXCEPT !.point = NoMove, !.stale = FALSE]
     \/ \E p \in DOMAIN cor.pts, l \in DOMAIN cor.lines :
          /\ cor.pts[p].inner /\ p \in ToSet(cor.lines[l])
          /\ cor' = [cor EXCEPT !.point = [point |-> p, line |-> l], !.stale = FALSE]
  /\ UNCHANGED <<corSent, corBegun, corMarks>>

(* The points of a line after place i make room for two more.                 *)
Shifted(pts, ids, i, by) ==
  [k \in DOMAIN pts |-> IF k \in ids /\ pts[k].at > i THEN [pts[k] EXCEPT !.at = @ + by] ELSE pts[k]]

Lies(s) == [s EXCEPT !.moving = FALSE, !.point = NoMove, !.saveOn = TRUE]

(* A point dropped gets a neighbour on each side.                             *)
Dropped(s) ==
  LET p == s.point.point
      l == s.point.line
      i == s.pts[p].at
      after == Len(s.pts) + 1
      before == Len(s.pts) + 2
      line == s.lines[l]
  IN [Lies(s) EXCEPT
       !.lines[l] = SubSeq(line, 1, i - 1) \o <<before, p, after>> \o SubSeq(line, i + 1, Len(line)),
       !.pts = [Shifted(@, ToSet(s.addons[l]), i, 2) EXCEPT ![p] = Point(FALSE, i + 1)]
                 \o <<Point(TRUE, i + 2), Point(TRUE, i)>>,
       !.addons[l] = @ \o <<before, after>>,
       !.undo = Append(@, s.point)]

UpdateInnerPointClick ==
  /\ cor.handlers = "inner"
  /\ \/ cor.moving /\ cor' = Dropped(cor)
     \/ /\ ~cor.moving /\ cor.point # NoMove /\ ~cor.stale
        /\ Len(cor.undo) < MaxMoves
        /\ cor' = [cor EXCEPT !.moving = TRUE, !.saveOn = FALSE]
  /\ UNCHANGED <<corSent, corBegun, corMarks>>

(* Back to the end points: the lines go, and the points after the last end.   *)
BackToEnds(s) ==
  [s EXCEPT !.handlers = "ends", !.undoes = "ends", !.saveOn = FALSE,
            !.pts = SubSeq(@, 1, s.index), !.lines = <<>>]

(* Mutant: the neighbour before the point goes first, and moves the other.    *)
BeforeFirst(line, before, after) == RemoveAt(RemoveAt(line, before), after)
WithoutNeighbours(line, before, after) == RemoveAt(RemoveAt(line, after), before)

(* The last point dropped becomes an inner point again and its neighbours go. *)
MoveUndone(s) ==
  LET u == Last(s.undo)
      p == u.point
      ids == s.addons[u.line]
      rest == SubSeq(ids, 1, Len(ids) - 2)
      after == ids[Len(ids)]
      before == ids[Len(ids) - 1]
      others == ToSet(rest) \ {p}
      kept == Shifted(Shifted(s.pts, others, s.pts[after].at, -1), others, s.pts[before].at, -1)
      a == s.pts[p].at
      line == [s.lines[u.line] EXCEPT ![a] = p]
  IN [s EXCEPT
       !.undo = Front(@), !.addons[u.line] = rest,
       !.lines[u.line] = WithoutNeighbours(line, s.pts[before].at, s.pts[after].at),
       !.pts = SubSeq([kept EXCEPT ![p] = Point(TRUE, a - 1)], 1, Len(kept) - 2)]

InnerUndone(s) ==
  IF s.moving THEN [s EXCEPT !.moving = FALSE]
  ELSE IF s.undo = <<>> THEN BackToEnds(s) ELSE MoveUndone(s)

UndoCorridor ==
  /\ cor.undoOn /\ First
  /\ cor' = [(IF cor.undoes = "ends" THEN EndUndone(cor) ELSE InnerUndone(cor))
                EXCEPT !.stale = cor.point # NoMove]
  /\ corMarks' = corMarks \cup (IF cor.moving THEN {"cancelled"} ELSE {})
  /\ UNCHANGED <<corSent, corBegun>>

SaveCorridor ==
  /\ cor.saveOn
  /\ corSent' = [lines |-> cor.lines, ends |-> cor.index]
  /\ cor' = [cor EXCEPT !.handlers = "none", !.undoOn = FALSE, !.saveOn = FALSE,
                        !.drawing = FALSE, !.saving = TRUE]
  /\ UNCHANGED <<corBegun, corMarks>>

(* The answer clears the points, those of a corridor begun since as well.     *)
SaveAnswer(ok) ==
  /\ cor.saving
  /\ cor' = [cor EXCEPT !.saving = FALSE, !.pts = IF ok THEN <<>> ELSE @]
  /\ UNCHANGED <<corSent, corBegun, corMarks>>

CorNext ==
  \/ NewCorridor
  \/ \E near \in {"last", "first", "neither"} : UpdateEndPoint(near)
  \/ UpdateEndPointClick
  \/ UpdateInnerPoint
  \/ UpdateInnerPointClick
  \/ UndoCorridor
  \/ SaveCorridor
  \/ \E ok \in BOOLEAN : SaveAnswer(ok)

CorSpec == CorInit /\ [][CorNext]_corVars

-----------------------------------------------------------------------------
(* While end points are clicked the source holds one point for each, and one  *)
(* more exactly while a point follows the pointer: through every undo, for    *)
(* the first corridor of the page.                                            *)
PointFollows ==
  (First /\ cor.handlers = "ends") =>
    Len(cor.pts) = cor.index + (IF Placing(cor) THEN 1 ELSE 0)

(* Every line joins two end points in turn, and each inner point knows its    *)
(* own place in the one line it is on, through drops and undos in any order,  *)
(* for the first corridor of the page.                                        *)
PointsOnLines ==
  (First /\ cor.handlers = "inner") =>
    /\ Len(cor.lines) = cor.index - 1
    /\ \A l \in DOMAIN cor.lines : cor.lines[l][1] = l /\ Last(cor.lines[l]) = l + 1
    /\ \A p \in DOMAIN cor.pts : cor.pts[p].inner =>
         \E l \in DOMAIN cor.lines : cor.pts[p].at \in DOMAIN cor.lines[l]
                                      /\ cor.lines[l][cor.pts[p].at] = p
    /\ \A l \in DOMAIN cor.lines : IsInjective(cor.lines[l])

(* When every drop has been undone the lines are as they were at first.       *)
UndoneIsStraight ==
  (First /\ cor.handlers = "inner" /\ cor.undo = <<>>) => cor.lines = Straight(cor.index)

(* What is saved is the corridor drawn: one line between every two end points.*)
(* The second corridor of a page goes out with the lines of the first.        *)
SentIsDrawn ==
  First => /\ Len(corSent.lines) = (IF corSent.ends = 0 THEN 0 ELSE corSent.ends - 1)
           /\ \A l \in DOMAIN corSent.lines :
                corSent.lines[l][1] = l /\ Last(corSent.lines[l]) = l + 1

(* A corridor whose points all lie can be saved, unless the drag of a point   *)
(* was undone, which leaves the button disabled.                              *)
SaveOffered ==
  (First /\ "cancelled" \notin corMarks /\ cor.handlers = "inner" /\ ~cor.moving) => cor.saveOn

(* The corridor that is sent is the one drawn, after any number of drags and  *)
(* undos: points and lines belong together, and what is undone is straight.   *)
CorridorDrawn == PointFollows /\ PointsOnLines /\ UndoneIsStraight /\ SentIsDrawn /\ SaveOffered
=============================================================================
