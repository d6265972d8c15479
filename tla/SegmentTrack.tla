----------------------------- MODULE SegmentTrack -----------------------------
(***************************************************************************)
(* Selecting a stretch of road by two markers on a line that grows by the   *)
(* neighbouring segment when a marker nears its end, and gives up segments  *)
(* the markers have left (web/script/modules/SelectedSegmentManager.js).    *)
(* The road is a chain of points; place 2p is at point p and 2p+1 halfway   *)
(* to the next.  Indexes into the line count from 0, as in the source.      *)
(***************************************************************************)
EXTENDS Integers, SequencesExt, FiniteSetsExt

CONSTANTS
  Bends,      \* the points at which a segment ends and the next begins, in order
  Backwards,  \* which segments are digitised against the road: one choice of them
  Reach,      \* how near to an end of the line a marker asks for more
  MaxDrags    \* how often a marker is moved

ASSUME TrackAssumption ==
  /\ Bends \in Seq(Nat) /\ Len(Bends) >= 2 /\ MaxDrags \in Nat /\ Reach \in Nat
  /\ \A k \in 1..(Len(Bends) - 1) : Bends[k] < Bends[k + 1]
  /\ Backwards \subseteq SUBSET (1..(Len(Bends) - 1))

VARIABLES
  trkRoad,   \* the segments digitised against the road
  trk,       \* the line, its segments and joints, the markers and the highlight
  trkCalls,  \* the adjustments that await the neighbouring segment
  trkDrags,  \* history: how often a marker was moved
  trkMarks   \* history: what happened that the source does not provide for

trkVars == <<trkRoad, trk, trkCalls, trkDrags, trkMarks>>

Segs == 1..(Len(Bends) - 1)
Along(s) == [k \in 1..(Bends[s + 1] - Bends[s] + 1) |-> Bends[s] + k - 1]
PointsOf(s) == IF s \in trkRoad THEN Reverse(Along(s)) ELSE Along(s)
Places == (2 * Bends[1])..(2 * Bends[Len(Bends)])

TrkTypeOK ==
  /\ trkRoad \in Backwards
  /\ trk \in [line : Seq(Nat), segs : Seq(Segs), joints : Seq(Nat),
              markers : Places \X Places, lit : Seq(Places)]
  /\ trkCalls \subseteq [n : Nat, line : Seq(Nat), place : Places, first : BOOLEAN,
                         sub1 : Nat, sub2 : Int, lit1 : Places, lit2 : Places]
  /\ trkDrags \in 0..MaxDrags /\ trkMarks \subseteq {"overlap", "backward", "reset"}

-----------------------------------------------------------------------------
(* _getMarkerLocations: the line is searched from its end, for both markers.  *)
PointAt(line, i) == line[i + 1]
Final(line) == Len(line) - 1
OnPiece(line, place, i) ==
  \/ 2 * PointAt(line, i - 1) <= place /\ place <= 2 * PointAt(line, i)
  \/ 2 * PointAt(line, i) <= place /\ place <= 2 * PointAt(line, i - 1)
Pieces(line, place) == {i \in 1..Final(line) : OnPiece(line, place, i)}
IsOn(line, place) == Pieces(line, place) # {}
PlacesOn(line) == {place \in Places : IsOn(line, place)}

(* On one piece of the line the marker nearer to its end comes second.        *)
Ordered(line, sub1, sub2, lit1, lit2) ==
  LET ep == 2 * PointAt(line, sub1)
      Away(place) == IF place > ep THEN place - ep ELSE ep - place
  IN IF sub2 - sub1 = -1 /\ Away(lit2) > Away(lit1) THEN <<lit2, lit1>> ELSE <<lit1, lit2>>

Locations(line, markers) ==
  LET i1 == Max(Pieces(line, markers[1]))
      i2 == Max(Pieces(line, markers[2]))
      second == IF i2 >= i1 THEN 2 ELSE 1
      m2 == markers[second]
      m1 == markers[3 - second]
      p2 == IF second = 2 THEN i2 ELSE i1
      p1 == IF second = 2 THEN i1 ELSE i2
      sub2 == IF m2 = 2 * PointAt(line, p2) THEN p2 ELSE p2 - 1
      sub1 == IF m1 = 2 * PointAt(line, p1 - 1) THEN p1 - 1 ELSE p1
      lit == Ordered(line, sub1, sub2, m1, m2)
  IN [sub1 |-> sub1, sub2 |-> sub2, lit1 |-> lit[1], lit2 |-> lit[2]]

(* _setHighlightLinePoints: the point at sub2 is left out.                    *)
Lit(line, at) ==
  IF at.sub2 < at.sub1 THEN <<at.lit1, at.lit2>>
  ELSE <<at.lit1>> \o [k \in 1..(at.sub2 - at.sub1) |-> 2 * PointAt(line, at.sub1 + k - 1)] \o <<at.lit2>>

-----------------------------------------------------------------------------
TrkInit ==
  /\ trkRoad \in Backwards /\ trkCalls = {} /\ trkDrags = 0 /\ trkMarks = {}
  /\ \E s \in Segs :
       LET line == PointsOf(s)
           ends == <<2 * line[1], 2 * Last(line)>>
       IN trk = [line |-> line, segs |-> <<s>>, joints |-> <<>>, markers |-> ends,
                 lit |-> [k \in 1..Len(line) |-> 2 * line[k]]]

NearStart(line, place) == place - 2 * line[1] \in -Reach..Reach
NearEnd(line, place) == place - 2 * Last(line) \in -Reach..Reach

(* The segments that go on from an end of the line; the search may find none. *)
Neighbours(last, second) ==
  {s \in Segs : LET p == PointsOf(s) IN
     \/ p[1] = last /\ p[2] # second
     \/ Last(p) = last /\ p[Len(p) - 1] # second}

Joining(call) ==
  IF call.first THEN Neighbours(call.line[1], call.line[2])
  ELSE Neighbours(Last(call.line), call.line[Len(call.line) - 1])

(* Mutant: the joints stay where they were when a segment is put before.      *)
JointsStay(joints, n) == <<n>> \o joints
JointsMoved(joints, n) == <<n>> \o [k \in DOMAIN joints |-> joints[k] + n]

(* A neighbour is put before the line unless it begins where the line ends.   *)
Extended(t, line, s) ==
  LET more == PointsOf(s)
  IN IF more[1] = Last(line)
     THEN [t EXCEPT !.segs = Append(@, s), !.joints = Append(@, Final(line)),
                    !.line = Front(line) \o more]
     ELSE [t EXCEPT !.segs = <<s>> \o @, !.joints = JointsMoved(@, Len(more) - 1),
                    !.line = Front(more) \o line]

(* The segments before the first marker go.                                   *)
LeftBehind(t, sub1) ==
  Min({k \in DOMAIN t.joints : t.joints[k] > sub1 - 1} \cup {Len(t.joints) + 1}) - 1

ShortenedBefore(t, line, sub1) ==
  LET i == LeftBehind(t, sub1)
      cut == t.joints[i]
      rest == SubSeq(t.joints, i + 1, Len(t.joints))
  IN IF i = 0 THEN t
     ELSE [t EXCEPT !.segs = SubSeq(@, i + 1, Len(@)), !.line = SubSeq(line, cut + 1, Len(line)),
                    !.joints = [k \in DOMAIN rest |-> rest[k] - cut]]

(* The segments after the second marker go, but for the second segment.       *)
ShortenedAfter(t, line, sub2) ==
  LET n == Len(t.joints)
      i == Max({k \in 2..n : t.joints[k] <= sub2} \cup {1})
  IN IF n = 0 \/ i >= n THEN t
     ELSE [t EXCEPT !.segs = SubSeq(@, 1, i + 1), !.joints = SubSeq(@, 1, i),
                    !.line = SubSeq(line, 1, Min({t.joints[i + 1] + 1, Len(line)}))]

Shortened(t, call) ==
  IF call.place = call.lit1 THEN ShortenedBefore(t, call.line, call.sub1)
                            ELSE ShortenedAfter(t, call.line, call.sub2)

-----------------------------------------------------------------------------
Adjusting(t, place) ==
  LET at == Locations(t.line, t.markers)
  IN [n |-> Max({c.n : c \in trkCalls} \cup {0}) + 1, line |-> t.line, place |-> place,
      first |-> NearStart(t.line, place),
      sub1 |-> at.sub1, sub2 |-> at.sub2, lit1 |-> at.lit1, lit2 |-> at.lit2]

Asks(t, place) == NearStart(t.line, place) \/ NearEnd(t.line, place)

Swapped(markers, at) == <<at.lit1, at.lit2>>

(* A marker is moved along the line, or dropped, which puts the markers in    *)
(* order.  Far from both ends the line is adjusted at once.  A track that has *)
(* gone wrong is followed no further: a bound.                                *)
Sound == trkMarks \cap {"overlap", "backward"} = {}
Draggable == Sound /\ trkDrags < MaxDrags /\ Cardinality(trkCalls) < 2

Drag(m, place, drop) ==
  /\ trkDrags' = trkDrags + 1
  /\ IsOn(trk.line, trk.markers[3 - m])
  /\ LET moved == [trk EXCEPT !.markers[m] = place]
         call == Adjusting(moved, place)
         shown == [moved EXCEPT !.lit = Lit(trk.line, Locations(moved.line, moved.markers)),
                                !.markers = IF drop THEN Swapped(@, Locations(moved.line, @)) ELSE @]
     IN IF Asks(moved, place)
        THEN trk' = shown /\ trkCalls' = trkCalls \cup {call}
        ELSE trk' = Shortened(shown, call) /\ UNCHANGED trkCalls
  /\ trkMarks' = trkMarks \cup (IF trkCalls # {} THEN {"overlap"} ELSE {})
  /\ UNCHANGED trkRoad

FitsOn(call, more) ==
  IF call.first THEN Last(more) = call.line[1] ELSE more[1] = Last(call.line)

(* The neighbour is there, or there is none: the line as it was before the    *)
(* wait is adjusted, the segments and joints are those of now.                *)
Adjust(c) ==
  /\ \/ \E s \in Joining(c) :
          /\ trk' = Extended(trk, c.line, s)
          /\ trkMarks' = trkMarks \cup (IF FitsOn(c, PointsOf(s)) THEN {} ELSE {"backward"})
     \/ trk' = Shortened(trk, c) /\ UNCHANGED trkMarks
  /\ trkCalls' = trkCalls \ {c}
  /\ UNCHANGED <<trkRoad, trkDrags>>

Idle == "reset" \notin trkMarks /\ trkCalls = {}

(* The points of an event are shown: both markers are placed without waiting  *)
(* for the adjustments they start.                                            *)
SetPoints(s, a, b) ==
  /\ a # b
  /\ LET line == PointsOf(s)
         t == [line |-> line, segs |-> <<s>>, joints |-> <<>>, markers |-> <<a, b>>,
               lit |-> Lit(line, Locations(line, <<a, b>>))]
         asked == {p \in {a, b} : Asks(t, p)}
     IN /\ trk' = t
        /\ trkCalls' = {[Adjusting(t, p) EXCEPT !.n = IF p = a THEN 1 ELSE 2] : p \in asked}
        /\ trkMarks' = trkMarks \cup {"reset"} \cup (IF Cardinality(asked) = 2 THEN {"overlap"} ELSE {})
  /\ UNCHANGED <<trkRoad, trkDrags>>

TrkNext ==
  \/ Draggable /\ \E m \in 1..2, place \in PlacesOn(trk.line), drop \in BOOLEAN : Drag(m, place, drop)
  \/ \E c \in trkCalls : Adjust(c)
  \/ Idle /\ \E s \in Segs : \E a, b \in PlacesOn(PointsOf(s)) : SetPoints(s, a, b)

TrkSpec == TrkInit /\ [][TrkNext]_trkVars

-----------------------------------------------------------------------------
(* The line is its segments one after the other, joined where the joints say, *)
(* and so is what is sent with a selection: unless two adjustments were under *)
(* way together, or the neighbour was digitised the other way.                *)
LineIsSegments ==
  Sound =>
  LET at == <<0>> \o trk.joints \o <<Final(trk.line)>>
  IN /\ Len(at) = Len(trk.segs) + 1
     /\ \A k \in DOMAIN trk.segs :
          SubSeq(trk.line, at[k] + 1, at[k + 1] + 1) = PointsOf(trk.segs[k])

(* Giving up segments never takes the line from under a marker.               *)
MarkersOnLine ==
  "overlap" \notin trkMarks =>
  IsOn(trk.line, trk.markers[1]) /\ IsOn(trk.line, trk.markers[2])

(* The stretch highlighted, which is what is saved, runs from one marker to   *)
(* the other through points between them in the order of the line.            *)
LitInOrder ==
  "backward" \notin trkMarks =>
  /\ {trk.lit[1], Last(trk.lit)} = ToSet(trk.markers)
  /\ LET up == trk.line[1] < Last(trk.line)
     IN \A k \in 2..Len(trk.lit) :
          IF up THEN trk.lit[k - 1] <= trk.lit[k] ELSE trk.lit[k - 1] >= trk.lit[k]

(* The track is its segments one after the other, with both markers on it and *)
(* lit from one to the other.                                                 *)
TrackDrawn == LineIsSegments /\ MarkersOnLine /\ LitInOrder
=============================================================================
