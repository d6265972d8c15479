--------------------------- MODULE DrawingProofs ---------------------------
(***************************************************************************)
(* What is proved of the two lines drawn on the map: the corridor of speed  *)
(* harmonisation and the track over road segments.                          *)
(*                                                                          *)
(* The corridor that is sent is the one drawn, for any number of end points *)
(* clicked, inner points dragged and clicks undone, in any order.  The      *)
(* inductive invariant is DrawnInv.  While inner points are dragged it      *)
(* is WellDrawn, which relates four sequences: every line leads from one    *)
(* end point to the next over its middle and the neighbours drops left on   *)
(* it (LineOK); the neighbours kept for a line are those of the drops on it *)
(* (AddonsOK); and the two of a drop lie on either side of its point, in    *)
(* every state in which that drop may still be undone (MoveOK).  The lemmas *)
(* go from one line to all lines to the whole record, for a drop and for an *)
(* undo; the sequences are told apart there by their lengths and elements   *)
(* only, and are shown to be sequences separately.                          *)
(*                                                                          *)
(* The track is its segments, with both markers on it, for any road and     *)
(* segments digitised either way.  Its inductive invariant, TrkInv, says    *)
(* where each segment lies on the line (Laid), that the line goes one way   *)
(* along the road (Runs), and what the adjustments that await a neighbour   *)
(* may rely on: after an overlap of two, only that the joints ascend.       *)
(***************************************************************************)
EXTENDS IhpCorridor, SegmentTrack, FiniteSetTheorems, SequenceTheorems, WellFoundedInduction,
        TLAPS

(* The ids of the neighbours the j-th drop left after and before its point,   *)
(* when there are n end points and so n - 1 lines with an inner point each.   *)
IdAfter(n, j) == 2 * n + 2 * j - 2
IdBefore(n, j) == 2 * n + 2 * j - 1

CorPoint == [inner : BOOLEAN, at : Nat]
CorMove == [point : Nat, line : Nat]
CorPoints == Seq(CorPoint)
CorLines == Seq(Seq(Nat))
CorMoves == Seq(CorMove)

(* The neighbours kept for a line are those of the drops on it, without two   *)
(* the same, and none stands before a lesser one but its own partner.         *)
AddonsOK(n, l, A, U) ==
  /\ Len(A) \in Nat /\ Len(U) \in Nat
  /\ \A k \in 1..Len(A) :
       \E j \in 1..Len(U) : U[j].line = l /\ A[k] \in {IdAfter(n, j), IdBefore(n, j)}
  /\ \A i, k \in 1..Len(A) : i < k => A[i] # A[k] /\ (A[i] < A[k] \/ k = i + 1)

(* A line leads from its end point to the next over its inner point and the   *)
(* neighbours kept for it, each of which knows its place in the line.         *)
LineOK(n, l, L, P, A) ==
  /\ Len(L) \in Nat /\ Len(A) \in Nat
  /\ \A k \in 1..Len(L) : L[k] \in Nat
  /\ \A k \in 1..Len(A) : A[k] \in Nat
  /\ Len(L) >= 3 /\ L[1] = l /\ L[Len(L)] = l + 1
  /\ \A i, k \in 1..Len(L) : L[i] = L[k] => i = k
  /\ \A k \in 1..Len(L) :
       L[k] \in {l, n + l, l + 1} \/ \E i \in 1..Len(A) : L[k] = A[i]
  /\ \E k \in 1..Len(L) : L[k] = n + l
  /\ \A i \in 1..Len(A) : P[A[i]].at \in 1..Len(L) /\ L[P[A[i]].at] = A[i]
  /\ IF P[n + l].inner THEN P[n + l].at = 2 /\ L[2] = n + l /\ A = <<>>
     ELSE P[n + l].at = 3

(* The j-th drop: its neighbours are kept together, the first on the line if  *)
(* it was the middle that was dropped, and lie on the two sides of its point. *)
MoveOK(n, j, u, L, A) ==
  /\ \E i \in 1..Len(A) - 1 :
       /\ A[i] = IdBefore(n, j) /\ A[i + 1] = IdAfter(n, j)
       /\ u.point = n + u.line => i = 1
  /\ u.point = n + u.line
       \/ (u.point < IdAfter(n, j) /\ \E k \in 1..Len(A) : u.point = A[k])
  /\ \A x, y, z \in 1..Len(L) :
       L[x] = IdBefore(n, j) /\ L[y] = u.point /\ L[z] = IdAfter(n, j) => x < y /\ y < z

(* The lines L, points P, neighbours A and drops U of a corridor of n ends.   *)
WellDrawn(n, L, P, A, U) ==
  /\ n \in Nat /\ n >= 4 /\ Len(U) \in Nat
  /\ Len(L) = n - 1 /\ Len(A) = n - 1 /\ Len(P) = 2 * n - 1 + 2 * Len(U)
  /\ \A k \in 1..n : ~P[k].inner
  /\ \A l \in 1..n - 1 : LineOK(n, l, L[l], P, A[l]) /\ AddonsOK(n, l, A[l], U)
  /\ \A j \in 1..Len(U) :
       U[j].line \in 1..n - 1 /\ MoveOK(n, j, U[j], L[U[j].line], A[U[j].line])

(* The point under the pointer is an inner point of the line it is taken for. *)
ChosenOK(s) ==
  /\ s.point.point \in 1..Len(s.pts) /\ s.pts[s.point.point].inner
  /\ s.point.line \in 1..Len(s.lines)
  /\ \E k \in 1..Len(s.lines[s.point.line]) : s.lines[s.point.line][k] = s.point.point

CorRecord ==
  [handlers : {"none", "ends", "inner"}, drawing : BOOLEAN, index : Nat,
   add : BOOLEAN, continue : BOOLEAN, end : BOOLEAN, moving : BOOLEAN,
   pts : CorPoints, lines : CorLines, addons : CorLines, undo : CorMoves,
   point : CorMove, undoes : {"ends", "inner"},
   undoOn : BOOLEAN, saveOn : BOOLEAN, saving : BOOLEAN, stale : BOOLEAN]

(* Before the first corridor, and after a save, nothing waits to be done.     *)
NotBegun ==
  corBegun = 0 => cor.handlers = "none" /\ cor.lines = <<>> /\ cor.undoes = "ends" /\ ~cor.saving

CorIdle(s) == s.handlers = "none" => ~s.saveOn /\ ~s.undoOn

(* A corridor no line of which is drawn yet.                                  *)
EndsClicked(s) ==
  s.handlers = "ends" =>
    /\ s.undoes = "ends" /\ s.lines = <<>> /\ ~s.saveOn /\ ~s.moving /\ ~s.saving /\ s.undo = <<>>
    /\ \A k \in 1..Len(s.pts) : ~s.pts[k].inner
    /\ s.add => s.index >= 4
    /\ s.undoOn => s.index >= 1
    /\ s.point = NoMove \/ s.stale
    /\ Len(s.pts) = s.index + (IF Placing(s) THEN 1 ELSE 0)

(* A corridor with its lines; c tells that the drag of a point was undone.    *)
InnerDragged(s, c) ==
  s.handlers = "inner" =>
    /\ s.undoes = "inner" /\ ~s.add /\ ~s.saving
    /\ s.moving => ~s.stale /\ s.point # NoMove
    /\ s.point # NoMove /\ ~s.stale => ChosenOK(s)
    /\ WellDrawn(s.index, s.lines, s.pts, s.addons, s.undo)
    /\ s.saveOn \/ s.moving \/ c

CorOK(s, c) == s \in CorRecord /\ CorIdle(s) /\ EndsClicked(s) /\ InnerDragged(s, c)

SentOK ==
  /\ Len(corSent.lines) = (IF corSent.ends = 0 THEN 0 ELSE corSent.ends - 1)
  /\ \A l \in DOMAIN corSent.lines :
       corSent.lines[l][1] = l /\ Last(corSent.lines[l]) = l + 1

(* All of it holds for the first corridor of a page.                          *)
DrawnInv ==
  First => corBegun \in Nat /\ NotBegun /\ CorOK(cor, "cancelled" \in corMarks) /\ SentOK

-----------------------------------------------------------------------------
(* The ids kept for a line are those of points after the middles.             *)
LEMMA CorIds ==
  ASSUME NEW n \in Nat, NEW l \in Nat, NEW A, NEW U,
         AddonsOK(n, l, A, U)
  PROVE  \A k \in 1..Len(A) : A[k] >= 2 * n /\ A[k] <= 2 * n - 1 + 2 * Len(U)
<1>1. TAKE k \in 1..Len(A)
<1>2. PICK j \in 1..Len(U) : A[k] \in {IdAfter(n, j), IdBefore(n, j)}
  BY DEF AddonsOK
<1>3. Len(U) \in Nat
  BY DEF AddonsOK
<1> QED BY <1>2, <1>3 DEF IdAfter, IdBefore

(* Two lines keep no neighbour both.                                          *)
LEMMA CorApart ==
  ASSUME NEW n \in Nat, NEW l \in Nat, NEW m \in Nat, l # m,
         NEW A, NEW B, NEW U,
         AddonsOK(n, l, A, U), AddonsOK(n, m, B, U)
  PROVE  \A i \in 1..Len(A), k \in 1..Len(B) : A[i] # B[k]
<1>1. SUFFICES ASSUME NEW i \in 1..Len(A), NEW k \in 1..Len(B), A[i] = B[k] PROVE FALSE
  OBVIOUS
<1>2. PICK j \in 1..Len(U) : U[j].line = l /\ A[i] \in {IdAfter(n, j), IdBefore(n, j)}
  BY DEF AddonsOK
<1>3. PICK h \in 1..Len(U) : U[h].line = m /\ B[k] \in {IdAfter(n, h), IdBefore(n, h)}
  BY DEF AddonsOK
<1>4. j = h
  <2>1. Len(U) \in Nat
    BY DEF AddonsOK
  <2>2. j \in Nat /\ h \in Nat
    BY <2>1
  <2> DEFINE x == A[i]
  <2>3. x = 2 * n + 2 * j - 2 \/ x = 2 * n + 2 * j - 1
    BY <1>2 DEF IdAfter, IdBefore
  <2>4. x = 2 * n + 2 * h - 2 \/ x = 2 * n + 2 * h - 1
    BY <1>1, <1>3 DEF IdAfter, IdBefore
  <2> HIDE DEF x
  <2> QED BY <2>2, <2>3, <2>4
<1> QED BY <1>2, <1>3, <1>4

(* A drop of the point at place k of line l.                                  *)
DropOn(n, l, L, A, P, U, k) ==
  /\ n >= 4 /\ LineOK(n, l, L, P, A) /\ AddonsOK(n, l, A, U)
  /\ \A q \in 1..n : ~P[q].inner
  /\ Len(P) = 2 * n - 1 + 2 * Len(U) /\ P[L[k]].inner

DropPlace(n, l, L, A, P, k) ==
  /\ L[k] \in n + 1..Len(P) /\ P[L[k]].at = k /\ k \in 2..Len(L) - 1
  /\ L[k] = n + l => k = 2 /\ A = <<>>
  /\ L[k] = n + l \/ \E i \in 1..Len(A) : L[k] = A[i]

(* The chosen point stands where it says, between the ends of its line.       *)
LEMMA CorPlace ==
  ASSUME NEW n \in Nat, NEW l \in 1..n - 1, NEW L, NEW A, NEW P,
         NEW U, NEW k \in 1..Len(L), DropOn(n, l, L, A, P, U, k)
  PROVE  DropPlace(n, l, L, A, P, k)
<1>0. /\ n >= 4 /\ LineOK(n, l, L, P, A) /\ AddonsOK(n, l, A, U)
      /\ \A q \in 1..n : ~P[q].inner
      /\ Len(P) = 2 * n - 1 + 2 * Len(U) /\ P[L[k]].inner
  BY DEF DropOn
<1>n. n >= 4 /\ Len(P) = 2 * n - 1 + 2 * Len(U)
  BY <1>0
<1>1. Len(L) \in Nat /\ Len(A) \in Nat /\ Len(U) \in Nat
  BY <1>0 DEF LineOK, AddonsOK
<1>2. \A i \in 1..Len(A) : A[i] >= 2 * n /\ A[i] <= Len(P)
  <2>1. l \in Nat
    OBVIOUS
  <2>2. AddonsOK(n, l, A, U)
    BY <1>0
  <2>3. \A i \in 1..Len(A) : A[i] >= 2 * n /\ A[i] <= 2 * n - 1 + 2 * Len(U)
    BY <2>1, <2>2, CorIds
  <2> QED BY <1>n, <2>3
<1>3. L[k] # l /\ L[k] # l + 1
  BY <1>0
<1>4. k # 1 /\ k # Len(L)
  BY <1>0, <1>3 DEF LineOK
<1>5. CASE L[k] = n + l
  <2>1. P[n + l].at = 2 /\ L[2] = n + l /\ A = <<>> /\ Len(L) >= 3
    BY <1>0, <1>5 DEF LineOK
  <2>2. k = 2
    BY <1>0, <1>1, <1>5, <2>1 DEF LineOK
  <2>3. Len(U) \in Nat /\ Len(L) \in Nat
    BY <1>1
  <2>4. P[L[k]].at = k
    BY <1>5, <2>1, <2>2
  <2>5. L[k] \in n + 1..Len(P) /\ k \in 2..Len(L) - 1
    BY <1>n, <1>4, <1>5, <2>3
  <2> QED BY <1>5, <2>1, <2>2, <2>4, <2>5 DEF DropPlace
<1>6. CASE L[k] # n + l
  <2>1. PICK i \in 1..Len(A) : L[k] = A[i]
    BY <1>0, <1>3, <1>6 DEF LineOK
  <2>2. P[L[k]].at \in 1..Len(L) /\ L[P[L[k]].at] = L[k]
    BY <1>0, <2>1 DEF LineOK
  <2>3. P[L[k]].at = k
    BY <1>0, <1>1, <2>2 DEF LineOK
  <2>4. Len(U) \in Nat /\ Len(L) \in Nat /\ L[k] \in Nat
    BY <1>0, <1>1 DEF LineOK
  <2>5. L[k] \in n + 1..Len(P)
    BY <1>n, <1>2, <2>1, <2>4
  <2>6. k \in 2..Len(L) - 1
    BY <1>4, <2>4
  <2> QED BY <1>6, <2>1, <2>3, <2>5, <2>6 DEF DropPlace
<1> QED BY <1>5, <1>6

-----------------------------------------------------------------------------
(* The line, the points and the neighbours after a drop at place i.           *)
DropLine(L, i, b, p, a) ==
  SubSeq(L, 1, i - 1) \o <<b, p, a>> \o SubSeq(L, i + 1, Len(L))

DropPoints(P, ids, i, p) ==
  [Shifted(P, ids, i, 2) EXCEPT ![p] = Point(FALSE, i + 1)] \o <<Point(TRUE, i + 2), Point(TRUE, i)>>

LEMMA CorDropLine ==
  ASSUME NEW L \in Seq(Nat), NEW i \in 2..Len(L) - 1, NEW b \in Nat, NEW p \in Nat, NEW a \in Nat
  PROVE  /\ DropLine(L, i, b, p, a) \in Seq(Nat) /\ Len(DropLine(L, i, b, p, a)) = Len(L) + 2
         /\ \A k \in 1..Len(L) + 2 : DropLine(L, i, b, p, a)[k] =
              (IF k < i THEN L[k] ELSE IF k = i THEN b ELSE IF k = i + 1 THEN p
               ELSE IF k = i + 2 THEN a ELSE L[k - 2])
<1> DEFINE X == SubSeq(L, 1, i - 1)
           Y == <<b, p, a>>
           Z == SubSeq(L, i + 1, Len(L))
<1>0. Len(L) \in Nat /\ \A k \in 1..Len(L) : L[k] \in Nat
  BY LenProperties, ElementOfSeq
<1>1. X \in Seq(Nat) /\ Len(X) = i - 1 /\ \A k \in 1..i - 1 : X[k] = L[k]
  <2> DEFINE m == i - 1
  <2>1. /\ m \in Nat /\ m \in Int /\ 1 \in Int /\ 1 <= m /\ m - 1 + 1 = m
        /\ \A k \in 1..m : 1 + k - 1 = k /\ k \in 1..Len(L)
    BY <1>0
  <2> HIDE DEF m
  <2>2. \A k \in 1..m : L[k] \in Nat
    BY <1>0, <2>1
  <2>3. /\ SubSeq(L, 1, m) \in Seq(Nat) /\ Len(SubSeq(L, 1, m)) = IF 1 <= m THEN m - 1 + 1 ELSE 0
        /\ \A k \in 1..m - 1 + 1 : SubSeq(L, 1, m)[k] = L[1 + k - 1]
    BY <2>1, <2>2, SubSeqProperties
  <2>4. Len(SubSeq(L, 1, m)) = m /\ \A k \in 1..m : SubSeq(L, 1, m)[k] = L[k]
    BY <2>1, <2>3
  <2> QED BY <2>3, <2>4 DEF m
<1>2. Y \in Seq(Nat) /\ Len(Y) = 3 /\ Y[1] = b /\ Y[2] = p /\ Y[3] = a
  OBVIOUS
<1>3. Z \in Seq(Nat) /\ Len(Z) = Len(L) - i /\ \A k \in 1..Len(L) - i : Z[k] = L[k + i]
  <2>1. \A k \in i + 1..Len(L) : L[k] \in Nat
    BY <1>0
  <2>2. /\ Z \in Seq(Nat) /\ Len(Z) = IF i + 1 <= Len(L) THEN Len(L) - (i + 1) + 1 ELSE 0
        /\ \A k \in 1..Len(L) - (i + 1) + 1 : Z[k] = L[i + 1 + k - 1]
    BY <1>0, <2>1, SubSeqProperties
  <2>3. \A k \in 1..Len(L) - i : i + 1 + k - 1 = k + i
    BY <1>0
  <2> QED BY <1>0, <2>2, <2>3
<1> HIDE DEF X, Y, Z
<1> DEFINE W == X \o Y
<1>4. /\ W \in Seq(Nat) /\ Len(W) = i + 2
      /\ \A k \in 1..i + 2 : W[k] = IF k <= i - 1 THEN X[k] ELSE Y[k - (i - 1)]
  <2> DEFINE m == i - 1
  <2>1. m \in Nat /\ m + 3 = i + 2 /\ Len(X) = m
    BY <1>0, <1>1
  <2> HIDE DEF m
  <2>2. /\ W \in Seq(Nat) /\ Len(W) = m + 3
        /\ \A k \in 1..m + 3 : W[k] = IF k <= m THEN X[k] ELSE Y[k - m]
    <3>1. X \in Seq(Nat) /\ Y \in Seq(Nat)
      BY <1>1, <1>2
    <3>2. /\ W \in Seq(Nat) /\ Len(W) = Len(X) + Len(Y)
          /\ \A k \in 1..Len(X) + Len(Y) : W[k] = IF k <= Len(X) THEN X[k] ELSE Y[k - Len(X)]
      BY <3>1, ConcatProperties
    <3>3. Len(X) = m /\ Len(Y) = 3
      BY <1>2, <2>1
    <3> QED BY <3>2, <3>3
  <2> QED BY <2>1, <2>2 DEF m
<1> HIDE DEF W
<1>5. ASSUME NEW k \in 1..i + 2
      PROVE  W[k] = (IF k < i THEN L[k] ELSE IF k = i THEN b ELSE IF k = i + 1 THEN p ELSE a)
  <2>1. CASE k < i
    <3>1. k \in 1..i - 1 /\ k <= i - 1
      BY <1>0, <2>1
    <3>2. W[k] = X[k]
      BY <1>4, <3>1
    <3> QED BY <1>1, <2>1, <3>1, <3>2
  <2>2. CASE k = i
    BY <1>0, <1>2, <1>4, <2>2
  <2>3. CASE k = i + 1
    BY <1>0, <1>2, <1>4, <2>3
  <2>4. CASE k = i + 2
    BY <1>0, <1>2, <1>4, <2>4
  <2> QED BY <1>0, <2>1, <2>2, <2>3, <2>4
<1>7. /\ W \o Z \in Seq(Nat) /\ Len(W \o Z) = Len(L) + 2
      /\ \A k \in 1..Len(L) + 2 : (W \o Z)[k] = IF k <= i + 2 THEN W[k] ELSE Z[k - (i + 2)]
  <2> DEFINE m == i + 2
             n == Len(L) - i
  <2>1. m \in Nat /\ n \in Nat /\ m + n = Len(L) + 2 /\ Len(W) = m /\ Len(Z) = n
    BY <1>0, <1>3, <1>4
  <2> HIDE DEF m, n
  <2>2. /\ W \o Z \in Seq(Nat) /\ Len(W \o Z) = m + n
        /\ \A k \in 1..m + n : (W \o Z)[k] = IF k <= m THEN W[k] ELSE Z[k - m]
    <3>1. W \in Seq(Nat) /\ Z \in Seq(Nat)
      BY <1>3, <1>4
    <3>2. /\ W \o Z \in Seq(Nat) /\ Len(W \o Z) = Len(W) + Len(Z)
          /\ \A k \in 1..Len(W) + Len(Z) :
               (W \o Z)[k] = IF k <= Len(W) THEN W[k] ELSE Z[k - Len(W)]
      BY <3>1, ConcatProperties
    <3> QED BY <2>1, <3>2
  <2> QED BY <2>1, <2>2 DEF m
<1>8. ASSUME NEW k \in i + 3..Len(L) + 2 PROVE Z[k - (i + 2)] = L[k - 2]
  <2>1. k - (i + 2) \in 1..Len(L) - i /\ k - (i + 2) + i = k - 2
    BY <1>0
  <2> QED BY <1>3, <2>1
<1>9. DropLine(L, i, b, p, a) = W \o Z
  BY DEF DropLine, W, X, Y, Z
<1>10. ASSUME NEW k \in 1..Len(L) + 2
       PROVE  (W \o Z)[k] =
              (IF k < i THEN L[k] ELSE IF k = i THEN b ELSE IF k = i + 1 THEN p
               ELSE IF k = i + 2 THEN a ELSE L[k - 2])
  <2>1. (W \o Z)[k] = IF k <= i + 2 THEN W[k] ELSE Z[k - (i + 2)]
    BY <1>7
  <2>2. CASE k <= i + 2
    <3>1. k \in 1..i + 2 /\ (k < i \/ k = i \/ k = i + 1 \/ k = i + 2)
      BY <1>0, <2>2
    <3>2. W[k] = (IF k < i THEN L[k] ELSE IF k = i THEN b ELSE IF k = i + 1 THEN p ELSE a)
      BY <1>5, <3>1
    <3> QED BY <2>1, <2>2, <3>1, <3>2
  <2>3. CASE ~(k <= i + 2)
    <3>1. k \in i + 3..Len(L) + 2 /\ ~(k < i) /\ k # i /\ k # i + 1 /\ k # i + 2
      BY <1>0, <2>3
    <3>2. Z[k - (i + 2)] = L[k - 2]
      BY <1>8, <3>1
    <3> QED BY <2>1, <2>3, <3>1, <3>2
  <2> QED BY <2>2, <2>3
<1> QED BY <1>7, <1>9, <1>10

LEMMA CorShifted ==
  ASSUME NEW P \in Seq(CorPoint), NEW ids, NEW i \in Nat, NEW by \in Int,
         \A k \in 1..Len(P) : k \in ids /\ P[k].at > i => P[k].at + by >= 0
  PROVE  /\ Shifted(P, ids, i, by) \in Seq(CorPoint) /\ Len(Shifted(P, ids, i, by)) = Len(P)
         /\ \A k \in 1..Len(P) :
              /\ Shifted(P, ids, i, by)[k].inner = P[k].inner
              /\ Shifted(P, ids, i, by)[k].at =
                   IF k \in ids /\ P[k].at > i THEN P[k].at + by ELSE P[k].at
<1> DEFINE Q == Shifted(P, ids, i, by)
<1>1. Q = [k \in 1..Len(P) |-> IF k \in ids /\ P[k].at > i
                              THEN [P[k] EXCEPT !.at = @ + by] ELSE P[k]]
  BY DEF Shifted
<1> HIDE DEF Q
<1>2. ASSUME NEW k \in 1..Len(P)
      PROVE  /\ Q[k] \in CorPoint /\ Q[k].inner = P[k].inner
             /\ Q[k].at = IF k \in ids /\ P[k].at > i THEN P[k].at + by ELSE P[k].at
  <2>1. P[k] \in CorPoint
    OBVIOUS
  <2> QED BY <1>1, <2>1, SMTT(40) DEF CorPoint
<1>3. Q \in Seq(CorPoint) /\ Len(Q) = Len(P)
  BY <1>1, <1>2
<1> QED BY <1>2, <1>3 DEF Q

LEMMA CorDropPoints ==
  ASSUME NEW P \in Seq(CorPoint), NEW ids, NEW i \in Nat, NEW p \in 1..Len(P)
  PROVE  LET Q == DropPoints(P, ids, i, p)
         IN /\ Q \in Seq(CorPoint) /\ Len(Q) = Len(P) + 2
            /\ \A k \in 1..Len(P) : k # p =>
                 /\ Q[k].inner = P[k].inner
                 /\ Q[k].at = IF k \in ids /\ P[k].at > i THEN P[k].at + 2 ELSE P[k].at
            /\ Q[p] = Point(FALSE, i + 1)
            /\ Q[Len(P) + 1] = Point(TRUE, i + 2) /\ Q[Len(P) + 2] = Point(TRUE, i)
<1> DEFINE S == Shifted(P, ids, i, 2)
           R == [S EXCEPT ![p] = Point(FALSE, i + 1)]
           E == <<Point(TRUE, i + 2), Point(TRUE, i)>>
<1>0. \A k \in 1..Len(P) : P[k].at \in Nat
  <2>1. \A k \in 1..Len(P) : P[k] \in CorPoint
    OBVIOUS
  <2> QED BY <2>1 DEF CorPoint
<1>1. /\ S \in Seq(CorPoint) /\ Len(S) = Len(P)
      /\ \A k \in 1..Len(P) :
           /\ S[k].inner = P[k].inner
           /\ S[k].at = IF k \in ids /\ P[k].at > i THEN P[k].at + 2 ELSE P[k].at
  BY <1>0, CorShifted
<1> HIDE DEF S
<1>2. \A at \in Nat : Point(TRUE, at) \in CorPoint /\ Point(FALSE, at) \in CorPoint
  BY DEF Point, CorPoint
<1>3. /\ R \in Seq(CorPoint) /\ Len(R) = Len(P) /\ R[p] = Point(FALSE, i + 1)
      /\ \A k \in 1..Len(P) : k # p => R[k] = S[k]
  <2>1. Point(FALSE, i + 1) \in CorPoint
    <3>1. i + 1 \in Nat
      OBVIOUS
    <3> QED BY <1>2, <3>1
  <2> DEFINE e == Point(FALSE, i + 1)
  <2> HIDE DEF e
  <2>2. e \in CorPoint
    BY <2>1 DEF e
  <2>3. /\ [S EXCEPT ![p] = e] \in Seq(CorPoint) /\ Len([S EXCEPT ![p] = e]) = Len(S)
        /\ \A j \in 1..Len(S) : [S EXCEPT ![p] = e][j] = IF j = p THEN e ELSE S[j]
    BY <1>1, <2>2, ExceptSeq
  <2> QED BY <1>1, <2>3 DEF e
<1>4. E \in Seq(CorPoint) /\ Len(E) = 2 /\ E[1] = Point(TRUE, i + 2) /\ E[2] = Point(TRUE, i)
  <2> DEFINE x == Point(TRUE, i + 2)
             y == Point(TRUE, i)
  <2>1. x \in CorPoint /\ y \in CorPoint
    <3>1. i + 2 \in Nat
      OBVIOUS
    <3> QED BY <1>2, <3>1
  <2> HIDE DEF x, y
  <2>2. <<x, y>> \in Seq(CorPoint) /\ Len(<<x, y>>) = 2
    BY <2>1
  <2> QED BY <2>2 DEF x, y
<1> HIDE DEF R, E
<1>5. /\ R \o E \in Seq(CorPoint) /\ Len(R \o E) = Len(P) + 2
      /\ \A k \in 1..Len(P) + 2 : (R \o E)[k] = IF k <= Len(P) THEN R[k] ELSE E[k - Len(P)]
  <2> DEFINE m == Len(P)
  <2>1. m \in Nat /\ Len(R) = m
    BY <1>3, LenProperties
  <2> HIDE DEF m
  <2>2. /\ R \o E \in Seq(CorPoint) /\ Len(R \o E) = m + 2
        /\ \A k \in 1..m + 2 : (R \o E)[k] = IF k <= m THEN R[k] ELSE E[k - m]
    <3>1. R \in Seq(CorPoint) /\ E \in Seq(CorPoint)
      BY <1>3, <1>4
    <3>2. /\ R \o E \in Seq(CorPoint) /\ Len(R \o E) = Len(R) + Len(E)
          /\ \A k \in 1..Len(R) + Len(E) :
               (R \o E)[k] = IF k <= Len(R) THEN R[k] ELSE E[k - Len(R)]
      BY <3>1, ConcatProperties
    <3>3. Len(R) = m /\ Len(E) = 2
      BY <1>4, <2>1
    <3> QED BY <3>2, <3>3
  <2> QED BY <2>2 DEF m
<1>6. DropPoints(P, ids, i, p) = R \o E
  BY DEF DropPoints, R, S, E
<1>7. Len(P) \in Nat
  BY LenProperties
<1>8. /\ (R \o E)[p] = Point(FALSE, i + 1)
      /\ (R \o E)[Len(P) + 1] = Point(TRUE, i + 2) /\ (R \o E)[Len(P) + 2] = Point(TRUE, i)
  <2>1. (R \o E)[p] = R[p] /\ (R \o E)[Len(P) + 1] = E[1] /\ (R \o E)[Len(P) + 2] = E[2]
    <3>1. /\ p \in 1..Len(P) + 2 /\ p <= Len(P)
          /\ \A d \in 1..2 : Len(P) + d \in 1..Len(P) + 2 /\ ~(Len(P) + d <= Len(P)) /\ Len(P) + d - Len(P) = d
      BY <1>7
    <3>2. (R \o E)[p] = R[p]
      BY <1>5, <3>1
    <3>3. ASSUME NEW d \in 1..2 PROVE (R \o E)[Len(P) + d] = E[d]
      BY <1>5, <3>1
    <3>4. 1 \in 1..2 /\ 2 \in 1..2
      OBVIOUS
    <3> QED BY <3>2, <3>3, <3>4
  <2> QED BY <1>3, <1>4, <2>1
<1>9. \A k \in 1..Len(P) : k # p => (R \o E)[k] = S[k]
  BY <1>3, <1>5, <1>7
<1> QED BY <1>1, <1>5, <1>6, <1>8, <1>9

-----------------------------------------------------------------------------
(* The ids on a line are those of points there are.                           *)
LEMMA CorOnLine ==
  ASSUME NEW n \in Nat, n >= 4, NEW l \in 1..n - 1, NEW L, NEW A, NEW P, NEW U,
         LineOK(n, l, L, P, A), AddonsOK(n, l, A, U)
  PROVE  \A k \in 1..Len(L) : L[k] \in 1..2 * n - 1 + 2 * Len(U)
<1>1. Len(U) \in Nat /\ l \in Nat
  BY DEF AddonsOK
<1>2. \A i \in 1..Len(A) : A[i] >= 2 * n /\ A[i] <= 2 * n - 1 + 2 * Len(U)
  BY <1>1, CorIds
<1>4. TAKE k \in 1..Len(L)
<1>5. L[k] \in {l, n + l, l + 1} \/ \E i \in 1..Len(A) : L[k] = A[i]
  BY DEF LineOK
<1>6. CASE L[k] \in {l, n + l, l + 1}
  BY <1>1, <1>6
<1>7. CASE \E i \in 1..Len(A) : L[k] = A[i]
  <2>1. L[k] \in Nat
    BY DEF LineOK
  <2> QED BY <1>1, <1>2, <1>7, <2>1
<1> QED BY <1>5, <1>6, <1>7

(* Where the element at place x goes when two are put around place k.         *)
NewPlace(k, x) == IF x < k THEN x ELSE IF x = k THEN k + 1 ELSE x + 2

(* Line M is line L with b and a put on the two sides of place k.             *)
Widened(L, M, k, b, a) ==
  /\ Len(M) = Len(L) + 2
  /\ M[k] = b /\ M[k + 2] = a
  /\ \A x \in 1..Len(L) : NewPlace(k, x) \in 1..Len(M) /\ M[NewPlace(k, x)] = L[x]

Among(A, q) == \E i \in 1..Len(A) : q = A[i]

(* Points Q are points P with those of ids A after place k moved on by two, the *)
(* one at k no longer inner, and two more.                                    *)
Moved(P, Q, A, k, p) ==
  /\ Len(Q) = Len(P) + 2
  /\ \A q \in 1..Len(P) : q # p =>
       /\ Q[q].inner = P[q].inner
       /\ Q[q].at = IF Among(A, q) /\ P[q].at > k THEN P[q].at + 2 ELSE P[q].at
  /\ ~Q[p].inner /\ Q[p].at = k + 1
  /\ Q[Len(P) + 1].at = k + 2 /\ Q[Len(P) + 2].at = k

NeighboursKept(A, B, b, a) ==
  /\ Len(B) = Len(A) + 2 /\ \A i \in 1..Len(A) : B[i] = A[i]
  /\ B[Len(A) + 1] = b /\ B[Len(A) + 2] = a

Recorded(U, V, p, l) ==
  /\ Len(V) = Len(U) + 1 /\ \A j \in 1..Len(U) : V[j] = U[j]
  /\ V[Len(U) + 1].point = p /\ V[Len(U) + 1].line = l

(* What it makes of the line, the points and the neighbours.                  *)
DropTo(L, A, P, k, M, B, Q) ==
  /\ Widened(L, M, k, Len(P) + 2, Len(P) + 1) /\ Moved(P, Q, A, k, L[k])
  /\ NeighboursKept(A, B, Len(P) + 2, Len(P) + 1)

LEMMA CorWidenedFrom ==
  ASSUME NEW m \in Nat, NEW k \in 2..m - 1, NEW x \in 1..m + 2, x # k, x # k + 2
  PROVE  \E y \in 1..m : x = NewPlace(k, y)
<1>1. CASE x < k
  <2>1. x \in 1..m /\ x = NewPlace(k, x)
    BY <1>1 DEF NewPlace
  <2> QED BY <2>1
<1>2. CASE x = k + 1
  <2>1. k \in 1..m /\ x = NewPlace(k, k)
    BY <1>2 DEF NewPlace
  <2> QED BY <2>1
<1>3. CASE x > k + 2
  <2>1. x - 2 \in 1..m /\ x = NewPlace(k, x - 2)
    BY <1>3 DEF NewPlace
  <2> QED BY <2>1
<1> QED BY <1>1, <1>2, <1>3

LEMMA CorWidenedInjective ==
  ASSUME NEW L, Len(L) \in Nat, NEW M, NEW k \in 2..Len(L) - 1, NEW b \in Nat, NEW a \in Nat, a # b,
         Widened(L, M, k, b, a), \A x \in 1..Len(L) : L[x] # a /\ L[x] # b,
         \A x, y \in 1..Len(L) : L[x] = L[y] => x = y
  PROVE  \A x, y \in 1..Len(M) : M[x] = M[y] => x = y
<1>0. Len(L) \in Nat /\ Len(M) = Len(L) + 2
  BY DEF Widened
<1>1. ASSUME NEW x \in 1..Len(M), x # k, x # k + 2
      PROVE  \E y \in 1..Len(L) : x = NewPlace(k, y) /\ M[x] = L[y]
  <2>1. PICK y \in 1..Len(L) : x = NewPlace(k, y)
    <3>1. Len(L) \in Nat /\ x \in 1..Len(L) + 2
      BY <1>0
    <3> QED BY <1>1, <3>1, CorWidenedFrom
  <2> QED BY <2>1 DEF Widened
<1>2. M[k] = b /\ M[k + 2] = a
  BY DEF Widened
<1>3. ASSUME NEW x \in 1..Len(M), NEW y \in 1..Len(M), M[x] = M[y] PROVE x = y
  <2>1. CASE x # k /\ x # k + 2 /\ y # k /\ y # k + 2
    <3>1. PICK v \in 1..Len(L) : x = NewPlace(k, v) /\ M[x] = L[v]
      BY <1>1, <2>1
    <3>2. PICK w \in 1..Len(L) : y = NewPlace(k, w) /\ M[y] = L[w]
      BY <1>1, <2>1
    <3>3. v = w
      BY <1>3, <3>1, <3>2
    <3> QED BY <3>1, <3>2, <3>3
  <2>2. CASE x \in {k, k + 2} /\ y \in {k, k + 2}
    BY <1>2, <1>3, <2>2
  <2>3. CASE x \in {k, k + 2} /\ y \notin {k, k + 2}
    <3>1. PICK w \in 1..Len(L) : M[y] = L[w]
      BY <1>1, <2>3
    <3> QED BY <1>2, <1>3, <2>3, <3>1
  <2>4. CASE x \notin {k, k + 2} /\ y \in {k, k + 2}
    <3>1. PICK v \in 1..Len(L) : M[x] = L[v]
      BY <1>1, <2>4
    <3> QED BY <1>2, <1>3, <2>4, <3>1
  <2> QED BY <2>1, <2>2, <2>3, <2>4
<1> QED BY <1>3

(* A drop leaves its line in order.                                           *)
LEMMA CorDropLineOK ==
  ASSUME NEW n \in Nat, NEW l \in 1..n - 1, NEW L, NEW A, NEW P,
         NEW U, NEW k \in 1..Len(L), DropOn(n, l, L, A, P, U, k),
         NEW M, NEW B, NEW Q,
         DropTo(L, A, P, k, M, B, Q)
  PROVE  LineOK(n, l, M, Q, B)
<1>0. /\ n >= 4 /\ LineOK(n, l, L, P, A) /\ AddonsOK(n, l, A, U)
      /\ Len(P) = 2 * n - 1 + 2 * Len(U)
  BY DEF DropOn
<1>d. /\ Widened(L, M, k, Len(P) + 2, Len(P) + 1) /\ Moved(P, Q, A, k, L[k])
      /\ NeighboursKept(A, B, Len(P) + 2, Len(P) + 1)
  BY DEF DropTo
<1>1. Len(L) \in Nat /\ Len(A) \in Nat /\ Len(U) \in Nat /\ Len(P) \in Nat
  BY <1>0 DEF LineOK, AddonsOK
<1>2. /\ L[k] \in n + 1..Len(P) /\ P[L[k]].at = k /\ k \in 2..Len(L) - 1
      /\ L[k] = n + l => k = 2 /\ A = <<>>
      /\ L[k] = n + l \/ \E i \in 1..Len(A) : L[k] = A[i]
  <2>1. DropPlace(n, l, L, A, P, k)
    BY CorPlace
  <2> QED BY <2>1 DEF DropPlace
<1>r. k >= 2 /\ k <= Len(L) - 1
  BY <1>2
<1>m. Len(M) = Len(L) + 2 /\ Len(B) = Len(A) + 2
  BY <1>d DEF Widened, NeighboursKept
<1>3. \A x \in 1..Len(L) : L[x] \in 1..Len(P)
  <2>1. \A x \in 1..Len(L) : L[x] \in 1..2 * n - 1 + 2 * Len(U)
    BY <1>0, CorOnLine
  <2> QED BY <1>0, <2>1
<1>5. Len(M) >= 3 /\ M[1] = l /\ M[Len(M)] = l + 1
  <2>1. NewPlace(k, 1) = 1 /\ NewPlace(k, Len(L)) = Len(L) + 2 /\ 1 \in 1..Len(L) /\ Len(L) \in 1..Len(L)
    BY <1>1, <1>r DEF NewPlace
  <2>2. M[1] = L[1] /\ M[Len(L) + 2] = L[Len(L)]
    BY <1>d, <2>1 DEF Widened
  <2>3. L[1] = l /\ L[Len(L)] = l + 1
    BY <1>0 DEF LineOK
  <2> QED BY <1>1, <1>2, <1>m, <2>2, <2>3
<1>6. \A x, y \in 1..Len(M) : M[x] = M[y] => x = y
  <2>1. \A x \in 1..Len(L) : L[x] # Len(P) + 1 /\ L[x] # Len(P) + 2
    BY <1>1, <1>3
  <2>2. \A x, y \in 1..Len(L) : L[x] = L[y] => x = y
    BY <1>0 DEF LineOK
  <2>3. Len(P) + 1 \in Nat /\ Len(P) + 2 \in Nat /\ Len(P) + 1 # Len(P) + 2
    BY <1>1
  <2>4. k \in 2..Len(L) - 1
    BY <1>2
  <2>5. Widened(L, M, k, Len(P) + 2, Len(P) + 1)
    BY <1>d
  <2> DEFINE b == Len(P) + 2
             a == Len(P) + 1
  <2>6. /\ b \in Nat /\ a \in Nat /\ a # b /\ Widened(L, M, k, b, a)
        /\ \A x \in 1..Len(L) : L[x] # a /\ L[x] # b
    BY <2>1, <2>3, <2>5
  <2> HIDE DEF a, b
  <2> QED BY <1>1, <2>2, <2>4, <2>6, CorWidenedInjective
<1>7. ASSUME NEW x \in 1..Len(L) PROVE NewPlace(k, x) \in 1..Len(M) /\ M[NewPlace(k, x)] = L[x]
  BY <1>d, <1>7 DEF Widened
<1>8. M[k] = Len(P) + 2 /\ M[k + 2] = Len(P) + 1 /\ k \in 1..Len(M) /\ k + 2 \in 1..Len(M)
  <2>1. k \in 1..Len(L) + 2 /\ k + 2 \in 1..Len(L) + 2
    BY <1>1, <1>r
  <2> QED BY <1>d, <1>m, <2>1 DEF Widened
<1>9. /\ Len(A) + 1 \in 1..Len(B) /\ B[Len(A) + 1] = Len(P) + 2
      /\ Len(A) + 2 \in 1..Len(B) /\ B[Len(A) + 2] = Len(P) + 1
      /\ \A i \in 1..Len(A) : i \in 1..Len(B) /\ B[i] = A[i]
  BY <1>d, <1>1, <1>m DEF NeighboursKept
<1>t. /\ Len(M) \in Nat /\ Len(B) \in Nat
      /\ \A x \in 1..Len(M) : M[x] \in Nat
      /\ \A x \in 1..Len(B) : B[x] \in Nat
  <2>1. \A x \in 1..Len(M) : x = k \/ x = k + 2 \/ \E y \in 1..Len(L) : x = NewPlace(k, y)
    <3>1. TAKE x \in 1..Len(M)
    <3>2. Len(L) \in Nat /\ k \in 2..Len(L) - 1 /\ x \in 1..Len(L) + 2
      BY <1>1, <1>2, <1>m
    <3> QED BY <3>2, CorWidenedFrom
  <2>2. \A y \in 1..Len(L) : L[y] \in Nat
    BY <1>0 DEF LineOK
  <2>3. \A x \in 1..Len(M) : M[x] \in Nat
    <3>1. TAKE x \in 1..Len(M)
    <3>2. CASE x = k \/ x = k + 2
      BY <1>1, <1>8, <3>2, SMTT(20)
    <3>3. CASE \E y \in 1..Len(L) : x = NewPlace(k, y)
      BY <1>7, <2>2, <3>3
    <3> QED BY <2>1, <3>2, <3>3
  <2>4. \A i \in 1..Len(A) : A[i] \in Nat
    BY <1>0 DEF LineOK
  <2>5. ASSUME NEW x \in 1..Len(B) PROVE B[x] \in Nat
    <3>1. x \in 1..Len(A) \/ x = Len(A) + 1 \/ x = Len(A) + 2
      BY <1>1, <1>m
    <3> QED BY <1>1, <1>9, <2>4, <3>1, SMTT(40)
  <2> QED BY <1>1, <1>m, <2>3, <2>5
<1>10. ASSUME NEW x \in 1..Len(M)
       PROVE  M[x] \in {l, n + l, l + 1} \/ \E i \in 1..Len(B) : M[x] = B[i]
  <2>1. CASE x \in {k, k + 2}
    BY <1>8, <1>9, <2>1
  <2>2. CASE x \notin {k, k + 2}
    <3>1. PICK y \in 1..Len(L) : x = NewPlace(k, y)
      <4>1. Len(L) \in Nat /\ k \in 2..Len(L) - 1 /\ x \in 1..Len(L) + 2
        BY <1>1, <1>2, <1>m
      <4>2. x # k /\ x # k + 2
        BY <2>2
      <4> QED BY <4>1, <4>2, CorWidenedFrom
    <3>2. M[x] = L[y]
      BY <1>7, <3>1
    <3>3. L[y] \in {l, n + l, l + 1} \/ \E i \in 1..Len(A) : L[y] = A[i]
      BY <1>0 DEF LineOK
    <3> QED BY <1>9, <3>2, <3>3
  <2> QED BY <2>1, <2>2
<1>11. \E x \in 1..Len(M) : M[x] = n + l
  <2>1. PICK x \in 1..Len(L) : L[x] = n + l
    BY <1>0 DEF LineOK
  <2>2. NewPlace(k, x) \in 1..Len(M) /\ M[NewPlace(k, x)] = n + l
    BY <1>7, <2>1
  <2> QED BY <2>2
<1>12. \A i \in 1..Len(A) : Among(A, A[i]) /\ A[i] \in 2 * n..Len(P) /\ P[A[i]].at \in 1..Len(L) /\ L[P[A[i]].at] = A[i]
  <2>1. \A i \in 1..Len(A) : A[i] >= 2 * n /\ A[i] <= Len(P) /\ A[i] \in Nat
    <3>1. l \in Nat
      OBVIOUS
    <3>2. \A i \in 1..Len(A) : A[i] >= 2 * n /\ A[i] <= 2 * n - 1 + 2 * Len(U)
      BY <1>0, <1>1, <3>1, CorIds
    <3>3. \A i \in 1..Len(A) : A[i] \in Nat
      BY <1>0 DEF LineOK
    <3> QED BY <1>0, <3>2, <3>3
  <2>2. \A i \in 1..Len(A) : P[A[i]].at \in 1..Len(L) /\ L[P[A[i]].at] = A[i]
    BY <1>0 DEF LineOK
  <2>3. \A i \in 1..Len(A) : Among(A, A[i])
    BY DEF Among
  <2>4. \A i \in 1..Len(A) : A[i] \in 2 * n..Len(P)
    BY <1>1, <2>1
  <2> QED BY <2>2, <2>3, <2>4
<1>13. ASSUME NEW i \in 1..Len(B) PROVE Q[B[i]].at \in 1..Len(M) /\ M[Q[B[i]].at] = B[i]
  <2>1. CASE i = Len(A) + 1
    BY <1>8, <1>9, <2>1, <1>d DEF Moved
  <2>2. CASE i = Len(A) + 2
    BY <1>8, <1>9, <2>2, <1>d DEF Moved
  <2>3. CASE i \in 1..Len(A)
    <3> DEFINE q == A[i]
    <3>1. B[i] = q /\ Among(A, q) /\ q \in 1..Len(P) /\ P[q].at \in 1..Len(L) /\ L[P[q].at] = q
      BY <1>9, <1>12, <2>3, SMTT(40)
    <3> HIDE DEF q
    <3>2. CASE q = L[k]
      <4>1. Q[q].at = k + 1 /\ NewPlace(k, k) = k + 1
        BY <1>d, <1>2, <3>2 DEF Moved, NewPlace
      <4> QED BY <1>7, <3>1, <3>2, <4>1
    <3>3. CASE q # L[k]
      <4>1. P[q].at # k
        BY <3>1, <3>3
      <4>2. Q[q].at = IF P[q].at > k THEN P[q].at + 2 ELSE P[q].at
        BY <3>1, <3>3, <1>d DEF Moved
      <4>3. Q[q].at = NewPlace(k, P[q].at)
        <5> DEFINE x == P[q].at
        <5>1. x \in Int /\ k \in Int /\ x # k
          BY <1>1, <3>1, <4>1
        <5>2. Q[q].at = IF x > k THEN x + 2 ELSE x
          BY <4>2
        <5> HIDE DEF x
        <5>3. Q[q].at = NewPlace(k, x)
          BY <5>1, <5>2 DEF NewPlace
        <5> QED BY <5>3 DEF x
      <4>4. NewPlace(k, P[q].at) \in 1..Len(M) /\ M[NewPlace(k, P[q].at)] = q
        BY <1>7, <3>1
      <4> QED BY <3>1, <4>3, <4>4
    <3> QED BY <3>2, <3>3
  <2>4. i = Len(A) + 1 \/ i = Len(A) + 2 \/ i \in 1..Len(A)
    BY <1>1, <1>m
  <2> QED BY <2>1, <2>2, <2>3, <2>4
<1>14. ~Q[n + l].inner /\ Q[n + l].at = 3
  <2>1. n + l \in 1..Len(P) /\ n + l < 2 * n
    BY <1>0, <1>1
  <2>2. CASE L[k] = n + l
    BY <1>2, <2>2, <1>d DEF Moved
  <2>3. CASE L[k] # n + l
    <3>1. PICK i \in 1..Len(A) : L[k] = A[i]
      BY <1>2, <2>3
    <3>2. A # <<>>
      BY <1>1, <3>1
    <3>3. ~P[n + l].inner /\ P[n + l].at = 3
      BY <1>0, <3>2 DEF LineOK
    <3>4. ~Among(A, n + l)
      <4>1. \A x \in 1..Len(A) : A[x] # n + l
        <5>1. TAKE x \in 1..Len(A)
        <5>2. A[x] \in 2 * n..Len(P)
          BY <1>12
        <5> QED BY <2>1, <5>2
      <4> QED BY <4>1 DEF Among
    <3> QED BY <2>1, <2>3, <3>3, <3>4, <1>d DEF Moved
  <2> QED BY <2>2, <2>3
<1> QED BY <1>t, <1>5, <1>6, <1>10, <1>11, <1>13, <1>14 DEF LineOK

(* A drop keeps the neighbours of its line, and of the others, in order.      *)
LEMMA CorDropAddonsOK ==
  ASSUME NEW n \in Nat, NEW l \in 1..n - 1, NEW A, NEW B, NEW U, NEW V, NEW p,
         AddonsOK(n, l, A, U), Recorded(U, V, p, l),
         NeighboursKept(A, B, IdBefore(n, Len(U) + 1), IdAfter(n, Len(U) + 1))
  PROVE  AddonsOK(n, l, B, V)
<1>1. Len(A) \in Nat /\ Len(U) \in Nat /\ Len(B) = Len(A) + 2 /\ Len(V) = Len(U) + 1
  BY DEF AddonsOK, NeighboursKept, Recorded
<1>2. ASSUME NEW k \in 1..Len(B)
      PROVE  \E j \in 1..Len(V) : V[j].line = l /\ B[k] \in {IdAfter(n, j), IdBefore(n, j)}
  <2>1. CASE k \in 1..Len(A)
    <3>1. PICK j \in 1..Len(U) : U[j].line = l /\ A[k] \in {IdAfter(n, j), IdBefore(n, j)}
      BY <2>1 DEF AddonsOK
    <3>2. j \in 1..Len(V) /\ V[j] = U[j] /\ B[k] = A[k]
      BY <1>1, <2>1 DEF Recorded, NeighboursKept
    <3> QED BY <3>1, <3>2
  <2>2. CASE k \in {Len(A) + 1, Len(A) + 2}
    <3>1. Len(U) + 1 \in 1..Len(V) /\ V[Len(U) + 1].line = l
      BY <1>1 DEF Recorded
    <3>2. B[k] \in {IdAfter(n, Len(U) + 1), IdBefore(n, Len(U) + 1)}
      BY <2>2 DEF NeighboursKept
    <3> QED BY <3>1, <3>2
  <2> QED BY <1>1, <2>1, <2>2
<1>3. \A k \in 1..Len(A) : A[k] >= 2 * n /\ A[k] <= 2 * n - 1 + 2 * Len(U)
  <2>1. l \in Nat
    OBVIOUS
  <2> QED BY <2>1, CorIds
<1>4. \A k \in 1..Len(A) : A[k] \in Nat
  <2>1. TAKE k \in 1..Len(A)
  <2>2. PICK j \in 1..Len(U) : A[k] \in {IdAfter(n, j), IdBefore(n, j)}
    BY DEF AddonsOK
  <2> QED BY <1>1, <2>2 DEF IdAfter, IdBefore
<1>5. IdBefore(n, Len(U) + 1) = 2 * n + 2 * Len(U) + 1 /\ IdAfter(n, Len(U) + 1) = 2 * n + 2 * Len(U)
  BY <1>1 DEF IdAfter, IdBefore
<1>6. ASSUME NEW i \in 1..Len(B), NEW k \in 1..Len(B), i < k
      PROVE  B[i] # B[k] /\ (B[i] < B[k] \/ k = i + 1)
  <2>1. CASE k \in 1..Len(A)
    <3>1. i \in 1..Len(A) /\ B[i] = A[i] /\ B[k] = A[k]
      BY <1>1, <1>6, <2>1 DEF NeighboursKept
    <3> QED BY <1>6, <2>1, <3>1 DEF AddonsOK
  <2>2. CASE k \in {Len(A) + 1, Len(A) + 2} /\ i \in 1..Len(A)
    <3>1. B[i] = A[i] /\ B[k] \in {2 * n + 2 * Len(U) + 1, 2 * n + 2 * Len(U)}
      BY <1>5, <2>2 DEF NeighboursKept
    <3>2. A[i] <= 2 * n - 1 + 2 * Len(U) /\ A[i] \in Nat
      BY <1>3, <1>4, <2>2
    <3> QED BY <1>1, <3>1, <3>2
  <2>3. CASE k = Len(A) + 2 /\ i = Len(A) + 1
    <3>1. B[i] = 2 * n + 2 * Len(U) + 1 /\ B[k] = 2 * n + 2 * Len(U)
      BY <1>5, <2>3 DEF NeighboursKept
    <3> QED BY <1>1, <2>3, <3>1
  <2> QED BY <1>1, <1>6, <2>1, <2>2, <2>3
<1> QED BY <1>1, <1>2, <1>6 DEF AddonsOK

LEMMA CorDropAddonsOther ==
  ASSUME NEW n \in Nat, NEW l \in Nat, NEW m \in Nat, NEW A, NEW U, NEW V, NEW p,
         AddonsOK(n, m, A, U), Recorded(U, V, p, l)
  PROVE  AddonsOK(n, m, A, V)
<1>1. Len(U) \in Nat /\ Len(V) = Len(U) + 1
  BY DEF AddonsOK, Recorded
<1>2. \A j \in 1..Len(U) : j \in 1..Len(V) /\ V[j] = U[j]
  BY <1>1 DEF Recorded
<1> QED BY <1>1, <1>2 DEF AddonsOK

(* The order of a line is kept by what is put in, and so the earlier drops.   *)
LEMMA CorNewPlaceOrder ==
  ASSUME NEW k \in Nat, NEW x \in Nat, NEW y \in Nat
  PROVE  NewPlace(k, x) < NewPlace(k, y) <=> x < y
BY DEF NewPlace

LEMMA CorDropMoveOK ==
  ASSUME NEW n \in Nat, NEW l \in 1..n - 1, NEW L, NEW A, NEW P, NEW U, NEW k \in 1..Len(L),
         DropOn(n, l, L, A, P, U, k), NEW M, NEW B, NEW Q, DropTo(L, A, P, k, M, B, Q),
         NEW j \in 1..Len(U), NEW u, u.line = l, MoveOK(n, j, u, L, A)
  PROVE  MoveOK(n, j, u, M, B)
<1>0. /\ n >= 4 /\ LineOK(n, l, L, P, A) /\ AddonsOK(n, l, A, U)
      /\ Len(P) = 2 * n - 1 + 2 * Len(U)
  BY DEF DropOn
<1>1. /\ Len(L) \in Nat /\ Len(A) \in Nat /\ Len(U) \in Nat /\ Len(P) \in Nat
      /\ Len(M) = Len(L) + 2 /\ Len(B) = Len(A) + 2
  BY <1>0 DEF LineOK, AddonsOK, DropTo, Widened, NeighboursKept
<1>2. k \in 2..Len(L) - 1
  <2>1. DropPlace(n, l, L, A, P, k)
    BY CorPlace
  <2> QED BY <2>1 DEF DropPlace
<1>3. \A i \in 1..Len(A) : i \in 1..Len(B) /\ B[i] = A[i]
  BY <1>1 DEF DropTo, NeighboursKept
<1>4. \A i \in 1..Len(A) : A[i] <= Len(P) /\ A[i] \in Nat
  <2>1. l \in Nat /\ AddonsOK(n, l, A, U)
    BY <1>0
  <2>2. \A i \in 1..Len(A) : A[i] >= 2 * n /\ A[i] <= 2 * n - 1 + 2 * Len(U)
    BY <2>1, CorIds
  <2> QED BY <1>0, <2>2 DEF LineOK
<1>5. IdBefore(n, j) <= Len(P) /\ IdAfter(n, j) <= Len(P) /\ u.point <= Len(P)
      /\ IdBefore(n, j) \in Nat /\ IdAfter(n, j) \in Nat /\ u.point \in Nat
  <2>1. IdBefore(n, j) <= Len(P) /\ IdAfter(n, j) <= Len(P) /\ IdBefore(n, j) \in Nat /\ IdAfter(n, j) \in Nat
    BY <1>0, <1>1 DEF IdBefore, IdAfter
  <2>2. CASE u.point = n + l
    BY <1>0, <1>1, <2>1, <2>2
  <2>3. CASE \E i \in 1..Len(A) : u.point = A[i]
    BY <1>4, <2>1, <2>3
  <2> QED BY <2>2, <2>3 DEF MoveOK
<1>6. ASSUME NEW x \in 1..Len(M), M[x] <= Len(P)
      PROVE  \E v \in 1..Len(L) : x = NewPlace(k, v) /\ M[x] = L[v]
  <2>1. M[k] = Len(P) + 2 /\ M[k + 2] = Len(P) + 1
    BY DEF DropTo, Widened
  <2>2. x # k /\ x # k + 2
    BY <1>1, <1>6, <2>1
  <2>3. Len(L) \in Nat /\ x \in 1..Len(L) + 2
    BY <1>1
  <2>4. PICK v \in 1..Len(L) : x = NewPlace(k, v)
    BY <1>2, <2>2, <2>3, CorWidenedFrom
  <2>5. M[x] = L[v]
    BY <2>4 DEF DropTo, Widened
  <2> QED BY <2>4, <2>5
<1>7. ASSUME NEW x \in 1..Len(M), NEW y \in 1..Len(M), NEW z \in 1..Len(M),
             M[x] = IdBefore(n, j), M[y] = u.point, M[z] = IdAfter(n, j)
      PROVE  x < y /\ y < z
  <2>1. PICK a \in 1..Len(L) : x = NewPlace(k, a) /\ M[x] = L[a]
    BY <1>5, <1>6, <1>7
  <2>2. PICK b \in 1..Len(L) : y = NewPlace(k, b) /\ M[y] = L[b]
    BY <1>5, <1>6, <1>7
  <2>3. PICK c \in 1..Len(L) : z = NewPlace(k, c) /\ M[z] = L[c]
    BY <1>5, <1>6, <1>7
  <2>4. a < b /\ b < c
    BY <1>7, <2>1, <2>2, <2>3 DEF MoveOK
  <2>5. a \in Nat /\ b \in Nat /\ c \in Nat /\ k \in Nat
    BY <1>1
  <2> QED BY <2>1, <2>2, <2>3, <2>4, <2>5, CorNewPlaceOrder
<1>8. \E i \in 1..Len(B) - 1 :
        /\ B[i] = IdBefore(n, j) /\ B[i + 1] = IdAfter(n, j)
        /\ u.point = n + u.line => i = 1
  <2>1. PICK i \in 1..Len(A) - 1 :
          /\ A[i] = IdBefore(n, j) /\ A[i + 1] = IdAfter(n, j)
          /\ u.point = n + u.line => i = 1
    BY DEF MoveOK
  <2>2. i \in 1..Len(B) - 1 /\ i \in 1..Len(A) /\ i + 1 \in 1..Len(A)
    BY <1>1
  <2>3. B[i] = A[i] /\ B[i + 1] = A[i + 1]
    BY <1>3, <2>2
  <2> QED BY <2>1, <2>2, <2>3
<1>9. u.point = n + u.line
        \/ (u.point < IdAfter(n, j) /\ \E i \in 1..Len(B) : u.point = B[i])
  <2>1. CASE u.point = n + u.line
    BY <2>1
  <2>2. CASE u.point < IdAfter(n, j) /\ \E i \in 1..Len(A) : u.point = A[i]
    BY <1>3, <2>2
  <2> QED BY <2>1, <2>2 DEF MoveOK
<1> QED BY <1>7, <1>8, <1>9 DEF MoveOK

(* The drop itself.                                                           *)
LEMMA CorDropMoveNew ==
  ASSUME NEW n \in Nat, NEW l \in 1..n - 1, NEW L, NEW A, NEW P, NEW U, NEW k \in 1..Len(L),
         DropOn(n, l, L, A, P, U, k), NEW M, NEW B, NEW Q, DropTo(L, A, P, k, M, B, Q),
         NEW u, u.line = l, u.point = L[k]
  PROVE  MoveOK(n, Len(U) + 1, u, M, B)
<1>0. /\ n >= 4 /\ LineOK(n, l, L, P, A) /\ AddonsOK(n, l, A, U)
      /\ Len(P) = 2 * n - 1 + 2 * Len(U)
  BY DEF DropOn
<1>1. /\ Len(L) \in Nat /\ Len(A) \in Nat /\ Len(U) \in Nat /\ Len(P) \in Nat
      /\ Len(M) = Len(L) + 2 /\ Len(B) = Len(A) + 2
  BY <1>0 DEF LineOK, AddonsOK, DropTo, Widened, NeighboursKept
<1>2. DropPlace(n, l, L, A, P, k)
  BY CorPlace
<1>3. IdBefore(n, Len(U) + 1) = Len(P) + 2 /\ IdAfter(n, Len(U) + 1) = Len(P) + 1
  BY <1>0, <1>1 DEF IdBefore, IdAfter
<1>4. \A i \in 1..Len(A) : i \in 1..Len(B) /\ B[i] = A[i]
  BY <1>1 DEF DropTo, NeighboursKept
<1>5. LineOK(n, l, M, Q, B)
  BY CorDropLineOK
<1>6. k \in 2..Len(L) - 1 /\ L[k] \in n + 1..Len(P)
  BY <1>2 DEF DropPlace
<1>7. M[k] = Len(P) + 2 /\ M[k + 2] = Len(P) + 1 /\ M[k + 1] = L[k]
  <2>1. NewPlace(k, k) = k + 1
    BY DEF NewPlace
  <2> QED BY <2>1 DEF DropTo, Widened
<1>8. k \in 1..Len(M) /\ k + 1 \in 1..Len(M) /\ k + 2 \in 1..Len(M)
  BY <1>1, <1>6
<1>9. ASSUME NEW x \in 1..Len(M), NEW y \in 1..Len(M), NEW z \in 1..Len(M),
             M[x] = IdBefore(n, Len(U) + 1), M[y] = u.point, M[z] = IdAfter(n, Len(U) + 1)
      PROVE  x < y /\ y < z
  <2>1. \A v, w \in 1..Len(M) : M[v] = M[w] => v = w
    BY <1>5 DEF LineOK
  <2>2. x = k
    BY <1>3, <1>7, <1>8, <1>9, <2>1
  <2>3. y = k + 1
    BY <1>7, <1>8, <1>9, <2>1
  <2>4. z = k + 2
    BY <1>3, <1>7, <1>8, <1>9, <2>1
  <2> QED BY <1>6, <2>2, <2>3, <2>4
<1>10. \E i \in 1..Len(B) - 1 :
         /\ B[i] = IdBefore(n, Len(U) + 1) /\ B[i + 1] = IdAfter(n, Len(U) + 1)
         /\ u.point = n + u.line => i = 1
  <2>1. Len(A) + 1 \in 1..Len(B) - 1
    BY <1>1
  <2>2. B[Len(A) + 1] = Len(P) + 2 /\ B[Len(A) + 1 + 1] = Len(P) + 1
    <3>1. Len(A) + 1 + 1 = Len(A) + 2
      BY <1>1
    <3> QED BY <3>1 DEF DropTo, NeighboursKept
  <2>3. u.point = n + u.line => Len(A) + 1 = 1
    <3>1. L[k] = n + l => A = <<>>
      BY <1>2 DEF DropPlace
    <3>2. A = <<>> => Len(A) = 0
      OBVIOUS
    <3> QED BY <3>1, <3>2
  <2> QED BY <1>3, <2>1, <2>2, <2>3
<1>11. u.point = n + u.line
         \/ (u.point < IdAfter(n, Len(U) + 1) /\ \E i \in 1..Len(B) : u.point = B[i])
  <2>1. CASE L[k] = n + l
    BY <2>1
  <2>2. CASE \E i \in 1..Len(A) : L[k] = A[i]
    <3>1. L[k] < Len(P) + 1
      BY <1>1, <1>6
    <3> QED BY <1>3, <1>4, <2>2, <3>1
  <2> QED BY <1>2, <2>1, <2>2 DEF DropPlace
<1> QED BY <1>9, <1>10, <1>11 DEF MoveOK

(* A line none of whose points a step touches stays in order.                 *)
LEMMA CorOtherLine ==
  ASSUME NEW n \in Nat, NEW m \in 1..n - 1, NEW L, NEW A, NEW P, NEW Q, LineOK(n, m, L, P, A),
         \A i \in 1..Len(A) : Q[A[i]].at = P[A[i]].at,
         Q[n + m].at = P[n + m].at, Q[n + m].inner = P[n + m].inner
  PROVE  LineOK(n, m, L, Q, A)
<1>1. \A i \in 1..Len(A) : Q[A[i]].at \in 1..Len(L) /\ L[Q[A[i]].at] = A[i]
  BY DEF LineOK
<1>2. IF Q[n + m].inner THEN Q[n + m].at = 2 /\ L[2] = n + m /\ A = <<>> ELSE Q[n + m].at = 3
  BY DEF LineOK
<1> QED BY <1>1, <1>2 DEF LineOK

-----------------------------------------------------------------------------
(* Where the element at place v goes when those at x and at z, after it, go.  *)
OldPlace(x, z, v) == IF v < x THEN v ELSE IF v < z THEN v - 1 ELSE v - 2

(* Line M is line L without what is at x and at z.                            *)
Narrowed(L, M, x, z) ==
  /\ Len(M) = Len(L) - 2
  /\ \A v \in 1..Len(L) : v # x /\ v # z =>
       OldPlace(x, z, v) \in 1..Len(M) /\ M[OldPlace(x, z, v)] = L[v]

(* The last drop, of point p at y of line l, whose neighbours are at x and z. *)
UndoOn(n, l, L, A, P, U, p, x, y, z) ==
  /\ n >= 4 /\ LineOK(n, l, L, P, A) /\ AddonsOK(n, l, A, U)
  /\ Len(P) = 2 * n - 1 + 2 * Len(U) /\ Len(U) >= 1
  /\ U[Len(U)].line = l /\ U[Len(U)].point = p /\ MoveOK(n, Len(U), U[Len(U)], L, A)
  /\ x = P[Len(P)].at /\ y = P[p].at /\ z = P[Len(P) - 1].at

(* What undoing it makes of the line, the points and the neighbours.          *)
UndoTo(L, A, P, p, x, y, z, M, R, Q) ==
  /\ Narrowed(L, M, x, z)
  /\ Len(R) = Len(A) - 2 /\ \A i \in 1..Len(A) - 2 : R[i] = A[i]
  /\ Len(A) = 2 => R = <<>>
  /\ Len(Q) = Len(P) - 2
  /\ \A q \in 1..Len(P) - 2 : q # p =>
       /\ Q[q].inner = P[q].inner
       /\ Q[q].at = IF Among(R, q) THEN OldPlace(x, z, P[q].at) ELSE P[q].at
  /\ Q[p].inner /\ Q[p].at = y - 1

(* The neighbours of the last drop are the last of its line, and lie on the   *)
(* two sides of its point, which is the only one dropped if it is the middle. *)
UndoPlace(n, l, L, A, P, p, x, y, z) ==
  /\ Len(A) >= 2 /\ A[Len(A) - 1] = Len(P) /\ A[Len(A)] = Len(P) - 1
  /\ L[x] = Len(P) /\ L[y] = p /\ L[z] = Len(P) - 1
  /\ x \in 2..Len(L) - 1 /\ y \in 2..Len(L) - 1 /\ z \in 2..Len(L) - 1 /\ x < y /\ y < z
  /\ p \in n + 1..Len(P) - 2
  /\ p = n + l => Len(A) = 2 /\ y = 3
  /\ p = n + l \/ \E i \in 1..Len(A) - 2 : p = A[i]
  /\ ~P[n + l].inner /\ P[n + l].at = 3

LEMMA CorUndoPlace ==
  ASSUME NEW n \in Nat, NEW l \in 1..n - 1, NEW L, NEW A, NEW P, NEW U, NEW p, NEW x, NEW y, NEW z,
         UndoOn(n, l, L, A, P, U, p, x, y, z)
  PROVE  UndoPlace(n, l, L, A, P, p, x, y, z)
<1> DEFINE m == Len(U)
<1>0. /\ n >= 4 /\ LineOK(n, l, L, P, A) /\ AddonsOK(n, l, A, U)
      /\ Len(P) = 2 * n - 1 + 2 * Len(U) /\ Len(U) >= 1
  BY DEF UndoOn
<1>m. /\ U[m].line = l /\ U[m].point = p /\ MoveOK(n, m, U[m], L, A)
      /\ x = P[Len(P)].at /\ y = P[p].at /\ z = P[Len(P) - 1].at
  BY DEF UndoOn
<1>1. Len(L) \in Nat /\ Len(A) \in Nat /\ Len(U) \in Nat /\ Len(P) \in Nat
  BY <1>0 DEF LineOK, AddonsOK
<1>2. IdBefore(n, m) = Len(P) /\ IdAfter(n, m) = Len(P) - 1
  BY <1>0, <1>1 DEF IdBefore, IdAfter
<1>3. PICK i \in 1..Len(A) - 1 :
        A[i] = Len(P) /\ A[i + 1] = Len(P) - 1 /\ (p = n + l => i = 1)
  BY <1>2, <1>m DEF MoveOK
<1>4. \A k \in 1..Len(A) : A[k] >= 2 * n /\ A[k] <= Len(P) /\ A[k] \in Nat
  <2>1. l \in Nat /\ AddonsOK(n, l, A, U)
    BY <1>0
  <2>2. \A k \in 1..Len(A) : A[k] >= 2 * n /\ A[k] <= 2 * n - 1 + 2 * Len(U)
    BY <2>1, CorIds
  <2>3. \A k \in 1..Len(A) : A[k] \in Nat
    BY <1>0 DEF LineOK
  <2>4. \A k \in 1..Len(A) : A[k] <= Len(P)
    BY <1>0, <2>2
  <2> QED BY <2>2, <2>3, <2>4
<1>5. i = Len(A) - 1
  <2>1. SUFFICES ASSUME i # Len(A) - 1 PROVE FALSE
    OBVIOUS
  <2>2. i \in 1..Len(A) /\ i + 2 \in 1..Len(A) /\ i < i + 2 /\ i + 2 # i + 1
    BY <1>1, <2>1
  <2>3. A[i] < A[i + 2]
    BY <1>0, <2>2 DEF AddonsOK
  <2>4. A[i + 2] <= Len(P) /\ A[i + 2] \in Nat
    BY <1>4, <2>2
  <2> QED BY <1>1, <1>3, <2>3, <2>4
<1>6. /\ Len(A) >= 2 /\ A[Len(A) - 1] = Len(P) /\ A[Len(A)] = Len(P) - 1
      /\ p = n + l => Len(A) = 2
  <2>1. i + 1 = Len(A)
    BY <1>1, <1>5
  <2> QED BY <1>1, <1>3, <1>5, <2>1
<1>7. /\ x \in 1..Len(L) /\ L[x] = Len(P) /\ z \in 1..Len(L) /\ L[z] = Len(P) - 1
  <2>1. Len(A) - 1 \in 1..Len(A) /\ Len(A) \in 1..Len(A)
    BY <1>1, <1>6
  <2>2. \A k \in 1..Len(A) : P[A[k]].at \in 1..Len(L) /\ L[P[A[k]].at] = A[k]
    BY <1>0 DEF LineOK
  <2>3. P[Len(P)].at \in 1..Len(L) /\ L[P[Len(P)].at] = Len(P)
    BY <1>6, <2>1, <2>2
  <2>4. P[Len(P) - 1].at \in 1..Len(L) /\ L[P[Len(P) - 1].at] = Len(P) - 1
    BY <1>6, <2>1, <2>2
  <2> QED BY <1>m, <2>3, <2>4
<1>8. L[1] = l /\ L[Len(L)] = l + 1 /\ Len(L) >= 3 /\ \A v, w \in 1..Len(L) : L[v] = L[w] => v = w
  BY <1>0 DEF LineOK
<1>9. x \in 2..Len(L) - 1 /\ z \in 2..Len(L) - 1
  <2>1. l < Len(P) - 1 /\ l + 1 < Len(P) - 1
    BY <1>0, <1>1
  <2>2. x # 1 /\ x # Len(L) /\ z # 1 /\ z # Len(L)
    BY <1>1, <1>7, <1>8, <2>1, SMTT(40)
  <2> QED BY <1>1, <1>7, <2>2
<1>10. ~P[n + l].inner /\ P[n + l].at = 3
  <2>1. A # <<>>
    BY <1>6
  <2> QED BY <1>0, <2>1 DEF LineOK
<1>11. \A v \in 1..Len(L) : L[v] = p => x < v /\ v < z
  BY <1>2, <1>7, <1>m DEF MoveOK
<1>12. CASE p = n + l
  <2>1. PICK w \in 1..Len(L) : L[w] = n + l
    BY <1>0 DEF LineOK
  <2>2. x < w /\ w < z
    BY <1>11, <1>12, <2>1
  <2>3. ASSUME NEW v \in 2..Len(L) - 1 PROVE v = x \/ v = w \/ v = z
    <3>1. v \in 1..Len(L) /\ v # 1 /\ v # Len(L) /\ 1 \in 1..Len(L) /\ Len(L) \in 1..Len(L)
      BY <1>1
    <3>2. L[v] # l /\ L[v] # l + 1
      BY <1>8, <3>1
    <3>3. L[v] = n + l \/ \E k \in 1..Len(A) : L[v] = A[k]
      BY <1>0, <3>1, <3>2 DEF LineOK
    <3>4. CASE L[v] = n + l
      BY <1>8, <2>1, <3>1, <3>4
    <3>5. CASE \E k \in 1..Len(A) : L[v] = A[k]
      <4>1. PICK k \in 1..Len(A) : L[v] = A[k]
        BY <3>5
      <4>2. k = Len(A) - 1 \/ k = Len(A)
        <5>1. Len(A) = 2
          BY <1>6, <1>12
        <5> QED BY <5>1
      <4>3. L[v] = L[x] \/ L[v] = L[z]
        BY <1>6, <1>7, <4>1, <4>2
      <4> QED BY <1>7, <1>8, <3>1, <4>3
    <3> QED BY <3>3, <3>4, <3>5
  <2>4. w = 3
    <3>1. 2 \in 2..Len(L) - 1 /\ 3 \in 2..Len(L) - 1
      BY <1>1, <1>9, <2>2
    <3>2. 2 = x
      BY <1>9, <2>2, <2>3, <3>1
    <3>3. 3 = w
      BY <1>9, <2>2, <2>3, <3>1, <3>2
    <3> QED BY <3>3
  <2>5. y = 3 /\ L[y] = p
    BY <1>10, <1>12, <1>m, <2>1, <2>4
  <2>6. y \in 2..Len(L) - 1 /\ x < y /\ y < z
    BY <1>1, <1>9, <2>2, <2>4, <2>5
  <2>7. p \in n + 1..Len(P) - 2
    BY <1>0, <1>1, <1>12
  <2> QED BY <1>6, <1>7, <1>9, <1>10, <1>12, <2>5, <2>6, <2>7 DEF UndoPlace
<1>13. CASE p # n + l
  <2>1. p < Len(P) - 1 /\ \E k \in 1..Len(A) : p = A[k]
    BY <1>2, <1>13, <1>m DEF MoveOK
  <2>2. PICK k \in 1..Len(A) : p = A[k]
    BY <2>1
  <2>3. k # Len(A) - 1 /\ k # Len(A)
    BY <1>1, <1>6, <2>1, <2>2, SMTT(40)
  <2>4. k \in 1..Len(A) - 2
    BY <1>1, <2>3
  <2>5. P[p].at \in 1..Len(L) /\ L[P[p].at] = p
    BY <1>0, <2>2 DEF LineOK
  <2>6. y \in 1..Len(L) /\ L[y] = p
    BY <1>m, <2>5
  <2>7. x < y /\ y < z
    BY <1>11, <2>6
  <2>8. y \in 2..Len(L) - 1
    BY <1>9, <2>6, <2>7
  <2>9. p \in n + 1..Len(P) - 2
    <3>1. p >= 2 * n /\ p \in Nat
      BY <1>4, <2>2
    <3> QED BY <1>0, <1>1, <2>1, <3>1
  <2> QED BY <1>6, <1>7, <1>9, <1>10, <1>13, <2>2, <2>4, <2>6, <2>7, <2>8, <2>9 DEF UndoPlace
<1> QED BY <1>12, <1>13

(* Place w of what is left of m places when those at x and z are gone.        *)
LeftAt(m, x, z, w) == m \in Nat /\ x \in 2..m - 1 /\ z \in 2..m - 1 /\ x < z /\ w \in 1..m - 2

LEMMA CorNarrowedFrom ==
  ASSUME NEW m, NEW x, NEW z, NEW w, LeftAt(m, x, z, w)
  PROVE  \E v \in 1..m : v # x /\ v # z /\ w = OldPlace(x, z, v)
<1> USE DEF LeftAt
<1>1. CASE w < x
  <2>1. w \in 1..m /\ w # x /\ w # z /\ w = OldPlace(x, z, w)
    BY <1>1 DEF OldPlace
  <2> QED BY <2>1
<1>2. CASE w >= x /\ w + 1 < z
  <2>1. w + 1 \in 1..m /\ w + 1 # x /\ w + 1 # z /\ w = OldPlace(x, z, w + 1)
    BY <1>2 DEF OldPlace
  <2> QED BY <2>1
<1>3. CASE w + 1 >= z
  <2>1. w + 2 \in 1..m /\ w + 2 # x /\ w + 2 # z /\ w = OldPlace(x, z, w + 2)
    BY <1>3 DEF OldPlace
  <2> QED BY <2>1
<1> QED BY <1>1, <1>2, <1>3

LEMMA CorOldPlaceOrder ==
  ASSUME NEW x \in Int, NEW z \in Int, x < z, NEW v \in Int, NEW w \in Int,
         v # x, v # z, w # x, w # z
  PROVE  OldPlace(x, z, v) < OldPlace(x, z, w) <=> v < w
BY DEF OldPlace

(* What the undo of a drop finds in its line.                                 *)
LEMMA CorUndoFacts ==
  ASSUME NEW n \in Nat, NEW l \in 1..n - 1, NEW L, NEW A, NEW P, NEW U, NEW p, NEW x, NEW y, NEW z,
         UndoOn(n, l, L, A, P, U, p, x, y, z)
  PROVE  /\ Len(L) \in Nat /\ Len(A) \in Nat /\ Len(U) \in Nat /\ Len(P) \in Nat
         /\ Len(P) = 2 * n - 1 + 2 * Len(U) /\ n >= 4 /\ Len(U) >= 1 /\ Len(L) >= 5
         /\ x \in 2..Len(L) - 1 /\ y \in 2..Len(L) - 1 /\ z \in 2..Len(L) - 1 /\ x < y /\ y < z
         /\ L[x] = Len(P) /\ L[y] = p /\ L[z] = Len(P) - 1 /\ p \in n + 1..Len(P) - 2
         /\ \A i \in 1..Len(A) - 2 : A[i] >= 2 * n /\ A[i] <= Len(P) - 2 /\ A[i] \in Nat
<1>0. /\ n >= 4 /\ LineOK(n, l, L, P, A) /\ AddonsOK(n, l, A, U)
      /\ Len(P) = 2 * n - 1 + 2 * Len(U) /\ Len(U) >= 1
  BY DEF UndoOn
<1>1. Len(L) \in Nat /\ Len(A) \in Nat /\ Len(U) \in Nat /\ Len(P) \in Nat
  BY <1>0 DEF LineOK, AddonsOK
<1>2. UndoPlace(n, l, L, A, P, p, x, y, z)
  BY CorUndoPlace
<1>3. /\ Len(A) >= 2 /\ A[Len(A) - 1] = Len(P) /\ A[Len(A)] = Len(P) - 1
      /\ L[x] = Len(P) /\ L[y] = p /\ L[z] = Len(P) - 1
      /\ x \in 2..Len(L) - 1 /\ y \in 2..Len(L) - 1 /\ z \in 2..Len(L) - 1 /\ x < y /\ y < z
      /\ p \in n + 1..Len(P) - 2
  BY <1>2 DEF UndoPlace
<1>4. \A i \in 1..Len(A) : A[i] >= 2 * n /\ A[i] <= 2 * n - 1 + 2 * Len(U)
  <2>1. l \in Nat /\ AddonsOK(n, l, A, U)
    BY <1>0
  <2> QED BY <2>1, CorIds
<1>5. ASSUME NEW i \in 1..Len(A) - 2
      PROVE  A[i] >= 2 * n /\ A[i] <= Len(P) - 2 /\ A[i] \in Nat
  <2>1. i \in 1..Len(A) /\ Len(A) - 1 \in 1..Len(A) /\ Len(A) \in 1..Len(A) /\ i < Len(A) - 1 /\ i < Len(A)
    BY <1>1
  <2>2. A[i] # A[Len(A) - 1] /\ A[i] # A[Len(A)]
    BY <1>0, <2>1 DEF AddonsOK
  <2>3. A[i] \in Nat
    BY <1>0, <2>1 DEF LineOK
  <2>4. A[i] >= 2 * n /\ A[i] <= Len(P) /\ A[i] # Len(P) /\ A[i] # Len(P) - 1
    BY <1>0, <1>3, <1>4, <2>1, <2>2
  <2> QED BY <1>1, <2>3, <2>4
<1>6. Len(L) >= 5
  BY <1>1, <1>3
<1> QED BY <1>0, <1>1, <1>3, <1>5, <1>6

UndoFacts(n, L, A, P, p, x, y, z) ==
  /\ Len(L) \in Nat /\ Len(A) \in Nat /\ Len(P) \in Nat
  /\ x \in 2..Len(L) - 1 /\ y \in 2..Len(L) - 1 /\ z \in 2..Len(L) - 1 /\ x < y /\ y < z
  /\ p \in n + 1..Len(P) - 2
  /\ \A i \in 1..Len(A) - 2 : A[i] >= 2 * n /\ A[i] <= Len(P) - 2 /\ A[i] \in Nat

LEMMA CorUndoFound ==
  ASSUME NEW n \in Nat, NEW l \in 1..n - 1, NEW L, NEW A, NEW P, NEW U, NEW p, NEW x, NEW y, NEW z,
         UndoOn(n, l, L, A, P, U, p, x, y, z)
  PROVE  UndoFacts(n, L, A, P, p, x, y, z)
<1>1. /\ Len(L) \in Nat /\ Len(A) \in Nat /\ Len(P) \in Nat
  BY CorUndoFacts
<1>2. /\ x \in 2..Len(L) - 1 /\ y \in 2..Len(L) - 1 /\ z \in 2..Len(L) - 1 /\ x < y /\ y < z
      /\ p \in n + 1..Len(P) - 2
  BY CorUndoFacts
<1>3. \A i \in 1..Len(A) - 2 : A[i] >= 2 * n /\ A[i] <= Len(P) - 2 /\ A[i] \in Nat
  BY CorUndoFacts
<1> QED BY <1>1, <1>2, <1>3 DEF UndoFacts

(* An undo leaves its line in order.                                          *)
LEMMA CorUndoLineOK ==
  ASSUME NEW n \in Nat, NEW l \in 1..n - 1, NEW L, NEW A, NEW P, NEW U, NEW p, NEW x, NEW y, NEW z,
         UndoOn(n, l, L, A, P, U, p, x, y, z), NEW M, NEW R, NEW Q, UndoTo(L, A, P, p, x, y, z, M, R, Q)
  PROVE  LineOK(n, l, M, Q, R)
<1>0. LineOK(n, l, L, P, A) /\ AddonsOK(n, l, A, U)
  BY DEF UndoOn
<1>1. /\ Len(L) \in Nat /\ Len(A) \in Nat /\ Len(U) \in Nat /\ Len(P) \in Nat
      /\ Len(P) = 2 * n - 1 + 2 * Len(U) /\ n >= 4 /\ Len(U) >= 1 /\ Len(L) >= 5
  BY CorUndoFacts
<1>2. /\ x \in 2..Len(L) - 1 /\ y \in 2..Len(L) - 1 /\ z \in 2..Len(L) - 1 /\ x < y /\ y < z
      /\ L[x] = Len(P) /\ L[y] = p /\ L[z] = Len(P) - 1 /\ p \in n + 1..Len(P) - 2
  BY CorUndoFacts
<1>a. /\ x \in Nat /\ y \in Nat /\ z \in Nat /\ 2 <= x /\ x < y /\ y < z /\ z <= Len(L) - 1
      /\ x \in 2..Len(L) - 1 /\ z \in 2..Len(L) - 1
  BY <1>1, <1>2
<1>3. \A i \in 1..Len(A) - 2 : A[i] >= 2 * n /\ A[i] <= Len(P) - 2 /\ A[i] \in Nat
  BY CorUndoFacts
<1>4. /\ Len(A) >= 2 /\ A[Len(A) - 1] = Len(P) /\ A[Len(A)] = Len(P) - 1
      /\ (p = n + l => Len(A) = 2 /\ y = 3)
      /\ ~P[n + l].inner /\ P[n + l].at = 3
  <2>1. UndoPlace(n, l, L, A, P, p, x, y, z)
    BY CorUndoPlace
  <2> QED BY <2>1 DEF UndoPlace
<1>5. /\ Len(M) = Len(L) - 2 /\ Len(R) = Len(A) - 2
      /\ \A i \in 1..Len(R) : i \in 1..Len(A) - 2 /\ R[i] = A[i]
      /\ (Len(A) = 2 => R = <<>>)
  BY DEF UndoTo, Narrowed
<1>6. ASSUME NEW v \in 1..Len(L), v # x, v # z
      PROVE  OldPlace(x, z, v) \in 1..Len(M) /\ M[OldPlace(x, z, v)] = L[v]
  BY <1>6 DEF UndoTo, Narrowed
<1>7. ASSUME NEW w \in 1..Len(M)
      PROVE  \E v \in 1..Len(L) : v # x /\ v # z /\ w = OldPlace(x, z, v) /\ M[w] = L[v]
  <2>1. x < z
    BY <1>a
  <2>2. w \in 1..Len(L) - 2
    BY <1>5
  <2>3. \E v \in 1..Len(L) : v # x /\ v # z /\ w = OldPlace(x, z, v)
    <3>1. Len(L) \in Nat /\ x \in 2..Len(L) - 1 /\ z \in 2..Len(L) - 1
      BY <1>1, <1>a
    <3>2. LeftAt(Len(L), x, z, w)
      BY <2>1, <2>2, <3>1 DEF LeftAt
    <3> QED BY <3>2, CorNarrowedFrom
  <2> QED BY <1>6, <2>3
<1>8. /\ \A v \in 1..Len(L) : L[v] \in Nat
      /\ L[1] = l /\ L[Len(L)] = l + 1
  BY <1>0 DEF LineOK
<1>9. \A v, w \in 1..Len(L) : L[v] = L[w] => v = w
  BY <1>0 DEF LineOK
<1>10. Len(M) \in Nat /\ Len(R) \in Nat /\ Len(M) >= 3
  BY <1>1, <1>4, <1>5
<1>11. \A w \in 1..Len(M) : M[w] \in Nat
  BY <1>7, <1>8
<1>12. \A i \in 1..Len(R) : R[i] \in Nat /\ R[i] >= 2 * n /\ R[i] <= Len(P) - 2
  BY <1>3, <1>5
<1>13. M[1] = l /\ M[Len(M)] = l + 1
  <2>1. /\ 1 \in 1..Len(L) /\ 1 # x /\ 1 # z /\ OldPlace(x, z, 1) = 1
        /\ Len(L) \in 1..Len(L) /\ Len(L) # x /\ Len(L) # z /\ OldPlace(x, z, Len(L)) = Len(L) - 2
    BY <1>1, <1>a DEF OldPlace
  <2> QED BY <1>5, <1>6, <1>8, <2>1
<1>14. ASSUME NEW v \in 1..Len(M), NEW w \in 1..Len(M), M[v] = M[w] PROVE v = w
  <2>1. PICK a \in 1..Len(L) : v = OldPlace(x, z, a) /\ M[v] = L[a]
    BY <1>7
  <2>2. PICK b \in 1..Len(L) : w = OldPlace(x, z, b) /\ M[w] = L[b]
    BY <1>7
  <2>3. a = b
    BY <1>9, <1>14, <2>1, <2>2
  <2> QED BY <2>1, <2>2, <2>3
<1>15. ASSUME NEW w \in 1..Len(M)
       PROVE  M[w] \in {l, n + l, l + 1} \/ \E i \in 1..Len(R) : M[w] = R[i]
  <2>1. PICK v \in 1..Len(L) : v # x /\ v # z /\ M[w] = L[v]
    BY <1>7
  <2>2. L[v] \in {l, n + l, l + 1} \/ \E i \in 1..Len(A) : L[v] = A[i]
    BY <1>0 DEF LineOK
  <2>3. ASSUME NEW i \in 1..Len(A), L[v] = A[i] PROVE i \in 1..Len(R) /\ M[w] = R[i]
    <3>1. x \in 1..Len(L) /\ z \in 1..Len(L)
      BY <1>1, <1>a, SMTT(40)
    <3>2. L[v] # L[x] /\ L[v] # L[z]
      BY <1>9, <2>1, <3>1
    <3>3. i # Len(A) - 1 /\ i # Len(A)
      BY <1>2, <1>4, <2>3, <3>2
    <3>4. i \in 1..Len(R)
      BY <1>1, <1>5, <3>3
    <3> QED BY <1>5, <2>1, <2>3, <3>4
  <2> QED BY <2>1, <2>2, <2>3
<1>16. \E w \in 1..Len(M) : M[w] = n + l
  <2>1. PICK v \in 1..Len(L) : L[v] = n + l
    BY <1>0 DEF LineOK
  <2>2. n + l # Len(P) /\ n + l # Len(P) - 1
    BY <1>1
  <2>3. L[v] # L[x] /\ L[v] # L[z]
    BY <1>2, <2>1, <2>2
  <2>4. v # x /\ v # z
    BY <2>3
  <2> QED BY <1>6, <2>1, <2>4
<1>17. ASSUME NEW i \in 1..Len(R) PROVE Q[R[i]].at \in 1..Len(M) /\ M[Q[R[i]].at] = R[i]
  <2> DEFINE q == R[i]
  <2>1. q \in 1..Len(P) - 2 /\ q = A[i] /\ i \in 1..Len(A) /\ Among(R, q)
    BY <1>1, <1>5, <1>12, SMTT(40) DEF Among
  <2>2. P[q].at \in 1..Len(L) /\ L[P[q].at] = q
    BY <1>0, <2>1 DEF LineOK
  <2>3. CASE q = p
    <3>1. Q[q].at = y - 1
      BY <2>3 DEF UndoTo
    <3>2. OldPlace(x, z, y) = y - 1 /\ y \in 1..Len(L) /\ y # x /\ y # z
      BY <1>1, <1>a DEF OldPlace
    <3>3. y - 1 \in 1..Len(M) /\ M[y - 1] = L[y]
      BY <1>6, <3>2
    <3> QED BY <1>2, <2>3, <3>1, <3>3
  <2>4. CASE q # p
    <3>1. Q[q].at = OldPlace(x, z, P[q].at)
      BY <2>1, <2>4 DEF UndoTo
    <3>2. q # Len(P) /\ q # Len(P) - 1
      BY <1>1, <2>1
    <3>3. P[q].at # x /\ P[q].at # z
      BY <1>2, <2>2, <3>2
    <3> QED BY <1>6, <2>2, <3>1, <3>3
  <2> QED BY <2>3, <2>4
<1>18. IF Q[n + l].inner THEN Q[n + l].at = 2 /\ M[2] = n + l /\ R = <<>> ELSE Q[n + l].at = 3
  <2>1. CASE p = n + l
    <3>1. Q[p].inner /\ Q[p].at = y - 1
      BY DEF UndoTo
    <3>2. y = 3 /\ R = <<>>
      BY <1>4, <1>5, <2>1
    <3>3. OldPlace(x, z, 3) = 2 /\ 3 \in 1..Len(L) /\ 3 # x /\ 3 # z
      BY <1>1, <1>2, <3>2 DEF OldPlace
    <3>4. M[2] = L[3]
      BY <1>6, <3>3
    <3> QED BY <1>2, <2>1, <3>1, <3>2, <3>4
  <2>2. CASE p # n + l
    <3>1. n + l \in 1..Len(P) - 2 /\ n + l < 2 * n /\ n + l \in Nat
      BY <1>1
    <3>2. ~Among(R, n + l)
      BY <1>12, <3>1 DEF Among
    <3>3. Q[n + l].inner = P[n + l].inner /\ Q[n + l].at = P[n + l].at
      BY <2>2, <3>1, <3>2 DEF UndoTo
    <3> QED BY <1>4, <3>3
  <2> QED BY <2>1, <2>2
<1>19. \A i \in 1..Len(R) : R[i] \in Nat
  BY <1>12
<1> QED BY <1>10, <1>11, <1>13, <1>14, <1>15, <1>16, <1>17, <1>18, <1>19 DEF LineOK

Unrecorded(U, V) == Len(V) = Len(U) - 1 /\ \A j \in 1..Len(V) : V[j] = U[j]

LEMMA CorUndoAddonsOK ==
  ASSUME NEW n \in Nat, NEW l \in 1..n - 1, NEW L, NEW A, NEW P, NEW U, NEW p, NEW x, NEW y, NEW z,
         UndoOn(n, l, L, A, P, U, p, x, y, z), NEW M, NEW R, NEW Q, UndoTo(L, A, P, p, x, y, z, M, R, Q),
         NEW V, Unrecorded(U, V)
  PROVE  AddonsOK(n, l, R, V)
<1>0. AddonsOK(n, l, A, U)
  BY DEF UndoOn
<1>1. /\ Len(A) \in Nat /\ Len(U) \in Nat /\ Len(P) \in Nat
      /\ Len(P) = 2 * n - 1 + 2 * Len(U) /\ Len(U) >= 1
  BY CorUndoFacts
<1>2. Len(A) >= 2
  <2>1. UndoPlace(n, l, L, A, P, p, x, y, z)
    BY CorUndoPlace
  <2> QED BY <2>1 DEF UndoPlace
<1>3. \A i \in 1..Len(A) - 2 : A[i] >= 2 * n /\ A[i] <= Len(P) - 2 /\ A[i] \in Nat
  BY CorUndoFacts
<1>4. Len(R) = Len(A) - 2 /\ \A i \in 1..Len(A) - 2 : R[i] = A[i]
  BY DEF UndoTo
<1>5. Len(V) = Len(U) - 1 /\ \A j \in 1..Len(V) : V[j] = U[j]
  BY DEF Unrecorded
<1>6. Len(R) \in Nat /\ Len(V) \in Nat
  BY <1>1, <1>2, <1>4, <1>5
<1>7. ASSUME NEW k \in 1..Len(R)
      PROVE  \E j \in 1..Len(V) : V[j].line = l /\ R[k] \in {IdAfter(n, j), IdBefore(n, j)}
  <2>1. k \in 1..Len(A) - 2 /\ k \in 1..Len(A)
    BY <1>1, <1>4
  <2>2. R[k] = A[k] /\ A[k] <= Len(P) - 2 /\ A[k] \in Nat
    BY <1>3, <1>4, <2>1
  <2>3. PICK j \in 1..Len(U) : U[j].line = l /\ A[k] \in {IdAfter(n, j), IdBefore(n, j)}
    BY <1>0, <2>1 DEF AddonsOK
  <2>4. j # Len(U)
    <3>1. IdAfter(n, Len(U)) = Len(P) - 1 /\ IdBefore(n, Len(U)) = Len(P)
      BY <1>1 DEF IdAfter, IdBefore
    <3>2. A[k] # Len(P) - 1 /\ A[k] # Len(P)
      BY <1>1, <2>2
    <3> QED BY <2>3, <3>1, <3>2
  <2>5. j \in 1..Len(V)
    BY <1>1, <1>5, <2>4
  <2>6. V[j] = U[j]
    BY <1>5, <2>5
  <2> QED BY <2>2, <2>3, <2>5, <2>6
<1>8. ASSUME NEW i \in 1..Len(R), NEW k \in 1..Len(R), i < k
      PROVE  R[i] # R[k] /\ (R[i] < R[k] \/ k = i + 1)
  <2>1. i \in 1..Len(A) - 2 /\ i \in 1..Len(A) /\ k \in 1..Len(A) - 2 /\ k \in 1..Len(A)
    BY <1>1, <1>4
  <2>2. R[i] = A[i] /\ R[k] = A[k]
    BY <1>4, <2>1
  <2>3. A[i] # A[k] /\ (A[i] < A[k] \/ k = i + 1)
    BY <1>0, <1>8, <2>1 DEF AddonsOK
  <2> QED BY <2>2, <2>3
<1> QED BY <1>6, <1>7, <1>8 DEF AddonsOK

LEMMA CorUndoAddonsOther ==
  ASSUME NEW n \in Nat, NEW l \in Nat, NEW m \in Nat, m # l, NEW A, NEW U, NEW V,
         AddonsOK(n, m, A, U), U[Len(U)].line = l, Len(U) >= 1, Unrecorded(U, V)
  PROVE  AddonsOK(n, m, A, V)
<1>1. Len(A) \in Nat /\ Len(U) \in Nat
  BY DEF AddonsOK
<1>2. Len(V) = Len(U) - 1 /\ \A j \in 1..Len(V) : V[j] = U[j]
  BY DEF Unrecorded
<1>3. Len(V) \in Nat
  BY <1>1, <1>2
<1>4. ASSUME NEW k \in 1..Len(A)
      PROVE  \E j \in 1..Len(V) : V[j].line = m /\ A[k] \in {IdAfter(n, j), IdBefore(n, j)}
  <2>1. PICK j \in 1..Len(U) : U[j].line = m /\ A[k] \in {IdAfter(n, j), IdBefore(n, j)}
    BY DEF AddonsOK
  <2>2. j # Len(U)
    BY <2>1
  <2>3. j \in 1..Len(V)
    BY <1>1, <1>2, <2>2
  <2> QED BY <1>2, <2>1, <2>3
<1>5. \A i, k \in 1..Len(A) : i < k => A[i] # A[k] /\ (A[i] < A[k] \/ k = i + 1)
  BY DEF AddonsOK
<1> QED BY <1>1, <1>3, <1>4, <1>5 DEF AddonsOK

LEMMA CorUndoMoveOK ==
  ASSUME NEW n \in Nat, NEW l \in 1..n - 1, NEW L, NEW A, NEW P, NEW U, NEW p, NEW x, NEW y, NEW z,
         UndoOn(n, l, L, A, P, U, p, x, y, z), NEW M, NEW R, NEW Q, UndoTo(L, A, P, p, x, y, z, M, R, Q),
         NEW j \in 1..Len(U) - 1, NEW u, u.line = l, MoveOK(n, j, u, L, A)
  PROVE  MoveOK(n, j, u, M, R)
<1>1. /\ Len(L) \in Nat /\ Len(A) \in Nat /\ Len(U) \in Nat /\ Len(P) \in Nat
      /\ Len(P) = 2 * n - 1 + 2 * Len(U)
  BY CorUndoFacts
<1>2. x \in 2..Len(L) - 1 /\ z \in 2..Len(L) - 1 /\ x < z
  <2>1. /\ x \in 2..Len(L) - 1 /\ y \in 2..Len(L) - 1 /\ z \in 2..Len(L) - 1 /\ x < y /\ y < z
    BY CorUndoFacts
  <2> QED BY <1>1, <2>1
<1>3. Len(A) >= 2 /\ A[Len(A) - 1] = Len(P) /\ A[Len(A)] = Len(P) - 1
  <2>1. UndoPlace(n, l, L, A, P, p, x, y, z)
    BY CorUndoPlace
  <2> QED BY <2>1 DEF UndoPlace
<1>4. /\ Len(M) = Len(L) - 2 /\ Len(R) = Len(A) - 2 /\ \A i \in 1..Len(A) - 2 : R[i] = A[i]
  BY DEF UndoTo, Narrowed
<1>5. /\ IdAfter(n, j) < Len(P) - 1 /\ IdAfter(n, j) \in Nat
  BY <1>1 DEF IdAfter
<1>6. ASSUME NEW w \in 1..Len(M)
      PROVE  \E v \in 1..Len(L) : v # x /\ v # z /\ w = OldPlace(x, z, v) /\ M[w] = L[v]
  <2>1. LeftAt(Len(L), x, z, w)
    BY <1>1, <1>2, <1>4 DEF LeftAt
  <2>2. PICK v \in 1..Len(L) : v # x /\ v # z /\ w = OldPlace(x, z, v)
    BY <2>1, CorNarrowedFrom
  <2>3. M[w] = L[v]
    BY <2>2 DEF UndoTo, Narrowed
  <2> QED BY <2>2, <2>3
<1>7. ASSUME NEW a \in 1..Len(M), NEW b \in 1..Len(M), NEW c \in 1..Len(M),
             M[a] = IdBefore(n, j), M[b] = u.point, M[c] = IdAfter(n, j)
      PROVE  a < b /\ b < c
  <2>1. PICK d \in 1..Len(L) : d # x /\ d # z /\ a = OldPlace(x, z, d) /\ M[a] = L[d]
    BY <1>6
  <2>2. PICK e \in 1..Len(L) : e # x /\ e # z /\ b = OldPlace(x, z, e) /\ M[b] = L[e]
    BY <1>6
  <2>3. PICK f \in 1..Len(L) : f # x /\ f # z /\ c = OldPlace(x, z, f) /\ M[c] = L[f]
    BY <1>6
  <2>4. d < e /\ e < f
    BY <1>7, <2>1, <2>2, <2>3 DEF MoveOK
  <2>5. d \in Int /\ e \in Int /\ f \in Int /\ x \in Int /\ z \in Int /\ x < z
    BY <1>1, <1>2
  <2>6. a < b
    BY <2>1, <2>2, <2>4, <2>5, CorOldPlaceOrder
  <2>7. b < c
    BY <2>2, <2>3, <2>4, <2>5, CorOldPlaceOrder
  <2> QED BY <2>6, <2>7
<1>8. \E i \in 1..Len(R) - 1 :
        /\ R[i] = IdBefore(n, j) /\ R[i + 1] = IdAfter(n, j)
        /\ u.point = n + u.line => i = 1
  <2>1. PICK i \in 1..Len(A) - 1 :
          /\ A[i] = IdBefore(n, j) /\ A[i + 1] = IdAfter(n, j)
          /\ u.point = n + u.line => i = 1
    BY DEF MoveOK
  <2>2. IdAfter(n, j) # Len(P) /\ IdAfter(n, j) # Len(P) - 1
    BY <1>1, <1>5
  <2>3. A[i + 1] # A[Len(A) - 1] /\ A[i + 1] # A[Len(A)]
    BY <1>3, <2>1, <2>2
  <2>4. i + 1 # Len(A) - 1 /\ i + 1 # Len(A)
    BY <2>3
  <2>5. i \in 1..Len(R) - 1 /\ i \in 1..Len(A) - 2 /\ i + 1 \in 1..Len(A) - 2
    BY <1>1, <1>4, <2>4
  <2>6. R[i] = A[i] /\ R[i + 1] = A[i + 1]
    BY <1>4, <2>5
  <2> QED BY <2>1, <2>5, <2>6
<1>9. u.point = n + u.line
        \/ (u.point < IdAfter(n, j) /\ \E i \in 1..Len(R) : u.point = R[i])
  <2>1. CASE u.point = n + u.line
    BY <2>1
  <2>2. ASSUME u.point < IdAfter(n, j), NEW i \in 1..Len(A), u.point = A[i]
        PROVE  \E k \in 1..Len(R) : u.point = R[k]
    <3>1. A[i] < IdAfter(n, j)
      BY <2>2
    <3>2. ~(Len(P) < IdAfter(n, j)) /\ ~(Len(P) - 1 < IdAfter(n, j))
      BY <1>1, <1>5
    <3>3. A[i] # A[Len(A) - 1] /\ A[i] # A[Len(A)]
      BY <1>3, <3>1, <3>2
    <3>4. i # Len(A) - 1 /\ i # Len(A)
      BY <3>3
    <3>5. i \in 1..Len(R) /\ i \in 1..Len(A) - 2
      <4>1. Len(A) \in Nat /\ Len(R) = Len(A) - 2
        BY <1>1, <1>4
      <4>2. i \in 1..Len(A)
        OBVIOUS
      <4> QED BY <3>4, <4>1, <4>2
    <3> QED BY <1>4, <2>2, <3>5
  <2> QED BY <2>1, <2>2 DEF MoveOK
<1> QED BY <1>7, <1>8, <1>9 DEF MoveOK

-----------------------------------------------------------------------------
(* What an undo makes of the sequences themselves.                            *)
LEMMA CorRemoveAt ==
  ASSUME NEW S, NEW s \in Seq(S), NEW i \in 1..Len(s)
  PROVE  /\ RemoveAt(s, i) \in Seq(S) /\ Len(RemoveAt(s, i)) = Len(s) - 1
         /\ \A k \in 1..(i - 1) : RemoveAt(s, i)[k] = s[k]
         /\ \A k \in i..(Len(s) - 1) : RemoveAt(s, i)[k] = s[k + 1]
<1> DEFINE a == SubSeq(s, 1, i - 1)
           b == SubSeq(s, i + 1, Len(s))
<1>0. Len(s) \in Nat
  OBVIOUS
<1>1. a \in Seq(S) /\ Len(a) = i - 1 /\ \A k \in 1..(i - 1) : a[k] = s[k]
  BY <1>0
<1>2. b \in Seq(S) /\ Len(b) = Len(s) - i /\ \A k \in 1..(Len(s) - i) : b[k] = s[i + k]
  BY <1>0
<1> HIDE DEF a, b
<1>3. /\ a \o b \in Seq(S) /\ Len(a \o b) = Len(a) + Len(b)
      /\ \A k \in 1..Len(a) + Len(b) : (a \o b)[k] = IF k <= Len(a) THEN a[k] ELSE b[k - Len(a)]
  BY <1>1, <1>2, ConcatProperties
<1>4. ASSUME NEW k \in 1..(i - 1) PROVE (a \o b)[k] = s[k]
  <2>1. k \in 1..Len(a) + Len(b) /\ k <= Len(a)
    BY <1>0, <1>1, <1>2
  <2> QED BY <1>1, <1>3, <2>1
<1>5. ASSUME NEW k \in i..(Len(s) - 1) PROVE (a \o b)[k] = s[k + 1]
  <2>1. k \in 1..Len(a) + Len(b) /\ ~(k <= Len(a)) /\ k - Len(a) = k - i + 1 /\ k - i + 1 \in 1..(Len(s) - i)
    BY <1>0, <1>1, <1>2
  <2>2. (a \o b)[k] = b[k - i + 1]
    BY <1>3, <2>1
  <2>3. b[k - i + 1] = s[i + (k - i + 1)]
    BY <1>2, <2>1
  <2>4. i + (k - i + 1) = k + 1
    BY <1>0
  <2> QED BY <2>2, <2>3, <2>4
<1>6. Len(a) + Len(b) = Len(s) - 1
  BY <1>0, <1>1, <1>2
<1> QED BY <1>3, <1>4, <1>5, <1>6 DEF RemoveAt, a, b

LEMMA CorUndoLine ==
  ASSUME NEW L \in Seq(Nat), NEW x \in 2..Len(L) - 1, NEW z \in 2..Len(L) - 1, x < z
  PROVE  WithoutNeighbours(L, x, z) \in Seq(Nat) /\ Narrowed(L, WithoutNeighbours(L, x, z), x, z)
<1> DEFINE T == RemoveAt(L, z)
           W == RemoveAt(T, x)
<1>0. Len(L) \in Nat
  BY LenProperties
<1>1. /\ T \in Seq(Nat) /\ Len(T) = Len(L) - 1
      /\ \A k \in 1..(z - 1) : T[k] = L[k]
      /\ \A k \in z..(Len(L) - 1) : T[k] = L[k + 1]
  <2>1. z \in 1..Len(L)
    BY <1>0
  <2> QED BY <2>1, CorRemoveAt
<1> HIDE DEF T
<1>2. /\ W \in Seq(Nat) /\ Len(W) = Len(T) - 1
      /\ \A k \in 1..(x - 1) : W[k] = T[k]
      /\ \A k \in x..(Len(T) - 1) : W[k] = T[k + 1]
  <2>1. x \in 1..Len(T)
    BY <1>0, <1>1
  <2> QED BY <1>1, <2>1, CorRemoveAt
<1> HIDE DEF W
<1>3. Len(W) = Len(L) - 2
  BY <1>0, <1>1, <1>2
<1>4. ASSUME NEW v \in 1..Len(L), v # x, v # z
      PROVE  OldPlace(x, z, v) \in 1..Len(W) /\ W[OldPlace(x, z, v)] = L[v]
  <2>1. CASE v < x
    <3>1. v \in 1..(x - 1) /\ v \in 1..(z - 1) /\ v \in 1..Len(W) /\ OldPlace(x, z, v) = v
      BY <1>0, <1>3, <2>1 DEF OldPlace
    <3> QED BY <1>1, <1>2, <3>1
  <2>2. CASE v > x /\ v < z
    <3>1. /\ v - 1 \in x..(Len(L) - 2) /\ v \in 1..(z - 1) /\ v - 1 \in 1..Len(W)
          /\ OldPlace(x, z, v) = v - 1 /\ v - 1 + 1 = v
      BY <1>0, <1>3, <2>2 DEF OldPlace
    <3>2. Len(T) - 1 = Len(L) - 2
      BY <1>0, <1>1
    <3>3. W[v - 1] = T[v - 1 + 1]
      BY <1>2, <3>1, <3>2
    <3> QED BY <1>1, <3>1, <3>3
  <2>3. CASE v > z
    <3>1. /\ v - 2 \in x..(Len(L) - 2) /\ v - 1 \in z..(Len(L) - 1) /\ v - 2 \in 1..Len(W)
          /\ OldPlace(x, z, v) = v - 2 /\ v - 2 + 1 = v - 1 /\ v - 1 + 1 = v
      BY <1>0, <1>3, <2>3 DEF OldPlace
    <3>2. Len(T) - 1 = Len(L) - 2
      BY <1>0, <1>1
    <3>3. W[v - 2] = T[v - 2 + 1]
      BY <1>2, <3>1, <3>2
    <3>4. T[v - 1] = L[v - 1 + 1]
      BY <1>1, <3>1
    <3> QED BY <3>1, <3>3, <3>4
  <2> QED BY <1>0, <1>4, <2>1, <2>2, <2>3
<1>5. WithoutNeighbours(L, x, z) = W
  BY DEF WithoutNeighbours, W, T
<1> QED BY <1>2, <1>3, <1>4, <1>5 DEF Narrowed

UndoPoints(P, ids, x, z, p, a) ==
  LET kept == Shifted(Shifted(P, ids, z, -1), ids, x, -1)
  IN SubSeq([kept EXCEPT ![p] = Point(TRUE, a - 1)], 1, Len(kept) - 2)

UndoPointsOf(P, ids, x, z, p, a) ==
  /\ P \in Seq(CorPoint) /\ x \in Nat /\ z \in Nat /\ x < z
  /\ p \in 1..Len(P) - 2 /\ a \in Nat \ {0}
  /\ \A q \in 1..Len(P) : q \in ids => P[q].at # x /\ P[q].at # z

UndonePoints(P, Q, ids, x, z, p, a) ==
  /\ Q \in Seq(CorPoint) /\ Len(Q) = Len(P) - 2
  /\ \A q \in 1..Len(P) - 2 : q # p =>
       /\ Q[q].inner = P[q].inner
       /\ Q[q].at = IF q \in ids THEN OldPlace(x, z, P[q].at) ELSE P[q].at
  /\ Q[p] = Point(TRUE, a - 1)

LEMMA CorUndoPoints ==
  ASSUME NEW P, NEW ids, NEW x, NEW z, NEW p, NEW a, UndoPointsOf(P, ids, x, z, p, a)
  PROVE  UndonePoints(P, UndoPoints(P, ids, x, z, p, a), ids, x, z, p, a)
<1>p. /\ P \in Seq(CorPoint) /\ x \in Nat /\ z \in Nat /\ x < z
      /\ p \in 1..Len(P) - 2 /\ a \in Nat \ {0}
  BY DEF UndoPointsOf
<1>q. \A q \in 1..Len(P) : q \in ids => P[q].at # x /\ P[q].at # z
  BY DEF UndoPointsOf
<1> DEFINE S == Shifted(P, ids, z, -1)
           K == Shifted(S, ids, x, -1)
           e == Point(TRUE, a - 1)
           R == [K EXCEPT ![p] = e]
           Q == SubSeq(R, 1, Len(K) - 2)
<1>0. Len(P) \in Nat
  BY <1>p, LenProperties
<1>n. \A k \in 1..Len(P) : P[k].at \in Nat
  <2>1. \A k \in 1..Len(P) : P[k] \in CorPoint
    BY <1>p
  <2> QED BY <2>1 DEF CorPoint
<1>1. /\ S \in Seq(CorPoint) /\ Len(S) = Len(P)
      /\ \A k \in 1..Len(P) :
           /\ S[k].inner = P[k].inner
           /\ S[k].at = IF k \in ids /\ P[k].at > z THEN P[k].at + -1 ELSE P[k].at
  <2> DEFINE by == -1
  <2>1. by \in Int /\ \A k \in 1..Len(P) : k \in ids /\ P[k].at > z => P[k].at + by >= 0
    BY <1>n, <1>p
  <2> HIDE DEF by
  <2>2. /\ Shifted(P, ids, z, by) \in Seq(CorPoint) /\ Len(Shifted(P, ids, z, by)) = Len(P)
        /\ \A k \in 1..Len(P) :
             /\ Shifted(P, ids, z, by)[k].inner = P[k].inner
             /\ Shifted(P, ids, z, by)[k].at =
                  IF k \in ids /\ P[k].at > z THEN P[k].at + by ELSE P[k].at
    BY <1>p, <2>1, CorShifted
  <2> QED BY <2>2 DEF by
<1> HIDE DEF S
<1>2. /\ K \in Seq(CorPoint) /\ Len(K) = Len(P)
      /\ \A k \in 1..Len(P) :
           /\ K[k].inner = S[k].inner
           /\ K[k].at = IF k \in ids /\ S[k].at > x THEN S[k].at + -1 ELSE S[k].at
  <2>1. \A k \in 1..Len(S) : k \in ids /\ S[k].at > x => S[k].at + -1 >= 0
    <3>1. \A k \in 1..Len(P) : S[k].at \in Nat
      <4>1. \A k \in 1..Len(P) : S[k] \in CorPoint
        BY <1>1
      <4> QED BY <4>1 DEF CorPoint
    <3> QED BY <1>1, <1>p, <3>1
  <2>2. -1 \in Int
    OBVIOUS
  <2> QED BY <1>1, <1>p, <2>1, <2>2, CorShifted
<1> HIDE DEF K
<1>3. ASSUME NEW k \in 1..Len(P)
      PROVE  /\ K[k].inner = P[k].inner
             /\ K[k].at = IF k \in ids THEN OldPlace(x, z, P[k].at) ELSE P[k].at
  <2>1. K[k].inner = P[k].inner
    BY <1>1, <1>2
  <2> DEFINE u == P[k].at
             v == S[k].at
             w == K[k].at
  <2>2. u \in Nat /\ (k \in ids => u # x /\ u # z)
    BY <1>n, <1>p, <1>q
  <2>3. v = IF k \in ids /\ u > z THEN u + -1 ELSE u
    BY <1>1
  <2>4. w = IF k \in ids /\ v > x THEN v + -1 ELSE v
    BY <1>2
  <2> HIDE DEF u, v, w
  <2>5. w = IF k \in ids THEN OldPlace(x, z, u) ELSE u
    BY <1>p, <2>2, <2>3, <2>4 DEF OldPlace
  <2> QED BY <2>1, <2>5 DEF u, w
<1>4. e \in CorPoint
  <2>1. a - 1 \in Nat
    BY <1>p
  <2> QED BY <2>1 DEF Point, CorPoint
<1> HIDE DEF e
<1>5. /\ R \in Seq(CorPoint) /\ Len(R) = Len(P) /\ R[p] = e
      /\ \A k \in 1..Len(P) : k # p => R[k] = K[k]
  <2>1. p \in 1..Len(K)
    BY <1>0, <1>2, <1>p
  <2>2. /\ [K EXCEPT ![p] = e] \in Seq(CorPoint) /\ Len([K EXCEPT ![p] = e]) = Len(K)
        /\ \A j \in 1..Len(K) : [K EXCEPT ![p] = e][j] = IF j = p THEN e ELSE K[j]
    BY <1>2, <1>4, <2>1, ExceptSeq
  <2> QED BY <1>2, <2>1, <2>2
<1> HIDE DEF R
<1>6. /\ Q \in Seq(CorPoint) /\ Len(Q) = Len(P) - 2 /\ \A k \in 1..Len(P) - 2 : Q[k] = R[k]
  <2>1. Len(K) - 2 = Len(P) - 2 /\ Len(P) - 2 \in Int /\ 1 <= Len(P) - 2 /\ Len(P) - 2 - 1 + 1 = Len(P) - 2
    BY <1>0, <1>2, <1>p
  <2> DEFINE m == Len(P) - 2
  <2>2. m \in Int /\ 1 <= m /\ m - 1 + 1 = m /\ Q = SubSeq(R, 1, m)
    BY <2>1
  <2>3. \A k \in 1..m : R[k] \in CorPoint
    <3>1. \A k \in 1..Len(R) : R[k] \in CorPoint
      BY <1>5, ElementOfSeq
    <3> QED BY <1>0, <1>5, <3>1
  <2> HIDE DEF Q, m
  <2>4. /\ SubSeq(R, 1, m) \in Seq(CorPoint)
        /\ Len(SubSeq(R, 1, m)) = IF 1 <= m THEN m - 1 + 1 ELSE 0
        /\ \A k \in 1..m - 1 + 1 : SubSeq(R, 1, m)[k] = R[1 + k - 1]
    <3>1. 1 \in Int
      OBVIOUS
    <3> QED BY <2>2, <2>3, <3>1, SubSeqProperties
  <2>5. \A k \in 1..m : 1 + k - 1 = k
    BY <2>2
  <2> QED BY <2>2, <2>4, <2>5 DEF m
<1> HIDE DEF Q
<1>7. UndoPoints(P, ids, x, z, p, a) = Q
  BY DEF UndoPoints, Q, R, K, S, e
<1>8. ASSUME NEW q \in 1..Len(P) - 2, q # p
      PROVE  /\ Q[q].inner = P[q].inner
             /\ Q[q].at = IF q \in ids THEN OldPlace(x, z, P[q].at) ELSE P[q].at
  <2>1. q \in 1..Len(P)
    BY <1>0
  <2>2. Q[q] = K[q]
    BY <1>5, <1>6, <1>8, <2>1
  <2> QED BY <1>3, <2>1, <2>2
<1>9. Q[p] = Point(TRUE, a - 1)
  <2>1. p \in 1..Len(P) /\ p \in 1..Len(P) - 2
    BY <1>0, <1>p
  <2> QED BY <1>5, <1>6, <2>1 DEF e
<1> QED BY <1>6, <1>7, <1>8, <1>9 DEF UndonePoints

-----------------------------------------------------------------------------
(* The lines and the neighbours but those of line l stay.                     *)
OthersStay(n, l, L, M, A, B) ==
  /\ Len(M) = Len(L) /\ Len(B) = Len(A)
  /\ \A m \in 1..n - 1 : m # l => M[m] = L[m] /\ B[m] = A[m]

(* What a drop or its undo makes of points that are of no concern to line l.  *)
Untouched(P, Q, q) == Q[q].at = P[q].at /\ Q[q].inner = P[q].inner

LEMMA CorDropShape ==
  ASSUME NEW n, NEW L, NEW P, NEW A, NEW U, WellDrawn(n, L, P, A, U),
         NEW l \in 1..n - 1, NEW k \in 1..Len(L[l]), P[L[l][k]].inner,
         NEW M, NEW Q, NEW B, NEW V,
         DropTo(L[l], A[l], P, k, M[l], B[l], Q), OthersStay(n, l, L, M, A, B),
         Recorded(U, V, L[l][k], l)
  PROVE  WellDrawn(n, M, Q, B, V)
<1> DEFINE p == L[l][k]
<1>0. /\ n \in Nat /\ n >= 4 /\ Len(U) \in Nat
      /\ Len(L) = n - 1 /\ Len(A) = n - 1 /\ Len(P) = 2 * n - 1 + 2 * Len(U)
  BY DEF WellDrawn
<1>a. \A m \in 1..n - 1 : LineOK(n, m, L[m], P, A[m]) /\ AddonsOK(n, m, A[m], U)
  BY DEF WellDrawn
<1>b. \A q \in 1..n : ~P[q].inner
  BY DEF WellDrawn
<1>c. \A j \in 1..Len(U) : U[j].line \in 1..n - 1 /\ MoveOK(n, j, U[j], L[U[j].line], A[U[j].line])
  BY DEF WellDrawn
<1>d. DropOn(n, l, L[l], A[l], P, U, k)
  <2>1. LineOK(n, l, L[l], P, A[l]) /\ AddonsOK(n, l, A[l], U)
    BY <1>a
  <2> QED BY <1>0, <1>b, <2>1 DEF DropOn
<1>e. p \in n + 1..Len(P) /\ (p = n + l \/ \E i \in 1..Len(A[l]) : p = A[l][i])
  <2>1. DropPlace(n, l, L[l], A[l], P, k)
    BY <1>0, <1>d, CorPlace
  <2> QED BY <2>1 DEF DropPlace
<1>f. Moved(P, Q, A[l], k, p)
  BY DEF DropTo
<1>1. Len(V) = Len(U) + 1 /\ \A j \in 1..Len(U) : V[j] = U[j]
  BY DEF Recorded
<1>2. Len(M) = n - 1 /\ Len(B) = n - 1 /\ Len(V) \in Nat /\ Len(Q) = 2 * n - 1 + 2 * Len(V)
  <2>1. Len(M) = Len(L) /\ Len(B) = Len(A)
    BY DEF OthersStay
  <2>2. Len(Q) = Len(P) + 2
    BY <1>f DEF Moved
  <2> QED BY <1>0, <1>1, <2>1, <2>2
<1>3. ASSUME NEW q \in 1..Len(P), q # p, ~Among(A[l], q) PROVE Untouched(P, Q, q)
  BY <1>f, <1>3 DEF Moved, Untouched
<1>4. \A q \in 1..n : ~Q[q].inner
  <2>1. TAKE q \in 1..n
  <2>2. q \in 1..Len(P) /\ q # p
    BY <1>0, <1>e
  <2>3. Q[q].inner = P[q].inner
    BY <1>f, <2>2 DEF Moved
  <2> QED BY <1>b, <2>3
<1>g. \A i \in 1..Len(A[l]) : A[l][i] >= 2 * n
  <2>1. l \in Nat /\ AddonsOK(n, l, A[l], U)
    BY <1>0, <1>a
  <2> QED BY <1>0, <2>1, CorIds
<1>5. ASSUME NEW m \in 1..n - 1, m # l
      PROVE  LineOK(n, m, M[m], Q, B[m]) /\ AddonsOK(n, m, B[m], V)
  <2>1. M[m] = L[m] /\ B[m] = A[m]
    BY <1>5 DEF OthersStay
  <2>2. LineOK(n, m, L[m], P, A[m]) /\ AddonsOK(n, m, A[m], U) /\ AddonsOK(n, l, A[l], U)
    BY <1>a
  <2>3. l \in Nat /\ m \in Nat
    BY <1>0
  <2>4. ASSUME NEW i \in 1..Len(A[m]) PROVE Untouched(P, Q, A[m][i])
    <3>1. \A a \in 1..Len(A[l]) : A[l][a] # A[m][i]
      BY <1>0, <1>5, <2>2, <2>3, CorApart
    <3>2. A[m][i] >= 2 * n /\ A[m][i] <= 2 * n - 1 + 2 * Len(U)
      BY <1>0, <2>2, <2>3, CorIds
    <3>3. A[m][i] \in Nat
      BY <2>2 DEF LineOK
    <3>4. A[m][i] \in 1..Len(P) /\ A[m][i] # n + l
      BY <1>0, <3>2, <3>3, SMTT(40)
    <3>5. A[m][i] # p
      BY <1>e, <3>1, <3>4
    <3>6. ~Among(A[l], A[m][i])
      BY <3>1 DEF Among
    <3> QED BY <1>3, <3>4, <3>5, <3>6
  <2>5. Untouched(P, Q, n + m)
    <3>1. n + m \in 1..Len(P) /\ n + m # n + l /\ ~(n + m >= 2 * n)
      BY <1>0, <1>5, SMTT(40)
    <3>2. ~Among(A[l], n + m)
      BY <1>g, <3>1 DEF Among
    <3>3. n + m # p
      BY <1>e, <1>g, <3>1
    <3> QED BY <1>3, <3>1, <3>2, <3>3
  <2>6. LineOK(n, m, L[m], Q, A[m])
    <3>1. /\ \A i \in 1..Len(A[m]) : Q[A[m][i]].at = P[A[m][i]].at
          /\ Q[n + m].at = P[n + m].at /\ Q[n + m].inner = P[n + m].inner
      BY <2>4, <2>5 DEF Untouched
    <3> QED BY <1>0, <2>2, <3>1, CorOtherLine
  <2>7. AddonsOK(n, m, A[m], V)
    BY <1>0, <2>2, <2>3, CorDropAddonsOther
  <2> QED BY <2>1, <2>6, <2>7
<1>6. LineOK(n, l, M[l], Q, B[l])
  BY <1>0, <1>d, CorDropLineOK
<1>7. AddonsOK(n, l, B[l], V)
  <2>1. IdBefore(n, Len(U) + 1) = Len(P) + 2 /\ IdAfter(n, Len(U) + 1) = Len(P) + 1
    BY <1>0 DEF IdBefore, IdAfter
  <2>2. NeighboursKept(A[l], B[l], IdBefore(n, Len(U) + 1), IdAfter(n, Len(U) + 1))
    BY <2>1 DEF DropTo
  <2>3. AddonsOK(n, l, A[l], U)
    BY <1>a
  <2> QED BY <1>0, <2>2, <2>3, CorDropAddonsOK
<1>8. ASSUME NEW m \in 1..n - 1
      PROVE  LineOK(n, m, M[m], Q, B[m]) /\ AddonsOK(n, m, B[m], V)
  BY <1>5, <1>6, <1>7
<1>9. ASSUME NEW j \in 1..Len(V)
      PROVE  V[j].line \in 1..n - 1 /\ MoveOK(n, j, V[j], M[V[j].line], B[V[j].line])
  <2>1. CASE j = Len(U) + 1
    <3>1. V[j].line = l /\ V[j].point = p
      BY <2>1 DEF Recorded
    <3>2. MoveOK(n, Len(U) + 1, V[j], M[l], B[l])
      BY <1>0, <1>d, <3>1, CorDropMoveNew
    <3> QED BY <2>1, <3>1, <3>2
  <2>2. CASE j # Len(U) + 1
    <3>1. j \in 1..Len(U)
      BY <1>0, <1>1, <2>2
    <3>2. V[j] = U[j] /\ U[j].line \in 1..n - 1 /\ MoveOK(n, j, U[j], L[U[j].line], A[U[j].line])
      BY <1>1, <1>c, <3>1
    <3>3. CASE U[j].line = l
      <4>1. MoveOK(n, j, U[j], L[l], A[l])
        BY <3>2, <3>3
      <4>2. MoveOK(n, j, U[j], M[l], B[l])
        BY <1>0, <1>d, <3>1, <3>3, <4>1, CorDropMoveOK
      <4> QED BY <3>2, <3>3, <4>2
    <3>4. CASE U[j].line # l
      <4>1. M[U[j].line] = L[U[j].line] /\ B[U[j].line] = A[U[j].line]
        BY <3>2, <3>4 DEF OthersStay
      <4> QED BY <3>2, <4>1
    <3> QED BY <3>3, <3>4
  <2> QED BY <2>1, <2>2
<1> QED BY <1>0, <1>2, <1>4, <1>8, <1>9 DEF WellDrawn

LEMMA CorUndoShape ==
  ASSUME NEW n, NEW L, NEW P, NEW A, NEW U, WellDrawn(n, L, P, A, U), Len(U) >= 1,
         NEW l, NEW p, NEW x, NEW y, NEW z, l = U[Len(U)].line, p = U[Len(U)].point,
         x = P[Len(P)].at, y = P[p].at, z = P[Len(P) - 1].at,
         NEW M, NEW Q, NEW B, NEW V,
         UndoTo(L[l], A[l], P, p, x, y, z, M[l], B[l], Q), OthersStay(n, l, L, M, A, B),
         Unrecorded(U, V)
  PROVE  WellDrawn(n, M, Q, B, V)
<1>0. /\ n \in Nat /\ n >= 4 /\ Len(U) \in Nat
      /\ Len(L) = n - 1 /\ Len(A) = n - 1 /\ Len(P) = 2 * n - 1 + 2 * Len(U)
  BY DEF WellDrawn
<1>a. \A m \in 1..n - 1 : LineOK(n, m, L[m], P, A[m]) /\ AddonsOK(n, m, A[m], U)
  BY DEF WellDrawn
<1>b. \A q \in 1..n : ~P[q].inner
  BY DEF WellDrawn
<1>c. \A j \in 1..Len(U) : U[j].line \in 1..n - 1 /\ MoveOK(n, j, U[j], L[U[j].line], A[U[j].line])
  BY DEF WellDrawn
<1>l. l \in 1..n - 1 /\ MoveOK(n, Len(U), U[Len(U)], L[l], A[l])
  <2>1. Len(U) \in 1..Len(U)
    BY <1>0
  <2> QED BY <1>c, <2>1
<1>d. UndoOn(n, l, L[l], A[l], P, U, p, x, y, z)
  <2>1. LineOK(n, l, L[l], P, A[l]) /\ AddonsOK(n, l, A[l], U)
    BY <1>a, <1>l
  <2> QED BY <1>0, <1>l, <2>1 DEF UndoOn
<1>e. /\ A[l][Len(A[l]) - 1] = Len(P) /\ A[l][Len(A[l])] = Len(P) - 1 /\ Len(A[l]) >= 2
      /\ p \in n + 1..Len(P) - 2 /\ (p = n + l \/ \E i \in 1..Len(A[l]) - 2 : p = A[l][i])
  <2>1. UndoPlace(n, l, L[l], A[l], P, p, x, y, z)
    BY <1>0, <1>d, <1>l, CorUndoPlace
  <2> QED BY <2>1 DEF UndoPlace
<1>r. Len(B[l]) = Len(A[l]) - 2 /\ \A i \in 1..Len(A[l]) - 2 : B[l][i] = A[l][i]
  BY DEF UndoTo
<1>n. Len(A[l]) \in Nat
  BY <1>a, <1>l DEF LineOK
<1>1. Len(V) = Len(U) - 1 /\ \A j \in 1..Len(V) : V[j] = U[j]
  BY DEF Unrecorded
<1>2. Len(M) = n - 1 /\ Len(B) = n - 1 /\ Len(V) \in Nat /\ Len(Q) = 2 * n - 1 + 2 * Len(V)
  <2>1. Len(M) = Len(L) /\ Len(B) = Len(A)
    BY DEF OthersStay
  <2>2. Len(Q) = Len(P) - 2
    BY DEF UndoTo
  <2> QED BY <1>0, <1>1, <2>1, <2>2
<1>3. ASSUME NEW q \in 1..Len(P) - 2, q # p, ~Among(B[l], q) PROVE Untouched(P, Q, q)
  BY <1>3 DEF UndoTo, Untouched
<1>4. \A q \in 1..n : ~Q[q].inner
  <2>1. TAKE q \in 1..n
  <2>2. q \in 1..Len(P) - 2 /\ q # p
    <3>1. p \in n + 1..Len(P) - 2
      BY <1>e
    <3> QED BY <1>0, <3>1, SMTT(40)
  <2>3. Q[q].inner = P[q].inner
    BY <2>2 DEF UndoTo
  <2> QED BY <1>b, <2>3
<1>g. \A i \in 1..Len(B[l]) : i \in 1..Len(A[l]) /\ B[l][i] = A[l][i] /\ A[l][i] >= 2 * n
  <2>1. l \in Nat /\ AddonsOK(n, l, A[l], U)
    BY <1>0, <1>a, <1>l
  <2>2. \A i \in 1..Len(A[l]) : A[l][i] >= 2 * n
    BY <1>0, <2>1, CorIds
  <2>3. \A i \in 1..Len(B[l]) : i \in 1..Len(A[l]) /\ i \in 1..Len(A[l]) - 2
    BY <1>n, <1>r
  <2> QED BY <1>r, <2>2, <2>3
<1>h. p = n + l \/ \E i \in 1..Len(A[l]) : p = A[l][i] /\ A[l][i] >= 2 * n
  BY <1>e, <1>g, <1>r
<1>5. ASSUME NEW m \in 1..n - 1, m # l
      PROVE  LineOK(n, m, M[m], Q, B[m]) /\ AddonsOK(n, m, B[m], V)
  <2>1. M[m] = L[m] /\ B[m] = A[m]
    BY <1>5 DEF OthersStay
  <2>2. LineOK(n, m, L[m], P, A[m]) /\ AddonsOK(n, m, A[m], U) /\ AddonsOK(n, l, A[l], U)
    BY <1>a, <1>l
  <2>3. l \in Nat /\ m \in Nat
    BY <1>0, <1>l
  <2>4. ASSUME NEW i \in 1..Len(A[m]) PROVE Untouched(P, Q, A[m][i])
    <3>1. \A a \in 1..Len(A[l]) : A[l][a] # A[m][i]
      <4>1. n \in Nat /\ l # m /\ AddonsOK(n, m, A[m], U) /\ AddonsOK(n, l, A[l], U)
        BY <1>0, <1>5, <2>2
      <4>2. \A a \in 1..Len(A[l]), b \in 1..Len(A[m]) : A[l][a] # A[m][b]
        BY ONLY <2>3, <4>1, CorApart
      <4> QED BY ONLY <4>2, i \in 1..Len(A[m])
    <3>2. A[m][i] >= 2 * n /\ A[m][i] <= 2 * n - 1 + 2 * Len(U)
      BY <1>0, <2>2, <2>3, CorIds
    <3>3. A[m][i] \in Nat
      BY <2>2 DEF LineOK
    <3>4. A[m][i] # Len(P) /\ A[m][i] # Len(P) - 1
      <4>1. Len(A[l]) - 1 \in 1..Len(A[l]) /\ Len(A[l]) \in 1..Len(A[l])
        BY <1>e, <1>n, SMTT(40)
      <4> QED BY <1>e, <3>1, <4>1
    <3>5. A[m][i] \in 1..Len(P) - 2 /\ A[m][i] # n + l
      <4> DEFINE q == A[m][i]
      <4>1. q >= 2 * n /\ q <= Len(P) /\ q \in Nat /\ q # Len(P) /\ q # Len(P) - 1 /\ Len(P) \in Nat
        BY <1>0, <3>2, <3>3, <3>4
      <4>2. n \in Nat /\ l \in 1..n - 1
        BY <1>0, <1>l
      <4> HIDE DEF q
      <4>3. q \in 1..Len(P) - 2 /\ q # n + l
        BY <4>1, <4>2, SMTT(40)
      <4> QED BY <4>3 DEF q
    <3>6. A[m][i] # p
      BY <1>h, <3>1, <3>5
    <3>7. ~Among(B[l], A[m][i])
      BY <1>g, <3>1 DEF Among
    <3> QED BY <1>3, <3>5, <3>6, <3>7
  <2>5. Untouched(P, Q, n + m)
    <3>1. n + m \in 1..Len(P) - 2 /\ n + m # n + l /\ ~(n + m >= 2 * n)
      BY <1>0, <1>5, <1>l
    <3>2. ~Among(B[l], n + m)
      BY <1>g, <3>1 DEF Among
    <3>3. n + m # p
      BY <1>h, <3>1
    <3> QED BY <1>3, <3>1, <3>2, <3>3
  <2>6. LineOK(n, m, L[m], Q, A[m])
    <3>1. /\ \A i \in 1..Len(A[m]) : Q[A[m][i]].at = P[A[m][i]].at
          /\ Q[n + m].at = P[n + m].at /\ Q[n + m].inner = P[n + m].inner
      BY <2>4, <2>5 DEF Untouched
    <3> QED BY <1>0, <2>2, <3>1, CorOtherLine
  <2>7. AddonsOK(n, m, A[m], V)
    BY <1>0, <1>5, <2>2, <2>3, CorUndoAddonsOther
  <2> QED BY <2>1, <2>6, <2>7
<1>6. LineOK(n, l, M[l], Q, B[l])
  BY <1>0, <1>d, <1>l, CorUndoLineOK
<1>7. AddonsOK(n, l, B[l], V)
  BY <1>0, <1>d, <1>l, CorUndoAddonsOK
<1>8. ASSUME NEW m \in 1..n - 1
      PROVE  LineOK(n, m, M[m], Q, B[m]) /\ AddonsOK(n, m, B[m], V)
  BY <1>5, <1>6, <1>7
<1>9. ASSUME NEW j \in 1..Len(V)
      PROVE  V[j].line \in 1..n - 1 /\ MoveOK(n, j, V[j], M[V[j].line], B[V[j].line])
  <2>1. j \in 1..Len(U) - 1 /\ j \in 1..Len(U)
    BY <1>0, <1>1
  <2>2. V[j] = U[j] /\ U[j].line \in 1..n - 1 /\ MoveOK(n, j, U[j], L[U[j].line], A[U[j].line])
    BY <1>1, <1>c, <2>1
  <2>3. CASE U[j].line = l
    <3>1. MoveOK(n, j, U[j], L[l], A[l])
      BY <2>2, <2>3
    <3>a. n \in Nat /\ l \in 1..n - 1
      BY <1>0, <1>l
    <3>2. MoveOK(n, j, U[j], M[l], B[l])
      BY <1>d, <2>1, <2>3, <3>1, <3>a, CorUndoMoveOK, SMTT(40)
    <3> QED BY <2>2, <2>3, <3>2
  <2>4. CASE U[j].line # l
    <3>1. M[U[j].line] = L[U[j].line] /\ B[U[j].line] = A[U[j].line]
      BY <2>2, <2>4 DEF OthersStay
    <3> QED BY <2>2, <3>1
  <2> QED BY <2>3, <2>4
<1> QED BY <1>0, <1>2, <1>4, <1>8, <1>9 DEF WellDrawn

-----------------------------------------------------------------------------
(* The sequences of a corridor.                                               *)
CorSeqs(L, P, A, U) ==
  L \in CorLines /\ P \in CorPoints /\ A \in CorLines /\ U \in CorMoves

(* A sequence with one element changed.                                       *)
LEMMA CorExcept ==
  ASSUME NEW S, NEW L \in Seq(S), NEW l \in 1..Len(L), NEW e \in S, NEW M, M = [L EXCEPT ![l] = e]
  PROVE  M \in Seq(S) /\ Len(M) = Len(L) /\ M[l] = e /\ \A m \in 1..Len(L) : m # l => M[m] = L[m]
<1>1. /\ [L EXCEPT ![l] = e] \in Seq(S) /\ Len([L EXCEPT ![l] = e]) = Len(L)
      /\ \A j \in 1..Len(L) : [L EXCEPT ![l] = e][j] = IF j = l THEN e ELSE L[j]
  BY ExceptSeq
<1> QED BY <1>1

(* The neighbours of a line with two more.                                    *)
LEMMA CorKept ==
  ASSUME NEW A \in Seq(Nat), NEW b \in Nat, NEW a \in Nat
  PROVE  A \o <<b, a>> \in Seq(Nat) /\ NeighboursKept(A, A \o <<b, a>>, b, a)
<1> DEFINE E == <<b, a>>
<1>1. E \in Seq(Nat) /\ Len(E) = 2 /\ E[1] = b /\ E[2] = a
  OBVIOUS
<1>2. Len(A) \in Nat
  BY LenProperties
<1> HIDE DEF E
<1>3. /\ A \o E \in Seq(Nat) /\ Len(A \o E) = Len(A) + Len(E)
      /\ \A k \in 1..Len(A) + Len(E) : (A \o E)[k] = IF k <= Len(A) THEN A[k] ELSE E[k - Len(A)]
  BY <1>1, ConcatProperties
<1>4. \A k \in 1..Len(A) : (A \o E)[k] = A[k]
  BY <1>1, <1>2, <1>3
<1>5. ASSUME NEW d \in 1..2 PROVE (A \o E)[Len(A) + d] = E[d]
  <2>1. Len(A) + d \in 1..Len(A) + Len(E) /\ ~(Len(A) + d <= Len(A)) /\ Len(A) + d - Len(A) = d
    BY <1>1, <1>2
  <2> QED BY <1>3, <2>1
<1>6. (A \o E)[Len(A) + 1] = b /\ (A \o E)[Len(A) + 2] = a
  <2>1. 1 \in 1..2 /\ 2 \in 1..2
    OBVIOUS
  <2> QED BY <1>1, <1>5, <2>1
<1>7. Len(A \o E) = Len(A) + 2
  BY <1>1, <1>3
<1> QED BY <1>3, <1>4, <1>6, <1>7 DEF NeighboursKept, E

LEMMA CorRecorded ==
  ASSUME NEW U \in Seq(CorMove), NEW u \in CorMove
  PROVE  Append(U, u) \in Seq(CorMove) /\ Recorded(U, Append(U, u), u.point, u.line)
<1>1. /\ Append(U, u) \in Seq(CorMove) /\ Len(Append(U, u)) = Len(U) + 1
      /\ \A i \in 1..Len(U) : Append(U, u)[i] = U[i]
      /\ Append(U, u)[Len(U) + 1] = u
  BY AppendProperties
<1> QED BY <1>1 DEF Recorded

(* What a drop puts into a line.                                              *)
LEMMA CorWidened ==
  ASSUME NEW L \in Seq(Nat), NEW k \in 2..Len(L) - 1, NEW b \in Nat, NEW a \in Nat
  PROVE  /\ DropLine(L, k, b, L[k], a) \in Seq(Nat)
         /\ Widened(L, DropLine(L, k, b, L[k], a), k, b, a)
<1>0. Len(L) \in Nat /\ L[k] \in Nat
  BY LenProperties, ElementOfSeq
<1> DEFINE W == DropLine(L, k, b, L[k], a)
<1>1. /\ W \in Seq(Nat) /\ Len(W) = Len(L) + 2
      /\ \A x \in 1..Len(L) + 2 : W[x] =
           (IF x < k THEN L[x] ELSE IF x = k THEN b ELSE IF x = k + 1 THEN L[k]
            ELSE IF x = k + 2 THEN a ELSE L[x - 2])
  <2> DEFINE p == L[k]
  <2>1. p \in Nat
    BY <1>0
  <2> HIDE DEF p
  <2>2. /\ DropLine(L, k, b, p, a) \in Seq(Nat) /\ Len(DropLine(L, k, b, p, a)) = Len(L) + 2
        /\ \A x \in 1..Len(L) + 2 : DropLine(L, k, b, p, a)[x] =
             (IF x < k THEN L[x] ELSE IF x = k THEN b ELSE IF x = k + 1 THEN p
              ELSE IF x = k + 2 THEN a ELSE L[x - 2])
    BY <2>1, CorDropLine, SMTT(40)
  <2> QED BY <2>2 DEF p
<1> HIDE DEF W
<1>2. W[k] = b /\ W[k + 2] = a
  <2>1. k \in 1..Len(L) + 2 /\ k + 2 \in 1..Len(L) + 2
    BY <1>0
  <2> QED BY <1>1, <2>1
<1>3. ASSUME NEW x \in 1..Len(L) PROVE NewPlace(k, x) \in 1..Len(W) /\ W[NewPlace(k, x)] = L[x]
  <2>1. CASE x < k
    <3>1. NewPlace(k, x) = x /\ x \in 1..Len(L) + 2
      BY <1>0, <2>1 DEF NewPlace
    <3> QED BY <1>1, <2>1, <3>1
  <2>2. CASE x = k
    <3>1. NewPlace(k, x) = k + 1 /\ k + 1 \in 1..Len(L) + 2 /\ ~(k + 1 < k) /\ k + 1 # k
      BY <1>0, <2>2 DEF NewPlace
    <3> QED BY <1>1, <2>2, <3>1
  <2>3. CASE x > k
    <3> DEFINE v == x + 2
    <3>1. /\ NewPlace(k, x) = v /\ v \in 1..Len(L) + 2 /\ ~(v < k) /\ v # k
          /\ v # k + 1 /\ v # k + 2 /\ v - 2 = x
      BY <1>0, <2>3 DEF NewPlace
    <3> HIDE DEF v
    <3>2. W[v] = L[v - 2]
      BY <1>1, <3>1
    <3>3. v \in 1..Len(W)
      BY <1>1, <3>1
    <3> QED BY <3>1, <3>2, <3>3
  <2> QED BY <1>0, <2>1, <2>2, <2>3
<1> QED BY <1>1, <1>2, <1>3 DEF Widened, W

(* What a drop makes of the points.                                           *)
LEMMA CorMoved ==
  ASSUME NEW P \in Seq(CorPoint), NEW A, NEW ids, \A q : q \in ids <=> Among(A, q),
         NEW k \in Nat, NEW p \in 1..Len(P)
  PROVE  DropPoints(P, ids, k, p) \in Seq(CorPoint) /\ Moved(P, DropPoints(P, ids, k, p), A, k, p)
<1> DEFINE Q == DropPoints(P, ids, k, p)
<1>1. /\ Q \in Seq(CorPoint) /\ Len(Q) = Len(P) + 2
      /\ \A q \in 1..Len(P) : q # p =>
           /\ Q[q].inner = P[q].inner
           /\ Q[q].at = IF q \in ids /\ P[q].at > k THEN P[q].at + 2 ELSE P[q].at
      /\ Q[p] = Point(FALSE, k + 1)
      /\ Q[Len(P) + 1] = Point(TRUE, k + 2) /\ Q[Len(P) + 2] = Point(TRUE, k)
  BY CorDropPoints, ZenonT(60)
<1> HIDE DEF Q
<1>2. /\ ~Q[p].inner /\ Q[p].at = k + 1
      /\ Q[Len(P) + 1].at = k + 2 /\ Q[Len(P) + 2].at = k
  <2>1. \A b \in BOOLEAN : \A at : Point(b, at).inner = b /\ Point(b, at).at = at
    BY DEF Point
  <2>2. TRUE \in BOOLEAN /\ FALSE \in BOOLEAN
    OBVIOUS
  <2> QED BY <1>1, <2>1, <2>2
<1>3. \A q \in 1..Len(P) : q # p =>
        /\ Q[q].inner = P[q].inner
        /\ Q[q].at = IF Among(A, q) /\ P[q].at > k THEN P[q].at + 2 ELSE P[q].at
  BY <1>1
<1> QED BY <1>1, <1>2, <1>3 DEF Moved, Q

LEMMA CorAmong ==
  ASSUME NEW A \in Seq(Nat)
  PROVE  \A q : q \in ToSet(A) <=> Among(A, q)
<1>1. DOMAIN A = 1..Len(A)
  BY LenProperties
<1> QED BY <1>1 DEF ToSet, Among

DropWhole(L, P, A, U, l, k, p, u, M, Q, B, V) ==
  /\ M = [L EXCEPT ![l] = DropLine(L[l], k, Len(P) + 2, p, Len(P) + 1)]
  /\ B = [A EXCEPT ![l] = A[l] \o <<Len(P) + 2, Len(P) + 1>>]
  /\ Q = DropPoints(P, ToSet(A[l]), k, p) /\ V = Append(U, u)

LEMMA CorDropAll ==
  ASSUME NEW n, NEW L, NEW P, NEW A, NEW U, CorSeqs(L, P, A, U), WellDrawn(n, L, P, A, U),
         NEW l \in 1..n - 1, NEW k \in 1..Len(L[l]), P[L[l][k]].inner,
         NEW u \in CorMove, u.point = L[l][k], u.line = l,
         NEW M, NEW B, NEW Q, NEW V, DropWhole(L, P, A, U, l, k, L[l][k], u, M, Q, B, V)
  PROVE  CorSeqs(M, Q, B, V) /\ WellDrawn(n, M, Q, B, V)
<1> DEFINE p == L[l][k]
           b == Len(P) + 2
           a == Len(P) + 1
           W == DropLine(L[l], k, b, p, a)
           E == A[l] \o <<b, a>>
<1>0. n \in Nat /\ Len(L) = n - 1 /\ Len(A) = n - 1
  BY DEF WellDrawn
<1>1. DropPlace(n, l, L[l], A[l], P, k)
  <2>1. DropOn(n, l, L[l], A[l], P, U, k)
    BY DEF WellDrawn, DropOn
  <2> QED BY <1>0, <2>1, CorPlace
<1>2. L \in Seq(Seq(Nat)) /\ A \in Seq(Seq(Nat)) /\ P \in Seq(CorPoint) /\ U \in Seq(CorMove)
  BY DEF CorSeqs, CorLines, CorPoints, CorMoves
<1>3. l \in 1..Len(L) /\ l \in 1..Len(A)
  BY <1>0
<1>4. L[l] \in Seq(Nat) /\ A[l] \in Seq(Nat)
  BY <1>2, <1>3, ElementOfSeq
<1>5. Len(P) \in Nat
  BY <1>2, LenProperties
<1>6. a \in Nat /\ b \in Nat
  BY <1>5
<1>7. p \in 1..Len(P) /\ k \in 2..Len(L[l]) - 1 /\ k \in Nat
  <2>1. p \in n + 1..Len(P) /\ k \in 2..Len(L[l]) - 1
    BY <1>1 DEF DropPlace
  <2>2. Len(L[l]) \in Nat
    BY <1>4, LenProperties
  <2> QED BY <1>0, <1>5, <2>1, <2>2
<1>8. W \in Seq(Nat) /\ Widened(L[l], W, k, b, a)
  <2> HIDE DEF a, b
  <2> QED BY <1>4, <1>6, <1>7, CorWidened
<1>9. E \in Seq(Nat) /\ NeighboursKept(A[l], E, b, a)
  <2> HIDE DEF a, b
  <2> QED BY <1>4, <1>6, CorKept
<1>10. Q \in Seq(CorPoint) /\ Moved(P, Q, A[l], k, p)
  <2>1. \A q : q \in ToSet(A[l]) <=> Among(A[l], q)
    BY <1>4, CorAmong
  <2>2. Q = DropPoints(P, ToSet(A[l]), k, p)
    BY DEF DropWhole
  <2> DEFINE ids == ToSet(A[l])
             C == A[l]
  <2>3. \A q : q \in ids <=> Among(C, q)
    BY <2>1
  <2> HIDE DEF p, ids, C
  <2>4. DropPoints(P, ids, k, p) \in Seq(CorPoint) /\ Moved(P, DropPoints(P, ids, k, p), C, k, p)
    BY <1>2, <1>7, <2>3, CorMoved
  <2> QED BY <2>2, <2>4 DEF ids, C
<1>11. V \in Seq(CorMove) /\ Recorded(U, V, p, l)
  <2>1. Append(U, u) \in Seq(CorMove) /\ Recorded(U, Append(U, u), u.point, u.line)
    BY <1>2, CorRecorded
  <2> QED BY <2>1 DEF DropWhole
<1>12. M \in Seq(Seq(Nat)) /\ Len(M) = Len(L) /\ M[l] = W /\ \A m \in 1..Len(L) : m # l => M[m] = L[m]
  <2>1. M = [L EXCEPT ![l] = W]
    BY DEF DropWhole
  <2>2. L \in Seq(Seq(Nat)) /\ W \in Seq(Nat)
    BY <1>2, <1>8
  <2> HIDE DEF W
  <2> QED BY <1>3, <2>1, <2>2, CorExcept
<1>13. B \in Seq(Seq(Nat)) /\ Len(B) = Len(A) /\ B[l] = E /\ \A m \in 1..Len(A) : m # l => B[m] = A[m]
  <2>1. B = [A EXCEPT ![l] = E]
    BY DEF DropWhole
  <2>2. A \in Seq(Seq(Nat)) /\ E \in Seq(Nat)
    BY <1>2, <1>9
  <2> HIDE DEF E
  <2> QED BY <1>3, <2>1, <2>2, CorExcept
<1>14. OthersStay(n, l, L, M, A, B)
  BY <1>0, <1>12, <1>13 DEF OthersStay
<1>15. DropTo(L[l], A[l], P, k, M[l], B[l], Q)
  BY <1>8, <1>9, <1>10, <1>12, <1>13 DEF DropTo
<1>16. WellDrawn(n, M, Q, B, V)
  BY <1>11, <1>14, <1>15, CorDropShape
<1>17. CorSeqs(M, Q, B, V)
  BY <1>10, <1>11, <1>12, <1>13 DEF CorSeqs, CorLines, CorPoints, CorMoves
<1> QED BY <1>16, <1>17

(* The record of a corridor with its four sequences apart.                    *)
CorWhole(s) ==
  /\ s \in CorRecord /\ CorSeqs(s.lines, s.pts, s.addons, s.undo)
  /\ WellDrawn(s.index, s.lines, s.pts, s.addons, s.undo)

CorFields ==
  {"handlers", "drawing", "index", "add", "continue", "end", "moving", "pts", "lines", "addons",
   "undo", "point", "undoes", "undoOn", "saveOn", "saving", "stale"}

LEMMA CorDropped ==
  ASSUME NEW s \in CorRecord, NEW t, t = Dropped(s)
  PROVE  /\ t.lines = [s.lines EXCEPT ![s.point.line] =
                         DropLine(s.lines[s.point.line], s.pts[s.point.point].at, Len(s.pts) + 2,
                                  s.point.point, Len(s.pts) + 1)]
         /\ t.addons = [s.addons EXCEPT ![s.point.line] =
                         s.addons[s.point.line] \o <<Len(s.pts) + 2, Len(s.pts) + 1>>]
         /\ t.pts = DropPoints(s.pts, ToSet(s.addons[s.point.line]), s.pts[s.point.point].at, s.point.point)
         /\ t.undo = Append(s.undo, s.point)
         /\ t = [s EXCEPT !.lines = t.lines, !.addons = t.addons, !.pts = t.pts, !.undo = t.undo,
                          !.moving = FALSE, !.point = NoMove, !.saveOn = TRUE]
<1> DEFINE line == s.lines[s.point.line]
           ids == s.addons[s.point.line]
           i == s.pts[s.point.point].at
           p == s.point.point
           l == s.point.line
           b == Len(s.pts) + 2
           a == Len(s.pts) + 1
           M == [s.lines EXCEPT ![l] = DropLine(line, i, b, p, a)]
           B == [s.addons EXCEPT ![l] = ids \o <<b, a>>]
           Q == DropPoints(s.pts, ToSet(ids), i, p)
           V == Append(s.undo, s.point)
<1>1. DOMAIN s = CorFields
  BY DEF CorRecord, CorFields
<1>2. t = [s EXCEPT !.moving = FALSE, !.point = NoMove, !.saveOn = TRUE,
                    !.lines = M, !.pts = Q, !.addons = B, !.undo = V]
  BY <1>1 DEF Dropped, Lies, DropLine, DropPoints, CorFields
<1> HIDE DEF M, B, Q, V
<1>3. t.lines = M /\ t.addons = B /\ t.pts = Q /\ t.undo = V
  BY <1>1, <1>2 DEF CorFields
<1>4. t = [s EXCEPT !.lines = t.lines, !.addons = t.addons, !.pts = t.pts, !.undo = t.undo,
                    !.moving = FALSE, !.point = NoMove, !.saveOn = TRUE]
  BY <1>1, <1>2, <1>3 DEF CorFields
<1> QED BY <1>3, <1>4 DEF M, B, Q, V

LEMMA CorDroppedWell ==
  ASSUME NEW s, CorWhole(s), ChosenOK(s), NEW t, t = Dropped(s)
  PROVE  /\ CorWhole(t)
         /\ t = [s EXCEPT !.lines = t.lines, !.addons = t.addons, !.pts = t.pts, !.undo = t.undo,
                          !.moving = FALSE, !.point = NoMove, !.saveOn = TRUE]
<1> DEFINE p == s.point.point
           l == s.point.line
           n == s.index
<1>1. s \in CorRecord /\ CorSeqs(s.lines, s.pts, s.addons, s.undo)
      /\ WellDrawn(n, s.lines, s.pts, s.addons, s.undo)
  BY DEF CorWhole
<1>2. /\ t.lines = [s.lines EXCEPT ![l] =
                      DropLine(s.lines[l], s.pts[p].at, Len(s.pts) + 2, p, Len(s.pts) + 1)]
      /\ t.addons = [s.addons EXCEPT ![l] = s.addons[l] \o <<Len(s.pts) + 2, Len(s.pts) + 1>>]
      /\ t.pts = DropPoints(s.pts, ToSet(s.addons[l]), s.pts[p].at, p)
      /\ t.undo = Append(s.undo, s.point)
  BY <1>1, CorDropped
<1>3. t = [s EXCEPT !.lines = t.lines, !.addons = t.addons, !.pts = t.pts, !.undo = t.undo,
                    !.moving = FALSE, !.point = NoMove, !.saveOn = TRUE]
  BY <1>1, CorDropped
<1>4. l \in 1..n - 1 /\ s.pts[p].inner
  BY <1>1 DEF ChosenOK, WellDrawn
<1>5. PICK k \in 1..Len(s.lines[l]) : s.lines[l][k] = p
  BY DEF ChosenOK
<1>6. s.pts[p].at = k
  <2>1. DropOn(n, l, s.lines[l], s.addons[l], s.pts, s.undo, k)
    BY <1>1, <1>4, <1>5 DEF WellDrawn, DropOn
  <2>2. n \in Nat
    BY <1>1 DEF WellDrawn
  <2>3. DropPlace(n, l, s.lines[l], s.addons[l], s.pts, k)
    BY <1>4, <2>1, <2>2, CorPlace
  <2> QED BY <1>5, <2>3 DEF DropPlace
<1>7. s.point \in CorMove
  BY <1>1 DEF CorRecord
<1>8. DropWhole(s.lines, s.pts, s.addons, s.undo, l, k, s.lines[l][k], s.point,
                t.lines, t.pts, t.addons, t.undo)
  BY <1>2, <1>5, <1>6 DEF DropWhole
<1>9. CorSeqs(t.lines, t.pts, t.addons, t.undo) /\ WellDrawn(n, t.lines, t.pts, t.addons, t.undo)
  BY <1>1, <1>4, <1>5, <1>7, <1>8, CorDropAll
<1>10. t \in CorRecord /\ t.index = s.index
  <2>1. t.lines \in CorLines /\ t.addons \in CorLines /\ t.pts \in CorPoints /\ t.undo \in CorMoves
    BY <1>9 DEF CorSeqs
  <2>2. NoMove \in CorMove
    BY DEF NoMove, CorMove
  <2> DEFINE M == t.lines
             B == t.addons
             Q == t.pts
             V == t.undo
  <2>3. /\ M \in CorLines /\ B \in CorLines /\ Q \in CorPoints /\ V \in CorMoves
        /\ t = [s EXCEPT !.lines = M, !.addons = B, !.pts = Q, !.undo = V,
                         !.moving = FALSE, !.point = NoMove, !.saveOn = TRUE]
    BY <1>3, <2>1
  <2>4. s \in CorRecord
    BY <1>1
  <2> HIDE DEF M, B, Q, V
  <2> DEFINE u == [s EXCEPT !.lines = M, !.addons = B, !.pts = Q, !.undo = V]
  <2>5. u \in CorRecord /\ u.index = s.index
    BY <2>3, <2>4 DEF CorRecord
  <2>6. t = [u EXCEPT !.moving = FALSE, !.point = NoMove, !.saveOn = TRUE]
    BY <2>3
  <2> HIDE DEF u
  <2> QED BY <2>2, <2>5, <2>6, ZenonT(60) DEF CorRecord
<1> QED BY <1>3, <1>9, <1>10 DEF CorWhole

UndoWhole(L, P, A, U, l, p, b, a, M, Q, B, V) ==
  LET rest == SubSeq(A[l], 1, Len(A[l]) - 2)
      line == [L[l] EXCEPT ![P[p].at] = p]
  IN /\ M = [L EXCEPT ![l] = WithoutNeighbours(line, P[b].at, P[a].at)]
     /\ B = [A EXCEPT ![l] = rest]
     /\ Q = UndoPoints(P, ToSet(rest) \ {p}, P[b].at, P[a].at, p, P[p].at)
     /\ V = Front(U)

LEMMA CorUndoAll ==
  ASSUME NEW n, NEW L, NEW P, NEW A, NEW U, CorSeqs(L, P, A, U), WellDrawn(n, L, P, A, U), U # <<>>,
         NEW l, NEW p, l = U[Len(U)].line, p = U[Len(U)].point,
         NEW b, NEW a, b = A[l][Len(A[l]) - 1], a = A[l][Len(A[l])],
         NEW M, NEW B, NEW Q, NEW V, UndoWhole(L, P, A, U, l, p, b, a, M, Q, B, V)
  PROVE  CorSeqs(M, Q, B, V) /\ WellDrawn(n, M, Q, B, V)
<1> DEFINE x == P[Len(P)].at
           y == P[p].at
           z == P[Len(P) - 1].at
           rest == SubSeq(A[l], 1, Len(A[l]) - 2)
           line == [L[l] EXCEPT ![y] = p]
           ids == ToSet(rest) \ {p}
           W == WithoutNeighbours(L[l], x, z)
<1>0. n \in Nat /\ Len(L) = n - 1 /\ Len(A) = n - 1
  BY DEF WellDrawn
<1>1. L \in Seq(Seq(Nat)) /\ A \in Seq(Seq(Nat)) /\ P \in Seq(CorPoint) /\ U \in Seq(CorMove)
  BY DEF CorSeqs, CorLines, CorPoints, CorMoves
<1>2. Len(U) \in Nat /\ Len(U) >= 1
  BY <1>1, EmptySeq
<1>3. l \in 1..n - 1 /\ UndoOn(n, l, L[l], A[l], P, U, p, x, y, z)
  <2>1. Len(U) \in 1..Len(U)
    BY <1>2
  <2>2. l \in 1..n - 1 /\ MoveOK(n, Len(U), U[Len(U)], L[l], A[l])
    BY <2>1 DEF WellDrawn
  <2>3. LineOK(n, l, L[l], P, A[l]) /\ AddonsOK(n, l, A[l], U)
    BY <2>2 DEF WellDrawn
  <2>4. n >= 4 /\ Len(P) = 2 * n - 1 + 2 * Len(U)
    BY DEF WellDrawn
  <2> QED BY <1>2, <2>2, <2>3, <2>4 DEF UndoOn
<1>x. x = P[Len(P)].at /\ y = P[p].at /\ z = P[Len(P) - 1].at
  OBVIOUS
<1> HIDE DEF x, y, z
<1>4. UndoPlace(n, l, L[l], A[l], P, p, x, y, z)
  BY <1>0, <1>3, CorUndoPlace
<1>5. /\ Len(A[l]) >= 2 /\ b = Len(P) /\ a = Len(P) - 1
      /\ L[l][x] = Len(P) /\ L[l][y] = p /\ L[l][z] = Len(P) - 1
  BY <1>4 DEF UndoPlace
<1>6. /\ Len(L[l]) \in Nat /\ Len(A[l]) \in Nat /\ Len(P) \in Nat
      /\ x \in 2..Len(L[l]) - 1 /\ y \in 2..Len(L[l]) - 1 /\ z \in 2..Len(L[l]) - 1 /\ x < y /\ y < z
      /\ p \in n + 1..Len(P) - 2
  <2> DEFINE c == L[l]
             d == A[l]
  <2>1. n \in Nat /\ l \in 1..n - 1 /\ UndoOn(n, l, c, d, P, U, p, x, y, z)
    BY <1>0, <1>3
  <2> HIDE DEF c, d
  <2>2. /\ Len(c) \in Nat /\ Len(d) \in Nat /\ Len(P) \in Nat
        /\ x \in 2..Len(c) - 1 /\ y \in 2..Len(c) - 1 /\ z \in 2..Len(c) - 1 /\ x < y /\ y < z
        /\ p \in n + 1..Len(P) - 2
    <3>1. UndoFacts(n, c, d, P, p, x, y, z)
      BY <2>1, CorUndoFound
    <3> QED BY <3>1 DEF UndoFacts
  <2> QED BY <2>2 DEF c, d
<1>7. \A i \in 1..Len(A[l]) - 2 : A[l][i] >= 2 * n /\ A[l][i] <= Len(P) - 2 /\ A[l][i] \in Nat
  BY <1>0, <1>3, CorUndoFacts
<1>8. l \in 1..Len(L) /\ l \in 1..Len(A)
  BY <1>0, <1>3
<1>9. L[l] \in Seq(Nat) /\ A[l] \in Seq(Nat)
  BY <1>1, <1>8, ElementOfSeq
<1>10. /\ rest \in Seq(Nat) /\ Len(rest) = Len(A[l]) - 2
       /\ \A i \in 1..Len(A[l]) - 2 : rest[i] = A[l][i]
       /\ Len(A[l]) = 2 => rest = <<>>
  <2> DEFINE C == A[l]
             m == Len(A[l]) - 2
  <2>1. m \in Int /\ m >= 0 /\ \A i \in 1..m : C[i] \in Nat
    BY <1>5, <1>6, <1>7
  <2>2. Len(A[l]) = 2 => m < 1
    OBVIOUS
  <2> HIDE DEF C, m
  <2>3. /\ SubSeq(C, 1, m) \in Seq(Nat)
        /\ Len(SubSeq(C, 1, m)) = IF 1 <= m THEN m - 1 + 1 ELSE 0
        /\ \A i \in 1..m - 1 + 1 : SubSeq(C, 1, m)[i] = C[1 + i - 1]
    <3>1. 1 \in Int
      OBVIOUS
    <3> QED BY <2>1, <3>1, SubSeqProperties
  <2>4. m < 1 => SubSeq(C, 1, m) = <<>>
    <3>1. 1 \in Int
      OBVIOUS
    <3> QED BY <2>1, <3>1, SubSeqEmpty
  <2>5. m - 1 + 1 = m /\ \A i \in 1..m : 1 + i - 1 = i
    BY <2>1
  <2>6. Len(SubSeq(C, 1, m)) = m /\ \A i \in 1..m : SubSeq(C, 1, m)[i] = C[i]
    BY <2>1, <2>3, <2>5
  <2> QED BY <2>2, <2>3, <2>4, <2>6 DEF C, m
<1> HIDE DEF rest
<1>11. \A q : q \in ToSet(rest) <=> Among(rest, q)
  BY <1>10, CorAmong
<1>12. line = L[l]
  <2>1. y \in 1..Len(L[l])
    BY <1>6
  <2>2. L[l] = [k \in 1..Len(L[l]) |-> L[l][k]]
    BY <1>9
  <2> QED BY <1>5, <2>1, <2>2
<1>13. W \in Seq(Nat) /\ Narrowed(L[l], W, x, z)
  <2> DEFINE c == L[l]
  <2>1. x < z
    BY <1>6
  <2>2. c \in Seq(Nat) /\ x \in 2..Len(c) - 1 /\ z \in 2..Len(c) - 1
    BY <1>6, <1>9
  <2> HIDE DEF c
  <2>3. WithoutNeighbours(c, x, z) \in Seq(Nat) /\ Narrowed(c, WithoutNeighbours(c, x, z), x, z)
    BY <2>1, <2>2, CorUndoLine
  <2> QED BY <2>3 DEF c
<1> HIDE DEF W
<1>14. ASSUME NEW q \in 1..Len(P), q \in ids PROVE P[q].at # x /\ P[q].at # z
  <2>1. PICK i \in 1..Len(rest) : q = rest[i]
    BY <1>11, <1>14 DEF Among
  <2>2. i \in 1..Len(A[l]) - 2 /\ i \in 1..Len(A[l])
    BY <1>6, <1>10
  <2>3. q = A[l][i] /\ q <= Len(P) - 2
    BY <1>7, <1>10, <2>1, <2>2
  <2>4. L[l][P[q].at] = q
    BY <1>3, <2>2, <2>3 DEF UndoOn, LineOK
  <2>5. q # Len(P) /\ q # Len(P) - 1
    <3>1. Len(P) \in Nat
      BY <1>6
    <3>2. q <= Len(P) - 2
      BY <2>3
    <3> QED BY <3>1, <3>2
  <2> QED BY <1>5, <2>4, <2>5
<1>15. /\ Q \in Seq(CorPoint) /\ Len(Q) = Len(P) - 2
       /\ \A q \in 1..Len(P) - 2 : q # p =>
            /\ Q[q].inner = P[q].inner
            /\ Q[q].at = IF q \in ids THEN OldPlace(x, z, P[q].at) ELSE P[q].at
       /\ Q[p] = Point(TRUE, y - 1)
  <2>1. Q = UndoPoints(P, ids, x, z, p, y)
    BY <1>5, <1>x DEF UndoWhole, rest
  <2>2. x \in Nat /\ z \in Nat /\ x < z /\ p \in 1..Len(P) - 2 /\ y \in Nat \ {0}
    <3>1. x \in Nat /\ z \in Nat /\ x < z /\ y \in Nat \ {0}
      BY <1>6
    <3>2. p \in 1..Len(P) - 2
      BY <1>0, <1>6
    <3> QED BY <3>1, <3>2
  <2>3. UndoPointsOf(P, ids, x, z, p, y)
    BY <1>1, <1>14, <2>2 DEF UndoPointsOf
  <2>4. UndonePoints(P, Q, ids, x, z, p, y)
    BY <2>1, <2>3, CorUndoPoints
  <2> QED BY <2>4 DEF UndonePoints
<1>16. V \in Seq(CorMove) /\ Unrecorded(U, V)
  <2>1. V = Front(U)
    BY DEF UndoWhole
  <2> DEFINE m == Len(U) - 1
  <2>2. m \in Int /\ m >= 0 /\ \A i \in 1..m : U[i] \in CorMove
    <3>1. \A i \in 1..Len(U) : U[i] \in CorMove
      BY <1>1, ElementOfSeq
    <3> QED BY <1>2, <3>1
  <2>3. V = SubSeq(U, 1, m)
    BY <2>1 DEF Front
  <2> HIDE DEF m
  <2>4. /\ SubSeq(U, 1, m) \in Seq(CorMove)
        /\ Len(SubSeq(U, 1, m)) = IF 1 <= m THEN m - 1 + 1 ELSE 0
        /\ \A i \in 1..m - 1 + 1 : SubSeq(U, 1, m)[i] = U[1 + i - 1]
    <3>1. 1 \in Int
      OBVIOUS
    <3> QED BY <2>2, <3>1, SubSeqProperties
  <2>5. m - 1 + 1 = m /\ \A i \in 1..m : 1 + i - 1 = i
    BY <2>2
  <2>6. Len(V) = m /\ \A i \in 1..m : V[i] = U[i]
    BY <2>2, <2>3, <2>4, <2>5
  <2> QED BY <2>3, <2>4, <2>6 DEF Unrecorded, m
<1>17. M \in Seq(Seq(Nat)) /\ Len(M) = Len(L) /\ M[l] = W /\ \A m \in 1..Len(L) : m # l => M[m] = L[m]
  <2>1. M = [L EXCEPT ![l] = W]
    BY <1>5, <1>12, <1>x DEF UndoWhole, W
  <2>2. L \in Seq(Seq(Nat)) /\ W \in Seq(Nat)
    BY <1>1, <1>13
  <2> QED BY <1>8, <2>1, <2>2, CorExcept
<1>18. B \in Seq(Seq(Nat)) /\ Len(B) = Len(A) /\ B[l] = rest /\ \A m \in 1..Len(A) : m # l => B[m] = A[m]
  <2>1. B = [A EXCEPT ![l] = rest]
    BY DEF UndoWhole, rest
  <2>2. A \in Seq(Seq(Nat)) /\ rest \in Seq(Nat)
    BY <1>1, <1>10
  <2> QED BY <1>8, <2>1, <2>2, CorExcept
<1>19. OthersStay(n, l, L, M, A, B)
  BY <1>0, <1>17, <1>18 DEF OthersStay
<1>20. UndoTo(L[l], A[l], P, p, x, y, z, M[l], B[l], Q)
  <2>1. Q[p].inner /\ Q[p].at = y - 1
    BY <1>15 DEF Point
  <2>2. \A q \in 1..Len(P) - 2 : q # p =>
          /\ Q[q].inner = P[q].inner
          /\ Q[q].at = IF Among(rest, q) THEN OldPlace(x, z, P[q].at) ELSE P[q].at
    BY <1>11, <1>15
  <2> QED BY <1>10, <1>13, <1>15, <1>17, <1>18, <2>1, <2>2 DEF UndoTo
<1>21. WellDrawn(n, M, Q, B, V)
  BY <1>2, <1>16, <1>19, <1>20, <1>x, CorUndoShape
<1>22. CorSeqs(M, Q, B, V)
  BY <1>15, <1>16, <1>17, <1>18 DEF CorSeqs, CorLines, CorPoints, CorMoves
<1> QED BY <1>21, <1>22

LEMMA CorMoveUndone ==
  ASSUME NEW s \in CorRecord, NEW t, t = MoveUndone(s), NEW u, u = s.undo[Len(s.undo)],
         NEW ids, ids = s.addons[u.line]
  PROVE  /\ UndoWhole(s.lines, s.pts, s.addons, s.undo, u.line, u.point, ids[Len(ids) - 1], ids[Len(ids)],
                      t.lines, t.pts, t.addons, t.undo)
         /\ t = [s EXCEPT !.lines = t.lines, !.addons = t.addons, !.pts = t.pts, !.undo = t.undo]
<1> DEFINE p == u.point
           l == u.line
           rest == SubSeq(ids, 1, Len(ids) - 2)
           x == s.pts[ids[Len(ids) - 1]].at
           z == s.pts[ids[Len(ids)]].at
           line == [s.lines[l] EXCEPT ![s.pts[p].at] = p]
           M == [s.lines EXCEPT ![l] = WithoutNeighbours(line, x, z)]
           B == [s.addons EXCEPT ![l] = rest]
           Q == UndoPoints(s.pts, ToSet(rest) \ {p}, x, z, p, s.pts[p].at)
           V == Front(s.undo)
<1>1. DOMAIN s = CorFields
  BY DEF CorRecord, CorFields
<1>2. t = [s EXCEPT !.undo = V, !.addons = B, !.lines = M, !.pts = Q]
  BY <1>1 DEF MoveUndone, UndoPoints, CorFields, Last
<1> HIDE DEF M, B, Q, V
<1>3. t.lines = M /\ t.addons = B /\ t.pts = Q /\ t.undo = V
  BY <1>1, <1>2 DEF CorFields
<1>4. t = [s EXCEPT !.lines = t.lines, !.addons = t.addons, !.pts = t.pts, !.undo = t.undo]
  BY <1>1, <1>2, <1>3 DEF CorFields
<1>5. UndoWhole(s.lines, s.pts, s.addons, s.undo, u.line, u.point, ids[Len(ids) - 1], ids[Len(ids)],
                t.lines, t.pts, t.addons, t.undo)
  BY <1>3 DEF UndoWhole, M, B, Q, V
<1> QED BY <1>4, <1>5

LEMMA CorMoveUndoneWell ==
  ASSUME NEW s, CorWhole(s), s.undo # <<>>, NEW t, t = MoveUndone(s)
  PROVE  /\ CorWhole(t)
         /\ t = [s EXCEPT !.lines = t.lines, !.addons = t.addons, !.pts = t.pts, !.undo = t.undo]
<1> DEFINE u == s.undo[Len(s.undo)]
           ids == s.addons[u.line]
           n == s.index
<1>1. s \in CorRecord /\ CorSeqs(s.lines, s.pts, s.addons, s.undo)
      /\ WellDrawn(n, s.lines, s.pts, s.addons, s.undo)
  BY DEF CorWhole
<1>2. UndoWhole(s.lines, s.pts, s.addons, s.undo, u.line, u.point, ids[Len(ids) - 1], ids[Len(ids)],
                t.lines, t.pts, t.addons, t.undo)
  BY <1>1, CorMoveUndone
<1>3. t = [s EXCEPT !.lines = t.lines, !.addons = t.addons, !.pts = t.pts, !.undo = t.undo]
  BY <1>1, CorMoveUndone
<1>4. CorSeqs(t.lines, t.pts, t.addons, t.undo) /\ WellDrawn(n, t.lines, t.pts, t.addons, t.undo)
  BY <1>1, <1>2, CorUndoAll
<1>5. t \in CorRecord /\ t.index = s.index
  <2> DEFINE M == t.lines
             B == t.addons
             Q == t.pts
             V == t.undo
  <2>1. M \in CorLines /\ B \in CorLines /\ Q \in CorPoints /\ V \in CorMoves
    BY <1>4 DEF CorSeqs
  <2>2. t = [s EXCEPT !.lines = M, !.addons = B, !.pts = Q, !.undo = V]
    BY <1>3
  <2>3. s \in CorRecord
    BY <1>1
  <2> HIDE DEF M, B, Q, V
  <2> DEFINE v == [s EXCEPT !.lines = M, !.addons = B, !.pts = Q, !.undo = V]
  <2>4. v \in CorRecord /\ v.index = s.index
    BY <2>1, <2>3 DEF CorRecord
  <2> QED BY <2>2, <2>4
<1> QED BY <1>3, <1>4, <1>5 DEF CorWhole

-----------------------------------------------------------------------------
(* The lines of a corridor just drawn.                                        *)
LEMMA CorStraightLine ==
  ASSUME NEW n \in Nat, n >= 4, NEW l \in 1..n - 1, NEW P, P[n + l] = Point(TRUE, 2)
  PROVE  LineOK(n, l, <<l, n + l, l + 1>>, P, <<>>)
<1> DEFINE L == <<l, n + l, l + 1>>
           A == <<>>
<1>1. Len(L) = 3 /\ L[1] = l /\ L[2] = n + l /\ L[3] = l + 1 /\ Len(A) = 0
  OBVIOUS
<1>2. P[n + l].inner /\ P[n + l].at = 2
  BY DEF Point
<1>3. A = <<>>
  OBVIOUS
<1> HIDE DEF L, A
<1>4. /\ Len(L) \in Nat /\ Len(A) \in Nat /\ Len(L) >= 3 /\ L[Len(L)] = l + 1
      /\ \A k \in 1..Len(L) : k = 1 \/ k = 2 \/ k = 3
      /\ l \in Nat /\ n + l \in Nat /\ l + 1 \in Nat
      /\ \A k \in 1..Len(A) : FALSE
  BY <1>1
<1>5. \A i, k \in 1..Len(L) : L[i] = L[k] => i = k
  BY <1>1, <1>4
<1>6. \A k \in 1..Len(L) : L[k] \in Nat /\ L[k] \in {l, n + l, l + 1}
  BY <1>1, <1>4
<1>7. \E k \in 1..Len(L) : L[k] = n + l
  BY <1>1
<1>8. LineOK(n, l, L, P, A)
  BY <1>1, <1>2, <1>3, <1>4, <1>5, <1>6, <1>7 DEF LineOK
<1> QED BY <1>8 DEF L, A

JustEnded(n, L, P, Q, A, U) ==
  /\ Len(P) = n /\ \A k \in 1..n : ~P[k].inner
  /\ Len(Q) = 2 * n - 1 /\ \A k \in 1..n : Q[k] = P[k]
  /\ \A k \in 1..n - 1 : Q[n + k] = Point(TRUE, 2)
  /\ Len(L) = n - 1 /\ \A l \in 1..n - 1 : L[l] = <<l, n + l, l + 1>>
  /\ Len(A) = n - 1 /\ \A l \in 1..n - 1 : A[l] = <<>>
  /\ U = <<>>

LEMMA CorJustEnded ==
  ASSUME NEW n \in Nat, n >= 4, NEW L, NEW P, NEW Q, NEW A, NEW U, JustEnded(n, L, P, Q, A, U)
  PROVE  WellDrawn(n, L, Q, A, U)
<1>1. /\ Len(P) = n /\ \A k \in 1..n : ~P[k].inner
      /\ Len(Q) = 2 * n - 1 /\ \A k \in 1..n : Q[k] = P[k]
  BY DEF JustEnded
<1>2. Len(L) = n - 1 /\ Len(A) = n - 1 /\ Len(U) = 0
  <2>1. Len(<<>>) = 0
    OBVIOUS
  <2> QED BY <2>1 DEF JustEnded
<1>3. ASSUME NEW l \in 1..n - 1
      PROVE  LineOK(n, l, L[l], Q, A[l]) /\ AddonsOK(n, l, A[l], U)
  <2>1. L[l] = <<l, n + l, l + 1>> /\ A[l] = <<>> /\ Q[n + l] = Point(TRUE, 2)
    BY DEF JustEnded
  <2>2. LineOK(n, l, <<l, n + l, l + 1>>, Q, <<>>)
    BY <2>1, CorStraightLine
  <2>3. AddonsOK(n, l, <<>>, U)
    <3>1. Len(<<>>) = 0
      OBVIOUS
    <3> DEFINE C == <<>>
    <3>2. Len(C) \in Nat /\ Len(U) \in Nat /\ \A k \in 1..Len(C) : FALSE
      BY <1>2, <3>1
    <3> HIDE DEF C
    <3>3. AddonsOK(n, l, C, U)
      BY <3>2 DEF AddonsOK
    <3> QED BY <3>3 DEF C
  <2> QED BY <2>1, <2>2, <2>3
<1>4. \A j \in 1..Len(U) : FALSE
  BY <1>2
<1>5. Len(U) \in Nat /\ Len(Q) = 2 * n - 1 + 2 * Len(U) /\ \A k \in 1..n : ~Q[k].inner
  BY <1>1, <1>2
<1> QED BY <1>2, <1>3, <1>4, <1>5 DEF WellDrawn

(* The points and the lines that end a corridor.                              *)
LEMMA CorEndedSeqs ==
  ASSUME NEW P \in Seq(CorPoint), NEW n, n = Len(P), n >= 4, \A k \in 1..n : ~P[k].inner,
         NEW L, L = <<>> \o Straight(n), NEW Q, Q = P \o [k \in 1..Segments(n) |-> Point(TRUE, 2)],
         NEW A, A = [k \in 1..Segments(n) |-> <<>>], NEW U, U = <<>>
  PROVE  CorSeqs(L, Q, A, U) /\ JustEnded(n, L, P, Q, A, U)
<1> DEFINE m == n - 1
           E == [k \in 1..m |-> Point(TRUE, 2)]
<1>1. n \in Nat /\ m \in Nat /\ Segments(n) = m
  BY LenProperties DEF Segments
<1>2. Point(TRUE, 2) \in CorPoint
  BY DEF Point, CorPoint
<1>3. E \in Seq(CorPoint) /\ Len(E) = m /\ \A k \in 1..m : E[k] = Point(TRUE, 2)
  <2> DEFINE e == Point(TRUE, 2)
  <2>1. e \in CorPoint /\ m \in Nat
    BY <1>1, <1>2
  <2> HIDE DEF m, e
  <2>2. [k \in 1..m |-> e] \in Seq(CorPoint)
    BY <2>1
  <2>3. Len([k \in 1..m |-> e]) = m /\ \A k \in 1..m : [h \in 1..m |-> e][k] = e
    BY <2>1
  <2> QED BY <2>2, <2>3 DEF e
<1>4. Q = P \o E
  BY <1>1
<1> HIDE DEF E
<1>5. /\ P \o E \in Seq(CorPoint) /\ Len(P \o E) = Len(P) + Len(E)
      /\ \A k \in 1..Len(P) + Len(E) : (P \o E)[k] = IF k <= Len(P) THEN P[k] ELSE E[k - Len(P)]
  BY <1>3, ConcatProperties
<1>6. Len(Q) = 2 * n - 1 /\ \A k \in 1..n : Q[k] = P[k]
  <2>1. Len(P) + Len(E) = 2 * n - 1 /\ \A k \in 1..n : k \in 1..Len(P) + Len(E) /\ k <= Len(P)
    BY <1>1, <1>3
  <2> QED BY <1>4, <1>5, <2>1
<1>7. ASSUME NEW k \in 1..n - 1 PROVE Q[n + k] = Point(TRUE, 2)
  <2>1. n + k \in 1..Len(P) + Len(E) /\ ~(n + k <= Len(P)) /\ n + k - Len(P) = k /\ k \in 1..m
    BY <1>1, <1>3
  <2>2. (P \o E)[n + k] = E[n + k - Len(P)]
    BY <1>5, <2>1
  <2>3. E[n + k - Len(P)] = E[k] /\ E[k] = Point(TRUE, 2)
    BY <1>3, <2>1
  <2> QED BY <1>4, <2>2, <2>3
<1>8. /\ Straight(n) \in Seq(Seq(Nat)) /\ Len(Straight(n)) = m
      /\ \A l \in 1..m : Straight(n)[l] = <<l, n + l, l + 1>>
  <2>1. Straight(n) = [l \in 1..m |-> <<l, n + l, l + 1>>]
    BY <1>1 DEF Straight
  <2>2. ASSUME NEW l \in 1..m PROVE <<l, n + l, l + 1>> \in Seq(Nat)
    <3>1. l \in Nat /\ n + l \in Nat /\ l + 1 \in Nat
      BY <1>1
    <3> QED BY <3>1
  <2> HIDE DEF m
  <2> QED BY <1>1, <2>1, <2>2
<1>9. L = Straight(n)
  BY <1>8, ConcatEmptySeq
<1>10. A \in Seq(Seq(Nat)) /\ Len(A) = m /\ \A l \in 1..m : A[l] = <<>>
  <2>1. A = [k \in 1..m |-> <<>>]
    BY <1>1
  <2>2. <<>> \in Seq(Nat)
    OBVIOUS
  <2> HIDE DEF m
  <2> QED BY <1>1, <2>1, <2>2
<1>11. U \in Seq(CorMove)
  OBVIOUS
<1>12. CorSeqs(L, Q, A, U)
  BY <1>4, <1>5, <1>8, <1>9, <1>10, <1>11 DEF CorSeqs, CorLines, CorPoints, CorMoves
<1>13. JustEnded(n, L, P, Q, A, U)
  BY <1>6, <1>7, <1>8, <1>9, <1>10 DEF JustEnded
<1> QED BY <1>12, <1>13

-----------------------------------------------------------------------------
(* What the steps make of the record while end points are clicked.            *)
LEMMA CorEmpty ==
  /\ <<>> \in CorLines /\ <<>> \in CorMoves /\ <<>> \in CorPoints /\ NoMove \in CorMove
  /\ EndPoint \in CorPoint /\ ~EndPoint.inner
  /\ <<EndPoint>> \in CorPoints /\ Len(<<EndPoint>>) = 1 /\ <<EndPoint>>[1] = EndPoint
<1>1. EndPoint \in CorPoint /\ ~EndPoint.inner
  BY DEF EndPoint, Point, CorPoint
<1>2. NoMove \in CorMove
  BY DEF NoMove, CorMove
<1>3. <<>> \in CorLines /\ <<>> \in CorMoves /\ <<>> \in CorPoints
  BY DEF CorLines, CorMoves, CorPoints
<1>4. <<EndPoint>> \in CorPoints /\ Len(<<EndPoint>>) = 1 /\ <<EndPoint>>[1] = EndPoint
  BY <1>1 DEF CorPoints
<1> QED BY <1>1, <1>2, <1>3, <1>4

LEMMA CorNew ==
  ASSUME NEW s \in CorRecord, s.lines = <<>>, s.undoes = "ends", ~s.saving, NEW c
  PROVE  CorOK(New(s), c)
<1> DEFINE e == <<>>
           P == <<EndPoint>>
           t == New(s)
<1>1. /\ e \in CorLines /\ e \in CorMoves /\ NoMove \in CorMove
      /\ P \in CorPoints /\ Len(P) = 1 /\ \A k \in 1..Len(P) : ~P[k].inner
  <2>1. /\ e \in CorLines /\ e \in CorMoves /\ NoMove \in CorMove
        /\ P \in CorPoints /\ Len(P) = 1 /\ P[1] = EndPoint /\ ~EndPoint.inner
    BY CorEmpty
  <2> HIDE DEF P, e
  <2>2. \A k \in 1..Len(P) : k = 1
    BY <2>1
  <2> QED BY <2>1, <2>2
<1>2. t = [s EXCEPT !.handlers = "ends", !.drawing = TRUE, !.index = 0, !.add = FALSE,
            !.continue = FALSE, !.end = FALSE, !.moving = FALSE, !.pts = P,
            !.addons = e, !.undo = e, !.point = NoMove, !.undoOn = FALSE, !.saveOn = FALSE]
  BY DEF New
<1> HIDE DEF P
<1>3. e = <<>>
  OBVIOUS
<1> HIDE DEF e
<1>4. t \in CorRecord
  <2> DEFINE u == [s EXCEPT !.handlers = "ends", !.drawing = TRUE, !.index = 0, !.add = FALSE,
                            !.continue = FALSE, !.end = FALSE, !.moving = FALSE]
             v == [u EXCEPT !.pts = P, !.addons = e, !.undo = e, !.point = NoMove,
                            !.undoOn = FALSE, !.saveOn = FALSE]
  <2>1. t = v
    BY <1>2
  <2>2. u \in CorRecord
    BY DEF CorRecord
  <2> HIDE DEF u, t
  <2>3. v \in CorRecord
    BY <1>1, <2>2 DEF CorRecord
  <2> QED BY <2>1, <2>3
<1>5. /\ t.handlers = "ends" /\ t.undoes = "ends" /\ t.lines = e /\ ~t.saveOn /\ ~t.moving /\ ~t.saving
      /\ t.undo = e /\ t.pts = P /\ ~t.add /\ t.index = 0 /\ ~t.undoOn /\ t.point = NoMove
  <2>1. DOMAIN s = CorFields
    BY DEF CorRecord, CorFields
  <2> HIDE DEF t
  <2> QED BY <1>2, <1>3, <2>1 DEF CorFields
<1> HIDE DEF t
<1>6. Placing(t) /\ 0 + 1 = 1
  BY <1>5 DEF Placing
<1>7. Len(t.pts) = t.index + (IF Placing(t) THEN 1 ELSE 0)
  BY <1>1, <1>5, <1>6
<1>8. EndsClicked(t)
  BY <1>1, <1>3, <1>5, <1>7 DEF EndsClicked
<1>9. CorIdle(t) /\ InnerDragged(t, c)
  BY <1>5 DEF CorIdle, InnerDragged
<1> QED BY <1>4, <1>8, <1>9 DEF CorOK, t

(* Points of which none is an inner one, and one more end point.              *)
LEMMA CorAppendEnd ==
  ASSUME NEW P \in CorPoints, \A k \in 1..Len(P) : ~P[k].inner, NEW Q, Q = Append(P, EndPoint)
  PROVE  Q \in CorPoints /\ Len(Q) = Len(P) + 1 /\ \A k \in 1..Len(Q) : ~Q[k].inner
<1>1. P \in Seq(CorPoint)
  BY DEF CorPoints
<1>2. EndPoint \in CorPoint /\ ~EndPoint.inner
  BY CorEmpty
<1>3. /\ Q \in Seq(CorPoint) /\ Len(Q) = Len(P) + 1 /\ \A k \in 1..Len(P) : Q[k] = P[k]
      /\ Q[Len(P) + 1] = EndPoint
  BY <1>1, <1>2, AppendProperties
<1>4. Len(P) \in Nat
  BY <1>1, LenProperties
<1>5. ASSUME NEW k \in 1..Len(Q) PROVE ~Q[k].inner
  <2>1. k \in 1..Len(P) \/ k = Len(P) + 1
    BY <1>3, <1>4
  <2> QED BY <1>2, <1>3, <2>1
<1> QED BY <1>3, <1>5 DEF CorPoints

LEMMA CorLen ==
  ASSUME NEW s \in CorRecord
  PROVE  Len(s.pts) \in Nat /\ s.index \in Nat /\ s.pts \in CorPoints /\ s.add \in BOOLEAN
<1>1. s.pts \in CorPoints /\ s.index \in Nat /\ s.add \in BOOLEAN
  BY DEF CorRecord
<1>2. s.pts \in Seq(CorPoint)
  BY <1>1 DEF CorPoints
<1> QED BY <1>1, <1>2, LenProperties

LEMMA CorPlaced ==
  ASSUME NEW s, NEW c, CorOK(s, c), s.handlers = "ends", Placing(s)
  PROVE  CorOK(Placed(s), c)
<1> DEFINE t == Placed(s)
           near == s.index + 1 < 4
           P == IF near THEN Append(s.pts, EndPoint) ELSE s.pts
           i == s.index + 1
           add == IF near THEN s.add ELSE FALSE
           cont == IF near THEN s.continue ELSE TRUE
<1>1. s \in CorRecord
  BY DEF CorOK
<1>2. /\ s.undoes = "ends" /\ s.lines = <<>> /\ ~s.saveOn /\ ~s.moving /\ ~s.saving /\ s.undo = <<>>
      /\ \A k \in 1..Len(s.pts) : ~s.pts[k].inner
      /\ s.add => s.index >= 4
      /\ s.point = NoMove \/ s.stale
      /\ Len(s.pts) = s.index + 1
  BY DEF CorOK, EndsClicked
<1>3. Len(s.pts) \in Nat /\ s.index \in Nat /\ s.pts \in CorPoints /\ s.add \in BOOLEAN
  BY <1>1, CorLen
<1>4. P \in CorPoints /\ \A k \in 1..Len(P) : ~P[k].inner
  BY <1>2, <1>3, CorAppendEnd
<1>5. Len(P) = i + (IF near THEN 1 ELSE 0)
  <2>1. CASE near
    <3>1. Len(Append(s.pts, EndPoint)) = Len(s.pts) + 1
      BY <1>2, <1>3, CorAppendEnd
    <3> QED BY <1>2, <1>3, <2>1, <3>1
  <2>2. CASE ~near
    BY <1>2, <1>3, <2>2
  <2> QED BY <2>1, <2>2
<1>6. i \in Nat /\ i >= 1 /\ (near <=> i < 4) /\ add = FALSE /\ add \in BOOLEAN
  <2>1. i \in Nat /\ i >= 1 /\ (near <=> i < 4)
    BY <1>3
  <2>2. near => s.add = FALSE
    <3>1. near => ~(s.index >= 4)
      BY <1>3
    <3> QED BY <1>2, <1>3, <3>1
  <2>3. add = FALSE
    <3> HIDE DEF near
    <3> QED BY <2>2
  <2> HIDE DEF near, add, i
  <2> QED BY <2>1, <2>3
<1>7. cont \in BOOLEAN
  BY <1>1 DEF CorRecord
<1>8. t = [s EXCEPT !.index = i, !.undoOn = TRUE, !.pts = P, !.add = add, !.continue = cont]
  BY <1>1 DEF Placed, CorRecord
<1> HIDE DEF P, i, add, cont, near, t
<1>9. t \in CorRecord
  <2> DEFINE u == [s EXCEPT !.index = i, !.undoOn = TRUE, !.pts = P, !.add = add, !.continue = cont]
  <2>1. u \in CorRecord
    BY <1>1, <1>4, <1>6, <1>7 DEF CorRecord
  <2> QED BY <1>8, <2>1
<1>10. /\ t.handlers = "ends" /\ t.undoes = s.undoes /\ t.lines = s.lines /\ t.saveOn = s.saveOn
       /\ t.moving = s.moving /\ t.saving = s.saving /\ t.undo = s.undo /\ t.pts = P /\ t.add = FALSE
       /\ t.index = i /\ t.point = s.point /\ t.stale = s.stale
  <2>1. DOMAIN s = CorFields
    BY <1>1 DEF CorRecord, CorFields
  <2> QED BY <1>6, <1>8, <2>1 DEF CorFields
<1>11. Placing(t) <=> near
  BY <1>6, <1>10 DEF Placing
<1>12. EndsClicked(t)
  BY <1>2, <1>4, <1>5, <1>6, <1>10, <1>11 DEF EndsClicked
<1>13. CorIdle(t) /\ InnerDragged(t, c)
  BY <1>10 DEF CorIdle, InnerDragged
<1> QED BY <1>9, <1>12, <1>13 DEF CorOK, t

LEMMA CorContinued ==
  ASSUME NEW s, NEW c, CorOK(s, c), s.handlers = "ends", ~Placing(s)
  PROVE  CorOK(Continued(s), c)
<1> DEFINE t == Continued(s)
           P == Append(s.pts, EndPoint)
<1>1. s \in CorRecord
  BY DEF CorOK
<1>2. /\ s.undoes = "ends" /\ s.lines = <<>> /\ ~s.saveOn /\ ~s.moving /\ ~s.saving /\ s.undo = <<>>
      /\ \A k \in 1..Len(s.pts) : ~s.pts[k].inner
      /\ s.undoOn => s.index >= 1
      /\ s.point = NoMove \/ s.stale
      /\ Len(s.pts) = s.index
  <2>1. /\ s.undoes = "ends" /\ s.lines = <<>> /\ ~s.saveOn /\ ~s.moving /\ ~s.saving /\ s.undo = <<>>
        /\ \A k \in 1..Len(s.pts) : ~s.pts[k].inner
        /\ s.undoOn => s.index >= 1
        /\ s.point = NoMove \/ s.stale
        /\ Len(s.pts) = s.index + 0
    BY DEF CorOK, EndsClicked
  <2>2. s.index \in Nat
    BY <1>1, CorLen
  <2> QED BY <2>1, <2>2
<1>3. Len(s.pts) \in Nat /\ s.index \in Nat /\ s.pts \in CorPoints
  BY <1>1, CorLen
<1>4. P \in CorPoints /\ Len(P) = Len(s.pts) + 1 /\ \A k \in 1..Len(P) : ~P[k].inner
  BY <1>2, <1>3, CorAppendEnd
<1>5. s.index >= 4
  BY <1>3 DEF Placing
<1>6. t = [s EXCEPT !.pts = P, !.continue = FALSE, !.add = TRUE]
  BY <1>1 DEF Continued, CorRecord
<1> HIDE DEF P, t
<1>7. t \in CorRecord
  <2> DEFINE u == [s EXCEPT !.pts = P, !.continue = FALSE, !.add = TRUE]
  <2>1. u \in CorRecord
    BY <1>1, <1>4 DEF CorRecord
  <2> QED BY <1>6, <2>1
<1>8. /\ t.handlers = "ends" /\ t.undoes = s.undoes /\ t.lines = s.lines /\ t.saveOn = s.saveOn
      /\ t.moving = s.moving /\ t.saving = s.saving /\ t.undo = s.undo /\ t.pts = P /\ t.add = TRUE
      /\ t.index = s.index /\ t.point = s.point /\ t.stale = s.stale /\ t.undoOn = s.undoOn
  <2>1. DOMAIN s = CorFields
    BY <1>1 DEF CorRecord, CorFields
  <2> QED BY <1>6, <2>1 DEF CorFields
<1>9. Placing(t)
  BY <1>8 DEF Placing
<1>10. EndsClicked(t)
  BY <1>2, <1>4, <1>5, <1>8, <1>9 DEF EndsClicked
<1>11. CorIdle(t) /\ InnerDragged(t, c)
  BY <1>8 DEF CorIdle, InnerDragged
<1> QED BY <1>7, <1>10, <1>11 DEF CorOK, t

(* The pointer nears an end point.                                            *)
LEMMA CorNear ==
  ASSUME NEW s, NEW c, CorOK(s, c), s.handlers = "ends", NEW x \in BOOLEAN, NEW y \in BOOLEAN
  PROVE  CorOK([s EXCEPT !.continue = x, !.end = y], c)
<1> DEFINE t == [s EXCEPT !.continue = x, !.end = y]
<1>1. s \in CorRecord /\ EndsClicked(s)
  BY DEF CorOK
<1>2. t \in CorRecord
  BY <1>1 DEF CorRecord
<1>3. /\ t.handlers = "ends" /\ t.undoes = s.undoes /\ t.lines = s.lines /\ t.saveOn = s.saveOn
      /\ t.moving = s.moving /\ t.saving = s.saving /\ t.undo = s.undo /\ t.pts = s.pts /\ t.add = s.add
      /\ t.index = s.index /\ t.point = s.point /\ t.stale = s.stale /\ t.undoOn = s.undoOn
  <2>1. DOMAIN s = CorFields
    BY <1>1 DEF CorRecord, CorFields
  <2> QED BY <2>1 DEF CorFields
<1> HIDE DEF t
<1>4. Placing(t) <=> Placing(s)
  BY <1>3 DEF Placing
<1>5. EndsClicked(t)
  BY <1>1, <1>3, <1>4 DEF EndsClicked
<1>6. CorIdle(t) /\ InnerDragged(t, c)
  BY <1>3 DEF CorIdle, InnerDragged
<1> QED BY <1>2, <1>5, <1>6 DEF CorOK, t

(* The last end point is clicked again, and the lines are drawn.              *)
LEMMA CorEnded ==
  ASSUME NEW s, NEW c, CorOK(s, c), s.handlers = "ends", ~Placing(s)
  PROVE  CorOK(Ended(s), c)
<1> DEFINE t == Ended(s)
           n == Len(s.pts)
           L == s.lines \o Straight(n)
           Q == s.pts \o [k \in 1..Segments(n) |-> Point(TRUE, 2)]
           A == [k \in 1..Segments(n) |-> <<>>]
           U == s.undo
<1>1. s \in CorRecord
  BY DEF CorOK
<1>2. /\ s.lines = <<>> /\ ~s.moving /\ ~s.saving /\ U = <<>>
      /\ \A k \in 1..Len(s.pts) : ~s.pts[k].inner
      /\ s.point = NoMove \/ s.stale
      /\ n = s.index + 0
  BY DEF CorOK, EndsClicked
<1>3. n \in Nat /\ s.index \in Nat /\ s.pts \in Seq(CorPoint) /\ s.add \in BOOLEAN
  BY <1>1, CorLen DEF CorPoints
<1>4. n = s.index /\ n >= 4 /\ ~s.add
  BY <1>2, <1>3 DEF Placing
<1>5. CorSeqs(L, Q, A, U) /\ JustEnded(n, L, s.pts, Q, A, U)
  <2> DEFINE K == <<>> \o Straight(n)
  <2>1. K = L
    BY <1>2
  <2> HIDE DEF L, Q, A, U
  <2>2. Q = s.pts \o [k \in 1..Segments(n) |-> Point(TRUE, 2)] /\ A = [k \in 1..Segments(n) |-> <<>>]
    BY DEF Q, A
  <2> QED BY <1>2, <1>3, <1>4, <2>1, <2>2, CorEndedSeqs
<1>6. WellDrawn(n, L, Q, A, U)
  BY <1>3, <1>4, <1>5, CorJustEnded
<1>7. L \in CorLines /\ Q \in CorPoints /\ A \in CorLines
  BY <1>5 DEF CorSeqs
<1>8. t = [s EXCEPT !.lines = L, !.pts = Q, !.addons = A, !.handlers = "inner", !.saveOn = TRUE,
                    !.undoes = "inner"]
  <2>1. DOMAIN s = CorFields
    BY <1>1 DEF CorRecord, CorFields
  <2> QED BY <2>1 DEF Ended, CorFields
<1> HIDE DEF L, Q, A, t
<1>9. t \in CorRecord
  <2> DEFINE u == [s EXCEPT !.lines = L, !.pts = Q, !.addons = A, !.handlers = "inner", !.saveOn = TRUE,
                            !.undoes = "inner"]
  <2>1. u \in CorRecord
    BY <1>1, <1>7 DEF CorRecord
  <2> QED BY <1>8, <2>1
<1>10. /\ t.handlers = "inner" /\ t.undoes = "inner" /\ t.lines = L /\ t.pts = Q /\ t.addons = A
       /\ t.undo = s.undo /\ t.saveOn = TRUE /\ t.moving = s.moving /\ t.saving = s.saving
       /\ t.add = s.add /\ t.index = s.index /\ t.point = s.point /\ t.stale = s.stale
  <2>1. DOMAIN s = CorFields
    BY <1>1 DEF CorRecord, CorFields
  <2> QED BY <1>8, <2>1 DEF CorFields
<1>11. InnerDragged(t, c)
  BY <1>2, <1>4, <1>6, <1>10 DEF InnerDragged
<1>12. CorIdle(t) /\ EndsClicked(t)
  BY <1>10 DEF CorIdle, EndsClicked
<1> QED BY <1>9, <1>11, <1>12 DEF CorOK, t

LEMMA CorPrefix ==
  ASSUME NEW P \in CorPoints, NEW m \in 0..Len(P)
  PROVE  SubSeq(P, 1, m) \in CorPoints /\ Len(SubSeq(P, 1, m)) = m /\ \A k \in 1..m : SubSeq(P, 1, m)[k] = P[k]
<1>1. P \in Seq(CorPoint)
  BY DEF CorPoints
<1>2. Len(P) \in Nat
  BY <1>1, LenProperties
<1>3. m \in Int /\ m >= 0 /\ 1 \in Int /\ m - 1 + 1 = m /\ \A k \in 1..m : 1 + k - 1 = k
  BY <1>2
<1>4. \A k \in 1..m : P[k] \in CorPoint
  <2>1. \A k \in 1..Len(P) : P[k] \in CorPoint
    BY <1>1, ElementOfSeq
  <2> QED BY <1>2, <2>1
<1>5. /\ SubSeq(P, 1, m) \in Seq(CorPoint)
      /\ Len(SubSeq(P, 1, m)) = IF 1 <= m THEN m - 1 + 1 ELSE 0
      /\ \A k \in 1..m - 1 + 1 : SubSeq(P, 1, m)[k] = P[1 + k - 1]
  BY <1>3, <1>4, SubSeqProperties
<1>6. Len(SubSeq(P, 1, m)) = m /\ \A k \in 1..m : SubSeq(P, 1, m)[k] = P[k]
  BY <1>3, <1>5
<1> QED BY <1>5, <1>6 DEF CorPoints

(* The undo button marks the point under the pointer as chosen before.        *)
LEMMA CorStale ==
  ASSUME NEW s, NEW c, CorOK(s, c), s.handlers = "ends", NEW x \in BOOLEAN, s.point = NoMove \/ x
  PROVE  CorOK([s EXCEPT !.stale = x], c)
<1> DEFINE t == [s EXCEPT !.stale = x]
<1>1. s \in CorRecord /\ EndsClicked(s)
  BY DEF CorOK
<1>2. t \in CorRecord
  BY <1>1 DEF CorRecord
<1>3. /\ t.handlers = "ends" /\ t.undoes = s.undoes /\ t.lines = s.lines /\ t.saveOn = s.saveOn
      /\ t.moving = s.moving /\ t.saving = s.saving /\ t.undo = s.undo /\ t.pts = s.pts /\ t.add = s.add
      /\ t.index = s.index /\ t.point = s.point /\ t.stale = x /\ t.undoOn = s.undoOn
  <2>1. DOMAIN s = CorFields
    BY <1>1 DEF CorRecord, CorFields
  <2> QED BY <2>1 DEF CorFields
<1> HIDE DEF t
<1>4. Placing(t) <=> Placing(s)
  BY <1>3 DEF Placing
<1>5. EndsClicked(t)
  BY <1>1, <1>3, <1>4 DEF EndsClicked
<1>6. CorIdle(t) /\ InnerDragged(t, c)
  BY <1>3 DEF CorIdle, InnerDragged
<1> QED BY <1>2, <1>5, <1>6 DEF CorOK, t

(* An end point undone.                                                       *)
LEMMA CorEndUndone ==
  ASSUME NEW s, NEW c, CorOK(s, c), s.handlers = "ends", s.undoOn
  PROVE  CorOK(EndUndone(s), c) /\ EndUndone(s).handlers = "ends"
         /\ (EndUndone(s).point = NoMove \/ s.point # NoMove)
<1> DEFINE t == EndUndone(s)
           i == s.index - 1
           short == Front(s.pts)
           again == ~s.add /\ i = 3
           P == IF again THEN Append(short, EndPoint) ELSE short
           x == IF s.add THEN i + 1 ELSE i
<1>1. s \in CorRecord
  BY DEF CorOK
<1>2. /\ s.undoes = "ends" /\ s.lines = <<>> /\ ~s.saveOn /\ ~s.moving /\ ~s.saving /\ s.undo = <<>>
      /\ \A k \in 1..Len(s.pts) : ~s.pts[k].inner
      /\ s.add => s.index >= 4
      /\ s.index >= 1
      /\ s.point = NoMove \/ s.stale
  BY DEF CorOK, EndsClicked
<1>3. Len(s.pts) = s.index + (IF Placing(s) THEN 1 ELSE 0)
  BY DEF CorOK, EndsClicked
<1>4. Len(s.pts) \in Nat /\ s.index \in Nat /\ s.pts \in CorPoints /\ s.add \in BOOLEAN
  BY <1>1, CorLen
<1>5. DOMAIN s = CorFields
  BY <1>1 DEF CorRecord, CorFields
<1>6. CASE i = 0
  <2>1. t = New(s)
    BY <1>6 DEF EndUndone
  <2>2. CorOK(New(s), c)
    BY <1>1, <1>2, CorNew
  <2>3. New(s).handlers = "ends" /\ New(s).point = NoMove
    BY <1>5 DEF New, CorFields
  <2> QED BY <2>1, <2>2, <2>3
<1>7. CASE i # 0
  <2>1. short \in CorPoints /\ Len(short) = Len(s.pts) - 1 /\ \A k \in 1..Len(short) : ~short[k].inner
    <3> DEFINE m == Len(s.pts) - 1
    <3>1. m \in 0..Len(s.pts) /\ \A k \in 1..m : k \in 1..Len(s.pts)
      <4>1. s.index + (IF Placing(s) THEN 1 ELSE 0) >= 1
        BY <1>2, <1>4
      <4> QED BY <1>3, <1>4, <4>1
    <3> HIDE DEF m
    <3>2. /\ SubSeq(s.pts, 1, m) \in CorPoints /\ Len(SubSeq(s.pts, 1, m)) = m
          /\ \A k \in 1..m : SubSeq(s.pts, 1, m)[k] = s.pts[k]
      BY <1>4, <3>1, CorPrefix
    <3>3. short = SubSeq(s.pts, 1, m)
      BY DEF Front, m
    <3>4. \A k \in 1..m : ~SubSeq(s.pts, 1, m)[k].inner
      BY <1>2, <3>1, <3>2
    <3> HIDE DEF short
    <3> QED BY <3>2, <3>3, <3>4 DEF m
  <2> HIDE DEF short
  <2>2. P \in CorPoints /\ \A k \in 1..Len(P) : ~P[k].inner
    BY <2>1, CorAppendEnd
  <2>3. Len(P) = Len(s.pts) - 1 + (IF again THEN 1 ELSE 0)
    <3>1. CASE again
      <4>1. Len(Append(short, EndPoint)) = Len(short) + 1
        BY <2>1, CorAppendEnd
      <4> QED BY <2>1, <3>1, <4>1
    <3>2. CASE ~again
      <4>1. P = short
        BY <3>2
      <4>2. (IF again THEN 1 ELSE 0) = 0
        BY <3>2
      <4>3. Len(short) = Len(s.pts) - 1 /\ Len(s.pts) \in Nat
        BY <1>4, <2>1
      <4>4. Len(P) = Len(s.pts) - 1 + 0
        <5> HIDE DEF P, again
        <5> QED BY <4>1, <4>3
      <4> HIDE DEF P, again
      <4> QED BY <4>2, <4>4
    <3> QED BY <3>1, <3>2
  <2>4. x \in Nat /\ x >= 1
    BY <1>2, <1>4, <1>7
  <2>5. t = [s EXCEPT !.index = x, !.add = FALSE, !.pts = P]
    BY <1>5, <1>7 DEF EndUndone, CorFields, short
  <2>6. Len(P) = x + (IF x < 4 THEN 1 ELSE 0)
    <3>1. CASE s.add
      <4>1. ~again /\ x = s.index /\ s.index >= 4 /\ Placing(s)
        BY <1>2, <1>4, <3>1 DEF Placing
      <4>2. ~(x < 4) /\ Len(s.pts) = s.index + 1
        BY <1>3, <1>4, <4>1
      <4>3. Len(P) = Len(s.pts) - 1 + 0
        BY <2>3, <4>1
      <4> HIDE DEF P, x, again
      <4> QED BY <1>4, <4>1, <4>2, <4>3
    <3>2. CASE ~s.add /\ s.index < 4
      <4>1. ~again /\ x = s.index - 1 /\ x < 4 /\ Placing(s)
        BY <1>4, <3>2 DEF Placing
      <4>2. Len(s.pts) = s.index + 1
        BY <1>3, <4>1
      <4>3. Len(P) = Len(s.pts) - 1 + 0
        BY <2>3, <4>1
      <4> HIDE DEF P, x, again
      <4> QED BY <1>4, <4>1, <4>2, <4>3
    <3>3. CASE ~s.add /\ s.index = 4
      <4>1. again /\ x = 3 /\ ~Placing(s)
        BY <1>4, <3>3 DEF Placing
      <4>2. Len(s.pts) = 4
        BY <1>3, <3>3, <4>1
      <4>3. Len(P) = Len(s.pts) - 1 + 1
        BY <2>3, <4>1
      <4> HIDE DEF P, x, again
      <4> QED BY <4>1, <4>2, <4>3
    <3>4. CASE ~s.add /\ s.index > 4
      <4>1. ~again /\ x = s.index - 1 /\ ~(x < 4) /\ ~Placing(s)
        BY <1>4, <3>4 DEF Placing
      <4>2. Len(s.pts) = s.index + 0
        BY <1>3, <4>1
      <4>3. Len(P) = Len(s.pts) - 1 + 0
        BY <2>3, <4>1
      <4> HIDE DEF P, x, again
      <4> QED BY <1>4, <4>1, <4>2, <4>3
    <3> QED BY <1>4, <3>1, <3>2, <3>3, <3>4
  <2> HIDE DEF P, x, t
  <2>7. t \in CorRecord
    <3> DEFINE u == [s EXCEPT !.index = x, !.add = FALSE, !.pts = P]
    <3>1. u \in CorRecord
      BY <1>1, <2>2, <2>4 DEF CorRecord
    <3> QED BY <2>5, <3>1
  <2>8. /\ t.handlers = "ends" /\ t.undoes = s.undoes /\ t.lines = s.lines /\ t.saveOn = s.saveOn
        /\ t.moving = s.moving /\ t.saving = s.saving /\ t.undo = s.undo /\ t.pts = P /\ t.add = FALSE
        /\ t.index = x /\ t.point = s.point /\ t.stale = s.stale /\ t.undoOn = s.undoOn
    BY <1>5, <2>5 DEF CorFields
  <2>9. Placing(t) <=> x < 4
    BY <2>8 DEF Placing
  <2>10. EndsClicked(t)
    BY <1>2, <2>2, <2>4, <2>6, <2>8, <2>9 DEF EndsClicked
  <2>11. CorIdle(t) /\ InnerDragged(t, c)
    BY <2>8 DEF CorIdle, InnerDragged
  <2>12. CorOK(t, c) /\ t.handlers = "ends" /\ (t.point = NoMove \/ s.point # NoMove)
    BY <2>7, <2>8, <2>10, <2>11 DEF CorOK
  <2> QED BY <2>12 DEF t
<1> QED BY <1>6, <1>7

(* Back to the end points.                                                    *)
LEMMA CorBack ==
  ASSUME NEW s, NEW c, CorOK(s, c), s.handlers = "inner", s.undo = <<>>, ~s.moving, NEW d,
         NEW x \in BOOLEAN, s.point = NoMove \/ x
  PROVE  CorOK([BackToEnds(s) EXCEPT !.stale = x], d)
<1> DEFINE t == [BackToEnds(s) EXCEPT !.stale = x]
           P == SubSeq(s.pts, 1, s.index)
           e == <<>>
<1>1. s \in CorRecord
  BY DEF CorOK
<1>2. ~s.add /\ ~s.saving /\ WellDrawn(s.index, s.lines, s.pts, s.addons, s.undo)
  BY DEF CorOK, InnerDragged
<1>3. Len(s.pts) \in Nat /\ s.index \in Nat /\ s.pts \in CorPoints
  BY <1>1, CorLen
<1>4. s.index >= 4 /\ s.index \in 0..Len(s.pts) /\ \A k \in 1..s.index : ~s.pts[k].inner
  <2>1. /\ s.index >= 4 /\ Len(s.undo) \in Nat /\ Len(s.pts) = 2 * s.index - 1 + 2 * Len(s.undo)
        /\ \A k \in 1..s.index : ~s.pts[k].inner
    BY <1>2 DEF WellDrawn
  <2> QED BY <1>3, <2>1
<1>5. P \in CorPoints /\ Len(P) = s.index /\ \A k \in 1..Len(P) : ~P[k].inner
  BY <1>3, <1>4, CorPrefix
<1>6. e \in CorLines /\ e = <<>>
  BY CorEmpty
<1>7. DOMAIN s = CorFields
  BY <1>1 DEF CorRecord, CorFields
<1>8. t = [s EXCEPT !.handlers = "ends", !.undoes = "ends", !.saveOn = FALSE, !.pts = P, !.lines = e,
                    !.stale = x]
  BY <1>7 DEF BackToEnds, CorFields
<1> HIDE DEF P, e, t
<1>9. t \in CorRecord
  <2> DEFINE u == [s EXCEPT !.handlers = "ends", !.undoes = "ends", !.saveOn = FALSE, !.pts = P, !.lines = e,
                            !.stale = x]
  <2>1. u \in CorRecord
    BY <1>1, <1>5, <1>6 DEF CorRecord
  <2> QED BY <1>8, <2>1
<1>10. /\ t.handlers = "ends" /\ t.undoes = "ends" /\ t.lines = e /\ t.saveOn = FALSE
       /\ t.moving = s.moving /\ t.saving = s.saving /\ t.undo = s.undo /\ t.pts = P /\ t.add = s.add
       /\ t.index = s.index /\ t.point = s.point /\ t.stale = x
  BY <1>7, <1>8 DEF CorFields
<1>11. ~Placing(t) /\ s.index + 0 = s.index /\ s.index >= 1
  BY <1>2, <1>3, <1>4, <1>10 DEF Placing
<1>12. EndsClicked(t)
  BY <1>2, <1>5, <1>6, <1>10, <1>11 DEF EndsClicked
<1>13. CorIdle(t) /\ InnerDragged(t, d)
  BY <1>10 DEF CorIdle, InnerDragged
<1> QED BY <1>9, <1>12, <1>13 DEF CorOK, t

(* A drag or a drop undone.                                                   *)
LEMMA CorDragUndone ==
  ASSUME NEW s, NEW c, CorOK(s, c), s.handlers = "inner", NEW d, d, NEW x \in BOOLEAN, s.point = NoMove \/ x
  PROVE  CorOK([s EXCEPT !.moving = FALSE, !.stale = x], d)
<1> DEFINE t == [s EXCEPT !.moving = FALSE, !.stale = x]
<1>1. s \in CorRecord
  BY DEF CorOK
<1>2. /\ s.undoes = "inner" /\ ~s.add /\ ~s.saving
      /\ WellDrawn(s.index, s.lines, s.pts, s.addons, s.undo)
  BY DEF CorOK, InnerDragged
<1>3. t \in CorRecord
  BY <1>1 DEF CorRecord
<1>4. /\ t.handlers = "inner" /\ t.undoes = s.undoes /\ t.add = s.add /\ t.saving = s.saving
      /\ t.moving = FALSE /\ t.point = s.point /\ t.stale = x /\ t.index = s.index /\ t.lines = s.lines
      /\ t.pts = s.pts /\ t.addons = s.addons /\ t.undo = s.undo
  <2>1. DOMAIN s = CorFields
    BY <1>1 DEF CorRecord, CorFields
  <2> QED BY <2>1 DEF CorFields
<1> HIDE DEF t
<1>5. InnerDragged(t, d)
  BY <1>2, <1>4 DEF InnerDragged
<1>6. CorIdle(t) /\ EndsClicked(t)
  BY <1>4 DEF CorIdle, EndsClicked
<1> QED BY <1>3, <1>5, <1>6 DEF CorOK, t

LEMMA CorDropUndone ==
  ASSUME NEW s, NEW c, CorOK(s, c), s.handlers = "inner", ~s.moving, s.undo # <<>>, NEW d, c => d,
         NEW x \in BOOLEAN, s.point = NoMove \/ x
  PROVE  CorOK([MoveUndone(s) EXCEPT !.stale = x], d)
<1> DEFINE m == MoveUndone(s)
           t == [m EXCEPT !.stale = x]
<1>1. s \in CorRecord
  BY DEF CorOK
<1>2. /\ s.undoes = "inner" /\ ~s.add /\ ~s.saving /\ (s.saveOn \/ c)
      /\ WellDrawn(s.index, s.lines, s.pts, s.addons, s.undo)
  BY DEF CorOK, InnerDragged
<1>3. CorWhole(s)
  BY <1>1, <1>2 DEF CorWhole, CorSeqs, CorRecord
<1>4. /\ CorWhole(m)
      /\ m = [s EXCEPT !.lines = m.lines, !.addons = m.addons, !.pts = m.pts, !.undo = m.undo]
  BY <1>3, CorMoveUndoneWell
<1> HIDE DEF m
<1>5. m \in CorRecord /\ WellDrawn(m.index, m.lines, m.pts, m.addons, m.undo)
  BY <1>4 DEF CorWhole
<1>6. /\ m.handlers = s.handlers /\ m.undoes = s.undoes /\ m.add = s.add /\ m.saving = s.saving
      /\ m.moving = s.moving /\ m.point = s.point /\ m.saveOn = s.saveOn
  <2>1. DOMAIN s = CorFields
    BY <1>1 DEF CorRecord, CorFields
  <2> QED BY <1>4, <2>1 DEF CorFields
<1>7. t \in CorRecord
  BY <1>5 DEF CorRecord
<1>8. /\ t.handlers = m.handlers /\ t.undoes = m.undoes /\ t.add = m.add /\ t.saving = m.saving
      /\ t.moving = m.moving /\ t.point = m.point /\ t.stale = x /\ t.index = m.index /\ t.lines = m.lines
      /\ t.pts = m.pts /\ t.addons = m.addons /\ t.undo = m.undo /\ t.saveOn = m.saveOn
  <2>1. DOMAIN m = CorFields
    BY <1>5 DEF CorRecord, CorFields
  <2> QED BY <2>1 DEF CorFields
<1> HIDE DEF t
<1>9. InnerDragged(t, d)
  BY <1>2, <1>5, <1>6, <1>8 DEF InnerDragged
<1>10. CorIdle(t) /\ EndsClicked(t)
  BY <1>6, <1>8 DEF CorIdle, EndsClicked
<1> QED BY <1>7, <1>9, <1>10 DEF CorOK, t, m

-----------------------------------------------------------------------------
(* What the steps make of the record while inner points are dragged.          *)
LEMMA CorDrop ==
  ASSUME NEW s, NEW c, CorOK(s, c), s.handlers = "inner", s.moving
  PROVE  CorOK(Dropped(s), c)
<1> DEFINE t == Dropped(s)
<1>1. s \in CorRecord
  BY DEF CorOK
<1>2. /\ s.undoes = "inner" /\ ~s.add /\ ~s.saving /\ ChosenOK(s)
      /\ WellDrawn(s.index, s.lines, s.pts, s.addons, s.undo)
  BY DEF CorOK, InnerDragged
<1>3. CorWhole(s)
  BY <1>1, <1>2 DEF CorWhole, CorSeqs, CorRecord
<1>4. /\ CorWhole(t)
      /\ t = [s EXCEPT !.lines = t.lines, !.addons = t.addons, !.pts = t.pts, !.undo = t.undo,
                       !.moving = FALSE, !.point = NoMove, !.saveOn = TRUE]
  BY <1>2, <1>3, CorDroppedWell
<1> HIDE DEF t
<1>5. t \in CorRecord /\ WellDrawn(t.index, t.lines, t.pts, t.addons, t.undo)
  BY <1>4 DEF CorWhole
<1>6. /\ t.handlers = s.handlers /\ t.undoes = s.undoes /\ t.add = s.add /\ t.saving = s.saving
      /\ t.moving = FALSE /\ t.point = NoMove /\ t.saveOn = TRUE
  <2>1. DOMAIN s = CorFields
    BY <1>1 DEF CorRecord, CorFields
  <2> QED BY <1>4, <2>1 DEF CorFields
<1>7. InnerDragged(t, c)
  BY <1>2, <1>5, <1>6 DEF InnerDragged
<1>8. CorIdle(t) /\ EndsClicked(t)
  BY <1>6 DEF CorIdle, EndsClicked
<1> QED BY <1>5, <1>7, <1>8 DEF CorOK, t

LEMMA CorDrag ==
  ASSUME NEW s, NEW c, CorOK(s, c), s.handlers = "inner", s.point # NoMove, ~s.stale
  PROVE  CorOK([s EXCEPT !.moving = TRUE, !.saveOn = FALSE], c)
<1> DEFINE t == [s EXCEPT !.moving = TRUE, !.saveOn = FALSE]
<1>1. s \in CorRecord
  BY DEF CorOK
<1>2. /\ s.undoes = "inner" /\ ~s.add /\ ~s.saving /\ ChosenOK(s)
      /\ WellDrawn(s.index, s.lines, s.pts, s.addons, s.undo)
  BY DEF CorOK, InnerDragged
<1>3. t \in CorRecord
  BY <1>1 DEF CorRecord
<1>4. /\ t.handlers = "inner" /\ t.undoes = s.undoes /\ t.add = s.add /\ t.saving = s.saving
      /\ t.moving = TRUE /\ t.point = s.point /\ t.stale = s.stale /\ t.index = s.index
      /\ t.lines = s.lines /\ t.pts = s.pts /\ t.addons = s.addons /\ t.undo = s.undo
  <2>1. DOMAIN s = CorFields
    BY <1>1 DEF CorRecord, CorFields
  <2> QED BY <2>1 DEF CorFields
<1> HIDE DEF t
<1>5. ChosenOK(t)
  BY <1>2, <1>4 DEF ChosenOK
<1>6. InnerDragged(t, c)
  BY <1>2, <1>4, <1>5 DEF InnerDragged
<1>7. CorIdle(t) /\ EndsClicked(t)
  BY <1>4 DEF CorIdle, EndsClicked
<1> QED BY <1>3, <1>6, <1>7 DEF CorOK, t

(* The pointer nears a point, or leaves it.                                   *)
LEMMA CorChoose ==
  ASSUME NEW s, NEW c, CorOK(s, c), s.handlers = "inner", ~s.moving, NEW u \in CorMove,
         \/ u = NoMove
         \/ /\ u.point \in DOMAIN s.pts /\ u.line \in DOMAIN s.lines
            /\ s.pts[u.point].inner /\ u.point \in ToSet(s.lines[u.line])
  PROVE  CorOK([s EXCEPT !.point = u, !.stale = FALSE], c)
<1> DEFINE t == [s EXCEPT !.point = u, !.stale = FALSE]
<1>1. s \in CorRecord
  BY DEF CorOK
<1>2. /\ s.undoes = "inner" /\ ~s.add /\ ~s.saving /\ (s.saveOn \/ c)
      /\ WellDrawn(s.index, s.lines, s.pts, s.addons, s.undo)
  BY DEF CorOK, InnerDragged
<1>3. t \in CorRecord
  BY <1>1 DEF CorRecord
<1>4. /\ t.handlers = "inner" /\ t.undoes = s.undoes /\ t.add = s.add /\ t.saving = s.saving
      /\ t.moving = s.moving /\ t.point = u /\ t.index = s.index /\ t.saveOn = s.saveOn
      /\ t.lines = s.lines /\ t.pts = s.pts /\ t.addons = s.addons /\ t.undo = s.undo
  <2>1. DOMAIN s = CorFields
    BY <1>1 DEF CorRecord, CorFields
  <2> QED BY <2>1 DEF CorFields
<1> HIDE DEF t
<1>5. u # NoMove => ChosenOK(t)
  <2>1. SUFFICES ASSUME u # NoMove PROVE ChosenOK(t)
    OBVIOUS
  <2>2. s.lines \in Seq(Seq(Nat)) /\ s.pts \in Seq(CorPoint)
    BY <1>1 DEF CorRecord, CorLines, CorPoints
  <2>3. u.point \in 1..Len(s.pts) /\ u.line \in 1..Len(s.lines)
    BY <2>1, <2>2, LenProperties
  <2>4. s.lines[u.line] \in Seq(Nat)
    BY <2>2, <2>3, ElementOfSeq
  <2>5. \E k \in 1..Len(s.lines[u.line]) : s.lines[u.line][k] = u.point
    BY <2>1, <2>4, CorAmong DEF Among
  <2>6. s.pts[u.point].inner
    BY <2>1
  <2> QED BY <1>4, <2>3, <2>5, <2>6 DEF ChosenOK
<1>6. InnerDragged(t, c)
  BY <1>2, <1>4, <1>5 DEF InnerDragged
<1>7. CorIdle(t) /\ EndsClicked(t)
  BY <1>4 DEF CorIdle, EndsClicked
<1> QED BY <1>3, <1>6, <1>7 DEF CorOK, t

-----------------------------------------------------------------------------
(* What follows of the lines.                                                 *)
LEMMA CorEndsOfLines ==
  ASSUME NEW n, NEW L \in CorLines, NEW P, NEW A, NEW U, WellDrawn(n, L, P, A, U)
  PROVE  /\ Len(L) = n - 1 /\ n \in Nat /\ n >= 4 /\ DOMAIN L = 1..n - 1
         /\ \A l \in 1..n - 1 : DOMAIN L[l] = 1..Len(L[l]) /\ L[l][1] = l /\ Last(L[l]) = l + 1
<1>1. Len(L) = n - 1 /\ n \in Nat /\ n >= 4
  BY DEF WellDrawn
<1>2. DOMAIN L = 1..n - 1
  BY <1>1, LenProperties DEF CorLines
<1>3. ASSUME NEW l \in 1..n - 1
      PROVE  DOMAIN L[l] = 1..Len(L[l]) /\ L[l][1] = l /\ Last(L[l]) = l + 1
  <2>1. L[l] \in Seq(Nat)
    BY <1>1, ElementOfSeq DEF CorLines
  <2>2. LineOK(n, l, L[l], P, A[l])
    BY DEF WellDrawn
  <2>3. L[l][1] = l /\ L[l][Len(L[l])] = l + 1
    BY <2>2 DEF LineOK
  <2> QED BY <2>1, <2>3, LenProperties DEF Last
<1> QED BY <1>1, <1>2, <1>3

LEMMA CorStraight ==
  ASSUME NEW n, NEW L \in CorLines, NEW P, NEW A, NEW U, WellDrawn(n, L, P, A, U), U = <<>>
  PROVE  L = Straight(n)
<1>1. n \in Nat /\ n >= 4 /\ Len(L) = n - 1
  BY DEF WellDrawn
<1>2. Len(U) = 0
  OBVIOUS
<1>3. ASSUME NEW l \in 1..n - 1 PROVE L[l] = <<l, n + l, l + 1>>
  <2> DEFINE K == L[l]
             B == A[l]
  <2>1. LineOK(n, l, K, P, B) /\ AddonsOK(n, l, B, U)
    BY DEF WellDrawn
  <2>2. K \in Seq(Nat)
    BY <1>1, ElementOfSeq DEF CorLines
  <2> HIDE DEF K, B
  <2>3. \A k \in 1..Len(B) : FALSE
    BY <1>2, <2>1 DEF AddonsOK
  <2>4. \A k \in 1..Len(K) : K[k] \in {l, n + l, l + 1}
    BY <2>1, <2>3 DEF LineOK
  <2>5. /\ Len(K) \in Nat /\ Len(K) >= 3 /\ K[1] = l /\ K[Len(K)] = l + 1
        /\ \A i, k \in 1..Len(K) : K[i] = K[k] => i = k
    BY <2>1 DEF LineOK
  <2>6. ASSUME NEW k \in 2..Len(K) - 1 PROVE K[k] = n + l
    <3>1. k \in 1..Len(K) /\ 1 \in 1..Len(K) /\ Len(K) \in 1..Len(K) /\ k # 1 /\ k # Len(K)
      BY <2>5
    <3>2. K[k] # l /\ K[k] # l + 1
      BY <2>5, <3>1
    <3> QED BY <2>4, <3>1, <3>2
  <2>7. Len(K) = 3
    <3>1. SUFFICES ASSUME Len(K) # 3 PROVE FALSE
      OBVIOUS
    <3>a. Len(K) \in Nat /\ Len(K) >= 3
      BY <2>5
    <3>2. 2 \in 2..Len(K) - 1 /\ 3 \in 2..Len(K) - 1 /\ 2 \in 1..Len(K) /\ 3 \in 1..Len(K)
      BY <3>a, <3>1
    <3>3. K[2] = n + l /\ K[3] = n + l
      BY <2>6, <3>2
    <3>4. K[2] = K[3] => 2 = 3
      BY <2>5, <3>2
    <3> QED BY <3>3, <3>4
  <2>8. K[1] = l /\ K[2] = n + l /\ K[3] = l + 1
    BY <2>5, <2>6, <2>7
  <2>9. K = <<l, n + l, l + 1>>
    <3> DEFINE a == l
               b == n + l
               c == l + 1
               J == <<a, b, c>>
    <3>1. a \in Nat /\ b \in Nat /\ c \in Nat /\ K[1] = a /\ K[2] = b /\ K[3] = c
      BY <1>1, <2>8
    <3> HIDE DEF a, b, c
    <3>2. J \in Seq(Nat) /\ Len(J) = 3 /\ J[1] = a /\ J[2] = b /\ J[3] = c
      BY <3>1
    <3> HIDE DEF J
    <3>3. \A k \in 1..Len(K) : K[k] = J[k]
      <4>1. \A k \in 1..Len(K) : k = 1 \/ k = 2 \/ k = 3
        BY <2>7
      <4> QED BY <3>1, <3>2, <4>1
    <3>4. K = J
      BY <2>2, <2>7, <3>2, <3>3, SeqEqual
    <3> QED BY <3>4 DEF J, a, b, c
  <2> QED BY <2>9 DEF K
<1>4. L = [l \in 1..n - 1 |-> L[l]]
  <2>1. L \in Seq(Seq(Nat))
    BY DEF CorLines
  <2>2. L \in [1..Len(L) -> Seq(Nat)]
    BY <2>1, LenProperties
  <2> QED BY <1>1, <2>2
<1>5. Straight(n) = [l \in 1..n - 1 |-> <<l, n + l, l + 1>>]
  BY DEF Straight, Segments
<1>6. [l \in 1..n - 1 |-> L[l]] = [l \in 1..n - 1 |-> <<l, n + l, l + 1>>]
  <2> DEFINE f(l) == <<l, n + l, l + 1>>
  <2>1. \A l \in 1..n - 1 : L[l] = f(l)
    BY <1>3
  <2> HIDE DEF f
  <2>2. [l \in 1..n - 1 |-> L[l]] = [l \in 1..n - 1 |-> f(l)]
    BY <2>1
  <2> QED BY <2>2 DEF f
<1> QED BY <1>4, <1>5, <1>6

(* An inner point is one of the middles or a neighbour some drop left.        *)
LEMMA CorInnerPlace ==
  ASSUME NEW n, NEW L, NEW P, NEW A, NEW U, WellDrawn(n, L, P, A, U),
         NEW p \in 1..Len(P), P[p].inner
  PROVE  \E l \in 1..n - 1 : P[p].at \in 1..Len(L[l]) /\ L[l][P[p].at] = p
<1>1. n \in Nat /\ n >= 4 /\ Len(U) \in Nat /\ Len(P) = 2 * n - 1 + 2 * Len(U)
  BY DEF WellDrawn
<1>2. \A l \in 1..n - 1 : LineOK(n, l, L[l], P, A[l])
  BY DEF WellDrawn
<1>3. p \notin 1..n
  BY DEF WellDrawn
<1>4. CASE p < 2 * n
  <2>1. PICK l \in 1..n - 1 : p = n + l
    <3>1. p - n \in 1..n - 1 /\ p = n + (p - n)
      BY <1>1, <1>3, <1>4
    <3> QED BY <3>1
  <2>2. P[n + l].at = 2 /\ L[l][2] = n + l /\ Len(L[l]) \in Nat /\ Len(L[l]) >= 3
    BY <1>2, <2>1 DEF LineOK
  <2>3. 2 \in 1..Len(L[l])
    BY <2>2
  <2> QED BY <2>1, <2>2, <2>3
<1>5. CASE p >= 2 * n
  <2>1. PICK j \in 1..Len(U) : p = IdAfter(n, j) \/ p = IdBefore(n, j)
    <3> DEFINE j == ((p - 2 * n) \div 2) + 1
    <3>1. j \in 1..Len(U) /\ (p = 2 * n + 2 * j - 2 \/ p = 2 * n + 2 * j - 1)
      BY <1>1, <1>5
    <3> HIDE DEF j
    <3> QED BY <3>1 DEF IdAfter, IdBefore
  <2> DEFINE l == U[j].line
  <2>2. l \in 1..n - 1 /\ MoveOK(n, j, U[j], L[l], A[l])
    BY DEF WellDrawn
  <2> HIDE DEF l
  <2>3. PICK i \in 1..Len(A[l]) - 1 : A[l][i] = IdBefore(n, j) /\ A[l][i + 1] = IdAfter(n, j)
    BY <2>2 DEF MoveOK
  <2>4. Len(A[l]) \in Nat /\ \A k \in 1..Len(A[l]) :
          P[A[l][k]].at \in 1..Len(L[l]) /\ L[l][P[A[l][k]].at] = A[l][k]
    BY <1>2, <2>2 DEF LineOK
  <2>5. i \in 1..Len(A[l]) /\ i + 1 \in 1..Len(A[l])
    BY <2>4
  <2>6. PICK k \in 1..Len(A[l]) : A[l][k] = p
    BY <2>1, <2>3, <2>5
  <2> QED BY <2>2, <2>4, <2>6
<1> QED BY <1>1, <1>4, <1>5

-----------------------------------------------------------------------------
(* What is drawn is what the property asks of the first corridor.             *)
LEMMA CorDrawn == DrawnInv => CorridorDrawn
<1> SUFFICES ASSUME DrawnInv PROVE CorridorDrawn
  OBVIOUS
<1>1. PointFollows
  BY DEF DrawnInv, CorOK, EndsClicked, PointFollows
<1>2. ASSUME First, cor.handlers = "inner"
      PROVE  /\ cor.lines \in CorLines /\ cor.pts \in CorPoints
             /\ WellDrawn(cor.index, cor.lines, cor.pts, cor.addons, cor.undo)
  <2>1. cor \in CorRecord /\ InnerDragged(cor, "cancelled" \in corMarks)
    BY <1>2 DEF DrawnInv, CorOK
  <2> QED BY <1>2, <2>1 DEF InnerDragged, CorRecord
<1>3. PointsOnLines
  <2>1. SUFFICES ASSUME First, cor.handlers = "inner"
                 PROVE  /\ Len(cor.lines) = cor.index - 1
                        /\ \A l \in DOMAIN cor.lines : cor.lines[l][1] = l /\ Last(cor.lines[l]) = l + 1
                        /\ \A p \in DOMAIN cor.pts : cor.pts[p].inner =>
                             \E l \in DOMAIN cor.lines : cor.pts[p].at \in DOMAIN cor.lines[l]
                                                          /\ cor.lines[l][cor.pts[p].at] = p
                        /\ \A l \in DOMAIN cor.lines : IsInjective(cor.lines[l])
    BY DEF PointsOnLines
  <2> DEFINE n == cor.index
             L == cor.lines
             P == cor.pts
             A == cor.addons
             U == cor.undo
  <2>2. L \in CorLines /\ P \in CorPoints /\ WellDrawn(n, L, P, A, U)
    BY <1>2, <2>1
  <2> HIDE DEF n, L, P, A, U
  <2>3. /\ Len(L) = n - 1 /\ n \in Nat /\ n >= 4 /\ DOMAIN L = 1..n - 1
        /\ \A l \in 1..n - 1 : DOMAIN L[l] = 1..Len(L[l]) /\ L[l][1] = l /\ Last(L[l]) = l + 1
    BY <2>2, CorEndsOfLines
  <2>4. DOMAIN P = 1..Len(P)
    BY <2>2, LenProperties DEF CorPoints
  <2>5. ASSUME NEW p \in 1..Len(P), P[p].inner
        PROVE  \E l \in 1..n - 1 : P[p].at \in DOMAIN L[l] /\ L[l][P[p].at] = p
    <3>1. PICK l \in 1..n - 1 : P[p].at \in 1..Len(L[l]) /\ L[l][P[p].at] = p
      BY <2>2, <2>5, CorInnerPlace
    <3> QED BY <2>3, <3>1
  <2>6. ASSUME NEW l \in 1..n - 1 PROVE IsInjective(L[l])
    <3>1. LineOK(n, l, L[l], P, A[l])
      BY <2>2 DEF WellDrawn
    <3>2. DOMAIN L[l] = 1..Len(L[l])
      BY <2>3
    <3>3. \A i, k \in 1..Len(L[l]) : L[l][i] = L[l][k] => i = k
      BY <3>1 DEF LineOK
    <3> QED BY <3>2, <3>3 DEF IsInjective
  <2>7. \A p \in DOMAIN P : P[p].inner => \E l \in DOMAIN L : P[p].at \in DOMAIN L[l] /\ L[l][P[p].at] = p
    BY <2>3, <2>4, <2>5
  <2>8. \A l \in DOMAIN L : IsInjective(L[l])
    BY <2>3, <2>6
  <2>9. Len(L) = n - 1 /\ \A l \in DOMAIN L : L[l][1] = l /\ Last(L[l]) = l + 1
    BY <2>3
  <2> QED BY <2>7, <2>8, <2>9 DEF n, L, P
<1>4. UndoneIsStraight
  <2>1. SUFFICES ASSUME First, cor.handlers = "inner", cor.undo = <<>>
                 PROVE  cor.lines = Straight(cor.index)
    BY DEF UndoneIsStraight
  <2>2. cor.lines \in CorLines /\ WellDrawn(cor.index, cor.lines, cor.pts, cor.addons, cor.undo)
    BY <1>2, <2>1
  <2> QED BY <2>1, <2>2, CorStraight
<1>5. SentIsDrawn
  BY DEF DrawnInv, SentOK, SentIsDrawn
<1>6. SaveOffered
  BY DEF DrawnInv, CorOK, InnerDragged, SaveOffered
<1> QED BY <1>1, <1>3, <1>4, <1>5, <1>6 DEF CorridorDrawn

-----------------------------------------------------------------------------
LEMMA CorStart == CorInit => DrawnInv
<1> SUFFICES ASSUME CorInit PROVE DrawnInv
  OBVIOUS
<1>1. corBegun \in Nat /\ NotBegun
  BY DEF CorInit, NotBegun
<1>2. cor.handlers = "none" /\ ~cor.saveOn /\ ~cor.undoOn
  BY DEF CorInit
<1>3. cor \in CorRecord
  BY CorEmpty DEF CorInit, CorRecord
<1>4. CorOK(cor, "cancelled" \in corMarks)
  BY <1>2, <1>3 DEF CorOK, CorIdle, EndsClicked, InnerDragged
<1>5. SentOK
  <2>1. corSent.lines = <<>> /\ corSent.ends = 0
    BY DEF CorInit
  <2> QED BY <2>1 DEF SentOK
<1> QED BY <1>1, <1>4, <1>5 DEF DrawnInv

(* What a step of a handler leaves as it was.                                 *)
LEMMA CorSame ==
  ASSUME First => corBegun \in Nat /\ corBegun # 0 /\ CorOK(cor', "cancelled" \in corMarks') /\ SentOK,
         corBegun' = corBegun, corSent' = corSent, First' => First
  PROVE  DrawnInv'
<1> SUFFICES ASSUME First' PROVE (corBegun \in Nat /\ NotBegun /\ CorOK(cor, "cancelled" \in corMarks) /\ SentOK)'
  BY DEF DrawnInv
<1>1. corBegun' \in Nat /\ corBegun' # 0 /\ CorOK(cor', "cancelled" \in corMarks') /\ SentOK
  OBVIOUS
<1>2. NotBegun'
  BY <1>1 DEF NotBegun
<1>3. SentOK'
  BY <1>1 DEF SentOK
<1>4. CorOK(cor, "cancelled" \in corMarks)'
  BY <1>1 DEF CorOK, CorIdle, EndsClicked, InnerDragged, Placing, ChosenOK
<1> QED BY <1>1, <1>2, <1>3, <1>4

(* A corridor being drawn is one begun.                                       *)
LEMMA CorAt ==
  ASSUME DrawnInv, First
  PROVE  /\ corBegun \in Nat /\ CorOK(cor, "cancelled" \in corMarks) /\ SentOK /\ cor \in CorRecord
         /\ cor.handlers # "none" \/ cor.saving => corBegun # 0
         /\ cor.undoOn \/ cor.saveOn => cor.handlers \in {"ends", "inner"}
         /\ cor.handlers = "ends" => cor.undoes = "ends" /\ ~cor.saveOn /\ ~cor.moving
                                     /\ (cor.point = NoMove \/ cor.stale)
         /\ cor.handlers = "inner" => cor.undoes = "inner" /\ (cor.moving => ~cor.stale /\ cor.point # NoMove)
         /\ cor.handlers \in {"ends", "inner"} => ~cor.saving
<1>1. corBegun \in Nat /\ NotBegun /\ CorOK(cor, "cancelled" \in corMarks) /\ SentOK
  BY DEF DrawnInv
<1>2. cor \in CorRecord /\ CorIdle(cor) /\ EndsClicked(cor) /\ InnerDragged(cor, "cancelled" \in corMarks)
  BY <1>1 DEF CorOK
<1>3. cor.handlers \in {"none", "ends", "inner"}
  BY <1>2 DEF CorRecord
<1>4. cor.undoOn \/ cor.saveOn => cor.handlers \in {"ends", "inner"}
  BY <1>2, <1>3 DEF CorIdle
<1>5. cor.handlers # "none" \/ cor.saving => corBegun # 0
  BY <1>1 DEF NotBegun
<1>6. cor.handlers = "ends" => cor.undoes = "ends" /\ ~cor.saveOn /\ ~cor.moving /\ ~cor.saving
                               /\ (cor.point = NoMove \/ cor.stale)
  BY <1>2 DEF EndsClicked
<1>7. cor.handlers = "inner" => cor.undoes = "inner" /\ ~cor.saving /\ (cor.moving => ~cor.stale /\ cor.point # NoMove)
  BY <1>2 DEF InnerDragged
<1> QED BY <1>1, <1>2, <1>4, <1>5, <1>6, <1>7

LEMMA CorNewStep ==
  ASSUME DrawnInv, NewCorridor
  PROVE  DrawnInv'
<1> SUFFICES ASSUME First' PROVE (corBegun \in Nat /\ NotBegun /\ CorOK(cor, "cancelled" \in corMarks) /\ SentOK)'
  BY DEF DrawnInv
<1>1. corBegun' = corBegun + 1 /\ cor' = New(cor) /\ corSent' = corSent
      /\ corMarks' = corMarks \cup (IF corBegun > 0 THEN {"again"} ELSE {})
  BY DEF NewCorridor
<1>2. First /\ ~(corBegun > 0)
  BY <1>1 DEF First
<1>3. corBegun \in Nat /\ SentOK /\ cor \in CorRecord /\ NotBegun
  BY <1>2, CorAt DEF DrawnInv
<1>4. corBegun = 0
  BY <1>2, <1>3
<1>5. cor.lines = <<>> /\ cor.undoes = "ends" /\ ~cor.saving
  BY <1>3, <1>4 DEF NotBegun
<1>6. CorOK(cor', "cancelled" \in corMarks')
  BY <1>1, <1>3, <1>5, CorNew
<1>7. SentOK'
  BY <1>1, <1>3 DEF SentOK
<1>8. NotBegun' /\ corBegun' \in Nat
  BY <1>1, <1>4 DEF NotBegun
<1>9. CorOK(cor, "cancelled" \in corMarks)'
  BY <1>6 DEF CorOK, CorIdle, EndsClicked, InnerDragged, Placing, ChosenOK
<1> QED BY <1>7, <1>8, <1>9

LEMMA CorNearStep ==
  ASSUME DrawnInv, NEW near, UpdateEndPoint(near)
  PROVE  DrawnInv'
<1>1. /\ cor.handlers = "ends" /\ corSent' = corSent /\ corBegun' = corBegun /\ corMarks' = corMarks
      /\ \/ cor' = [cor EXCEPT !.continue = TRUE]
         \/ cor' = [cor EXCEPT !.end = TRUE]
         \/ cor' = [cor EXCEPT !.continue = FALSE, !.end = FALSE]
  BY DEF UpdateEndPoint
<1>2. First' => First
  BY <1>1 DEF First
<1>3. ASSUME First PROVE corBegun \in Nat /\ corBegun # 0 /\ CorOK(cor', "cancelled" \in corMarks') /\ SentOK
  <2>1. corBegun \in Nat /\ CorOK(cor, "cancelled" \in corMarks) /\ SentOK /\ cor \in CorRecord /\ corBegun # 0
    BY <1>1, <1>3, CorAt
  <2>2. cor.continue \in BOOLEAN /\ cor.end \in BOOLEAN
    BY <2>1 DEF CorRecord
  <2>3. [cor EXCEPT !.continue = TRUE] = [cor EXCEPT !.continue = TRUE, !.end = cor.end]
    BY <2>1 DEF CorRecord
  <2>4. [cor EXCEPT !.end = TRUE] = [cor EXCEPT !.continue = cor.continue, !.end = TRUE]
    BY <2>1 DEF CorRecord
  <2>5. PICK x \in BOOLEAN, y \in BOOLEAN : cor' = [cor EXCEPT !.continue = x, !.end = y]
    BY <1>1, <2>2, <2>3, <2>4
  <2>6. CorOK(cor', "cancelled" \in corMarks)
    BY <1>1, <2>1, <2>5, CorNear
  <2> QED BY <1>1, <2>1, <2>6
<1> QED BY <1>1, <1>2, <1>3, CorSame

LEMMA CorClickStep ==
  ASSUME DrawnInv, UpdateEndPointClick
  PROVE  DrawnInv'
<1>1. /\ cor.handlers = "ends" /\ corSent' = corSent /\ corBegun' = corBegun /\ corMarks' = corMarks
      /\ \/ Placing(cor) /\ cor' = Placed(cor)
         \/ ~Placing(cor) /\ cor' = Continued(cor)
         \/ ~Placing(cor) /\ cor' = Ended(cor)
  BY DEF UpdateEndPointClick
<1>2. First' => First
  BY <1>1 DEF First
<1>3. ASSUME First PROVE corBegun \in Nat /\ corBegun # 0 /\ CorOK(cor', "cancelled" \in corMarks') /\ SentOK
  <2>1. corBegun \in Nat /\ CorOK(cor, "cancelled" \in corMarks) /\ SentOK /\ corBegun # 0
    BY <1>1, <1>3, CorAt
  <2>2. CorOK(cor', "cancelled" \in corMarks)
    BY <1>1, <2>1, CorPlaced, CorContinued, CorEnded
  <2> QED BY <1>1, <2>1, <2>2
<1> QED BY <1>1, <1>2, <1>3, CorSame

LEMMA CorInnerStep ==
  ASSUME DrawnInv, UpdateInnerPoint
  PROVE  DrawnInv'
<1>1. /\ cor.handlers = "inner" /\ ~cor.moving /\ corSent' = corSent /\ corBegun' = corBegun /\ corMarks' = corMarks
  BY DEF UpdateInnerPoint
<1>2. First' => First
  BY <1>1 DEF First
<1>3. ASSUME First PROVE corBegun \in Nat /\ corBegun # 0 /\ CorOK(cor', "cancelled" \in corMarks') /\ SentOK
  <2>1. corBegun \in Nat /\ CorOK(cor, "cancelled" \in corMarks) /\ SentOK /\ corBegun # 0 /\ cor \in CorRecord
    BY <1>1, <1>3, CorAt
  <2>2. PICK u \in CorMove : /\ cor' = [cor EXCEPT !.point = u, !.stale = FALSE]
                             /\ \/ u = NoMove
                                \/ /\ u.point \in DOMAIN cor.pts /\ u.line \in DOMAIN cor.lines
                                   /\ cor.pts[u.point].inner /\ u.point \in ToSet(cor.lines[u.line])
    <3>1. CASE cor' = [cor EXCEPT !.point = NoMove, !.stale = FALSE]
      BY <3>1, CorEmpty
    <3>2. CASE \E p \in DOMAIN cor.pts, l \in DOMAIN cor.lines :
                  /\ cor.pts[p].inner /\ p \in ToSet(cor.lines[l])
                  /\ cor' = [cor EXCEPT !.point = [point |-> p, line |-> l], !.stale = FALSE]
      <4>1. PICK p \in DOMAIN cor.pts, l \in DOMAIN cor.lines :
                  /\ cor.pts[p].inner /\ p \in ToSet(cor.lines[l])
                  /\ cor' = [cor EXCEPT !.point = [point |-> p, line |-> l], !.stale = FALSE]
        BY <3>2
      <4>2. p \in Nat /\ l \in Nat
        <5>1. cor.pts \in Seq(CorPoint) /\ cor.lines \in Seq(Seq(Nat))
          BY <2>1 DEF CorRecord, CorPoints, CorLines
        <5>2. DOMAIN cor.pts = 1..Len(cor.pts) /\ DOMAIN cor.lines = 1..Len(cor.lines)
          BY <5>1, LenProperties
        <5> QED BY <5>2
      <4> DEFINE u == [point |-> p, line |-> l]
      <4>3. u \in CorMove /\ u.point = p /\ u.line = l
        BY <4>2 DEF CorMove
      <4>4. cor' = [cor EXCEPT !.point = u, !.stale = FALSE]
        BY <4>1
      <4> HIDE DEF u
      <4> QED BY <4>1, <4>3, <4>4
    <3> QED BY <3>1, <3>2 DEF UpdateInnerPoint
  <2>3. CorOK(cor', "cancelled" \in corMarks)
    BY <1>1, <2>1, <2>2, CorChoose
  <2> QED BY <1>1, <2>1, <2>3
<1> QED BY <1>1, <1>2, <1>3, CorSame

LEMMA CorInnerClickStep ==
  ASSUME DrawnInv, UpdateInnerPointClick
  PROVE  DrawnInv'
<1>1. /\ cor.handlers = "inner" /\ corSent' = corSent /\ corBegun' = corBegun /\ corMarks' = corMarks
      /\ \/ cor.moving /\ cor' = Dropped(cor)
         \/ cor.point # NoMove /\ ~cor.stale /\ cor' = [cor EXCEPT !.moving = TRUE, !.saveOn = FALSE]
  BY DEF UpdateInnerPointClick
<1>2. First' => First
  BY <1>1 DEF First
<1>3. ASSUME First PROVE corBegun \in Nat /\ corBegun # 0 /\ CorOK(cor', "cancelled" \in corMarks') /\ SentOK
  <2>1. corBegun \in Nat /\ CorOK(cor, "cancelled" \in corMarks) /\ SentOK /\ corBegun # 0
    BY <1>1, <1>3, CorAt
  <2>2. CorOK(cor', "cancelled" \in corMarks)
    BY <1>1, <2>1, CorDrop, CorDrag
  <2> QED BY <1>1, <2>1, <2>2
<1> QED BY <1>1, <1>2, <1>3, CorSame

LEMMA CorUndoStep ==
  ASSUME DrawnInv, UndoCorridor
  PROVE  DrawnInv'
<1> DEFINE x == cor.point # NoMove
           c == "cancelled" \in corMarks
           d == "cancelled" \in corMarks'
<1>1. /\ cor.undoOn /\ First /\ corSent' = corSent /\ corBegun' = corBegun
      /\ cor' = [(IF cor.undoes = "ends" THEN EndUndone(cor) ELSE InnerUndone(cor)) EXCEPT !.stale = x]
      /\ corMarks' = corMarks \cup (IF cor.moving THEN {"cancelled"} ELSE {})
  BY DEF UndoCorridor
<1>2. /\ corBegun \in Nat /\ CorOK(cor, c) /\ SentOK /\ corBegun # 0 /\ cor \in CorRecord
      /\ cor.handlers \in {"ends", "inner"}
      /\ cor.handlers = "ends" => cor.undoes = "ends"
      /\ cor.handlers = "inner" => cor.undoes = "inner" /\ (cor.moving => cor.point # NoMove)
  BY <1>1, CorAt
<1>3. (c => d) /\ (cor.moving => d) /\ x \in BOOLEAN /\ (cor.point = NoMove \/ x)
  BY <1>1
<1>4. ~cor.moving => d = c
  BY <1>1
<1> HIDE DEF x, c, d
<1>5. ASSUME cor.handlers = "ends" PROVE CorOK(cor', d)
  <2> DEFINE t == EndUndone(cor)
  <2>1. cor' = [t EXCEPT !.stale = x]
    BY <1>1, <1>2, <1>5
  <2>2. ~cor.moving
    BY <1>2, <1>5 DEF CorOK, EndsClicked
  <2>3. CorOK(t, c) /\ t.handlers = "ends" /\ (t.point = NoMove \/ cor.point # NoMove)
    BY <1>1, <1>2, <1>5, CorEndUndone
  <2>4. t.point = NoMove \/ x
    BY <2>3 DEF x
  <2> HIDE DEF t
  <2>5. CorOK([t EXCEPT !.stale = x], c)
    BY <1>3, <2>3, <2>4, CorStale
  <2> QED BY <1>4, <2>1, <2>2, <2>5
<1>6. ASSUME cor.handlers = "inner" PROVE CorOK(cor', d)
  <2>1. cor' = [InnerUndone(cor) EXCEPT !.stale = x]
    BY <1>1, <1>2, <1>6
  <2>2. CASE cor.moving
    <3>1. InnerUndone(cor) = [cor EXCEPT !.moving = FALSE]
      BY <2>2 DEF InnerUndone
    <3>2. cor' = [cor EXCEPT !.moving = FALSE, !.stale = x]
      BY <2>1, <3>1
    <3>3. CorOK([cor EXCEPT !.moving = FALSE, !.stale = x], d)
      BY <1>2, <1>3, <1>6, <2>2, CorDragUndone
    <3> QED BY <3>2, <3>3
  <2>3. CASE ~cor.moving /\ cor.undo = <<>>
    <3>1. InnerUndone(cor) = BackToEnds(cor)
      BY <2>3 DEF InnerUndone
    <3>2. CorOK([BackToEnds(cor) EXCEPT !.stale = x], d)
      BY <1>2, <1>3, <1>6, <2>3, CorBack
    <3> QED BY <2>1, <3>1, <3>2
  <2>4. CASE ~cor.moving /\ cor.undo # <<>>
    <3>1. InnerUndone(cor) = MoveUndone(cor)
      BY <2>4 DEF InnerUndone
    <3>2. CorOK([MoveUndone(cor) EXCEPT !.stale = x], d)
      BY <1>2, <1>3, <1>6, <2>4, CorDropUndone
    <3> QED BY <2>1, <3>1, <3>2
  <2> QED BY <2>2, <2>3, <2>4
<1>7. CorOK(cor', d)
  BY <1>2, <1>5, <1>6
<1>8. CorOK(cor', "cancelled" \in corMarks')
  BY <1>7 DEF d
<1> QED BY <1>1, <1>2, <1>8, CorSame

LEMMA CorSaveStep ==
  ASSUME DrawnInv, SaveCorridor
  PROVE  DrawnInv'
<1> DEFINE t == [cor EXCEPT !.handlers = "none", !.undoOn = FALSE, !.saveOn = FALSE,
                            !.drawing = FALSE, !.saving = TRUE]
<1>1. /\ cor.saveOn /\ cor' = t /\ corBegun' = corBegun /\ corMarks' = corMarks
      /\ corSent' = [lines |-> cor.lines, ends |-> cor.index]
  BY DEF SaveCorridor
<1> SUFFICES ASSUME First' PROVE (corBegun \in Nat /\ NotBegun /\ CorOK(cor, "cancelled" \in corMarks) /\ SentOK)'
  BY DEF DrawnInv
<1>2. First
  BY <1>1 DEF First
<1>3. /\ corBegun \in Nat /\ CorOK(cor, "cancelled" \in corMarks) /\ corBegun # 0 /\ cor \in CorRecord
      /\ cor.handlers = "inner"
  BY <1>1, <1>2, CorAt
<1>4. t \in CorRecord
  BY <1>3 DEF CorRecord
<1>5. t.handlers = "none" /\ ~t.saveOn /\ ~t.undoOn
  <2>1. DOMAIN cor = CorFields
    BY <1>3 DEF CorRecord, CorFields
  <2> QED BY <2>1 DEF CorFields
<1> HIDE DEF t
<1>6. CorOK(t, "cancelled" \in corMarks)
  BY <1>4, <1>5 DEF CorOK, CorIdle, EndsClicked, InnerDragged
<1>7. CorOK(cor', "cancelled" \in corMarks')
  BY <1>1, <1>6
<1>8. CorOK(cor, "cancelled" \in corMarks)'
  BY <1>7 DEF CorOK, CorIdle, EndsClicked, InnerDragged, Placing, ChosenOK
<1>9. NotBegun' /\ corBegun' \in Nat
  BY <1>1, <1>3 DEF NotBegun
<1>10. SentOK'
  <2> DEFINE n == cor.index
             L == cor.lines
  <2>1. L \in CorLines /\ WellDrawn(n, L, cor.pts, cor.addons, cor.undo)
    BY <1>3 DEF CorOK, InnerDragged, CorRecord
  <2> HIDE DEF n, L
  <2>2. /\ Len(L) = n - 1 /\ n \in Nat /\ n >= 4 /\ DOMAIN L = 1..n - 1
        /\ \A l \in 1..n - 1 : L[l][1] = l /\ Last(L[l]) = l + 1
    BY <2>1, CorEndsOfLines
  <2>3. corSent'.lines = L /\ corSent'.ends = n
    BY <1>1 DEF L, n
  <2>4. n # 0 /\ \A l \in DOMAIN L : L[l][1] = l /\ Last(L[l]) = l + 1
    BY <2>2
  <2> QED BY <2>2, <2>3, <2>4 DEF SentOK
<1> QED BY <1>8, <1>9, <1>10

LEMMA CorAnswerStep ==
  ASSUME DrawnInv, NEW ok \in BOOLEAN, SaveAnswer(ok)
  PROVE  DrawnInv'
<1> DEFINE P == IF ok THEN <<>> ELSE cor.pts
           t == [cor EXCEPT !.saving = FALSE, !.pts = P]
<1>1. cor.saving /\ cor' = t /\ corSent' = corSent /\ corBegun' = corBegun /\ corMarks' = corMarks
  BY DEF SaveAnswer
<1>2. First' => First
  BY <1>1 DEF First
<1>3. ASSUME First PROVE corBegun \in Nat /\ corBegun # 0 /\ CorOK(cor', "cancelled" \in corMarks') /\ SentOK
  <2>1. corBegun \in Nat /\ CorOK(cor, "cancelled" \in corMarks) /\ SentOK /\ corBegun # 0 /\ cor \in CorRecord
        /\ cor.handlers \notin {"ends", "inner"}
    BY <1>1, <1>3, CorAt
  <2>2. cor.handlers = "none"
    BY <2>1 DEF CorRecord
  <2>3. P \in CorPoints
    BY <2>1, CorEmpty DEF CorRecord
  <2> HIDE DEF P
  <2>4. t \in CorRecord
    BY <2>1, <2>3 DEF CorRecord
  <2>5. t.handlers = "none" /\ t.saveOn = cor.saveOn /\ t.undoOn = cor.undoOn
    <3>1. DOMAIN cor = CorFields
      BY <2>1 DEF CorRecord, CorFields
    <3> QED BY <2>2, <3>1 DEF CorFields
  <2>6. ~cor.saveOn /\ ~cor.undoOn
    BY <2>1, <2>2 DEF CorOK, CorIdle
  <2> HIDE DEF t
  <2>7. CorOK(t, "cancelled" \in corMarks)
    BY <2>4, <2>5, <2>6 DEF CorOK, CorIdle, EndsClicked, InnerDragged
  <2> QED BY <1>1, <2>1, <2>7
<1> QED BY <1>1, <1>2, <1>3, CorSame

LEMMA CorStep == DrawnInv /\ [CorNext]_corVars => DrawnInv'
<1> SUFFICES ASSUME DrawnInv, [CorNext]_corVars PROVE DrawnInv'
  OBVIOUS
<1>1. CASE NewCorridor
  BY <1>1, CorNewStep
<1>2. ASSUME NEW near \in {"last", "first", "neither"}, UpdateEndPoint(near) PROVE DrawnInv'
  BY <1>2, CorNearStep
<1>3. CASE UpdateEndPointClick
  BY <1>3, CorClickStep
<1>4. CASE UpdateInnerPoint
  BY <1>4, CorInnerStep
<1>5. CASE UpdateInnerPointClick
  BY <1>5, CorInnerClickStep
<1>6. CASE UndoCorridor
  BY <1>6, CorUndoStep
<1>7. CASE SaveCorridor
  BY <1>7, CorSaveStep
<1>8. ASSUME NEW ok \in BOOLEAN, SaveAnswer(ok) PROVE DrawnInv'
  BY <1>8, CorAnswerStep
<1>9. CASE UNCHANGED corVars
  <2>1. cor' = cor /\ corSent' = corSent /\ corBegun' = corBegun /\ corMarks' = corMarks
    BY <1>9 DEF corVars
  <2>2. First' <=> First
    BY <2>1 DEF First
  <2>3. ASSUME First PROVE (corBegun \in Nat /\ NotBegun /\ CorOK(cor, "cancelled" \in corMarks) /\ SentOK)'
    <3>1. corBegun \in Nat /\ NotBegun /\ CorOK(cor, "cancelled" \in corMarks) /\ SentOK
      BY <2>3 DEF DrawnInv
    <3>2. NotBegun' /\ SentOK'
      BY <2>1, <3>1 DEF NotBegun, SentOK
    <3>3. CorOK(cor', "cancelled" \in corMarks')
      BY <2>1, <3>1
    <3>4. CorOK(cor, "cancelled" \in corMarks)'
      BY <3>3 DEF CorOK, CorIdle, EndsClicked, InnerDragged, Placing, ChosenOK
    <3> QED BY <2>1, <3>1, <3>2, <3>4
  <2> QED BY <2>2, <2>3 DEF DrawnInv
<1> QED BY <1>1, <1>2, <1>3, <1>4, <1>5, <1>6, <1>7, <1>8, <1>9 DEF CorNext

(* However many drags and undos a drawing takes, in whatever order, what is   *)
(* sent of the first corridor of a page is the corridor drawn.                *)
THEOREM CorridorDrawnCorrect == CorSpec => []CorridorDrawn
<1>1. CorInit => DrawnInv
  BY CorStart
<1>2. DrawnInv /\ [CorNext]_corVars => DrawnInv'
  BY CorStep
<1>3. DrawnInv => CorridorDrawn
  BY CorDrawn
<1> QED BY <1>1, <1>2, <1>3, PTL DEF CorSpec

-----------------------------------------------------------------------------
(* What the variables of a drawing hold, also for a second corridor of a      *)
(* page, where no inner point is dragged and nothing is undone.               *)
CorTyped ==
  /\ cor \in CorRecord /\ cor.index <= MaxEnds
  /\ corSent \in [lines : CorLines, ends : 0..MaxEnds]
  /\ corBegun \in 0..MaxDrawings /\ corMarks \subseteq {"again", "cancelled"}
  /\ ~First => ~cor.moving /\ cor.point = NoMove

LEMMA CorTypeFromTyped == CorTyped => CorTypeOK
<1> SUFFICES ASSUME CorTyped PROVE CorTypeOK
  OBVIOUS
<1>1. MaxEnds \in Nat
  BY CorridorAssumption
<1>2. cor \in CorRecord /\ cor.index <= MaxEnds
  BY DEF CorTyped
<1>3. cor.index \in 0..MaxEnds
  BY <1>1, <1>2 DEF CorRecord
<1>4. cor \in [handlers : {"none", "ends", "inner"}, drawing : BOOLEAN, index : 0..MaxEnds,
               add : BOOLEAN, continue : BOOLEAN, end : BOOLEAN, moving : BOOLEAN,
               pts : CorPoints, lines : CorLines, addons : CorLines, undo : CorMoves,
               point : CorMove, undoes : {"ends", "inner"},
               undoOn : BOOLEAN, saveOn : BOOLEAN, saving : BOOLEAN, stale : BOOLEAN]
  BY <1>2, <1>3 DEF CorRecord
<1> QED
  BY <1>4 DEF CorTyped, CorTypeOK, CorPoints, CorLines, CorMoves, CorPoint, CorMove

LEMMA CorTypedInitial == CorInit => CorTyped
<1> SUFFICES ASSUME CorInit PROVE CorTyped
  OBVIOUS
<1> DEFINE e == <<>>
<1>1. e \in CorPoints /\ e \in CorLines /\ e \in CorMoves
  BY DEF CorPoints, CorLines, CorMoves
<1>2. 0 \in 0..MaxEnds /\ 0 \in 0..MaxDrawings /\ 0 <= MaxEnds
  BY CorridorAssumption
<1>3. NoMove \in CorMove
  BY DEF NoMove, CorMove
<1> HIDE DEF e
<1>4. cor = [handlers |-> "none", drawing |-> FALSE, index |-> 0, add |-> FALSE,
             continue |-> FALSE, end |-> FALSE, moving |-> FALSE, pts |-> e,
             lines |-> e, addons |-> e, undo |-> e, point |-> NoMove,
             undoes |-> "ends", undoOn |-> FALSE, saveOn |-> FALSE,
             saving |-> FALSE, stale |-> FALSE]
  BY DEF CorInit, e
<1>5. cor \in CorRecord /\ cor.index = 0 /\ ~cor.moving /\ cor.point = NoMove
  BY <1>1, <1>3, <1>4 DEF CorRecord
<1>6. corSent = [lines |-> e, ends |-> 0] /\ corBegun = 0 /\ corMarks = {}
  BY DEF CorInit, e
<1> QED BY <1>1, <1>2, <1>5, <1>6 DEF CorTyped

(* A second corridor is begun with nothing to be dragged.                     *)
LEMMA CorTypedNew == CorTyped /\ NewCorridor => CorTyped'
<1> SUFFICES ASSUME CorTyped, NewCorridor PROVE CorTyped'
  OBVIOUS
<1> DEFINE e == <<>>
           P == <<EndPoint>>
<1>1. e \in CorLines /\ e \in CorMoves
  BY DEF CorLines, CorMoves
<1>2. P \in CorPoints
  BY DEF CorPoints, EndPoint, Point, CorPoint
<1>3. NoMove \in CorMove
  BY DEF NoMove, CorMove
<1>4. cor' = [cor EXCEPT !.handlers = "ends", !.drawing = TRUE, !.index = 0, !.add = FALSE,
                !.continue = FALSE, !.end = FALSE, !.moving = FALSE, !.pts = P,
                !.addons = e, !.undo = e, !.point = NoMove, !.undoOn = FALSE, !.saveOn = FALSE]
  BY DEF NewCorridor, New
<1> HIDE DEF e, P
<1>5. cor' \in CorRecord /\ cor'.index = 0 /\ ~cor'.moving /\ cor'.point = NoMove
  BY <1>1, <1>2, <1>3, <1>4 DEF CorTyped, CorRecord
<1>6. 0 <= MaxEnds
  BY CorridorAssumption
<1>7. corBegun' \in 0..MaxDrawings
  <2>1. corBegun \in 0..MaxDrawings /\ corBegun < MaxDrawings /\ corBegun' = corBegun + 1 /\ MaxDrawings \in Nat
    BY CorridorAssumption DEF CorTyped, NewCorridor
  <2> QED BY ONLY <2>1
<1>8. corMarks' \subseteq {"again", "cancelled"} /\ corSent' = corSent
  BY DEF CorTyped, NewCorridor
<1> QED BY <1>5, <1>6, <1>7, <1>8 DEF CorTyped

(* Steps that leave everything but the record of the drawing.                 *)
LEMMA CorTypedRest ==
  ASSUME CorTyped, UNCHANGED <<corSent, corBegun, corMarks>>, cor' \in CorRecord,
         cor'.index <= MaxEnds, ~First => ~cor'.moving /\ cor'.point = NoMove
  PROVE  CorTyped'
BY DEF CorTyped, First

LEMMA CorTypedNear ==
  ASSUME CorTyped, NEW near \in {"last", "first", "neither"}, UpdateEndPoint(near)
  PROVE  CorTyped'
<1>1. cor \in CorRecord /\ cor.index <= MaxEnds
  BY DEF CorTyped
<1>2. \/ cor' = [cor EXCEPT !.continue = TRUE]
      \/ cor' = [cor EXCEPT !.end = TRUE]
      \/ cor' = [cor EXCEPT !.continue = FALSE, !.end = FALSE]
  BY DEF UpdateEndPoint
<1>3. /\ cor' \in CorRecord /\ cor'.index = cor.index /\ cor'.moving = cor.moving
      /\ cor'.point = cor.point
  BY <1>1, <1>2 DEF CorRecord
<1> QED BY <1>1, <1>3, CorTypedRest DEF CorTyped, UpdateEndPoint

(* The lines between any points that are there.                               *)
LEMMA CorEndedTyped ==
  ASSUME NEW P \in CorPoints, NEW L \in CorLines
  PROVE  /\ L \o Straight(Len(P)) \in CorLines
         /\ P \o [k \in 1..Segments(Len(P)) |-> Point(TRUE, 2)] \in CorPoints
         /\ [k \in 1..Segments(Len(P)) |-> <<>>] \in CorLines
<1>1. P \in Seq(CorPoint) /\ L \in Seq(Seq(Nat))
  BY DEF CorPoints, CorLines
<1>2. Len(P) \in Nat
  BY <1>1, LenProperties
<1>3. PICK n \in Nat : 1..Segments(Len(P)) = 1..n
  <2>1. CASE Len(P) = 0
    BY <2>1, 1..(0 - 1) = 1..0 DEF Segments
  <2>2. CASE Len(P) # 0
    BY <1>2, <2>2, Len(P) - 1 \in Nat DEF Segments
  <2> QED BY <2>1, <2>2
<1>4. [k \in 1..n |-> Point(TRUE, 2)] \in Seq(CorPoint)
  BY DEF Point, CorPoint
<1>5. [k \in 1..n |-> <<>>] \in Seq(Seq(Nat))
  BY EmptySeq
<1>6. [k \in 1..n |-> <<k, Len(P) + k, k + 1>>] \in Seq(Seq(Nat))
  <2>1. \A k \in 1..n : <<k, Len(P) + k, k + 1>> \in Seq(Nat)
    BY <1>2
  <2> QED BY <2>1, IsASeq
<1>7. Straight(Len(P)) \in Seq(Seq(Nat))
  BY <1>3, <1>6 DEF Straight
<1>8. L \o Straight(Len(P)) \in Seq(Seq(Nat))
  BY <1>1, <1>7, ConcatProperties
<1>9. P \o [k \in 1..n |-> Point(TRUE, 2)] \in Seq(CorPoint)
  BY <1>1, <1>4, ConcatProperties
<1> QED BY <1>3, <1>5, <1>8, <1>9 DEF CorPoints, CorLines

LEMMA CorTypedClick == CorTyped /\ UpdateEndPointClick => CorTyped'
<1> SUFFICES ASSUME CorTyped, UpdateEndPointClick PROVE CorTyped'
  OBVIOUS
<1>1. cor \in CorRecord /\ cor.index <= MaxEnds /\ MaxEnds \in Nat
  BY CorridorAssumption DEF CorTyped
<1>2. cor.index \in Nat /\ cor.pts \in CorPoints /\ cor.lines \in CorLines
  BY <1>1 DEF CorRecord
<1>3. Append(cor.pts, EndPoint) \in CorPoints
  BY <1>2, AppendProperties, EndPoint \in CorPoint DEF CorPoints, CorPoint, EndPoint, Point
<1>4. CASE cor.index < MaxEnds /\ cor' = Placed(cor)
  <2> DEFINE P == IF cor.index + 1 < 4 THEN Append(cor.pts, EndPoint) ELSE cor.pts
             a == IF cor.index + 1 < 4 THEN cor.add ELSE FALSE
             t == IF cor.index + 1 < 4 THEN cor.continue ELSE TRUE
             n == cor.index + 1
  <2>1. cor' = [cor EXCEPT !.index = n, !.undoOn = TRUE, !.pts = P, !.add = a, !.continue = t]
    BY <1>1, <1>4 DEF Placed, CorRecord
  <2>2. n \in Nat /\ n <= MaxEnds
    BY <1>1, <1>2, <1>4
  <2>3. P \in CorPoints
    BY <1>2, <1>3
  <2>4. a \in BOOLEAN /\ t \in BOOLEAN
    BY <1>1 DEF CorRecord
  <2> HIDE DEF P, a, t, n
  <2>5. /\ cor' \in CorRecord /\ cor'.index = n /\ cor'.moving = cor.moving
        /\ cor'.point = cor.point
    BY <1>1, <2>1, <2>2, <2>3, <2>4 DEF CorRecord
  <2> QED BY <2>2, <2>5, CorTypedRest DEF CorTyped, UpdateEndPointClick
<1>5. CASE cor' = Continued(cor)
  <2> DEFINE P == Append(cor.pts, EndPoint)
  <2>1. cor' = [cor EXCEPT !.pts = P, !.continue = FALSE, !.add = TRUE]
    BY <1>1, <1>5 DEF Continued, CorRecord
  <2> HIDE DEF P
  <2>2. /\ cor' \in CorRecord /\ cor'.index = cor.index /\ cor'.moving = cor.moving
        /\ cor'.point = cor.point
    BY <1>1, <1>3, <2>1 DEF CorRecord, P
  <2> QED BY <1>1, <2>2, CorTypedRest DEF CorTyped, UpdateEndPointClick
<1>6. CASE cor' = Ended(cor)
  <2> DEFINE L == cor.lines \o Straight(Len(cor.pts))
             P == cor.pts \o [k \in 1..Segments(Len(cor.pts)) |-> Point(TRUE, 2)]
             A == [k \in 1..Segments(Len(cor.pts)) |-> <<>>]
  <2>1. L \in CorLines /\ P \in CorPoints /\ A \in CorLines
    BY <1>2, CorEndedTyped
  <2>2. DOMAIN cor = CorFields
    BY <1>1 DEF CorRecord, CorFields
  <2>3. cor' = [cor EXCEPT !.lines = L, !.pts = P, !.addons = A, !.handlers = "inner",
                           !.saveOn = TRUE, !.undoes = "inner"]
    BY <1>6, <2>2 DEF Ended, CorFields
  <2> HIDE DEF L, P, A
  <2>4. /\ cor' \in CorRecord /\ cor'.index = cor.index /\ cor'.moving = cor.moving
        /\ cor'.point = cor.point
    BY <1>1, <2>1, <2>3 DEF CorRecord
  <2> QED BY <1>1, <2>4, CorTypedRest DEF CorTyped, UpdateEndPointClick
<1> QED BY <1>4, <1>5, <1>6 DEF UpdateEndPointClick

LEMMA CorTypedInner ==
  ASSUME CorTyped, cor' \in CorRecord, UpdateInnerPoint \/ UpdateInnerPointClick
  PROVE  CorTyped'
<1>1. cor \in CorRecord /\ cor.index <= MaxEnds
  BY DEF CorTyped
<1>2. First
  BY DEF UpdateInnerPoint, UpdateInnerPointClick, CorTyped
<1>3. cor'.index = cor.index
  <2>1. CASE UpdateInnerPoint
    BY <1>1, <2>1 DEF UpdateInnerPoint, CorRecord
  <2>2. CASE UpdateInnerPointClick
    BY <1>1, <2>2 DEF UpdateInnerPointClick, CorRecord, Dropped, Lies
  <2> QED BY <2>1, <2>2
<1> QED
  BY <1>1, <1>2, <1>3, CorTypedRest DEF UpdateInnerPoint, UpdateInnerPointClick

LEMMA CorTypedUndo ==
  ASSUME CorTyped, cor' \in CorRecord, UndoCorridor
  PROVE  CorTyped'
<1>1. cor \in CorRecord /\ cor.index <= MaxEnds /\ MaxEnds \in Nat
  BY CorridorAssumption DEF CorTyped
<1>2. First /\ First'
  BY DEF UndoCorridor, First
<1>3. cor.index \in Nat
  BY <1>1 DEF CorRecord
<1>4. cor'.index <= MaxEnds
  <2> DEFINE u == IF cor.undoes = "ends" THEN EndUndone(cor) ELSE InnerUndone(cor)
  <2>1. u.index \in {cor.index, cor.index - 1, cor.index - 1 + 1, 0} /\ DOMAIN u = CorFields
    <3>1. DOMAIN cor = CorFields
      BY <1>1 DEF CorRecord, CorFields
    <3>2. CASE cor.undoes = "ends"
      BY <3>1, <3>2 DEF EndUndone, New, CorFields
    <3>3. CASE cor.undoes # "ends"
      BY <3>1, <3>3 DEF InnerUndone, BackToEnds, MoveUndone, CorFields
    <3> QED BY <3>2, <3>3
  <2>2. cor' = [u EXCEPT !.stale = cor.point # NoMove]
    BY DEF UndoCorridor
  <2> HIDE DEF u
  <2>3. cor'.index = u.index
    BY <2>1, <2>2 DEF CorFields
  <2> QED BY ONLY <1>1, <1>3, <2>1, <2>3
<1> QED
  BY <1>2, <1>4 DEF CorTyped, UndoCorridor

LEMMA CorTypedSave == CorTyped /\ SaveCorridor => CorTyped'
<1> SUFFICES ASSUME CorTyped, SaveCorridor PROVE CorTyped'
  OBVIOUS
<1>1. cor \in CorRecord /\ cor.index <= MaxEnds /\ MaxEnds \in Nat
  BY CorridorAssumption DEF CorTyped
<1>2. cor.index \in Nat /\ cor.lines \in CorLines
  BY <1>1 DEF CorRecord
<1>3. cor.index \in 0..MaxEnds
  BY ONLY <1>1, <1>2
<1>4. corSent' \in [lines : CorLines, ends : 0..MaxEnds]
  BY <1>2, <1>3 DEF SaveCorridor
<1>5. /\ cor' \in CorRecord /\ cor'.index = cor.index /\ cor'.moving = cor.moving
      /\ cor'.point = cor.point
  BY <1>1 DEF CorRecord, SaveCorridor
<1> QED BY <1>1, <1>4, <1>5 DEF CorTyped, SaveCorridor, First

LEMMA CorTypedAnswer ==
  ASSUME CorTyped, NEW ok \in BOOLEAN, SaveAnswer(ok)
  PROVE  CorTyped'
<1> DEFINE P == IF ok THEN <<>> ELSE cor.pts
<1>1. cor \in CorRecord /\ cor.index <= MaxEnds
  BY DEF CorTyped
<1>2. P \in CorPoints
  BY <1>1, EmptySeq DEF CorRecord, CorPoints
<1>3. cor' = [cor EXCEPT !.saving = FALSE, !.pts = P]
  BY <1>1 DEF SaveAnswer, CorRecord
<1> HIDE DEF P
<1>4. /\ cor' \in CorRecord /\ cor'.index = cor.index /\ cor'.moving = cor.moving
      /\ cor'.point = cor.point
  BY <1>1, <1>2, <1>3 DEF CorRecord
<1> QED BY <1>1, <1>4, CorTypedRest DEF CorTyped, SaveAnswer

LEMMA CorTypedStep ==
  DrawnInv /\ CorTyped /\ [CorNext]_corVars => DrawnInv' /\ CorTyped'
<1> SUFFICES ASSUME DrawnInv, CorTyped, [CorNext]_corVars PROVE DrawnInv' /\ CorTyped'
  OBVIOUS
<1>1. DrawnInv'
  BY CorStep
<1>2. First' => cor' \in CorRecord
  BY <1>1 DEF DrawnInv, CorOK
<1>3. ASSUME UpdateInnerPoint \/ UpdateInnerPointClick PROVE CorTyped'
  <2>1. First'
    BY <1>3 DEF UpdateInnerPoint, UpdateInnerPointClick, CorTyped, First
  <2> QED BY <1>2, <1>3, <2>1, CorTypedInner
<1>4. ASSUME UndoCorridor PROVE CorTyped'
  <2>1. First'
    BY <1>4 DEF UndoCorridor, First
  <2> QED BY <1>2, <1>4, <2>1, CorTypedUndo
<1>5. ASSUME UNCHANGED corVars PROVE CorTyped'
  BY <1>5 DEF CorTyped, corVars, First
<1>6. CorTyped'
  BY <1>3, <1>4, <1>5, CorTypedNew, CorTypedNear, CorTypedClick, CorTypedSave, CorTypedAnswer
     DEF CorNext
<1> QED BY <1>1, <1>6

(* What a drawing keeps has its type, for any number of end points, drags and *)
(* corridors of a page (ihp.js, oCurState).                                   *)
THEOREM CorridorTypeCorrect == CorSpec => []CorTypeOK
<1>1. CorInit => DrawnInv /\ CorTyped
  BY CorStart, CorTypedInitial
<1>2. DrawnInv /\ CorTyped => CorTypeOK
  BY CorTypeFromTyped
<1> QED BY <1>1, <1>2, CorTypedStep, PTL DEF CorSpec


-----------------------------------------------------------------------------
(* SegmentTrack, for any road, segments digitised either way and any drags:    *)
(* the line is its segments, the markers are on it and what is lit runs from   *)
(* one to the other.                                                           *)

(* The way a segment is digitised: 1 along the road, -1 against it.            *)
Way(s) == IF s \in trkRoad THEN -1 ELSE 1
Ways == {1, -1}
Extent(s) == Bends[s + 1] - Bends[s]
Begin(s) == IF s \in trkRoad THEN Bends[s + 1] ELSE Bends[s]
End(s) == IF s \in trkRoad THEN Bends[s] ELSE Bends[s + 1]
Road == Bends[1]..Bends[Len(Bends)]

(* A line that goes one way, point by point.                                   *)
Runs(line, d) ==
  /\ line \in Seq(Nat) /\ Len(line) >= 2 /\ d \in Ways
  /\ \A k \in 1..Len(line) :
       line[k] \in Road /\ line[k] = (IF d = 1 THEN line[1] + (k - 1) ELSE line[1] - (k - 1))

(* How far from the start of the line a place is.                              *)
Off(line, d, place) == IF d = 1 THEN place - 2 * line[1] ELSE 2 * line[1] - place

(* A function on 1..n is a sequence.                                           *)
LEMMA TrkSequence ==
  ASSUME NEW S, NEW n \in Nat, NEW f \in [1..n -> S]
  PROVE  f \in Seq(S) /\ Len(f) = n /\ DOMAIN f = 1..n
<1>1. f \in Seq(S)
  BY SeqDef
<1> QED BY <1>1, LenProperties

(* The part of a sequence from one place to another.                           *)
LEMMA TrkPart ==
  ASSUME NEW S, NEW s \in Seq(S), NEW m \in 1..(Len(s) + 1), NEW n \in 0..Len(s), m <= n + 1
  PROVE  /\ SubSeq(s, m, n) \in Seq(S) /\ Len(SubSeq(s, m, n)) = n - m + 1
         /\ \A k \in 1..(n - m + 1) : SubSeq(s, m, n)[k] = s[m + k - 1]
<1>1. Len(s) \in Nat /\ DOMAIN s = 1..Len(s) /\ \A k \in 1..Len(s) : s[k] \in S
  BY LenProperties, ElementOfSeq
<1>2. n - m + 1 \in Nat /\ \A k \in 1..(n - m + 1) : m + k - 1 \in 1..Len(s)
  BY <1>1
<1>3. SubSeq(s, m, n) = [k \in 1..(n - m + 1) |-> s[m + k - 1]]
  BY <1>1, <1>2
<1>4. SubSeq(s, m, n) \in [1..(n - m + 1) -> S]
  BY <1>1, <1>2, <1>3
<1>5. SubSeq(s, m, n) \in Seq(S) /\ Len(SubSeq(s, m, n)) = n - m + 1
  BY <1>2, <1>4, TrkSequence
<1> QED BY <1>3, <1>5

(* What is left of a sequence without its first elements.                      *)
LEMMA TrkRest ==
  ASSUME NEW S, NEW s \in Seq(S), NEW c \in 0..Len(s)
  PROVE  /\ SubSeq(s, c + 1, Len(s)) \in Seq(S) /\ Len(SubSeq(s, c + 1, Len(s))) = Len(s) - c
         /\ \A k \in 1..(Len(s) - c) : SubSeq(s, c + 1, Len(s))[k] = s[c + k]
<1> DEFINE w == SubSeq(s, c + 1, Len(s))
<1>1. Len(s) \in Nat
  BY LenProperties
<1>2. c + 1 \in 1..(Len(s) + 1) /\ Len(s) \in 0..Len(s) /\ c + 1 <= Len(s) + 1
      /\ Len(s) - (c + 1) + 1 = Len(s) - c
      /\ \A k \in 1..(Len(s) - c) : (c + 1) + k - 1 = c + k
  BY <1>1
<1>3. /\ w \in Seq(S) /\ Len(w) = Len(s) - (c + 1) + 1
      /\ \A k \in 1..(Len(s) - (c + 1) + 1) : w[k] = s[(c + 1) + k - 1]
  BY <1>2, TrkPart, ZenonT(30)
<1> HIDE DEF w
<1>4. /\ w \in Seq(S) /\ Len(w) = Len(s) - c
      /\ \A k \in 1..(Len(s) - c) : w[k] = s[c + k]
  BY ONLY <1>2, <1>3
<1> QED BY <1>4 DEF w

(* The first elements of a sequence.                                           *)
LEMMA TrkFirst ==
  ASSUME NEW S, NEW s \in Seq(S), NEW m \in 0..Len(s)
  PROVE  /\ SubSeq(s, 1, m) \in Seq(S) /\ Len(SubSeq(s, 1, m)) = m
         /\ \A k \in 1..m : SubSeq(s, 1, m)[k] = s[k]
<1> DEFINE w == SubSeq(s, 1, m)
<1>1. Len(s) \in Nat
  BY LenProperties
<1>2. 1 \in 1..(Len(s) + 1) /\ 1 <= m + 1 /\ m - 1 + 1 = m /\ \A k \in 1..m : 1 + k - 1 = k
  BY <1>1
<1>3. w \in Seq(S) /\ Len(w) = m - 1 + 1 /\ \A k \in 1..(m - 1 + 1) : w[k] = s[1 + k - 1]
  BY <1>2, TrkPart
<1> HIDE DEF w
<1>4. w \in Seq(S) /\ Len(w) = m /\ \A k \in 1..m : w[k] = s[k]
  BY ONLY <1>2, <1>3
<1> QED BY <1>4 DEF w

(* One sequence after another.                                                 *)
LEMMA TrkJoined ==
  ASSUME NEW S, NEW a \in Seq(S), NEW b \in Seq(S)
  PROVE  /\ a \o b \in Seq(S) /\ Len(a \o b) = Len(a) + Len(b)
         /\ \A i \in 1..Len(a) : (a \o b)[i] = a[i]
         /\ \A i \in 1..Len(b) : (a \o b)[Len(a) + i] = b[i]
<1>1. Len(a) \in Nat /\ Len(b) \in Nat
  BY LenProperties
<1> DEFINE c == a \o b
<1>2. /\ c \in Seq(S) /\ Len(c) = Len(a) + Len(b)
      /\ \A i \in 1..(Len(a) + Len(b)) : c[i] = IF i <= Len(a) THEN a[i] ELSE b[i - Len(a)]
  BY ConcatProperties, Zenon
<1> HIDE DEF c
<1>3. \A i \in 1..Len(a) : c[i] = a[i]
  BY <1>1, <1>2
<1>4. ASSUME NEW i \in 1..Len(b) PROVE c[Len(a) + i] = b[i]
  <2>1. /\ Len(a) + i \in 1..(Len(a) + Len(b)) /\ ~(Len(a) + i <= Len(a))
        /\ (Len(a) + i) - Len(a) = i
    BY <1>1
  <2> QED BY <1>2, <2>1
<1> QED BY <1>2, <1>3, <1>4 DEF c

LEMMA RoadGiven ==
  /\ Len(Bends) \in Nat /\ Len(Bends) >= 2 /\ DOMAIN Bends = 1..Len(Bends)
  /\ \A k \in 1..Len(Bends) : Bends[k] \in Nat
  /\ \A k \in 1..(Len(Bends) - 1) : Bends[k] < Bends[k + 1]
BY TrackAssumption, LenProperties, ElementOfSeq DEF TrackAssumption

(* The bends ascend.                                                           *)
LEMMA BendsAscend ==
  \A i, j \in 1..Len(Bends) : i <= j => Bends[i] <= Bends[j]
<1> SUFFICES ASSUME NEW i \in 1..Len(Bends), NEW j0 \in 1..Len(Bends), i <= j0, Bends[i] > Bends[j0]
             PROVE  FALSE
  BY RoadGiven
<1> DEFINE T == {j \in 1..Len(Bends) : i <= j /\ Bends[i] > Bends[j]}
<1>1. T \subseteq Nat /\ T # {}
  <2>1. j0 \in T
    OBVIOUS
  <2>2. \A j \in 1..Len(Bends) : j \in Nat
    BY RoadGiven
  <2> QED BY <2>1, <2>2
<1>2. PICK x \in T : \A y \in T : ~(<<y, x>> \in OpToRel(<, Nat))
  BY <1>1, NatLessThanWellFounded, WFMin, Zenon
<1>3. \A y \in T : y \in Nat /\ x \in Nat /\ ~(y < x)
  BY <1>1, <1>2 DEF OpToRel
<1>4. x # i
  BY RoadGiven
<1>5. x - 1 \in 1..(Len(Bends) - 1) /\ i <= x - 1
  BY <1>4, RoadGiven
<1>6. Bends[x - 1] < Bends[(x - 1) + 1] /\ Bends[x - 1] \in Nat /\ Bends[x] \in Nat /\ Bends[i] \in Nat
  BY <1>5, RoadGiven
<1>7. x - 1 \in T
  BY <1>5, <1>6, RoadGiven
<1> QED BY <1>3, <1>7

(* Where a segment begins and ends, and that its points lie in between.        *)
LEMMA SegmentSpans ==
  ASSUME NEW s \in Segs
  PROVE  /\ Begin(s) \in Road /\ End(s) \in Road /\ Extent(s) \in Nat \ {0} /\ Way(s) \in Ways
         /\ Road \subseteq Nat /\ Begin(s) \in Nat /\ End(s) \in Nat
         /\ End(s) = (IF Way(s) = 1 THEN Begin(s) + Extent(s) ELSE Begin(s) - Extent(s))
<1>1. s \in 1..Len(Bends) /\ s + 1 \in 1..Len(Bends) /\ Bends[s] < Bends[s + 1] /\ s \in 1..(Len(Bends) - 1)
  BY RoadGiven DEF Segs
<1>2. 1 \in 1..Len(Bends) /\ Len(Bends) \in 1..Len(Bends)
  BY RoadGiven
<1>3. \A i \in 1..Len(Bends) : Bends[i] \in Nat
  BY RoadGiven
<1>4. Bends[1] <= Bends[s] /\ Bends[s + 1] <= Bends[Len(Bends)]
  BY <1>1, <1>2, BendsAscend
<1>5. Bends[1] \in Nat /\ Bends[s] \in Nat /\ Bends[s + 1] \in Nat /\ Bends[Len(Bends)] \in Nat
  BY <1>1, <1>2, <1>3
<1> QED BY <1>1, <1>4, <1>5 DEF Begin, End, Extent, Way, Ways, Road

(* The points of a segment.                                                    *)
LEMMA PointsAre ==
  ASSUME NEW s \in Segs
  PROVE  /\ PointsOf(s) \in Seq(Nat) /\ Len(PointsOf(s)) = Extent(s) + 1
         /\ \A k \in 1..(Extent(s) + 1) :
              PointsOf(s)[k] = (IF Way(s) = 1 THEN Begin(s) + (k - 1) ELSE Begin(s) - (k - 1))
<1>1. /\ s \in 1..(Len(Bends) - 1) /\ Bends[s] \in Nat /\ Bends[s + 1] \in Nat /\ Bends[s] < Bends[s + 1]
  BY RoadGiven DEF Segs
<1> DEFINE n == Bends[s + 1] - Bends[s] + 1
<1>2. n \in Nat /\ n = Extent(s) + 1
  BY <1>1 DEF Extent
<1>3. Along(s) = [k \in 1..n |-> Bends[s] + k - 1]
  BY DEF Along
<1>4. \A k \in 1..n : Bends[s] + k - 1 \in Nat
  BY <1>1
<1>5. Along(s) \in Seq(Nat) /\ Len(Along(s)) = n
  <2>1. Along(s) \in [1..n -> Nat]
    BY <1>3, <1>4
  <2> QED BY <1>2, <2>1, TrkSequence
<1>6. CASE s \notin trkRoad
  BY <1>1, <1>2, <1>3, <1>5, <1>6 DEF PointsOf, Way, Begin
<1>7. CASE s \in trkRoad
  <2>1. PointsOf(s) = [i \in 1..n |-> Along(s)[(n - i) + 1]]
    BY <1>5, <1>7 DEF PointsOf, Reverse
  <2>2. \A i \in 1..n : (n - i) + 1 \in 1..n
    BY <1>2
  <2>3. \A i \in 1..n : PointsOf(s)[i] = Bends[s] + ((n - i) + 1) - 1
    BY <2>1, <2>2, <1>3
  <2>4. PointsOf(s) \in [1..n -> Nat]
    BY <2>1, <2>2, <1>3, <1>4
  <2>5. PointsOf(s) \in Seq(Nat) /\ Len(PointsOf(s)) = n
    BY <1>2, <2>4, TrkSequence
  <2>6. \A i \in 1..n : Bends[s] + ((n - i) + 1) - 1 = Bends[s + 1] - (i - 1)
    BY <1>1
  <2> QED BY <1>2, <1>7, <2>3, <2>5, <2>6 DEF Way, Begin
<1> QED BY <1>6, <1>7

-----------------------------------------------------------------------------
(* Where a place is on a straight line.                                        *)
LEMMA StraightPoints ==
  ASSUME NEW line, NEW d, Runs(line, d)
  PROVE  /\ Len(line) \in Nat /\ Len(line) >= 2 /\ d \in {1, -1} /\ line \in Seq(Nat)
         /\ Final(line) = Len(line) - 1 /\ Final(line) \in Nat /\ line[1] \in Nat
         /\ \A i \in 0..Final(line) :
              /\ PointAt(line, i) = (IF d = 1 THEN line[1] + i ELSE line[1] - i)
              /\ PointAt(line, i) \in Nat /\ 2 * PointAt(line, i) \in Places
              /\ Off(line, d, 2 * PointAt(line, i)) = 2 * i
<1>1. Len(line) \in Nat /\ Len(line) >= 2 /\ d \in {1, -1} /\ \A k \in 1..Len(line) : line[k] \in Nat
  BY LenProperties, ElementOfSeq DEF Runs, Ways
<1>2. Final(line) = Len(line) - 1 /\ Final(line) \in Nat /\ line[1] \in Nat
  BY <1>1 DEF Final
<1>3. ASSUME NEW i \in 0..Final(line)
      PROVE  /\ PointAt(line, i) = (IF d = 1 THEN line[1] + i ELSE line[1] - i)
             /\ PointAt(line, i) \in Nat /\ PointAt(line, i) \in Road
  <2>1. i + 1 \in 1..Len(line) /\ i \in Nat
    BY <1>1, <1>2
  <2>2. line[i + 1] \in Road /\ line[i + 1] = (IF d = 1 THEN line[1] + ((i + 1) - 1) ELSE line[1] - ((i + 1) - 1))
    BY <2>1 DEF Runs
  <2> QED BY <1>1, <1>2, <2>1, <2>2 DEF PointAt
<1>4. Bends[1] \in Nat /\ Bends[Len(Bends)] \in Nat
  BY RoadGiven
<1>5. \A i \in 0..Final(line) : 2 * PointAt(line, i) \in Places
  <2> TAKE i \in 0..Final(line)
  <2>1. PointAt(line, i) \in Nat /\ PointAt(line, i) \in Bends[1]..Bends[Len(Bends)]
    BY <1>3 DEF Road
  <2> QED BY <1>4, <2>1 DEF Places
<1>6. \A i \in 0..Final(line) : Off(line, d, 2 * PointAt(line, i)) = 2 * i
  BY <1>1, <1>2, <1>3, SMTT(20) DEF Off
<1> QED BY <1>1, <1>2, <1>3, <1>5, <1>6 DEF Runs

(* The pieces of a line that a place is on.                                    *)
LEMMA PiecesAre ==
  ASSUME NEW line, NEW d, Runs(line, d), NEW place \in Int
  PROVE  /\ Off(line, d, place) \in Int
         /\ Pieces(line, place) =
              {i \in 1..Final(line) : 2 * i - 2 <= Off(line, d, place) /\ Off(line, d, place) <= 2 * i}
<1>1. /\ Final(line) \in Nat /\ line[1] \in Nat /\ d \in {1, -1}
      /\ \A i \in 0..Final(line) : PointAt(line, i) = (IF d = 1 THEN line[1] + i ELSE line[1] - i)
  BY StraightPoints
<1>2. Off(line, d, place) \in Int
  BY <1>1 DEF Off
<1>3. ASSUME NEW i \in 1..Final(line)
      PROVE  OnPiece(line, place, i)
               <=> (2 * i - 2 <= Off(line, d, place) /\ Off(line, d, place) <= 2 * i)
  <2>1. i - 1 \in 0..Final(line) /\ i \in 0..Final(line) /\ i \in Nat
    BY <1>1
  <2>2. /\ PointAt(line, i) = (IF d = 1 THEN line[1] + i ELSE line[1] - i)
        /\ PointAt(line, i - 1) = (IF d = 1 THEN line[1] + (i - 1) ELSE line[1] - (i - 1))
    BY <1>1, <2>1
  <2>3. CASE d = 1
    BY <1>1, <2>1, <2>2, <2>3 DEF OnPiece, Off
  <2>4. CASE d # 1
    BY <1>1, <2>1, <2>2, <2>4 DEF OnPiece, Off
  <2> QED BY <2>3, <2>4
<1> QED BY <1>2, <1>3 DEF Pieces

(* A place on the line, and the last piece it is on.                           *)
LEMMA TopPiece ==
  ASSUME NEW line, NEW d, Runs(line, d), NEW place \in Int
  PROVE  /\ IsOn(line, place) <=> Off(line, d, place) \in 0..(2 * Final(line))
         /\ IsOn(line, place) =>
              LET p == Max(Pieces(line, place)) IN
                /\ p \in 1..Final(line)
                /\ 2 * p - 2 <= Off(line, d, place) /\ Off(line, d, place) <= 2 * p
                /\ Off(line, d, place) = 2 * p => p = Final(line)
<1> DEFINE x == Off(line, d, place)
           n == Final(line)
           P == Pieces(line, place)
           top == IF x = 2 * n THEN n ELSE x \div 2 + 1
<1>1. n \in Nat /\ n >= 1 /\ x \in Int /\ P = {i \in 1..n : 2 * i - 2 <= x /\ x <= 2 * i}
  <2>1. n \in Nat /\ n >= 1
    BY StraightPoints
  <2>2. x \in Int /\ P = {i \in 1..n : 2 * i - 2 <= x /\ x <= 2 * i}
    BY PiecesAre
  <2> QED BY <2>1, <2>2
<1> HIDE DEF x, n, P
<1>2. \A i \in P : x \in 0..(2 * n) /\ i \in Nat
  BY <1>1
<1>3. ASSUME x \in 0..(2 * n)
      PROVE  /\ top \in P /\ \A i \in P : top >= i
             /\ x = 2 * top => top = n
  <2>1. x \div 2 \in Int /\ 2 * (x \div 2) <= x /\ x <= 2 * (x \div 2) + 1
    BY <1>3, <1>1
  <2>2. CASE x = 2 * n
    BY <1>1, <2>2
  <2>3. CASE x # 2 * n
    BY <1>1, <1>3, <2>1, <2>3
  <2> QED BY <2>2, <2>3
<1>4. ASSUME x \in 0..(2 * n) PROVE Max(P) = top
  <2> HIDE DEF top
  <2>1. top \in P /\ \A i \in P : top >= i
    BY <1>3, <1>4
  <2>2. \A i \in P : i \in Int
    BY <1>1
  <2>3. \A y \in P : (\A i \in P : y >= i) => y = top
    BY <2>1, <2>2
  <2> QED BY <2>1, <2>3 DEF Max
<1>5. IsOn(line, place) <=> x \in 0..(2 * n)
  BY <1>2, <1>3 DEF IsOn, P
<1>6. ASSUME x \in 0..(2 * n)
      PROVE  /\ Max(P) \in 1..n /\ 2 * Max(P) - 2 <= x /\ x <= 2 * Max(P)
             /\ x = 2 * Max(P) => Max(P) = n
  BY <1>1, <1>3, <1>4, <1>6
<1> QED BY <1>5, <1>6 DEF x, n, P

(* What the indexes around two places on a line mean: sub1 is the first point  *)
(* not before the first of them, sub2 the last one not after the second, or     *)
(* no point is between the two.                                                *)
Enclosed(line, d, markers, at) ==
  /\ at.sub1 \in 0..Final(line) /\ at.sub2 \in 0..Final(line) /\ at.sub2 >= at.sub1 - 1
  /\ {at.lit1, at.lit2} = {markers[1], markers[2]}
  /\ Off(line, d, at.lit1) <= Off(line, d, at.lit2)
  /\ at.sub1 <= at.sub2 => /\ Off(line, d, at.lit1) <= 2 * at.sub1
                           /\ 2 * at.sub2 <= Off(line, d, at.lit2)

(* How far the line may be cut back.                                           *)
Spans(line, d, markers, sub1, sub2) ==
  \A m \in {1, 2} : /\ 2 * (sub1 - 1) <= Off(line, d, markers[m])
                    /\ Off(line, d, markers[m]) <= 2 * (sub2 + 1)

(* How far a place is from a point of the line.                                *)
LEMMA AwayFrom ==
  ASSUME NEW line, NEW d, Runs(line, d), NEW place \in Int, NEW i \in 0..Final(line)
  PROVE  LET ep == 2 * PointAt(line, i) IN
         (IF place > ep THEN place - ep ELSE ep - place)
           = (IF Off(line, d, place) > 2 * i THEN Off(line, d, place) - 2 * i ELSE 2 * i - Off(line, d, place))
<1>1. /\ Final(line) \in Nat /\ line[1] \in Nat /\ d \in {1, -1} /\ i \in Nat
      /\ PointAt(line, i) = (IF d = 1 THEN line[1] + i ELSE line[1] - i)
  BY StraightPoints
<1>2. CASE d = 1
  BY <1>1, <1>2 DEF Off
<1>3. CASE d # 1
  BY <1>1, <1>3 DEF Off
<1> QED BY <1>2, <1>3

(* Two places in the order of their pieces, as _getMarkerLocations takes them.  *)
LEMMA PlacedInOrder ==
  ASSUME NEW line, NEW d, Runs(line, d), NEW m1 \in Int, NEW m2 \in Int,
         IsOn(line, m1), IsOn(line, m2),
         NEW p1, NEW p2, p1 = Max(Pieces(line, m1)), p2 = Max(Pieces(line, m2)), p1 <= p2,
         NEW sub1, NEW sub2,
         sub2 = IF m2 = 2 * PointAt(line, p2) THEN p2 ELSE p2 - 1,
         sub1 = IF m1 = 2 * PointAt(line, p1 - 1) THEN p1 - 1 ELSE p1,
         NEW lit, lit = Ordered(line, sub1, sub2, m1, m2)
  PROVE  /\ sub1 \in 0..Final(line) /\ sub2 \in 0..Final(line) /\ sub2 >= sub1 - 1
         /\ {lit[1], lit[2]} = {m1, m2}
         /\ Off(line, d, lit[1]) <= Off(line, d, lit[2])
         /\ sub1 <= sub2 => Off(line, d, lit[1]) <= 2 * sub1 /\ 2 * sub2 <= Off(line, d, lit[2])
         /\ \A m \in {m1, m2} : 2 * (sub1 - 1) <= Off(line, d, m) /\ Off(line, d, m) <= 2 * (sub2 + 1)
<1> DEFINE x1 == Off(line, d, m1)
           x2 == Off(line, d, m2)
           n == Final(line)
<1>1. n \in Nat /\ line[1] \in Nat /\ d \in {1, -1}
  BY StraightPoints
<1>2. /\ p1 \in 1..n /\ 2 * p1 - 2 <= x1 /\ x1 <= 2 * p1 /\ (x1 = 2 * p1 => p1 = n)
      /\ p2 \in 1..n /\ 2 * p2 - 2 <= x2 /\ x2 <= 2 * p2 /\ (x2 = 2 * p2 => p2 = n)
  BY TopPiece
<1>3. x1 \in Int /\ x2 \in Int
  BY <1>1 DEF Off
<1>4. \A m \in Int, i \in 0..n : m = 2 * PointAt(line, i) <=> Off(line, d, m) = 2 * i
  <2> TAKE m \in Int, i \in 0..n
  <2>1. PointAt(line, i) = (IF d = 1 THEN line[1] + i ELSE line[1] - i)
    BY StraightPoints
  <2> QED BY <1>1, <2>1, SMTT(20) DEF Off
<1>5. p1 \in Nat /\ p2 \in Nat /\ p1 - 1 \in 0..n /\ p2 \in 0..n
  BY <1>1, <1>2
<1>6. /\ sub2 = IF x2 = 2 * p2 THEN p2 ELSE p2 - 1
      /\ sub1 = IF x1 = 2 * (p1 - 1) THEN p1 - 1 ELSE p1
  BY <1>4, <1>5
<1> DEFINE away1 == IF x1 > 2 * sub1 THEN x1 - 2 * sub1 ELSE 2 * sub1 - x1
           away2 == IF x2 > 2 * sub1 THEN x2 - 2 * sub1 ELSE 2 * sub1 - x2
<1>7. sub1 \in 0..n /\ sub2 \in 0..n /\ sub1 \in Int /\ sub2 \in Int
  BY <1>1, <1>2, <1>5, <1>6
<1>8. lit = IF sub2 - sub1 = -1 /\ away2 > away1 THEN <<m2, m1>> ELSE <<m1, m2>>
  <2>1. (IF m1 > 2 * PointAt(line, sub1) THEN m1 - 2 * PointAt(line, sub1) ELSE 2 * PointAt(line, sub1) - m1) = away1
    BY <1>7, AwayFrom
  <2>2. (IF m2 > 2 * PointAt(line, sub1) THEN m2 - 2 * PointAt(line, sub1) ELSE 2 * PointAt(line, sub1) - m2) = away2
    BY <1>7, AwayFrom
  <2> QED BY <2>1, <2>2 DEF Ordered
<1> HIDE DEF x1, x2, n
<1>9. CASE sub2 - sub1 = -1 /\ away2 > away1
  <2>1. lit[1] = m2 /\ lit[2] = m1
    BY <1>8, <1>9
  <2>2. x2 <= x1 /\ ~(sub1 <= sub2) /\ sub2 >= sub1 - 1
    BY <1>1, <1>2, <1>3, <1>5, <1>6, <1>7, <1>9
  <2>3. 2 * (sub1 - 1) <= x1 /\ x1 <= 2 * (sub2 + 1) /\ 2 * (sub1 - 1) <= x2 /\ x2 <= 2 * (sub2 + 1)
    BY <1>1, <1>2, <1>3, <1>5, <1>6, <1>7, <1>9
  <2> QED BY <1>7, <2>1, <2>2, <2>3 DEF x1, x2, n
<1>10. CASE ~(sub2 - sub1 = -1 /\ away2 > away1)
  <2>1. lit[1] = m1 /\ lit[2] = m2
    BY <1>8, <1>10
  <2>2. x1 <= x2 /\ sub2 >= sub1 - 1 /\ (sub1 <= sub2 => x1 <= 2 * sub1 /\ 2 * sub2 <= x2)
    BY <1>1, <1>2, <1>3, <1>5, <1>6, <1>7, <1>10
  <2>3. 2 * (sub1 - 1) <= x1 /\ x1 <= 2 * (sub2 + 1) /\ 2 * (sub1 - 1) <= x2 /\ x2 <= 2 * (sub2 + 1)
    BY <1>1, <1>2, <1>3, <1>5, <1>6, <1>7, <1>10
  <2> QED BY <1>7, <2>1, <2>2, <2>3 DEF x1, x2, n
<1> QED BY <1>9, <1>10

(* What _getMarkerLocations finds for two markers on the line.                 *)
LEMMA LocationsAre ==
  ASSUME NEW line, NEW d, Runs(line, d), NEW markers, markers[1] \in Int, markers[2] \in Int,
         IsOn(line, markers[1]), IsOn(line, markers[2])
  PROVE  LET at == Locations(line, markers) IN
         Enclosed(line, d, markers, at) /\ Spans(line, d, markers, at.sub1, at.sub2)
<1> DEFINE i1 == Max(Pieces(line, markers[1]))
           i2 == Max(Pieces(line, markers[2]))
           at == Locations(line, markers)
<1>1. i1 \in Int /\ i2 \in Int
  BY TopPiece
<1>2. CASE i2 >= i1
  <2> DEFINE sub2 == IF markers[2] = 2 * PointAt(line, i2) THEN i2 ELSE i2 - 1
             sub1 == IF markers[1] = 2 * PointAt(line, i1 - 1) THEN i1 - 1 ELSE i1
             lit == Ordered(line, sub1, sub2, markers[1], markers[2])
  <2>1. at = [sub1 |-> sub1, sub2 |-> sub2, lit1 |-> lit[1], lit2 |-> lit[2]]
    BY <1>2 DEF Locations
  <2> HIDE DEF i1, i2
  <2>2. i1 <= i2 /\ i1 = Max(Pieces(line, markers[1])) /\ i2 = Max(Pieces(line, markers[2]))
    BY <1>1, <1>2 DEF i1, i2
  <2> HIDE DEF sub1, sub2, lit, at
  <2>3. /\ sub1 \in 0..Final(line) /\ sub2 \in 0..Final(line) /\ sub2 >= sub1 - 1
        /\ {lit[1], lit[2]} = {markers[1], markers[2]}
        /\ Off(line, d, lit[1]) <= Off(line, d, lit[2])
        /\ sub1 <= sub2 => Off(line, d, lit[1]) <= 2 * sub1 /\ 2 * sub2 <= Off(line, d, lit[2])
        /\ \A m \in {markers[1], markers[2]} :
             2 * (sub1 - 1) <= Off(line, d, m) /\ Off(line, d, m) <= 2 * (sub2 + 1)
    BY <2>2, PlacedInOrder DEF sub1, sub2, lit
  <2> QED BY <2>1, <2>3 DEF Enclosed, Spans, at
<1>3. CASE ~(i2 >= i1)
  <2> DEFINE sub2 == IF markers[1] = 2 * PointAt(line, i1) THEN i1 ELSE i1 - 1
             sub1 == IF markers[2] = 2 * PointAt(line, i2 - 1) THEN i2 - 1 ELSE i2
             lit == Ordered(line, sub1, sub2, markers[2], markers[1])
  <2>1. at = [sub1 |-> sub1, sub2 |-> sub2, lit1 |-> lit[1], lit2 |-> lit[2]]
    BY <1>3 DEF Locations
  <2> HIDE DEF i1, i2
  <2>2. i2 <= i1 /\ i1 = Max(Pieces(line, markers[1])) /\ i2 = Max(Pieces(line, markers[2]))
    BY <1>1, <1>3 DEF i1, i2
  <2> HIDE DEF sub1, sub2, lit, at
  <2>3. /\ sub1 \in 0..Final(line) /\ sub2 \in 0..Final(line) /\ sub2 >= sub1 - 1
        /\ {lit[1], lit[2]} = {markers[2], markers[1]}
        /\ Off(line, d, lit[1]) <= Off(line, d, lit[2])
        /\ sub1 <= sub2 => Off(line, d, lit[1]) <= 2 * sub1 /\ 2 * sub2 <= Off(line, d, lit[2])
        /\ \A m \in {markers[2], markers[1]} :
             2 * (sub1 - 1) <= Off(line, d, m) /\ Off(line, d, m) <= 2 * (sub2 + 1)
    BY <2>2, PlacedInOrder DEF sub1, sub2, lit
  <2> QED BY <2>1, <2>3 DEF Enclosed, Spans, at
<1> QED BY <1>1, <1>2, <1>3

-----------------------------------------------------------------------------
(* What is lit runs from one marker to the other, the way the line goes.       *)
LitFits(lit, d, markers) ==
  /\ lit \in Seq(Places) /\ Len(lit) >= 2
  /\ {lit[1], lit[Len(lit)]} = {markers[1], markers[2]}
  /\ \A k \in 2..Len(lit) : IF d = 1 THEN lit[k - 1] <= lit[k] ELSE lit[k - 1] >= lit[k]

LEMMA PlacesInt == Places \subseteq Int
BY RoadGiven DEF Places

(* The order of places and of their distances from the start.                  *)
LEMMA OffOrders ==
  ASSUME NEW line, NEW d, Runs(line, d), NEW p \in Int, NEW q \in Int
  PROVE  /\ Off(line, d, p) \in Int
         /\ Off(line, d, p) <= Off(line, d, q) <=> (IF d = 1 THEN p <= q ELSE p >= q)
<1>1. line[1] \in Nat /\ d \in {1, -1}
  BY StraightPoints
<1> QED BY <1>1 DEF Off

LEMMA LitIsInOrder ==
  ASSUME NEW line, NEW d, Runs(line, d), NEW markers, NEW at, Enclosed(line, d, markers, at),
         at.lit1 \in Places, at.lit2 \in Places
  PROVE  LitFits(Lit(line, at), d, markers)
<1> DEFINE a == at.lit1
           b == at.lit2
<1>1. a \in Int /\ b \in Int
  BY PlacesInt
<1>2. IF d = 1 THEN a <= b ELSE a >= b
  BY <1>1, OffOrders DEF Enclosed
<1>3. at.sub1 \in 0..Final(line) /\ at.sub2 \in 0..Final(line) /\ Final(line) \in Nat
  BY StraightPoints DEF Enclosed
<1>4. CASE at.sub2 < at.sub1
  <2>1. Lit(line, at) = <<a, b>>
    BY <1>4 DEF Lit
  <2>2. <<a, b>> \in Seq(Places) /\ Len(<<a, b>>) = 2 /\ <<a, b>>[1] = a /\ <<a, b>>[2] = b
    OBVIOUS
  <2>3. \A k \in 2..2 : k = 2
    OBVIOUS
  <2> QED BY <1>2, <2>1, <2>2, <2>3 DEF LitFits, Enclosed
<1>5. CASE ~(at.sub2 < at.sub1)
  <2> DEFINE n == at.sub2 - at.sub1
             mid == [k \in 1..n |-> 2 * PointAt(line, at.sub1 + k - 1)]
             lit == Lit(line, at)
  <2>1. n \in Nat
    BY <1>3, <1>5
  <2>2. \A k \in 1..n : at.sub1 + k - 1 \in 0..Final(line)
    BY <1>3, <1>5
  <2>3. \A k \in 1..n : 2 * PointAt(line, at.sub1 + k - 1) \in Places
    BY <2>2, StraightPoints
  <2>4. mid \in Seq(Places) /\ Len(mid) = n
    BY <2>1, <2>3, TrkSequence
  <2>5. lit = <<a>> \o mid \o <<b>>
    BY <1>5 DEF Lit
  <2>6. /\ <<a>> \in Seq(Places) /\ Len(<<a>>) = 1 /\ <<a>>[1] = a
        /\ <<b>> \in Seq(Places) /\ Len(<<b>>) = 1 /\ <<b>>[1] = b
    OBVIOUS
  <2> HIDE DEF mid, n, lit
  <2> DEFINE u == <<a>> \o mid
  <2>7. /\ u \in Seq(Places) /\ Len(u) = n + 1
        /\ u[1] = a /\ \A k \in 1..n : u[k + 1] = mid[k]
    <3>1. /\ u \in Seq(Places) /\ Len(u) = Len(<<a>>) + Len(mid)
          /\ \A i \in 1..Len(<<a>>) : u[i] = <<a>>[i]
          /\ \A i \in 1..Len(mid) : u[Len(<<a>>) + i] = mid[i]
      <4>1. <<a>> \in Seq(Places) /\ mid \in Seq(Places)
        BY <2>4, <2>6
      <4> QED BY ONLY <4>1, TrkJoined DEF u
    <3> HIDE DEF u
    <3> QED BY <2>1, <2>4, <2>6, <3>1
  <2> HIDE DEF u
  <2>8. /\ lit \in Seq(Places) /\ Len(lit) = n + 2
        /\ lit[1] = a /\ lit[n + 2] = b /\ \A k \in 1..n : lit[k + 1] = mid[k]
    <3>1. /\ u \o <<b>> \in Seq(Places) /\ Len(u \o <<b>>) = Len(u) + Len(<<b>>)
          /\ \A i \in 1..Len(u) : (u \o <<b>>)[i] = u[i]
          /\ \A i \in 1..Len(<<b>>) : (u \o <<b>>)[Len(u) + i] = <<b>>[i]
      <4>1. u \in Seq(Places) /\ <<b>> \in Seq(Places)
        BY <2>6, <2>7
      <4> QED BY ONLY <4>1, TrkJoined
    <3>2. lit = u \o <<b>>
      BY <2>5 DEF u
    <3> QED BY <2>1, <2>6, <2>7, <3>1, <3>2
  <2>9. \A k \in 1..n : Off(line, d, mid[k]) = 2 * (at.sub1 + k - 1) /\ mid[k] \in Int
    BY <2>2, <2>3, StraightPoints, PlacesInt DEF mid
  <2>10. Off(line, d, a) <= 2 * at.sub1 /\ 2 * at.sub2 <= Off(line, d, b)
    BY <1>5, <1>3 DEF Enclosed
  <2>11. Off(line, d, a) <= Off(line, d, b) /\ Off(line, d, a) \in Int /\ Off(line, d, b) \in Int
    BY <1>1, OffOrders DEF Enclosed
  <2>12. \A k \in 2..(n + 2) : Off(line, d, lit[k - 1]) <= Off(line, d, lit[k]) /\ lit[k - 1] \in Int /\ lit[k] \in Int
    <3> TAKE k \in 2..(n + 2)
    <3>1. CASE k = 2 /\ n = 0
      BY <1>1, <2>1, <2>8, <2>11, <3>1
    <3>2. CASE k = 2 /\ n # 0
      <4>1. lit[k] = mid[1] /\ lit[k - 1] = a /\ 1 \in 1..n
        BY <2>1, <2>8, <3>2
      <4> QED BY <1>1, <1>3, <2>9, <2>10, <2>11, <4>1
    <3>3. CASE k > 2 /\ k < n + 2
      <4>1. k - 1 \in 1..n /\ k - 2 \in 1..n /\ k = (k - 1) + 1 /\ k - 1 = (k - 2) + 1
        BY <2>1, <3>3
      <4>2. lit[k] = mid[k - 1] /\ lit[k - 1] = mid[k - 2]
        BY <2>8, <4>1
      <4> QED BY <1>3, <2>9, <4>1, <4>2
    <3>4. CASE k > 2 /\ k = n + 2
      <4>1. k - 2 = n /\ n \in 1..n /\ k - 1 = n + 1
        BY <2>1, <3>4
      <4>2. lit[k] = b /\ lit[k - 1] = mid[n]
        BY <2>8, <4>1, <3>4
      <4>3. at.sub1 + n - 1 = at.sub2 - 1
        BY <1>3 DEF n
      <4> QED BY <1>1, <1>3, <2>9, <2>10, <2>11, <4>1, <4>2, <4>3
    <3> QED BY <2>1, <3>1, <3>2, <3>3, <3>4
  <2>13. \A k \in 2..(n + 2) : IF d = 1 THEN lit[k - 1] <= lit[k] ELSE lit[k - 1] >= lit[k]
    BY <2>12, OffOrders
  <2>14. {lit[1], lit[Len(lit)]} = {markers[1], markers[2]}
    BY <2>8 DEF Enclosed
  <2>15. LitFits(lit, d, markers)
    <3>1. Len(lit) >= 2 /\ \A k \in 2..Len(lit) : k \in 2..(n + 2)
      BY <2>1, <2>8
    <3>2. lit \in Seq(Places)
      BY <2>8
    <3> QED BY <2>13, <2>14, <3>1, <3>2 DEF LitFits
  <2> QED BY <2>15 DEF lit
<1> QED BY <1>4, <1>5

-----------------------------------------------------------------------------
(* A sequence without its last element, and another after it.                  *)
LEMMA TrkGlued ==
  ASSUME NEW a \in Seq(Nat), NEW b \in Seq(Nat), Len(a) >= 1
  PROVE  /\ Front(a) \o b \in Seq(Nat) /\ Len(Front(a) \o b) = Len(a) - 1 + Len(b)
         /\ \A k \in 1..(Len(a) - 1) : (Front(a) \o b)[k] = a[k]
         /\ \A k \in 1..Len(b) : (Front(a) \o b)[Len(a) - 1 + k] = b[k]
<1>1. Len(a) \in Nat /\ Len(b) \in Nat
  BY LenProperties
<1> DEFINE f == SubSeq(a, 1, Len(a) - 1)
<1>2. f \in Seq(Nat) /\ Len(f) = Len(a) - 1 /\ \A k \in 1..(Len(a) - 1) : f[k] = a[k]
  <2>1. 1 \in 1..(Len(a) + 1) /\ Len(a) - 1 \in 0..Len(a) /\ 1 <= Len(a) - 1 + 1
    BY <1>1
  <2>2. /\ f \in Seq(Nat) /\ Len(f) = (Len(a) - 1) - 1 + 1
        /\ \A k \in 1..((Len(a) - 1) - 1 + 1) : f[k] = a[1 + k - 1]
    BY <2>1, TrkPart, Zenon
  <2>3. (Len(a) - 1) - 1 + 1 = Len(a) - 1 /\ \A k \in 1..(Len(a) - 1) : 1 + k - 1 = k
    BY <1>1
  <2> QED BY <2>2, <2>3
<1> HIDE DEF f
<1>3. /\ f \o b \in Seq(Nat) /\ Len(f \o b) = Len(f) + Len(b)
      /\ \A i \in 1..Len(f) : (f \o b)[i] = f[i]
      /\ \A i \in 1..Len(b) : (f \o b)[Len(f) + i] = b[i]
  <2>1. f \in Seq(Nat) /\ b \in Seq(Nat)
    BY <1>2
  <2> QED BY ONLY <2>1, TrkJoined
<1>4. Front(a) = f
  BY DEF f, Front
<1> QED BY <1>2, <1>3, <1>4

-----------------------------------------------------------------------------
(* Where the segments of a line begin and end: at its start, its joints and    *)
(* its end.                                                                    *)
Cut(line, joints, k) ==
  IF k = 0 THEN 0 ELSE IF k = Len(joints) + 1 THEN Final(line) ELSE joints[k]

(* A segment lies on a line from one index to another.                         *)
SegOn(line, d, s, i, j) ==
  /\ i \in 0..Final(line) /\ j \in 0..Final(line)
  /\ Way(s) = d /\ PointAt(line, i) = Begin(s) /\ j = i + Extent(s)

(* A line is its segments one after the other.                                 *)
Laid(line, d, segs, joints) ==
  /\ Runs(line, d) /\ joints \in Seq(Nat) /\ segs \in Seq(Segs) /\ Len(segs) = Len(joints) + 1
  /\ \A k \in 1..Len(segs) : SegOn(line, d, segs[k], Cut(line, joints, k - 1), Cut(line, joints, k))

(* What is at the end of a segment that lies on a line.                        *)
LEMMA LiesTo ==
  ASSUME NEW line, NEW d, Runs(line, d), NEW s \in Segs, NEW i, NEW j, SegOn(line, d, s, i, j)
  PROVE  PointAt(line, j) = End(s)
<1>1. /\ line[1] \in Nat /\ d \in {1, -1} /\ Final(line) \in Nat
      /\ \A k \in 0..Final(line) : PointAt(line, k) = (IF d = 1 THEN line[1] + k ELSE line[1] - k)
  BY StraightPoints
<1>2. /\ i \in 0..Final(line) /\ j \in 0..Final(line) /\ i \in Nat /\ j \in Nat
      /\ Way(s) = d /\ PointAt(line, i) = Begin(s) /\ j = i + Extent(s)
  BY <1>1 DEF SegOn
<1>3. /\ Extent(s) \in Nat /\ Begin(s) \in Nat /\ End(s) \in Nat
      /\ End(s) = (IF Way(s) = 1 THEN Begin(s) + Extent(s) ELSE Begin(s) - Extent(s))
  BY SegmentSpans
<1>4. /\ PointAt(line, i) = (IF d = 1 THEN line[1] + i ELSE line[1] - i)
      /\ PointAt(line, j) = (IF d = 1 THEN line[1] + j ELSE line[1] - j)
  BY <1>1, <1>2
<1> QED BY <1>1, <1>2, <1>3, <1>4

(* The part of the line between the ends of a segment is its points.           *)
LEMMA LiesIsPoints ==
  ASSUME NEW line, NEW d, Runs(line, d), NEW s \in Segs, NEW i, NEW j, SegOn(line, d, s, i, j)
  PROVE  SubSeq(line, i + 1, j + 1) = PointsOf(s)
<1>0. /\ line[1] \in Nat /\ d \in {1, -1} /\ Final(line) \in Nat
      /\ Len(line) = Final(line) + 1 /\ line \in Seq(Nat)
      /\ \A k \in 0..Final(line) : PointAt(line, k) = (IF d = 1 THEN line[1] + k ELSE line[1] - k)
  <2>1. Len(line) \in Nat /\ Final(line) = Len(line) - 1
    BY StraightPoints
  <2> QED BY <2>1, StraightPoints
<1>1. /\ i \in 0..Final(line) /\ j \in 0..Final(line) /\ i \in Nat /\ j \in Nat
      /\ Way(s) = d /\ PointAt(line, i) = Begin(s) /\ j = i + Extent(s)
  BY <1>0 DEF SegOn
<1>2. Extent(s) \in Nat /\ Begin(s) \in Nat /\ Extent(s) >= 1 /\ j = i + Extent(s)
  BY SegmentSpans DEF SegOn
<1> DEFINE t == SubSeq(line, i + 1, j + 1)
<1>3. /\ t \in Seq(Nat) /\ Len(t) = (j + 1) - (i + 1) + 1
      /\ \A k \in 1..((j + 1) - (i + 1) + 1) : t[k] = line[(i + 1) + k - 1]
  <2> DEFINE n == Final(line)
  <2>0. n \in Nat /\ Len(line) = n + 1 /\ i \in Nat /\ j \in Nat /\ i <= n /\ j <= n /\ i <= j
    BY <1>0, <1>1, <1>2
  <2> HIDE DEF n
  <2>1. i + 1 \in 1..(Len(line) + 1) /\ j + 1 \in 0..Len(line) /\ i + 1 <= (j + 1) + 1
    BY ONLY <2>0
  <2>2. line \in Seq(Nat)
    BY <1>0
  <2> QED BY ONLY <2>1, <2>2, TrkPart
<1>4. (j + 1) - (i + 1) + 1 = Extent(s) + 1
  BY <1>1, <1>2
<1> HIDE DEF t
<1>5. /\ PointsOf(s) \in Seq(Nat) /\ Len(PointsOf(s)) = Extent(s) + 1
      /\ \A k \in 1..(Extent(s) + 1) :
           PointsOf(s)[k] = (IF Way(s) = 1 THEN Begin(s) + (k - 1) ELSE Begin(s) - (k - 1))
  BY PointsAre
<1>6. ASSUME NEW k \in 1..(Extent(s) + 1) PROVE t[k] = PointsOf(s)[k]
  <2>1. i + k - 1 \in 0..Final(line) /\ (i + 1) + k - 1 = (i + k - 1) + 1 /\ i + k - 1 = i + (k - 1)
    BY <1>0, <1>1, <1>2
  <2>2. t[k] = PointAt(line, i + k - 1)
    BY <1>3, <1>4, <2>1 DEF PointAt
  <2>3. t[k] = (IF d = 1 THEN line[1] + (i + k - 1) ELSE line[1] - (i + k - 1))
    BY <1>0, <2>1, <2>2
  <2>4. Begin(s) = (IF d = 1 THEN line[1] + i ELSE line[1] - i) /\ Way(s) = d
    BY <1>0, <1>1
  <2>5. k \in Int
    BY <1>2
  <2>6. PointsOf(s)[k] = (IF d = 1 THEN Begin(s) + (k - 1) ELSE Begin(s) - (k - 1))
    BY <1>5, <2>4
  <2> QED BY <1>0, <1>1, <2>3, <2>4, <2>5, <2>6
<1>7. t = PointsOf(s)
  BY <1>3, <1>4, <1>5, <1>6, SeqEqual
<1> QED BY <1>7 DEF t

(* The cuts of a line are indexes, each further than those before.             *)
LEMMA CutsAre ==
  ASSUME NEW line, NEW d, NEW segs, NEW joints, Laid(line, d, segs, joints)
  PROVE  /\ Len(joints) \in Nat /\ Final(line) \in Nat /\ Len(segs) = Len(joints) + 1
         /\ Cut(line, joints, 0) = 0 /\ Cut(line, joints, Len(joints) + 1) = Final(line)
         /\ \A k \in 1..Len(joints) : Cut(line, joints, k) = joints[k]
         /\ \A k \in 0..(Len(joints) + 1) : Cut(line, joints, k) \in 0..Final(line)
         /\ \A k \in 1..(Len(joints) + 1) : Cut(line, joints, k - 1) < Cut(line, joints, k)
<1>1. Len(joints) \in Nat /\ Final(line) \in Nat /\ Len(segs) = Len(joints) + 1
  BY StraightPoints, LenProperties DEF Laid
<1>2. \A k \in 1..(Len(joints) + 1) : segs[k] \in Segs
  BY <1>1, ElementOfSeq DEF Laid
<1>3. ASSUME NEW k \in 1..(Len(joints) + 1)
      PROVE  /\ Cut(line, joints, k - 1) \in 0..Final(line) /\ Cut(line, joints, k) \in 0..Final(line)
             /\ Cut(line, joints, k - 1) < Cut(line, joints, k)
  <2>1. SegOn(line, d, segs[k], Cut(line, joints, k - 1), Cut(line, joints, k))
    BY <1>1 DEF Laid
  <2>2. Extent(segs[k]) \in Nat \ {0}
    BY <1>2, SegmentSpans
  <2> QED BY <1>1, <2>1, <2>2 DEF SegOn
<1>4. Cut(line, joints, 0) = 0 /\ Cut(line, joints, Len(joints) + 1) = Final(line)
  BY <1>1 DEF Cut
<1>5. \A k \in 1..Len(joints) : Cut(line, joints, k) = joints[k]
  BY <1>1 DEF Cut
<1>6. \A k \in 0..(Len(joints) + 1) : Cut(line, joints, k) \in 0..Final(line)
  <2> TAKE k \in 0..(Len(joints) + 1)
  <2>1. CASE k = 0
    BY <1>1, <1>4, <2>1
  <2>2. CASE k # 0
    BY <1>1, <1>3, <2>2
  <2> QED BY <2>1, <2>2
<1> QED BY <1>1, <1>3, <1>4, <1>5, <1>6

(* The joints of a line ascend.                                                *)
Ascend(joints) == \A i, j \in 1..Len(joints) : i <= j => joints[i] <= joints[j]

LEMMA JointsAscend ==
  ASSUME NEW line, NEW d, NEW segs, NEW joints, Laid(line, d, segs, joints)
  PROVE  Ascend(joints)
<1> SUFFICES ASSUME NEW i \in 1..Len(joints), NEW j0 \in 1..Len(joints), i <= j0, ~(joints[i] <= joints[j0])
             PROVE  FALSE
  BY DEF Ascend
<1> DEFINE T == {j \in 1..Len(joints) : i <= j /\ ~(joints[i] <= joints[j])}
<1>0. Len(joints) \in Nat
  BY CutsAre
<1>1. T \subseteq Nat /\ T # {}
  <2>1. j0 \in T
    OBVIOUS
  <2>2. \A j \in 1..Len(joints) : j \in Nat
    BY <1>0
  <2> QED BY <2>1, <2>2
<1>2. PICK x \in T : \A y \in T : ~(<<y, x>> \in OpToRel(<, Nat))
  BY <1>1, NatLessThanWellFounded, WFMin, Zenon
<1>3. \A y \in T : y \in Nat /\ x \in Nat /\ ~(y < x)
  BY <1>1, <1>2 DEF OpToRel
<1>4. \A k \in 1..Len(joints) : joints[k] \in Nat
  BY ElementOfSeq DEF Laid
<1>5. x # i
  BY <1>4
<1>6. x - 1 \in 1..Len(joints) /\ i <= x - 1 /\ x \in 1..Len(joints)
  BY <1>0, <1>5
<1>7. joints[x - 1] < joints[x]
  <2>1. x \in 1..(Len(joints) + 1)
    BY <1>0, <1>6
  <2>2. Cut(line, joints, x - 1) < Cut(line, joints, x)
    BY <2>1, CutsAre
  <2>3. Cut(line, joints, x - 1) = joints[x - 1] /\ Cut(line, joints, x) = joints[x]
    BY <1>6, CutsAre
  <2> QED BY <2>2, <2>3
<1>8. x - 1 \in T
  BY <1>4, <1>6, <1>7, SMTT(20)
<1> QED BY <1>3, <1>8

-----------------------------------------------------------------------------
(* A track, and one with a joint between any two of its segments.              *)
Track == [line : Seq(Nat), segs : Seq(Segs), joints : Seq(Nat),
          markers : Places \X Places, lit : Seq(Places)]
Jointed(t) == t \in Track /\ Len(t.segs) = Len(t.joints) + 1

(* A segment that is joined at the end of the line.                            *)
LEMMA ExtendedAtEnd ==
  ASSUME NEW t, Jointed(t), NEW line \in Seq(Nat), Len(line) >= 2, NEW s \in Segs,
         PointsOf(s)[1] = Last(line), NEW e, e = Extended(t, line, s)
  PROVE  /\ Jointed(e) /\ e.markers = t.markers /\ e.lit = t.lit
         /\ e.segs = Append(t.segs, s) /\ e.joints = Append(t.joints, Final(line))
         /\ Len(e.line) = Len(line) + Extent(s)
         /\ \A k \in 1..Len(line) : e.line[k] = line[k]
         /\ \A k \in 1..(Extent(s) + 1) : e.line[Len(line) - 1 + k] = PointsOf(s)[k]
<1>1. /\ t.segs \in Seq(Segs) /\ t.joints \in Seq(Nat) /\ Len(t.segs) = Len(t.joints) + 1
      /\ Len(t.joints) \in Nat /\ t \in Track
  <2>1. t.segs \in Seq(Segs) /\ t.joints \in Seq(Nat) /\ Len(t.segs) = Len(t.joints) + 1 /\ t \in Track
    BY DEF Jointed, Track
  <2> QED BY <2>1, LenProperties
<1>2. /\ PointsOf(s) \in Seq(Nat) /\ Len(PointsOf(s)) = Extent(s) + 1 /\ Extent(s) \in Nat
      /\ Extent(s) >= 1
  BY PointsAre, SegmentSpans
<1>3. Len(line) \in Nat /\ Last(line) = line[Len(line)] /\ Final(line) \in Nat
  <2>1. Len(line) \in Nat
    BY LenProperties
  <2> QED BY <2>1 DEF Last, Final
<1> DEFINE w == Front(line) \o PointsOf(s)
<1>4. e = [t EXCEPT !.segs = Append(t.segs, s), !.joints = Append(t.joints, Final(line)), !.line = w]
  BY DEF Extended
<1>5. /\ w \in Seq(Nat) /\ Len(w) = Len(line) - 1 + Len(PointsOf(s))
      /\ \A k \in 1..(Len(line) - 1) : w[k] = line[k]
      /\ \A k \in 1..Len(PointsOf(s)) : w[Len(line) - 1 + k] = PointsOf(s)[k]
  <2>1. Len(line) >= 1
    BY <1>3
  <2> QED BY <1>2, <2>1, TrkGlued
<1> HIDE DEF w
<1>6. \A k \in 1..Len(line) : w[k] = line[k]
  <2> TAKE k \in 1..Len(line)
  <2>1. CASE k \in 1..(Len(line) - 1)
    BY <1>5, <2>1
  <2>2. CASE k \notin 1..(Len(line) - 1)
    <3>1. k = Len(line) - 1 + 1 /\ 1 \in 1..Len(PointsOf(s)) /\ k = Len(line)
      BY <1>2, <1>3, <2>2
    <3> QED BY <1>3, <1>5, <3>1
  <2> QED BY <2>1, <2>2
<1>7. /\ Append(t.segs, s) \in Seq(Segs) /\ Len(Append(t.segs, s)) = Len(t.segs) + 1
      /\ Append(t.joints, Final(line)) \in Seq(Nat) /\ Len(Append(t.joints, Final(line))) = Len(t.joints) + 1
  BY <1>1, <1>3, AppendProperties
<1>8. /\ e.line = w /\ e.segs = Append(t.segs, s) /\ e.joints = Append(t.joints, Final(line))
      /\ e.markers = t.markers /\ e.lit = t.lit /\ e \in Track
  BY <1>1, <1>4, <1>5, <1>7 DEF Track
<1>9. Len(e.line) = Len(line) + Extent(s)
  <2>1. Len(e.line) = Len(line) - 1 + (Extent(s) + 1)
    BY <1>2, <1>5, <1>8, Zenon
  <2>2. Len(line) \in Nat /\ Extent(s) \in Nat
    BY <1>2, <1>3
  <2> QED BY ONLY <2>1, <2>2
<1>10. Jointed(e)
  BY <1>1, <1>7, <1>8 DEF Jointed
<1> QED BY <1>2, <1>5, <1>6, <1>8, <1>9, <1>10

(* A segment that is put before the line.                                      *)
LEMMA ExtendedAtStart ==
  ASSUME NEW t, Jointed(t), NEW line \in Seq(Nat), Len(line) >= 2, NEW s \in Segs,
         PointsOf(s)[1] # Last(line), NEW e, e = Extended(t, line, s)
  PROVE  /\ Jointed(e) /\ e.markers = t.markers /\ e.lit = t.lit
         /\ e.segs[1] = s /\ Len(e.segs) = Len(t.segs) + 1
         /\ \A k \in 1..Len(t.segs) : e.segs[k + 1] = t.segs[k]
         /\ e.joints[1] = Extent(s) /\ Len(e.joints) = Len(t.joints) + 1
         /\ \A k \in 1..Len(t.joints) : e.joints[k + 1] = t.joints[k] + Extent(s)
         /\ Len(e.line) = Len(line) + Extent(s)
         /\ \A k \in 1..Extent(s) : e.line[k] = PointsOf(s)[k]
         /\ \A k \in 1..Len(line) : e.line[Extent(s) + k] = line[k]
<1>1. /\ t.segs \in Seq(Segs) /\ t.joints \in Seq(Nat) /\ Len(t.segs) = Len(t.joints) + 1
      /\ Len(t.joints) \in Nat /\ DOMAIN t.joints = 1..Len(t.joints) /\ t \in Track
      /\ \A k \in 1..Len(t.joints) : t.joints[k] \in Nat
  <2>1. t.segs \in Seq(Segs) /\ t.joints \in Seq(Nat) /\ Len(t.segs) = Len(t.joints) + 1 /\ t \in Track
    BY DEF Jointed, Track
  <2> QED BY <2>1, LenProperties, ElementOfSeq
<1>2. /\ PointsOf(s) \in Seq(Nat) /\ Len(PointsOf(s)) = Extent(s) + 1 /\ Extent(s) \in Nat
      /\ Extent(s) >= 1
  BY PointsAre, SegmentSpans
<1> DEFINE w == Front(PointsOf(s)) \o line
           n == Len(PointsOf(s)) - 1
           m == [k \in DOMAIN t.joints |-> t.joints[k] + n]
<1>3. e = [t EXCEPT !.segs = <<s>> \o t.segs, !.joints = <<n>> \o m, !.line = w]
  BY DEF Extended, JointsMoved
<1>4. n = Extent(s) /\ Len(line) \in Nat
  BY <1>2, LenProperties
<1>5. /\ w \in Seq(Nat) /\ Len(w) = n + Len(line)
      /\ \A k \in 1..n : w[k] = PointsOf(s)[k]
      /\ \A k \in 1..Len(line) : w[n + k] = line[k]
  <2>1. Len(PointsOf(s)) >= 1
    BY <1>2
  <2> QED BY <1>2, <2>1, TrkGlued
<1> HIDE DEF w, n
<1>6. m \in Seq(Nat) /\ Len(m) = Len(t.joints)
  <2>0. n \in Nat /\ \A k \in 1..Len(t.joints) : t.joints[k] \in Nat
    BY <1>1, <1>2, <1>4
  <2>1. \A k \in 1..Len(t.joints) : t.joints[k] + n \in Nat
    BY ONLY <2>0
  <2>2. m \in [1..Len(t.joints) -> Nat]
    BY <1>1, <2>1, Zenon
  <2> QED BY <1>1, <2>2, TrkSequence
<1>7. \A k \in 1..Len(t.joints) : m[k] = t.joints[k] + n
  BY <1>1
<1> HIDE DEF m
<1> DEFINE a == <<s>> \o t.segs
           b == <<n>> \o m
<1>8. /\ a \in Seq(Segs) /\ Len(a) = Len(t.segs) + 1
      /\ a[1] = s /\ \A k \in 1..Len(t.segs) : a[1 + k] = t.segs[k]
  <2>1. <<s>> \in Seq(Segs) /\ Len(<<s>>) = 1 /\ <<s>>[1] = s
    OBVIOUS
  <2>2. /\ a \in Seq(Segs) /\ Len(a) = Len(<<s>>) + Len(t.segs)
        /\ \A i \in 1..Len(<<s>>) : a[i] = <<s>>[i]
        /\ \A i \in 1..Len(t.segs) : a[Len(<<s>>) + i] = t.segs[i]
    <3>1. <<s>> \in Seq(Segs) /\ t.segs \in Seq(Segs)
      BY <1>1, <2>1
    <3> QED BY ONLY <3>1, TrkJoined
  <2> HIDE DEF a
  <2> QED BY <1>1, <2>1, <2>2
<1>9. /\ b \in Seq(Nat) /\ Len(b) = Len(t.joints) + 1
      /\ b[1] = n /\ \A k \in 1..Len(t.joints) : b[1 + k] = m[k]
  <2>1. <<n>> \in Seq(Nat) /\ Len(<<n>>) = 1 /\ <<n>>[1] = n
    BY <1>2, <1>4
  <2>2. /\ b \in Seq(Nat) /\ Len(b) = Len(<<n>>) + Len(m)
        /\ \A i \in 1..Len(<<n>>) : b[i] = <<n>>[i]
        /\ \A i \in 1..Len(m) : b[Len(<<n>>) + i] = m[i]
    <3>1. <<n>> \in Seq(Nat) /\ m \in Seq(Nat)
      BY <1>6, <2>1
    <3> QED BY ONLY <3>1, TrkJoined
  <2> HIDE DEF b
  <2> QED BY <1>1, <1>6, <2>1, <2>2
<1>10. /\ e.line = w /\ e.segs = a /\ e.joints = b /\ e.markers = t.markers /\ e.lit = t.lit
       /\ e \in Track
  BY <1>1, <1>3, <1>5, <1>8, <1>9 DEF Track
<1> HIDE DEF a, b
<1>11. Len(e.line) = Len(line) + Extent(s)
  BY <1>2, <1>4, <1>5, <1>10, SMTT(20)
<1>12. Jointed(e)
  BY <1>1, <1>8, <1>9, <1>10 DEF Jointed
<1>13. \A k \in Nat : 1 + k = k + 1
  OBVIOUS
<1>14. /\ \A k \in 1..Len(t.segs) : e.segs[k + 1] = t.segs[k]
       /\ \A k \in 1..Len(t.joints) : e.joints[k + 1] = t.joints[k] + Extent(s)
  BY <1>1, <1>4, <1>7, <1>8, <1>9, <1>10, <1>13
<1> QED BY <1>4, <1>5, <1>8, <1>9, <1>10, <1>11, <1>12, <1>14

(* A neighbour that was not joined the wrong way goes the way of the line.     *)
LEMMA JoinsOn ==
  ASSUME NEW c, NEW d, Runs(c.line, d), c.first \in BOOLEAN, NEW s \in Joining(c), FitsOn(c, PointsOf(s))
  PROVE  /\ s \in Segs /\ Way(s) = d
         /\ c.first => End(s) = c.line[1] /\ PointsOf(s)[1] # Last(c.line)
         /\ ~c.first => Begin(s) = Last(c.line) /\ PointsOf(s)[1] = Last(c.line)
<1> DEFINE line == c.line
           p == PointsOf(s)
           n == Len(line)
           x == Extent(s)
<1>1. s \in Segs
  BY DEF Joining, Neighbours
<1>2. /\ n \in Nat /\ n >= 2 /\ d \in {1, -1} /\ line \in Seq(Nat) /\ line[1] \in Nat
      /\ \A i \in 0..(n - 1) : PointAt(line, i) = (IF d = 1 THEN line[1] + i ELSE line[1] - i)
  <2>1. n \in Nat /\ n >= 2 /\ Final(line) = n - 1
    BY StraightPoints
  <2> QED BY <2>1, StraightPoints
<1>3. /\ line[2] = (IF d = 1 THEN line[1] + 1 ELSE line[1] - 1)
      /\ line[n] = (IF d = 1 THEN line[1] + (n - 1) ELSE line[1] - (n - 1))
      /\ line[n - 1] = (IF d = 1 THEN line[1] + (n - 2) ELSE line[1] - (n - 2))
  <2>1. 1 \in 0..(n - 1) /\ n - 1 \in 0..(n - 1) /\ n - 2 \in 0..(n - 1)
        /\ 1 + 1 = 2 /\ (n - 1) + 1 = n /\ (n - 2) + 1 = n - 1
    BY <1>2
  <2> QED BY <1>2, <2>1 DEF PointAt
<1>4. /\ x \in Nat /\ x >= 1 /\ Begin(s) \in Nat /\ Way(s) \in {1, -1}
      /\ End(s) = (IF Way(s) = 1 THEN Begin(s) + x ELSE Begin(s) - x)
  BY <1>1, SegmentSpans DEF Ways
<1>5. /\ Len(p) = x + 1 /\ p[1] = Begin(s) /\ p[Len(p)] = End(s)
      /\ p[2] = (IF Way(s) = 1 THEN Begin(s) + 1 ELSE Begin(s) - 1)
      /\ p[Len(p) - 1] = (IF Way(s) = 1 THEN Begin(s) + (x - 1) ELSE Begin(s) - (x - 1))
  <2>1. /\ Len(p) = x + 1
        /\ \A k \in 1..(x + 1) : p[k] = (IF Way(s) = 1 THEN Begin(s) + (k - 1) ELSE Begin(s) - (k - 1))
    BY <1>1, PointsAre
  <2>2. 1 \in 1..(x + 1) /\ 2 \in 1..(x + 1) /\ x \in 1..(x + 1) /\ x + 1 \in 1..(x + 1)
        /\ 1 - 1 = 0 /\ 2 - 1 = 1 /\ (x + 1) - 1 = x
    BY <1>4
  <2> HIDE DEF p, x
  <2>3. p[1] = (IF Way(s) = 1 THEN Begin(s) + 0 ELSE Begin(s) - 0)
    BY <2>1, <2>2
  <2>4. p[2] = (IF Way(s) = 1 THEN Begin(s) + 1 ELSE Begin(s) - 1)
    BY <2>1, <2>2
  <2>5. p[x] = (IF Way(s) = 1 THEN Begin(s) + (x - 1) ELSE Begin(s) - (x - 1))
    BY <2>1, <2>2
  <2>6. p[x + 1] = (IF Way(s) = 1 THEN Begin(s) + x ELSE Begin(s) - x)
    BY <2>1, <2>2
  <2> QED BY <1>4, <2>1, <2>2, <2>3, <2>4, <2>5, <2>6
<1>6. Last(line) = line[n] /\ Last(p) = p[Len(p)]
  BY DEF Last
<1> HIDE DEF p, n, x, line
<1>7. CASE c.first
  <2>1. p[Len(p)] = line[1]
    BY <1>6, <1>7 DEF FitsOn, p, line
  <2>2. \/ p[1] = line[1] /\ p[2] # line[2]
        \/ p[Len(p)] = line[1] /\ p[Len(p) - 1] # line[2]
    BY <1>6, <1>7 DEF Joining, Neighbours, p, line
  <2>3. End(s) = line[1] /\ p[1] # line[1] /\ p[Len(p) - 1] # line[2]
    BY <1>4, <1>5, <2>1, <2>2
  <2>4. Way(s) = d /\ p[1] # line[n]
    <3>1. n \in Nat /\ n >= 2 /\ d \in {1, -1} /\ line[1] \in Nat
      BY <1>2
    <3>2. CASE d = 1
      BY ONLY <1>3, <1>4, <1>5, <2>3, <3>1, <3>2
    <3>3. CASE d = -1
      BY ONLY <1>3, <1>4, <1>5, <2>3, <3>1, <3>3
    <3> QED BY <3>1, <3>2, <3>3
  <2> QED BY <1>1, <1>6, <1>7, <2>3, <2>4 DEF p, line
<1>8. CASE ~c.first
  <2>1. p[1] = line[n]
    BY <1>6, <1>8 DEF FitsOn, p, line
  <2>2. \/ p[1] = line[n] /\ p[2] # line[n - 1]
        \/ p[Len(p)] = line[n] /\ p[Len(p) - 1] # line[n - 1]
    BY <1>6, <1>8 DEF Joining, Neighbours, p, line, n
  <2>3. Begin(s) = line[n] /\ p[Len(p)] # line[n] /\ p[2] # line[n - 1]
    BY <1>4, <1>5, <2>1, <2>2
  <2>4. Way(s) = d
    <3>1. n \in Nat /\ n >= 2 /\ d \in {1, -1} /\ line[1] \in Nat /\ Begin(s) \in Nat /\ Way(s) \in {1, -1}
      BY <1>2, <1>4
    <3>2. (IF Way(s) = 1 THEN Begin(s) + 1 ELSE Begin(s) - 1)
            # (IF d = 1 THEN line[1] + (n - 2) ELSE line[1] - (n - 2))
      BY <1>3, <1>5, <2>3
    <3>3. Begin(s) = (IF d = 1 THEN line[1] + (n - 1) ELSE line[1] - (n - 1))
      BY <1>3, <2>3
    <3> QED BY ONLY <3>1, <3>2, <3>3
  <2> QED BY <1>1, <1>5, <1>6, <1>8, <2>1, <2>3, <2>4 DEF p, line
<1> QED BY <1>7, <1>8

(* A straight line that a segment of its way is joined to at its end.          *)
LEMMA StraightAtEnd ==
  ASSUME NEW line, NEW d, Runs(line, d), NEW s \in Segs, Way(s) = d, Begin(s) = Last(line),
         NEW w \in Seq(Nat), Len(w) = Len(line) + Extent(s),
         \A k \in 1..Len(line) : w[k] = line[k],
         \A k \in 1..(Extent(s) + 1) : w[Len(line) - 1 + k] = PointsOf(s)[k]
  PROVE  Runs(w, d)
<1> DEFINE n == Len(line)
           x == Extent(s)
<1>1. n \in Nat /\ n >= 2 /\ d \in {1, -1} /\ line[1] \in Nat
  BY StraightPoints
<1>2. x \in Nat /\ x >= 1 /\ Begin(s) \in Road /\ End(s) \in Road /\ Road \subseteq Nat
      /\ End(s) = (IF d = 1 THEN Begin(s) + x ELSE Begin(s) - x)
  BY SegmentSpans
<1>3. \A k \in 1..n : line[k] \in Road /\ line[k] = (IF d = 1 THEN line[1] + (k - 1) ELSE line[1] - (k - 1))
  BY DEF Runs
<1>4. Begin(s) = (IF d = 1 THEN line[1] + (n - 1) ELSE line[1] - (n - 1))
  BY <1>1, <1>3 DEF Last
<1>5. \A k \in 1..(x + 1) : PointsOf(s)[k] = (IF d = 1 THEN Begin(s) + (k - 1) ELSE Begin(s) - (k - 1))
  BY PointsAre
<1>6. w[1] = line[1] /\ Len(w) = n + x
  BY <1>1
<1> HIDE DEF n, x
<1>7. ASSUME NEW k \in 1..(n + x)
      PROVE  w[k] \in Road /\ w[k] = (IF d = 1 THEN w[1] + (k - 1) ELSE w[1] - (k - 1))
  <2>1. CASE k \in 1..n
    BY <1>3, <1>6, <2>1 DEF n
  <2>2. CASE k \notin 1..n
    <3> DEFINE j == k - n + 1
    <3>1. j \in 1..(x + 1) /\ n - 1 + j = k /\ j - 1 = k - n /\ k \in Nat /\ k - n \in 1..x
      BY <1>1, <1>2, <2>2
    <3>2. w[n - 1 + j] = PointsOf(s)[j]
      BY <3>1 DEF n, x
    <3> HIDE DEF j
    <3>3. w[k] = (IF d = 1 THEN Begin(s) + (k - n) ELSE Begin(s) - (k - n))
      BY <1>5, <3>1, <3>2
    <3>4. Bends[1] \in Nat /\ Bends[Len(Bends)] \in Nat
      BY RoadGiven
    <3>5. w[k] \in Road
      <4>1. d \in {1, -1} /\ x \in Nat /\ n \in Nat /\ Begin(s) \in Nat /\ End(s) \in Nat
        BY <1>1, <1>2
      <4>2. /\ Begin(s) \in Bends[1]..Bends[Len(Bends)] /\ End(s) \in Bends[1]..Bends[Len(Bends)]
            /\ End(s) = (IF d = 1 THEN Begin(s) + x ELSE Begin(s) - x)
        BY <1>2 DEF Road
      <4>3. CASE d = 1
        BY ONLY <3>1, <3>3, <3>4, <4>1, <4>2, <4>3 DEF Road
      <4>4. CASE d = -1
        BY ONLY <3>1, <3>3, <3>4, <4>1, <4>2, <4>4 DEF Road
      <4> QED BY <4>1, <4>3, <4>4
    <3>6. d \in {1, -1} /\ n \in Nat /\ line[1] \in Nat /\ w[1] = line[1]
      BY <1>1, <1>6
    <3>7. w[k] = (IF d = 1 THEN w[1] + (k - 1) ELSE w[1] - (k - 1))
      <4>1. CASE d = 1
        BY ONLY <1>4, <3>1, <3>3, <3>6, <4>1
      <4>2. CASE d = -1
        BY ONLY <1>4, <3>1, <3>3, <3>6, <4>2
      <4> QED BY <3>6, <4>1, <4>2
    <3> QED BY <3>5, <3>7
  <2> QED BY <2>1, <2>2
<1>8. n + x >= 2
  BY <1>1, <1>2
<1>9. Len(w) >= 2 /\ d \in Ways
      /\ \A k \in 1..Len(w) : w[k] \in Road /\ w[k] = (IF d = 1 THEN w[1] + (k - 1) ELSE w[1] - (k - 1))
  BY <1>1, <1>6, <1>7, <1>8 DEF Ways
<1> QED BY <1>6, <1>9 DEF Runs

(* And one that a segment of its way is put before.                            *)
LEMMA StraightAtStart ==
  ASSUME NEW line, NEW d, Runs(line, d), NEW s \in Segs, Way(s) = d, End(s) = line[1],
         NEW w \in Seq(Nat), Len(w) = Len(line) + Extent(s),
         \A k \in 1..Extent(s) : w[k] = PointsOf(s)[k],
         \A k \in 1..Len(line) : w[Extent(s) + k] = line[k]
  PROVE  Runs(w, d) /\ w[1] = Begin(s)
<1> DEFINE n == Len(line)
           x == Extent(s)
<1>1. n \in Nat /\ n >= 2 /\ d \in {1, -1} /\ line[1] \in Nat
  BY StraightPoints
<1>2. x \in Nat /\ x >= 1 /\ Begin(s) \in Road /\ End(s) \in Road /\ Road \subseteq Nat
      /\ End(s) = (IF d = 1 THEN Begin(s) + x ELSE Begin(s) - x)
  BY SegmentSpans
<1>3. \A k \in 1..n : line[k] \in Road /\ line[k] = (IF d = 1 THEN line[1] + (k - 1) ELSE line[1] - (k - 1))
  BY DEF Runs
<1>5. \A k \in 1..(x + 1) : PointsOf(s)[k] = (IF d = 1 THEN Begin(s) + (k - 1) ELSE Begin(s) - (k - 1))
  BY PointsAre
<1>6. w[1] = Begin(s) /\ Len(w) = n + x
  <2>1. 1 \in 1..x /\ 1 \in 1..(x + 1) /\ 1 - 1 = 0
    BY <1>2
  <2>2. w[1] = PointsOf(s)[1] /\ Len(w) = n + x
    BY <2>1
  <2>3. Begin(s) \in Nat
    BY <1>2
  <2>4. w[1] = (IF d = 1 THEN Begin(s) + 0 ELSE Begin(s) - 0)
    BY <1>5, <2>1, <2>2
  <2> QED BY <2>2, <2>3, <2>4
<1> HIDE DEF n, x
<1>7. ASSUME NEW k \in 1..(n + x)
      PROVE  w[k] \in Road /\ w[k] = (IF d = 1 THEN w[1] + (k - 1) ELSE w[1] - (k - 1))
  <2>1. CASE k \in 1..x
    <3>1. k \in 1..(x + 1) /\ k \in Nat /\ k <= x /\ k >= 1
      BY <1>2, <2>1
    <3>2. w[k] = (IF d = 1 THEN Begin(s) + (k - 1) ELSE Begin(s) - (k - 1))
      BY <1>5, <2>1, <3>1 DEF x
    <3>3. Bends[1] \in Nat /\ Bends[Len(Bends)] \in Nat
      BY RoadGiven
    <3>4. w[k] \in Road
      <4>1. d \in {1, -1} /\ x \in Nat /\ n \in Nat /\ Begin(s) \in Nat /\ End(s) \in Nat
        BY <1>1, <1>2
      <4>2. /\ Begin(s) \in Bends[1]..Bends[Len(Bends)] /\ End(s) \in Bends[1]..Bends[Len(Bends)]
            /\ End(s) = (IF d = 1 THEN Begin(s) + x ELSE Begin(s) - x)
        BY <1>2 DEF Road
      <4>3. CASE d = 1
        BY ONLY <3>1, <3>2, <3>3, <4>1, <4>2, <4>3, SMTT(20) DEF Road
      <4>4. CASE d = -1
        BY ONLY <3>1, <3>2, <3>3, <4>1, <4>2, <4>4 DEF Road
      <4> QED BY <4>1, <4>3, <4>4
    <3> QED BY <1>6, <3>2, <3>4
  <2>2. CASE k \notin 1..x
    <3> DEFINE j == k - x
    <3>1. j \in 1..n /\ x + j = k /\ k \in Nat /\ k - 1 = x + (j - 1) /\ j \in Nat
      BY <1>1, <1>2, <2>2
    <3>2. w[x + j] = line[j]
      BY <3>1 DEF n, x
    <3> HIDE DEF j
    <3>3. w[k] \in Road /\ w[k] = (IF d = 1 THEN End(s) + (j - 1) ELSE End(s) - (j - 1))
      BY <1>3, <3>1, <3>2
    <3>4. d \in {1, -1} /\ x \in Nat /\ Begin(s) \in Nat /\ w[1] = Begin(s)
          /\ End(s) = (IF d = 1 THEN Begin(s) + x ELSE Begin(s) - x)
      BY <1>1, <1>2, <1>6
    <3>5. w[k] = (IF d = 1 THEN w[1] + (k - 1) ELSE w[1] - (k - 1))
      <4>1. CASE d = 1
        BY ONLY <3>1, <3>3, <3>4, <4>1
      <4>2. CASE d = -1
        BY ONLY <3>1, <3>3, <3>4, <4>2
      <4> QED BY <3>4, <4>1, <4>2
    <3> QED BY <3>3, <3>5
  <2> QED BY <2>1, <2>2
<1>8. n + x >= 2
  BY <1>1, <1>2
<1>9. Len(w) >= 2 /\ d \in Ways
      /\ \A k \in 1..Len(w) : w[k] \in Road /\ w[k] = (IF d = 1 THEN w[1] + (k - 1) ELSE w[1] - (k - 1))
  BY <1>1, <1>6, <1>7, <1>8 DEF Ways
<1> QED BY <1>6, <1>9 DEF Runs

(* A segment that lies on a line lies on one that has the same points further   *)
(* on or back.                                                                 *)
LEMMA LiesMoved ==
  ASSUME NEW line, NEW line2, NEW d, NEW s \in Segs, NEW i, NEW j, SegOn(line, d, s, i, j),
         NEW c \in Int, i + c \in 0..Final(line2), j + c \in 0..Final(line2),
         PointAt(line2, i + c) = PointAt(line, i), Final(line) \in Nat
  PROVE  SegOn(line2, d, s, i + c, j + c)
<1>1. i \in Int /\ j = i + Extent(s) /\ Extent(s) \in Nat
  BY SegmentSpans DEF SegOn
<1>2. j + c = (i + c) + Extent(s)
  BY <1>1
<1> QED BY <1>2 DEF SegOn

(* A line that a segment of its way is joined to at its end is its segments.   *)
LEMMA LaidAtEnd ==
  ASSUME NEW t, Jointed(t), NEW line, NEW d, Laid(line, d, t.segs, t.joints), NEW s \in Segs,
         Way(s) = d, Begin(s) = Last(line), PointsOf(s)[1] = Last(line), NEW e, e = Extended(t, line, s)
  PROVE  Laid(e.line, d, e.segs, e.joints)
<1> DEFINE n == Len(t.joints)
           x == Extent(s)
           f == Final(line)
<1>1. /\ Runs(line, d) /\ line \in Seq(Nat) /\ Len(line) >= 2 /\ Len(line) = f + 1 /\ f \in Nat
      /\ n \in Nat /\ Len(t.segs) = n + 1 /\ x \in Nat /\ x >= 1
  <2>1. Runs(line, d)
    BY DEF Laid
  <2>2. Final(line) = Len(line) - 1 /\ Len(line) \in Nat /\ Len(line) >= 2 /\ line \in Seq(Nat) /\ Final(line) \in Nat
    BY <2>1, StraightPoints
  <2>3. n \in Nat /\ Len(t.segs) = n + 1
    BY CutsAre
  <2>4. x \in Nat /\ x >= 1
    BY SegmentSpans
  <2> QED BY <2>1, <2>2, <2>3, <2>4
<1>2. /\ Jointed(e)
      /\ e.segs = Append(t.segs, s) /\ e.joints = Append(t.joints, f)
      /\ Len(e.line) = Len(line) + x
      /\ \A k \in 1..Len(line) : e.line[k] = line[k]
      /\ \A k \in 1..(x + 1) : e.line[Len(line) - 1 + k] = PointsOf(s)[k]
  <2>1. line \in Seq(Nat) /\ Len(line) >= 2
    BY <1>1
  <2>2. /\ Jointed(e) /\ e.segs = Append(t.segs, s) /\ e.joints = Append(t.joints, Final(line))
        /\ Len(e.line) = Len(line) + Extent(s)
        /\ \A k \in 1..Len(line) : e.line[k] = line[k]
        /\ \A k \in 1..(Extent(s) + 1) : e.line[Len(line) - 1 + k] = PointsOf(s)[k]
    <3> HIDE DEF n, x, f
    <3>1. Jointed(e)
      BY <2>1, ExtendedAtEnd
    <3>2. e.segs = Append(t.segs, s)
      BY <2>1, ExtendedAtEnd
    <3>3. e.joints = Append(t.joints, Final(line))
      BY <2>1, ExtendedAtEnd
    <3>4. \A k \in 1..Len(line) : e.line[k] = line[k]
      BY <2>1, ExtendedAtEnd
    <3>5. Len(e.line) = Len(line) + Extent(s)
      BY <2>1, ExtendedAtEnd
    <3>6. \A k \in 1..(Extent(s) + 1) : e.line[Len(line) - 1 + k] = PointsOf(s)[k]
      BY <2>1, ExtendedAtEnd
    <3> QED BY <3>1, <3>2, <3>3, <3>4, <3>5, <3>6
  <2> QED BY ONLY <2>2
<1>3. e.line \in Seq(Nat) /\ e.segs \in Seq(Segs) /\ e.joints \in Seq(Nat) /\ Len(e.segs) = Len(e.joints) + 1
  BY <1>2 DEF Jointed, Track
<1>4. Runs(e.line, d)
  BY <1>1, <1>2, <1>3, StraightAtEnd
<1>5. t.segs \in Seq(Segs) /\ t.joints \in Seq(Nat)
  BY DEF Jointed, Track
<1>6. /\ Len(e.joints) = n + 1 /\ e.joints[n + 1] = f /\ \A k \in 1..n : e.joints[k] = t.joints[k]
  BY <1>1, <1>2, <1>5, AppendProperties, SMTT(20)
<1>7. /\ Len(e.segs) = n + 2 /\ e.segs[n + 2] = s /\ \A k \in 1..(n + 1) : e.segs[k] = t.segs[k]
  <2>1. Len(t.segs) = n + 1 /\ (n + 1) + 1 = n + 2
    BY <1>1
  <2>2. /\ Len(e.segs) = Len(t.segs) + 1 /\ e.segs[Len(t.segs) + 1] = s
        /\ \A k \in 1..Len(t.segs) : e.segs[k] = t.segs[k]
    BY <1>2, <1>5, AppendProperties
  <2> QED BY ONLY <2>1, <2>2
<1>8. Final(e.line) = f + x /\ f + x \in Nat
  <2>1. Final(e.line) = Len(e.line) - 1
    BY DEF Final
  <2>2. Len(line) = f + 1 /\ f \in Nat /\ x \in Nat /\ Len(e.line) = Len(line) + x
    BY <1>1, <1>2
  <2> HIDE DEF f, x
  <2> QED BY ONLY <2>1, <2>2
<1>9. /\ Cut(line, t.joints, 0) = 0 /\ Cut(line, t.joints, n + 1) = f
      /\ \A k \in 1..n : Cut(line, t.joints, k) = t.joints[k]
      /\ \A k \in 0..(n + 1) : Cut(line, t.joints, k) \in 0..f
  BY CutsAre
<1> HIDE DEF n, x, f
<1>10. \A k \in 0..(n + 1) : Cut(e.line, e.joints, k) = Cut(line, t.joints, k)
  <2>1. Len(e.joints) + 1 = n + 2
    BY <1>1, <1>6
  <2> TAKE k \in 0..(n + 1)
  <2>2. CASE k = 0
    BY <1>9, <2>2 DEF Cut
  <2>3. CASE k = n + 1
    <3>1. k # 0 /\ k # n + 2
      BY <1>1, <2>3
    <3> QED BY <1>6, <1>9, <2>1, <2>3, <3>1 DEF Cut
  <2>4. CASE k \in 1..n
    <3>1. k # 0 /\ k # n + 2
      BY <1>1, <2>4
    <3> QED BY <1>6, <1>9, <2>1, <2>4, <3>1 DEF Cut
  <2> QED BY <1>1, <2>2, <2>3, <2>4
<1>11. Cut(e.line, e.joints, n + 2) = f + x
  <2>1. Len(e.joints) + 1 = n + 2 /\ n + 2 # 0
    BY <1>1, <1>6
  <2> QED BY <1>8, <2>1 DEF Cut
<1>12. ASSUME NEW k \in 1..(n + 1)
       PROVE  SegOn(e.line, d, e.segs[k], Cut(e.line, e.joints, k - 1), Cut(e.line, e.joints, k))
  <2> DEFINE i == Cut(line, t.joints, k - 1)
             j == Cut(line, t.joints, k)
  <2>1. k - 1 \in 0..(n + 1) /\ k \in 0..(n + 1) /\ k \in 1..Len(t.segs)
    BY <1>1
  <2>2. i \in 0..f /\ j \in 0..f
    BY <1>9, <2>1
  <2>3. SegOn(line, d, t.segs[k], i, j) /\ t.segs[k] \in Segs
    BY <1>5, <2>1, ElementOfSeq DEF Laid
  <2> HIDE DEF i, j
  <2>4. i + 0 = i /\ j + 0 = j /\ i \in 0..Final(e.line) /\ j \in 0..Final(e.line)
    BY <1>1, <1>8, <2>2
  <2>5. PointAt(e.line, i) = PointAt(line, i)
    <3>1. i + 1 \in 1..Len(line)
      BY <1>1, <2>2
    <3> QED BY <1>2, <3>1 DEF PointAt
  <2>6. SegOn(e.line, d, t.segs[k], i + 0, j + 0)
    <3>1. Final(line) \in Nat /\ 0 \in Int
      BY <1>1 DEF f
    <3> QED BY <2>3, <2>4, <2>5, <3>1, LiesMoved
  <2> QED BY <1>7, <1>10, <2>1, <2>4, <2>6 DEF i, j
<1>13. SegOn(e.line, d, s, f, f + x)
  <2>1. PointAt(e.line, f) = Begin(s)
    <3>1. f + 1 \in 1..Len(line) /\ f + 1 = Len(line)
      BY <1>1
    <3> QED BY <1>2, <3>1 DEF PointAt, Last
  <2>2. f \in 0..Final(e.line) /\ f + x \in 0..Final(e.line)
    BY <1>1, <1>8
  <2> QED BY <2>1, <2>2 DEF SegOn, x
<1>14. ASSUME NEW k \in 1..Len(e.segs)
       PROVE  SegOn(e.line, d, e.segs[k], Cut(e.line, e.joints, k - 1), Cut(e.line, e.joints, k))
  <2>1. CASE k = n + 2
    <3>1. k - 1 = n + 1 /\ n + 1 \in 0..(n + 1)
      BY <1>1, <2>1
    <3> QED BY <1>7, <1>9, <1>10, <1>11, <1>13, <2>1, <3>1
  <2>2. CASE k # n + 2
    <3>1. k \in 1..(n + 1)
      BY <1>1, <1>7, <2>2
    <3> QED BY <1>12, <3>1
  <2> QED BY <2>1, <2>2
<1> QED BY <1>3, <1>4, <1>14 DEF Laid

(* And so is one that a segment of its way is put before.                      *)
LEMMA LaidAtStart ==
  ASSUME NEW t, Jointed(t), NEW line, NEW d, Laid(line, d, t.segs, t.joints), NEW s \in Segs,
         Way(s) = d, End(s) = line[1], PointsOf(s)[1] # Last(line), NEW e, e = Extended(t, line, s)
  PROVE  Laid(e.line, d, e.segs, e.joints)
<1>1. Runs(line, d) /\ line \in Seq(Nat) /\ Len(line) >= 2
  <2>1. Runs(line, d)
    BY DEF Laid
  <2> QED BY <2>1, StraightPoints
<1>2. /\ Jointed(e)
      /\ e.segs[1] = s /\ Len(e.segs) = Len(t.segs) + 1
      /\ \A k \in 1..Len(t.segs) : e.segs[k + 1] = t.segs[k]
      /\ e.joints[1] = Extent(s) /\ Len(e.joints) = Len(t.joints) + 1
      /\ \A k \in 1..Len(t.joints) : e.joints[k + 1] = t.joints[k] + Extent(s)
      /\ Len(e.line) = Len(line) + Extent(s)
      /\ \A k \in 1..Extent(s) : e.line[k] = PointsOf(s)[k]
      /\ \A k \in 1..Len(line) : e.line[Extent(s) + k] = line[k]
  <2>1. Jointed(e) /\ e.segs[1] = s /\ Len(e.segs) = Len(t.segs) + 1
    BY <1>1, ExtendedAtStart
  <2>2. \A k \in 1..Len(t.segs) : e.segs[k + 1] = t.segs[k]
    BY <1>1, ExtendedAtStart
  <2>3. e.joints[1] = Extent(s) /\ Len(e.joints) = Len(t.joints) + 1
    BY <1>1, ExtendedAtStart
  <2>4. \A k \in 1..Len(t.joints) : e.joints[k + 1] = t.joints[k] + Extent(s)
    BY <1>1, ExtendedAtStart
  <2>5. Len(e.line) = Len(line) + Extent(s)
    BY <1>1, ExtendedAtStart
  <2>6. \A k \in 1..Extent(s) : e.line[k] = PointsOf(s)[k]
    BY <1>1, ExtendedAtStart
  <2>7. \A k \in 1..Len(line) : e.line[Extent(s) + k] = line[k]
    BY <1>1, ExtendedAtStart
  <2> QED BY <2>1, <2>2, <2>3, <2>4, <2>5, <2>6, <2>7
<1>3. e.line \in Seq(Nat) /\ e.segs \in Seq(Segs) /\ e.joints \in Seq(Nat) /\ Len(e.segs) = Len(e.joints) + 1
  BY <1>2 DEF Jointed, Track
<1>4. Runs(e.line, d) /\ e.line[1] = Begin(s)
  <2>1. /\ Runs(line, d) /\ Way(s) = d /\ End(s) = line[1] /\ e.line \in Seq(Nat)
        /\ Len(e.line) = Len(line) + Extent(s)
        /\ \A k \in 1..Extent(s) : e.line[k] = PointsOf(s)[k]
        /\ \A k \in 1..Len(line) : e.line[Extent(s) + k] = line[k]
    BY <1>1, <1>2, <1>3
  <2>2. s \in Segs
    OBVIOUS
  <2>3. Runs(e.line, d)
    BY ONLY <2>1, <2>2, StraightAtStart
  <2>4. e.line[1] = Begin(s)
    BY ONLY <2>1, <2>2, StraightAtStart
  <2> QED BY <2>3, <2>4
<1>5. t.segs \in Seq(Segs) /\ t.joints \in Seq(Nat)
  BY DEF Jointed, Track
<1> DEFINE n == Len(t.joints)
           x == Extent(s)
           f == Final(line)
<1>6. n \in Nat /\ Len(t.segs) = n + 1 /\ Len(line) = f + 1 /\ f \in Nat /\ x \in Nat /\ x >= 1
  <2>1. n \in Nat /\ Len(t.segs) = n + 1
    BY CutsAre
  <2>2. Len(line) = f + 1 /\ f \in Nat
    BY <1>1, StraightPoints
  <2>3. x \in Nat /\ x >= 1
    BY SegmentSpans
  <2> QED BY <2>1, <2>2, <2>3
<1>7. Final(e.line) = f + x
  <2>1. Final(e.line) = Len(e.line) - 1 /\ Len(e.line) = Len(line) + x
    BY <1>2 DEF Final
  <2> HIDE DEF n, x, f
  <2> QED BY ONLY <1>6, <2>1
<1>8. /\ Cut(line, t.joints, 0) = 0 /\ Cut(line, t.joints, n + 1) = f
      /\ \A k \in 1..n : Cut(line, t.joints, k) = t.joints[k]
      /\ \A k \in 0..(n + 1) : Cut(line, t.joints, k) \in 0..f
  BY CutsAre
<1>9. /\ e.joints[1] = x /\ Len(e.joints) = n + 1 /\ \A k \in 1..n : e.joints[k + 1] = t.joints[k] + x
      /\ e.segs[1] = s /\ Len(e.segs) = n + 2 /\ \A k \in 1..(n + 1) : e.segs[k + 1] = t.segs[k]
  <2>1. Len(t.segs) + 1 = n + 2
    BY <1>6
  <2> QED BY <1>2, <1>6, <2>1
<1> HIDE DEF n, x, f
<1>10. Cut(e.line, e.joints, 0) = 0 /\ \A k \in 0..(n + 1) : Cut(e.line, e.joints, k + 1) = Cut(line, t.joints, k) + x
  <2>1. Len(e.joints) + 1 = n + 2 /\ n + 2 # 0
    BY <1>6, <1>9
  <2>2. Cut(e.line, e.joints, 0) = 0
    BY <2>1 DEF Cut
  <2>3. Cut(e.line, e.joints, n + 2) = f + x
    BY <1>7, <2>1 DEF Cut
  <2>4. \A k \in 1..(n + 1) : Cut(e.line, e.joints, k) = e.joints[k]
    <3> TAKE k \in 1..(n + 1)
    <3>1. k # 0 /\ k # n + 2
      BY <1>6
    <3> QED BY <2>1, <3>1 DEF Cut
  <2> SUFFICES ASSUME NEW k \in 0..(n + 1)
               PROVE  Cut(e.line, e.joints, k + 1) = Cut(line, t.joints, k) + x
    BY <2>2
  <2>5. CASE k = 0
    <3>1. 0 + 1 = 1 /\ 1 \in 1..(n + 1) /\ 0 + x = x
      BY <1>6
    <3> QED BY <1>8, <1>9, <2>4, <2>5, <3>1
  <2>6. CASE k = n + 1
    <3>1. (n + 1) + 1 = n + 2
      BY <1>6
    <3> QED BY <1>8, <2>3, <2>6, <3>1
  <2>7. CASE k \in 1..n
    <3>1. k + 1 \in 1..(n + 1)
      BY <1>6, <2>7
    <3> QED BY <1>8, <1>9, <2>4, <2>7, <3>1
  <2> QED BY <1>6, <2>5, <2>6, <2>7
<1>11. SegOn(e.line, d, s, 0, x)
  <2>1. PointAt(e.line, 0) = Begin(s)
    BY <1>4 DEF PointAt
  <2>2. 0 \in 0..Final(e.line) /\ x \in 0..Final(e.line) /\ x = 0 + Extent(s)
    <3>1. x = 0 + x
      BY <1>6
    <3> QED BY <1>6, <1>7, <3>1 DEF x
  <2> QED BY <2>1, <2>2 DEF SegOn
<1>12. ASSUME NEW k \in 1..(n + 1)
       PROVE  SegOn(e.line, d, e.segs[k + 1], Cut(e.line, e.joints, k), Cut(e.line, e.joints, k + 1))
  <2> DEFINE i == Cut(line, t.joints, k - 1)
             j == Cut(line, t.joints, k)
  <2>1. k - 1 \in 0..(n + 1) /\ k \in 0..(n + 1) /\ k \in 1..Len(t.segs) /\ (k - 1) + 1 = k
    BY <1>6
  <2>2. i \in 0..f /\ j \in 0..f
    BY <1>8, <2>1
  <2>3. SegOn(line, d, t.segs[k], i, j) /\ t.segs[k] \in Segs
    BY <1>5, <2>1, ElementOfSeq DEF Laid
  <2>4. Cut(e.line, e.joints, k) = i + x /\ Cut(e.line, e.joints, k + 1) = j + x
    BY <1>10, <2>1
  <2> HIDE DEF i, j
  <2>5. i + x \in 0..Final(e.line) /\ j + x \in 0..Final(e.line)
    BY <1>6, <1>7, <2>2
  <2>6. PointAt(e.line, i + x) = PointAt(line, i)
    <3>1. i + 1 \in 1..Len(line) /\ (i + x) + 1 = x + (i + 1)
      BY <1>6, <2>2
    <3> QED BY <1>2, <3>1 DEF PointAt, x
  <2>7. SegOn(e.line, d, t.segs[k], i + x, j + x)
    <3>1. Final(line) \in Nat /\ x \in Int
      BY <1>6 DEF f
    <3> QED BY <2>3, <2>5, <2>6, <3>1, LiesMoved
  <2> QED BY <1>9, <2>4, <2>7
<1>13. ASSUME NEW k \in 1..Len(e.segs)
       PROVE  SegOn(e.line, d, e.segs[k], Cut(e.line, e.joints, k - 1), Cut(e.line, e.joints, k))
  <2>1. CASE k = 1
    <3>1. 1 - 1 = 0 /\ 0 + 1 = 1 /\ 0 \in 0..(n + 1) /\ 0 + x = x
      BY <1>6
    <3>2. Cut(e.line, e.joints, 1) = x
      BY <1>8, <1>10, <3>1
    <3> QED BY <1>9, <1>10, <1>11, <2>1, <3>1, <3>2
  <2>2. CASE k # 1
    <3>1. k - 1 \in 1..(n + 1) /\ (k - 1) + 1 = k
      BY <1>6, <1>9, <2>2
    <3> QED BY <1>12, <3>1
  <2> QED BY <2>1, <2>2
<1> QED BY <1>3, <1>4, <1>13 DEF Laid

-----------------------------------------------------------------------------
(* The least and the greatest of some numbers.                                 *)
LEMMA LeastOf ==
  ASSUME NEW T \in SUBSET Nat, T # {}
  PROVE  Min(T) \in T /\ \A y \in T : Min(T) <= y
<1>1. PICK x \in T : \A y \in T : ~(<<y, x>> \in OpToRel(<, Nat))
  BY NatLessThanWellFounded, WFMin, Zenon
<1>2. \A y \in T : y \in Nat /\ x \in Nat /\ ~(y < x)
  BY <1>1 DEF OpToRel
<1>3. \A y \in T : x <= y
  BY <1>2
<1> QED BY <1>3 DEF Min

LEMMA GreatestOf ==
  ASSUME NEW n \in Nat, NEW T \in SUBSET (0..n), T # {}
  PROVE  Max(T) \in T /\ \A y \in T : Max(T) >= y
<1> DEFINE U == {n - y : y \in T}
<1>0. \A y \in T : y \in Nat /\ y <= n /\ n - y \in Nat
  OBVIOUS
<1>1. U \in SUBSET Nat /\ U # {}
  BY <1>0
<1>2. Min(U) \in U /\ \A y \in U : Min(U) <= y
  BY <1>1, LeastOf
<1>3. PICK x \in T : Min(U) = n - x
  BY <1>2
<1>4. \A y \in T : n - y \in U
  OBVIOUS
<1>5. \A y \in T : n - x <= n - y
  BY <1>2, <1>3, <1>4
<1>6. \A y \in T : x >= y
  BY <1>0, <1>5
<1> QED BY <1>6 DEF Max

(* The segments the first marker has left are those before the last joint that  *)
(* is before it.                                                               *)
LEMMA LeftBehindIs ==
  ASSUME NEW t, Jointed(t), NEW sub1 \in Nat, NEW i, i = LeftBehind(t, sub1)
  PROVE  i \in 0..Len(t.joints) /\ (i > 0 => t.joints[i] <= sub1 - 1)
<1> DEFINE n == Len(t.joints)
           T == {k \in DOMAIN t.joints : t.joints[k] > sub1 - 1} \cup {n + 1}
<1>1. n \in Nat /\ DOMAIN t.joints = 1..n /\ \A k \in 1..n : t.joints[k] \in Nat
  <2>1. t.joints \in Seq(Nat)
    BY DEF Jointed, Track
  <2> QED BY <2>1, LenProperties, ElementOfSeq
<1>2. i = Min(T) - 1
  BY DEF LeftBehind
<1>3. T \in SUBSET Nat /\ n + 1 \in T
  BY <1>1
<1>4. Min(T) \in T /\ Min(T) <= n + 1 /\ \A y \in T : Min(T) <= y
  BY <1>3, LeastOf
<1> DEFINE q == Min(T)
<1>5. q \in 1..(n + 1)
  BY <1>1, <1>4
<1>6. ASSUME i > 0 PROVE t.joints[i] <= sub1 - 1
  <2>1. i \in 1..n /\ ~(q <= i)
    BY <1>2, <1>5, <1>6, <1>1
  <2>2. i \notin T
    BY <1>4, <2>1
  <2> QED BY <1>1, <2>1, <2>2
<1> HIDE DEF q, T
<1>7. i \in 0..n
  BY <1>1, <1>2, <1>5 DEF q
<1> QED BY <1>6, <1>7

(* What is left of a track without its first segments.                         *)
LastPoints(w, line, cut) ==
  w \in Seq(Nat) /\ Len(w) = Len(line) - cut /\ \A k \in 1..(Len(line) - cut) : w[k] = line[cut + k]
LastSegs(segs2, joints2, segs, joints, i, cut) ==
  /\ segs2 \in Seq(Segs) /\ joints2 \in Seq(Nat) /\ Len(segs2) = Len(joints2) + 1
  /\ Len(joints2) = Len(joints) - i
  /\ \A k \in 1..(Len(joints) - i) : joints2[k] = joints[i + k] - cut
  /\ \A k \in 1..(Len(joints) - i + 1) : segs2[k] = segs[i + k]
KeepsLast(e, t, line, i, cut) ==
  /\ Jointed(e) /\ e.markers = t.markers /\ e.lit = t.lit
  /\ LastPoints(e.line, line, cut) /\ LastSegs(e.segs, e.joints, t.segs, t.joints, i, cut)

(* And without its last: the cut may be further than the line reaches.         *)
FirstPoints(w, line, cut) ==
  /\ w \in Seq(Nat) /\ Len(w) >= 2 /\ Len(w) <= Len(line) /\ \A k \in 1..Len(w) : w[k] = line[k]
  /\ cut < Len(line) => Len(w) = cut + 1
FirstSegs(segs2, joints2, segs, joints, i) ==
  /\ segs2 \in Seq(Segs) /\ joints2 \in Seq(Nat)
  /\ Len(joints2) = i /\ \A k \in 1..i : joints2[k] = joints[k]
  /\ Len(segs2) = i + 1 /\ \A k \in 1..(i + 1) : segs2[k] = segs[k]
KeepsFirst(e, t, line, i, cut) ==
  /\ Jointed(e) /\ e.markers = t.markers /\ e.lit = t.lit
  /\ FirstPoints(e.line, line, cut) /\ FirstSegs(e.segs, e.joints, t.segs, t.joints, i)

(* The line without the segments before the first marker.                      *)
LEMMA ShortenedAtStart ==
  ASSUME NEW t, Jointed(t), Ascend(t.joints), NEW line \in Seq(Nat), NEW sub1 \in Nat, sub1 < Len(line),
         NEW i, i = LeftBehind(t, sub1), i > 0, NEW cut, cut = t.joints[i],
         NEW e, e = ShortenedBefore(t, line, sub1)
  PROVE  /\ i \in 1..Len(t.joints) /\ cut \in Nat /\ cut <= sub1 - 1
         /\ KeepsLast(e, t, line, i, cut)
<1>1. /\ Len(t.joints) \in Nat /\ Len(t.segs) = Len(t.joints) + 1 /\ t.segs \in Seq(Segs)
      /\ t.joints \in Seq(Nat) /\ t \in Track /\ Len(line) \in Nat
  <2>1. t.segs \in Seq(Segs) /\ t.joints \in Seq(Nat) /\ Len(t.segs) = Len(t.joints) + 1 /\ t \in Track
    BY DEF Jointed, Track
  <2> QED BY <2>1, LenProperties
<1>2. i \in 1..Len(t.joints) /\ cut <= sub1 - 1 /\ cut \in Nat
  <2>1. i \in 0..Len(t.joints) /\ (i > 0 => t.joints[i] <= sub1 - 1)
    BY LeftBehindIs
  <2>2. i \in 1..Len(t.joints)
    BY <1>1, <2>1
  <2> QED BY <1>1, <2>1, <2>2, ElementOfSeq
<1> DEFINE n == Len(t.joints)
           l == Len(line)
           rest == SubSeq(t.joints, i + 1, n)
           segs == SubSeq(t.segs, i + 1, Len(t.segs))
           w == SubSeq(line, cut + 1, l)
           js == [k \in DOMAIN rest |-> rest[k] - cut]
<1>3. e = [t EXCEPT !.segs = segs, !.line = w, !.joints = js]
  <2>1. i # 0
    BY <1>2
  <2> QED BY <2>1 DEF ShortenedBefore
<1>4. /\ n \in Nat /\ l \in Nat /\ i \in 1..n /\ cut \in Nat /\ cut < l /\ Len(t.segs) = n + 1
      /\ t.joints \in Seq(Nat) /\ t.segs \in Seq(Segs) /\ line \in Seq(Nat)
  <2>1. sub1 \in Nat /\ sub1 < l /\ cut <= sub1 - 1 /\ cut \in Nat /\ l \in Nat
    BY <1>1, <1>2
  <2>2. cut < l
    <3> HIDE DEF l
    <3> QED BY ONLY <2>1
  <2> QED BY <1>1, <1>2, <2>2
<1>5. /\ rest \in Seq(Nat) /\ Len(rest) = n - i /\ \A k \in 1..(n - i) : rest[k] = t.joints[i + k]
  <2>1. i \in 0..Len(t.joints)
    BY <1>4
  <2>2. rest \in Seq(Nat) /\ Len(rest) = n - i
    BY ONLY <1>4, <2>1, TrkRest
  <2> QED BY ONLY <1>4, <2>1, <2>2, TrkRest
<1>6. /\ segs \in Seq(Segs) /\ Len(segs) = n - i + 1 /\ \A k \in 1..(n - i + 1) : segs[k] = t.segs[i + k]
  <2>1. i \in 0..Len(t.segs) /\ Len(t.segs) - i = n - i + 1
    <3> HIDE DEF n
    <3> QED BY ONLY <1>4
  <2>2. /\ segs \in Seq(Segs) /\ Len(segs) = Len(t.segs) - i
        /\ \A k \in 1..(Len(t.segs) - i) : segs[k] = t.segs[i + k]
    BY ONLY <1>4, <2>1, TrkRest
  <2> HIDE DEF segs, n
  <2> QED BY ONLY <2>1, <2>2
<1>7. /\ w \in Seq(Nat) /\ Len(w) = l - cut /\ \A k \in 1..(l - cut) : w[k] = line[cut + k]
  <2>1. cut \in 0..Len(line)
    BY ONLY <1>4
  <2>2. w \in Seq(Nat) /\ Len(w) = l - cut
    BY ONLY <1>4, <2>1, TrkRest
  <2> QED BY ONLY <1>4, <2>1, <2>2, TrkRest
<1> HIDE DEF n, l, rest, segs, w
<1>8. js \in Seq(Nat) /\ Len(js) = n - i /\ \A k \in 1..(n - i) : js[k] = t.joints[i + k] - cut
  <2>1. DOMAIN rest = 1..(n - i)
    BY <1>5, LenProperties
  <2>2. n - i \in Nat
    BY ONLY <1>4
  <2>3. \A k \in 1..(n - i) : t.joints[i + k] - cut \in Nat
    <3> TAKE k \in 1..(n - i)
    <3>1. i + k \in 1..n /\ i \in 1..n /\ i <= i + k
      <4>1. k \in 1..(n - i)
        OBVIOUS
      <4> QED BY ONLY <1>4, <4>1
    <3>2. t.joints[i] <= t.joints[i + k] /\ t.joints[i + k] \in Nat
      BY <1>4, <3>1, ElementOfSeq DEF Ascend, n
    <3>3. cut <= t.joints[i + k]
      BY <3>2
    <3>4. cut \in Nat /\ t.joints[i + k] \in Nat
      BY <1>4, <3>2
    <3> QED BY ONLY <3>3, <3>4
  <2>4. js = [k \in 1..(n - i) |-> rest[k] - cut]
    BY <2>1
  <2>5. js \in [1..(n - i) -> Nat]
    BY ONLY <1>5, <2>3, <2>4
  <2>6. js \in Seq(Nat) /\ Len(js) = n - i
    <3> HIDE DEF js
    <3> QED BY ONLY <2>2, <2>5, TrkSequence
  <2> QED BY ONLY <1>5, <2>4, <2>6
<1> HIDE DEF js
<1>9. e.line = w /\ e.segs = segs /\ e.joints = js /\ e.markers = t.markers /\ e.lit = t.lit /\ e \in Track
  BY <1>1, <1>3, <1>6, <1>7, <1>8 DEF Track
<1>10. Jointed(e)
  BY <1>6, <1>8, <1>9 DEF Jointed
<1>11. /\ Len(e.joints) = Len(t.joints) - i
       /\ \A k \in 1..(Len(t.joints) - i) : e.joints[k] = t.joints[i + k] - cut
       /\ \A k \in 1..(Len(t.joints) - i + 1) : e.segs[k] = t.segs[i + k]
  BY <1>6, <1>8, <1>9 DEF n
<1>12. Len(e.line) = Len(line) - cut /\ \A k \in 1..(Len(line) - cut) : e.line[k] = line[cut + k]
  BY <1>7, <1>9 DEF l
<1>13. e.line \in Seq(Nat) /\ e.segs \in Seq(Segs) /\ e.joints \in Seq(Nat) /\ Len(e.segs) = Len(e.joints) + 1
  BY <1>10 DEF Jointed, Track
<1> QED BY <1>2, <1>9, <1>10, <1>11, <1>12, <1>13 DEF KeepsLast, LastPoints, LastSegs

(* The line without the segments after the second marker but for one.          *)
LEMMA ShortenedAtEnd ==
  ASSUME NEW t, Jointed(t), NEW line \in Seq(Nat), Len(line) >= 2, NEW sub2 \in Nat,
         NEW i, i = Max({k \in 2..Len(t.joints) : t.joints[k] <= sub2} \cup {1}), i < Len(t.joints),
         NEW cut, cut = t.joints[i + 1],
         NEW e, e = ShortenedAfter(t, line, sub2)
  PROVE  /\ i \in 1..(Len(t.joints) - 1) /\ cut \in Nat /\ cut > sub2
         /\ KeepsFirst(e, t, line, i, cut)
<1>1. /\ Len(t.joints) \in Nat /\ Len(t.segs) = Len(t.joints) + 1 /\ t.segs \in Seq(Segs)
      /\ t.joints \in Seq(Nat) /\ t \in Track /\ Len(line) \in Nat
  <2>1. t.segs \in Seq(Segs) /\ t.joints \in Seq(Nat) /\ Len(t.segs) = Len(t.joints) + 1 /\ t \in Track
    BY DEF Jointed, Track
  <2> QED BY <2>1, LenProperties
<1>2. i \in 1..(Len(t.joints) - 1) /\ i + 1 \in 1..Len(t.joints) /\ ~(t.joints[i + 1] <= sub2)
  <2> DEFINE n == Len(t.joints)
             T == {k \in 2..n : t.joints[k] <= sub2} \cup {1}
  <2>1. n + 1 \in Nat /\ T \in SUBSET (0..(n + 1)) /\ T # {} /\ 1 \in T
    <3>1. \A k \in 2..n : k \in 0..(n + 1)
      BY <1>1
    <3>2. 1 \in 0..(n + 1) /\ n + 1 \in Nat
      BY <1>1
    <3> QED BY <3>1, <3>2
  <2>2. Max(T) \in T /\ \A y \in T : Max(T) >= y
    <3> HIDE DEF T
    <3> QED BY <2>1, GreatestOf
  <2>3. i = Max(T)
    OBVIOUS
  <2>4. i \in Nat /\ i >= 1
    <3>1. \A y \in T : y \in Nat
      BY <2>1
    <3> QED BY <2>1, <2>2, <2>3, <3>1
  <2>5. i \in 1..(n - 1) /\ i + 1 \in 2..n /\ i + 1 \in 1..n
    <3>1. i < n /\ n \in Nat
      BY <1>1
    <3> HIDE DEF n
    <3> QED BY ONLY <2>4, <3>1
  <2>6. i + 1 \notin T
    <3> HIDE DEF T
    <3>1. i >= i + 1 \/ i + 1 \notin T
      BY <2>2, <2>3
    <3> QED BY ONLY <2>4, <3>1
  <2> QED BY <2>5, <2>6
<1>3. cut \in Nat /\ cut > sub2
  <2>1. cut \in Nat
    BY <1>1, <1>2, ElementOfSeq
  <2>2. ~(cut <= sub2) /\ sub2 \in Nat
    BY <1>2
  <2> QED BY ONLY <2>1, <2>2
<1> DEFINE m == Min({cut + 1, Len(line)})
           segs == SubSeq(t.segs, 1, i + 1)
           js == SubSeq(t.joints, 1, i)
           w == SubSeq(line, 1, m)
<1>4. e = [t EXCEPT !.segs = segs, !.joints = js, !.line = w]
  <2>1. Len(t.joints) # 0 /\ ~(i >= Len(t.joints))
    BY <1>1, <1>2
  <2> QED BY <2>1 DEF ShortenedAfter
<1>5. m \in 0..Len(line) /\ m >= 2 /\ (cut < Len(line) => m = cut + 1)
  <2>1. {cut + 1, Len(line)} \in SUBSET Nat /\ {cut + 1, Len(line)} # {}
    BY <1>1, <1>3, SMTT(20)
  <2>2. m \in {cut + 1, Len(line)} /\ \A y \in {cut + 1, Len(line)} : m <= y
    BY <2>1, LeastOf
  <2>3. (m = cut + 1 \/ m = Len(line)) /\ m <= cut + 1 /\ m <= Len(line)
    BY <2>2
  <2>4. Len(line) >= 2 /\ Len(line) \in Nat /\ sub2 \in Nat
    BY <1>1
  <2> HIDE DEF m
  <2> QED BY ONLY <1>3, <2>3, <2>4
<1> HIDE DEF m
<1>6. segs \in Seq(Segs) /\ Len(segs) = i + 1 /\ \A k \in 1..(i + 1) : segs[k] = t.segs[k]
  <2>1. i + 1 \in 0..Len(t.segs)
    <3>1. Len(t.joints) \in Nat /\ i \in 1..(Len(t.joints) - 1) /\ Len(t.segs) = Len(t.joints) + 1
      BY <1>1, <1>2
    <3> QED BY ONLY <3>1
  <2>2. t.segs \in Seq(Segs)
    BY <1>1
  <2>3. segs \in Seq(Segs) /\ Len(segs) = i + 1
    BY ONLY <2>1, <2>2, TrkFirst
  <2> QED BY ONLY <2>1, <2>2, <2>3, TrkFirst
<1>7. js \in Seq(Nat) /\ Len(js) = i /\ \A k \in 1..i : js[k] = t.joints[k]
  <2>1. i \in 0..Len(t.joints)
    <3>1. Len(t.joints) \in Nat /\ i \in 1..(Len(t.joints) - 1)
      BY <1>1, <1>2
    <3> QED BY ONLY <3>1
  <2>2. t.joints \in Seq(Nat)
    BY <1>1
  <2>3. js \in Seq(Nat) /\ Len(js) = i
    BY ONLY <2>1, <2>2, TrkFirst
  <2> QED BY ONLY <2>1, <2>2, <2>3, TrkFirst
<1>8. w \in Seq(Nat) /\ Len(w) = m /\ \A k \in 1..m : w[k] = line[k]
  <2>1. m \in 0..Len(line) /\ line \in Seq(Nat)
    BY <1>5
  <2>2. w \in Seq(Nat) /\ Len(w) = m
    BY ONLY <2>1, TrkFirst
  <2> QED BY ONLY <2>1, <2>2, TrkFirst
<1> HIDE DEF segs, js, w
<1>9. e.line = w /\ e.segs = segs /\ e.joints = js /\ e.markers = t.markers /\ e.lit = t.lit /\ e \in Track
  BY <1>1, <1>4, <1>6, <1>7, <1>8 DEF Track
<1>10. Jointed(e)
  BY <1>6, <1>7, <1>9 DEF Jointed
<1>11. /\ Len(e.joints) = i /\ \A k \in 1..i : e.joints[k] = t.joints[k]
       /\ Len(e.segs) = i + 1 /\ \A k \in 1..(i + 1) : e.segs[k] = t.segs[k]
  BY <1>6, <1>7, <1>9
<1>12. /\ Len(e.line) >= 2 /\ Len(e.line) <= Len(line)
       /\ \A k \in 1..Len(e.line) : e.line[k] = line[k]
       /\ cut < Len(line) => Len(e.line) = cut + 1
  BY <1>5, <1>8, <1>9
<1>13. e.line \in Seq(Nat) /\ e.segs \in Seq(Segs) /\ e.joints \in Seq(Nat)
  BY <1>10 DEF Jointed, Track
<1> QED BY <1>2, <1>3, <1>9, <1>10, <1>11, <1>12, <1>13 DEF KeepsFirst, FirstPoints, FirstSegs

(* A part of a straight line, and the places that stay on it.                  *)
LEMMA StraightPart ==
  ASSUME NEW line, NEW d, Runs(line, d), NEW w \in Seq(Nat), Len(w) >= 2, NEW c \in Nat,
         c + Len(w) <= Len(line), \A k \in 1..Len(w) : w[k] = line[c + k]
  PROVE  /\ Runs(w, d)
         /\ \A place \in Int :
              /\ 2 * c <= Off(line, d, place) /\ Off(line, d, place) <= 2 * (c + Final(w))
              => IsOn(w, place)
<1>1. Len(line) \in Nat /\ d \in {1, -1} /\ line[1] \in Nat /\ Len(w) \in Nat
  BY StraightPoints, LenProperties
<1>2. \A k \in 1..Len(line) : line[k] \in Road /\ line[k] = (IF d = 1 THEN line[1] + (k - 1) ELSE line[1] - (k - 1))
  BY DEF Runs
<1>3. \A k \in 1..Len(w) : /\ w[k] \in Road
                           /\ w[k] = (IF d = 1 THEN line[1] + (c + k - 1) ELSE line[1] - (c + k - 1))
  <2> TAKE k \in 1..Len(w)
  <2>1. c + k \in 1..Len(line)
    BY <1>1
  <2>2. line[c + k] \in Road /\ line[c + k] = (IF d = 1 THEN line[1] + ((c + k) - 1) ELSE line[1] - ((c + k) - 1))
    BY <1>2, <2>1
  <2> QED BY <2>2
<1>4. w[1] = (IF d = 1 THEN line[1] + c ELSE line[1] - c)
  <2>1. 1 \in 1..Len(w) /\ c + 1 - 1 = c
    BY <1>1
  <2> QED BY <1>3, <2>1
<1>5. \A k \in 1..Len(w) : w[k] = (IF d = 1 THEN w[1] + (k - 1) ELSE w[1] - (k - 1))
  <2> TAKE k \in 1..Len(w)
  <2>1. k \in Int /\ c \in Int /\ line[1] \in Int /\ d \in {1, -1}
    BY <1>1
  <2>2. w[k] = (IF d = 1 THEN line[1] + (c + k - 1) ELSE line[1] - (c + k - 1))
    BY <1>3
  <2> QED BY ONLY <1>4, <2>1, <2>2
<1>6. Runs(w, d)
  BY <1>1, <1>3, <1>5 DEF Runs, Ways
<1>7. ASSUME NEW place \in Int, 2 * c <= Off(line, d, place), Off(line, d, place) <= 2 * (c + Final(w))
      PROVE  IsOn(w, place)
  <2>1. Off(w, d, place) = Off(line, d, place) - 2 * c /\ Off(line, d, place) \in Int
    <3>1. d \in {1, -1} /\ line[1] \in Nat /\ c \in Nat /\ place \in Int
      BY <1>1
    <3> QED BY ONLY <1>4, <3>1, SMTT(20) DEF Off
  <2>2. Final(w) \in Nat
    BY <1>6, StraightPoints
  <2>3. Off(w, d, place) \in 0..(2 * Final(w))
    BY <1>7, <2>1, <2>2
  <2> QED BY <1>6, <2>3, TopPiece
<1> QED BY <1>6, <1>7

(* A line that gave up its first segments is those it kept.                    *)
LEMMA LaidWithoutFirst ==
  ASSUME NEW line, NEW d, NEW segs, NEW joints, Laid(line, d, segs, joints),
         NEW i \in 1..Len(joints), NEW cut, cut = joints[i],
         NEW w, LastPoints(w, line, cut), Runs(w, d),
         NEW segs2, NEW joints2, LastSegs(segs2, joints2, segs, joints, i, cut)
  PROVE  Laid(w, d, segs2, joints2)
<1>0. /\ w \in Seq(Nat) /\ Len(w) = Len(line) - cut
      /\ \A k \in 1..(Len(line) - cut) : w[k] = line[cut + k]
      /\ segs2 \in Seq(Segs) /\ joints2 \in Seq(Nat) /\ Len(segs2) = Len(joints2) + 1
      /\ Len(joints2) = Len(joints) - i
      /\ \A k \in 1..(Len(joints) - i) : joints2[k] = joints[i + k] - cut
      /\ \A k \in 1..(Len(joints) - i + 1) : segs2[k] = segs[i + k]
  BY DEF LastPoints, LastSegs
<1> DEFINE n == Len(joints)
           f == Final(line)
<1>1. n \in Nat /\ f \in Nat /\ Len(segs) = n + 1 /\ Len(line) = f + 1 /\ segs \in Seq(Segs) /\ i \in 1..n
  <2>1. n \in Nat /\ f \in Nat /\ Len(segs) = n + 1
    BY CutsAre
  <2>2. Runs(line, d) /\ segs \in Seq(Segs)
    BY DEF Laid
  <2>3. Len(line) = f + 1
    <3>1. Final(line) = Len(line) - 1 /\ Len(line) \in Nat
      BY <2>2, StraightPoints
    <3> QED BY ONLY <3>1
  <2> QED BY <2>1, <2>2, <2>3
<1>2. /\ Cut(line, joints, 0) = 0 /\ Cut(line, joints, n + 1) = f
      /\ \A k \in 1..n : Cut(line, joints, k) = joints[k]
      /\ \A k \in 0..(n + 1) : Cut(line, joints, k) \in 0..f
  BY CutsAre
<1>3. Ascend(joints) /\ cut \in 0..f /\ \A k \in 1..n : joints[k] \in 0..f
  <2>1. \A k \in 1..n : k \in 0..(n + 1)
    BY <1>1
  <2>2. Ascend(joints)
    BY JointsAscend
  <2>3. \A k \in 1..n : joints[k] \in 0..f
    BY <1>2, <2>1
  <2> QED BY <2>2, <2>3
<1>4. Final(w) = f - cut /\ Len(segs2) = n - i + 1
  <2>1. Final(w) = Len(w) - 1 /\ Len(segs2) = (n - i) + 1
    BY <1>0 DEF Final
  <2>2. Len(w) = (f + 1) - cut
    BY <1>0, <1>1
  <2> HIDE DEF n, f
  <2> QED BY ONLY <1>1, <1>3, <2>1, <2>2
<1>5. ASSUME NEW k \in 0..(n - i + 1)
      PROVE  /\ Cut(w, joints2, k) = Cut(line, joints, i + k) - cut
             /\ Cut(line, joints, i + k) \in cut..f
  <2>1. Len(joints2) + 1 = n - i + 1
    BY <1>0
  <2>2. CASE k = 0
    <3>1. i + 0 = i /\ i \in 1..n /\ cut - cut = 0 /\ cut \in cut..f
      BY <1>1, <1>3
    <3> QED BY <1>2, <2>2, <3>1 DEF Cut
  <2>3. CASE k = n - i + 1
    <3>1. i + k = n + 1 /\ f \in cut..f /\ k # 0
      BY <1>1, <1>3, <2>3
    <3>2. Cut(w, joints2, k) = f - cut
      BY <1>4, <2>1, <2>3, <3>1 DEF Cut
    <3> QED BY <1>2, <3>1, <3>2
  <2>4. CASE k \in 1..(n - i)
    <3>1. i + k \in 1..n /\ k # 0 /\ k # n - i + 1 /\ i <= i + k
      <4> HIDE DEF n, f
      <4> QED BY ONLY <1>1, <2>4
    <3>2. Cut(w, joints2, k) = joints[i + k] - cut
      BY <1>0, <2>1, <2>4, <3>1 DEF Cut
    <3>3. Cut(line, joints, i + k) = joints[i + k]
      BY <1>2, <3>1
    <3>4. cut <= joints[i + k] /\ joints[i + k] \in 0..f
      BY <1>3, <3>1 DEF Ascend
    <3>5. joints[i + k] \in cut..f
      <4> HIDE DEF f, n
      <4> QED BY ONLY <1>1, <1>3, <3>4
    <3> QED BY <3>2, <3>3, <3>5
  <2>5. k = 0 \/ k = n - i + 1 \/ k \in 1..(n - i)
    <3>1. k \in 0..(n - i + 1)
      OBVIOUS
    <3> HIDE DEF n
    <3> QED BY ONLY <1>1, <3>1
  <2> QED BY <2>2, <2>3, <2>4, <2>5
<1>6. ASSUME NEW k \in 1..Len(segs2)
      PROVE  SegOn(w, d, segs2[k], Cut(w, joints2, k - 1), Cut(w, joints2, k))
  <2> DEFINE a == Cut(line, joints, i + k - 1)
             b == Cut(line, joints, i + k)
  <2>1. /\ k - 1 \in 0..(n - i + 1) /\ k \in 0..(n - i + 1) /\ i + k \in 1..(n + 1) /\ k \in 1..(n - i + 1)
        /\ i + (k - 1) = i + k - 1
    <3>1. k \in 1..(n - i + 1)
      BY <1>4
    <3> HIDE DEF n
    <3> QED BY ONLY <1>1, <3>1
  <2>2. i + k \in 1..Len(segs)
    BY <1>1, <2>1
  <2>3. SegOn(line, d, segs[i + k], a, b) /\ segs[i + k] \in Segs
    BY <1>1, <2>2, ElementOfSeq DEF Laid
  <2>4. Cut(w, joints2, k - 1) = a - cut /\ a \in cut..f
    BY <1>5, <2>1
  <2>5. Cut(w, joints2, k) = b - cut /\ b \in cut..f
    BY <1>5, <2>1
  <2> HIDE DEF a, b, f, n
  <2>6. a + (0 - cut) = a - cut /\ b + (0 - cut) = b - cut /\ 0 - cut \in Int
        /\ a - cut \in 0..Final(w) /\ b - cut \in 0..Final(w) /\ a \in Nat
    BY ONLY <1>1, <1>3, <1>4, <2>4, <2>5
  <2>7. PointAt(w, a - cut) = PointAt(line, a)
    <3>1. (a - cut) + 1 \in 1..(Len(line) - cut) /\ cut + ((a - cut) + 1) = a + 1
      BY ONLY <1>1, <1>3, <2>4
    <3> QED BY <1>0, <3>1 DEF PointAt
  <2>8. Final(line) \in Nat
    BY <1>1 DEF f
  <2>9. SegOn(w, d, segs[i + k], a + (0 - cut), b + (0 - cut))
    BY <2>3, <2>6, <2>7, <2>8, LiesMoved
  <2> QED BY <1>0, <2>1, <2>4, <2>5, <2>6, <2>9 DEF n
<1> QED BY <1>0, <1>6 DEF Laid

(* And so is one that gave up its last ones.                                   *)
LEMMA LaidWithoutLast ==
  ASSUME NEW line, NEW d, NEW segs, NEW joints, Laid(line, d, segs, joints),
         NEW i \in 1..(Len(joints) - 1), NEW cut, cut = joints[i + 1], cut < Len(line),
         NEW w, FirstPoints(w, line, cut), Runs(w, d),
         NEW segs2, NEW joints2, FirstSegs(segs2, joints2, segs, joints, i)
  PROVE  Laid(w, d, segs2, joints2)
<1>0. /\ w \in Seq(Nat) /\ Len(w) = cut + 1 /\ \A k \in 1..Len(w) : w[k] = line[k]
      /\ segs2 \in Seq(Segs) /\ joints2 \in Seq(Nat) /\ Len(segs2) = i + 1 /\ Len(joints2) = i
      /\ \A k \in 1..i : joints2[k] = joints[k]
      /\ \A k \in 1..(i + 1) : segs2[k] = segs[k]
  BY DEF FirstPoints, FirstSegs
<1> DEFINE n == Len(joints)
           f == Final(line)
<1>1. n \in Nat /\ f \in Nat /\ Len(segs) = n + 1 /\ segs \in Seq(Segs) /\ i \in 1..(n - 1)
  <2>1. n \in Nat /\ f \in Nat /\ Len(segs) = n + 1
    BY CutsAre
  <2> QED BY <2>1 DEF Laid
<1>2. /\ Cut(line, joints, 0) = 0
      /\ \A k \in 1..n : Cut(line, joints, k) = joints[k]
      /\ \A k \in 0..(n + 1) : Cut(line, joints, k) \in 0..f
  BY CutsAre
<1>3. Ascend(joints) /\ cut \in 0..f /\ \A k \in 1..n : joints[k] \in 0..f
  <2>1. i + 1 \in 1..n /\ \A k \in 1..n : k \in 0..(n + 1)
    BY <1>1
  <2>2. Ascend(joints)
    BY JointsAscend
  <2>3. \A k \in 1..n : joints[k] \in 0..f
    BY <1>2, <2>1
  <2> QED BY <2>1, <2>2, <2>3
<1>4. Final(w) = cut
  BY <1>0, <1>1, <1>3 DEF Final
<1> HIDE DEF n, f
<1>5. ASSUME NEW k \in 0..(i + 1)
      PROVE  /\ Cut(w, joints2, k) = Cut(line, joints, k)
             /\ Cut(line, joints, k) \in 0..cut
  <2>1. i \in Nat /\ i + 1 \in 1..n /\ cut \in Nat
    BY <1>1, <1>3
  <2>2. CASE k = 0
    BY <1>2, <2>1, <2>2 DEF Cut
  <2>3. CASE k = i + 1
    <3>1. k # 0 /\ cut \in 0..cut
      BY <2>1, <2>3
    <3> QED BY <1>0, <1>2, <1>4, <2>1, <2>3, <3>1 DEF Cut
  <2>4. CASE k \in 1..i
    <3>1. k # 0 /\ k # i + 1 /\ k \in 1..n /\ k <= i + 1
      BY <1>1, <2>1, <2>4
    <3>2. joints[k] <= cut /\ joints[k] \in 0..f
      BY <1>3, <2>1, <3>1 DEF Ascend, n
    <3>3. joints[k] \in 0..cut
      BY <2>1, <3>2
    <3> QED BY <1>0, <1>2, <2>4, <3>1, <3>3 DEF Cut
  <2> QED BY <2>1, <2>2, <2>3, <2>4
<1>6. ASSUME NEW k \in 1..Len(segs2)
      PROVE  SegOn(w, d, segs2[k], Cut(w, joints2, k - 1), Cut(w, joints2, k))
  <2> DEFINE a == Cut(line, joints, k - 1)
             b == Cut(line, joints, k)
  <2>1. k - 1 \in 0..(i + 1) /\ k \in 0..(i + 1) /\ k \in 1..(n + 1) /\ k \in 1..(i + 1)
    BY <1>0, <1>1
  <2>2. k \in 1..Len(segs)
    BY <1>1, <2>1
  <2>3. SegOn(line, d, segs[k], a, b) /\ segs[k] \in Segs
    BY <1>1, <2>2, ElementOfSeq DEF Laid
  <2>4. Cut(w, joints2, k - 1) = a /\ a \in 0..cut /\ Cut(w, joints2, k) = b /\ b \in 0..cut
    BY <1>5, <2>1
  <2> HIDE DEF a, b
  <2>6. a + 0 = a /\ b + 0 = b /\ 0 \in Int /\ a \in 0..Final(w) /\ b \in 0..Final(w)
    BY <1>3, <1>4, <2>4
  <2>7. PointAt(w, a) = PointAt(line, a)
    <3>1. a + 1 \in 1..Len(w)
      BY <1>0, <1>3, <2>4, SMTT(20)
    <3> QED BY <1>0, <3>1 DEF PointAt
  <2>8. Final(line) \in Nat
    BY <1>1 DEF f
  <2>9. SegOn(w, d, segs[k], a + 0, b + 0)
    BY <2>3, <2>6, <2>7, <2>8, LiesMoved
  <2> QED BY <1>0, <2>1, <2>4, <2>6, <2>9
<1>7. Len(segs2) = Len(joints2) + 1
  BY <1>0
<1> QED BY <1>0, <1>6, <1>7 DEF Laid

-----------------------------------------------------------------------------
(* A line runs one way only.                                                   *)
LEMMA RunsOneWay ==
  ASSUME NEW line, NEW d, NEW e, Runs(line, d), Runs(line, e)
  PROVE  d = e
<1>1. Len(line) \in Nat /\ Len(line) >= 2 /\ d \in {1, -1} /\ e \in {1, -1} /\ line[1] \in Nat
  BY StraightPoints
<1>2. 2 \in 1..Len(line) /\ 2 - 1 = 1
  BY <1>1
<1>3. line[2] = (IF d = 1 THEN line[1] + 1 ELSE line[1] - 1) /\ line[2] = (IF e = 1 THEN line[1] + 1 ELSE line[1] - 1)
  BY <1>2 DEF Runs
<1> QED BY ONLY <1>1, <1>3

(* What is on a line is on one that goes on from it.                           *)
LEMMA StaysOn ==
  ASSUME NEW line \in Seq(Nat), NEW w \in Seq(Nat), NEW c \in Nat, c + Len(line) <= Len(w),
         \A k \in 1..Len(line) : w[c + k] = line[k], NEW place, IsOn(line, place)
  PROVE  IsOn(w, place)
<1>1. Len(line) \in Nat /\ Len(w) \in Nat
  BY LenProperties
<1>2. PICK i \in 1..(Len(line) - 1) : OnPiece(line, place, i)
  BY DEF IsOn, Pieces, Final
<1>3. /\ c + i \in 1..(Len(w) - 1) /\ i \in 1..Len(line) /\ i + 1 \in 1..Len(line)
      /\ (c + i - 1) + 1 = c + i /\ (c + i) + 1 = c + (i + 1) /\ (i - 1) + 1 = i
  BY <1>1
<1>4. PointAt(w, c + i - 1) = PointAt(line, i - 1) /\ PointAt(w, c + i) = PointAt(line, i)
  BY <1>3 DEF PointAt
<1>5. OnPiece(w, place, c + i)
  BY <1>2, <1>4, SMTT(20) DEF OnPiece
<1> QED BY <1>3, <1>5 DEF IsOn, Pieces, Final

(* Whichever way the neighbour was digitised: the track stays jointed, and what *)
(* was on the line is on it.                                                   *)
LEMMA ExtendedKeeps ==
  ASSUME NEW t, Jointed(t), NEW line \in Seq(Nat), Len(line) >= 2, NEW s \in Segs, NEW e, e = Extended(t, line, s)
  PROVE  /\ Jointed(e) /\ e.markers = t.markers /\ e.lit = t.lit
         /\ \A place : IsOn(line, place) => IsOn(e.line, place)
         /\ Ascend(t.joints) /\ (\A k \in 1..Len(t.joints) : t.joints[k] <= Final(line)) => Ascend(e.joints)
<1>1. /\ Extent(s) \in Nat /\ Len(line) \in Nat /\ Final(line) \in Nat /\ t.joints \in Seq(Nat) /\ Len(t.joints) \in Nat
      /\ \A k \in 1..Len(t.joints) : t.joints[k] \in Nat
  <2>1. t.joints \in Seq(Nat)
    BY DEF Jointed, Track
  <2>2. Extent(s) \in Nat
    BY SegmentSpans
  <2>3. Len(line) \in Nat
    BY LenProperties
  <2>4. Final(line) \in Nat
    BY <2>3 DEF Final
  <2> QED BY <2>1, <2>2, <2>3, <2>4, LenProperties, ElementOfSeq
<1>2. CASE PointsOf(s)[1] = Last(line)
  <2>1. Jointed(e) /\ e.markers = t.markers /\ e.lit = t.lit
    BY <1>2, ExtendedAtEnd
  <2>2. e.joints = Append(t.joints, Final(line))
    BY <1>2, ExtendedAtEnd
  <2>3. Len(e.line) = Len(line) + Extent(s)
    BY <1>2, ExtendedAtEnd
  <2>4. \A k \in 1..Len(line) : e.line[k] = line[k]
    BY <1>2, ExtendedAtEnd
  <2>5. e.line \in Seq(Nat)
    BY <2>1 DEF Jointed, Track
  <2>6. ASSUME NEW place, IsOn(line, place) PROVE IsOn(e.line, place)
    <3>1. 0 + Len(line) <= Len(e.line) /\ 0 \in Nat
      BY <1>1, <2>3
    <3>2. \A k \in 1..Len(line) : e.line[0 + k] = line[k]
      <4>1. \A k \in 1..Len(line) : 0 + k = k
        BY <1>1
      <4> QED BY <2>4, <4>1
    <3> QED BY <2>5, <2>6, <3>1, <3>2, StaysOn
  <2>7. ASSUME Ascend(t.joints), \A k \in 1..Len(t.joints) : t.joints[k] <= Final(line) PROVE Ascend(e.joints)
    <3> DEFINE n == Len(t.joints)
    <3>1. Len(e.joints) = n + 1 /\ e.joints[n + 1] = Final(line) /\ \A k \in 1..n : e.joints[k] = t.joints[k]
      BY <1>1, <2>2, AppendProperties
    <3>2. ASSUME NEW i \in 1..(n + 1), NEW j \in 1..(n + 1), i <= j PROVE e.joints[i] <= e.joints[j]
      <4>1. CASE j \in 1..n
        <5>1. i \in 1..n
          BY <1>1, <3>2, <4>1
        <5> QED BY <2>7, <3>1, <3>2, <4>1, <5>1 DEF Ascend
      <4>2. CASE j \notin 1..n
        <5>1. j = n + 1 /\ (i = n + 1 \/ i \in 1..n)
          BY <1>1, <4>2
        <5>2. Final(line) <= Final(line)
          BY <1>1
        <5> QED BY <2>7, <3>1, <5>1, <5>2
      <4> QED BY <4>1, <4>2
    <3> QED BY <3>1, <3>2 DEF Ascend
  <2> QED BY <2>1, <2>6, <2>7
<1>3. CASE PointsOf(s)[1] # Last(line)
  <2>1. Jointed(e) /\ e.markers = t.markers /\ e.lit = t.lit
    BY <1>3, ExtendedAtStart
  <2>2. e.joints[1] = Extent(s) /\ Len(e.joints) = Len(t.joints) + 1
    BY <1>3, ExtendedAtStart
  <2>3. \A k \in 1..Len(t.joints) : e.joints[k + 1] = t.joints[k] + Extent(s)
    BY <1>3, ExtendedAtStart
  <2>4. Len(e.line) = Len(line) + Extent(s)
    BY <1>3, ExtendedAtStart
  <2>5. \A k \in 1..Len(line) : e.line[Extent(s) + k] = line[k]
    BY <1>3, ExtendedAtStart
  <2>6. e.line \in Seq(Nat)
    BY <2>1 DEF Jointed, Track
  <2>7. ASSUME NEW place, IsOn(line, place) PROVE IsOn(e.line, place)
    <3>1. Extent(s) + Len(line) <= Len(e.line)
      BY <1>1, <2>4
    <3> QED BY <1>1, <2>5, <2>6, <2>7, <3>1, StaysOn
  <2>8. ASSUME Ascend(t.joints) PROVE Ascend(e.joints)
    <3> DEFINE n == Len(t.joints)
               x == Extent(s)
    <3>1. \A k \in 2..(n + 1) : /\ k - 1 \in 1..n /\ (k - 1) + 1 = k
      BY <1>1
    <3>2. \A k \in 2..(n + 1) : k - 1 \in 1..n /\ e.joints[k] = t.joints[k - 1] + x
      BY <2>3, <3>1
    <3> HIDE DEF n, x
    <3>3. ASSUME NEW i \in 1..(n + 1), NEW j \in 1..(n + 1), i <= j PROVE e.joints[i] <= e.joints[j]
      <4>1. CASE i = 1
        <5>1. j = 1 \/ j \in 2..(n + 1)
          BY <1>1 DEF n
        <5>2. x <= x /\ \A v \in Nat : x <= v + x
          BY <1>1 DEF x
        <5> QED BY <1>1, <2>2, <3>2, <4>1, <5>1, <5>2 DEF n, x
      <4>2. CASE i # 1
        <5>1. i \in 2..(n + 1) /\ j \in 2..(n + 1) /\ i - 1 <= j - 1
          BY <1>1, <3>3, <4>2 DEF n
        <5>2. i - 1 \in 1..n /\ j - 1 \in 1..n
          BY <3>2, <5>1
        <5>3. t.joints[i - 1] <= t.joints[j - 1] /\ t.joints[i - 1] \in Nat /\ t.joints[j - 1] \in Nat /\ x \in Nat
          BY <1>1, <2>8, <5>1, <5>2 DEF Ascend, n, x
        <5>4. t.joints[i - 1] + x <= t.joints[j - 1] + x
          BY ONLY <5>3
        <5> QED BY <3>2, <5>1, <5>4
      <4> QED BY <4>1, <4>2
    <3> QED BY <2>2, <3>3 DEF Ascend, n
  <2> QED BY <2>1, <2>7, <2>8
<1> QED BY <1>2, <1>3

(* A neighbour that goes the way of the line keeps the line running that way,   *)
(* and its segments one after the other.                                       *)
LEMMA ExtendedOnWay ==
  ASSUME NEW t, Jointed(t), NEW c, NEW d, Runs(c.line, d), c.first \in BOOLEAN,
         NEW s \in Joining(c), FitsOn(c, PointsOf(s)), NEW e, e = Extended(t, c.line, s)
  PROVE  /\ Runs(e.line, d)
         /\ Laid(c.line, d, t.segs, t.joints) => Laid(e.line, d, e.segs, e.joints)
<1> DEFINE line == c.line
<1>1. line \in Seq(Nat) /\ Len(line) >= 2
  BY StraightPoints
<1>2. s \in Segs /\ Way(s) = d
  BY JoinsOn
<1>3. CASE c.first
  <2>1. End(s) = line[1] /\ PointsOf(s)[1] # Last(line)
    BY <1>3, JoinsOn
  <2>2. Jointed(e) /\ Len(e.line) = Len(line) + Extent(s)
    BY <1>1, <1>2, <2>1, ExtendedAtStart
  <2>3. \A k \in 1..Extent(s) : e.line[k] = PointsOf(s)[k]
    BY <1>1, <1>2, <2>1, ExtendedAtStart
  <2>4. \A k \in 1..Len(line) : e.line[Extent(s) + k] = line[k]
    BY <1>1, <1>2, <2>1, ExtendedAtStart
  <2>5. e.line \in Seq(Nat)
    BY <2>2 DEF Jointed, Track
  <2>6. Runs(line, d) /\ Len(e.line) = Len(line) + Extent(s)
    BY <2>2
  <2> HIDE DEF line
  <2>7. Runs(e.line, d)
    BY ONLY <1>2, <2>1, <2>3, <2>4, <2>5, <2>6, StraightAtStart
  <2>8. Laid(line, d, t.segs, t.joints) => Laid(e.line, d, e.segs, e.joints)
    BY <1>2, <2>1, LaidAtStart DEF line
  <2> QED BY <2>7, <2>8 DEF line
<1>4. CASE ~c.first
  <2>1. Begin(s) = Last(line) /\ PointsOf(s)[1] = Last(line)
    BY <1>4, JoinsOn
  <2>2. Jointed(e) /\ Len(e.line) = Len(line) + Extent(s)
    BY <1>1, <1>2, <2>1, ExtendedAtEnd
  <2>3. \A k \in 1..Len(line) : e.line[k] = line[k]
    BY <1>1, <1>2, <2>1, ExtendedAtEnd
  <2>4. \A k \in 1..(Extent(s) + 1) : e.line[Len(line) - 1 + k] = PointsOf(s)[k]
    <3>1. e = Extended(t, line, s) /\ Jointed(t)
      OBVIOUS
    <3> HIDE DEF line
    <3> QED BY ONLY <1>1, <1>2, <2>1, <3>1, ExtendedAtEnd
  <2>5. e.line \in Seq(Nat)
    BY <2>2 DEF Jointed, Track
  <2>6. Runs(line, d) /\ Len(e.line) = Len(line) + Extent(s)
    BY <2>2
  <2> HIDE DEF line
  <2>7. Runs(e.line, d)
    BY ONLY <1>2, <2>1, <2>3, <2>4, <2>5, <2>6, StraightAtEnd
  <2>8. Laid(line, d, t.segs, t.joints) => Laid(e.line, d, e.segs, e.joints)
    BY <1>2, <2>1, LaidAtEnd DEF line
  <2> QED BY <2>7, <2>8 DEF line
<1> QED BY <1>3, <1>4

(* Whatever line an adjustment was asked for: the track stays jointed, and its  *)
(* line is the one it had or a part of that line.                              *)
LEMMA ShortenedKeeps ==
  ASSUME NEW t, Jointed(t), Ascend(t.joints), NEW c, NEW d, Runs(c.line, d),
         c.sub1 \in 0..Final(c.line), c.sub2 \in 0..Final(c.line), NEW e, e = Shortened(t, c)
  PROVE  /\ Jointed(e) /\ e.markers = t.markers /\ e.lit = t.lit
         /\ e.line = t.line \/ Runs(e.line, d)
         /\ c.line = t.line /\ Laid(t.line, d, t.segs, t.joints) =>
              /\ Laid(e.line, d, e.segs, e.joints)
              /\ Spans(c.line, d, t.markers, c.sub1, c.sub2)
                 /\ IsOn(t.line, t.markers[1]) /\ IsOn(t.line, t.markers[2])
                 => IsOn(e.line, t.markers[1]) /\ IsOn(e.line, t.markers[2])
<1> DEFINE line == c.line
           f == Final(line)
           P == /\ Jointed(e) /\ e.markers = t.markers /\ e.lit = t.lit
                /\ e.line = t.line \/ Runs(e.line, d)
                /\ line = t.line /\ Laid(t.line, d, t.segs, t.joints) =>
                     /\ Laid(e.line, d, e.segs, e.joints)
                     /\ Spans(line, d, t.markers, c.sub1, c.sub2)
                        /\ IsOn(t.line, t.markers[1]) /\ IsOn(t.line, t.markers[2])
                        => IsOn(e.line, t.markers[1]) /\ IsOn(e.line, t.markers[2])
<1>1. /\ line \in Seq(Nat) /\ Len(line) >= 2 /\ Len(line) \in Nat /\ f \in Nat /\ Len(line) = f + 1
      /\ c.sub1 \in 0..f /\ c.sub2 \in 0..f /\ Runs(line, d)
  <2>1. line \in Seq(Nat) /\ Len(line) >= 2 /\ Len(line) \in Nat /\ f \in Nat /\ f = Len(line) - 1
    BY StraightPoints
  <2>2. Len(line) = f + 1
    <3> HIDE DEF f, line
    <3> QED BY ONLY <2>1
  <2> QED BY <2>1, <2>2
<1>2. t.markers[1] \in Int /\ t.markers[2] \in Int
  <2>1. t.markers \in Places \X Places
    BY DEF Jointed, Track
  <2> QED BY <2>1, PlacesInt
<1>3. c.sub1 \in Nat /\ c.sub2 \in Nat /\ c.sub1 < Len(line)
  <2> HIDE DEF f, line
  <2> QED BY ONLY <1>1
<1>4. ASSUME e = t PROVE P
  <2>1. e.line = t.line
    BY <1>4
  <2> QED BY <1>4, <2>1
<1>5. ASSUME e.line \in Seq(Nat), NEW k \in Nat, k + Len(e.line) <= Len(line), Len(e.line) >= 2,
             \A j \in 1..Len(e.line) : e.line[j] = line[k + j]
      PROVE  /\ Runs(e.line, d)
             /\ \A place \in Int :
                  /\ 2 * k <= Off(line, d, place) /\ Off(line, d, place) <= 2 * (k + Final(e.line))
                  => IsOn(e.line, place)
  <2>1. /\ Runs(line, d) /\ e.line \in Seq(Nat) /\ Len(e.line) >= 2 /\ k \in Nat /\ k + Len(e.line) <= Len(line)
        /\ \A j \in 1..Len(e.line) : e.line[j] = line[k + j]
    BY <1>1, <1>5
  <2> DEFINE w == e.line
  <2> HIDE DEF w, line
  <2>2. /\ Runs(line, d) /\ w \in Seq(Nat) /\ Len(w) >= 2 /\ k \in Nat /\ k + Len(w) <= Len(line)
        /\ \A j \in 1..Len(w) : w[j] = line[k + j]
    BY <2>1 DEF w
  <2>3. Runs(w, d)
    BY ONLY <2>2, StraightPart
  <2>4. \A place \in Int : /\ 2 * k <= Off(line, d, place) /\ Off(line, d, place) <= 2 * (k + Final(w))
                           => IsOn(w, place)
    BY ONLY <2>2, StraightPart
  <2> QED BY <2>3, <2>4 DEF w
<1>6. \A m \in {1, 2} : /\ Off(line, d, t.markers[m]) \in Int
                        /\ IsOn(line, t.markers[m]) => Off(line, d, t.markers[m]) \in 0..(2 * f)
  BY <1>1, <1>2, TopPiece, PiecesAre
<1>7. ASSUME c.place = c.lit1 PROVE P
  <2> DEFINE i == LeftBehind(t, c.sub1)
  <2>1. e = ShortenedBefore(t, line, c.sub1)
    BY <1>7 DEF Shortened
  <2>2. CASE i = 0
    BY <1>4, <2>1, <2>2 DEF ShortenedBefore
  <2>3. CASE i # 0
    <3> DEFINE cut == t.joints[i]
    <3>1. i > 0
      <4>1. i \in 0..Len(t.joints)
        BY <1>3, LeftBehindIs
      <4> QED BY <2>3, <4>1
    <3> HIDE DEF i, line
    <3>a. Jointed(t) /\ Ascend(t.joints) /\ line \in Seq(Nat) /\ c.sub1 \in Nat /\ c.sub1 < Len(line)
          /\ i = LeftBehind(t, c.sub1) /\ i > 0 /\ cut = t.joints[i] /\ e = ShortenedBefore(t, line, c.sub1)
      BY <1>1, <1>3, <2>1, <3>1 DEF i
    <3> HIDE DEF cut
    <3>3. i \in 1..Len(t.joints) /\ cut \in Nat /\ cut <= c.sub1 - 1
      BY ONLY <3>a, ShortenedAtStart
    <3>c. KeepsLast(e, t, line, i, cut)
      BY ONLY <3>a, ShortenedAtStart
    <3>2. Jointed(e) /\ e.markers = t.markers /\ e.lit = t.lit
      BY <3>c DEF KeepsLast
    <3>6. Len(e.line) = Len(line) - cut
      BY <3>c DEF KeepsLast, LastPoints
    <3>7. \A k \in 1..(Len(line) - cut) : e.line[k] = line[cut + k]
      BY <3>c DEF KeepsLast, LastPoints
    <3>8. e.line \in Seq(Nat) /\ e.segs \in Seq(Segs) /\ e.joints \in Seq(Nat) /\ Len(e.segs) = Len(e.joints) + 1
      BY <3>2 DEF Jointed, Track
    <3>9. /\ cut + Len(e.line) <= Len(line) /\ Len(e.line) >= 2 /\ cut + Final(e.line) = f /\ cut \in Nat
          /\ \A j \in 1..Len(e.line) : e.line[j] = line[cut + j]
      <4>1. cut + Len(e.line) <= Len(line) /\ Len(e.line) >= 2 /\ cut + (Len(e.line) - 1) = f
        <5> HIDE DEF f
        <5>1. Len(line) = f + 1 /\ f \in Nat /\ c.sub1 \in 0..f
          BY <1>1
        <5> QED BY ONLY <3>3, <3>6, <5>1
      <4> QED BY <3>3, <3>6, <3>7, <4>1 DEF Final
    <3>10. Runs(e.line, d) /\ \A place \in Int :
                  /\ 2 * cut <= Off(line, d, place) /\ Off(line, d, place) <= 2 * f
                  => IsOn(e.line, place)
      BY <1>5, <3>8, <3>9
    <3>11. ASSUME line = t.line, Laid(t.line, d, t.segs, t.joints) PROVE Laid(e.line, d, e.segs, e.joints)
      <4>1. Laid(line, d, t.segs, t.joints)
        BY <3>11
      <4>2. cut = t.joints[i]
        BY <3>a
      <4>3. LastPoints(e.line, line, cut) /\ LastSegs(e.segs, e.joints, t.segs, t.joints, i, cut)
        BY <3>c DEF KeepsLast
      <4> QED BY ONLY <3>3, <3>10, <4>1, <4>2, <4>3, LaidWithoutFirst
    <3>12. ASSUME Spans(line, d, t.markers, c.sub1, c.sub2), IsOn(line, t.markers[1]), IsOn(line, t.markers[2]),
                  NEW m \in {1, 2}
           PROVE  IsOn(e.line, t.markers[m])
      <4> DEFINE x == Off(line, d, t.markers[m])
      <4>1. x \in 0..(2 * f) /\ 2 * (c.sub1 - 1) <= x
        BY <1>6, <3>12 DEF Spans
      <4> HIDE DEF x, f
      <4>2. 2 * cut <= x /\ x <= 2 * f
        <5>1. f \in Nat /\ c.sub1 \in 0..f
          BY <1>1
        <5> QED BY ONLY <3>3, <4>1, <5>1
      <4> QED BY <1>2, <3>10, <4>2 DEF x
    <3> QED BY <3>2, <3>10, <3>11, <3>12 DEF line
  <2> QED BY <2>2, <2>3
<1>8. ASSUME c.place # c.lit1 PROVE P
  <2> DEFINE n == Len(t.joints)
             i == Max({k \in 2..n : t.joints[k] <= c.sub2} \cup {1})
  <2>1. e = ShortenedAfter(t, line, c.sub2)
    BY <1>8 DEF Shortened
  <2>2. CASE n = 0 \/ i >= n
    BY <1>4, <2>1, <2>2 DEF ShortenedAfter
  <2>3. CASE ~(n = 0 \/ i >= n)
    <3> DEFINE cut == t.joints[i + 1]
    <3>1. n \in Nat /\ i < n
      <4>1. t.joints \in Seq(Nat)
        BY DEF Jointed, Track
      <4>2. n \in Nat
        BY <4>1, LenProperties
      <4>3. {k \in 2..n : t.joints[k] <= c.sub2} \cup {1} \in SUBSET (0..(n + 1)) /\ n + 1 \in Nat
        BY <4>2
      <4>4. i \in 0..(n + 1)
        BY <4>3, GreatestOf
      <4> QED BY <2>3, <4>2, <4>4
    <3> HIDE DEF line
    <3>a. Jointed(t) /\ line \in Seq(Nat) /\ Len(line) >= 2 /\ c.sub2 \in Nat
          /\ i = Max({k \in 2..Len(t.joints) : t.joints[k] <= c.sub2} \cup {1}) /\ i < Len(t.joints)
          /\ cut = t.joints[i + 1] /\ e = ShortenedAfter(t, line, c.sub2)
      BY <1>1, <1>3, <2>1, <3>1
    <3> HIDE DEF cut, i, n
    <3>3. i \in 1..(Len(t.joints) - 1) /\ cut \in Nat /\ cut > c.sub2
      BY ONLY <3>a, ShortenedAtEnd
    <3>c. KeepsFirst(e, t, line, i, cut)
      BY ONLY <3>a, ShortenedAtEnd
    <3>2. Jointed(e) /\ e.markers = t.markers /\ e.lit = t.lit
      BY <3>c DEF KeepsFirst
    <3>6. Len(e.line) >= 2 /\ Len(e.line) <= Len(line) /\ (cut < Len(line) => Len(e.line) = cut + 1)
      BY <3>c DEF KeepsFirst, FirstPoints
    <3>7. \A k \in 1..Len(e.line) : e.line[k] = line[k]
      BY <3>c DEF KeepsFirst, FirstPoints
    <3>8. e.line \in Seq(Nat) /\ e.segs \in Seq(Segs) /\ e.joints \in Seq(Nat)
      BY <3>2 DEF Jointed, Track
    <3>9. /\ 0 + Len(e.line) <= Len(line) /\ 0 \in Nat /\ Len(e.line) \in Nat
          /\ \A j \in 1..Len(e.line) : 0 + j = j
      <4>1. Len(e.line) \in Nat
        BY <3>8, LenProperties
      <4> QED BY <3>6, <4>1
    <3>10. Runs(e.line, d) /\ \A place \in Int :
                  /\ 2 * 0 <= Off(line, d, place) /\ Off(line, d, place) <= 2 * (0 + Final(e.line))
                  => IsOn(e.line, place)
      <4>1. \A j \in 1..Len(e.line) : e.line[j] = line[0 + j]
        BY <3>7, <3>9
      <4> QED BY <1>5, <3>6, <3>8, <3>9, <4>1
    <3>b. ASSUME line = t.line, Laid(t.line, d, t.segs, t.joints)
          PROVE  cut < Len(line) /\ Len(e.line) = cut + 1 /\ Laid(line, d, t.segs, t.joints)
      <4>1. Laid(line, d, t.segs, t.joints)
        BY <3>b
      <4>2. i + 1 \in 1..Len(t.joints) /\ i + 1 \in 0..(Len(t.joints) + 1)
        <5>1. Len(t.joints) \in Nat
          BY <3>1 DEF n
        <5> QED BY <3>3, <5>1
      <4>3. cut \in 0..Final(line)
        <5>1. Cut(line, t.joints, i + 1) = t.joints[i + 1]
          BY ONLY <4>1, <4>2, CutsAre
        <5>2. Cut(line, t.joints, i + 1) \in 0..Final(line)
          BY ONLY <4>1, <4>2, CutsAre
        <5> QED BY <3>a, <5>1, <5>2
      <4>4. cut < Len(line)
        <5> HIDE DEF f
        <5>1. Len(line) = f + 1 /\ cut \in 0..f /\ f \in Nat
          BY <1>1, <4>3 DEF f
        <5> QED BY ONLY <5>1
      <4> QED BY <3>6, <4>1, <4>4
    <3>11. ASSUME line = t.line, Laid(t.line, d, t.segs, t.joints) PROVE Laid(e.line, d, e.segs, e.joints)
      <4>1. Laid(line, d, t.segs, t.joints) /\ cut < Len(line)
        BY <3>b, <3>11
      <4>2. cut = t.joints[i + 1]
        BY <3>a
      <4>3. FirstPoints(e.line, line, cut) /\ FirstSegs(e.segs, e.joints, t.segs, t.joints, i)
        BY <3>c DEF KeepsFirst
      <4> QED BY ONLY <3>3, <3>10, <4>1, <4>2, <4>3, LaidWithoutLast
    <3>12. ASSUME line = t.line, Laid(t.line, d, t.segs, t.joints), Spans(line, d, t.markers, c.sub1, c.sub2),
                  IsOn(line, t.markers[1]), IsOn(line, t.markers[2]), NEW m \in {1, 2}
           PROVE  IsOn(e.line, t.markers[m])
      <4> DEFINE x == Off(line, d, t.markers[m])
      <4>1. x \in 0..(2 * f) /\ x <= 2 * (c.sub2 + 1)
        BY <1>6, <3>12 DEF Spans
      <4>2. Len(e.line) = cut + 1
        BY <3>b, <3>12
      <4>3. Final(e.line) = cut
        BY <3>3, <4>2 DEF Final
      <4> HIDE DEF x, f
      <4>4. 2 * 0 <= x /\ x <= 2 * (0 + Final(e.line))
        <5>1. f \in Nat /\ c.sub2 \in 0..f
          BY <1>1
        <5> QED BY ONLY <3>3, <4>1, <4>3, <5>1
      <4> QED BY <1>2, <3>10, <4>4 DEF x
    <3> QED BY <3>2, <3>10, <3>11, <3>12 DEF line
  <2> QED BY <2>2, <2>3
<1> QED BY <1>7, <1>8

-----------------------------------------------------------------------------
(* What an adjustment knows while it waits.                                    *)
TrackCall == [n : Nat, line : Seq(Nat), place : Places, first : BOOLEAN,
              sub1 : Nat, sub2 : Int, lit1 : Places, lit2 : Places]

(* No more than two adjustments wait, each for a line and places on it.        *)
CallsFit(calls) ==
  /\ calls \subseteq TrackCall
  /\ \A a, b, c \in calls : a = b \/ a = c \/ b = c
  /\ \A c \in calls : \E d \in Ways :
       Runs(c.line, d) /\ c.sub1 \in 0..Final(c.line) /\ c.sub2 \in 0..Final(c.line)

(* The joints ascend as long as one waits, and while two do the line is still   *)
(* the one both were asked for.                                                *)
JointsFit(t, calls) ==
  /\ calls # {} => Ascend(t.joints)
  /\ \A a, b \in calls :
       a # b => /\ a.line = t.line
                /\ \E d \in Ways : Laid(t.line, d, t.segs, t.joints)

(* Without a neighbour of the other way every line goes the way of the first.  *)
OneWay(t, calls, marks) ==
  "backward" \notin marks =>
  \E d \in Ways :
    /\ Runs(t.line, d) /\ LitFits(t.lit, d, t.markers)
    /\ \A c \in calls : Runs(c.line, d)
    /\ "overlap" \notin marks => Laid(t.line, d, t.segs, t.joints)

(* One adjustment at a time finds the line it was asked for, and the markers    *)
(* where they were.                                                            *)
OneAtATime(t, calls, marks) ==
  "overlap" \notin marks =>
  /\ IsOn(t.line, t.markers[1]) /\ IsOn(t.line, t.markers[2])
  /\ \A c \in calls :
       /\ calls = {c} /\ c.line = t.line
       /\ \E d \in Ways : /\ Laid(t.line, d, t.segs, t.joints)
                          /\ Spans(t.line, d, t.markers, c.sub1, c.sub2)

TrackFits(t, calls, marks) ==
  /\ Jointed(t) /\ CallsFit(calls) /\ JointsFit(t, calls)
  /\ OneWay(t, calls, marks) /\ OneAtATime(t, calls, marks)

(* The inductive invariant.                                                    *)
TrkInv == TrkTypeOK /\ TrackFits(trk, trkCalls, trkMarks)

(* What does not depend on the step: the road stays what it is.                *)
LEMMA TrkInvNext ==
  ASSUME TrkTypeOK, trkRoad' = trkRoad, trkDrags' \in 0..MaxDrags,
         trkMarks' \subseteq {"overlap", "backward", "reset"}, TrackFits(trk', trkCalls', trkMarks')
  PROVE  TrkInv'
<1>1. TrkTypeOK'
  BY DEF TrkTypeOK, TrackFits, Jointed, Track, CallsFit, TrackCall
<1>2. \A line, d, segs, joints : Laid(line, d, segs, joints) => Laid(line, d, segs, joints)'
  BY DEF Laid, SegOn, Way, Begin
<1>3. JointsFit(trk', trkCalls') => JointsFit(trk, trkCalls)'
  BY <1>2 DEF JointsFit
<1>4. OneWay(trk', trkCalls', trkMarks') => OneWay(trk, trkCalls, trkMarks)'
  BY <1>2 DEF OneWay
<1>5. OneAtATime(trk', trkCalls', trkMarks') => OneAtATime(trk, trkCalls, trkMarks)'
  BY <1>2 DEF OneAtATime
<1>6. Jointed(trk)' /\ CallsFit(trkCalls)'
  BY DEF TrackFits
<1> QED BY <1>1, <1>3, <1>4, <1>5, <1>6 DEF TrkInv, TrackFits

(* A segment by itself is a line that runs its way.                            *)
LEMMA SegmentRuns ==
  ASSUME NEW s \in Segs
  PROVE  Runs(PointsOf(s), Way(s)) /\ Laid(PointsOf(s), Way(s), <<s>>, <<>>)
<1> DEFINE line == PointsOf(s)
           x == Extent(s)
           d == Way(s)
<1>1. /\ line \in Seq(Nat) /\ Len(line) = x + 1
      /\ \A k \in 1..(x + 1) : line[k] = (IF d = 1 THEN Begin(s) + (k - 1) ELSE Begin(s) - (k - 1))
  BY PointsAre
<1>2. /\ Begin(s) \in Road /\ End(s) \in Road /\ x \in Nat /\ x >= 1 /\ d \in {1, -1} /\ d \in Ways
      /\ Begin(s) \in Nat /\ End(s) \in Nat /\ End(s) = (IF d = 1 THEN Begin(s) + x ELSE Begin(s) - x)
  <2>1. x \in Nat \ {0} /\ d \in Ways
    BY SegmentSpans
  <2>2. x \in Nat /\ x >= 1
    <3> HIDE DEF x
    <3> QED BY ONLY <2>1
  <2> QED BY <2>1, <2>2, SegmentSpans DEF Ways
<1>3. Bends[1] \in Nat /\ Bends[Len(Bends)] \in Nat
  BY RoadGiven
<1> HIDE DEF line, x, d
<1>4. line[1] = Begin(s)
  <2>1. 1 \in 1..(x + 1) /\ 1 - 1 = 0
    BY <1>2
  <2>2. line[1] = (IF d = 1 THEN Begin(s) + 0 ELSE Begin(s) - 0)
    BY <1>1, <2>1
  <2> QED BY <1>2, <2>2
<1>5. \A k \in 1..(x + 1) : line[k] \in Road
  <2> TAKE k \in 1..(x + 1)
  <2>1. line[k] = (IF d = 1 THEN Begin(s) + (k - 1) ELSE Begin(s) - (k - 1))
    BY <1>1
  <2>2. Begin(s) \in Bends[1]..Bends[Len(Bends)] /\ End(s) \in Bends[1]..Bends[Len(Bends)]
    BY <1>2 DEF Road
  <2>3. k \in 1..(x + 1)
    OBVIOUS
  <2>4. x \in Nat /\ d \in {1, -1} /\ Begin(s) \in Nat
        /\ End(s) = (IF d = 1 THEN Begin(s) + x ELSE Begin(s) - x)
    BY <1>2
  <2>5. line[k] \in Bends[1]..Bends[Len(Bends)]
    BY ONLY <1>3, <2>1, <2>2, <2>3, <2>4
  <2> QED BY <2>5 DEF Road
<1>6. Runs(line, d)
  <2>1. Len(line) >= 2
    BY <1>1, <1>2
  <2>2. \A k \in 1..Len(line) :
          line[k] \in Road /\ line[k] = (IF d = 1 THEN line[1] + (k - 1) ELSE line[1] - (k - 1))
    BY <1>1, <1>4, <1>5
  <2> QED BY <1>1, <1>2, <2>1, <2>2 DEF Runs
<1>7. Final(line) = x
  BY <1>1, <1>2 DEF Final
<1>8. /\ <<s>> \in Seq(Segs) /\ Len(<<s>>) = 1 /\ <<s>>[1] = s
      /\ <<>> \in Seq(Nat) /\ Len(<<>>) = 0
  OBVIOUS
<1>9. Cut(line, <<>>, 0) = 0 /\ Cut(line, <<>>, 1) = x
  BY <1>7, <1>8 DEF Cut
<1>10. SegOn(line, d, s, 0, x)
  <2>1. 0 \in 0..x /\ x \in 0..x /\ x = 0 + x
    BY <1>2
  <2>2. PointAt(line, 0) = Begin(s)
    BY <1>4 DEF PointAt
  <2> QED BY <1>7, <2>1, <2>2 DEF SegOn, d, x
<1>11. \A k \in 1..Len(<<s>>) : SegOn(line, d, <<s>>[k], Cut(line, <<>>, k - 1), Cut(line, <<>>, k))
  <2> TAKE k \in 1..Len(<<s>>)
  <2>1. k = 1 /\ k - 1 = 0
    BY <1>8
  <2> QED BY <1>8, <1>9, <1>10, <2>1
<1>12. Laid(line, d, <<s>>, <<>>)
  BY <1>6, <1>8, <1>11 DEF Laid
<1> QED BY <1>6, <1>12 DEF line, d

(* What is found for two markers on the line, when it is asked to be adjusted.  *)
LEMMA Located ==
  ASSUME NEW line, NEW d, Runs(line, d), NEW markers \in Places \X Places,
         IsOn(line, markers[1]), IsOn(line, markers[2]), NEW at, at = Locations(line, markers)
  PROVE  /\ at.sub1 \in 0..Final(line) /\ at.sub2 \in 0..Final(line) /\ at.lit1 \in Places /\ at.lit2 \in Places
         /\ Spans(line, d, markers, at.sub1, at.sub2)
         /\ LitFits(Lit(line, at), d, markers)
         /\ LET swapped == Swapped(markers, at) IN
              /\ swapped \in Places \X Places /\ swapped[1] = at.lit1 /\ swapped[2] = at.lit2
              /\ {swapped[1], swapped[2]} = {markers[1], markers[2]}
<1>1. markers[1] \in Places /\ markers[2] \in Places /\ markers[1] \in Int /\ markers[2] \in Int
  BY PlacesInt
<1>2. Enclosed(line, d, markers, at) /\ Spans(line, d, markers, at.sub1, at.sub2)
  BY <1>1, LocationsAre
<1>3. {at.lit1, at.lit2} = {markers[1], markers[2]} /\ at.sub1 \in 0..Final(line) /\ at.sub2 \in 0..Final(line)
  BY <1>2 DEF Enclosed
<1>4. at.lit1 \in Places /\ at.lit2 \in Places
  BY <1>1, <1>3
<1>5. LitFits(Lit(line, at), d, markers)
  BY <1>2, <1>4, LitIsInOrder
<1>6. /\ Swapped(markers, at) \in Places \X Places
      /\ Swapped(markers, at)[1] = at.lit1 /\ Swapped(markers, at)[2] = at.lit2
  BY <1>4 DEF Swapped
<1> QED BY <1>2, <1>3, <1>4, <1>5, <1>6

(* Markers in the other order are on the same places.                          *)
LEMMA SamePlaces ==
  ASSUME NEW line, NEW d, NEW m, NEW p, {m[1], m[2]} = {p[1], p[2]}
  PROVE  /\ \A lit : LitFits(lit, d, m) => LitFits(lit, d, p)
         /\ \A sub1, sub2 : Spans(line, d, m, sub1, sub2) => Spans(line, d, p, sub1, sub2)
         /\ IsOn(line, m[1]) /\ IsOn(line, m[2]) => IsOn(line, p[1]) /\ IsOn(line, p[2])
<1>1. \A lit : LitFits(lit, d, m) => LitFits(lit, d, p)
  BY DEF LitFits
<1>2. p[1] \in {m[1], m[2]} /\ p[2] \in {m[1], m[2]}
  BY Zenon
<1>3. ASSUME NEW sub1, NEW sub2, Spans(line, d, m, sub1, sub2) PROVE Spans(line, d, p, sub1, sub2)
  <2>1. \A q \in {m[1], m[2]} : 2 * (sub1 - 1) <= Off(line, d, q) /\ Off(line, d, q) <= 2 * (sub2 + 1)
    BY <1>3 DEF Spans
  <2> QED BY <1>2, <2>1 DEF Spans
<1> QED BY <1>1, <1>2, <1>3

(* What an adjustment is, when it is asked for with both markers on the line.  *)
LEMMA AdjustingIs ==
  ASSUME NEW t, Jointed(t), NEW d, Runs(t.line, d), IsOn(t.line, t.markers[1]), IsOn(t.line, t.markers[2]),
         trkCalls = {} \/ \E c : trkCalls = {c} /\ c \in TrackCall,
         NEW place \in Places, NEW call, call = Adjusting(t, place)
  PROVE  /\ call \in TrackCall /\ call.line = t.line
         /\ call.sub1 \in 0..Final(t.line) /\ call.sub2 \in 0..Final(t.line)
         /\ Spans(t.line, d, t.markers, call.sub1, call.sub2)
<1> DEFINE at == Locations(t.line, t.markers)
<1>1. t.markers \in Places \X Places /\ t.line \in Seq(Nat)
  BY DEF Jointed, Track
<1>2. /\ at.sub1 \in 0..Final(t.line) /\ at.sub2 \in 0..Final(t.line) /\ at.lit1 \in Places /\ at.lit2 \in Places
      /\ Spans(t.line, d, t.markers, at.sub1, at.sub2)
  BY <1>1, Located
<1>3. Max({c.n : c \in trkCalls} \cup {0}) + 1 \in Nat
  <2>1. CASE trkCalls = {}
    <3>1. {c.n : c \in trkCalls} \cup {0} = {0}
      BY <2>1
    <3>2. {0} \in SUBSET (0..0) /\ {0} # {} /\ 0 \in Nat
      OBVIOUS
    <3>3. Max({0}) \in {0}
      BY <3>2, GreatestOf
    <3>4. Max({c.n : c \in trkCalls} \cup {0}) \in {0}
      BY <3>1, <3>3, Zenon
    <3> QED BY <3>4
  <2>2. CASE trkCalls # {}
    <3>1. PICK c : trkCalls = {c} /\ c \in TrackCall
      BY <2>2
    <3>2. c.n \in Nat
      BY <3>1 DEF TrackCall
    <3>3. {b.n : b \in trkCalls} \cup {0} = {c.n, 0}
      BY <3>1, Zenon
    <3>4. {c.n, 0} \in SUBSET (0..c.n) /\ {c.n, 0} # {}
      BY <3>2
    <3>5. Max({c.n, 0}) \in {c.n, 0}
      BY <3>2, <3>4, GreatestOf
    <3>6. Max({c.n, 0}) \in Nat
      BY <3>2, <3>5
    <3>7. Max({b.n : b \in trkCalls} \cup {0}) \in Nat
      BY <3>3, <3>6, Zenon
    <3> QED BY <3>7
  <2> QED BY <2>1, <2>2
<1>4. NearStart(t.line, place) \in BOOLEAN
  BY DEF NearStart
<1>5. Final(t.line) \in Nat
  BY StraightPoints
<1> DEFINE k == Max({c.n : c \in trkCalls} \cup {0}) + 1
<1> HIDE DEF at, k
<1>6. call = [n |-> k, line |-> t.line, place |-> place, first |-> NearStart(t.line, place),
              sub1 |-> at.sub1, sub2 |-> at.sub2, lit1 |-> at.lit1, lit2 |-> at.lit2]
  BY DEF Adjusting, at, k
<1>7. k \in Nat /\ at.sub1 \in Nat /\ at.sub2 \in Int
  <2>1. at.sub1 \in 0..Final(t.line) /\ at.sub2 \in 0..Final(t.line)
    BY <1>2
  <2> QED BY <1>3, <1>5, <2>1 DEF k
<1>8. call \in TrackCall
  BY <1>1, <1>2, <1>4, <1>6, <1>7 DEF TrackCall
<1> QED BY <1>2, <1>6, <1>8

(* The initial states.                                                         *)
LEMMA TrkInitial == TrkInit => TrkInv
<1> SUFFICES ASSUME TrkInit PROVE TrkInv
  OBVIOUS
<1>1. PICK s \in Segs :
        trk = [line |-> PointsOf(s), segs |-> <<s>>, joints |-> <<>>,
               markers |-> <<2 * PointsOf(s)[1], 2 * Last(PointsOf(s))>>,
               lit |-> [k \in 1..Len(PointsOf(s)) |-> 2 * PointsOf(s)[k]]]
  BY DEF TrkInit
<1>2. trkRoad \in Backwards /\ trkCalls = {} /\ trkDrags = 0 /\ trkMarks = {}
  BY DEF TrkInit
<1> DEFINE line == PointsOf(s)
           d == Way(s)
           f == Final(line)
           lit == [k \in 1..Len(line) |-> 2 * line[k]]
           m == <<2 * line[1], 2 * Last(line)>>
<1>3. Runs(line, d) /\ Laid(line, d, <<s>>, <<>>)
  BY SegmentRuns
<1> HIDE DEF line, d
<1>4. /\ Len(line) \in Nat /\ Len(line) >= 2 /\ d \in {1, -1} /\ line \in Seq(Nat) /\ f \in Nat /\ f = Len(line) - 1
      /\ \A i \in 0..f : /\ PointAt(line, i) = (IF d = 1 THEN line[1] + i ELSE line[1] - i)
                         /\ 2 * PointAt(line, i) \in Places /\ Off(line, d, 2 * PointAt(line, i)) = 2 * i
  BY <1>3, StraightPoints
<1> HIDE DEF f
<1>5. \A k \in 1..Len(line) : line[k] = PointAt(line, k - 1) /\ k - 1 \in 0..f
  <2> TAKE k \in 1..Len(line)
  <2>1. (k - 1) + 1 = k /\ k - 1 \in 0..f
    BY <1>4
  <2> QED BY <2>1 DEF PointAt
<1>6. \A k \in 1..Len(line) : 2 * line[k] \in Places
  BY <1>4, <1>5
<1>7. lit \in Seq(Places) /\ Len(lit) = Len(line)
  <2>1. lit \in [1..Len(line) -> Places]
    BY <1>6
  <2> HIDE DEF lit
  <2> QED BY <1>4, <2>1, TrkSequence
<1>8. m \in Places \X Places /\ m[1] = 2 * line[1] /\ m[2] = 2 * line[Len(line)] /\ 1 \in 1..Len(line) /\ Len(line) \in 1..Len(line)
  BY <1>4, <1>6 DEF Last
<1>9. LitFits(lit, d, m)
  <2>1. lit[1] = m[1] /\ lit[Len(lit)] = m[2]
    BY <1>7, <1>8
  <2>2. \A k \in 2..Len(line) : IF d = 1 THEN lit[k - 1] <= lit[k] ELSE lit[k - 1] >= lit[k]
    <3> TAKE k \in 2..Len(line)
    <3>1. k - 1 \in 1..Len(line) /\ k \in 1..Len(line) /\ (k - 1) - 1 \in 0..f /\ k - 1 \in 0..f /\ k \in Int
      BY <1>4
    <3>2. /\ lit[k - 1] = 2 * PointAt(line, (k - 1) - 1) /\ lit[k] = 2 * PointAt(line, k - 1)
      BY <1>5, <3>1
    <3> DEFINE a == lit[k - 1]
               b == lit[k]
    <3>3. /\ a = 2 * (IF d = 1 THEN line[1] + ((k - 1) - 1) ELSE line[1] - ((k - 1) - 1))
          /\ b = 2 * (IF d = 1 THEN line[1] + (k - 1) ELSE line[1] - (k - 1))
      BY <1>4, <3>1, <3>2
    <3>4. line[1] \in Nat /\ d \in {1, -1}
      BY <1>3, StraightPoints
    <3> HIDE DEF a, b
    <3>5. IF d = 1 THEN a <= b ELSE a >= b
      BY ONLY <3>1, <3>3, <3>4
    <3> QED BY <3>5 DEF a, b
  <2>3. {lit[1], lit[Len(lit)]} = {m[1], m[2]}
    BY <2>1
  <2> HIDE DEF lit, m
  <2> QED BY <1>4, <1>7, <2>2, <2>3 DEF LitFits
<1>10. IsOn(line, m[1]) /\ IsOn(line, m[2])
  <2>1. \A i \in 0..f : IsOn(line, 2 * PointAt(line, i))
    <3> TAKE i \in 0..f
    <3>1. 2 * PointAt(line, i) \in Int /\ Off(line, d, 2 * PointAt(line, i)) \in 0..(2 * f)
      <4>1. 2 * PointAt(line, i) \in Int
        BY <1>4, PlacesInt
      <4>2. 2 * i \in 0..(2 * f)
        BY <1>4
      <4> QED BY <1>4, <4>1, <4>2
    <3> QED BY <1>3, <3>1, TopPiece DEF f
  <2> QED BY <1>5, <1>8, <2>1
<1> HIDE DEF lit, m
<1>11. trk = [line |-> line, segs |-> <<s>>, joints |-> <<>>, markers |-> m, lit |-> lit]
  BY <1>1 DEF line, lit, m
<1>12. Jointed(trk)
  <2>1. <<s>> \in Seq(Segs) /\ Len(<<s>>) = 1 /\ <<>> \in Seq(Nat) /\ Len(<<>>) = 0
    OBVIOUS
  <2> QED BY <1>4, <1>7, <1>8, <1>11, <2>1 DEF Jointed, Track
<1>13. CallsFit(trkCalls) /\ JointsFit(trk, trkCalls)
  BY <1>2 DEF CallsFit, JointsFit
<1>14. OneWay(trk, trkCalls, trkMarks)
  BY <1>2, <1>3, <1>4, <1>9, <1>11 DEF OneWay, Ways
<1>15. OneAtATime(trk, trkCalls, trkMarks)
  BY <1>2, <1>10, <1>11 DEF OneAtATime
<1>16. TrkTypeOK
  <2>1. 0 \in 0..MaxDrags
    BY TrackAssumption DEF TrackAssumption
  <2>2. trk \in Track
    BY <1>12 DEF Jointed
  <2> QED BY <1>2, <2>1, <2>2 DEF TrkTypeOK, Track
<1> QED BY <1>12, <1>13, <1>14, <1>15, <1>16 DEF TrkInv, TrackFits

(* A marker is moved or dropped.                                               *)
LEMMA DragKeeps ==
  ASSUME TrkInv, Draggable, NEW m \in 1..2, NEW place \in PlacesOn(trk.line), NEW drop \in BOOLEAN,
         Drag(m, place, drop)
  PROVE  TrkInv'
<1>1. /\ TrkTypeOK /\ Jointed(trk) /\ CallsFit(trkCalls) /\ JointsFit(trk, trkCalls)
      /\ OneWay(trk, trkCalls, trkMarks) /\ OneAtATime(trk, trkCalls, trkMarks)
  BY DEF TrkInv, TrackFits
<1>2. "overlap" \notin trkMarks /\ "backward" \notin trkMarks /\ trkDrags < MaxDrags
  BY DEF Draggable, Sound
<1>3. PICK d \in Ways :
        /\ Runs(trk.line, d) /\ Laid(trk.line, d, trk.segs, trk.joints)
        /\ \A c \in trkCalls : Runs(c.line, d)
  BY <1>1, <1>2 DEF OneWay
<1>4. /\ IsOn(trk.line, trk.markers[1]) /\ IsOn(trk.line, trk.markers[2])
      /\ \A c \in trkCalls : trkCalls = {c} /\ c.line = trk.line
  BY <1>1, <1>2 DEF OneAtATime
<1>5. /\ trk \in Track /\ trk.line \in Seq(Nat) /\ trk.segs \in Seq(Segs) /\ trk.joints \in Seq(Nat)
      /\ trk.markers \in Places \X Places /\ trk.lit \in Seq(Places) /\ Len(trk.segs) = Len(trk.joints) + 1
  BY <1>1 DEF Jointed, Track
<1>6. place \in Places /\ IsOn(trk.line, place)
  BY DEF PlacesOn
<1> DEFINE line == trk.line
           markers == [trk.markers EXCEPT ![m] = place]
           moved == [trk EXCEPT !.markers[m] = place]
           call == Adjusting(moved, place)
           at == Locations(line, markers)
           lit == Lit(line, at)
           put == IF drop THEN Swapped(markers, at) ELSE markers
           shown == [trk EXCEPT !.lit = lit, !.markers = put]
<1>7. /\ markers \in Places \X Places /\ IsOn(line, markers[1]) /\ IsOn(line, markers[2])
  <2>1. m = 1 \/ m = 2
    OBVIOUS
  <2>2. PICK a \in Places, b \in Places : trk.markers = <<a, b>>
    BY <1>5
  <2>3. CASE m = 1
    <3>1. markers = <<place, b>> /\ 3 - m = 2
      BY <2>2, <2>3
    <3> QED BY <1>4, <1>6, <2>2, <3>1
  <2>4. CASE m = 2
    <3>1. markers = <<a, place>> /\ 3 - m = 1
      BY <2>2, <2>4
    <3> QED BY <1>4, <1>6, <2>2, <3>1
  <2> QED BY <2>1, <2>3, <2>4
<1>8. /\ at.lit1 \in Places /\ at.lit2 \in Places
      /\ LitFits(lit, d, markers)
      /\ put \in Places \X Places /\ {put[1], put[2]} = {markers[1], markers[2]}
  BY <1>3, <1>7, Located
<1>9. moved = [trk EXCEPT !.markers = markers]
  BY <1>5 DEF Track
<1> HIDE DEF markers, at, lit, put
<1>10. /\ moved.line = line /\ moved.markers = markers /\ Jointed(moved)
       /\ moved.segs = trk.segs /\ moved.joints = trk.joints
  BY <1>5, <1>7, <1>9 DEF Jointed, Track
<1>11. lit \in Seq(Places) /\ {markers[1], markers[2]} = {put[1], put[2]}
  BY <1>8 DEF LitFits
<1>12. /\ shown.line = line /\ shown.markers = put /\ shown.lit = lit /\ Jointed(shown)
       /\ shown.segs = trk.segs /\ shown.joints = trk.joints
  BY <1>5, <1>8, <1>11 DEF Jointed, Track
<1>13. /\ call \in TrackCall /\ call.line = line
       /\ call.sub1 \in 0..Final(line) /\ call.sub2 \in 0..Final(line)
       /\ Spans(line, d, markers, call.sub1, call.sub2)
  <2>1. trkCalls = {} \/ \E c : trkCalls = {c} /\ c \in TrackCall
    BY <1>1, <1>4 DEF CallsFit
  <2>2. Runs(moved.line, d) /\ IsOn(moved.line, moved.markers[1]) /\ IsOn(moved.line, moved.markers[2])
    BY <1>3, <1>7, <1>10
  <2> HIDE DEF moved
  <2> QED BY <1>6, <1>10, <2>1, <2>2, AdjustingIs
<1>14. /\ LitFits(lit, d, put) /\ Spans(line, d, put, call.sub1, call.sub2)
       /\ IsOn(line, put[1]) /\ IsOn(line, put[2])
  <2> HIDE DEF line, call
  <2> QED BY <1>7, <1>8, <1>11, <1>13, SamePlaces
<1>15. /\ trkDrags' = trkDrags + 1 /\ trkRoad' = trkRoad
       /\ trkMarks' = trkMarks \cup (IF trkCalls # {} THEN {"overlap"} ELSE {})
       /\ IF Asks(moved, place) THEN trk' = shown /\ trkCalls' = trkCalls \cup {call}
                                ELSE trk' = Shortened(shown, call) /\ trkCalls' = trkCalls
  <2>1. [moved EXCEPT !.lit = Lit(trk.line, Locations(moved.line, moved.markers)),
                      !.markers = IF drop THEN Swapped(@, Locations(moved.line, @)) ELSE @] = shown
    <3>1. moved.line = line /\ moved.markers = markers
      BY <1>10
    <3>2. Lit(trk.line, Locations(moved.line, moved.markers)) = lit
      BY <3>1 DEF lit, at
    <3>3. (IF drop THEN Swapped(moved.markers, Locations(moved.line, moved.markers)) ELSE moved.markers) = put
      BY <3>1 DEF put, at
    <3> QED BY <1>5, <1>9, <3>2, <3>3 DEF Track
  <2> HIDE DEF shown
  <2> QED BY <2>1 DEF Drag
<1> HIDE DEF moved, call, shown
<1>16. trkDrags' \in 0..MaxDrags /\ trkMarks' \subseteq {"overlap", "backward", "reset"}
       /\ "backward" \notin trkMarks' /\ ("overlap" \notin trkMarks' => trkCalls = {})
  <2>1. trkDrags \in 0..MaxDrags /\ trkMarks \subseteq {"overlap", "backward", "reset"}
    BY <1>1 DEF TrkTypeOK
  <2>2. MaxDrags \in Nat
    BY TrackAssumption DEF TrackAssumption
  <2>3. trkDrags + 1 \in 0..MaxDrags
    BY <1>2, <2>1, <2>2
  <2> QED BY <1>2, <1>15, <2>1, <2>3
<1>17. CASE Asks(moved, place)
  <2>1. trk' = shown /\ trkCalls' = trkCalls \cup {call}
    BY <1>15, <1>17
  <2>2. CallsFit(trkCalls')
    <3>1. \A c \in trkCalls' : \E e \in Ways :
            Runs(c.line, e) /\ c.sub1 \in 0..Final(c.line) /\ c.sub2 \in 0..Final(c.line)
      BY <1>1, <1>3, <1>13, <2>1 DEF CallsFit
    <3>2. trkCalls' \subseteq TrackCall
      BY <1>1, <1>13, <2>1 DEF CallsFit
    <3>3. \A a, b, c \in trkCalls' : a = b \/ a = c \/ b = c
      <4>1. \A a, b \in trkCalls : a = b
        BY <1>4
      <4> QED BY <2>1, <4>1
    <3> QED BY <3>1, <3>2, <3>3 DEF CallsFit
  <2>3. Laid(trk'.line, d, trk'.segs, trk'.joints) /\ trk'.line = line
    BY <1>3, <1>12, <2>1
  <2>4. JointsFit(trk', trkCalls')
    <3>1. Ascend(trk'.joints)
      BY <2>3, JointsAscend
    <3>2. \A a \in trkCalls' : a.line = trk'.line
      BY <1>4, <1>13, <2>1, <2>3
    <3> QED BY <2>3, <3>1, <3>2 DEF JointsFit
  <2>5. OneWay(trk', trkCalls', trkMarks')
    <3>1. \A c \in trkCalls' : Runs(c.line, d)
      BY <1>3, <1>13, <2>1
    <3>2. Runs(trk'.line, d) /\ LitFits(trk'.lit, d, trk'.markers)
      BY <1>3, <1>12, <1>14, <2>1
    <3> QED BY <2>3, <3>1, <3>2 DEF OneWay
  <2>6. OneAtATime(trk', trkCalls', trkMarks')
    <3> SUFFICES ASSUME "overlap" \notin trkMarks'
                 PROVE  /\ IsOn(trk'.line, trk'.markers[1]) /\ IsOn(trk'.line, trk'.markers[2])
                        /\ \A c \in trkCalls' :
                             /\ trkCalls' = {c} /\ c.line = trk'.line
                             /\ \E e \in Ways : /\ Laid(trk'.line, e, trk'.segs, trk'.joints)
                                                /\ Spans(trk'.line, e, trk'.markers, c.sub1, c.sub2)
      BY DEF OneAtATime
    <3>1. trkCalls' = {call}
      BY <1>16, <2>1
    <3>2. trk'.markers = put /\ trk'.line = line
      BY <1>12, <2>1
    <3> HIDE DEF line
    <3> QED BY <1>13, <1>14, <2>3, <3>1, <3>2
  <2>7. Jointed(trk')
    BY <1>12, <2>1
  <2>8. TrackFits(trk', trkCalls', trkMarks')
    BY <2>2, <2>4, <2>5, <2>6, <2>7 DEF TrackFits
  <2> QED BY <1>1, <1>15, <1>16, <2>8, TrkInvNext
<1>18. CASE ~Asks(moved, place)
  <2>1. trk' = Shortened(shown, call) /\ trkCalls' = trkCalls
    BY <1>15, <1>18
  <2> DEFINE e == trk'
  <2>2. Laid(shown.line, d, shown.segs, shown.joints) /\ Ascend(shown.joints) /\ call.line = shown.line
    <3>1. Laid(shown.line, d, shown.segs, shown.joints)
      BY <1>3, <1>12
    <3> QED BY <1>12, <1>13, <3>1, JointsAscend
  <2>3. /\ Jointed(e) /\ e.markers = put /\ e.lit = lit
        /\ Laid(e.line, d, e.segs, e.joints)
        /\ IsOn(e.line, put[1]) /\ IsOn(e.line, put[2])
    <3>1. /\ Jointed(shown) /\ Runs(call.line, d)
          /\ call.sub1 \in 0..Final(call.line) /\ call.sub2 \in 0..Final(call.line)
          /\ Spans(call.line, d, shown.markers, call.sub1, call.sub2)
          /\ IsOn(shown.line, shown.markers[1]) /\ IsOn(shown.line, shown.markers[2])
      BY <1>3, <1>12, <1>13, <1>14
    <3>2. e = Shortened(shown, call)
      BY <2>1
    <3> HIDE DEF e
    <3>3. Jointed(e) /\ e.markers = shown.markers /\ e.lit = shown.lit
      BY ONLY <2>2, <3>1, <3>2, ShortenedKeeps
    <3>4. Laid(e.line, d, e.segs, e.joints)
      BY ONLY <2>2, <3>1, <3>2, ShortenedKeeps
    <3>5. IsOn(e.line, shown.markers[1]) /\ IsOn(e.line, shown.markers[2])
      BY ONLY <2>2, <3>1, <3>2, ShortenedKeeps
    <3> QED BY <1>12, <3>3, <3>4, <3>5
  <2> HIDE DEF e
  <2>4. CallsFit(trkCalls')
    BY <1>1, <2>1
  <2>5. JointsFit(e, trkCalls')
    <3>1. Ascend(e.joints)
      BY <2>3, JointsAscend
    <3>2. \A a, b \in trkCalls' : a = b
      BY <1>4, <2>1
    <3> QED BY <3>1, <3>2 DEF JointsFit
  <2>6. OneWay(e, trkCalls', trkMarks')
    <3>1. Runs(e.line, d)
      BY <2>3 DEF Laid
    <3> QED BY <1>3, <1>14, <2>1, <2>3, <3>1 DEF OneWay
  <2>7. OneAtATime(e, trkCalls', trkMarks')
    BY <1>16, <2>1, <2>3 DEF OneAtATime
  <2>8. TrackFits(trk', trkCalls', trkMarks')
    BY <2>3, <2>4, <2>5, <2>6, <2>7 DEF TrackFits, e
  <2> QED BY <1>1, <1>15, <1>16, <2>8, TrkInvNext
<1> QED BY <1>17, <1>18

(* The neighbour is joined, or the line shortened.                             *)
LEMMA AdjustKeeps ==
  ASSUME TrkInv, NEW c \in trkCalls, Adjust(c)
  PROVE  TrkInv'
<1>1. /\ TrkTypeOK /\ Jointed(trk) /\ CallsFit(trkCalls) /\ JointsFit(trk, trkCalls)
      /\ OneWay(trk, trkCalls, trkMarks) /\ OneAtATime(trk, trkCalls, trkMarks)
  BY DEF TrkInv, TrackFits
<1>2. PICK d \in Ways : Runs(c.line, d) /\ c.sub1 \in 0..Final(c.line) /\ c.sub2 \in 0..Final(c.line)
  BY <1>1 DEF CallsFit
<1>3. Ascend(trk.joints) /\ c \in TrackCall
  BY <1>1 DEF CallsFit, JointsFit
<1>4. c.first \in BOOLEAN /\ c.line \in Seq(Nat) /\ Len(c.line) >= 2
  BY <1>2, <1>3, StraightPoints DEF TrackCall
<1>5. trkCalls' = trkCalls \ {c} /\ trkRoad' = trkRoad /\ trkDrags' = trkDrags
  BY DEF Adjust
<1>6. /\ \A a, b \in trkCalls' : a = b
      /\ \A a \in trkCalls' : /\ c.line = trk.line
                              /\ \E e \in Ways : Laid(trk.line, e, trk.segs, trk.joints)
  BY <1>1, <1>5 DEF CallsFit, JointsFit
<1>7. ASSUME "overlap" \notin trkMarks
      PROVE  /\ trkCalls' = {} /\ c.line = trk.line
             /\ Laid(trk.line, d, trk.segs, trk.joints) /\ Spans(c.line, d, trk.markers, c.sub1, c.sub2)
             /\ IsOn(trk.line, trk.markers[1]) /\ IsOn(trk.line, trk.markers[2])
  <2>1. PICK e \in Ways : Laid(trk.line, e, trk.segs, trk.joints) /\ Spans(trk.line, e, trk.markers, c.sub1, c.sub2)
    BY <1>1, <1>7 DEF OneAtATime
  <2>2. trkCalls = {c} /\ c.line = trk.line
    BY <1>1, <1>7 DEF OneAtATime
  <2>3. Runs(trk.line, d) /\ Runs(trk.line, e)
    BY <1>2, <2>1, <2>2 DEF Laid
  <2>4. d = e
    BY <2>3, RunsOneWay
  <2> QED BY <1>1, <1>5, <1>7, <2>1, <2>2, <2>4 DEF OneAtATime
<1>8. ASSUME "backward" \notin trkMarks
      PROVE  /\ Runs(trk.line, d) /\ LitFits(trk.lit, d, trk.markers) /\ \A a \in trkCalls' : Runs(a.line, d)
  <2>1. PICK e \in Ways : /\ Runs(trk.line, e) /\ LitFits(trk.lit, e, trk.markers)
                          /\ \A a \in trkCalls : Runs(a.line, e)
    BY <1>1, <1>8 DEF OneWay
  <2>2. Runs(c.line, e)
    BY <2>1
  <2>3. d = e
    BY <1>2, <2>2, RunsOneWay
  <2> QED BY <1>5, <2>1, <2>3
(* One conclusion for both outcomes.                                           *)
<1>9. ASSUME /\ Jointed(trk') /\ trk'.markers = trk.markers /\ trk'.lit = trk.lit
             /\ trkCalls' # {} => Ascend(trk'.joints)
             /\ trkMarks \subseteq trkMarks' /\ trkMarks' \subseteq trkMarks \cup {"backward"}
             /\ "backward" \notin trkMarks' => Runs(trk'.line, d)
             /\ "backward" \notin trkMarks' /\ "overlap" \notin trkMarks
                  => Laid(trk'.line, d, trk'.segs, trk'.joints)
             /\ "overlap" \notin trkMarks
                  => IsOn(trk'.line, trk.markers[1]) /\ IsOn(trk'.line, trk.markers[2])
      PROVE  TrkInv'
  <2>1. CallsFit(trkCalls')
    BY <1>1, <1>5 DEF CallsFit
  <2>2. JointsFit(trk', trkCalls')
    BY <1>6, <1>9 DEF JointsFit
  <2>3. OneWay(trk', trkCalls', trkMarks')
    <3> SUFFICES ASSUME "backward" \notin trkMarks'
                 PROVE  /\ Runs(trk'.line, d) /\ LitFits(trk'.lit, d, trk'.markers)
                        /\ \A a \in trkCalls' : Runs(a.line, d)
                        /\ "overlap" \notin trkMarks' => Laid(trk'.line, d, trk'.segs, trk'.joints)
      BY DEF OneWay
    <3>1. "backward" \notin trkMarks /\ ("overlap" \notin trkMarks' => "overlap" \notin trkMarks)
      BY <1>9
    <3> QED BY <1>8, <1>9, <3>1
  <2>4. OneAtATime(trk', trkCalls', trkMarks')
    BY <1>7, <1>9 DEF OneAtATime
  <2>5. TrackFits(trk', trkCalls', trkMarks')
    BY <1>9, <2>1, <2>2, <2>3, <2>4 DEF TrackFits
  <2>6. trkDrags' \in 0..MaxDrags /\ trkMarks' \subseteq {"overlap", "backward", "reset"}
    BY <1>1, <1>5, <1>9 DEF TrkTypeOK
  <2> QED BY <1>1, <1>5, <2>5, <2>6, TrkInvNext
<1>10. ASSUME NEW s \in Joining(c), trk' = Extended(trk, c.line, s),
              trkMarks' = trkMarks \cup (IF FitsOn(c, PointsOf(s)) THEN {} ELSE {"backward"})
       PROVE  TrkInv'
  <2> DEFINE e == trk'
  <2>1. s \in Segs
    BY DEF Joining, Neighbours
  <2>2. e = Extended(trk, c.line, s)
    BY <1>10
  <2> HIDE DEF e
  <2>3. Jointed(e) /\ e.markers = trk.markers /\ e.lit = trk.lit
    BY ONLY <1>1, <1>4, <2>1, <2>2, ExtendedKeeps
  <2>4. \A place : IsOn(c.line, place) => IsOn(e.line, place)
    BY ONLY <1>1, <1>4, <2>1, <2>2, ExtendedKeeps
  <2>5. (\A k \in 1..Len(trk.joints) : trk.joints[k] <= Final(c.line)) => Ascend(e.joints)
    BY ONLY <1>1, <1>3, <1>4, <2>1, <2>2, ExtendedKeeps
  <2>6. ASSUME trkCalls' # {} PROVE Ascend(e.joints)
    <3>1. PICK g \in Ways : c.line = trk.line /\ Laid(trk.line, g, trk.segs, trk.joints)
      BY <1>6, <2>6
    <3>2. Len(trk.joints) \in Nat /\ Final(trk.line) \in Nat
      BY ONLY <3>1, CutsAre
    <3>3. \A k \in 1..Len(trk.joints) : Cut(trk.line, trk.joints, k) = trk.joints[k]
      BY ONLY <3>1, CutsAre
    <3>4. \A k \in 0..(Len(trk.joints) + 1) : Cut(trk.line, trk.joints, k) \in 0..Final(trk.line)
      BY ONLY <3>1, CutsAre
    <3>5. \A k \in 1..Len(trk.joints) : trk.joints[k] <= Final(c.line)
      BY <3>1, <3>2, <3>3, <3>4
    <3> QED BY <2>5, <3>5
  <2>7. ASSUME FitsOn(c, PointsOf(s)) PROVE Runs(e.line, d)
    BY ONLY <1>1, <1>2, <1>4, <1>10, <2>2, <2>7, ExtendedOnWay
  <2>8. ASSUME FitsOn(c, PointsOf(s)), "overlap" \notin trkMarks PROVE Laid(e.line, d, e.segs, e.joints)
    <3>1. Laid(c.line, d, trk.segs, trk.joints)
      BY <1>7, <2>8
    <3>2. /\ Jointed(trk) /\ Runs(c.line, d) /\ c.first \in BOOLEAN
          /\ s \in Joining(c) /\ FitsOn(c, PointsOf(s)) /\ e = Extended(trk, c.line, s)
      BY <1>1, <1>2, <1>4, <1>10, <2>2, <2>8
    <3>3. Laid(c.line, d, trk.segs, trk.joints) => Laid(e.line, d, e.segs, e.joints)
      BY ONLY <3>2, ExtendedOnWay
    <3> QED BY <3>1, <3>3
  <2>9. "overlap" \notin trkMarks => IsOn(e.line, trk.markers[1]) /\ IsOn(e.line, trk.markers[2])
    BY <1>7, <2>4
  <2>10. "backward" \notin trkMarks' => FitsOn(c, PointsOf(s))
    BY <1>10
  <2>11. trkMarks \subseteq trkMarks' /\ trkMarks' \subseteq trkMarks \cup {"backward"}
    BY <1>10
  <2> QED BY <1>9, <2>3, <2>6, <2>7, <2>8, <2>9, <2>10, <2>11 DEF e
<1>11. ASSUME trk' = Shortened(trk, c), trkMarks' = trkMarks
       PROVE  TrkInv'
  <2> DEFINE e == trk'
  <2>1. e = Shortened(trk, c)
    BY <1>11
  <2> HIDE DEF e
  <2>2. Jointed(e) /\ e.markers = trk.markers /\ e.lit = trk.lit
    BY ONLY <1>1, <1>2, <1>3, <2>1, ShortenedKeeps
  <2>3. e.line = trk.line \/ Runs(e.line, d)
    BY ONLY <1>1, <1>2, <1>3, <2>1, ShortenedKeeps
  <2>4. c.line = trk.line /\ Laid(trk.line, d, trk.segs, trk.joints) => Laid(e.line, d, e.segs, e.joints)
    BY ONLY <1>1, <1>2, <1>3, <2>1, ShortenedKeeps
  <2>5. ASSUME "overlap" \notin trkMarks PROVE IsOn(e.line, trk.markers[1]) /\ IsOn(e.line, trk.markers[2])
    <3>1. /\ c.line = trk.line /\ Laid(trk.line, d, trk.segs, trk.joints)
          /\ Spans(c.line, d, trk.markers, c.sub1, c.sub2)
          /\ IsOn(trk.line, trk.markers[1]) /\ IsOn(trk.line, trk.markers[2])
      BY <1>7, <2>5
    <3> QED BY ONLY <1>1, <1>2, <1>3, <2>1, <3>1, ShortenedKeeps
  <2>6. ASSUME trkCalls' # {} PROVE Ascend(e.joints)
    <3>1. PICK g \in Ways : c.line = trk.line /\ Laid(trk.line, g, trk.segs, trk.joints)
      BY <1>6, <2>6
    <3>2. Runs(c.line, g)
      BY <3>1 DEF Laid
    <3>3. g = d
      BY <1>2, <3>2, RunsOneWay
    <3>4. Laid(e.line, d, e.segs, e.joints)
      BY <2>4, <3>1, <3>3
    <3> QED BY <3>4, JointsAscend
  <2>7. "backward" \notin trkMarks' => Runs(e.line, d)
    BY <1>8, <1>11, <2>3
  <2>8. "overlap" \notin trkMarks => Laid(e.line, d, e.segs, e.joints)
    BY <1>7, <2>4
  <2> QED BY <1>9, <1>11, <2>2, <2>5, <2>6, <2>7, <2>8 DEF e
<1> QED BY <1>10, <1>11 DEF Adjust

(* The points of an event are shown.                                           *)
LEMMA SetPointsKeeps ==
  ASSUME TrkInv, Idle, NEW s \in Segs, NEW a \in PlacesOn(PointsOf(s)), NEW b \in PlacesOn(PointsOf(s)),
         SetPoints(s, a, b)
  PROVE  TrkInv'
<1> DEFINE line == PointsOf(s)
           d == Way(s)
           m == <<a, b>>
           at == Locations(line, m)
           lit == Lit(line, at)
           t == [line |-> line, segs |-> <<s>>, joints |-> <<>>, markers |-> m, lit |-> lit]
           asked == {p \in {a, b} : Asks(t, p)}
           CallOf(p) == [Adjusting(t, p) EXCEPT !.n = IF p = a THEN 1 ELSE 2]
<1>1. /\ a # b /\ trk' = t /\ trkCalls' = {CallOf(p) : p \in asked}
      /\ trkMarks' = trkMarks \cup {"reset"} \cup (IF Cardinality(asked) = 2 THEN {"overlap"} ELSE {})
      /\ trkRoad' = trkRoad /\ trkDrags' = trkDrags
  BY DEF SetPoints
<1>2. TrkTypeOK /\ trkCalls = {}
  BY DEF TrkInv, Idle
<1>3. Runs(line, d) /\ Laid(line, d, <<s>>, <<>>) /\ d \in Ways /\ line \in Seq(Nat)
  BY SegmentRuns DEF Runs
<1>4. a \in Places /\ b \in Places /\ IsOn(line, a) /\ IsOn(line, b)
  BY DEF PlacesOn
<1> HIDE DEF line, d
<1>5. m \in Places \X Places /\ m[1] = a /\ m[2] = b
  BY <1>4
<1> HIDE DEF m
<1>6. LitFits(lit, d, m)
  BY <1>3, <1>4, <1>5, Located
<1>7. lit \in Seq(Places)
  BY <1>6 DEF LitFits
<1> HIDE DEF at, lit
<1>8. /\ t.line = line /\ t.segs = <<s>> /\ t.joints = <<>> /\ t.markers = m /\ t.lit = lit
      /\ Jointed(t)
  <2>1. <<s>> \in Seq(Segs) /\ Len(<<s>>) = 1 /\ <<>> \in Seq(Nat) /\ Len(<<>>) = 0
    OBVIOUS
  <2> QED BY <1>3, <1>5, <1>7, <2>1 DEF Jointed, Track
<1> HIDE DEF t
<1>9. ASSUME NEW p \in {a, b}
      PROVE  /\ CallOf(p) \in TrackCall /\ CallOf(p).line = line
             /\ CallOf(p).sub1 \in 0..Final(line) /\ CallOf(p).sub2 \in 0..Final(line)
             /\ Spans(line, d, m, CallOf(p).sub1, CallOf(p).sub2)
  <2> DEFINE g == Adjusting(t, p)
  <2>1. Jointed(t) /\ Runs(t.line, d) /\ IsOn(t.line, t.markers[1]) /\ IsOn(t.line, t.markers[2])
        /\ p \in Places /\ trkCalls = {}
    BY <1>2, <1>3, <1>4, <1>5, <1>8
  <2>2. g \in TrackCall /\ g.line = t.line
        /\ g.sub1 \in 0..Final(t.line) /\ g.sub2 \in 0..Final(t.line)
        /\ Spans(t.line, d, t.markers, g.sub1, g.sub2)
    BY ONLY <2>1, AdjustingIs
  <2>3. CallOf(p) = [g EXCEPT !.n = IF p = a THEN 1 ELSE 2]
    OBVIOUS
  <2> HIDE DEF g
  <2>4. /\ CallOf(p) \in TrackCall /\ CallOf(p).line = g.line /\ CallOf(p).sub1 = g.sub1 /\ CallOf(p).sub2 = g.sub2
    BY <2>2, <2>3 DEF TrackCall
  <2> HIDE DEF CallOf
  <2> QED BY <1>8, <2>2, <2>4
<1> HIDE DEF CallOf
<1>10. trkDrags' \in 0..MaxDrags /\ trkMarks' \subseteq {"overlap", "backward", "reset"}
  BY <1>1, <1>2 DEF TrkTypeOK
<1>11. asked \subseteq {a, b}
  OBVIOUS
<1>12. CallsFit(trkCalls')
  <2>1. \A c \in trkCalls' : \E p \in {a, b} : c = CallOf(p)
    BY <1>1
  <2>2. \A x, y, z \in trkCalls' : x = y \/ x = z \/ y = z
    BY <2>1
  <2>3. \A c \in trkCalls' : c \in TrackCall /\ c.line = line /\ c.sub1 \in 0..Final(line) /\ c.sub2 \in 0..Final(line)
    BY <1>9, <2>1
  <2> QED BY <1>3, <2>2, <2>3 DEF CallsFit
<1>13. Laid(trk'.line, d, trk'.segs, trk'.joints) /\ \A c \in trkCalls' : c.line = trk'.line
  BY <1>1, <1>3, <1>8, <1>9
<1>14. JointsFit(trk', trkCalls')
  <2>1. Ascend(trk'.joints)
    BY <1>13, JointsAscend
  <2> QED BY <1>3, <1>13, <2>1 DEF JointsFit
<1>15. OneWay(trk', trkCalls', trkMarks')
  <2>1. Runs(trk'.line, d) /\ LitFits(trk'.lit, d, trk'.markers)
    BY <1>1, <1>3, <1>6, <1>8
  <2>2. \A c \in trkCalls' : Runs(c.line, d)
    BY <1>13, <2>1
  <2> QED BY <1>3, <1>13, <2>1, <2>2 DEF OneWay
<1>16. OneAtATime(trk', trkCalls', trkMarks')
  <2> SUFFICES ASSUME "overlap" \notin trkMarks'
               PROVE  /\ IsOn(trk'.line, trk'.markers[1]) /\ IsOn(trk'.line, trk'.markers[2])
                      /\ \A c \in trkCalls' :
                           /\ trkCalls' = {c} /\ c.line = trk'.line
                           /\ \E e \in Ways : /\ Laid(trk'.line, e, trk'.segs, trk'.joints)
                                              /\ Spans(trk'.line, e, trk'.markers, c.sub1, c.sub2)
    BY DEF OneAtATime
  <2>1. Cardinality(asked) # 2
    BY <1>1
  <2>2. asked # {a, b}
    <3>1. Cardinality({a, b}) = 2
      <4>1. IsFiniteSet({a}) /\ Cardinality({a}) = 1 /\ b \notin {a}
        BY <1>1, FS_Singleton
      <4>2. Cardinality({a} \cup {b}) = Cardinality({a}) + 1
        BY <4>1, FS_AddElement
      <4>3. {a} \cup {b} = {a, b}
        OBVIOUS
      <4> QED BY <4>1, <4>2, <4>3
    <3> HIDE DEF asked
    <3> QED BY <2>1, <3>1
  <2>3. \A p, q \in asked : p = q
    BY <2>2
  <2> HIDE DEF asked
  <2>4. \A x, y \in trkCalls' : x = y
    BY <1>1, <2>3
  <2>5. IsOn(trk'.line, trk'.markers[1]) /\ IsOn(trk'.line, trk'.markers[2])
    BY <1>1, <1>4, <1>5, <1>8
  <2>6. \A c \in trkCalls' : Spans(trk'.line, d, trk'.markers, c.sub1, c.sub2)
    BY <1>1, <1>8, <1>9, <1>11
  <2> QED BY <1>3, <1>13, <2>4, <2>5, <2>6
<1>17. TrackFits(trk', trkCalls', trkMarks')
  BY <1>1, <1>8, <1>12, <1>14, <1>15, <1>16 DEF TrackFits
<1> QED BY <1>1, <1>2, <1>10, <1>17, TrkInvNext

(* Every step keeps the invariant.                                             *)
LEMMA TrkNextKeeps == TrkInv /\ [TrkNext]_trkVars => TrkInv'
<1> SUFFICES ASSUME TrkInv, [TrkNext]_trkVars PROVE TrkInv'
  OBVIOUS
<1>1. ASSUME Draggable, NEW m \in 1..2, NEW place \in PlacesOn(trk.line), NEW drop \in BOOLEAN,
             Drag(m, place, drop)
      PROVE  TrkInv'
  BY <1>1, DragKeeps
<1>2. ASSUME NEW c \in trkCalls, Adjust(c) PROVE TrkInv'
  BY <1>2, AdjustKeeps
<1>3. ASSUME Idle, NEW s \in Segs, NEW a \in PlacesOn(PointsOf(s)), NEW b \in PlacesOn(PointsOf(s)),
             SetPoints(s, a, b)
      PROVE  TrkInv'
  BY <1>3, SetPointsKeeps
<1>4. CASE UNCHANGED trkVars
  <2>1. /\ trkRoad' = trkRoad /\ trk' = trk /\ trkCalls' = trkCalls /\ trkDrags' = trkDrags
        /\ trkMarks' = trkMarks
    BY <1>4 DEF trkVars
  <2>2. TrkTypeOK /\ TrackFits(trk', trkCalls', trkMarks')
    BY <2>1 DEF TrkInv
  <2>3. trkDrags' \in 0..MaxDrags /\ trkMarks' \subseteq {"overlap", "backward", "reset"}
    BY <2>1, <2>2 DEF TrkTypeOK
  <2> QED BY <2>1, <2>2, <2>3, TrkInvNext
<1> QED BY <1>1, <1>2, <1>3, <1>4 DEF TrkNext

-----------------------------------------------------------------------------
(* The line is cut at its joints into its segments.                            *)
CutsInto(line, segs, joints) ==
  LET at == <<0>> \o joints \o <<Final(line)>>
  IN /\ Len(at) = Len(segs) + 1
     /\ \A k \in DOMAIN segs : SubSeq(line, at[k] + 1, at[k + 1] + 1) = PointsOf(segs[k])

LEMMA CutIntoSegments ==
  ASSUME NEW line, NEW d, NEW segs, NEW joints, Laid(line, d, segs, joints)
  PROVE  CutsInto(line, segs, joints)
<1> DEFINE n == Len(joints)
           f == Final(line)
           at == <<0>> \o joints \o <<f>>
<1>1. /\ n \in Nat /\ f \in Nat /\ Len(segs) = n + 1 /\ joints \in Seq(Nat) /\ segs \in Seq(Segs)
      /\ Runs(line, d)
      /\ \A k \in 1..(n + 1) : SegOn(line, d, segs[k], Cut(line, joints, k - 1), Cut(line, joints, k))
  BY CutsAre DEF Laid
<1>2. DOMAIN segs = 1..(n + 1) /\ \A k \in 1..(n + 1) : segs[k] \in Segs
  BY <1>1, LenProperties, ElementOfSeq
<1>3. <<0>> \in Seq(Nat) /\ Len(<<0>>) = 1 /\ <<0>>[1] = 0 /\ <<f>> \in Seq(Nat) /\ Len(<<f>>) = 1 /\ <<f>>[1] = f
  BY <1>1
<1> HIDE DEF f, n
<1>4. /\ <<0>> \o joints \in Seq(Nat) /\ Len(<<0>> \o joints) = n + 1
      /\ \A k \in 1..(n + 1) : (<<0>> \o joints)[k] = IF k = 1 THEN 0 ELSE joints[k - 1]
  <2> DEFINE z == <<0>>
  <2>1. z \in Seq(Nat) /\ Len(z) = 1 /\ z[1] = 0
    BY <1>3
  <2> HIDE DEF z
  <2>2. z \o joints \in Seq(Nat) /\ Len(z \o joints) = Len(z) + Len(joints)
        /\ \A k \in 1..(Len(z) + Len(joints)) :
             (z \o joints)[k] = IF k <= Len(z) THEN z[k] ELSE joints[k - Len(z)]
    BY <1>1, <2>1, ConcatProperties
  <2>3. Len(z \o joints) = n + 1
    BY <1>1, <2>1, <2>2 DEF n
  <2>4. ASSUME NEW k \in 1..(n + 1) PROVE (z \o joints)[k] = IF k = 1 THEN 0 ELSE joints[k - 1]
    <3>1. k \in 1..(Len(z) + Len(joints)) /\ (k <= 1 <=> k = 1)
      BY <1>1, <2>1, <2>4 DEF n
    <3> QED BY <2>1, <2>2, <3>1
  <2> QED BY <2>2, <2>3, <2>4 DEF z
<1>5. /\ Len(at) = n + 2
      /\ \A k \in 1..(n + 2) : at[k] = IF k = 1 THEN 0 ELSE IF k = n + 2 THEN f ELSE joints[k - 1]
  <2> DEFINE w == <<0>> \o joints
             z == <<f>>
  <2>1. /\ z \in Seq(Nat) /\ Len(z) = 1 /\ z[1] = f
        /\ w \in Seq(Nat) /\ Len(w) = n + 1
        /\ \A k \in 1..(n + 1) : w[k] = IF k = 1 THEN 0 ELSE joints[k - 1]
    BY <1>3, <1>4
  <2>2. at = w \o z
    OBVIOUS
  <2> HIDE DEF w, z, at
  <2>3. Len(w \o z) = Len(w) + Len(z)
        /\ \A k \in 1..(Len(w) + Len(z)) : (w \o z)[k] = IF k <= Len(w) THEN w[k] ELSE z[k - Len(w)]
    BY <2>1, ConcatProperties
  <2>4. Len(at) = n + 2
    BY <1>1, <2>1, <2>2, <2>3
  <2>5. ASSUME NEW k \in 1..(n + 2)
        PROVE  at[k] = IF k = 1 THEN 0 ELSE IF k = n + 2 THEN f ELSE joints[k - 1]
    <3>1. k \in 1..(Len(w) + Len(z)) /\ (k <= Len(w) <=> k \in 1..(n + 1)) /\ (k > n + 1 => k - Len(w) = 1)
          /\ (k \in 1..(n + 1) => k # n + 2) /\ (k \notin 1..(n + 1) => k = n + 2 /\ k # 1)
      BY ONLY <1>1, <2>1, <2>5
    <3>2. CASE k \in 1..(n + 1)
      BY <2>1, <2>2, <2>3, <3>1, <3>2
    <3>3. CASE k \notin 1..(n + 1)
      <4>1. k = n + 2 /\ k - Len(w) = 1 /\ ~(k <= Len(w))
        BY ONLY <1>1, <2>1, <3>1, <3>3
      <4> QED BY <2>1, <2>2, <2>3, <3>1, <4>1
    <3> QED BY <3>2, <3>3
  <2> QED BY <2>4, <2>5
<1>6. ASSUME NEW k \in 1..(n + 2) PROVE at[k] = Cut(line, joints, k - 1)
  <2>1. (k - 1 = 0 <=> k = 1) /\ (k - 1 = n + 1 <=> k = n + 2)
    BY ONLY <1>1, <1>6
  <2> HIDE DEF at
  <2> QED BY <1>5, <2>1 DEF Cut, n, f
<1>7. ASSUME NEW k \in DOMAIN segs
      PROVE  SubSeq(line, at[k] + 1, at[k + 1] + 1) = PointsOf(segs[k])
  <2>1. /\ k \in 1..(n + 1) /\ k \in 1..(n + 2) /\ k + 1 \in 1..(n + 2) /\ (k + 1) - 1 = k
        /\ k - 1 \in 0..(n + 1)
    <3>1. n \in Nat /\ k \in 1..(n + 1)
      BY <1>1, <1>2, <1>7
    <3>2. k \in Int /\ 1 <= k /\ k <= n + 1
      BY ONLY <3>1
    <3> QED BY ONLY <3>1, <3>2
  <2>2. at[k] = Cut(line, joints, k - 1) /\ at[k + 1] = Cut(line, joints, k)
    BY <1>6, <2>1
  <2>3. segs[k] \in Segs /\ SegOn(line, d, segs[k], Cut(line, joints, k - 1), Cut(line, joints, k))
    BY <1>1, <1>2, <2>1
  <2>4. SubSeq(line, Cut(line, joints, k - 1) + 1, Cut(line, joints, k) + 1) = PointsOf(segs[k])
    BY ONLY <1>1, <2>3, LiesIsPoints
  <2> HIDE DEF at
  <2> QED BY <2>2, <2>4
<1>8. Len(at) = Len(segs) + 1
  BY ONLY <1>1, <1>5
<1> QED BY <1>7, <1>8 DEF CutsInto, f

(* A line that goes along the road ends at a later point than it begins.        *)
LEMMA RunsUp ==
  ASSUME NEW line, NEW d, Runs(line, d)
  PROVE  line[1] < Last(line) <=> d = 1
<1>1. /\ Len(line) \in Nat /\ Len(line) >= 2 /\ d \in {1, -1} /\ line[1] \in Nat
      /\ Len(line) \in 1..Len(line)
  BY StraightPoints
<1>2. line[Len(line)] = (IF d = 1 THEN line[1] + (Len(line) - 1) ELSE line[1] - (Len(line) - 1))
  BY <1>1 DEF Runs
<1>3. Last(line) = line[Len(line)]
  BY DEF Last
<1> QED BY ONLY <1>1, <1>2, <1>3

(* What the invariant says of the track.                                       *)
LEMMA TrkInvDrawn == TrkInv => TrackDrawn
<1> SUFFICES ASSUME TrkInv PROVE TrackDrawn
  OBVIOUS
<1>1. /\ TrkTypeOK /\ Jointed(trk)
      /\ OneWay(trk, trkCalls, trkMarks) /\ OneAtATime(trk, trkCalls, trkMarks)
  BY DEF TrkInv, TrackFits
<1>2. LineIsSegments
  <2>1. ASSUME Sound PROVE CutsInto(trk.line, trk.segs, trk.joints)
    <3>1. "overlap" \notin trkMarks /\ "backward" \notin trkMarks
      BY <2>1 DEF Sound
    <3>2. PICK d \in Ways : Laid(trk.line, d, trk.segs, trk.joints)
      BY <1>1, <3>1 DEF OneWay
    <3> QED BY <3>2, CutIntoSegments
  <2> QED BY <2>1 DEF LineIsSegments, CutsInto
<1>3. MarkersOnLine
  BY <1>1 DEF OneAtATime, MarkersOnLine
<1>4. LitInOrder
  <2> SUFFICES ASSUME "backward" \notin trkMarks
               PROVE  /\ {trk.lit[1], Last(trk.lit)} = ToSet(trk.markers)
                      /\ LET up == trk.line[1] < Last(trk.line)
                         IN \A k \in 2..Len(trk.lit) :
                              IF up THEN trk.lit[k - 1] <= trk.lit[k] ELSE trk.lit[k - 1] >= trk.lit[k]
    BY DEF LitInOrder
  <2>1. PICK d \in Ways : Runs(trk.line, d) /\ LitFits(trk.lit, d, trk.markers)
    BY <1>1 DEF OneWay
  <2>2. trk.line[1] < Last(trk.line) <=> d = 1
    BY <2>1, RunsUp
  <2>3. {trk.lit[1], trk.lit[Len(trk.lit)]} = {trk.markers[1], trk.markers[2]}
    BY <2>1 DEF LitFits
  <2>4. \A k \in 2..Len(trk.lit) : IF d = 1 THEN trk.lit[k - 1] <= trk.lit[k] ELSE trk.lit[k - 1] >= trk.lit[k]
    BY <2>1 DEF LitFits
  <2>5. ToSet(trk.markers) = {trk.markers[1], trk.markers[2]}
    <3>1. DOMAIN trk.markers = {1, 2}
      <4>1. trk.markers \in Places \X Places
        BY <1>1 DEF Jointed, Track
      <4>2. PICK a \in Places, b \in Places : trk.markers = <<a, b>>
        BY <4>1
      <4> QED BY <4>2
    <3> QED BY <3>1, Zenon DEF ToSet
  <2>6. Last(trk.lit) = trk.lit[Len(trk.lit)]
    BY DEF Last
  <2>7. {trk.lit[1], Last(trk.lit)} = ToSet(trk.markers)
    BY ONLY <2>3, <2>5, <2>6
  <2> QED BY ONLY <2>2, <2>4, <2>7
<1> QED BY <1>2, <1>3, <1>4 DEF TrackDrawn

LEMMA TrkInvariant == TrkSpec => []TrkInv
<1> QED BY TrkInitial, TrkNextKeeps, PTL DEF TrkSpec

(* Whatever the road, the way its segments are digitised, the drags and the     *)
(* neighbours found: the line selected is its segments joined end to end, both  *)
(* markers are on it, and the stretch that is saved runs from one marker to     *)
(* the other (SelectedSegmentManager.js).                                       *)
THEOREM TrackDrawnCorrect == TrkSpec => []TrackDrawn
<1> QED BY TrkInvariant, TrkInvDrawn, PTL

(* The line, its segments and joints, the markers and the adjustments that      *)
(* await a neighbour are what SelectedSegmentManager.js takes them to be.       *)
THEOREM TrackTypeCorrect == TrkSpec => []TrkTypeOK
<1>1. TrkInv => TrkTypeOK
  BY DEF TrkInv
<1> QED BY <1>1, TrkInvariant, PTL
=============================================================================
