---------------------------- MODULE TcmPartsProofs ----------------------------
(***************************************************************************)
(* The messages of an answer, whatever the size of a part, the number of   *)
(* controls and the length of their paths: TcmParts counts their parts     *)
(* while it collects the controls and numbers the messages while it sends  *)
(* them, and the proof has to bring the two together.  It does so by the   *)
(* number of messages that stand before each control, a function S that    *)
(* the program never computes.                                             *)
(***************************************************************************)
EXTENDS TcmParts, TLAPS

(* S[i] messages stand for the first i controls.                              *)
Before(S) ==
  /\ S \in [0..Len(paths) -> Nat] /\ S[0] = 0
  /\ \A i \in 1..Len(paths) : S[i] = S[i - 1] + PartsToSend(paths[i])
  /\ \A i, j \in 0..Len(paths) : i <= j => S[i] <= S[j]
  /\ asList => \A i \in 0..Len(paths) : S[i] = i

(* The total is the sum once it is announced, and in the making before, unless *)
(* it is replaced; the next message has the number of its place.              *)
Counted(S) ==
  /\ next = 0 /\ ~asList => total = S[Len(paths)]
  /\ next > 0 => total = S[Len(paths)] /\ num = S[next - 1] + part + 1

(* A message is a part of a control, and its number is that of its place.     *)
InPlace(S, m) ==
  /\ m.control \in 1..Len(paths) /\ m.part \in Nat /\ m.num \in Nat
  /\ m.part < PartsToSend(paths[m.control])
  /\ m.num = S[m.control - 1] + m.part + 1
  /\ m.nodes = Nodes(paths[m.control], m.part)

AnswerShape ==
  /\ asList \in BOOLEAN /\ paths \in Seq(Sizes) /\ Len(paths) <= MaxControls
  /\ total \in Nat /\ next \in 0..(Len(paths) + 1) /\ part \in Nat /\ num \in Nat
  /\ next = 0 => part = 0 /\ num = 1 /\ buffer = {} /\ got = {}
  /\ next \in 1..Len(paths) => part < PartsToSend(paths[next])
  /\ next = Len(paths) + 1 => part = 0

Ledger(S) == Before(S) /\ Counted(S) /\ \A m \in got \cup buffer : InPlace(S, m)

PartsInv == AnswerShape /\ \E S \in [0..Len(paths) -> Nat] : Ledger(S)

-----------------------------------------------------------------------------
(* Arithmetic of the parts.                                                   *)

(* A number of sent messages never vanishes: every control has at least one.  *)
LEMMA SomePart ==
  ASSUME NEW size \in Sizes, asList \in BOOLEAN
  PROVE  PartsToSend(size) \in Nat /\ PartsToSend(size) >= 1
BY PartsAssumption DEF PartsToSend, Parts

(* The first node of a part lies within the path and within the part.         *)
LEMMA FirstNodeSent ==
  ASSUME NEW size \in Sizes, asList \in BOOLEAN, NEW k \in Nat, k < PartsToSend(size)
  PROVE  Nodes(size, k) # {}
<1>0. size \in Nat /\ size >= 1 /\ PartSize \in Nat /\ PartSize >= 2
  BY PartsAssumption
<1>1. CASE asList
  <2>1. 0 \in 0..(size - 1)
    BY <1>0
  <2> QED BY <1>1, <2>1 DEF Nodes
<1>2. CASE ~asList
  <2>1. k <= size \div PartSize
    BY <1>0, <1>2 DEF PartsToSend, Parts
  <2>2. k * PartSize <= (size \div PartSize) * PartSize /\ (size \div PartSize) * PartSize <= size
    BY <1>0, <2>1
  <2>3. k # 0 => k * PartSize >= PartSize
    BY <1>0
  <2> DEFINE f == FirstNode(k)
  <2>4. f \in Nat /\ f <= size - 1
    <3>1. CASE k = 0
      BY <1>0, <3>1 DEF FirstNode
    <3>2. CASE k # 0
      BY <1>0, <3>2, <2>2, <2>3 DEF FirstNode
    <3> QED BY <3>1, <3>2
  <2> HIDE DEF f
  <2>5. f < (f \div PartSize + 1) * PartSize
    BY <1>0, <2>4
  <2>6. f \in f..(size - 1)
    BY <1>0, <2>4
  <2>7. Nodes(size, k) = {n \in f..(size - 1) : n < (f \div PartSize + 1) * PartSize}
    BY <1>2 DEF Nodes, f
  <2> QED BY <2>5, <2>6, <2>7
<1> QED BY <1>1, <1>2

(* No part reaches outside the path.                                          *)
LEMMA NodesOfPath ==
  ASSUME NEW size \in Sizes, asList \in BOOLEAN, NEW k \in Nat
  PROVE  Nodes(size, k) \subseteq 0..(size - 1)
<1>0. size \in Nat /\ size >= 1 /\ PartSize \in Nat /\ PartSize >= 2
  BY PartsAssumption
<1>1. k # 0 => k * PartSize >= PartSize
  BY <1>0
<1>2. FirstNode(k) \in Nat
  BY <1>0, <1>1 DEF FirstNode
<1>3. FirstNode(k)..(size - 1) \subseteq 0..(size - 1)
  BY <1>0, <1>2
<1> QED BY <1>3 DEF Nodes

(* The first part of a path that fits one is the whole path.                  *)
LEMMA FirstPartIsWhole ==
  ASSUME NEW size \in Sizes, asList \in BOOLEAN, asList \/ size <= PartSize
  PROVE  Nodes(size, 0) = 0..(size - 1)
<1>0. size \in Nat /\ PartSize \in Nat /\ PartSize >= 2
  BY PartsAssumption
<1>1. 0 \div PartSize = 0
  BY <1>0
<1>2. (0 \div PartSize + 1) * PartSize = PartSize /\ FirstNode(0) = 0
  BY <1>0, <1>1 DEF FirstNode
<1>3. Nodes(size, 0) = IF asList THEN 0..(size - 1) ELSE {n \in 0..(size - 1) : n < PartSize}
  BY <1>2 DEF Nodes
<1>4. \A n \in 0..(size - 1) : asList \/ n < PartSize
  BY <1>0
<1> QED BY <1>3, <1>4

-----------------------------------------------------------------------------
(* What the ledger says of messages.                                          *)

LEMMA PathsInSizes ==
  ASSUME AnswerShape
  PROVE  Len(paths) \in Nat /\ \A i \in 1..Len(paths) : paths[i] \in Sizes
BY DEF AnswerShape

(* A message's number is one of the total.                                    *)
LEMMA NumberInTotal ==
  ASSUME AnswerShape, NEW S \in [0..Len(paths) -> Nat], Ledger(S), NEW m \in got \cup buffer
  PROVE  m.num \in 1..total
<1>1. InPlace(S, m) /\ Before(S) /\ next > 0 /\ total = S[Len(paths)]
  BY DEF Ledger, AnswerShape, Counted
<1>2. PartsToSend(paths[m.control]) \in Nat /\ m.control \in 1..Len(paths) /\ Len(paths) \in Nat
  BY <1>1, PathsInSizes, SomePart DEF InPlace, AnswerShape
<1>3. S[m.control] = S[m.control - 1] + PartsToSend(paths[m.control])
  BY <1>1, <1>2 DEF Before
<1>4. m.control \in 0..Len(paths) /\ m.control - 1 \in 0..Len(paths) /\ Len(paths) \in 0..Len(paths)
  BY <1>2
<1>5. S[m.control] <= S[Len(paths)]
  BY <1>1, <1>2, <1>4 DEF Before
<1>6. S[m.control] \in Nat /\ S[m.control - 1] \in Nat
  BY <1>4
<1>7. m.part < PartsToSend(paths[m.control]) /\ m.num = S[m.control - 1] + m.part + 1 /\ m.part \in Nat
  BY <1>1 DEF InPlace
<1> QED BY <1>1, <1>2, <1>3, <1>5, <1>6, <1>7

(* The message whose number is the first of a control is its first part.      *)
LEMMA FirstOfControl ==
  ASSUME AnswerShape, NEW S \in [0..Len(paths) -> Nat], Ledger(S), NEW m \in got \cup buffer,
         NEW i \in 1..Len(paths), m.num = S[i - 1] + 1
  PROVE  m.control = i /\ m.part = 0
<1>1. InPlace(S, m) /\ Before(S)
  BY DEF Ledger
<1> DEFINE c == m.control
<1>2. c \in 1..Len(paths) /\ Len(paths) \in Nat
  BY <1>1, PathsInSizes DEF InPlace
<1>3. PartsToSend(paths[c]) \in Nat /\ PartsToSend(paths[i]) \in Nat /\ PartsToSend(paths[i]) >= 1
  BY <1>2, PathsInSizes, SomePart DEF AnswerShape
<1>4. S[c] = S[c - 1] + PartsToSend(paths[c]) /\ S[i] = S[i - 1] + PartsToSend(paths[i])
  BY <1>1, <1>2 DEF Before
<1>5. c \in 0..Len(paths) /\ c - 1 \in 0..Len(paths) /\ i \in 0..Len(paths) /\ i - 1 \in 0..Len(paths)
  BY <1>2
<1>6. S[c] \in Nat /\ S[c - 1] \in Nat /\ S[i] \in Nat /\ S[i - 1] \in Nat
  BY <1>5
<1>7. m.part < PartsToSend(paths[c]) /\ S[i - 1] + 1 = S[c - 1] + m.part + 1 /\ m.part \in Nat
  BY <1>1 DEF InPlace
<1>8. ~(c < i)
  <2> SUFFICES ASSUME c < i PROVE FALSE
    OBVIOUS
  <2>1. c <= i - 1
    BY <1>2
  <2>2. S[c] <= S[i - 1]
    BY <1>1, <1>5, <2>1 DEF Before
  <2> QED BY <1>3, <1>4, <1>6, <1>7, <2>2
<1>9. ~(i < c)
  <2> SUFFICES ASSUME i < c PROVE FALSE
    OBVIOUS
  <2>1. i <= c - 1
    BY <1>2
  <2>2. S[i] <= S[c - 1]
    BY <1>1, <1>5, <2>1 DEF Before
  <2> QED BY <1>3, <1>4, <1>6, <1>7, <2>2
<1>10. c = i
  BY <1>2, <1>8, <1>9
<1> QED BY <1>6, <1>7, <1>10

(* Every control has a first number, and it is one of the total.              *)
LEMMA FirstNumber ==
  ASSUME AnswerShape, next > 0, NEW S \in [0..Len(paths) -> Nat], Ledger(S), NEW i \in 1..Len(paths)
  PROVE  S[i - 1] + 1 \in 1..total
<1>1. Before(S) /\ total = S[Len(paths)] /\ Len(paths) \in Nat
  BY PathsInSizes DEF Ledger, Counted
<1>2. PartsToSend(paths[i]) \in Nat /\ PartsToSend(paths[i]) >= 1
  BY PathsInSizes, SomePart DEF AnswerShape
<1>3. S[i] = S[i - 1] + PartsToSend(paths[i])
  BY <1>1 DEF Before
<1>4. i \in 0..Len(paths) /\ i - 1 \in 0..Len(paths) /\ Len(paths) \in 0..Len(paths) /\ i <= Len(paths)
  BY <1>1
<1>5. S[i] <= S[Len(paths)]
  BY <1>1, <1>4 DEF Before
<1>6. S[i] \in Nat /\ S[i - 1] \in Nat /\ S[Len(paths)] \in Nat
  BY <1>4
<1> QED BY <1>1, <1>2, <1>3, <1>5, <1>6

-----------------------------------------------------------------------------
(* The invariant is what the two properties need.                             *)

LEMMA NumberedFromInv == PartsInv => Numbered
<1> SUFFICES ASSUME PartsInv PROVE Numbered
  OBVIOUS
<1>1. AnswerShape
  BY DEF PartsInv
<1>2. PICK S \in [0..Len(paths) -> Nat] : Ledger(S)
  BY DEF PartsInv
<1>3. \A m \in got : m.num \in 1..total /\ m.control \in 1..Len(paths)
  BY <1>1, <1>2, NumberInTotal DEF Ledger, InPlace
<1>4. next = Len(paths) + 1 => num = total + 1
  <2> SUFFICES ASSUME next = Len(paths) + 1 PROVE num = total + 1
    OBVIOUS
  <2>1. next > 0 /\ part = 0 /\ next - 1 = Len(paths) /\ Len(paths) \in Nat
    BY <1>1, PathsInSizes DEF AnswerShape
  <2>2. num = S[Len(paths)] + 0 + 1 /\ total = S[Len(paths)]
    BY <1>2, <2>1 DEF Ledger, Counted
  <2>3. S[Len(paths)] \in Nat
    BY <2>1
  <2> QED BY <2>2, <2>3
<1> QED BY <1>1, <1>3, <1>4 DEF AnswerShape, Numbered, PartsTypeOK, NumbersReachTotal

LEMMA CompleteFromInv == PartsInv => Complete
<1> SUFFICES ASSUME PartsInv PROVE Complete
  OBVIOUS
<1>1. AnswerShape /\ asList \in BOOLEAN
  BY DEF PartsInv, AnswerShape
<1>2. PICK S \in [0..Len(paths) -> Nat] : Ledger(S)
  BY DEF PartsInv
<1>3. \A m \in got : InPlace(S, m) /\ paths[m.control] \in Sizes
  BY <1>1, <1>2, PathsInSizes DEF Ledger, InPlace
<1>4. NoEmptyPart
  BY <1>1, <1>3, FirstNodeSent DEF NoEmptyPart, InPlace
<1>5. WholeWhenAllArrive
  <2> SUFFICES ASSUME next = Len(paths) + 1, {m.num : m \in got} = 1..total,
                      NEW i \in 1..Len(paths), asList \/ paths[i] <= PartSize
               PROVE  UNION {m.nodes : m \in {x \in got : x.control = i}} = 0..(paths[i] - 1)
    BY DEF WholeWhenAllArrive
  <2>1. next > 0 /\ paths[i] \in Sizes
    BY <1>1, PathsInSizes
  <2>2. S[i - 1] + 1 \in {m.num : m \in got}
    BY <1>1, <1>2, <2>1, FirstNumber
  <2>3. PICK m \in got : m.num = S[i - 1] + 1
    BY <2>2
  <2>4. m.control = i /\ m.part = 0
    BY <1>1, <1>2, <2>3, FirstOfControl
  <2>5. m.nodes = 0..(paths[i] - 1)
    BY <1>1, <1>3, <2>1, <2>4, FirstPartIsWhole DEF InPlace
  <2>6. \A x \in got : x.control = i => x.nodes \subseteq 0..(paths[i] - 1)
    BY <1>1, <1>3, NodesOfPath DEF InPlace
  <2> QED BY <2>4, <2>5, <2>6
<1> QED BY <1>4, <1>5 DEF Complete

-----------------------------------------------------------------------------
(* The invariant is inductive.                                                *)

LEMMA PartsInitInv == Init => PartsInv
<1> SUFFICES ASSUME Init PROVE PartsInv
  OBVIOUS
<1>0. Len(paths) = 0 /\ paths \in Seq(Sizes) /\ MaxControls \in Nat
  BY PartsAssumption DEF Init
<1>1. AnswerShape
  BY <1>0 DEF Init, AnswerShape
<1> DEFINE S == [i \in 0..0 |-> 0]
<1>2. S \in [0..Len(paths) -> Nat] /\ Ledger(S)
  BY <1>0 DEF Init, Ledger, Before, Counted
<1> QED BY <1>1, <1>2 DEF PartsInv

LEMMA CollectInv ==
  ASSUME PartsInv, NEW size \in Sizes, Collect(size)
  PROVE  PartsInv'
<1>1. AnswerShape /\ asList \in BOOLEAN /\ paths \in Seq(Sizes)
  BY DEF PartsInv, AnswerShape
<1>2. PICK S \in [0..Len(paths) -> Nat] : Ledger(S)
  BY DEF PartsInv
<1> DEFINE n == Len(paths)
           Extended == [i \in 0..(n + 1) |-> IF i <= n THEN S[i] ELSE S[n] + PartsToSend(size)]
<1>3. /\ n \in Nat /\ Len(paths') = n + 1 /\ paths' \in Seq(Sizes)
      /\ \A i \in 1..n : paths'[i] = paths[i]
      /\ paths'[n + 1] = size
  BY <1>1 DEF Collect
<1>4. PartsToSend(size) \in Nat /\ PartsToSend(size) >= 1
  BY <1>1, SomePart
<1>5. asList' = asList /\ next = 0 /\ next' = 0 /\ got = {} /\ got' = {} /\ buffer' = {} /\ part' = 0
      /\ num' = 1
  BY <1>1 DEF Collect, AnswerShape
<1>6. S[n] \in Nat
  BY <1>3
<1>7. /\ Extended \in [0..(n + 1) -> Nat] /\ Extended[n + 1] = S[n] + PartsToSend(size)
       /\ \A i \in 0..n : Extended[i] = S[i]
  BY <1>3, <1>4, <1>6
<1>8. PICK T \in [0..(n + 1) -> Nat] : T[n + 1] = S[n] + PartsToSend(size)
                                         /\ \A i \in 0..n : T[i] = S[i]
  BY <1>7
<1>9. Before(S) /\ Counted(S)
  BY <1>2 DEF Ledger
<1>10. total' = total + Parts(size) /\ Parts(size) \in Nat
  BY PartsAssumption DEF Collect, Parts
<1>11. AnswerShape'
  BY <1>1, <1>3, <1>5, <1>10, PartsAssumption DEF AnswerShape, Collect
<1>12. Before(T)'
  <2>1. T \in [0..Len(paths') -> Nat] /\ T[0] = 0
    BY <1>3, <1>6, <1>8, <1>9 DEF Before
  <2>2. ASSUME NEW i \in 1..(n + 1)
        PROVE  T[i] = T[i - 1] + PartsToSend(paths[i])'
    <3>1. CASE i = n + 1
      BY <1>3, <1>5, <1>6, <1>8, <3>1 DEF PartsToSend
    <3>2. CASE i \in 1..n
      <4>1. i \in 0..n /\ i - 1 \in 0..n
        BY <1>3, <3>2
      <4>2. S[i] = S[i - 1] + PartsToSend(paths[i])
        BY <1>9, <3>2 DEF Before
      <4>3. PartsToSend(paths[i])' = PartsToSend(paths[i])
        BY <1>3, <1>5, <3>2 DEF PartsToSend
      <4> QED BY <1>6, <1>8, <4>1, <4>2, <4>3
    <3> QED BY <1>3, <3>1, <3>2
  <2>3. ASSUME NEW i \in 0..(n + 1), NEW j \in 0..(n + 1), i <= j
        PROVE  T[i] <= T[j]
    <3>1. CASE j \in 0..n
      BY <1>3, <1>6, <1>8, <1>9, <2>3, <3>1 DEF Before
    <3>2. CASE i \in 0..n /\ j = n + 1
      <4>1. S[i] <= S[n] /\ S[i] \in Nat
        BY <1>3, <1>9, <3>2 DEF Before
      <4> QED BY <1>4, <1>6, <1>8, <3>2, <4>1
    <3>3. CASE i = n + 1 /\ j = n + 1
      BY <1>4, <1>6, <1>8, <3>3
    <3> QED BY <1>3, <2>3, <3>1, <3>2, <3>3
  <2>4. ASSUME asList', NEW i \in 0..(n + 1)
        PROVE  T[i] = i
    <3>1. asList /\ PartsToSend(size) = 1
      BY <1>5, <2>4 DEF PartsToSend
    <3>2. CASE i \in 0..n
      BY <1>3, <1>6, <1>8, <1>9, <3>1, <3>2 DEF Before
    <3>3. CASE i = n + 1
      <4>1. S[n] = n
        BY <1>3, <1>9, <3>1 DEF Before
      <4> QED BY <1>6, <1>8, <3>1, <3>3, <4>1
    <3> QED BY <1>3, <3>2, <3>3
  <2>5. Len(paths') = n + 1
    BY <1>3
  <2> QED BY <2>1, <2>2, <2>3, <2>4, <2>5 DEF Before
<1>13. Counted(T)'
  <2>1. ASSUME ~asList' PROVE total' = T[n + 1]
    BY <1>5, <1>6, <1>8, <1>9, <1>10, <2>1 DEF Counted, PartsToSend
  <2> QED BY <1>3, <1>5, <2>1 DEF Counted
<1>14. Ledger(T)'
  BY <1>5, <1>12, <1>13 DEF Ledger
<1> QED BY <1>3, <1>6, <1>8, <1>11, <1>14 DEF PartsInv

LEMMA StartSendingInv ==
  ASSUME PartsInv, StartSending
  PROVE  PartsInv'
<1>1. AnswerShape /\ asList \in BOOLEAN /\ Len(paths) \in Nat
  BY PathsInSizes DEF PartsInv, AnswerShape
<1>2. PICK S \in [0..Len(paths) -> Nat] : Ledger(S)
  BY DEF PartsInv
<1>3. paths' = paths /\ asList' = asList /\ next = 0 /\ next' = 1 /\ got' = {} /\ buffer' = {}
      /\ part' = 0 /\ num' = 1 /\ total' = IF asList THEN Len(paths) ELSE total
  BY <1>1 DEF StartSending, AnswerShape
<1>4. Before(S) /\ Before(S)'
  BY <1>2, <1>3 DEF Ledger, Before, PartsToSend
<1>5. total' = S[Len(paths)]
  BY <1>1, <1>2, <1>3, <1>4 DEF Ledger, Before, Counted
<1>6. Counted(S)'
  BY <1>3, <1>4, <1>5 DEF Counted, Before
<1>7. Ledger(S)'
  BY <1>3, <1>4, <1>6 DEF Ledger
<1>8. 1 \in 1..Len(paths) => paths[1] \in Sizes
  BY <1>1, PathsInSizes
<1>9. 1 \in 1..Len(paths) => PartsToSend(paths[1]) \in Nat /\ PartsToSend(paths[1]) >= 1
  BY <1>1, <1>8, SomePart
<1>10. AnswerShape'
  BY <1>1, <1>3, <1>9 DEF AnswerShape, PartsToSend
<1> QED BY <1>3, <1>7, <1>10 DEF PartsInv

LEMMA SendPartInv ==
  ASSUME PartsInv, SendPart
  PROVE  PartsInv'
<1>1. AnswerShape /\ asList \in BOOLEAN /\ Len(paths) \in Nat /\ part \in Nat /\ num \in Nat
  BY PathsInSizes DEF PartsInv, AnswerShape
<1>2. PICK S \in [0..Len(paths) -> Nat] : Ledger(S)
  BY DEF PartsInv
<1>3. paths' = paths /\ asList' = asList /\ total' = total /\ next \in 1..Len(paths) /\ num' = num + 1
  BY DEF SendPart
<1> DEFINE size == paths[next]
<1>4. size \in Sizes /\ PartsToSend(size) \in Nat /\ part < PartsToSend(size)
  BY <1>1, <1>3, PathsInSizes, SomePart DEF AnswerShape
<1>5. Before(S) /\ Before(S)'
  BY <1>2, <1>3 DEF Ledger, Before, PartsToSend
<1>6. total = S[Len(paths)] /\ num = S[next - 1] + part + 1
  BY <1>2, <1>3 DEF Ledger, Counted
<1>7. next \in 0..Len(paths) /\ next - 1 \in 0..Len(paths) /\ S[next] \in Nat /\ S[next - 1] \in Nat
  BY <1>1, <1>3
<1>8. S[next] = S[next - 1] + PartsToSend(size)
  BY <1>3, <1>5 DEF Before
<1>9. \/ part + 1 < PartsToSend(size) /\ part' = part + 1 /\ next' = next
      \/ ~(part + 1 < PartsToSend(size)) /\ part' = 0 /\ next' = next + 1
  BY DEF SendPart
<1>10. AnswerShape'
  <2>1. CASE part + 1 < PartsToSend(size) /\ part' = part + 1 /\ next' = next
    BY <1>1, <1>3, <2>1 DEF AnswerShape, PartsToSend
  <2>2. CASE part' = 0 /\ next' = next + 1
    <3>1. next' \in 1..Len(paths) => paths[next'] \in Sizes
      BY <1>1, PathsInSizes
    <3>2. next' \in 1..Len(paths) => PartsToSend(paths[next']) \in Nat /\ PartsToSend(paths[next']) >= 1
      BY <1>1, <3>1, SomePart
    <3>3. next' \in 1..(Len(paths) + 1)
      BY <1>1, <1>3, <2>2
    <3> QED BY <1>1, <1>3, <2>2, <3>2, <3>3 DEF AnswerShape, PartsToSend
  <2> QED BY <1>9, <2>1, <2>2
<1>11. Counted(S)'
  <2>1. CASE part + 1 < PartsToSend(size) /\ part' = part + 1 /\ next' = next
    BY <1>1, <1>3, <1>6, <1>7, <2>1 DEF Counted
  <2>2. CASE ~(part + 1 < PartsToSend(size)) /\ part' = 0 /\ next' = next + 1
    <3>1. part + 1 = PartsToSend(size)
      BY <1>1, <1>4, <2>2
    <3>2. next' - 1 = next /\ next' > 0
      BY <1>3, <1>1, <2>2
    <3>3. num' = S[next] + 0 + 1
      BY <1>1, <1>3, <1>6, <1>7, <1>8, <3>1
    <3> QED BY <1>3, <1>6, <2>2, <3>2, <3>3 DEF Counted
  <2> QED BY <1>9, <2>1, <2>2
<1>12. \A m : InPlace(S, m) => InPlace(S, m)'
  BY <1>3 DEF InPlace, PartsToSend, Nodes
<1>13. InPlace(S, Message)
  BY <1>1, <1>3, <1>4, <1>6 DEF InPlace, Message
<1>14. got' \cup buffer' \subseteq got \cup buffer \cup {Message}
  BY DEF SendPart, Post
<1>15. Ledger(S)'
  BY <1>2, <1>5, <1>11, <1>12, <1>13, <1>14 DEF Ledger
<1> QED BY <1>3, <1>10, <1>15 DEF PartsInv

LEMMA PostListInv ==
  ASSUME PartsInv, PostList
  PROVE  PartsInv'
<1>1. AnswerShape /\ Len(paths) \in Nat
  BY PathsInSizes DEF PartsInv, AnswerShape
<1>2. PICK S \in [0..Len(paths) -> Nat] : Ledger(S)
  BY DEF PartsInv
<1>3. got' \cup buffer' \subseteq got \cup buffer /\ next = Len(paths) + 1
  BY DEF PostList
<1>4. AnswerShape'
  BY <1>1, <1>3 DEF AnswerShape, PostList, PartsToSend
<1>5. Before(S)' /\ Counted(S)' /\ \A m \in got \cup buffer : InPlace(S, m)'
  BY <1>2 DEF Ledger, Before, Counted, InPlace, PostList, PartsToSend, Nodes
<1>6. Ledger(S)'
  BY <1>3, <1>5 DEF Ledger
<1> QED BY <1>4, <1>6 DEF PartsInv, PostList

LEMMA PartsNextInv == PartsInv /\ [Next]_vars => PartsInv'
<1> SUFFICES ASSUME PartsInv, [Next]_vars PROVE PartsInv'
  OBVIOUS
<1>1. ASSUME NEW size \in Sizes, Collect(size) PROVE PartsInv'
  BY <1>1, CollectInv
<1>2. CASE StartSending
  BY <1>2, StartSendingInv
<1>3. CASE SendPart
  BY <1>3, SendPartInv
<1>4. CASE PostList
  BY <1>4, PostListInv
<1>5. CASE UNCHANGED vars
  BY <1>5 DEF vars, PartsInv, AnswerShape, Ledger, Before, Counted, InPlace, PartsToSend, Nodes
<1> QED BY <1>1, <1>2, <1>3, <1>4, <1>5 DEF Next

LEMMA PartsInvariant == Spec => []PartsInv
BY PartsInitInv, PartsNextInv, PTL DEF Spec

-----------------------------------------------------------------------------
(* The numbers of the messages run from one to the announced total, whatever  *)
(* the size of a part and the lengths of the paths, and whichever connections *)
(* fail (TcmReqServlet: nMsgTot against nMsgCount).                           *)
THEOREM NumberedCorrect == Spec => []Numbered
BY PartsInvariant, NumberedFromInv, PTL

(* No message is without a node, and a vehicle that holds as many messages as *)
(* were announced holds every path that fits one part, and all of a list.     *)
THEOREM CompleteCorrect == Spec => []Complete
BY PartsInvariant, CompleteFromInv, PTL
=============================================================================
