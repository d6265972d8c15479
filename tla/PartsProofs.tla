----------------------------- MODULE PartsProofs -----------------------------
(***************************************************************************)
(* What is proved of the parts that Parts composes; of the corridor and the *)
(* track in DrawingProofs.                                                  *)
(***************************************************************************)
EXTENDS Parts, DrawingProofs, FiniteSetTheorems, WellFoundedInduction, TLAPS

-----------------------------------------------------------------------------
(* IhpControl, for every number of corridors, every detector file, trigger    *)
(* and gap: the speeds a simulation issues are led down from the limit, after *)
(* enough runs, and change by no more than the gap from run to run.           *)

(* The corridors in memory are numbered from 1, and there is at least one.    *)
Numbers == \E n \in 1..MaxCorridors : Corridors = 1..n

(* A control issued in this simulation is the advisory speed of its corridor. *)
Advised ==
  \A c \in Corridors :
    ihpReduced[c] > 0 /\ ihpControl[c] # NoIhp => ihpControl[c] = ihpAdvisory[c]

(* The advisory speed of a simulation that knows the limit is led from it.    *)
AdvisoryLed ==
  \A c \in Corridors :
    ihpFrom[c] # NoIhp => ihpAdvisory[c] >= ihpFrom[c] - IhpGap * ihpReduced[c]

(* With one corridor m_nTriggers counts its runs in a row, as long as the     *)
(* simulation runs on the corridor it began with.                             *)
TriggersCount ==
  ihpTimer /\ ~ihpSwapped /\ Corridors = 1..1 => ihpTriggers = ihpInARow[1]

Enough ==
  Corridors = 1..1 /\ ~ihpSwapped =>
    (ihpControl[1] # NoIhp /\ ihpInARow[1] > 0 => ihpInARow[1] >= IhpTrigger)

IhpInv == IhpTypeOK /\ Numbers /\ Advised /\ AdvisoryLed /\ TriggersCount /\ Enough

-----------------------------------------------------------------------------
LEMMA PairBounds ==
  ASSUME NEW a \in Int, NEW b \in Int
  PROVE  /\ Min({a, b}) = (IF a <= b THEN a ELSE b)
         /\ Max({a, b}) = (IF a >= b THEN a ELSE b)
<1>1. Min({a, b}) = (IF a <= b THEN a ELSE b)
  <2> DEFINE m == IF a <= b THEN a ELSE b
  <2>1. m \in {a, b} /\ \A y \in {a, b} : m <= y
    OBVIOUS
  <2>2. \A x \in {a, b} : (\A y \in {a, b} : x <= y) => x = m
    OBVIOUS
  <2> HIDE DEF m
  <2>3. QED BY <2>1, <2>2 DEF Min, m
<1>2. Max({a, b}) = (IF a >= b THEN a ELSE b)
  <2> DEFINE m == IF a >= b THEN a ELSE b
  <2>1. m \in {a, b} /\ \A y \in {a, b} : m >= y
    OBVIOUS
  <2>2. \A x \in {a, b} : (\A y \in {a, b} : x >= y) => x = m
    OBVIOUS
  <2> HIDE DEF m
  <2>3. QED BY <2>1, <2>2 DEF Max, m
<1>3. QED BY <1>1, <1>2

(* Equation 8 stays within a gap of the speed before.                         *)
LEMMA GapBounds ==
  ASSUME NEW speed \in Int, NEW before \in Int
  PROVE  /\ WithinGap(speed, before) \in Int
         /\ WithinGap(speed, before) >= before - IhpGap
         /\ WithinGap(speed, before) <= before + IhpGap
<1>1. IhpGap \in Nat
  BY IhpAssumption
<1> DEFINE low == Min({speed, before + IhpGap})
<1>2. low \in Int /\ low <= before + IhpGap
  BY <1>1, PairBounds
<1>3. WithinGap(speed, before) = Max({low, before - IhpGap})
  BY DEF WithinGap
<1> HIDE DEF low
<1>4. before - IhpGap \in Int
  BY <1>1
<1>5. Max({low, before - IhpGap}) = (IF low >= before - IhpGap THEN low ELSE before - IhpGap)
  BY <1>2, <1>4, PairBounds
<1>6. QED
  BY <1>1, <1>2, <1>3, <1>5

(* The counter after c corridors is a number; with one corridor, it is one    *)
(* more after a slow run and none after another.                              *)
LEMMA CountedBounds ==
  ASSUME NEW c \in Nat, ihpTriggers \in Nat
  PROVE  /\ Counted(c) \in Nat
         /\ c = 1 => Counted(c) = (IF Reduced(1) THEN ihpTriggers + 1 ELSE 0)
<1> DEFINE last == {d \in 1..c : \A e \in d..c : Reduced(e)}
<1>1. Cardinality(last) \in Nat
  <2>1. IsFiniteSet(1..c)
    BY FS_Interval
  <2>2. last \subseteq 1..c
    OBVIOUS
  <2> HIDE DEF last
  <2>3. QED BY <2>1, <2>2, FS_Subset, FS_CardinalityType
<1>2. CASE c = 1
  <2>1. CASE Reduced(1)
    <3>1. \A d \in 1..c : Reduced(d)
      BY <1>2, <2>1
    <3>2. last = {1}
      BY <1>2, <2>1
    <3>3. Cardinality({1}) = 1
      BY FS_Singleton
    <3>4. QED BY <1>2, <2>1, <3>1, <3>2, <3>3 DEF Counted
  <2>2. CASE ~Reduced(1)
    <3>1. ~\A d \in 1..c : Reduced(d)
      BY <1>2, <2>2
    <3>2. last = {}
      BY <1>2, <2>2
    <3>3. Cardinality({}) = 0
      BY FS_EmptySet
    <3>4. QED BY <1>2, <2>2, <3>1, <3>2, <3>3 DEF Counted
  <2>3. QED BY <2>1, <2>2
<1>3. CASE c # 1
  BY <1>1, <1>3 DEF Counted
<1>4. QED BY <1>2, <1>3

LEMMA HowMany ==
  ASSUME NEW n \in Nat
  PROVE  Cardinality(1..n) = n
<1>1. QED BY FS_Interval

-----------------------------------------------------------------------------
LEMMA IhpInitial == IhpInit => IhpInv
<1> SUFFICES ASSUME NEW n \in 1..MaxCorridors, NEW file \in Files(n), IhpBegin(n, file)
             PROVE  IhpInv
  BY DEF IhpInit
<1> USE IhpAssumption
<1>1. n \in Nat /\ Corridors = 1..n
  BY DEF IhpBegin, Corridors, Each
<1>2. /\ ihpMax = Each(n, 0) /\ ihpAdvisory = Each(n, 0) /\ ihpControl = Each(n, NoIhp)
      /\ ihpInARow = Each(n, 0) /\ ihpReduced = Each(n, 0) /\ ihpFrom = Each(n, NoIhp)
  BY DEF IhpBegin
<1>3. IhpTypeOK
  <2>1. ihpTimer \in BOOLEAN /\ ihpTriggers \in Nat /\ ihpInMemory \in BOOLEAN
        /\ ihpSwapped \in BOOLEAN /\ ihpSteps \in 0..MaxRuns
    <3>1. ihpTimer = FALSE /\ ihpInMemory = FALSE /\ ihpSwapped = FALSE
      BY DEF IhpBegin
    <3>2. ihpTriggers = 0 /\ ihpSteps = 0
      BY DEF IhpBegin
    <3>3. ihpTimer \in BOOLEAN /\ ihpInMemory \in BOOLEAN /\ ihpSwapped \in BOOLEAN
      BY <3>1, Zenon
    <3>4. ihpTriggers \in Nat /\ ihpSteps \in 0..MaxRuns
      BY <3>2
    <3>5. QED BY <3>3, <3>4
  <2>2. \E k \in 1..MaxCorridors : ihpFile \in Files(k)
    BY DEF IhpBegin
  <2>3. ihpMax \in [1..n -> Nat \cup {LowestInt}] /\ ihpAdvisory \in [1..n -> Int]
        /\ ihpInARow \in [1..n -> Nat] /\ ihpReduced \in [1..n -> Nat]
    BY <1>1, <1>2 DEF Each
  <2>4. ihpControl \in [1..n -> Int \cup {NoIhp}] /\ ihpFrom \in [1..n -> Nat \cup {NoIhp}]
    BY <1>1, <1>2 DEF Each
  <2>5. QED BY <1>1, <2>1, <2>2, <2>3, <2>4 DEF IhpTypeOK
<1>4. \A c \in 1..n : ihpControl[c] = NoIhp /\ ihpFrom[c] = NoIhp
  BY <1>1, <1>2 DEF Each
<1>5. ihpTimer = FALSE
  BY DEF IhpBegin
<1>6. Enough
  <2>1. Corridors = 1..1 => ihpControl[1] = NoIhp
    BY <1>1, <1>4
  <2>2. QED BY <2>1 DEF Enough
<1>7. QED
  BY <1>1, <1>3, <1>4, <1>5, <1>6 DEF IhpInv, Numbers, Advised, AdvisoryLed, TriggersCount

(* What is read anew has no history: a simulation still running is marked.    *)
LEMMA ReadAnew ==
  ASSUME NEW n \in 1..MaxCorridors, ReadCorridors(n),
         ihpTimer' \in BOOLEAN, ihpTriggers' \in Nat, ihpInMemory' \in BOOLEAN,
         \E k \in 1..MaxCorridors : ihpFile' \in Files(k),
         ihpSteps' \in 0..MaxRuns, ihpSwapped' \in BOOLEAN, ihpTimer' => ihpSwapped'
  PROVE  IhpInv'
<1> USE IhpAssumption
<1>1. n \in Nat /\ Corridors' = 1..n
  BY DEF ReadCorridors, Corridors, Each
<1>2. /\ ihpMax' = Each(n, 0) /\ ihpAdvisory' = Each(n, 0) /\ ihpControl' = Each(n, NoIhp)
      /\ ihpInARow' = Each(n, 0) /\ ihpReduced' = Each(n, 0) /\ ihpFrom' = Each(n, NoIhp)
  BY DEF ReadCorridors
<1>3. IhpTypeOK'
  <2>1. ihpMax' \in [1..n -> Nat \cup {LowestInt}] /\ ihpAdvisory' \in [1..n -> Int]
        /\ ihpInARow' \in [1..n -> Nat] /\ ihpReduced' \in [1..n -> Nat]
    BY <1>1, <1>2 DEF Each
  <2>2. ihpControl' \in [1..n -> Int \cup {NoIhp}] /\ ihpFrom' \in [1..n -> Nat \cup {NoIhp}]
    BY <1>1, <1>2 DEF Each
  <2>3. (\E k \in 1..MaxCorridors : ihpFile \in Files(k))'
    BY DEF Files
  <2>4. QED BY <1>1, <2>1, <2>2, <2>3 DEF IhpTypeOK
<1>4. \A c \in 1..n : ihpControl'[c] = NoIhp /\ ihpFrom'[c] = NoIhp
  BY <1>1, <1>2 DEF Each
<1>5. Enough'
  <2>1. Corridors' = 1..1 => ihpControl'[1] = NoIhp
    BY <1>1, <1>4
  <2>2. QED BY <2>1 DEF Enough
<1>6. QED
  BY <1>1, <1>3, <1>4, <1>5 DEF IhpInv, Numbers, Advised, AdvisoryLed, TriggersCount

LEMMA RestartKeeps == IhpInv /\ IhpRestart => IhpInv'
<1> SUFFICES ASSUME IhpInv, IhpRestart PROVE IhpInv'
  OBVIOUS
<1>1. PICK n \in 1..MaxCorridors : Corridors = 1..n
  BY DEF IhpInv, Numbers
<1>2. Cardinality(Corridors) = n
  BY <1>1, HowMany, IhpAssumption
<1>3. ReadCorridors(n)
  BY <1>2 DEF IhpRestart
<1>4. ihpSteps' \in 0..MaxRuns
  BY IhpAssumption DEF IhpRestart, IhpStep, IhpInv, IhpTypeOK
<1>5. \E k \in 1..MaxCorridors : ihpFile' \in Files(k)
  BY DEF IhpRestart, IhpInv, IhpTypeOK
<1>6. ihpTimer' = FALSE /\ ihpTriggers' = 0 /\ ihpInMemory' = FALSE /\ ihpSwapped' = FALSE
  BY DEF IhpRestart
<1>7. QED BY <1>3, <1>4, <1>5, <1>6, ReadAnew

LEMMA SaveGeoKeeps == IhpInv /\ SaveGeo => IhpInv'
<1> SUFFICES ASSUME IhpInv, SaveGeo PROVE IhpInv'
  OBVIOUS
<1>1. 1 \in 1..MaxCorridors
  BY IhpAssumption DEF IhpInv, IhpTypeOK
<1>2. ReadCorridors(1) /\ ihpSwapped' = ihpTimer
  BY DEF SaveGeo
<1>3. ihpTimer' = ihpTimer /\ ihpTriggers' \in Nat /\ ihpInMemory' \in BOOLEAN /\ ihpTimer \in BOOLEAN
  BY DEF SaveGeo, IhpInv, IhpTypeOK
<1>4. ihpSteps' \in 0..MaxRuns
  BY IhpAssumption DEF SaveGeo, IhpStep, IhpInv, IhpTypeOK
<1>5. \E k \in 1..MaxCorridors : ihpFile' \in Files(k)
  BY <1>1 DEF SaveGeo, Files
<1>6. QED BY <1>1, <1>2, <1>3, <1>4, <1>5, ReadAnew

LEMMA LimitsType ==
  ASSUME NEW n \in Nat, Corridors = 1..n, NEW before \in [1..n -> Nat \cup {LowestInt}],
         NEW k \in Nat, NEW file \in Files(k)
  PROVE  Limits(file, before) \in [1..n -> Nat \cup {LowestInt}]
<1>1. CASE file = NoIhp
  BY <1>1 DEF Limits
<1>2. CASE file # NoIhp
  <2>1. file \in [1..k -> IhpData]
    BY <1>2 DEF Files
  <2>2. \A c \in 1..n : c \in DOMAIN file => file[c].limit \in Nat
    BY <2>1, IhpAssumption
  <2>3. QED BY <1>2, <2>2 DEF Limits
<1>3. QED BY <1>1, <1>2

(* The detectors change no speed that is issued.                              *)
LEMMA UpdateDetectorsKeeps ==
  ASSUME IhpInv, NEW file \in [1..1 -> IhpData], UpdateDetectors(file)
  PROVE  IhpInv'
<1>1. PICK n \in 1..MaxCorridors : Corridors = 1..n
  BY DEF IhpInv, Numbers
<1>2. n \in Nat /\ 1 \in 1..MaxCorridors /\ file \in Files(1)
  BY IhpAssumption DEF Files
<1>3. IhpTypeOK
  BY DEF IhpInv
<1>4. ihpMax' \in [1..n -> Nat \cup {LowestInt}]
  <2>1. ihpMax \in [1..n -> Nat \cup {LowestInt}]
    BY <1>1, <1>3 DEF IhpTypeOK
  <2>2. ihpMax' = Limits(file, ihpMax)
    BY DEF UpdateDetectors
  <2>3. QED BY <1>1, <1>2, <2>1, <2>2, LimitsType
<1>5. Corridors' = 1..n
  BY <1>4 DEF Corridors
<1>6. /\ ihpTimer' = ihpTimer /\ ihpTriggers' = ihpTriggers /\ ihpAdvisory' = ihpAdvisory
      /\ ihpControl' = ihpControl /\ ihpInARow' = ihpInARow /\ ihpReduced' = ihpReduced
      /\ ihpFrom' = ihpFrom /\ ihpSwapped' = ihpSwapped
  BY DEF UpdateDetectors, ihpPast
<1>7. IhpTypeOK'
  <2>1. (\E k \in 1..MaxCorridors : ihpFile \in Files(k))'
    BY <1>2 DEF UpdateDetectors, Files
  <2>2. ihpInMemory' \in BOOLEAN
    BY DEF UpdateDetectors
  <2>3. ihpSteps' \in 0..MaxRuns
    BY <1>3, IhpAssumption DEF IhpTypeOK, UpdateDetectors, IhpStep
  <2>4. QED BY <1>1, <1>3, <1>4, <1>5, <1>6, <2>1, <2>2, <2>3 DEF IhpTypeOK
<1>8. QED
  BY <1>1, <1>5, <1>6, <1>7 DEF IhpInv, Numbers, Advised, AdvisoryLed, TriggersCount, Enough

(* A simulation starts from the limits and counts from nothing.               *)
LEMMA StartSimKeeps ==
  ASSUME IhpInv, StartSim
  PROVE  IhpInv'
<1>1. PICK n \in 1..MaxCorridors : Corridors = 1..n
  BY DEF IhpInv, Numbers
<1>2. IhpTypeOK /\ n \in Nat
  BY IhpAssumption DEF IhpInv
<1>3. ihpMax' = ihpMax /\ ihpControl' = ihpControl /\ ihpFile' = ihpFile /\ ihpInMemory' = ihpInMemory
  BY DEF StartSim, ihpData
<1>4. Corridors' = 1..n
  BY <1>1, <1>3 DEF Corridors
<1>5. ihpTriggers' = 0 /\ ihpAdvisory' = ihpMax
  BY DEF StartSim, FromScratch
<1>6. ihpInARow' = [c \in 1..n |-> 0] /\ ihpReduced' = [c \in 1..n |-> 0]
  BY <1>1 DEF StartSim
<1>7. /\ ihpFrom' \in [1..n -> Nat \cup {NoIhp}]
      /\ \A c \in 1..n : ihpFrom'[c] # NoIhp => ihpFrom'[c] = ihpMax[c] /\ ihpFrom'[c] \in Nat
  <2> DEFINE Known(c) == ihpMax[c] = ihpFile[c].limit
             From(c) == IF ihpFile = NoIhp \/ TooShort(ihpFile) THEN NoIhp
                        ELSE IF Known(c) THEN ihpMax[c] ELSE NoIhp
  <2>1. ihpFrom' = [c \in 1..n |-> From(c)]
    BY <1>1 DEF StartSim
  <2>2. ASSUME NEW c \in 1..n
        PROVE  From(c) = NoIhp \/ (From(c) = ihpMax[c] /\ From(c) \in Nat)
    <3>1. CASE ihpFile = NoIhp \/ TooShort(ihpFile)
      BY <3>1
    <3>2. CASE ~(ihpFile = NoIhp \/ TooShort(ihpFile))
      <4>1. ihpFile \in [1..n -> IhpData]
        BY <1>1, <1>2, <3>2 DEF IhpTypeOK, Files, TooShort
      <4>2. ihpFile[c].limit \in Nat
        BY <4>1, IhpAssumption
      <4>3. QED BY <3>2, <4>2
    <3>3. QED BY <3>1, <3>2
  <2> HIDE DEF From
  <2>3. QED BY <2>1, <2>2
<1>8. IhpTypeOK'
  <2>1. ihpAdvisory' \in [1..n -> Int] /\ ihpMax' \in [1..n -> Nat \cup {LowestInt}]
    BY <1>1, <1>2, <1>3, <1>5, IhpAssumption DEF IhpTypeOK
  <2>2. ihpControl' \in [1..n -> Int \cup {NoIhp}]
    BY <1>1, <1>2, <1>3 DEF IhpTypeOK
  <2>3. ihpInARow' \in [1..n -> Nat] /\ ihpReduced' \in [1..n -> Nat] /\ ihpTriggers' \in Nat
    BY <1>5, <1>6
  <2>4. ihpSteps' \in 0..MaxRuns
    BY <1>2, IhpAssumption DEF IhpTypeOK, StartSim, IhpStep
  <2>5. ihpTimer' \in BOOLEAN /\ ihpSwapped' \in BOOLEAN /\ ihpInMemory' \in BOOLEAN
    BY <1>2, <1>3, Zenon DEF IhpTypeOK, StartSim
  <2>6. (\E k \in 1..MaxCorridors : ihpFile \in Files(k))'
    BY <1>2, <1>3 DEF IhpTypeOK, Files
  <2>7. QED BY <1>4, <1>7, <2>1, <2>2, <2>3, <2>4, <2>5, <2>6 DEF IhpTypeOK
<1>9. AdvisoryLed'
  <2> SUFFICES ASSUME NEW c \in 1..n, ihpFrom'[c] # NoIhp
               PROVE  ihpAdvisory'[c] >= ihpFrom'[c] - IhpGap * ihpReduced'[c]
    BY <1>4 DEF AdvisoryLed
  <2>1. ihpReduced'[c] = 0 /\ ihpAdvisory'[c] = ihpFrom'[c] /\ ihpFrom'[c] \in Nat
    BY <1>5, <1>6, <1>7
  <2>2. IhpGap * 0 = 0
    BY IhpAssumption
  <2>3. QED BY <2>1, <2>2
<1>10. QED
  BY <1>4, <1>5, <1>6, <1>8, <1>9 DEF IhpInv, Numbers, Advised, TriggersCount, Enough

LEMMA StopSimKeeps == IhpInv /\ StopSim => IhpInv'
<1> SUFFICES ASSUME IhpInv, StopSim PROVE IhpInv'
  OBVIOUS
<1>1. /\ ihpTimer' = FALSE /\ UNCHANGED <<ihpTriggers, ihpFile, ihpInMemory, ihpSteps>>
      /\ UNCHANGED <<ihpMax, ihpAdvisory, ihpControl, ihpInARow, ihpReduced, ihpFrom, ihpSwapped>>
  BY DEF StopSim, ihpData, ihpSpeeds, ihpPast
<1>2. Corridors' = Corridors
  BY <1>1 DEF Corridors
<1>3. IhpTypeOK'
  <2>1. ihpTimer' \in BOOLEAN
    BY <1>1, Zenon
  <2>2. QED BY <1>1, <1>2, <2>1 DEF IhpInv, IhpTypeOK, Files
<1>4. QED
  BY <1>1, <1>2, <1>3 DEF IhpInv, Numbers, Advised, AdvisoryLed, TriggersCount, Enough

-----------------------------------------------------------------------------
(* What every run does, whether it comes to speeds or not.                    *)
LEMMA ResetKeeps ==
  ASSUME IhpInv, Reset, NEW n \in Nat, Corridors = 1..n
  PROVE  /\ Corridors' = 1..n /\ ihpMax' \in [1..n -> Nat \cup {LowestInt}]
         /\ ihpTimer /\ ihpTimer' = ihpTimer /\ ihpFrom' = ihpFrom /\ ihpSwapped' = ihpSwapped
         /\ ihpInMemory' \in BOOLEAN /\ ihpSteps' \in 0..MaxRuns
         /\ (\E k \in 1..MaxCorridors : ihpFile \in Files(k))'
<1>1. IhpTypeOK
  BY DEF IhpInv
<1>2. ihpMax' \in [1..n -> Nat \cup {LowestInt}]
  <2>1. PICK k \in 1..MaxCorridors : ihpFile \in Files(k)
    BY <1>1 DEF IhpTypeOK
  <2>2. k \in Nat
    BY IhpAssumption
  <2>3. [c \in Corridors |-> LowestInt] \in [1..n -> Nat \cup {LowestInt}]
    OBVIOUS
  <2>4. ihpMax' = Limits(ihpFile, [c \in Corridors |-> LowestInt])
    BY DEF Reset
  <2>5. QED BY <2>1, <2>2, <2>3, <2>4, LimitsType
<1>3. Corridors' = 1..n
  BY <1>2 DEF Corridors
<1>4. ihpInMemory' \in BOOLEAN
  BY Zenon DEF Reset
<1>5. ihpSteps' \in 0..MaxRuns
  BY <1>1, IhpAssumption DEF IhpTypeOK, Reset, IhpStep
<1>6. (\E k \in 1..MaxCorridors : ihpFile \in Files(k))'
  BY <1>1 DEF IhpTypeOK, Reset, Files
<1>7. QED
  BY <1>2, <1>3, <1>4, <1>5, <1>6 DEF Reset

(* A run that fails issues nothing and counts nothing.                        *)
LEMMA ExecuteFailsKeeps == IhpInv /\ ExecuteFails => IhpInv'
<1> SUFFICES ASSUME IhpInv, ExecuteFails PROVE IhpInv'
  OBVIOUS
<1>1. PICK n \in 1..MaxCorridors : Corridors = 1..n
  BY DEF IhpInv, Numbers
<1>2. IhpTypeOK /\ n \in Nat /\ Reset
  BY IhpAssumption DEF IhpInv, ExecuteFails
<1>3. /\ Corridors' = 1..n /\ ihpMax' \in [1..n -> Nat \cup {LowestInt}]
      /\ ihpTimer /\ ihpTimer' = ihpTimer /\ ihpFrom' = ihpFrom /\ ihpSwapped' = ihpSwapped
      /\ ihpInMemory' \in BOOLEAN /\ ihpSteps' \in 0..MaxRuns
      /\ (\E k \in 1..MaxCorridors : ihpFile \in Files(k))'
  BY <1>1, <1>2, ResetKeeps
<1>4. /\ ihpTriggers' = ihpTriggers /\ ihpAdvisory' = ihpAdvisory
      /\ ihpInARow' = ihpInARow /\ ihpReduced' = ihpReduced
      /\ ihpControl' = [c \in 1..n |-> NoIhp]
  BY <1>1 DEF ExecuteFails
<1>5. IhpTypeOK'
  BY <1>1, <1>2, <1>3, <1>4 DEF IhpTypeOK
<1>6. \A c \in 1..n : ihpControl'[c] = NoIhp
  BY <1>4
<1>7. Enough'
  <2>1. Corridors' = 1..1 => ihpControl'[1] = NoIhp
    BY <1>3, <1>6
  <2>2. QED BY <2>1 DEF Enough
<1>8. QED
  BY <1>1, <1>3, <1>4, <1>5, <1>6, <1>7
     DEF IhpInv, Numbers, Advised, AdvisoryLed, TriggersCount

(* What a run that comes to speeds makes of each corridor.                    *)
LEMMA ExecuteSpeeds ==
  ASSUME IhpInv, Execute, NEW n \in Nat, Corridors = 1..n, NEW c \in 1..n
  PROVE  /\ ihpAdvisory[c] \in Int /\ ihpAdvisory'[c] \in Int
         /\ ihpAdvisory'[c] >= ihpAdvisory[c] - IhpGap
         /\ ihpAdvisory'[c] <= ihpAdvisory[c] + IhpGap
         /\ ~Reduced(c) => ihpAdvisory'[c] = ihpAdvisory[c]
         /\ ihpControl'[c] # NoIhp => ihpControl'[c] = ihpAdvisory'[c]
<1>1. IhpTypeOK /\ IhpGap \in Nat
  BY IhpAssumption DEF IhpInv
<1>2. ihpAdvisory[c] \in Int
  BY <1>1 DEF IhpTypeOK
<1>3. ihpAdvisory'[c] = IF Reduced(c) THEN WithinGap(ihpFile[c].target, ihpAdvisory[c])
                                      ELSE ihpAdvisory[c]
  BY DEF Execute
<1>4. ihpControl'[c] # NoIhp => ihpControl'[c] = ihpAdvisory'[c]
  BY DEF Execute
<1>5. CASE Reduced(c)
  <2>1. ihpFile \in [1..n -> IhpData]
    BY <1>1, <1>5 DEF IhpTypeOK, Files, Reduced, Execute, TooShort
  <2>2. ihpFile[c].target \in Int
    BY <2>1, IhpAssumption
  <2>3. QED BY <1>2, <1>3, <1>4, <1>5, <2>2, GapBounds
<1>6. CASE ~Reduced(c)
  BY <1>1, <1>2, <1>3, <1>4, <1>6
<1>7. QED BY <1>5, <1>6

LEMMA ExecuteKeeps == IhpInv /\ Execute => IhpInv'
<1> SUFFICES ASSUME IhpInv, Execute PROVE IhpInv'
  OBVIOUS
<1>1. PICK n \in 1..MaxCorridors : Corridors = 1..n
  BY DEF IhpInv, Numbers
<1>2. IhpTypeOK /\ n \in Nat /\ Reset /\ IhpGap \in Nat
  BY IhpAssumption DEF IhpInv, Execute
<1>3. /\ Corridors' = 1..n /\ ihpMax' \in [1..n -> Nat \cup {LowestInt}]
      /\ ihpTimer /\ ihpTimer' = ihpTimer /\ ihpFrom' = ihpFrom /\ ihpSwapped' = ihpSwapped
      /\ ihpInMemory' \in BOOLEAN /\ ihpSteps' \in 0..MaxRuns
      /\ (\E k \in 1..MaxCorridors : ihpFile \in Files(k))'
  BY <1>1, <1>2, ResetKeeps
<1>4. Cardinality(Corridors) = n
  BY <1>1, <1>2, HowMany
<1>5. ihpTriggers' = Counted(n) /\ Counted(n) \in Nat /\ ihpTriggers \in Nat
  BY <1>2, <1>4, CountedBounds DEF Execute, IhpTypeOK
<1>6. ihpInARow' \in [1..n -> Nat]
      /\ \A c \in 1..n : ihpInARow'[c] = IF Reduced(c) THEN ihpInARow[c] + 1 ELSE 0
  BY <1>1, <1>2 DEF Execute, IhpTypeOK
<1>7. /\ ihpReduced' \in [1..n -> Nat]
      /\ \A c \in 1..n : /\ ihpReduced[c] \in Nat
                         /\ ihpReduced'[c] = ihpReduced[c] + (IF Reduced(c) THEN 1 ELSE 0)
  BY <1>1, <1>2 DEF Execute, IhpTypeOK
<1>8. /\ ihpAdvisory' \in [1..n -> Int]
      /\ ihpControl' \in [1..n -> Int \cup {NoIhp}]
  <2>1. \A c \in 1..n : /\ ihpAdvisory'[c] \in Int
                        /\ ihpControl'[c] # NoIhp => ihpControl'[c] = ihpAdvisory'[c]
    BY <1>1, <1>2, ExecuteSpeeds
  <2>2. DOMAIN ihpAdvisory' = 1..n /\ DOMAIN ihpControl' = 1..n
    BY <1>1 DEF Execute
  <2>3. ihpAdvisory' = [c \in 1..n |-> ihpAdvisory'[c]] /\ ihpControl' = [c \in 1..n |-> ihpControl'[c]]
    BY <1>1, <2>2 DEF Execute
  <2>4. QED BY <2>1, <2>3
<1>9. IhpTypeOK'
  BY <1>1, <1>2, <1>3, <1>5, <1>6, <1>7, <1>8 DEF IhpTypeOK
<1>10. Advised'
  BY <1>1, <1>2, <1>3, ExecuteSpeeds DEF Advised
<1>11. AdvisoryLed'
  <2> SUFFICES ASSUME NEW c \in 1..n, ihpFrom[c] # NoIhp
               PROVE  ihpAdvisory'[c] >= ihpFrom[c] - IhpGap * ihpReduced'[c]
    BY <1>3 DEF AdvisoryLed
  <2>1. ihpFrom[c] \in Nat /\ ihpReduced[c] \in Nat
    BY <1>1, <1>2, <1>7 DEF IhpTypeOK
  <2>2. ihpAdvisory[c] >= ihpFrom[c] - IhpGap * ihpReduced[c]
    BY <1>1 DEF IhpInv, AdvisoryLed
  <2>3. /\ ihpAdvisory[c] \in Int /\ ihpAdvisory'[c] \in Int
        /\ ihpAdvisory'[c] >= ihpAdvisory[c] - IhpGap
        /\ ~Reduced(c) => ihpAdvisory'[c] = ihpAdvisory[c]
    BY <1>1, <1>2, ExecuteSpeeds
  <2>4. \A r \in Nat : IhpGap * r \in Nat /\ IhpGap * (r + 1) = IhpGap * r + IhpGap
    BY <1>2
  <2>5. CASE Reduced(c)
    <3>1. ihpReduced'[c] = ihpReduced[c] + 1
      BY <1>7, <2>5
    <3>2. IhpGap * ihpReduced'[c] = IhpGap * ihpReduced[c] + IhpGap /\ IhpGap * ihpReduced[c] \in Nat
      BY <2>1, <2>4, <3>1
    <3>3. QED BY <1>2, <2>1, <2>2, <2>3, <3>2
  <2>6. CASE ~Reduced(c)
    <3>1. ihpReduced'[c] = ihpReduced[c]
      BY <1>7, <2>1, <2>6
    <3>2. QED BY <2>2, <2>3, <2>6, <3>1
  <2>7. QED BY <2>5, <2>6
<1>12. TriggersCount'
  <2> SUFFICES ASSUME ~ihpSwapped, n = 1
               PROVE  ihpTriggers' = ihpInARow'[1]
    BY <1>2, <1>3 DEF TriggersCount
  <2>1. ihpTriggers = ihpInARow[1]
    BY <1>1, <1>3 DEF IhpInv, TriggersCount
  <2>2. QED BY <1>2, <1>5, <1>6, <2>1, CountedBounds
<1>13. Enough'
  <2> SUFFICES ASSUME n = 1, ~ihpSwapped, ihpControl'[1] # NoIhp
               PROVE  ihpInARow'[1] >= IhpTrigger
    <3>1. 1..n = 1..1 => n = 1
      BY <1>2
    <3>2. Corridors' = 1..1 => n = 1
      BY <1>3, <3>1
    <3>3. ihpSwapped' = ihpSwapped
      BY <1>3
    <3>4. QED BY <3>2, <3>3 DEF Enough
  <2>1. Reduced(1) /\ Counted(1) >= IhpTrigger
    BY <1>1 DEF Execute
  <2>2. ihpTriggers = ihpInARow[1]
    BY <1>1, <1>3 DEF IhpInv, TriggersCount
  <2>3. QED BY <1>5, <1>6, <2>1, <2>2, CountedBounds
<1>14. QED
  BY <1>1, <1>3, <1>9, <1>10, <1>11, <1>12, <1>13 DEF IhpInv, Numbers

-----------------------------------------------------------------------------
LEMMA StutterKeeps == IhpInv /\ UNCHANGED ihpVars => IhpInv'
<1> SUFFICES ASSUME IhpInv, UNCHANGED ihpVars PROVE IhpInv'
  OBVIOUS
<1>1. /\ UNCHANGED <<ihpTimer, ihpTriggers, ihpFile, ihpInMemory, ihpSteps, ihpSwapped>>
      /\ UNCHANGED <<ihpMax, ihpAdvisory, ihpControl, ihpInARow, ihpReduced, ihpFrom>>
  BY DEF ihpVars, ihpData, ihpSpeeds, ihpPast
<1>2. Corridors' = Corridors
  BY <1>1 DEF Corridors
<1>3. IhpTypeOK'
  BY <1>1, <1>2 DEF IhpInv, IhpTypeOK, Files
<1>4. QED
  BY <1>1, <1>2, <1>3 DEF IhpInv, Numbers, Advised, AdvisoryLed, TriggersCount, Enough

LEMMA IhpStepKeeps == IhpInv /\ [IhpNext]_ihpVars => IhpInv'
<1> SUFFICES ASSUME IhpInv, [IhpNext]_ihpVars PROVE IhpInv'
  OBVIOUS
<1>1. CASE IhpRestart
  BY <1>1, RestartKeeps
<1>2. CASE SaveGeo
  BY <1>2, SaveGeoKeeps
<1>3. ASSUME NEW file \in [1..1 -> IhpData], UpdateDetectors(file) PROVE IhpInv'
  BY <1>3, UpdateDetectorsKeeps
<1>4. CASE StartSim
  BY <1>4, StartSimKeeps
<1>5. CASE StopSim
  BY <1>5, StopSimKeeps
<1>6. CASE ExecuteFails
  BY <1>6, ExecuteFailsKeeps
<1>7. CASE Execute
  BY <1>7, ExecuteKeeps
<1>8. CASE UNCHANGED ihpVars
  BY <1>8, StutterKeeps
<1>9. QED
  BY <1>1, <1>2, <1>3, <1>4, <1>5, <1>6, <1>7, <1>8 DEF IhpNext

(* The invariant, in every behaviour of the service.                          *)
THEOREM IhpInvariant == IhpSpec => []IhpInv
<1>1. QED BY IhpInitial, IhpStepKeeps, PTL DEF IhpSpec

(* The invariant gives what a control promises: of Enough the trigger, of     *)
(* Advised and AdvisoryLed the way down from the limit.                       *)
LEMMA InvLeads == IhpInv => ControlsLead
<1> SUFFICES ASSUME IhpInv PROVE ControlsLead
  OBVIOUS
<1>1. PICK n \in 1..MaxCorridors : Corridors = 1..n
  BY DEF IhpInv, Numbers
<1>2. n \in Nat
  BY IhpAssumption
<1>3. IssuedAfterTrigger
  <2> SUFFICES ASSUME Cardinality(Corridors) = 1, ~ihpSwapped
               PROVE  \A c \in Corridors :
                        (ihpControl[c] # NoIhp /\ ihpInARow[c] > 0) => ihpInARow[c] >= IhpTrigger
    BY DEF IssuedAfterTrigger
  <2>1. n = 1
    BY <1>1, <1>2, HowMany
  <2>2. Corridors = 1..1
    BY <1>1, <2>1
  <2>3. ihpControl[1] # NoIhp /\ ihpInARow[1] > 0 => ihpInARow[1] >= IhpTrigger
    BY <2>2 DEF IhpInv, Enough
  <2>4. QED BY <2>2, <2>3
<1>4. LedFromLimit
  BY DEF IhpInv, LedFromLimit, Advised, AdvisoryLed
<1>5. QED BY <1>3, <1>4 DEF ControlsLead

(* A speed control is issued only after enough runs in a row, and leads down  *)
(* from the limit by no more than a gap for each run (IHP.java, the trigger   *)
(* count and equation 8).                                                     *)
THEOREM ControlsLeadCorrect == IhpSpec => []ControlsLead
<1>1. QED BY IhpInvariant, InvLeads, PTL

(* One step of a simulation, from a control to the next.                      *)
LEMMA SmoothStep ==
  ASSUME IhpInv, [IhpNext]_ihpVars, ihpTimer,
         NEW c \in Corridors \cap DOMAIN ihpControl',
         ihpReduced[c] > 0, ihpControl[c] # NoIhp, ihpControl'[c] # NoIhp
  PROVE  ihpControl'[c] - ihpControl[c] \in -IhpGap..IhpGap
<1>1. PICK n \in 1..MaxCorridors : Corridors = 1..n
  BY DEF IhpInv, Numbers
<1>2. n \in Nat /\ IhpGap \in Nat /\ c \in 1..n
  BY <1>1, IhpAssumption
<1>3. ihpControl[c] \in Int
  BY DEF IhpInv, IhpTypeOK
<1>4. ASSUME ihpControl' = ihpControl
      PROVE  ihpControl'[c] - ihpControl[c] \in -IhpGap..IhpGap
  BY <1>2, <1>3, <1>4
<1>5. ASSUME NEW k \in Nat, ReadCorridors(k) PROVE FALSE
  <2>1. ihpControl' = Each(k, NoIhp)
    BY <1>5 DEF ReadCorridors
  <2>2. DOMAIN ihpControl' = 1..k /\ \A d \in 1..k : ihpControl'[d] = NoIhp
    BY <2>1 DEF Each
  <2>3. QED BY <2>2
<1>6. CASE IhpRestart
  <2>1. ReadCorridors(n)
    BY <1>1, <1>2, <1>6, HowMany DEF IhpRestart
  <2>2. QED BY <1>2, <1>5, <2>1
<1>7. CASE SaveGeo
  BY <1>5, <1>7 DEF SaveGeo
<1>8. ASSUME NEW file \in [1..1 -> IhpData], UpdateDetectors(file)
      PROVE  ihpControl' = ihpControl
  BY <1>8 DEF UpdateDetectors
<1>9. CASE StartSim
  BY <1>9 DEF StartSim
<1>10. CASE StopSim
  BY <1>4, <1>10 DEF StopSim, ihpSpeeds
<1>11. CASE ExecuteFails
  BY <1>11 DEF ExecuteFails
<1>12. CASE Execute
  <2>1. ihpControl[c] = ihpAdvisory[c]
    BY DEF IhpInv, Advised
  <2>2. /\ ihpAdvisory[c] \in Int /\ ihpAdvisory'[c] \in Int
        /\ ihpAdvisory'[c] >= ihpAdvisory[c] - IhpGap
        /\ ihpAdvisory'[c] <= ihpAdvisory[c] + IhpGap
        /\ ihpControl'[c] # NoIhp => ihpControl'[c] = ihpAdvisory'[c]
    BY <1>1, <1>2, <1>12, ExecuteSpeeds
  <2>3. QED BY <1>2, <2>1, <2>2
<1>13. CASE UNCHANGED ihpVars
  BY <1>4, <1>13 DEF ihpVars, ihpSpeeds
<1>14. QED
  BY <1>4, <1>6, <1>7, <1>8, <1>9, <1>10, <1>11, <1>12, <1>13 DEF IhpNext

(* Two controls in a row of one simulation differ by no more than the gap     *)
(* (equation 8), whatever is uploaded between them.                           *)
THEOREM SmoothCorrect == IhpSpec => SmoothControls
<1> DEFINE Smooth ==
      ihpTimer => \A c \in Corridors \cap DOMAIN ihpControl' :
        (ihpReduced[c] > 0 /\ ihpControl[c] # NoIhp /\ ihpControl'[c] # NoIhp) =>
          ihpControl'[c] - ihpControl[c] \in -IhpGap..IhpGap
<1>1. IhpInv /\ [IhpNext]_ihpVars => [Smooth]_ihpVars
  BY SmoothStep
<1>2. QED BY <1>1, IhpInvariant, PTL DEF IhpSpec, SmoothControls

-----------------------------------------------------------------------------
(* WebSession, for every number of tabs, sessions and requests, every lease    *)
(* and clock: who is refused was idle or has logged out, and no session is    *)
(* left that nobody can use or end.                                           *)

(* Tokens in use were made, and a lease runs from the last request served.    *)
Made ==
  /\ wsLive \subseteq 1..wsMade
  /\ \A t \in Tabs : wsTab[t].token <= wsMade
  /\ \A c \in wsCalls : c.token <= wsMade /\ (c.at = "found" => c.token # Nobody)
  /\ \A k \in 1..wsMade : wsUntil[k] = wsServed[k] + Lease

(* A login is asked for by the login page that is open, one at a time, and    *)
(* has a token only once it is granted.                                       *)
LoginPending ==
  /\ \A c \in wsCalls : c.kind = "login" =>
       /\ c.visit = wsTab[c.tab].visit /\ wsTab[c.tab].at = "login" /\ wsTab[c.tab].next = "stay"
       /\ c.at # "found" /\ (c.at \in {"sent", "no"} => c.token = Nobody)
  /\ \A c, d \in wsCalls : c.kind = "login" /\ d.kind = "login" /\ c.tab = d.tab => c = d
  /\ \A t \in Tabs : wsTab[t].visit = 0 => wsTab[t].at = "none"

(* A token that was refused or logged out is no longer that of a session.     *)
Refused ==
  \A c \in wsCalls :
    /\ c.at = "no" \/ (c.kind = "logout" /\ c.at = "yes") => c.token \notin wsLive
    /\ c.at = "lost" => "lost" \in wsMarks

Ending(k) == \E c \in wsCalls : c.token = k /\ c.kind = "logout" /\ c.at \in {"sent", "found"}

(* A login page has asked for the end of the session whose token it has.      *)
Leaving ==
  wsMarks \cap {"lost", "wiped"} = {} =>
  \A t \in Tabs :
    wsTab[t].at = "login" /\ wsTab[t].next = "stay" /\ wsTab[t].token \in wsLive =>
      Ending(wsTab[t].token)

(* A session that is gone was ended or not used, and nothing uses it.         *)
Gone ==
  "between" \notin wsMarks =>
  \A k \in 1..wsMade : k \notin wsLive =>
    \/ k \in wsEnded
    \/ /\ wsNow > wsServed[k] + Lease
       /\ \A c \in wsCalls : c.at = "found" => c.token # k

WsInv ==
  /\ WsTypeOK /\ Made /\ LoginPending /\ Refused
  /\ Leaving /\ NoStraySession /\ Gone

Calls == [n : 1..MaxCalls, tab : Tabs, visit : Nat, token : {Nobody} \cup Tokens,
          kind : {"login", "logout", "check", "use"},
          at : {"sent", "found", "yes", "no", "lost"}]

-----------------------------------------------------------------------------
LEMMA WsInitial == WsInit => WsInv
<1> SUFFICES ASSUME WsInit PROVE WsInv
  OBVIOUS
<1> USE SessionAssumption DEF WsInit, Tokens, Nobody
<1>1. WsTypeOK
  <2>1. wsTab \in [Tabs -> [at : {"none", "login", "map"}, token : {Nobody} \cup Tokens,
                         visit : 0..MaxVisits, next : {"stay", "login", "map"}]]
    OBVIOUS
  <2>2. wsCalls \subseteq Calls
    OBVIOUS
  <2>3. QED BY <2>1, <2>2 DEF WsTypeOK, Calls
<1>2. Made /\ LoginPending /\ Refused
  BY DEF Made, LoginPending, Refused
<1>3. Leaving /\ NoStraySession /\ Gone
  BY DEF Leaving, NoStraySession, Gone
<1>4. QED BY <1>1, <1>2, <1>3 DEF WsInv

(* A request that is sent.                                                    *)
LEMMA RequestSent ==
  ASSUME WsTypeOK, NEW t \in Tabs, NEW visit \in Nat,
         NEW kind \in {"login", "logout", "check", "use"}, NEW token \in {Nobody} \cup Tokens,
         Request(t, visit, kind, token)
  PROVE  \E c \in Calls :
           /\ wsCalls' = wsCalls \cup {c} /\ wsCalls' \subseteq Calls /\ wsSent' \in 0..MaxCalls
           /\ c.tab = t /\ c.visit = visit /\ c.kind = kind /\ c.token = token /\ c.at = "sent"
<1> DEFINE c == [n |-> wsSent + 1, tab |-> t, visit |-> visit, kind |-> kind,
                 token |-> token, at |-> "sent"]
<1>1. wsSent + 1 \in 1..MaxCalls
  BY SessionAssumption DEF WsTypeOK, Request
<1>2. c \in Calls
  BY <1>1 DEF Calls
<1>3. wsCalls' = wsCalls \cup {c} /\ wsSent' \in 0..MaxCalls
  BY <1>1 DEF Request
<1>4. c.tab = t /\ c.visit = visit /\ c.kind = kind /\ c.token = token /\ c.at = "sent"
  OBVIOUS
<1> HIDE DEF c
<1>5. wsCalls \subseteq Calls
  BY DEF WsTypeOK, Calls
<1>6. QED BY <1>2, <1>3, <1>4, <1>5

-----------------------------------------------------------------------------
(* A page that stays as it is sends a request.                                *)
LEMMA SentKeeps ==
  ASSUME WsInv, NEW c \in Calls, wsCalls' = wsCalls \cup {c}, wsCalls' \subseteq Calls,
         wsSent' \in 0..MaxCalls, c.at = "sent", c.token <= wsMade,
         UNCHANGED <<wsTab, wsServer, wsNow, wsMarks>>,
         c.kind = "login" =>
           /\ c.token = Nobody /\ c.visit = wsTab[c.tab].visit
           /\ wsTab[c.tab].at = "login" /\ wsTab[c.tab].next = "stay" /\ ~Blocked(c.tab)
  PROVE  WsInv'
<1>1. /\ wsTab' = wsTab /\ wsNow' = wsNow /\ wsMarks' = wsMarks
      /\ wsLive' = wsLive /\ wsUntil' = wsUntil /\ wsMade' = wsMade
      /\ wsServed' = wsServed /\ wsEnded' = wsEnded
  BY DEF wsServer
<1>2. WsTypeOK'
  BY <1>1 DEF WsInv, WsTypeOK, Calls, Tokens, Nobody
<1>3. Made'
  BY <1>1 DEF WsInv, Made
<1>4. LoginPending'
  <2>1. \A d \in wsCalls : c.kind = "login" /\ d.kind = "login" => d.tab # c.tab
    BY DEF Blocked, WsInv, LoginPending
  <2>2. QED BY <1>1, <2>1 DEF WsInv, LoginPending
<1>5. Refused' /\ Leaving' /\ NoStraySession' /\ Gone'
  <2>1. Refused'
    BY <1>1 DEF WsInv, Refused
  <2>2. Leaving'
    BY <1>1 DEF WsInv, Leaving, Ending
  <2>3. NoStraySession'
    BY <1>1 DEF WsInv, NoStraySession
  <2>4. Gone'
    BY <1>1 DEF WsInv, Gone
  <2>5. QED BY <2>1, <2>2, <2>3, <2>4
<1>6. QED BY <1>2, <1>3, <1>4, <1>5 DEF WsInv

LEMMA TabFields ==
  ASSUME WsTypeOK, NEW t \in Tabs
  PROVE  /\ wsTab[t] \in [at : {"none", "login", "map"}, token : {Nobody} \cup Tokens,
                          visit : 0..MaxVisits, next : {"stay", "login", "map"}]
         /\ wsTab[t].visit \in Nat
BY SessionAssumption DEF WsTypeOK

LEMMA LoginKeeps ==
  ASSUME WsInv, NEW t \in Tabs, Login(t)
  PROVE  WsInv'
<1>1. WsTypeOK /\ wsTab[t].visit \in Nat
  BY TabFields DEF WsInv
<1>2. PICK c \in Calls :
        /\ wsCalls' = wsCalls \cup {c} /\ wsCalls' \subseteq Calls /\ wsSent' \in 0..MaxCalls
        /\ c.tab = t /\ c.visit = wsTab[t].visit /\ c.kind = "login" /\ c.token = Nobody /\ c.at = "sent"
  BY <1>1, RequestSent DEF Login
<1>3. Nobody <= wsMade
  BY <1>1 DEF WsTypeOK, Nobody
<1>4. QED
  BY <1>2, <1>3, SentKeeps DEF Login

LEMMA UseKeeps ==
  ASSUME WsInv, NEW t \in Tabs, Use(t)
  PROVE  WsInv'
<1>1. WsTypeOK /\ wsTab[t].visit \in Nat /\ wsTab[t].token \in {Nobody} \cup Tokens
  BY TabFields DEF WsInv
<1>2. PICK c \in Calls :
        /\ wsCalls' = wsCalls \cup {c} /\ wsCalls' \subseteq Calls /\ wsSent' \in 0..MaxCalls
        /\ c.tab = t /\ c.visit = wsTab[t].visit /\ c.kind = "use" /\ c.token = wsTab[t].token
        /\ c.at = "sent"
  BY <1>1, RequestSent DEF Use
<1>3. c.token <= wsMade
  BY <1>2 DEF WsInv, Made
<1>4. QED
  BY <1>2, <1>3, SentKeeps DEF Use

(* A page is opened: no login is pending in its tab.                          *)
LEMMA LoadKeeps ==
  ASSUME WsInv, NEW t \in Tabs, NEW page \in {"login", "map"}, Load(t, page)
  PROVE  WsInv'
<1> DEFINE token == wsTab[t].token
           visit == wsTab[t].visit + 1
           tab == [at |-> page, token |-> token, visit |-> visit,
                   next |-> IF page = "map" /\ token = Nobody THEN "login" ELSE "stay"]
<1>1. WsTypeOK /\ wsTab[t].visit \in Nat /\ token \in {Nobody} \cup Tokens
  BY TabFields DEF WsInv
<1>2. visit \in 0..MaxVisits /\ visit \in Nat /\ visit # 0 /\ visit > wsTab[t].visit
  BY <1>1, SessionAssumption DEF Load
<1>3. /\ wsNow' = wsNow /\ wsMarks' = wsMarks /\ wsLive' = wsLive /\ wsUntil' = wsUntil
      /\ wsMade' = wsMade /\ wsServed' = wsServed /\ wsEnded' = wsEnded
  BY DEF Load, wsServer
<1>4. wsTab' = [wsTab EXCEPT ![t] = tab]
  BY DEF Load
<1>5. /\ wsTab'[t] = tab
      /\ \A u \in Tabs : u # t => wsTab'[u] = wsTab[u]
      /\ \A u \in Tabs : wsTab'[u].token = wsTab[u].token
  BY <1>1, <1>4 DEF WsTypeOK
<1>6. \/ token = Nobody /\ wsCalls' = wsCalls /\ wsSent' = wsSent
      \/ \E kind \in AsksFirst(page) : Request(t, visit, kind, token)
  BY DEF Load, AsksFirst
<1>7. /\ wsCalls' \subseteq Calls /\ wsSent' \in 0..MaxCalls
      /\ \A c \in wsCalls : c \in wsCalls'
      /\ \A c \in wsCalls' : c \notin wsCalls =>
           /\ c.kind \in {"check", "logout"} /\ c.at = "sent" /\ c.token = token /\ c.tab = t
      /\ page = "login" /\ token # Nobody =>
           \E c \in wsCalls' : c.token = token /\ c.kind = "logout" /\ c.at = "sent"
  <2>1. CASE token = Nobody /\ wsCalls' = wsCalls /\ wsSent' = wsSent
    BY <1>1, <2>1 DEF WsTypeOK, Calls
  <2>2. ASSUME NEW kind \in AsksFirst(page), Request(t, visit, kind, token)
        PROVE  <1>7!1 /\ <1>7!2 /\ <1>7!3 /\ <1>7!4
    <3>1. kind \in {"login", "logout", "check", "use"} /\ kind \in {"check", "logout"}
          /\ (page = "login" => kind = "logout")
      BY DEF AsksFirst
    <3> HIDE DEF token, visit
    <3>2. PICK c \in Calls :
            /\ wsCalls' = wsCalls \cup {c} /\ wsCalls' \subseteq Calls /\ wsSent' \in 0..MaxCalls
            /\ c.tab = t /\ c.visit = visit /\ c.kind = kind /\ c.token = token /\ c.at = "sent"
      BY <1>1, <1>2, <2>2, <3>1, RequestSent
    <3>3. QED BY <3>1, <3>2
  <2>3. QED BY <1>6, <2>1, <2>2
<1>8. WsTypeOK'
  <2>1. tab \in [at : {"none", "login", "map"}, token : {Nobody} \cup Tokens,
                 visit : 0..MaxVisits, next : {"stay", "login", "map"}]
    BY <1>1, <1>2
  <2> HIDE DEF tab
  <2>2. wsTab' \in [Tabs -> [at : {"none", "login", "map"}, token : {Nobody} \cup Tokens,
                             visit : 0..MaxVisits, next : {"stay", "login", "map"}]]
    BY <1>1, <1>4, <2>1 DEF WsTypeOK
  <2>3. QED BY <1>1, <1>3, <1>7, <2>2 DEF WsTypeOK, Calls
<1>9. Made'
  BY <1>3, <1>5, <1>7 DEF WsInv, Made
<1>10. LoginPending'
  <2>1. \A c \in wsCalls : c.kind = "login" => c.tab # t
    BY DEF Load, Blocked, WsInv, LoginPending
  <2>2. \A c \in wsCalls' : c.kind = "login" => c \in wsCalls /\ c.tab # t /\ c.tab \in Tabs
    BY <1>7, <2>1 DEF Calls
  <2>3. \A c \in wsCalls' : c.kind = "login" =>
          /\ c.visit = wsTab'[c.tab].visit /\ wsTab'[c.tab].at = "login" /\ wsTab'[c.tab].next = "stay"
          /\ c.at # "found" /\ (c.at \in {"sent", "no"} => c.token = Nobody)
    BY <1>5, <2>2 DEF WsInv, LoginPending
  <2>4. \A u \in Tabs : wsTab'[u].visit = 0 => wsTab'[u].at = "none"
    BY <1>2, <1>5 DEF WsInv, LoginPending
  <2>5. QED BY <2>2, <2>3, <2>4 DEF WsInv, LoginPending
<1>11. Refused'
  BY <1>3, <1>7 DEF WsInv, Refused
<1>12. Leaving'
  <2> SUFFICES ASSUME wsMarks \cap {"lost", "wiped"} = {}, NEW u \in Tabs,
                      wsTab'[u].at = "login", wsTab'[u].next = "stay", wsTab'[u].token \in wsLive
               PROVE  \E c \in wsCalls' : c.token = wsTab'[u].token /\ c.kind = "logout"
                                              /\ c.at \in {"sent", "found"}
    BY <1>3 DEF Leaving, Ending
  <2>1. CASE u = t
    <3>1. page = "login" /\ token \in wsLive /\ wsTab'[u].token = token
      BY <1>5, <2>1
    <3>2. token # Nobody
      BY <1>1, <3>1 DEF WsTypeOK, Tokens, Nobody
    <3>3. QED BY <1>7, <3>1, <3>2
  <2>2. CASE u # t
    <3>1. Ending(wsTab[u].token)
      BY <1>5, <2>2 DEF WsInv, Leaving
    <3>2. QED BY <1>5, <1>7, <2>2, <3>1 DEF Ending
  <2>3. QED BY <2>1, <2>2
<1>13. NoStraySession'
  BY <1>3, <1>5, <1>7 DEF WsInv, NoStraySession
<1>14. Gone'
  BY <1>3, <1>7 DEF WsInv, Gone
<1>15. QED
  BY <1>8, <1>9, <1>10, <1>11, <1>12, <1>13, <1>14 DEF WsInv

(* A tab without a storage of its own gets a copy of one.                     *)
LEMMA DuplicateKeeps ==
  ASSUME WsInv, NEW t \in Tabs, NEW u \in Tabs, Duplicate(t, u)
  PROVE  WsInv'
<1> DEFINE tab == [wsTab[u] EXCEPT !.token = wsTab[t].token, !.next = "map"]
<1>1. WsTypeOK
  BY DEF WsInv
<1>2. /\ wsCalls' = wsCalls /\ wsNow' = wsNow /\ wsMarks' = wsMarks /\ wsLive' = wsLive
      /\ wsUntil' = wsUntil /\ wsMade' = wsMade /\ wsServed' = wsServed /\ wsEnded' = wsEnded
      /\ wsSent' = wsSent
  BY DEF Duplicate, wsServer
<1>3. wsTab' = [wsTab EXCEPT ![u] = tab]
  BY DEF Duplicate
<1>4. wsTab[u].token = Nobody /\ wsTab[u].visit = 0 /\ wsTab[u].at = "none"
  BY DEF Duplicate, WsInv, LoginPending
<1>5. /\ tab \in [at : {"none", "login", "map"}, token : {Nobody} \cup Tokens,
                  visit : 0..MaxVisits, next : {"stay", "login", "map"}]
      /\ tab.at = "none" /\ tab.token = wsTab[t].token /\ tab.visit = 0 /\ tab.next = "map"
  <2>1. /\ wsTab[u] \in [at : {"none", "login", "map"}, token : {Nobody} \cup Tokens,
                         visit : 0..MaxVisits, next : {"stay", "login", "map"}]
        /\ wsTab[t].token \in {Nobody} \cup Tokens
    BY <1>1, TabFields
  <2>2. QED BY <1>4, <2>1
<1>6. /\ wsTab'[u] = tab
      /\ \A v \in Tabs : v # u => wsTab'[v] = wsTab[v]
  BY <1>1, <1>3 DEF WsTypeOK
<1>7. WsTypeOK'
  <2> HIDE DEF tab
  <2>1. QED BY <1>1, <1>2, <1>3, <1>5 DEF WsTypeOK
<1> HIDE DEF tab
<1>8. Made'
  BY <1>2, <1>5, <1>6 DEF WsInv, Made
<1>9. LoginPending'
  <2>1. \A c \in wsCalls : c.kind = "login" => c.tab # u
    BY <1>4 DEF WsInv, LoginPending
  <2>2. \A c \in wsCalls : c.tab \in Tabs
    BY <1>1 DEF WsTypeOK
  <2>3. QED BY <1>2, <1>5, <1>6, <2>1, <2>2 DEF WsInv, LoginPending
<1>10. Refused'
  BY <1>2 DEF WsInv, Refused
<1>11. Leaving'
  BY <1>2, <1>5, <1>6 DEF WsInv, Leaving, Ending
<1>12. NoStraySession'
  <2>1. Nobody \notin wsLive
    BY <1>1 DEF WsTypeOK, Nobody, Tokens
  <2>2. \A k \in wsLive, v \in Tabs : wsTab[v].token = k => wsTab'[v].token = k
    BY <1>4, <1>6, <2>1
  <2>3. QED BY <1>2, <2>2 DEF WsInv, NoStraySession
<1>13. Gone'
  BY <1>2 DEF WsInv, Gone
<1>14. QED
  BY <1>7, <1>8, <1>9, <1>10, <1>11, <1>12, <1>13 DEF WsInv

-----------------------------------------------------------------------------
(* An answer reaches the page that asked, or none.                            *)
LEMMA AnswerKeeps ==
  ASSUME WsInv, NEW c \in wsCalls, Answer(c)
  PROVE  WsInv'
<1> DEFINE tab == Told(wsTab[c.tab], c)
<1>1. WsTypeOK /\ c \in Calls /\ c.tab \in Tabs
  BY DEF WsInv, WsTypeOK, Calls
<1>2. /\ wsCalls' = wsCalls \ {c} /\ wsNow' = wsNow /\ wsLive' = wsLive
      /\ wsUntil' = wsUntil /\ wsMade' = wsMade /\ wsServed' = wsServed /\ wsEnded' = wsEnded
      /\ wsSent' = wsSent
  BY DEF Answer, wsServer
<1>3. wsMarks \subseteq wsMarks' /\ wsMarks' \subseteq {"lost", "wiped", "between"}
  BY <1>1 DEF Answer, WsTypeOK
<1>4. \/ wsTab' = [wsTab EXCEPT ![c.tab] = tab] /\ c.visit = wsTab[c.tab].visit
      \/ wsTab' = wsTab /\ c.visit # wsTab[c.tab].visit
  BY DEF Answer
<1>5. \/ tab = wsTab[c.tab]
      \/ /\ c.kind = "login" /\ c.at = "yes"
         /\ tab = [wsTab[c.tab] EXCEPT !.token = c.token, !.next = "map"]
      \/ /\ c.kind = "logout" /\ c.at # "lost"
         /\ tab = [wsTab[c.tab] EXCEPT !.token = Nobody]
      \/ c.kind = "check" /\ tab = [wsTab[c.tab] EXCEPT !.next = "login"]
  BY DEF Told
<1>6. /\ wsTab[c.tab] \in [at : {"none", "login", "map"}, token : {Nobody} \cup Tokens,
                           visit : 0..MaxVisits, next : {"stay", "login", "map"}]
      /\ wsTab[c.tab].visit \in Nat
  BY <1>1, TabFields
<1>7. /\ tab \in [at : {"none", "login", "map"}, token : {Nobody} \cup Tokens,
                  visit : 0..MaxVisits, next : {"stay", "login", "map"}]
      /\ tab.visit = wsTab[c.tab].visit /\ tab.at = wsTab[c.tab].at
  <2> HIDE DEF tab
  <2>1. c.token \in {Nobody} \cup Tokens
    BY <1>1 DEF Calls
  <2>2. QED BY <1>5, <1>6, <2>1
<1>8. /\ c.kind # "login" => ~Blocked(c.tab)
      /\ c.at \in {"yes", "no", "lost"}
  BY DEF Answer
<1>9. \A d \in wsCalls' : d \in wsCalls /\ (d.kind = "login" => d.tab # c.tab)
  BY <1>2, <1>8 DEF WsInv, LoginPending, Blocked
<1>10. /\ \A u \in Tabs : u # c.tab => wsTab'[u] = wsTab[u]
       /\ \/ wsTab'[c.tab] = tab /\ c.visit = wsTab[c.tab].visit
          \/ wsTab'[c.tab] = wsTab[c.tab] /\ c.visit # wsTab[c.tab].visit
  <2> HIDE DEF tab
  <2>1. QED BY <1>1, <1>4 DEF WsTypeOK
<1> HIDE DEF tab
<1>11. WsTypeOK'
  <2>1. wsTab' \in [Tabs -> [at : {"none", "login", "map"}, token : {Nobody} \cup Tokens,
                             visit : 0..MaxVisits, next : {"stay", "login", "map"}]]
    BY <1>1, <1>4, <1>7 DEF WsTypeOK
  <2>2. QED BY <1>1, <1>2, <1>3, <2>1 DEF WsTypeOK
<1>12. Made'
  <2>1. wsTab[c.tab].token <= wsMade /\ c.token <= wsMade /\ Nobody <= wsMade
    BY <1>1 DEF WsInv, Made, WsTypeOK, Nobody
  <2>2. tab.token <= wsMade
    BY <1>5, <1>6, <2>1
  <2>3. \A u \in Tabs : wsTab'[u].token <= wsMade
    BY <1>10, <2>1, <2>2 DEF WsInv, Made
  <2>4. QED BY <1>2, <2>3 DEF WsInv, Made
<1>13. LoginPending'
  <2>1. \A d \in wsCalls' : d.tab \in Tabs
    BY <1>1, <1>9 DEF WsTypeOK
  <2>2. \A d \in wsCalls' : d.kind = "login" => wsTab'[d.tab] = wsTab[d.tab]
    BY <1>9, <1>10, <2>1
  <2>3. \A u \in Tabs : wsTab'[u].visit = 0 => wsTab'[u].at = "none"
    BY <1>7, <1>10 DEF WsInv, LoginPending
  <2>4. QED BY <1>9, <2>2, <2>3 DEF WsInv, LoginPending
<1>14. Refused'
  BY <1>2, <1>3, <1>9 DEF WsInv, Refused
<1>15. \A k \in wsLive : Ending(k) =>
         \E d \in wsCalls' : d.token = k /\ d.kind = "logout" /\ d.at \in {"sent", "found"}
  BY <1>2, <1>8 DEF Ending
<1>16. Leaving'
  <2> SUFFICES ASSUME wsMarks' \cap {"lost", "wiped"} = {}, NEW u \in Tabs,
                      wsTab'[u].at = "login", wsTab'[u].next = "stay", wsTab'[u].token \in wsLive
               PROVE  \E d \in wsCalls' : d.token = wsTab'[u].token /\ d.kind = "logout"
                                              /\ d.at \in {"sent", "found"}
    BY <1>2 DEF Leaving, Ending
  <2>1. wsTab'[u].token = wsTab[u].token /\ wsTab[u].at = "login" /\ wsTab[u].next = "stay"
    <3>1. Nobody \notin wsLive
      BY <1>1 DEF WsTypeOK, Nobody, Tokens
    <3>2. u = c.tab /\ wsTab'[u] = tab => tab = wsTab[u]
      BY <1>5, <1>6, <3>1
    <3>3. QED BY <1>10, <3>2
  <2>2. Ending(wsTab[u].token)
    BY <1>3, <2>1 DEF WsInv, Leaving
  <2>3. QED BY <1>15, <2>1, <2>2
<1>17. NoStraySession'
  <2> SUFFICES ASSUME wsMarks' \cap {"lost", "wiped"} = {}, NEW k \in wsLive
               PROVE  \/ \E t \in Tabs : wsTab'[t].token = k
                      \/ \E d \in wsCalls' : d.token = k
                           /\ (d.kind # "login" => d.kind = "logout" /\ d.at \in {"sent", "found"})
    BY <1>2 DEF NoStraySession
  <2>1. wsMarks \cap {"lost", "wiped"} = {}
    BY <1>3
  <2>2. k # Nobody
    BY <1>1 DEF WsTypeOK, Nobody, Tokens
  <2>3. CASE wsTab[c.tab].token = k
    <3>1. CASE c.kind = "login" /\ c.at = "yes"
      <4>1. wsTab[c.tab].at = "login" /\ wsTab[c.tab].next = "stay"
        BY <3>1 DEF WsInv, LoginPending
      <4>2. Ending(k)
        BY <1>1, <2>1, <2>3, <4>1 DEF WsInv, Leaving
      <4>3. QED BY <1>15, <4>2
    <3>2. CASE c.kind = "logout" /\ c.at # "lost" /\ c.visit = wsTab[c.tab].visit
      <4>1. c.token \notin wsLive
        BY <1>8, <3>2 DEF WsInv, Refused
      <4>2. "wiped" \in wsMarks'
        BY <2>2, <2>3, <3>2, <4>1 DEF Answer
      <4>3. QED BY <4>2
    <3>3. CASE ~(c.kind = "login" /\ c.at = "yes")
               /\ ~(c.kind = "logout" /\ c.at # "lost" /\ c.visit = wsTab[c.tab].visit)
      <4>1. wsTab'[c.tab].token = k
        BY <1>4, <1>5, <1>6, <1>10, <2>3, <3>3
      <4>2. QED BY <1>1, <4>1
    <3>4. QED BY <3>1, <3>2, <3>3
  <2>4. ASSUME NEW t \in Tabs, t # c.tab, wsTab[t].token = k
        PROVE  \E u \in Tabs : wsTab'[u].token = k
    BY <1>10, <2>4
  <2>5. ASSUME NEW d \in wsCalls, d.token = k,
               d.kind # "login" => d.kind = "logout" /\ d.at \in {"sent", "found"}
        PROVE  \/ \E t \in Tabs : wsTab'[t].token = k
               \/ \E e \in wsCalls' : e.token = k
                    /\ (e.kind # "login" => e.kind = "logout" /\ e.at \in {"sent", "found"})
    <3>1. CASE d # c
      BY <1>2, <2>5, <3>1
    <3>2. CASE d = c
      <4>1. c.kind = "login" /\ c.at = "yes"
        <5>1. c.kind = "login"
          BY <1>8, <2>5, <3>2
        <5>2. c.at # "no"
          BY <2>5, <3>2 DEF WsInv, Refused
        <5>3. c.at # "lost"
          BY <2>1 DEF WsInv, Refused
        <5>4. QED BY <1>8, <5>1, <5>2, <5>3
      <4>2. wsTab'[c.tab] = tab
        BY <1>10, <4>1 DEF WsInv, LoginPending
      <4>3. tab = [wsTab[c.tab] EXCEPT !.token = c.token, !.next = "map"]
        BY <4>1 DEF tab, Told
      <4>4. wsTab'[c.tab].token = k
        BY <1>6, <2>5, <3>2, <4>2, <4>3
      <4>5. QED BY <1>1, <4>4
    <3>3. QED BY <3>1, <3>2
  <2>6. QED BY <2>1, <2>3, <2>4, <2>5 DEF WsInv, NoStraySession
<1>18. Gone'
  BY <1>2, <1>3, <1>9 DEF WsInv, Gone
<1>19. QED
  BY <1>11, <1>12, <1>13, <1>14, <1>16, <1>17, <1>18 DEF WsInv

-----------------------------------------------------------------------------
(* A request goes on: it keeps its tab and kind, and its token but for a      *)
(* login.                                                                     *)
LEMMA GoesOn ==
  ASSUME NEW c \in Calls, NEW at \in {"sent", "found", "yes", "no", "lost"}
  PROVE  LET d == [c EXCEPT !.at = at]
         IN /\ d \in Calls /\ d.at = at
            /\ d.tab = c.tab /\ d.visit = c.visit /\ d.kind = c.kind /\ d.token = c.token
BY DEF Calls

LEMMA GetsToken ==
  ASSUME NEW c \in Calls, NEW at \in {"sent", "found", "yes", "no", "lost"}, NEW k \in Tokens
  PROVE  LET d == [c EXCEPT !.at = at, !.token = k]
         IN /\ d \in Calls /\ d.at = at
            /\ d.tab = c.tab /\ d.visit = c.visit /\ d.kind = c.kind /\ d.token = k
BY DEF Calls

(* What becomes of a request disturbs no pending login.                       *)
LEMMA BecomesPending ==
  ASSUME WsInv, NEW c \in wsCalls, NEW d \in Calls, Becomes(c, d), wsTab' = wsTab,
         d.tab = c.tab, d.visit = c.visit, d.kind = c.kind,
         c.kind = "login" => d.at # "found" /\ (d.at \in {"sent", "no"} => d.token = Nobody)
  PROVE  LoginPending'
<1>1. \A e \in wsCalls' : e = d \/ (e \in wsCalls /\ e # c)
  BY DEF Becomes
<1>2. \A e \in wsCalls' : e.kind = "login" =>
        /\ e.visit = wsTab[e.tab].visit /\ wsTab[e.tab].at = "login" /\ wsTab[e.tab].next = "stay"
        /\ e.at # "found" /\ (e.at \in {"sent", "no"} => e.token = Nobody)
  BY <1>1 DEF WsInv, LoginPending
<1>3. \A e, f \in wsCalls' : e.kind = "login" /\ f.kind = "login" /\ e.tab = f.tab => e = f
  BY <1>1 DEF WsInv, LoginPending
<1>4. QED BY <1>2, <1>3 DEF WsInv, LoginPending

LEMMA LoseKeeps ==
  ASSUME WsInv, NEW c \in wsCalls, Lose(c)
  PROVE  WsInv'
<1> DEFINE d == [c EXCEPT !.at = "lost"]
<1>1. WsTypeOK /\ c \in Calls
  BY DEF WsInv, WsTypeOK, Calls
<1>2. /\ d \in Calls /\ d.at = "lost"
      /\ d.tab = c.tab /\ d.visit = c.visit /\ d.kind = c.kind /\ d.token = c.token
  BY <1>1, GoesOn
<1>3. /\ wsTab' = wsTab /\ wsNow' = wsNow /\ wsLive' = wsLive /\ wsSent' = wsSent
      /\ wsUntil' = wsUntil /\ wsMade' = wsMade /\ wsServed' = wsServed /\ wsEnded' = wsEnded
      /\ wsMarks' = wsMarks \cup {"lost"} /\ Becomes(c, d) /\ c.at \in {"sent", "yes", "no"}
  BY DEF Lose, wsServer
<1> HIDE DEF d
<1>4. wsCalls' = (wsCalls \ {c}) \cup {d}
  BY <1>3 DEF Becomes
<1>5. WsTypeOK'
  BY <1>1, <1>2, <1>3, <1>4 DEF WsTypeOK, Calls
<1>6. Made'
  BY <1>2, <1>3, <1>4 DEF WsInv, Made
<1>7. LoginPending'
  BY <1>2, <1>3, BecomesPending
<1>8. Refused'
  BY <1>2, <1>3, <1>4 DEF WsInv, Refused
<1>9. Leaving' /\ NoStraySession'
  BY <1>3 DEF Leaving, NoStraySession
<1>10. Gone'
  BY <1>2, <1>3, <1>4 DEF WsInv, Gone
<1>11. QED
  BY <1>5, <1>6, <1>7, <1>8, <1>9, <1>10 DEF WsInv

(* A new session belongs to the login that made it.                           *)
LEMMA ServeLoginKeeps ==
  ASSUME WsInv, NEW c \in wsCalls, ServeLogin(c)
  PROVE  WsInv'
<1>1. WsTypeOK /\ c \in Calls
  BY DEF WsInv, WsTypeOK, Calls
<1>2. /\ wsTab' = wsTab /\ wsNow' = wsNow /\ wsMarks' = wsMarks /\ wsSent' = wsSent
      /\ c.kind = "login" /\ c.at = "sent" /\ c.token = Nobody
  BY DEF ServeLogin, WsInv, LoginPending
<1>3. Nobody \notin wsLive /\ wsMade \in Nat /\ wsNow \in Nat /\ Lease \in Nat /\ Nobody <= wsMade
  BY <1>1, SessionAssumption DEF WsTypeOK, Nobody, Tokens
<1>4. ASSUME wsMade < MaxLogins, wsMade' = wsMade + 1, wsLive' = wsLive \cup {wsMade + 1},
             wsUntil' = [wsUntil EXCEPT ![wsMade + 1] = wsNow + Lease],
             wsServed' = [wsServed EXCEPT ![wsMade + 1] = wsNow],
             Becomes(c, [c EXCEPT !.at = "yes", !.token = wsMade + 1]), wsEnded' = wsEnded
      PROVE  WsInv'
  <2> DEFINE k == wsMade + 1
             d == [c EXCEPT !.at = "yes", !.token = k]
  <2>1. k \in Tokens /\ k \in Nat /\ k > wsMade
    BY <1>3, <1>4, SessionAssumption DEF Tokens
  <2>2. /\ d \in Calls /\ d.at = "yes"
        /\ d.tab = c.tab /\ d.visit = c.visit /\ d.kind = c.kind /\ d.token = k
    BY <1>1, <2>1, GetsToken
  <2>3. Becomes(c, d)
    BY <1>4
  <2> HIDE DEF d
  <2>4. wsCalls' = (wsCalls \ {c}) \cup {d}
    BY <2>3 DEF Becomes
  <2>5. /\ wsUntil'[k] = wsNow + Lease /\ wsServed'[k] = wsNow
        /\ \A j \in Tokens : j # k => wsUntil'[j] = wsUntil[j] /\ wsServed'[j] = wsServed[j]
    BY <1>1, <1>4, <2>1 DEF WsTypeOK
  <2>6. WsTypeOK'
    <3>1. wsUntil' \in [Tokens -> 0..(MaxTime + Lease)] /\ wsServed' \in [Tokens -> 0..MaxTime]
      <4>1. wsNow + Lease \in 0..(MaxTime + Lease) /\ wsNow \in 0..MaxTime
        BY <1>1, SessionAssumption DEF WsTypeOK
      <4>2. QED BY <1>1, <1>4, <2>1, <4>1 DEF WsTypeOK
    <3>2. wsMade' \in 0..MaxLogins /\ wsLive' \subseteq Tokens
      BY <1>1, <1>4, <2>1, SessionAssumption DEF WsTypeOK, Tokens
    <3>3. wsCalls' \subseteq Calls
      BY <1>1, <2>2, <2>4 DEF WsTypeOK, Calls
    <3>4. QED BY <1>1, <1>2, <1>4, <3>1, <3>2, <3>3 DEF WsTypeOK, Calls
  <2>7. Made'
    <3>1. \A t \in Tabs : wsTab[t].token \in Nat /\ wsTab[t].token <= wsMade
      BY <1>1, TabFields DEF WsInv, Made, Nobody, Tokens
    <3>2. \A e \in wsCalls : e.token \in Nat /\ e.token <= wsMade
      BY <1>1 DEF WsInv, Made, WsTypeOK, Nobody, Tokens
    <3>3. wsLive' \subseteq 1..wsMade'
      BY <1>3, <1>4 DEF WsInv, Made
    <3>4. \A j \in 1..wsMade' : wsUntil'[j] = wsServed'[j] + Lease
      <4>1. \A j \in 1..wsMade' : j = k \/ (j \in 1..wsMade /\ j # k)
        BY <1>3, <1>4
      <4>2. \A j \in 1..wsMade : j \in Tokens
        BY <1>1, <1>3, SessionAssumption DEF WsTypeOK, Tokens
      <4>3. QED BY <2>5, <4>1, <4>2 DEF WsInv, Made
    <3>5. (\A t \in Tabs : wsTab'[t].token <= wsMade') /\ (\A e \in wsCalls' : e.token <= wsMade')
          /\ (\A e \in wsCalls' : e.at = "found" => e \in wsCalls /\ e.token # Nobody)
      BY <1>2, <1>3, <1>4, <2>2, <2>4, <3>1, <3>2 DEF WsInv, Made
    <3>6. QED BY <3>3, <3>4, <3>5 DEF Made
  <2>8. LoginPending'
    BY <1>2, <2>2, <2>3, BecomesPending
  <2>9. \A e \in wsCalls : e.token # k
    BY <1>1, <1>3 DEF WsInv, Made, WsTypeOK, Nobody, Tokens
  <2>10. Refused'
    BY <1>2, <1>4, <2>2, <2>4, <2>9 DEF WsInv, Refused
  <2>11. \A j : Ending(j) => Ending(j)'
    BY <1>2, <2>4 DEF Ending
  <2>12. Leaving'
    <3>1. \A t \in Tabs : wsTab[t].token # k
      BY <1>1, <1>3, TabFields DEF WsInv, Made, Nobody, Tokens
    <3>2. \A t \in Tabs : wsTab[t].token \in wsLive' => wsTab[t].token \in wsLive
      BY <1>4, <3>1
    <3>3. QED BY <1>2, <2>11, <3>2 DEF WsInv, Leaving, Ending
  <2>13. NoStraySession'
    <3>1. d.token = k /\ d.kind = "login" /\ d \in wsCalls'
      BY <1>2, <2>2, <2>4
    <3>2. \A j \in wsLive : c.token # j
      BY <1>2, <1>3
    <3>3. QED BY <1>2, <1>4, <2>4, <3>1, <3>2 DEF WsInv, NoStraySession
  <2>14. Gone'
    <3>1. \A j \in 1..wsMade' : j \notin wsLive' => j \in 1..wsMade /\ j \notin wsLive /\ j # k /\ j \in Tokens
      <4>1. \A j \in 1..wsMade' : j = k \/ (j \in 1..wsMade /\ j # k)
        BY <1>3, <1>4
      <4>2. \A j \in 1..wsMade : j \in Tokens
        BY <1>1, <1>3, SessionAssumption DEF WsTypeOK, Tokens
      <4>3. QED BY <1>4, <4>1, <4>2
    <3>2. QED BY <1>2, <1>4, <2>2, <2>4, <2>5, <3>1 DEF WsInv, Gone
  <2>15. QED
    BY <2>6, <2>7, <2>8, <2>10, <2>12, <2>13, <2>14 DEF WsInv
<1>5. ASSUME Becomes(c, [c EXCEPT !.at = "no"]), UNCHANGED wsServer
      PROVE  WsInv'
  <2> DEFINE d == [c EXCEPT !.at = "no"]
  <2>1. /\ d \in Calls /\ d.at = "no"
        /\ d.tab = c.tab /\ d.visit = c.visit /\ d.kind = c.kind /\ d.token = c.token
    BY <1>1, GoesOn
  <2>2. Becomes(c, d)
    BY <1>5
  <2> HIDE DEF d
  <2>3. wsCalls' = (wsCalls \ {c}) \cup {d}
    BY <2>2 DEF Becomes
  <2>4. /\ wsLive' = wsLive /\ wsUntil' = wsUntil /\ wsMade' = wsMade
        /\ wsServed' = wsServed /\ wsEnded' = wsEnded
    BY <1>5 DEF wsServer
  <2>5. WsTypeOK'
    BY <1>1, <1>2, <2>1, <2>3, <2>4 DEF WsTypeOK, Calls
  <2>6. Made'
    BY <1>2, <2>1, <2>3, <2>4 DEF WsInv, Made
  <2>7. LoginPending'
    BY <1>2, <2>1, <2>2, BecomesPending
  <2>8. Refused'
    BY <1>2, <1>3, <2>1, <2>3, <2>4 DEF WsInv, Refused
  <2>9. Leaving'
    <3>1. \A j : Ending(j) => Ending(j)'
      BY <1>2, <2>3 DEF Ending
    <3>2. QED BY <1>2, <2>4, <3>1 DEF WsInv, Leaving, Ending
  <2>10. NoStraySession'
    <3>1. \A j \in wsLive : c.token # j
      BY <1>2, <1>3
    <3>2. QED BY <1>2, <2>3, <2>4, <3>1 DEF WsInv, NoStraySession
  <2>11. Gone'
    BY <1>2, <2>1, <2>3, <2>4 DEF WsInv, Gone
  <2>12. QED
    BY <2>5, <2>6, <2>7, <2>8, <2>9, <2>10, <2>11 DEF WsInv
<1>6. QED BY <1>4, <1>5 DEF ServeLogin

(* A session that is looked up is found, or goes if it has expired.           *)
LEMMA LookUpKeeps ==
  ASSUME WsInv, NEW c \in wsCalls, LookUp(c)
  PROVE  WsInv'
<1>1. WsTypeOK /\ c \in Calls
  BY DEF WsInv, WsTypeOK, Calls
<1>2. /\ wsTab' = wsTab /\ wsUntil' = wsUntil /\ wsNow' = wsNow /\ wsSent' = wsSent
      /\ wsMade' = wsMade /\ wsServed' = wsServed /\ wsEnded' = wsEnded
      /\ c.kind # "login" /\ c.at = "sent"
  BY DEF LookUp
<1>3. CASE c.token \in wsLive /\ ~Expired(c.token)
  <2> DEFINE d == [c EXCEPT !.at = "found"]
  <2>1. /\ d \in Calls /\ d.at = "found"
        /\ d.tab = c.tab /\ d.visit = c.visit /\ d.kind = c.kind /\ d.token = c.token
    BY <1>1, GoesOn
  <2>2. Becomes(c, d) /\ wsLive' = wsLive /\ wsMarks' = wsMarks
    BY <1>3 DEF LookUp
  <2> HIDE DEF d
  <2>3. wsCalls' = (wsCalls \ {c}) \cup {d}
    BY <2>2 DEF Becomes
  <2>4. WsTypeOK'
    BY <1>1, <1>2, <2>1, <2>2, <2>3 DEF WsTypeOK, Calls
  <2>5. Made'
    <3>1. Nobody \notin wsLive
      BY <1>1 DEF WsTypeOK, Nobody, Tokens
    <3>2. QED BY <1>2, <1>3, <2>1, <2>2, <2>3, <3>1 DEF WsInv, Made
  <2>6. LoginPending'
    BY <1>2, <2>1, <2>2, BecomesPending
  <2>7. Refused'
    BY <1>2, <2>1, <2>2, <2>3 DEF WsInv, Refused
  <2>8. Leaving'
    <3>1. \A j : Ending(j) => Ending(j)'
      BY <1>2, <2>1, <2>3 DEF Ending
    <3>2. QED BY <1>2, <2>2, <3>1 DEF WsInv, Leaving, Ending
  <2>9. NoStraySession'
    BY <1>2, <2>1, <2>2, <2>3 DEF WsInv, NoStraySession
  <2>10. Gone'
    BY <1>2, <1>3, <2>1, <2>2, <2>3 DEF WsInv, Gone
  <2>11. QED
    BY <2>4, <2>5, <2>6, <2>7, <2>8, <2>9, <2>10 DEF WsInv
<1>4. CASE ~(c.token \in wsLive /\ ~Expired(c.token))
  <2> DEFINE d == [c EXCEPT !.at = "no"]
             Between == \E e \in wsCalls : e.at = "found" /\ e.token = c.token
  <2>1. /\ d \in Calls /\ d.at = "no"
        /\ d.tab = c.tab /\ d.visit = c.visit /\ d.kind = c.kind /\ d.token = c.token
    BY <1>1, GoesOn
  <2>2. /\ Becomes(c, d) /\ wsLive' = wsLive \ {c.token}
        /\ wsMarks' = wsMarks \cup (IF c.token \in wsLive /\ Between THEN {"between"} ELSE {})
    BY <1>4 DEF LookUp
  <2> HIDE DEF d, Between
  <2>3. wsCalls' = (wsCalls \ {c}) \cup {d}
    BY <2>2 DEF Becomes
  <2>4. wsMarks \subseteq wsMarks' /\ wsMarks' \subseteq {"lost", "wiped", "between"}
    BY <1>1, <2>2 DEF WsTypeOK
  <2>5. WsTypeOK'
    BY <1>1, <1>2, <2>1, <2>2, <2>3, <2>4 DEF WsTypeOK, Calls
  <2>6. Made'
    BY <1>2, <2>1, <2>2, <2>3 DEF WsInv, Made
  <2>7. LoginPending'
    BY <1>2, <2>1, <2>2, BecomesPending
  <2>8. Refused'
    BY <1>2, <2>1, <2>2, <2>3, <2>4 DEF WsInv, Refused
  <2>9. Leaving'
    <3>1. \A j \in wsLive' : j \in wsLive /\ (Ending(j) => Ending(j)')
      BY <2>2, <2>3 DEF Ending
    <3>2. QED BY <1>2, <2>4, <3>1 DEF WsInv, Leaving, Ending
  <2>10. NoStraySession'
    <3>1. \A j \in wsLive' : j \in wsLive /\ j # c.token
      BY <2>2
    <3>2. \A e \in wsCalls : e.token # c.token => e \in wsCalls'
      BY <2>3
    <3>3. QED BY <1>2, <2>4, <3>1, <3>2 DEF WsInv, NoStraySession
  <2>11. Gone'
    <3> SUFFICES ASSUME "between" \notin wsMarks', NEW k \in 1..wsMade, k \notin wsLive', k \notin wsEnded
                 PROVE  /\ wsNow > wsServed[k] + Lease
                        /\ \A e \in wsCalls' : e.at = "found" => e.token # k
      BY <1>2 DEF Gone
    <3>1. CASE k \notin wsLive
      BY <2>1, <2>3, <2>4, <3>1 DEF WsInv, Gone
    <3>2. CASE k \in wsLive
      <4>1. k = c.token /\ ~Between /\ Expired(k)
        BY <1>4, <2>2, <3>2
      <4>2. wsUntil[k] < wsNow
        BY <4>1 DEF Expired
      <4>3. wsUntil[k] = wsServed[k] + Lease
        BY DEF WsInv, Made
      <4>4. k \in Tokens
        BY <1>1, <3>2 DEF WsTypeOK
      <4>5. wsServed[k] \in Nat /\ wsNow \in Nat /\ Lease \in Nat
        BY <1>1, <4>4, SessionAssumption DEF WsTypeOK
      <4>6. QED BY <2>1, <2>3, <4>1, <4>2, <4>3, <4>5 DEF Between
    <3>3. QED BY <3>1, <3>2
  <2>12. QED
    BY <2>5, <2>6, <2>7, <2>8, <2>9, <2>10, <2>11 DEF WsInv
<1>5. QED BY <1>3, <1>4

(* The lease is extended, or the session ended; both for whoever was found.   *)
LEMMA ServeKeeps ==
  ASSUME WsInv, NEW c \in wsCalls, Serve(c)
  PROVE  WsInv'
<1> DEFINE d == [c EXCEPT !.at = "yes"]
<1>1. WsTypeOK /\ c \in Calls
  BY DEF WsInv, WsTypeOK, Calls
<1>2. /\ d \in Calls /\ d.at = "yes"
      /\ d.tab = c.tab /\ d.visit = c.visit /\ d.kind = c.kind /\ d.token = c.token
  BY <1>1, GoesOn
<1>3. /\ wsTab' = wsTab /\ wsNow' = wsNow /\ wsSent' = wsSent /\ wsMade' = wsMade
      /\ wsMarks' = wsMarks /\ Becomes(c, d) /\ c.at = "found"
      /\ wsUntil' = [wsUntil EXCEPT ![c.token] = wsNow + Lease]
      /\ wsServed' = [wsServed EXCEPT ![c.token] = wsNow]
  BY DEF Serve
<1>4. c.kind # "login"
  BY <1>3 DEF WsInv, LoginPending
<1>5. /\ wsLive' \subseteq wsLive /\ wsEnded \subseteq wsEnded'
      /\ c.kind = "logout" => wsLive' = wsLive \ {c.token} /\ wsEnded' = wsEnded \cup {c.token}
      /\ c.kind # "logout" => wsLive' = wsLive /\ wsEnded' = wsEnded
  BY DEF Serve
<1> HIDE DEF d
<1>6. wsCalls' = (wsCalls \ {c}) \cup {d}
  BY <1>3 DEF Becomes
<1>7. wsNow + Lease \in 0..(MaxTime + Lease) /\ wsNow \in 0..MaxTime
  BY <1>1, SessionAssumption DEF WsTypeOK
<1>8. \A k \in Tokens :
        /\ k # c.token => wsUntil'[k] = wsUntil[k] /\ wsServed'[k] = wsServed[k]
        /\ k = c.token => wsUntil'[k] = wsNow + Lease /\ wsServed'[k] = wsNow
  BY <1>1, <1>3 DEF WsTypeOK
<1>9. \A k \in 1..wsMade : k \in Tokens
  BY <1>1, SessionAssumption DEF WsTypeOK, Tokens
<1>10. WsTypeOK'
  <2>1. wsUntil' \in [Tokens -> 0..(MaxTime + Lease)] /\ wsServed' \in [Tokens -> 0..MaxTime]
    BY <1>1, <1>3, <1>7 DEF WsTypeOK
  <2>2. wsLive' \subseteq Tokens
    BY <1>1, <1>5 DEF WsTypeOK
  <2>3. wsEnded' \subseteq Tokens
    <3>1. \A k \in wsLive \cup wsEnded : k \in Tokens
      BY <1>1 DEF WsTypeOK
    <3>2. c.token \in Tokens
      BY <1>1, <1>3 DEF WsInv, Made, Calls
    <3>3. QED BY <1>5, <3>1, <3>2
  <2>4. QED BY <1>1, <1>2, <1>3, <1>6, <2>1, <2>2, <2>3 DEF WsTypeOK, Calls
<1>11. Made'
  <2>1. \A k \in 1..wsMade : wsUntil'[k] = wsServed'[k] + Lease
    BY <1>8, <1>9 DEF WsInv, Made
  <2>2. QED BY <1>2, <1>3, <1>5, <1>6, <2>1 DEF WsInv, Made
<1>12. LoginPending'
  BY <1>2, <1>3, <1>4, BecomesPending
<1>13. Refused'
  BY <1>2, <1>3, <1>5, <1>6 DEF WsInv, Refused
<1>14. \A j \in wsLive' : j \in wsLive /\ (Ending(j) => Ending(j)')
  BY <1>5, <1>6 DEF Ending
<1>15. Leaving'
  BY <1>3, <1>14 DEF WsInv, Leaving, Ending
<1>16. NoStraySession'
  BY <1>3, <1>4, <1>5, <1>6 DEF WsInv, NoStraySession
<1>17. Gone'
  <2> SUFFICES ASSUME "between" \notin wsMarks, NEW k \in 1..wsMade, k \notin wsLive', k \notin wsEnded'
               PROVE  /\ wsNow > wsServed'[k] + Lease
                      /\ \A e \in wsCalls' : e.at = "found" => e.token # k
    BY <1>3 DEF Gone
  <2>1. k \notin wsLive /\ k \notin wsEnded
    BY <1>5
  <2>2. /\ wsNow > wsServed[k] + Lease
        /\ \A e \in wsCalls : e.at = "found" => e.token # k
    BY <2>1 DEF WsInv, Gone
  <2>3. k # c.token
    BY <1>3, <2>2
  <2>4. QED BY <1>2, <1>6, <1>8, <1>9, <2>2, <2>3
<1>18. QED
  BY <1>10, <1>11, <1>12, <1>13, <1>15, <1>16, <1>17 DEF WsInv

LEMMA TickKeeps == WsInv /\ Tick => WsInv'
<1> SUFFICES ASSUME WsInv, Tick PROVE WsInv'
  OBVIOUS
<1>1. WsTypeOK
  BY DEF WsInv
<1>2. /\ wsTab' = wsTab /\ wsCalls' = wsCalls /\ wsMarks' = wsMarks /\ wsSent' = wsSent
      /\ wsLive' = wsLive /\ wsUntil' = wsUntil /\ wsMade' = wsMade
      /\ wsServed' = wsServed /\ wsEnded' = wsEnded
  BY DEF Tick, wsServer
<1>3. wsNow' = wsNow + 1 /\ wsNow' \in 0..MaxTime /\ wsNow \in Nat
  BY <1>1, SessionAssumption DEF Tick, WsTypeOK
<1>4. WsTypeOK' /\ Made' /\ LoginPending' /\ Refused'
  BY <1>2, <1>3 DEF WsInv, WsTypeOK, Made, LoginPending, Refused, Tokens, Nobody
<1>5. Leaving' /\ NoStraySession'
  BY <1>2 DEF WsInv, Leaving, NoStraySession, Ending
<1>6. Gone'
  <2>1. \A k \in 1..wsMade : wsServed[k] \in Nat
    BY <1>1, SessionAssumption DEF WsTypeOK, Tokens
  <2>2. QED BY <1>2, <1>3, <2>1, SessionAssumption DEF WsInv, Gone
<1>7. QED
  BY <1>4, <1>5, <1>6 DEF WsInv

LEMMA WsStutterKeeps == WsInv /\ UNCHANGED wsVars => WsInv'
<1> SUFFICES ASSUME WsInv, UNCHANGED wsVars PROVE WsInv'
  OBVIOUS
<1>1. /\ wsTab' = wsTab /\ wsCalls' = wsCalls /\ wsMarks' = wsMarks /\ wsSent' = wsSent
      /\ wsLive' = wsLive /\ wsUntil' = wsUntil /\ wsMade' = wsMade /\ wsNow' = wsNow
      /\ wsServed' = wsServed /\ wsEnded' = wsEnded
  BY DEF wsVars, wsServer
<1>2. QED
  BY <1>1 DEF WsInv, WsTypeOK, Made, LoginPending, Refused, Leaving, Ending, NoStraySession,
              Gone, Tokens, Nobody

LEMMA WsStepKeeps == WsInv /\ [WsNext]_wsVars => WsInv'
<1> SUFFICES ASSUME WsInv, [WsNext]_wsVars PROVE WsInv'
  OBVIOUS
<1>1. ASSUME NEW t \in Tabs, Login(t) PROVE WsInv'
  BY <1>1, LoginKeeps
<1>2. ASSUME NEW t \in Tabs, Use(t) PROVE WsInv'
  BY <1>2, UseKeeps
<1>3. ASSUME NEW t \in Tabs, NEW page \in {"login", "map"}, Load(t, page) PROVE WsInv'
  BY <1>3, LoadKeeps
<1>4. ASSUME NEW t \in Tabs, NEW u \in Tabs, Duplicate(t, u) PROVE WsInv'
  BY <1>4, DuplicateKeeps
<1>5. ASSUME NEW c \in wsCalls, Answer(c) PROVE WsInv'
  BY <1>5, AnswerKeeps
<1>6. ASSUME NEW c \in wsCalls, Lose(c) PROVE WsInv'
  BY <1>6, LoseKeeps
<1>7. ASSUME NEW c \in wsCalls, ServeLogin(c) PROVE WsInv'
  BY <1>7, ServeLoginKeeps
<1>8. ASSUME NEW c \in wsCalls, LookUp(c) PROVE WsInv'
  BY <1>8, LookUpKeeps
<1>9. ASSUME NEW c \in wsCalls, Serve(c) PROVE WsInv'
  BY <1>9, ServeKeeps
<1>10. CASE Tick
  BY <1>10, TickKeeps
<1>11. CASE UNCHANGED wsVars
  BY <1>11, WsStutterKeeps
<1>12. QED
  BY <1>1, <1>2, <1>3, <1>4, <1>5, <1>6, <1>7, <1>8, <1>9, <1>10, <1>11 DEF WsNext

(* The invariant, in every behaviour of the tabs and the service.             *)
THEOREM WsInvariant == WsSpec => []WsInv
<1>1. QED BY WsInitial, WsStepKeeps, PTL DEF WsSpec

LEMMA InvLasts == WsInv => SessionsLast
<1> SUFFICES ASSUME WsInv PROVE SessionsLast
  OBVIOUS
<1>1. ASSUME "between" \notin wsMarks, NEW c \in wsCalls, c.at = "no", c.token \in Tokens
      PROVE  c.token \in wsEnded \/ wsNow > wsServed[c.token] + Lease
  <2>1. c.token \notin wsLive
    BY <1>1 DEF WsInv, Refused
  <2>2. c.token \in 1..wsMade
    BY <1>1, SessionAssumption DEF WsInv, Made, WsTypeOK, Tokens
  <2>3. QED BY <1>1, <2>1, <2>2 DEF WsInv, Gone
<1>2. RefusedWhenIdle
  BY <1>1 DEF RefusedWhenIdle
<1>3. QED BY <1>2 DEF WsInv, SessionsLast

(* A session in use is not refused, and none is left that no tab can use or   *)
(* end (SessMgr.getSession, login.js, check.js).                              *)
THEOREM SessionsLastCorrect == WsSpec => []SessionsLast
<1>1. QED BY WsInvariant, InvLasts, PTL

-----------------------------------------------------------------------------
(* LaneSpan, for every set of lanes and every geometry: the piece that is sent *)
(* lies in its lane, is the one shown, and the piece shown begins at the click *)
(* and is long enough.                                                        *)

(* A current piece goes from a point of its lane to a later one, and holds    *)
(* the point where it was begun.                                              *)
CurSound ==
  \A lane \in Lanes :
    \/ lsCur[lane] = NoPiece
    \/ /\ lsCur[lane] \in [o : Index(lane), s : Index(lane), e : Index(lane)]
       /\ lsCur[lane].s < lsCur[lane].e
       /\ lsCur[lane].s <= lsCur[lane].o /\ lsCur[lane].o <= lsCur[lane].e

(* While a piece that did not begin at the end of its lane is drawn, what is  *)
(* shown is the current piece, and it was begun at the click.                 *)
ShownSound ==
  IF lsLane = NoLane THEN lsDone = FALSE ELSE
  /\ lsStart \in Index(lsLane)
  /\ lsShown \in [o : Index(lsLane), s : Index(lsLane), e : Index(lsLane)]
  /\ ~AtEnd => lsCur[lsLane] = lsShown /\ lsShown.o = lsStart

LsInv == LsTypeOK /\ CurSound /\ ShownSound /\ SentInLane /\ SentIsShown /\ ShownFromStart

(* At least two points of every lane are kept.                                *)
LEMMA TwoKept ==
  ASSUME NEW lane \in Lanes
  PROVE  /\ Kept(lane) \in Nat /\ Kept(lane) >= 2
         /\ Full[lane] \in Nat /\ Kept(lane) = 1 + Full[lane] \div 2
<1>1. Full[lane] \in Nat /\ Full[lane] >= 2
  BY SpanAssumption
<1>2. \A k \in Nat : k >= 2 => k \div 2 \in Nat /\ k \div 2 >= 1
  OBVIOUS
<1>3. QED BY <1>1, <1>2 DEF Kept

LEMMA LsInitial == LsInit => LsInv
<1> SUFFICES ASSUME LsInit PROVE LsInv
  OBVIOUS
<1> USE DEF LsInit
<1>0. NoPiece \in [o : Nat, s : Nat, e : Nat]
  BY DEF NoPiece
<1>1. LsTypeOK
  <2>1. lsLane \in Lanes \cup {NoLane} /\ lsDone \in BOOLEAN /\ lsDrawn \in BOOLEAN /\ lsStart \in Nat
    OBVIOUS
  <2>2. lsCur \in [Lanes -> [o : Nat, s : Nat, e : Nat]]
    BY <1>0
  <2>3. lsShown \in [o : Nat, s : Nat, e : Nat] /\ lsPieces \in 0..MaxPieces
    BY <1>0, SpanAssumption
  <2>4. lsSent \in [lane : Lanes \cup {NoLane}, s : Nat, e : Nat, atEnd : BOOLEAN,
                    shown : [o : Nat, s : Nat, e : Nat]]
    BY <1>0
  <2>5. QED BY <2>1, <2>2, <2>3, <2>4 DEF LsTypeOK
<1>2. CurSound
  BY DEF CurSound
<1>3. ShownSound /\ SentInLane /\ SentIsShown /\ ShownFromStart
  BY DEF ShownSound, SentInLane, SentIsShown, ShownFromStart
<1>4. QED BY <1>1, <1>2, <1>3 DEF LsInv

LEMMA DrawnSound ==
  ASSUME NEW lane \in Lanes, NEW n \in Index(lane),
         NEW p \in [o : Index(lane), s : Index(lane), e : Index(lane)],
         p.s < p.e, p.s <= p.o, p.o <= p.e
  PROVE  /\ Drawn(p, n) \in [o : Index(lane), s : Index(lane), e : Index(lane)]
         /\ Drawn(p, n).s < Drawn(p, n).e
         /\ Drawn(p, n).s <= p.o /\ p.o <= Drawn(p, n).e /\ Drawn(p, n).o = p.o
         /\ Drawn(p, n) = p \/ p.o \in {Drawn(p, n).s, Drawn(p, n).e}
<1>1. n \in Int /\ p.o \in Int /\ p.s \in Int /\ p.e \in Int
  BY TwoKept DEF Index
<1>2. CASE n > p.o
  BY <1>1, <1>2 DEF Drawn
<1>3. CASE n < p.o
  BY <1>1, <1>3 DEF Drawn
<1>4. CASE n = p.o
  BY <1>1, <1>4 DEF Drawn
<1>5. QED BY <1>1, <1>2, <1>3, <1>4

-----------------------------------------------------------------------------
LEMMA StartStep ==
  ASSUME LsInv, NEW lane \in Lanes, NEW o \in Index(lane), Start(lane, o)
  PROVE  LsInv'
<1>1. PICK s \in Index(lane), e \in Index(lane) :
        /\ ForwardTo(lane, o, e) /\ BackTo(lane, o, e, s)
        /\ lsShown' = [o |-> o, s |-> s, e |-> e]
        /\ lsCur' = IF Found(o, s, e) THEN [lsCur EXCEPT ![lane] = [o |-> o, s |-> s, e |-> e]]
                                      ELSE lsCur
  BY DEF Start
<1>2. /\ lsLane' = lane /\ lsStart' = o /\ lsDrawn' = FALSE /\ lsDone' = FALSE
      /\ lsSent' = lsSent /\ lsPieces' = lsPieces + 1 /\ lsPieces < MaxPieces
  BY DEF Start
<1>3. o \in Nat /\ s \in Nat /\ e \in Nat /\ s <= o /\ o <= e
  BY <1>1, TwoKept DEF Index, ForwardTo, BackTo
<1>4. LsTypeOK'
  <2>1. lsLane' \in Lanes /\ lsDone' \in BOOLEAN /\ lsDrawn' \in BOOLEAN /\ lsStart' \in Nat
    BY <1>2, <1>3
  <2>2. lsCur' \in [Lanes -> [o : Nat, s : Nat, e : Nat]]
    BY <1>1, <1>3 DEF LsInv, LsTypeOK
  <2>3. lsShown' \in [o : Nat, s : Nat, e : Nat]
    BY <1>1, <1>3
  <2>4. lsPieces' \in 0..MaxPieces
    BY <1>2, SpanAssumption DEF LsInv, LsTypeOK
  <2>5. QED BY <1>2, <2>1, <2>2, <2>3, <2>4 DEF LsInv, LsTypeOK
<1>5. CurSound'
  <2>1. CASE Found(o, s, e)
    BY <1>1, <1>3, <2>1 DEF LsInv, LsTypeOK, CurSound, Found
  <2>2. CASE ~Found(o, s, e)
    BY <1>1, <2>2 DEF LsInv, CurSound
  <2>3. QED BY <2>1, <2>2
<1>6. AtEnd' \/ Found(o, s, e)
  <2>1. Mile[lane][o] \in Nat /\ Wide[lane][o] \in Nat /\ Wide[lane][o] > 0
    BY MileAssumption
  <2>2. SUFFICES ASSUME o < Kept(lane) - 2, e = o PROVE FALSE
    BY <1>2, <1>3, TwoKept DEF AtEnd, Found
  <2>3. Mile[lane][e] - Mile[lane][o] >= Wide[lane][o] \/ e >= Kept(lane) - 2
    BY <1>1 DEF ForwardTo
  <2>4. QED BY <1>3, <2>1, <2>2, <2>3, TwoKept
<1>7. ShownSound'
  BY <1>1, <1>2, <1>3, <1>6 DEF LsInv, LsTypeOK, ShownSound, AtEnd
<1>8. ShownFromStart'
  BY <1>1, <1>2, <1>3 DEF ShownFromStart, ForwardTo, BackTo
<1>9. SentInLane' /\ SentIsShown'
  BY <1>2 DEF LsInv, SentInLane, SentIsShown
<1>10. QED BY <1>4, <1>5, <1>7, <1>8, <1>9 DEF LsInv

LEMMA UpdateStep ==
  ASSUME LsInv, lsLane \in Lanes, NEW n \in Index(lsLane), UpdateLanePoly(n)
  PROVE  LsInv'
<1> DEFINE p == lsCur[lsLane]
           d == Drawn(p, n)
<1>1. /\ lsCur' = [lsCur EXCEPT ![lsLane] = d] /\ lsShown' = d
      /\ lsDrawn' = (lsDrawn \/ lsShown # d) /\ p # NoPiece
      /\ UNCHANGED <<lsLane, lsDone, lsSent, lsPieces, lsStart>>
  BY DEF UpdateLanePoly
<1>2. /\ p \in [o : Index(lsLane), s : Index(lsLane), e : Index(lsLane)]
      /\ p.s < p.e /\ p.s <= p.o /\ p.o <= p.e
  BY <1>1 DEF LsInv, CurSound
<1>3. /\ d \in [o : Index(lsLane), s : Index(lsLane), e : Index(lsLane)]
      /\ d.s < d.e /\ d.s <= p.o /\ p.o <= d.e /\ d.o = p.o
      /\ d = p \/ p.o \in {d.s, d.e}
  BY <1>2, DrawnSound
<1>4. Index(lsLane) \subseteq Nat
  BY TwoKept DEF Index
<1> HIDE DEF d, p
<1>5. LsTypeOK'
  BY <1>1, <1>3, <1>4 DEF LsInv, LsTypeOK
<1>6. CurSound'
  BY <1>1, <1>3 DEF LsInv, LsTypeOK, CurSound
<1>7. AtEnd' <=> AtEnd
  BY <1>1 DEF AtEnd
<1>8. ShownSound'
  BY <1>1, <1>2, <1>3, <1>7 DEF LsInv, LsTypeOK, ShownSound, p
<1>9. ShownFromStart'
  <2>1. CASE AtEnd /\ lsDrawn'
    BY <1>1, <1>7, <2>1 DEF ShownFromStart
  <2>2. CASE ~lsDrawn'
    <3>1. lsShown' = lsShown /\ lsDrawn = FALSE
      BY <1>1, <2>2 DEF LsInv, LsTypeOK
    <3>2. QED BY <1>1, <2>2, <3>1 DEF LsInv, ShownFromStart
  <2>3. CASE ~AtEnd /\ lsDrawn'
    <3>1. p = lsShown /\ p.o = lsStart
      BY <1>1, <2>3, SpanAssumption DEF LsInv, ShownSound, p
    <3>2. CASE d = p
      <4>1. lsDrawn /\ lsLane # NoLane
        BY <1>1, <2>3, <3>1, <3>2, SpanAssumption DEF LsInv, LsTypeOK
      <4>2. lsStart \in {lsShown.s, lsShown.e}
        BY <2>3, <4>1 DEF LsInv, ShownFromStart
      <4>3. QED BY <1>1, <2>3, <3>1, <3>2, <4>2 DEF ShownFromStart
    <3>3. CASE p.o \in {d.s, d.e}
      BY <1>1, <2>3, <3>1, <3>3 DEF ShownFromStart
    <3>4. QED BY <1>3, <3>2, <3>3
  <2>4. QED BY <2>1, <2>2, <2>3
<1>10. SentInLane' /\ SentIsShown'
  BY <1>1 DEF LsInv, SentInLane, SentIsShown
<1>11. QED BY <1>5, <1>6, <1>8, <1>9, <1>10 DEF LsInv

(* The control sent is the current piece of its lane.                         *)
LEMMA AddStep ==
  ASSUME LsInv, AddControl
  PROVE  LsInv'
<1> DEFINE p == lsCur[lsLane]
<1>1. /\ p # NoPiece /\ lsLane # NoLane /\ lsLane' = NoLane /\ lsDone' = FALSE
      /\ lsSent' = [lane |-> lsLane, s |-> p.s, e |-> p.e, atEnd |-> AtEnd, shown |-> lsShown]
      /\ UNCHANGED <<lsCur, lsShown, lsPieces, lsStart, lsDrawn>>
  BY DEF AddControl, LsInv, ShownSound
<1>2. /\ lsLane \in Lanes /\ p \in [o : Index(lsLane), s : Index(lsLane), e : Index(lsLane)]
      /\ p.s < p.e
  BY <1>1 DEF LsInv, LsTypeOK, CurSound
<1>3. p.s \in Nat /\ p.e \in Nat /\ p.e <= Kept(lsLane) - 1
  BY <1>2, TwoKept DEF Index
<1>4. ~AtEnd => lsShown = p
  BY <1>2, SpanAssumption DEF LsInv, ShownSound
<1> HIDE DEF p
<1>5. LsTypeOK'
  <2>1. lsSent' \in [lane : Lanes \cup {NoLane}, s : Nat, e : Nat, atEnd : BOOLEAN,
                     shown : [o : Nat, s : Nat, e : Nat]]
    BY <1>1, <1>2, <1>3 DEF LsInv, LsTypeOK, AtEnd
  <2>2. QED BY <1>1, <2>1 DEF LsInv, LsTypeOK
<1>6. CurSound' /\ ShownSound' /\ ShownFromStart'
  BY <1>1 DEF LsInv, CurSound, ShownSound, ShownFromStart
<1>7. SentInLane'
  <2> DEFINE n == Full[lsLane]
  <2>1. n \in Nat /\ n >= 2 /\ Kept(lsLane) = 1 + n \div 2
    BY <1>2, SpanAssumption DEF Kept
  <2>2. \A k \in Nat : (k \div 2 \in Nat) /\ (k % 2 = 0 <=> k = 2 * (k \div 2))
    OBVIOUS
  <2>3. \A k \in Nat : (k = 2 * (k \div 2)) \/ (k = 2 * (k \div 2) + 1)
    OBVIOUS
  <2>4. /\ PointKept(p.e) < n
        /\ PointTaken(p.e) >= n <=> n % 2 = 0 /\ p.e = Kept(lsLane) - 1
    BY <1>2, <1>3, <2>1, <2>2, <2>3 DEF PointKept, PointTaken
  <2>5. QED BY <1>1, <1>2, <2>4 DEF SentInLane
<1>8. SentIsShown'
  BY <1>1, <1>4 DEF SentIsShown
<1>9. QED BY <1>5, <1>6, <1>7, <1>8 DEF LsInv

LEMMA LsStep == LsInv /\ [LsNext]_lsVars => LsInv'
<1> SUFFICES ASSUME LsInv, [LsNext]_lsVars PROVE LsInv'
  OBVIOUS
<1>1. CASE \E lane \in Lanes : \E o \in Index(lane) : Start(lane, o)
  BY <1>1, StartStep
<1>2. CASE lsLane # NoLane /\ \E n \in Index(lsLane) : UpdateLanePoly(n)
  BY <1>2, UpdateStep DEF LsInv, LsTypeOK
<1>3. CASE AddControl
  BY <1>3, AddStep
<1>4. CASE EndLanePoly
  BY <1>4 DEF EndLanePoly, LsInv, LsTypeOK, CurSound, ShownSound, SentInLane, SentIsShown,
    ShownFromStart, AtEnd
<1>5. CASE CancelAdd
  BY <1>5 DEF CancelAdd, LsInv, LsTypeOK, CurSound, ShownSound, SentInLane, SentIsShown,
    ShownFromStart, AtEnd
<1>6. CASE UNCHANGED lsVars
  BY <1>6 DEF lsVars, LsInv, LsTypeOK, CurSound, ShownSound, SentInLane, SentIsShown,
    ShownFromStart, AtEnd
<1>7. QED BY <1>1, <1>2, <1>3, <1>4, <1>5, <1>6 DEF LsNext

-----------------------------------------------------------------------------
(* The inductive invariant holds in every state.                              *)
THEOREM LaneSpanInvariant == LsSpec => []LsInv
BY LsInitial, LsStep, PTL DEF LsSpec

(* A control that is sent is a piece of its lane, and the service takes a     *)
(* point beyond the lane exactly when the lane has an even number of points   *)
(* and the control goes to its last.                                          *)
THEOREM ControlSentInLane == LsSpec => []SentInLane
<1>1. LsInv => SentInLane
  BY DEF LsInv
<1>2. QED BY <1>1, LaneSpanInvariant, PTL

(* What is sent is what was shown, unless it began at the end of the lane.    *)
THEOREM ControlSentIsShown == LsSpec => []SentIsShown
<1>1. LsInv => SentIsShown
  BY DEF LsInv
<1>2. QED BY <1>1, LaneSpanInvariant, PTL

(* The piece shown begins at the click, and is long enough until it is drawn. *)
THEOREM PieceShownFromStart == LsSpec => []ShownFromStart
<1>1. LsInv => ShownFromStart
  BY DEF LsInv
<1>2. QED BY <1>1, LaneSpanInvariant, PTL

(* The three together, for any lanes, points and widths.                      *)
THEOREM PieceSentCorrect == LsSpec => []PieceSent
<1>1. LsInv => PieceSent
  BY DEF LsInv, PieceSent
<1>2. QED BY <1>1, LaneSpanInvariant, PTL

-----------------------------------------------------------------------------
(* RopBook, for any number of rules, contents and saves: a save goes where    *)
(* it was aimed, and a deleted rule stays deleted.                            *)
RopOrNone == Rops \cup {NoRop}
RopIdOrNone == RopIds \cup {NoRop}
RopRow == [body : 0..(MaxTyped + 1), tab : Displayed \cup {"none"}, n : Nat]
RopForm == [id : RopIdOrNone, body : 0..(MaxTyped + 1)]
RopCall == [n : Int, id : RopIdOrNone, rop : Rops, as : {"save", "status"},
            to : RopIdOrNone, gone : BOOLEAN]

RopTyped ==
  /\ ropList \in [RopIds -> RopOrNone] /\ ropFile \in [RopIds -> RopOrNone]
  /\ ropAnswer \in [RopIds -> RopOrNone] /\ ropCache \in [RopIds -> RopOrNone]
  /\ ropRows \in [RopIds -> RopRow] /\ ropForm \in RopForm
  /\ ropCalls \subseteq RopCall
  /\ ropSent \in Int /\ ropTyped \in 0..MaxTyped
  /\ ropDrawn \subseteq RopIds /\ ropDeleted \subseteq ropDrawn

(* An identifier anyone knows has been drawn, and a call that is about a rule *)
(* is answered for that rule.                                                 *)
Known ==
  /\ \A id \in RopIds :
       ropList[id] # NoRop \/ ropFile[id] # NoRop \/ ropAnswer[id] # NoRop
         \/ ropRows[id] # NoRow => id \in ropDrawn
  /\ ropForm.id \in ropDrawn \cup {NoRop}
  /\ \A c \in ropCalls :
       /\ {c.id, c.to} \subseteq ropDrawn \cup {NoRop}
       /\ c.id # NoRop => c.to \in {c.id, NoRop}
       /\ c.rop.status = "D" => c.id # NoRop

Aimed == "reused" \notin ropMarks => ropForm.id = ropAim

(* What the page provides for.  Once it has been opened again, nothing it     *)
(* sent before is still to be handled.                                        *)
RopSound ==
  /\ ropMarks \cap {"early", "again", "gone", "unwritten"} = {}
  /\ "reload" \in ropUps => "lost" \notin ropMarks

(* Until the list is shown the page has no rows and sends nothing.            *)
Opening ==
  ropListing # "shown" =>
    /\ ropCalls = {}
    /\ \A id \in RopIds : ropRows[id] = NoRow
    /\ ropListing = "answered" => \A id \in ropDeleted : ~Shown(ropAnswer[id])

OneRow == \A id \in RopIds : ropRows[id].n <= 1

OneCall == \A c, d \in ropCalls : c.id = d.id => c = d

(* A rule deleted, or being deleted, has no row left to save it from.         *)
Dying ==
  /\ \A id \in ropDeleted :
       /\ ~Shown(ropList[id]) /\ ropRows[id] = NoRow
       /\ \A c \in ropCalls : c.id = id => c.rop.status = "D"
  /\ \A c \in ropCalls : c.rop.status = "D" => ropRows[c.id] = NoRow

(* A new rule has no row until its answer.                                    *)
Newborn ==
  \A c \in ropCalls : c.id = NoRop /\ c.to # NoRop =>
    /\ ropRows[c.to] = NoRow /\ c.to \notin ropDeleted
    /\ \A d \in ropCalls : d.id # c.to

Deletes == RopSound => Opening /\ OneRow /\ OneCall /\ Dying /\ Newborn

RopInv == RopTyped /\ Known /\ Aimed /\ RestartKeepsRules /\ Deletes

(* There is a least one among the identifiers not drawn yet.                  *)
LEMMA LeastFresh == Fresh # {} => Min(Fresh) \in Fresh
<1> SUFFICES ASSUME Fresh # {} PROVE Min(Fresh) \in Fresh
  OBVIOUS
<1>1. Fresh \subseteq Nat
  BY RopAssumption DEF RopAssumption, Fresh
<1>2. PICK x \in Fresh : \A y \in Fresh : ~(<<y, x>> \in OpToRel(<, Nat))
  BY <1>1, NatLessThanWellFounded, WFMin, Zenon
<1>3. \A y \in Fresh : y \in Nat /\ x \in Nat /\ ~(y < x)
  BY <1>1, <1>2 DEF OpToRel
<1>4. \A y \in Fresh : x <= y
  BY <1>3
<1> QED
  BY <1>4 DEF Min

LEMMA RopInitial == RopInit => RopInv
<1> SUFFICES ASSUME RopInit PROVE RopInv
  OBVIOUS
<1> USE RopAssumption DEF RopAssumption, RopInit
<1>1. NoRow \in RopRow /\ EmptyForm \in RopForm /\ NoRops \in [RopIds -> RopOrNone]
  BY DEF NoRow, RopRow, EmptyForm, RopForm, RopIdOrNone, NoRops, RopOrNone
<1>2. RopTyped
  BY <1>1 DEF RopTyped, RopOrNone
<1>3. Known
  BY DEF Known, NoRops, EmptyForm
<1>4. Aimed /\ RestartKeepsRules
  BY DEF Aimed, EmptyForm, RestartKeepsRules
<1>5. Deletes
  BY DEF Deletes, Opening, OneRow, OneCall, Dying, Newborn, NoRow
<1> QED
  BY <1>2, <1>3, <1>4, <1>5 DEF RopInv

(* What a step marks stays marked, but for a page opened again.               *)
LEMMA SoundBefore ==
  ASSUME ropMarks \subseteq ropMarks', ropUps \subseteq ropUps'
  PROVE  RopSound' => RopSound
BY DEF RopSound

LEMMA DoNullKeeps == RopInv /\ DoNull => RopInv'
<1> SUFFICES ASSUME RopInv, DoNull PROVE RopInv'
  OBVIOUS
<1> USE DEF RopInv, DoNull, ropServer, ropEdit
<1>1. RopTyped'
  BY DEF RopTyped
<1>2. Known'
  BY DEF Known
<1>3. Aimed' /\ RestartKeepsRules'
  BY DEF Aimed, RestartKeepsRules
<1>4. RopSound' => RopSound
  BY SoundBefore
<1>5. Deletes'
  BY <1>4 DEF Deletes, Opening, OneRow, OneCall, Dying, Newborn
<1> QED
  BY <1>1, <1>2, <1>3, <1>5

LEMMA DisplayKeeps == RopInv /\ DisplayExistingRules => RopInv'
<1> SUFFICES ASSUME RopInv, DisplayExistingRules PROVE RopInv'
  OBVIOUS
<1> USE RopAssumption DEF RopAssumption, RopInv, DisplayExistingRules, ropServer, ropEdit
<1>0. ropDeleted \subseteq RopIds
  BY DEF RopTyped
<1>1. \A id \in RopIds : ropRows'[id] \in RopRow /\ ropRows'[id].n <= 1
  <2> TAKE id \in RopIds
  <2>1. CASE ropAnswer[id] # NoRop /\ ropAnswer[id].status \in Displayed
    <3>1. ropAnswer[id] \in Rops
      BY <2>1 DEF RopTyped, RopOrNone
    <3> QED
      BY <2>1, <3>1 DEF RopRow, Rops
  <2>2. CASE ~(ropAnswer[id] # NoRop /\ ropAnswer[id].status \in Displayed)
    BY <2>2 DEF NoRow, RopRow
  <2> QED
    BY <2>1, <2>2
<1>2. \A id \in RopIds : ~Shown(ropAnswer[id]) => ropRows'[id] = NoRow
  BY DEF Shown
<1>3. RopTyped'
  BY <1>1 DEF RopTyped, NoRops, RopOrNone
<1>4. Known'
  BY <1>2 DEF Known, NoRops, Shown
<1>5. Aimed' /\ RestartKeepsRules'
  BY DEF Aimed, RestartKeepsRules
<1>6. RopSound' => RopSound
  BY SoundBefore
<1>7. Deletes'
  BY <1>0, <1>1, <1>2, <1>6 DEF Deletes, Opening, OneRow, OneCall, Dying, Newborn
<1> QED
  BY <1>3, <1>4, <1>5, <1>7

(* A step of the user that changes nothing but the form and what is aimed at. *)
LEMMA FormKeeps ==
  ASSUME RopInv, UNCHANGED <<ropServer, ropPage, ropCalls, ropSent, ropUps>>,
         ropMarks' = ropMarks \cup Touched,
         ropForm' \in RopForm, ropForm'.id \in ropDrawn \cup {NoRop},
         ropForm'.id = ropAim' \/ (ropForm'.id = ropForm.id /\ ropAim' = ropAim),
         ropTyped' \in 0..MaxTyped
  PROVE  RopInv'
<1> USE DEF RopInv, ropServer, ropPage
<1>1. RopTyped'
  BY DEF RopTyped
<1>2. Known'
  BY DEF Known
<1>3. Aimed' /\ RestartKeepsRules'
  BY DEF Aimed, RestartKeepsRules
<1>4. RopSound' => RopSound
  BY SoundBefore
<1>5. Deletes'
  BY <1>4 DEF Deletes, Opening, OneRow, OneCall, Dying, Newborn
<1> QED
  BY <1>1, <1>2, <1>3, <1>5

LEMMA TypeRuleKeeps == RopInv /\ TypeRule => RopInv'
<1> SUFFICES ASSUME RopInv, TypeRule PROVE RopInv'
  OBVIOUS
<1> USE RopAssumption DEF RopAssumption, RopInv, TypeRule
<1>1. ropTyped' \in 0..MaxTyped /\ ropTyped + 2 \in 0..(MaxTyped + 1)
  BY DEF RopTyped
<1>2. ropForm' \in RopForm /\ ropForm'.id = ropForm.id
  BY <1>1 DEF RopTyped, RopForm
<1>3. ropForm.id \in ropDrawn \cup {NoRop}
  BY DEF Known
<1> QED
  BY <1>1, <1>2, <1>3, FormKeeps

LEMMA ClickLoadKeeps ==
  ASSUME NEW id \in RopIds, NEW copying \in BOOLEAN, RopInv, ClickLoad(id, copying)
  PROVE  RopInv'
<1> USE RopAssumption DEF RopAssumption, RopInv, ClickLoad, LoadRuleRow, ropEdit
<1>1. id \in ropDrawn
  BY DEF Known, NoRow
<1>2. ropCache[id] # NoRop => ropCache[id] \in Rops
  BY DEF RopTyped, RopOrNone
<1>3. ropForm' \in RopForm
  BY <1>2 DEF RopForm, RopIdOrNone, Rops
<1>4. ropForm'.id = ropAim' /\ ropForm'.id \in ropDrawn \cup {NoRop}
  BY <1>1
<1>5. ropTyped' \in 0..MaxTyped
  BY DEF RopTyped
<1> QED
  BY <1>3, <1>4, <1>5, FormKeeps

LEMMA ClearFormKeeps == RopInv /\ ClearForm => RopInv'
<1> SUFFICES ASSUME RopInv, ClearForm PROVE RopInv'
  OBVIOUS
<1> USE RopAssumption DEF RopAssumption, RopInv, ClearForm, ResetForm, EmptyForm
<1>1. ropForm' \in RopForm /\ ropForm'.id = NoRop
  BY DEF RopForm, RopIdOrNone
<1>2. ropTyped' \in 0..MaxTyped
  BY DEF RopTyped
<1> QED
  BY <1>1, <1>2, FormKeeps

LEMMA DeleteRuleKeeps ==
  ASSUME NEW id \in RopIds, RopInv, DeleteRule(id)
  PROVE  RopInv'
<1> USE RopAssumption DEF RopAssumption, RopInv, DeleteRule, ropServer, ropEdit
<1> DEFINE c == Call("status", id, Rop(ropCache[id].body, "D"))
<1>0. /\ ropCache' = ropCache \/ ropCache' = [ropCache EXCEPT ![id] = NoRop]
      /\ \/ ropCalls' = ropCalls /\ ropSent' = ropSent
         \/ ropCache[id] # NoRop /\ ropCalls' = ropCalls \cup {c} /\ ropSent' = ropSent + 1
  BY DEF UpdateRuleStatus
<1>1. ropRows[id] \in RopRow /\ ropRows[id] # NoRow
  BY DEF RopTyped, NoRow
<1>2. id \in ropDrawn
  BY <1>1 DEF Known
<1>3. /\ c.id = id /\ c.to = NoRop /\ c.rop.status = "D"
      /\ ropCache[id] # NoRop => c \in RopCall
  <2>1. c.id = id /\ c.to = NoRop /\ c.rop.status = "D"
    BY DEF Call, Rop
  <2>2. ASSUME ropCache[id] # NoRop PROVE c \in RopCall
    <3>1. ropCache[id] \in Rops
      BY <2>2 DEF RopTyped, RopOrNone
    <3>2. Rop(ropCache[id].body, "D") \in Rops
      BY <3>1 DEF Rops, Rop
    <3> QED
      BY <3>2 DEF Call, RopCall, RopIdOrNone, RopTyped
  <2> QED
    BY <2>1, <2>2
<1> HIDE DEF c
<1>4. /\ ropRows' \in [RopIds -> RopRow]
      /\ \A x \in RopIds : x # id => ropRows'[x] = ropRows[x]
      /\ ropRows[id].n <= 1 => ropRows'[id] = NoRow
  <2>1. ASSUME ropRows[id].n > 1 PROVE [ropRows[id] EXCEPT !.n = ropRows[id].n - 1] \in RopRow
    BY <1>1, <2>1 DEF RopRow
  <2>2. NoRow \in RopRow
    BY DEF NoRow, RopRow
  <2>3. ropRows' = [ropRows EXCEPT ![id] =
          IF ropRows[id].n > 1 THEN [ropRows[id] EXCEPT !.n = ropRows[id].n - 1] ELSE NoRow]
    BY DEF RowRemoved
  <2>4. ropRows \in [RopIds -> RopRow] /\ ropRows[id].n \in Nat
    BY <1>1 DEF RopTyped, RopRow
  <2> QED
    BY <2>1, <2>2, <2>3, <2>4
<1>5. RopTyped'
  <2>1. ropCache' \in [RopIds -> RopOrNone]
    BY <1>0 DEF RopTyped, RopOrNone
  <2>2. ropCalls' \subseteq RopCall /\ ropSent' \in Int
    BY <1>0, <1>3 DEF RopTyped
  <2> QED
    BY <1>4, <2>1, <2>2 DEF RopTyped
<1>6. Known'
  BY <1>0, <1>2, <1>3, <1>4 DEF Known
<1>7. Aimed' /\ RestartKeepsRules'
  BY DEF Aimed, RestartKeepsRules
<1>8. ASSUME RopSound' PROVE RopSound /\ \A d \in ropCalls : d.id # id
  <2>1. RopSound
    BY <1>8, SoundBefore
  <2>2. "again" \notin Again(id)
    BY <1>8 DEF RopSound
  <2> QED
    BY <2>1, <2>2 DEF Again
<1>9. Deletes'
  <2> SUFFICES ASSUME RopSound' PROVE (Opening /\ OneRow /\ OneCall /\ Dying /\ Newborn)'
    BY DEF Deletes
  <2>1. RopSound /\ (\A d \in ropCalls : d.id # id)
    BY <1>8
  <2>2. Opening /\ OneRow /\ OneCall /\ Dying /\ Newborn
    BY <2>1 DEF Deletes
  <2>3. ropRows'[id] = NoRow /\ \A x \in RopIds : ropRows'[x] = ropRows[x] \/ ropRows'[x] = NoRow
    BY <1>4, <2>2 DEF OneRow
  <2>4. ropDeleted \subseteq RopIds /\ \A d \in ropCalls : d.id \in RopIdOrNone /\ d.to \in RopIdOrNone
    BY DEF RopTyped, RopCall
  <2>5. Opening'
    BY <1>1, <2>2 DEF Opening
  <2>6. OneRow'
    BY <2>2, <2>3 DEF OneRow, NoRow
  <2>7. OneCall'
    BY <1>0, <1>3, <2>1, <2>2 DEF OneCall
  <2>8. Dying'
    <3>1. \A d \in ropCalls : d.rop.status = "D" => d.id \in RopIds
      BY <2>4 DEF Known, RopIdOrNone
    <3> QED
      BY <1>0, <1>3, <2>2, <2>3, <2>4, <3>1 DEF Dying
  <2>9. Newborn'
    <3>1. \A d \in ropCalls : d.id = NoRop /\ d.to # NoRop => d.to # id /\ d.to \in RopIds
      BY <1>1, <2>2, <2>4 DEF Newborn, RopIdOrNone
    <3>2. \A d \in ropCalls' : d \in ropCalls \/ (d.id = id /\ id # NoRop)
      BY <1>0, <1>3
    <3>3. \A d \in ropCalls : d.id = NoRop /\ d.to # NoRop => ropRows'[d.to] = NoRow
      BY <2>2, <2>3, <3>1 DEF Newborn
    <3> QED
      BY <2>2, <3>1, <3>2, <3>3 DEF Newborn
  <2> QED
    BY <2>5, <2>6, <2>7, <2>8, <2>9
<1> QED
  BY <1>5, <1>6, <1>7, <1>9

LEMMA MoveRuleKeeps ==
  ASSUME NEW id \in RopIds, NEW from \in {"A", "I"}, NEW to \in {"A", "I"},
         RopInv, MoveRule(id, from, to)
  PROVE  RopInv'
<1> USE RopAssumption DEF RopAssumption, RopInv, MoveRule, ropServer, ropEdit
<1>0. ropCache' = ropCache /\ ropCalls' = ropCalls /\ ropSent' = ropSent
  BY DEF UpdateRuleStatus, ButtonOf
<1>1. ropRows \in [RopIds -> RopRow] /\ ropRows[id] \in RopRow /\ ropRows[id] # NoRow
  BY DEF RopTyped, NoRow
<1>2. id \in ropDrawn
  BY <1>1 DEF Known
<1>3. /\ ropRows' \in [RopIds -> RopRow] /\ ropRows'[id].n = ropRows[id].n
      /\ \A x \in RopIds : x # id => ropRows'[x] = ropRows[x]
  <2>1. [ropRows[id] EXCEPT !.tab = to] \in RopRow
    BY <1>1 DEF RopRow, Displayed
  <2>2. [ropRows[id] EXCEPT !.tab = to].n = ropRows[id].n
    BY <1>1 DEF RopRow
  <2>3. ropRows' = [ropRows EXCEPT ![id] = [ropRows[id] EXCEPT !.tab = to]]
    OBVIOUS
  <2> QED
    BY <1>1, <2>1, <2>2, <2>3
<1>4. RopTyped'
  BY <1>0, <1>3 DEF RopTyped
<1>5. Known'
  BY <1>0, <1>2, <1>3 DEF Known
<1>6. Aimed' /\ RestartKeepsRules'
  BY DEF Aimed, RestartKeepsRules
<1>7. RopSound' => RopSound
  BY SoundBefore
<1>8. \A x \in RopIds : ropRows[x] = NoRow => ropRows'[x] = NoRow
  BY <1>1, <1>3
<1>9. Deletes'
  <2>1. ropDeleted \subseteq RopIds /\ \A d \in ropCalls : d.id \in RopIdOrNone /\ d.to \in RopIdOrNone
    BY DEF RopTyped, RopCall
  <2>2. \A d \in ropCalls : d.rop.status = "D" => d.id \in RopIds
    BY <2>1 DEF Known, RopIdOrNone
  <2> QED
    BY <1>0, <1>3, <1>7, <1>8, <2>1, <2>2
    DEF Deletes, Opening, OneRow, OneCall, Dying, Newborn, RopIdOrNone
<1> QED
  BY <1>4, <1>5, <1>6, <1>9

LEMMA SaveRuleKeeps == RopInv /\ SaveRule => RopInv'
<1> SUFFICES ASSUME RopInv, SaveRule PROVE RopInv'
  OBVIOUS
<1> USE RopAssumption DEF RopAssumption, RopInv, SaveRule, ropServer, ropPage, ropEdit
<1> DEFINE c == Call("save", ropForm.id, Rop(ropForm.body, "U"))
<1>0. ropCalls' = ropCalls \cup {c} /\ ropSent' = ropSent + 1
  OBVIOUS
<1>1. c \in RopCall /\ c.id = ropForm.id /\ c.to = NoRop /\ c.rop.status = "U"
  <2>1. ropForm.id \in RopIdOrNone /\ Rop(ropForm.body, "U") \in Rops
    BY DEF RopTyped, RopForm, Rops, Rop, Displayed
  <2> QED
    BY <2>1 DEF Call, RopCall, Rop, RopTyped, RopIdOrNone
<1> HIDE DEF c
<1>2. RopTyped'
  BY <1>0, <1>1 DEF RopTyped
<1>3. Known'
  BY <1>0, <1>1 DEF Known
<1>4. Aimed' /\ RestartKeepsRules'
  BY DEF Aimed, RestartKeepsRules
<1>5. ASSUME RopSound'
      PROVE  /\ RopSound /\ ropListing = "shown"
             /\ \A d \in ropCalls : d.id # ropForm.id
             /\ ropForm.id # NoRop => ropRows[ropForm.id] # NoRow
  <2>1. RopSound
    BY <1>5, SoundBefore
  <2>2. ropMarks' \cap {"early", "again", "gone"} = {}
    BY <1>5 DEF RopSound
  <2> QED
    BY <2>1, <2>2 DEF Again
<1>6. Deletes'
  <2> SUFFICES ASSUME RopSound' PROVE (Opening /\ OneRow /\ OneCall /\ Dying /\ Newborn)'
    BY DEF Deletes
  <2>1. Opening /\ OneRow /\ OneCall /\ Dying /\ Newborn
    BY <1>5 DEF Deletes
  <2>2. Opening' /\ OneRow'
    BY <1>5, <2>1 DEF Opening, OneRow
  <2>3. OneCall'
    BY <1>0, <1>1, <1>5, <2>1 DEF OneCall
  <2>4. Dying'
    <3>1. ropDeleted \subseteq RopIds
      BY DEF RopTyped
    <3>2. ropForm.id \notin ropDeleted
      BY <1>5, <2>1, <3>1 DEF Dying
    <3> QED
      BY <1>0, <1>1, <2>1, <3>2 DEF Dying
  <2>5. Newborn'
    BY <1>0, <1>1, <1>5, <2>1 DEF Newborn
  <2> QED
    BY <2>2, <2>3, <2>4, <2>5
<1> QED
  BY <1>2, <1>3, <1>4, <1>6

(* Handling a call changes the one rule it is about, or a new one.            *)
LEMMA DoSaveKeeps ==
  ASSUME NEW c \in ropCalls, NEW written \in BOOLEAN, RopInv, DoSave(c, written)
  PROVE  RopInv'
<1> USE RopAssumption DEF RopAssumption, RopInv, ropPage, ropEdit
<1>1. PICK id \in (IF c.id # NoRop THEN {c.id} ELSE IF Fresh = {} THEN {} ELSE {Min(Fresh)}) :
        /\ c.to = NoRop
        /\ ropList' = [ropList EXCEPT ![id] = Listed(c.rop)]
        /\ ropFile' = IF written THEN Filed(id, c.rop) ELSE ropFile
        /\ ropDrawn' = ropDrawn \cup {id}
        /\ ropDeleted' = IF c.rop.status = "D" THEN ropDeleted \cup {id} ELSE ropDeleted
        /\ ropCalls' = (ropCalls \ {c})
             \cup (IF written /\ ~c.gone THEN {[c EXCEPT !.to = id]} ELSE {})
        /\ ropMarks' = ropMarks \cup (IF written THEN {} ELSE {"unwritten"})
        /\ UNCHANGED <<ropPage, ropEdit, ropSent, ropUps>>
  BY DEF DoSave
<1>2. c \in RopCall /\ c.rop \in Rops
  BY DEF RopTyped, RopCall
<1>3. id \in RopIds /\ IF c.id # NoRop THEN id = c.id ELSE id \in Fresh
  BY <1>1, <1>2, LeastFresh DEF RopCall, RopIdOrNone, Fresh
<1> DEFINE d == [c EXCEPT !.to = id]
<1>4. d \in RopCall /\ d.to = id /\ d.id = c.id /\ d.rop = c.rop
  BY <1>2, <1>3 DEF RopCall, RopIdOrNone
<1> HIDE DEF d
<1>5. \A e \in ropCalls' : e \in ropCalls \ {c} \/ e = d
  BY <1>1 DEF d
<1>6. RopTyped'
  <2>1. Listed(c.rop) \in RopOrNone
    BY <1>2 DEF Listed, RopOrNone
  <2>2. ropList' \in [RopIds -> RopOrNone] /\ ropFile' \in [RopIds -> RopOrNone]
    BY <1>1, <1>2, <1>3, <2>1 DEF RopTyped, Filed, RopOrNone
  <2>3. ropDrawn' \subseteq RopIds /\ ropDeleted' \subseteq ropDrawn'
    BY <1>1, <1>3 DEF RopTyped
  <2>4. ropCalls' \subseteq RopCall
    BY <1>4, <1>5 DEF RopTyped
  <2> QED
    BY <1>1, <2>2, <2>3, <2>4 DEF RopTyped
<1>7. Known'
  <2>1. ASSUME NEW x \in RopIds, x # id
        PROVE  ropList'[x] = ropList[x] /\ ropFile'[x] = ropFile[x]
    BY <1>1, <2>1 DEF Filed, RopTyped
  <2>2. \A e \in ropCalls' :
          /\ {e.id, e.to} \subseteq ropDrawn' \cup {NoRop}
          /\ e.id # NoRop => e.to \in {e.id, NoRop}
          /\ e.rop.status = "D" => e.id # NoRop
    BY <1>1, <1>3, <1>4, <1>5 DEF Known
  <2> QED
    BY <1>1, <2>1, <2>2 DEF Known
<1>8. Aimed'
  BY <1>1 DEF Aimed
<1>9. RestartKeepsRules'
  <2> SUFFICES ASSUME "unwritten" \notin ropMarks', NEW x \in RopIds, ropList'[x] # ropFile'[x]
               PROVE  ropList'[x] = NoRop /\ ropFile'[x].status = "D"
    BY DEF RestartKeepsRules
  <2>1. written
    BY <1>1
  <2>2. CASE x = id
    BY <1>1, <1>3, <2>1, <2>2 DEF Filed, Listed, RopTyped
  <2>3. CASE x # id
    BY <1>1, <2>1, <2>3 DEF Filed, RopTyped, RestartKeepsRules
  <2> QED
    BY <2>2, <2>3
<1>10. Deletes'
  <2> SUFFICES ASSUME RopSound' PROVE (Opening /\ OneRow /\ OneCall /\ Dying /\ Newborn)'
    BY DEF Deletes
  <2>1. RopSound
    BY <1>1, SoundBefore
  <2>2. Opening /\ OneRow /\ OneCall /\ Dying /\ Newborn
    BY <2>1 DEF Deletes
  <2>3. /\ ropDeleted \subseteq ropDrawn /\ ropDrawn \subseteq RopIds
        /\ \A e \in ropCalls : e.id \in RopIdOrNone /\ e.to \in RopIdOrNone
    BY DEF RopTyped, RopCall
  <2>4. Opening' /\ OneRow'
    BY <1>1, <2>2 DEF Opening, OneRow
  <2>5. OneCall'
    BY <1>4, <1>5, <2>2 DEF OneCall
  <2>6. c.id = NoRop => /\ ropRows[id] = NoRow /\ id \notin ropDeleted
                        /\ \A e \in ropCalls : e.id # id
    BY <1>3, <2>3 DEF Known, Fresh
  <2>7. c.rop.status = "D" => ropRows[id] = NoRow /\ c.id = id
    BY <1>3, <2>2 DEF Dying, Known
  <2>8. c.rop.status # "D" => id \notin ropDeleted
    BY <1>3, <2>2, <2>6 DEF Dying
  <2>9. Dying'
    <3>1. ASSUME NEW x \in ropDeleted', x = id
          PROVE  /\ ~Shown(ropList'[x]) /\ ropRows'[x] = NoRow
                 /\ \A e \in ropCalls' : e.id = x => e.rop.status = "D"
      <4>1. c.rop.status = "D" /\ c.id = id /\ ropRows[id] = NoRow
        BY <1>1, <2>7, <2>8, <3>1
      <4>2. ropList'[id] = NoRop
        BY <1>1, <1>3, <4>1 DEF Listed, RopTyped
      <4>3. \A e \in ropCalls' : e.id = id => e.rop.status = "D"
        BY <1>4, <1>5, <2>2, <4>1 DEF OneCall
      <4> QED
        BY <1>1, <3>1, <4>1, <4>2, <4>3 DEF Shown
    <3>2. ASSUME NEW x \in ropDeleted', x # id
          PROVE  /\ ~Shown(ropList'[x]) /\ ropRows'[x] = NoRow
                 /\ \A e \in ropCalls' : e.id = x => e.rop.status = "D"
      <4>1. x \in ropDeleted /\ ropList'[x] = ropList[x]
        BY <1>1, <2>3, <3>2 DEF RopTyped
      <4>2. c.id # x
        BY <1>3, <2>3, <3>2, <4>1
      <4> QED
        BY <1>1, <1>4, <1>5, <2>2, <4>1, <4>2 DEF Dying
    <3>3. \A e \in ropCalls' : e.rop.status = "D" => ropRows'[e.id] = NoRow
      BY <1>1, <1>4, <1>5, <2>2 DEF Dying
    <3> QED
      BY <3>1, <3>2, <3>3 DEF Dying
  <2>10. Newborn'
    <3> SUFFICES ASSUME NEW e \in ropCalls', e.id = NoRop, e.to # NoRop
                 PROVE  /\ ropRows'[e.to] = NoRow /\ e.to \notin ropDeleted'
                        /\ \A f \in ropCalls' : f.id # e.to
      BY DEF Newborn
    <3>1. CASE e = d
      <4>1. c.rop.status # "D"
        BY <1>4, <3>1 DEF Known
      <4>2. e.to = id /\ ropRows[id] = NoRow /\ id \notin ropDeleted' /\ \A f \in ropCalls : f.id # id
        BY <1>1, <1>4, <2>6, <3>1, <4>1
      <4> QED
        BY <1>1, <1>4, <1>5, <4>2
    <3>2. CASE e # d
      <4>1. e \in ropCalls /\ e # c
        BY <1>5, <3>2
      <4>2. ropRows[e.to] = NoRow /\ e.to \notin ropDeleted /\ \A f \in ropCalls : f.id # e.to
        BY <2>2, <4>1 DEF Newborn
      <4>3. c.id # NoRop
        BY <2>2, <4>1 DEF OneCall
      <4>4. id # e.to
        BY <1>3, <4>2, <4>3
      <4> QED
        BY <1>1, <1>4, <1>5, <4>2, <4>4
    <3> QED
      BY <3>1, <3>2
  <2> QED
    BY <2>4, <2>5, <2>9, <2>10
<1> QED
  BY <1>6, <1>7, <1>8, <1>9, <1>10

LEMMA RopLostKeeps == ASSUME NEW c \in ropCalls, RopInv, RopLost(c) PROVE RopInv'
<1> USE DEF RopInv, RopLost, ropServer, ropPage, ropEdit
<1>1. RopTyped'
  BY DEF RopTyped
<1>2. Known'
  BY DEF Known
<1>3. Aimed' /\ RestartKeepsRules'
  BY DEF Aimed, RestartKeepsRules
<1>4. RopSound' => RopSound
  BY SoundBefore
<1>5. Deletes'
  BY <1>4 DEF Deletes, Opening, OneRow, OneCall, Dying, Newborn
<1> QED
  BY <1>1, <1>2, <1>3, <1>5

LEMMA RopRestartKeeps == RopInv /\ RopRestart => RopInv'
<1> SUFFICES ASSUME RopInv, RopRestart PROVE RopInv'
  OBVIOUS
<1> USE DEF RopInv, RopRestart, ropPage, ropEdit
<1>1. RopTyped'
  BY DEF RopTyped
<1>2. Known'
  BY DEF Known
<1>3. Aimed' /\ RestartKeepsRules'
  BY DEF Aimed, RestartKeepsRules
<1>4. RopSound' => RopSound
  BY SoundBefore
<1>5. RopSound => \A id \in RopIds : ~Shown(ropList[id]) => ~Shown(ropList'[id])
  BY DEF RopSound, RestartKeepsRules, Shown, Displayed
<1>6. ropDeleted \subseteq RopIds
  BY DEF RopTyped
<1>7. Deletes'
  BY <1>4, <1>5, <1>6 DEF Deletes, Opening, OneRow, OneCall, Dying, Newborn
<1> QED
  BY <1>1, <1>2, <1>3, <1>7

LEMMA RopReloadKeeps == RopInv /\ RopReload => RopInv'
<1> SUFFICES ASSUME RopInv, RopReload PROVE RopInv'
  OBVIOUS
<1> USE RopAssumption DEF RopAssumption, RopInv, RopReload, ropServer
<1>1. NoRow \in RopRow /\ EmptyForm \in RopForm /\ EmptyForm.id = NoRop
      /\ NoRops \in [RopIds -> RopOrNone]
  BY DEF NoRow, RopRow, EmptyForm, RopForm, RopIdOrNone, NoRops, RopOrNone
<1>2. ASSUME NEW d \in ropCalls'
      PROVE  \E c \in ropCalls : d \in RopCall /\ d.id = c.id /\ d.to = c.to /\ d.rop = c.rop
  <2>1. PICK c \in ropCalls : d = [c EXCEPT !.gone = TRUE]
    BY <1>2
  <2>2. c \in RopCall
    BY DEF RopTyped
  <2> QED
    BY <2>1, <2>2 DEF RopCall
<1>3. RopTyped'
  <2>1. ropCalls' \subseteq RopCall
    BY <1>2
  <2> QED
    BY <1>1, <2>1 DEF RopTyped
<1>4. Known'
  BY <1>1, <1>2 DEF Known, NoRops
<1>5. Aimed' /\ RestartKeepsRules'
  BY <1>1 DEF Aimed, RestartKeepsRules
<1>6. ASSUME RopSound' PROVE RopSound /\ ropCalls' = {}
  BY <1>6 DEF RopSound
<1>7. Deletes'
  <2> SUFFICES ASSUME RopSound' PROVE (Opening /\ OneRow /\ OneCall /\ Dying /\ Newborn)'
    BY DEF Deletes
  <2>1. Dying /\ ropCalls' = {}
    BY <1>6 DEF Deletes
  <2>2. ropDeleted \subseteq RopIds
    BY DEF RopTyped
  <2>3. Opening' /\ OneRow' /\ OneCall' /\ Newborn'
    BY <2>1 DEF Opening, OneRow, OneCall, Newborn, NoRow
  <2>4. Dying'
    BY <2>1, <2>2 DEF Dying
  <2> QED
    BY <2>3, <2>4
<1> QED
  BY <1>3, <1>4, <1>5, <1>7

(* The cache takes the rule as it was saved.                                  *)
LEMMA CachedType ==
  ASSUME NEW c \in ropCalls, RopInv, c.to # NoRop
  PROVE  /\ c \in RopCall /\ c.rop \in Rops /\ c.to \in RopIds
         /\ Cached(c) \in [RopIds -> RopOrNone]
<1>1. c \in RopCall /\ c.rop \in Rops /\ c.to \in RopIds
  BY DEF RopInv, RopTyped, RopCall, RopIdOrNone
<1> QED
  BY <1>1 DEF Cached, RopInv, RopTyped, RopOrNone

(* The answer to a save gives a row to a new rule, and to no other.           *)
LEMMA RowsAfterSave ==
  ASSUME NEW c \in ropCalls, RopInv, c.to # NoRop
  PROVE  /\ RowAfterSave(c) \in [RopIds -> RopRow]
         /\ \A x \in RopIds :
              \/ /\ ropRows[x] = NoRow => RowAfterSave(c)[x] = NoRow
                 /\ RowAfterSave(c)[x].n = ropRows[x].n
              \/ /\ x = c.to /\ c.id = NoRop
                 /\ RowAfterSave(c)[x].n = ropRows[x].n + 1
<1> USE RopAssumption DEF RopAssumption
<1>1. c \in RopCall /\ c.rop \in Rops /\ c.to \in RopIds
  BY CachedType
<1>2. c.rop.body \in 0..(MaxTyped + 1)
  BY <1>1 DEF Rops
<1>3. ropRows \in [RopIds -> RopRow]
  BY DEF RopInv, RopTyped
<1>4. \A x \in RopIds : ropRows[x].n \in Nat /\ ropRows[x] \in RopRow
  BY <1>3 DEF RopRow
<1>5. CASE ropListing # "shown"
  BY <1>3, <1>5 DEF RowAfterSave
<1>6. CASE ropListing = "shown" /\ c.id # NoRop
  <2>1. c.id \in RopIds
    BY <1>1, <1>6 DEF RopCall, RopIdOrNone
  <2> DEFINE row == ropRows[c.id]
             new == IF row.n > 0 THEN [row EXCEPT !.body = c.rop.body] ELSE row
  <2>2. new \in RopRow /\ new.n = row.n /\ (row = NoRow => new = NoRow)
    <3>1. row \in RopRow
      BY <1>4, <2>1
    <3>2. [row EXCEPT !.body = c.rop.body] \in RopRow /\ [row EXCEPT !.body = c.rop.body].n = row.n
      BY <1>2, <3>1 DEF RopRow
    <3> QED
      BY <3>1, <3>2 DEF NoRow
  <2>3. RowAfterSave(c) = [ropRows EXCEPT ![c.id] = new]
    BY <1>6 DEF RowAfterSave
  <2> HIDE DEF new
  <2> QED
    BY <1>3, <2>1, <2>2, <2>3
<1>7. CASE ropListing = "shown" /\ c.id = NoRop
  <2> DEFINE new == [body |-> c.rop.body, tab |-> "U", n |-> ropRows[c.to].n + 1]
  <2>0. ropRows[c.to].n + 1 \in Nat
    <3>1. c.to \in RopIds
      BY <1>1
    <3>2. ropRows[c.to].n \in Nat
      BY <1>4, <3>1, Zenon
    <3> QED
      BY <3>2
  <2>1. new \in RopRow /\ new.n = ropRows[c.to].n + 1
    <3>1. "U" \in Displayed \cup {"none"}
      BY DEF Displayed
    <3>2. \A b \in 0..(MaxTyped + 1), k \in Nat : [body |-> b, tab |-> "U", n |-> k] \in RopRow
      BY <3>1 DEF RopRow
    <3> QED
      BY <1>2, <2>0, <3>2
  <2>2. RowAfterSave(c) = [ropRows EXCEPT ![c.to] = new]
    BY <1>7 DEF RowAfterSave
  <2> HIDE DEF new
  <2> QED
    BY <1>1, <1>3, <1>7, <2>1, <2>2
<1> QED
  BY <1>5, <1>6, <1>7

LEMMA SaveAnsweredKeeps ==
  ASSUME NEW c \in ropCalls, RopInv, SaveAnswered(c)
  PROVE  RopInv'
<1> USE RopAssumption DEF RopAssumption, RopInv, ropServer
<1>1. /\ c.to # NoRop /\ ropCache' = Cached(c) /\ ropRows' = RowAfterSave(c)
      /\ ropForm' = EmptyForm /\ ropAim' = (IF "reused" \in ropMarks THEN ropAim ELSE NoRop)
      /\ ropCalls' = ropCalls \ {c}
      /\ UNCHANGED <<ropServer, ropListing, ropAnswer, ropTyped, ropSent, ropUps, ropMarks>>
  BY DEF SaveAnswered, ResetForm
<1>2. /\ c.to \in RopIds /\ ropCache' \in [RopIds -> RopOrNone]
      /\ ropRows' \in [RopIds -> RopRow]
  BY <1>1, CachedType, RowsAfterSave
<1>3. \A x \in RopIds :
        \/ (ropRows[x] = NoRow => ropRows'[x] = NoRow) /\ ropRows'[x].n = ropRows[x].n
        \/ x = c.to /\ c.id = NoRop /\ ropRows'[x].n = ropRows[x].n + 1
  BY <1>1, RowsAfterSave
<1>4. EmptyForm \in RopForm /\ EmptyForm.id = NoRop
  BY DEF EmptyForm, RopForm, RopIdOrNone
<1>5. RopTyped'
  BY <1>1, <1>2, <1>4 DEF RopTyped
<1>6. c.to \in ropDrawn
  BY <1>1 DEF Known
<1>7. Known'
  BY <1>1, <1>3, <1>4, <1>6 DEF Known
<1>8. Aimed' /\ RestartKeepsRules'
  BY <1>1, <1>4 DEF Aimed, RestartKeepsRules
<1>9. RopSound' => RopSound
  BY <1>1, SoundBefore
<1>10. Deletes'
  <2> SUFFICES ASSUME RopSound' PROVE (Opening /\ OneRow /\ OneCall /\ Dying /\ Newborn)'
    BY DEF Deletes
  <2>1. Opening /\ OneRow /\ OneCall /\ Dying /\ Newborn
    BY <1>9 DEF Deletes
  <2>2. /\ ropDeleted \subseteq RopIds
        /\ \A e \in ropCalls : e.id \in RopIdOrNone /\ e.to \in RopIdOrNone
    BY DEF RopTyped, RopCall
  <2>3. c.id = NoRop => /\ ropRows[c.to] = NoRow /\ c.to \notin ropDeleted
                        /\ \A e \in ropCalls : e.id # c.to
    BY <1>1, <2>1 DEF Newborn
  <2>4. Opening' /\ OneCall'
    BY <1>1, <2>1 DEF Opening, OneCall
  <2>5. OneRow'
    <3>1. NoRow.n = 0
      BY DEF NoRow
    <3> QED
      BY <1>3, <2>1, <2>3, <3>1 DEF OneRow
  <2>6. Dying'
    <3>1. \A e \in ropCalls : e.rop.status = "D" => e.id \in RopIds
      BY <2>2 DEF Known, RopIdOrNone
    <3>2. \A x \in RopIds : ropRows[x] = NoRow /\ ~(x = c.to /\ c.id = NoRop) => ropRows'[x] = NoRow
      BY <1>3
    <3> QED
      BY <1>1, <2>1, <2>2, <2>3, <3>1, <3>2 DEF Dying
  <2>7. Newborn'
    <3>1. ASSUME NEW e \in ropCalls', e.id = NoRop, e.to # NoRop
          PROVE  /\ ropRows'[e.to] = NoRow /\ e.to \notin ropDeleted'
                 /\ \A f \in ropCalls' : f.id # e.to
      <4>1. e \in ropCalls /\ e # c /\ e.to \in RopIds
        BY <1>1, <2>2, <3>1 DEF RopIdOrNone
      <4>2. c.id # NoRop
        BY <2>1, <3>1, <4>1 DEF OneCall
      <4>3. /\ ropRows[e.to] = NoRow /\ e.to \notin ropDeleted
            /\ \A f \in ropCalls : f.id # e.to
        BY <2>1, <3>1, <4>1 DEF Newborn
      <4> QED
        BY <1>1, <1>3, <4>1, <4>2, <4>3
    <3> QED
      BY <3>1 DEF Newborn
  <2> QED
    BY <2>4, <2>5, <2>6, <2>7
<1> QED
  BY <1>5, <1>7, <1>8, <1>10

LEMMA StatusAnsweredKeeps ==
  ASSUME NEW c \in ropCalls, RopInv, StatusAnswered(c)
  PROVE  RopInv'
<1> USE DEF RopInv, StatusAnswered, ropServer, ropEdit
<1>1. RopTyped'
  BY CachedType DEF RopTyped
<1>2. Known'
  BY DEF Known
<1>3. Aimed' /\ RestartKeepsRules'
  BY DEF Aimed, RestartKeepsRules
<1>4. RopSound' => RopSound
  BY SoundBefore
<1>5. Deletes'
  BY <1>4 DEF Deletes, Opening, OneRow, OneCall, Dying, Newborn
<1> QED
  BY <1>1, <1>2, <1>3, <1>5

LEMMA RopStutterKeeps == RopInv /\ UNCHANGED ropVars => RopInv'
BY DEF RopInv, ropVars, ropServer, ropPage, ropEdit, RopTyped, Known, Aimed, RestartKeepsRules,
       Deletes, RopSound, Opening, OneRow, OneCall, Dying, Newborn

LEMMA RopStepKeeps == RopInv /\ [RopNext]_ropVars => RopInv'
<1> SUFFICES ASSUME RopInv, [RopNext]_ropVars PROVE RopInv'
  OBVIOUS
<1>1. ASSUME DoNull PROVE RopInv'
  BY <1>1, DoNullKeeps
<1>2. ASSUME DisplayExistingRules PROVE RopInv'
  BY <1>2, DisplayKeeps
<1>3. ASSUME TypeRule PROVE RopInv'
  BY <1>3, TypeRuleKeeps
<1>4. ASSUME ClearForm PROVE RopInv'
  BY <1>4, ClearFormKeeps
<1>5. ASSUME SaveRule PROVE RopInv'
  BY <1>5, SaveRuleKeeps
<1>6. ASSUME RopRestart PROVE RopInv'
  BY <1>6, RopRestartKeeps
<1>7. ASSUME RopReload PROVE RopInv'
  BY <1>7, RopReloadKeeps
<1>8. ASSUME NEW id \in RopIds, NEW copying \in BOOLEAN, ClickLoad(id, copying) PROVE RopInv'
  BY <1>8, ClickLoadKeeps
<1>9. ASSUME NEW id \in RopIds, DeleteRule(id) PROVE RopInv'
  BY <1>9, DeleteRuleKeeps
<1>10. ASSUME NEW id \in RopIds, ArchiveRule(id) PROVE RopInv'
  BY <1>10, MoveRuleKeeps DEF ArchiveRule
<1>11. ASSUME NEW id \in RopIds, RestoreRule(id) PROVE RopInv'
  BY <1>11, MoveRuleKeeps DEF RestoreRule
<1>12. ASSUME NEW c \in ropCalls, NEW written \in BOOLEAN, DoSave(c, written) PROVE RopInv'
  BY <1>12, DoSaveKeeps
<1>13. ASSUME NEW c \in ropCalls, RopLost(c) PROVE RopInv'
  BY <1>13, RopLostKeeps
<1>14. ASSUME NEW c \in ropCalls, SaveAnswered(c) PROVE RopInv'
  BY <1>14, SaveAnsweredKeeps
<1>15. ASSUME NEW c \in ropCalls, StatusAnswered(c) PROVE RopInv'
  BY <1>15, StatusAnsweredKeeps
<1>16. ASSUME UNCHANGED ropVars PROVE RopInv'
  BY <1>16, RopStutterKeeps
<1> QED
  BY <1>1, <1>2, <1>3, <1>4, <1>5, <1>6, <1>7, <1>8, <1>9, <1>10, <1>11, <1>12, <1>13, <1>14,
     <1>15, <1>16 DEF RopNext

(* The invariant of the rules: unless the user does what the page does not    *)
(* provide for, or a call is lost after the page was opened again, no row is  *)
(* left from which a deleted rule could be saved (rop.js, RopMgr).            *)
THEOREM RopInvariant == RopSpec => []RopInv
BY RopInitial, RopStepKeeps, PTL DEF RopSpec

LEMMA InvKeepsRules == RopInv => RulesKept
<1> SUFFICES ASSUME RopInv PROVE RulesKept
  OBVIOUS
<1>1. SavesWhereAimed
  BY DEF RopInv, Aimed, SavesWhereAimed
<1>2. DeletedStaysDeleted
  <2> SUFFICES ASSUME ropMarks \cap {"early", "again", "gone", "lost", "unwritten"} = {}
               PROVE  \A id \in ropDeleted : ~Shown(ropList[id])
    BY DEF DeletedStaysDeleted
  <2>1. RopSound
    BY DEF RopSound
  <2> QED
    BY <2>1 DEF RopInv, Deletes, Dying
<1> QED
  BY <1>1, <1>2 DEF RopInv, RulesKept

(* For any number of rules, contents and saves: a save goes to the rule it    *)
(* was aimed at, a deleted rule stays deleted, and a restart loses none, but  *)
(* for the cases RulesKept names (RopMgr, rop.js, api-rop.js).                *)
THEOREM RulesKeptCorrect == RopSpec => []RulesKept
BY RopInvariant, InvKeepsRules, PTL

-----------------------------------------------------------------------------
(* RsuConsole, for any units, clicks and changes: the table is that of the    *)
(* last request that was served.                                              *)
RcCall == [n : Int, delete : SUBSET Ports, at : {"sent", "served", "failed"},
           list : SUBSET Ports, order : Int]

RcTyped ==
  /\ rcCalls \subseteq RcCall /\ rcTimers \in Nat /\ rcChanges \in Nat /\ rcClicks \in Int
  /\ rcOrder \in Nat /\ rcFrom \in Int /\ rcList \subseteq Ports

(* The last answer is shown or on its way, unless it was lost or overtaken.   *)
LastIsComing ==
  /\ rcFrom <= rcOrder /\ \A c \in rcCalls : c.at = "served" => c.order <= rcOrder
  /\ \/ rcMarks \cap {"overtaken", "failed"} # {} \/ rcFrom = rcOrder
     \/ \E c \in rcCalls : c.at = "served" /\ c.order = rcOrder

(* While nobody else changes the list, the last answer is the list.           *)
LastIsList ==
  rcChanges = 0 =>
    /\ \A c \in rcCalls : c.at = "served" /\ c.order = rcOrder => c.list = rcList
    /\ rcOrder > 0 /\ rcFrom = rcOrder => rcTable = rcList

RcInv == RcTyped /\ LastIsComing /\ LastIsList /\ OverlayIsTimed

LEMMA RcInitial == RcInit => RcInv
BY DEF RcInit, RcInv, RcTyped, LastIsComing, LastIsList, OverlayIsTimed

(* A request sent now is not served yet.                                      *)
LEMMA AskKeeps ==
  ASSUME NEW delete \in SUBSET Ports, RcInv, Ask(delete),
         UNCHANGED <<rcList, rcTable, rcOverlay, rcTimers, rcChanges, rcOrder, rcFrom, rcMarks>>
  PROVE  RcInv'
<1> DEFINE c == [n |-> rcClicks + 1, delete |-> delete, at |-> "sent", list |-> {}, order |-> 0]
<1>1. rcCalls' = rcCalls \cup {c} /\ rcClicks' = rcClicks + 1
  BY DEF Ask
<1>2. c \in RcCall /\ c.at # "served"
  BY DEF RcCall, RcInv, RcTyped
<1> HIDE DEF c
<1> QED
  BY <1>1, <1>2 DEF RcInv, RcTyped, LastIsComing, LastIsList, OverlayIsTimed

LEMMA ElsewhereKeeps ==
  ASSUME NEW p \in Ports, RcInv, Elsewhere(p)
  PROVE  RcInv'
BY DEF Elsewhere, RcInv, RcTyped, LastIsComing, LastIsList, OverlayIsTimed

LEMMA ServeListKeeps ==
  ASSUME NEW c \in rcCalls, RcInv, ServeList(c)
  PROVE  RcInv'
<1> USE DEF RcInv
<1>1. c \in RcCall
  BY DEF RcTyped
<1>2. CASE /\ rcList' = rcList \ c.delete /\ rcOrder' = rcOrder + 1
           /\ rcCalls' = (rcCalls \ {c}) \cup
                {[c EXCEPT !.at = "served", !.list = rcList \ c.delete, !.order = rcOrder + 1]}
           /\ UNCHANGED rcMarks
  <2> DEFINE d == [c EXCEPT !.at = "served", !.list = rcList \ c.delete, !.order = rcOrder + 1]
  <2>1. /\ d \in RcCall /\ d.at = "served" /\ d.order = rcOrder' /\ d.list = rcList'
    <3>1. rcList \ c.delete \in SUBSET Ports /\ rcOrder + 1 \in Int
      BY DEF RcTyped
    <3>2. \A list \in SUBSET Ports, order \in Int :
            LET e == [c EXCEPT !.at = "served", !.list = list, !.order = order]
            IN  e \in RcCall /\ e.at = "served" /\ e.order = order /\ e.list = list
      BY <1>1 DEF RcCall
    <3>3. rcList' = rcList \ c.delete /\ rcOrder' = rcOrder + 1
      BY <1>2
    <3> QED
      BY <3>1, <3>2, <3>3, ZenonT(60)
  <2>2. rcCalls' = (rcCalls \ {c}) \cup {d}
    BY <1>2
  <2> HIDE DEF d
  <2>3. UNCHANGED <<rcTable, rcMarkers, rcOverlay, rcTimers, rcClicks, rcChanges, rcFrom>>
    BY DEF ServeList
  <2>4. RcTyped'
    BY <1>2, <2>1, <2>2, <2>3 DEF RcTyped
  <2>5. LastIsComing'
    <3>1. rcOrder \in Int /\ rcFrom \in Int /\ \A e \in rcCalls : e.order \in Int
      BY DEF RcTyped, RcCall
    <3> QED
      BY <1>2, <2>1, <2>2, <2>3, <3>1 DEF LastIsComing
  <2>6. LastIsList'
    <3>1. rcOrder \in Int /\ rcFrom \in Int /\ \A e \in rcCalls : e.order \in Int
      BY DEF RcTyped, RcCall
    <3> QED
      BY <1>2, <2>1, <2>2, <2>3, <3>1 DEF LastIsList, LastIsComing
  <2> QED
    BY <2>3, <2>4, <2>5, <2>6 DEF OverlayIsTimed
<1>3. CASE /\ rcCalls' = (rcCalls \ {c}) \cup {[c EXCEPT !.at = "failed"]}
           /\ UNCHANGED <<rcList, rcOrder, rcMarks>>
  <2> DEFINE d == [c EXCEPT !.at = "failed"]
  <2>1. d \in RcCall /\ d.at = "failed" /\ c.at = "sent"
    BY <1>1 DEF RcCall, ServeList
  <2>2. rcCalls' = (rcCalls \ {c}) \cup {d}
    BY <1>3
  <2> HIDE DEF d
  <2>3. UNCHANGED <<rcTable, rcMarkers, rcOverlay, rcTimers, rcClicks, rcChanges, rcFrom>>
    BY DEF ServeList
  <2> QED
    BY <1>3, <2>1, <2>2, <2>3 DEF RcTyped, LastIsComing, LastIsList, OverlayIsTimed
<1> QED
  BY <1>2, <1>3 DEF ServeList

LEMMA AnswerListKeeps ==
  ASSUME NEW c \in rcCalls, RcInv, AnswerList(c)
  PROVE  RcInv'
<1> USE DEF RcInv
<1>1. /\ c \in RcCall /\ c.at = "served" /\ c.order \in Int /\ c.order <= rcOrder
      /\ rcCalls' = rcCalls \ {c}
      /\ rcTimers' = rcTimers + 1 /\ rcTable' = c.list /\ rcFrom' = c.order
      /\ rcMarks' = rcMarks \cup (IF c.order < rcFrom THEN {"overtaken"} ELSE {})
      /\ UNCHANGED <<rcList, rcClicks, rcChanges, rcOrder>>
  BY DEF AnswerList, DisplayRSUList, ShownFor, TimersStarted, RcTyped, RcCall, LastIsComing
<1>2. RcTyped' /\ OverlayIsTimed'
  BY <1>1 DEF RcTyped, OverlayIsTimed
<1>3. LastIsComing'
  <2>1. CASE c.order = rcOrder
    BY <1>1, <2>1 DEF LastIsComing
  <2>2. CASE c.order # rcOrder
    BY <1>1, <2>2 DEF LastIsComing, RcTyped
  <2> QED
    BY <2>1, <2>2
<1>4. LastIsList'
  BY <1>1 DEF LastIsList
<1> QED
  BY <1>2, <1>3, <1>4

LEMMA AnswerLostKeeps ==
  ASSUME NEW c \in rcCalls, RcInv, AnswerLost(c)
  PROVE  RcInv'
<1> USE DEF RcInv, AnswerLost
<1>1. RcTyped' /\ OverlayIsTimed' /\ LastIsList'
  BY DEF RcTyped, OverlayIsTimed, LastIsList
<1>2. LastIsComing'
  BY DEF LastIsComing
<1> QED
  BY <1>1, <1>2

LEMMA TimeoutOverlayKeeps == RcInv /\ TimeoutOverlay => RcInv'
BY DEF TimeoutOverlay, RcInv, RcTyped, LastIsComing, LastIsList, OverlayIsTimed

LEMMA RcStepKeeps == RcInv /\ [RcNext]_rcVars => RcInv'
<1> SUFFICES ASSUME RcInv, [RcNext]_rcVars PROVE RcInv'
  OBVIOUS
<1>1. ASSUME RefreshRSUs PROVE RcInv'
  BY <1>1, AskKeeps DEF RefreshRSUs
<1>2. ASSUME NEW p \in Ports, DelRSU(p) PROVE RcInv'
  BY <1>2, AskKeeps DEF DelRSU
<1>3. ASSUME NEW p \in Ports, Elsewhere(p) PROVE RcInv'
  BY <1>3, ElsewhereKeeps
<1>4. ASSUME NEW c \in rcCalls, ServeList(c) PROVE RcInv'
  BY <1>4, ServeListKeeps
<1>5. ASSUME NEW c \in rcCalls, AnswerList(c) PROVE RcInv'
  BY <1>5, AnswerListKeeps
<1>6. ASSUME NEW c \in rcCalls, AnswerLost(c) PROVE RcInv'
  BY <1>6, AnswerLostKeeps
<1>7. ASSUME TimeoutOverlay PROVE RcInv'
  BY <1>7, TimeoutOverlayKeeps
<1>8. ASSUME UNCHANGED rcVars PROVE RcInv'
  BY <1>8 DEF rcVars, RcInv, RcTyped, LastIsComing, LastIsList, OverlayIsTimed
<1> QED
  BY <1>1, <1>2, <1>3, <1>4, <1>5, <1>6, <1>7, <1>8 DEF RcNext

LEMMA ConsoleShows == RcInv => ShowsLastServed /\ OverlayIsTimed
BY DEF RcInv, LastIsComing, LastIsList, ShowsLastServed

-----------------------------------------------------------------------------
(* SimMonitor, for any vehicles: the distances noted for the vehicle that is  *)
(* followed are in the order it went through them.                            *)
SmMsg == [n : Int, click : Int, dist : Int]

(* Between an earlier and a later distance of a vehicle: it goes one way.     *)
Onward(v, before, now) == IF v \in Forward THEN before <= now ELSE now <= before

SmTyped ==
  /\ smDist \in [Cars -> Int] /\ smMsgs \subseteq SmMsg
  /\ smPolls \in Int /\ smClicks \in Nat /\ smLast \in Int
  /\ \/ smFollow = NoCar
     \/ smFollow \in [car : Cars, click : Int, dist : Int, lanes : {"unknown", "be", "eb"}]

SmNumbered ==
  /\ \A m \in smMsgs : m.n <= smPolls /\ (smPoll => m.n < smPolls) /\ m.click <= smClicks /\ m.click > 0
  /\ smFollow # NoCar => smFollow.click <= smClicks /\ smFollow.click > 0
  /\ smLast <= smPolls /\ (smPoll => smLast < smPolls)

(* The requests made for the vehicle that is followed, in their order.        *)
MsgsInOrder ==
  smFollow # NoCar =>
  \A m \in smMsgs : m.click = smFollow.click =>
    /\ Onward(smFollow.car, m.dist, smDist[smFollow.car])
    /\ \A k \in smMsgs : k.click = smFollow.click /\ m.n <= k.n =>
         Onward(smFollow.car, m.dist, k.dist)

(* What is known of it is from before what is still to be answered.           *)
NotedBefore ==
  smFollow # NoCar /\ smFollow.dist # -1 /\ smFollow.lanes = "unknown"
    /\ smMarks \cap {"overtaken", "stranger", "standing"} = {} =>
  /\ Onward(smFollow.car, smFollow.dist, smDist[smFollow.car])
  /\ \A m \in smMsgs : m.click = smFollow.click /\ m.n >= smLast =>
       Onward(smFollow.car, smFollow.dist, m.dist)

SmInv == SmTyped /\ SmNumbered /\ MsgsInOrder /\ NotedBefore /\ LanesByTravel

LEMMA SmInitial == SmInit => SmInv
<1> SUFFICES ASSUME SmInit PROVE SmInv
  OBVIOUS
<1>1. SmTyped
  BY MonitorAssumption DEF MonitorAssumption, SmInit, SmTyped
<1>2. SmNumbered /\ MsgsInOrder /\ NotedBefore
  BY DEF SmInit, SmNumbered, MsgsInOrder, NotedBefore
<1>3. LanesByTravel
  BY DEF SmInit, NoCar, LanesByTravel
<1> QED
  BY <1>1, <1>2, <1>3 DEF SmInv

LEMMA MapClickKeeps ==
  ASSUME NEW v \in Cars \cup {NoCar.car}, SmInv, MapClickHandler(v)
  PROVE  SmInv'
<1> USE DEF SmInv, MapClickHandler
<1> DEFINE f == [car |-> v, click |-> smClicks + 1, dist |-> -1, lanes |-> "unknown"]
<1>1. \/ smFollow' = NoCar
      \/ v \in Cars /\ smFollow' = f
  OBVIOUS
<1>2. f.click = smClicks + 1 /\ f.lanes = "unknown" /\ f.dist = -1 /\ NoCar.lanes = "unknown"
  BY DEF NoCar
<1>3. SmTyped'
  BY <1>1 DEF SmTyped
<1>4. SmNumbered'
  BY <1>1, <1>2 DEF SmNumbered, SmTyped, SmMsg
<1>5. MsgsInOrder'
  BY <1>1, <1>2 DEF MsgsInOrder, SmNumbered, SmTyped, SmMsg
<1>6. NotedBefore' /\ LanesByTravel'
  BY <1>1, <1>2 DEF NotedBefore, LanesByTravel
<1> QED
  BY <1>3, <1>4, <1>5, <1>6

LEMMA PollSimKeeps == SmInv /\ PollSim => SmInv'
<1> SUFFICES ASSUME SmInv, PollSim PROVE SmInv'
  OBVIOUS
<1> USE DEF SmInv, PollSim
<1>1. SmTyped' /\ MsgsInOrder' /\ NotedBefore' /\ LanesByTravel'
  BY DEF SmTyped, MsgsInOrder, NotedBefore, LanesByTravel
<1>2. SmNumbered'
  BY DEF SmNumbered, SmTyped, SmMsg
<1> QED
  BY <1>1, <1>2

LEMMA PollTimeoutKeeps == SmInv /\ PollTimeout => SmInv'
BY DEF SmInv, PollTimeout, SmTyped, SmNumbered, MsgsInOrder, NotedBefore, LanesByTravel

LEMMA MsgsTimeoutKeeps ==
  ASSUME NEW m \in smMsgs, SmInv, MsgsTimeout(m)
  PROVE  SmInv'
BY DEF SmInv, MsgsTimeout, SmTyped, SmNumbered, MsgsInOrder, NotedBefore, LanesByTravel

(* A vehicle only goes on.                                                    *)
LEMMA GoesOnward ==
  ASSUME NEW v, NEW a \in Int, NEW b \in Int, NEW c \in Int, Onward(v, a, b), Onward(v, b, c)
  PROVE  Onward(v, a, c)
BY DEF Onward

LEMMA SimglKeeps ==
  ASSUME NEW moved \in SUBSET Cars, SmInv, SimglSuccess(moved)
  PROVE  SmInv'
<1> USE DEF SmInv
<1>1. /\ smDist' \in [Cars -> Int]
      /\ \A v \in Cars : Onward(v, smDist[v], smDist'[v]) /\ Onward(v, smDist'[v], smDist'[v])
  BY DEF SimglSuccess, Onward, SmTyped
<1>2. smPoll /\ ~smPoll' /\ UNCHANGED <<smFollow, smPolls, smClicks, smLast, smMarks>>
  BY DEF SimglSuccess
<1>3. CASE smFollow = NoCar
  <2>1. smMsgs' = smMsgs
    BY <1>3 DEF SimglSuccess
  <2> QED
    BY <1>1, <1>2, <1>3, <2>1 DEF SmTyped, SmNumbered, MsgsInOrder, NotedBefore, LanesByTravel
<1>4. CASE smFollow # NoCar
  <2> DEFINE v == smFollow.car
             new == [n |-> smPolls, click |-> smFollow.click, dist |-> smDist'[v]]
  <2>1. smMsgs' = smMsgs \cup {new}
    BY <1>4 DEF SimglSuccess
  <2>2. v \in Cars /\ smDist[v] \in Int /\ smDist'[v] \in Int /\ smFollow.click \in Int
        /\ smFollow.dist \in Int
    BY <1>1, <1>4 DEF SmTyped
  <2>3. new \in SmMsg /\ new.n = smPolls /\ new.click = smFollow.click /\ new.dist = smDist'[v]
    BY <2>2 DEF SmMsg, SmTyped
  <2> HIDE DEF new
  <2>4. \A m \in smMsgs : m \in SmMsg /\ m.n \in Int /\ m.dist \in Int /\ m.n < smPolls
    BY <1>2 DEF SmTyped, SmMsg, SmNumbered
  <2>5. SmTyped'
    BY <1>1, <1>2, <2>1, <2>3 DEF SmTyped
  <2>6. SmNumbered'
    BY <1>2, <1>4, <2>1, <2>3 DEF SmNumbered, SmTyped
  <2>7. \A m \in smMsgs : m.click = smFollow.click => Onward(v, m.dist, smDist'[v])
    <3>1. \A m \in smMsgs : m.click = smFollow.click => Onward(v, m.dist, smDist[v])
      BY <1>4 DEF MsgsInOrder
    <3> QED
      BY <1>1, <2>2, <2>4, <3>1, GoesOnward
  <2>8. MsgsInOrder'
    <3>1. ASSUME NEW m \in smMsgs', m.click = smFollow.click
          PROVE  /\ Onward(v, m.dist, smDist'[v])
                 /\ \A k \in smMsgs' : k.click = smFollow.click /\ m.n <= k.n =>
                      Onward(v, m.dist, k.dist)
      <4>1. CASE m = new
        BY <1>1, <2>1, <2>2, <2>3, <2>4, <4>1 DEF SmTyped
      <4>2. CASE m # new
        BY <1>4, <2>1, <2>3, <2>7, <3>1, <4>2 DEF MsgsInOrder
      <4> QED
        BY <4>1, <4>2
    <3> QED
      BY <1>2, <3>1 DEF MsgsInOrder
  <2>9. NotedBefore'
    <3> SUFFICES ASSUME NotedBefore!1' PROVE NotedBefore!2'
      BY DEF NotedBefore
    <3>1. /\ Onward(v, smFollow.dist, smDist[v])
          /\ \A m \in smMsgs : m.click = smFollow.click /\ m.n >= smLast =>
               Onward(v, smFollow.dist, m.dist)
      BY <1>2 DEF NotedBefore
    <3>2. Onward(v, smFollow.dist, smDist'[v])
      BY <1>1, <2>2, <3>1, GoesOnward
    <3> QED
      BY <1>2, <2>1, <2>3, <3>1, <3>2
  <2>10. LanesByTravel'
    BY <1>2 DEF LanesByTravel
  <2> QED
    BY <2>5, <2>6, <2>8, <2>9, <2>10
<1> QED
  BY <1>3, <1>4

LEMMA MsgsSuccessKeeps ==
  ASSUME NEW m \in smMsgs, SmInv, MsgsSuccess(m)
  PROVE  SmInv'
<1> USE DEF SmInv
<1>1. smMsgs' = smMsgs \ {m} /\ UNCHANGED <<smDist, smPoll, smPolls, smClicks>>
  BY DEF MsgsSuccess
<1>2. CASE smFollow = NoCar
  <2>1. UNCHANGED <<smFollow, smLast, smMarks>>
    BY <1>2 DEF MsgsSuccess
  <2> QED
    BY <1>1, <2>1 DEF SmTyped, SmNumbered, MsgsInOrder, NotedBefore, LanesByTravel
<1>3. CASE smFollow # NoCar
  <2> DEFINE f == smFollow
             marks == (IF m.n < smLast THEN {"overtaken"} ELSE {})
                        \cup (IF m.click # f.click THEN {"stranger"} ELSE {})
                        \cup (IF m.dist = f.dist /\ f.lanes = "unknown" THEN {"standing"} ELSE {})
  <2>1. smFollow' = Noted(f, m.dist) /\ smLast' = m.n /\ smMarks' = smMarks \cup marks
    BY <1>3 DEF MsgsSuccess
  <2>2. /\ f \in [car : Cars, click : Int, dist : Int, lanes : {"unknown", "be", "eb"}]
        /\ m \in SmMsg /\ m.n \in Int /\ m.dist \in Int /\ smLast \in Int
    BY <1>3 DEF SmTyped, SmMsg
  <2>3. /\ smFollow' \in [car : Cars, click : Int, dist : Int, lanes : {"unknown", "be", "eb"}]
        /\ smFollow'.car = f.car /\ smFollow'.click = f.click
        /\ IF f.dist = -1 THEN smFollow'.dist = m.dist /\ smFollow'.lanes = f.lanes
           ELSE /\ smFollow'.dist = f.dist
                /\ smFollow'.lanes =
                     (IF f.lanes = "unknown" THEN LanesFor(f.dist, m.dist) ELSE f.lanes)
    BY <2>1, <2>2 DEF Noted, LanesFor
  <2>4. f.click > 0 /\ f.click <= smClicks /\ smFollow # NoCar /\ smClicks \in Nat
    BY <1>3 DEF SmNumbered, SmTyped
  <2>5. smFollow' # NoCar
    BY <2>2, <2>3, <2>4 DEF NoCar
  <2>6. SmTyped'
    BY <1>1, <2>1, <2>2, <2>3 DEF SmTyped
  <2>7. SmNumbered'
    BY <1>1, <2>1, <2>2, <2>3, <2>4 DEF SmNumbered, SmTyped
  <2>8. MsgsInOrder'
    BY <1>1, <2>3, <2>4 DEF MsgsInOrder
  <2>9. ASSUME smMarks' \cap {"overtaken", "stranger", "standing"} = {}
        PROVE  /\ smMarks \cap {"overtaken", "stranger", "standing"} = {}
               /\ m.n >= smLast /\ m.click = f.click
               /\ m.dist # f.dist \/ f.lanes # "unknown"
    BY <2>1, <2>2, <2>9
  <2> HIDE DEF marks
  <2>10. NotedBefore'
    <3> SUFFICES ASSUME smMarks' \cap {"overtaken", "stranger", "standing"} = {},
                        smFollow'.dist # -1, smFollow'.lanes = "unknown"
                 PROVE  /\ Onward(f.car, smFollow'.dist, smDist[f.car])
                        /\ \A k \in smMsgs' : k.click = f.click /\ k.n >= m.n =>
                             Onward(f.car, smFollow'.dist, k.dist)
      BY <1>1, <2>1, <2>3 DEF NotedBefore
    <3>1. f.dist = -1
      BY <2>3 DEF LanesFor
    <3>2. smFollow'.dist = m.dist /\ m.click = f.click
      BY <2>3, <2>9, <3>1
    <3>3. \A k \in smMsgs : k.n \in Int
      BY DEF SmTyped, SmMsg
    <3> QED
      BY <1>1, <1>3, <2>2, <3>2, <3>3 DEF MsgsInOrder
  <2>11. LanesByTravel'
    <3> SUFFICES ASSUME smMarks' \cap {"overtaken", "stranger", "standing"} = {},
                        smFollow'.lanes # "unknown"
                 PROVE  smFollow'.lanes = (IF f.car \in Forward THEN "be" ELSE "eb")
      BY <2>3 DEF LanesByTravel
    <3>1. CASE f.lanes # "unknown"
      BY <2>3, <2>9, <3>1 DEF LanesByTravel
    <3>2. CASE f.lanes = "unknown"
      <4>1. f.dist # -1 /\ smFollow'.lanes = LanesFor(f.dist, m.dist)
        BY <2>3, <3>2
      <4>2. Onward(f.car, f.dist, m.dist) /\ m.dist # f.dist
        BY <2>4, <2>9, <3>2, <4>1 DEF NotedBefore
      <4> QED
        BY <2>2, <4>1, <4>2 DEF Onward, LanesFor
    <3> QED
      BY <3>1, <3>2
  <2> QED
    BY <2>6, <2>7, <2>8, <2>10, <2>11
<1> QED
  BY <1>2, <1>3

LEMMA SmStepKeeps == SmInv /\ [SmNext]_smVars => SmInv'
<1> SUFFICES ASSUME SmInv, [SmNext]_smVars PROVE SmInv'
  OBVIOUS
<1>1. ASSUME PollSim PROVE SmInv'
  BY <1>1, PollSimKeeps
<1>2. ASSUME PollTimeout PROVE SmInv'
  BY <1>2, PollTimeoutKeeps
<1>3. ASSUME NEW v \in Cars \cup {NoCar.car}, MapClickHandler(v) PROVE SmInv'
  BY <1>3, MapClickKeeps
<1>4. ASSUME NEW moved \in SUBSET Cars, SimglSuccess(moved) PROVE SmInv'
  BY <1>4, SimglKeeps
<1>5. ASSUME NEW m \in smMsgs, MsgsSuccess(m) PROVE SmInv'
  BY <1>5, MsgsSuccessKeeps
<1>6. ASSUME NEW m \in smMsgs, MsgsTimeout(m) PROVE SmInv'
  BY <1>6, MsgsTimeoutKeeps
<1>7. ASSUME UNCHANGED smVars PROVE SmInv'
  BY <1>7 DEF smVars, SmInv, SmTyped, SmNumbered, MsgsInOrder, NotedBefore, LanesByTravel
<1> QED
  BY <1>1, <1>2, <1>3, <1>4, <1>5, <1>6, <1>7 DEF SmNext
-----------------------------------------------------------------------------
(* What the table of the rules shows, beyond RopInv.                          *)
RopPlain ==
  /\ \A id \in RopIds : ropRows[id] = NoRow \/ ropRows[id].n > 0
  /\ ropListing # "shown" => ropForm.id = NoRop /\ \A id \in RopIds : ropRows[id] = NoRow
  /\ \A c \in ropCalls :
       /\ c.rop.status = (IF c.as = "save" THEN "U" ELSE "D")
       /\ c.gone => c.to = NoRop

(* A row has its rule in the cache.  Before the list is shown the page awaits *)
(* no answer; a rule being deleted has lost its row, a new one none yet.      *)
RowsCached ==
  "early" \notin ropMarks =>
  /\ OneRow /\ \A id \in RopIds : ropRows[id].n > 0 => Shown(ropCache[id])
  /\ ropListing # "shown" => \A c \in ropCalls : c.gone
  /\ \A c \in ropCalls : ~c.gone /\ c.rop.status = "D" => ropRows[c.id] = NoRow
  /\ \A c \in ropCalls : c.id = NoRop /\ c.to # NoRop =>
       /\ ropRows[c.to] = NoRow
       /\ \A d \in ropCalls : /\ d.id = c.to /\ ~d.gone => d.rop.status # "D"
                              /\ d.id = NoRop /\ d.to = c.to => d = c

RopClean == ropMarks \cap {"early", "again", "gone", "moved", "lost", "unwritten"} = {}

RowAgrees(id) ==
  IF Shown(ropList[id])
    THEN /\ ropRows[id] = [body |-> ropList[id].body, tab |-> ropList[id].status, n |-> 1]
         /\ ropCache[id] = ropList[id]
    ELSE ropRows[id] = NoRow

(* Every row agrees with the service but those about which a call is under    *)
(* way, and these will once it is answered.                                   *)
RowsAgree ==
  RopClean =>
  /\ \A c \in ropCalls : ~c.gone
  /\ ropForm.id # NoRop => ropRows[ropForm.id].tab \in {"U", "none"}
  /\ ropListing = "answered" =>
       \A id \in RopIds : Shown(ropAnswer[id]) \/ Shown(ropList[id]) => ropAnswer[id] = ropList[id]
  /\ ropListing = "shown" =>
       /\ \A id \in RopIds :
            (\A c \in ropCalls : c.to # id /\ (c.id = id => c.rop.status # "D")) => RowAgrees(id)
       /\ \A c \in ropCalls :
            /\ c.to # NoRop => IF c.rop.status = "D" THEN ~Shown(ropList[c.to]) ELSE ropList[c.to] = c.rop
            /\ c.id # NoRop /\ c.rop.status # "D" => ropRows[c.id].n = 1 /\ ropRows[c.id].tab = "U"

RopShows == RopInv /\ RopPlain /\ RowsCached /\ RowsAgree

LEMMA ShowsInitial == RopInit => RopPlain /\ RowsCached /\ RowsAgree
<1> SUFFICES ASSUME RopInit PROVE RopPlain /\ RowsCached /\ RowsAgree
  OBVIOUS
<1>1. NoRow.n = 0 /\ EmptyForm.id = NoRop
  BY DEF NoRow, EmptyForm
<1> QED
  BY <1>1 DEF RopInit, RopPlain, RowsCached, RowsAgree, OneRow, EmptyForm

(* What does not touch rows, cache, calls or service, and marks what it may.  *)
LEMMA FormShows ==
  ASSUME RopShows, UNCHANGED <<ropServer, ropPage, ropCalls>>, ropMarks \subseteq ropMarks',
         \/ ropForm'.id \in {ropForm.id, NoRop}
         \/ ropForm'.id \in RopIds /\ ropRows[ropForm'.id].tab = "U"
  PROVE  RopPlain' /\ RowsCached' /\ RowsAgree'
<1> USE DEF RopShows, ropServer, ropPage
<1>1. RopPlain'
  BY DEF RopPlain, NoRow
<1>2. RowsCached'
  BY DEF RowsCached, OneRow
<1>3. RowsAgree'
  <2>1. RopClean' => RopClean
    BY DEF RopClean
  <2>2. RopClean => (ropForm'.id # NoRop => ropRows'[ropForm'.id].tab \in {"U", "none"})
    BY DEF RowsAgree
  <2> QED
    BY <2>1, <2>2 DEF RowsAgree, RowAgrees
<1> QED
  BY <1>1, <1>2, <1>3

LEMMA TypeRuleShows == RopShows /\ TypeRule => RopPlain' /\ RowsCached' /\ RowsAgree'
<1> SUFFICES ASSUME RopShows, TypeRule PROVE RopPlain' /\ RowsCached' /\ RowsAgree'
  OBVIOUS
<1>1. ropForm'.id = ropForm.id
  BY DEF TypeRule, RopShows, RopInv, RopTyped, RopForm
<1> QED
  BY <1>1, FormShows DEF TypeRule

LEMMA ClearFormShows == RopShows /\ ClearForm => RopPlain' /\ RowsCached' /\ RowsAgree'
BY FormShows DEF ClearForm, ResetForm, EmptyForm

LEMMA ClickLoadShows ==
  ASSUME NEW id \in RopIds, NEW copying \in BOOLEAN, RopShows, ClickLoad(id, copying)
  PROVE  RopPlain' /\ RowsCached' /\ RowsAgree'
<1>1. ropForm'.id = (IF copying THEN NoRop ELSE id)
  BY DEF ClickLoad, LoadRuleRow
<1>2. copying \/ ropRows[id].tab = "U"
  BY DEF ClickLoad
<1> QED
  BY <1>1, <1>2, FormShows DEF ClickLoad

LEMMA DoNullShows == RopShows /\ DoNull => RopPlain' /\ RowsCached' /\ RowsAgree'
<1> SUFFICES ASSUME RopShows, DoNull PROVE RopPlain' /\ RowsCached' /\ RowsAgree'
  OBVIOUS
<1> USE DEF RopShows, DoNull, ropServer, ropEdit
<1>1. RopPlain'
  BY DEF RopPlain
<1>2. RowsCached'
  BY DEF RowsCached, OneRow
<1>3. RowsAgree'
  BY DEF RowsAgree, RopClean
<1> QED
  BY <1>1, <1>2, <1>3

LEMMA DisplayShows ==
  RopShows /\ DisplayExistingRules => RopPlain' /\ RowsCached' /\ RowsAgree'
<1> SUFFICES ASSUME RopShows, DisplayExistingRules PROVE RopPlain' /\ RowsCached' /\ RowsAgree'
  OBVIOUS
<1> USE DEF RopShows, DisplayExistingRules, ropServer, ropEdit
<1>1. \A id \in RopIds :
        ropRows'[id] = IF Shown(ropAnswer[id])
          THEN [body |-> ropAnswer[id].body, tab |-> ropAnswer[id].status, n |-> 1] ELSE NoRow
  BY DEF Shown
<1>2. NoRow.n = 0 /\ ropForm.id = NoRop
  BY DEF NoRow, RopPlain
<1>3. \A id \in RopIds : /\ ropRows'[id] = NoRow \/ ropRows'[id].n > 0
                         /\ ropRows'[id].n <= 1
                         /\ ropRows'[id].n > 0 => Shown(ropAnswer[id])
  BY <1>1, <1>2
<1>4. RopPlain'
  BY <1>3 DEF RopPlain
<1>5. RowsCached'
  <2>1. "early" \notin ropMarks => \A c \in ropCalls : c.gone /\ c.to = NoRop
    BY DEF RowsCached, RopPlain
  <2> QED
    BY <1>3, <2>1 DEF RowsCached, OneRow
<1>6. RowsAgree'
  <2> SUFFICES ASSUME RopClean PROVE RowsAgree!2'
    BY DEF RowsAgree, RopClean
  <2>1. ropCalls = {}
    BY DEF RopInv, Deletes, Opening, RopSound, RopClean
  <2>2. \A id \in RopIds : Shown(ropAnswer[id]) \/ Shown(ropList[id]) => ropAnswer[id] = ropList[id]
    BY DEF RowsAgree
  <2>3. \A id \in RopIds : RowAgrees(id)'
    BY <1>1, <2>2 DEF RowAgrees
  <2> QED
    BY <1>2, <2>1, <2>3
<1> QED
  BY <1>4, <1>5, <1>6

LEMMA DeleteRuleShows ==
  ASSUME NEW id \in RopIds, RopShows, DeleteRule(id)
  PROVE  RopPlain' /\ RowsCached' /\ RowsAgree'
<1> USE DEF RopShows
<1> DEFINE c == Call("status", id, Rop(ropCache[id].body, "D"))
<1>1. /\ ropRows[id].tab = "U" /\ ropRows' = RowRemoved(id) /\ ropMarks' = ropMarks \cup Again(id)
      /\ UNCHANGED <<ropServer, ropListing, ropAnswer, ropEdit, ropUps>>
      /\ \A x \in RopIds : x # id => ropCache'[x] = ropCache[x]
      /\ \/ ropCalls' = ropCalls /\ ropCache[id] = NoRop
         \/ ropCalls' = ropCalls \cup {c}
  BY RopAssumption DEF RopAssumption, DeleteRule, UpdateRuleStatus, RopInv, RopTyped
<1>2. c.id = id /\ c.to = NoRop /\ c.rop.status = "D" /\ c.as = "status" /\ ~c.gone
  BY DEF Call, Rop
<1> HIDE DEF c
<1>3. NoRow.n = 0 /\ NoRow.tab = "none" /\ id # NoRop
  BY RopAssumption DEF NoRow, RopAssumption
<1>4. ropRows \in [RopIds -> RopRow] /\ ropRows[id].n \in Nat /\ ropRows[id] # NoRow
  BY <1>1, <1>3 DEF RopInv, RopTyped, RopRow
<1>5. /\ \A x \in RopIds : x # id => ropRows'[x] = ropRows[x]
      /\ ropRows[id].n <= 1 => ropRows'[id] = NoRow
      /\ ropRows'[id] = NoRow \/ ropRows'[id].n > 0
  <2>1. ropRows[id].n > 1 => [ropRows[id] EXCEPT !.n = ropRows[id].n - 1].n > 0
    BY <1>4 DEF RopRow
  <2> QED
    BY <1>1, <1>4, <2>1 DEF RowRemoved
<1>6. ropListing = "shown"
  BY <1>4 DEF RopPlain
<1>7. \A d \in ropCalls : /\ d.id \in RopIdOrNone /\ d.to \in RopIdOrNone
                          /\ d.rop.status = "D" => d.id # NoRop
                          /\ d.id # NoRop => d.to \in {d.id, NoRop}
  BY DEF RopInv, RopTyped, RopCall, Known
<1>8. RopPlain'
  BY <1>1, <1>2, <1>5, <1>6 DEF RopPlain
<1>9. RowsCached'
  <2> SUFFICES ASSUME "early" \notin ropMarks' PROVE RowsCached!2'
    BY DEF RowsCached
  <2>1. RowsCached!2
    BY <1>1 DEF RowsCached
  <2>2. ropRows'[id] = NoRow
    BY <1>5, <2>1 DEF OneRow
  <2>3. OneRow' /\ \A x \in RopIds : ropRows'[x].n > 0 => Shown(ropCache'[x])
    BY <1>1, <1>3, <1>5, <2>1, <2>2 DEF OneRow
  <2>4. \A x \in RopIds : ropRows[x] = NoRow => ropRows'[x] = NoRow
    BY <1>5, <2>2
  <2>5. \A d \in ropCalls' : ~d.gone /\ d.rop.status = "D" => ropRows'[d.id] = NoRow
    BY <1>1, <1>2, <1>7, <2>1, <2>2, <2>4 DEF RopIdOrNone
  <2>6. ASSUME NEW d \in ropCalls', d.id = NoRop, d.to # NoRop
        PROVE  /\ ropRows'[d.to] = NoRow
               /\ \A e \in ropCalls' : /\ e.id = d.to /\ ~e.gone => e.rop.status # "D"
                                       /\ e.id = NoRop /\ e.to = d.to => e = d
    <3>1. d \in ropCalls /\ d.to \in RopIds
      BY <1>1, <1>2, <1>3, <1>7, <2>6 DEF RopIdOrNone
    <3>2. d.to # id
      BY <1>4, <2>1, <2>6, <3>1
    <3> QED
      BY <1>1, <1>2, <1>3, <2>1, <2>4, <2>6, <3>1, <3>2
  <2> QED
    BY <1>1, <1>6, <2>3, <2>5, <2>6
<1>10. RowsAgree'
  <2> SUFFICES ASSUME RopClean' PROVE RowsAgree!2'
    BY DEF RowsAgree
  <2>1. RopClean /\ \A d \in ropCalls : d.id # id
    BY <1>1 DEF RopClean, Again
  <2>2. RowsAgree!2 /\ RowsCached!2
    BY <2>1 DEF RowsAgree, RowsCached, RopClean
  <2>3. \A d \in ropCalls : d.to # id
    BY <1>3, <1>4, <1>7, <2>1, <2>2
  <2>4. RowAgrees(id)
    BY <1>6, <2>1, <2>2, <2>3
  <2>5. Shown(ropList[id]) /\ ropCache[id] = ropList[id]
    BY <1>4, <2>4 DEF RowAgrees
  <2>6. ropCalls' = ropCalls \cup {c}
    BY <1>1, <2>5 DEF Shown
  <2>7. ropRows'[id] = NoRow
    BY <1>5, <2>2 DEF OneRow
  <2>8. \A d \in ropCalls' : ~d.gone
    BY <1>2, <2>2, <2>6
  <2>9. ropForm'.id # NoRop => ropRows'[ropForm'.id].tab \in {"U", "none"}
    <3>1. ropForm'.id = ropForm.id /\ ropForm.id \in RopIdOrNone
      BY <1>1 DEF ropEdit, RopInv, RopTyped, RopForm
    <3> QED
      BY <1>3, <1>5, <2>2, <2>7, <3>1 DEF RopIdOrNone
  <2>10. ASSUME NEW x \in RopIds,
                \A d \in ropCalls' : d.to # x /\ (d.id = x => d.rop.status # "D")
         PROVE  RowAgrees(x)'
    <3>1. x # id
      BY <1>2, <2>6, <2>10
    <3>2. RowAgrees(x)
      BY <1>6, <2>2, <2>6, <2>10
    <3> QED
      BY <1>1, <1>5, <3>1, <3>2 DEF RowAgrees, ropServer
  <2>11. ASSUME NEW d \in ropCalls'
         PROVE  /\ d.to # NoRop =>
                     IF d.rop.status = "D" THEN ~Shown(ropList'[d.to]) ELSE ropList'[d.to] = d.rop
                /\ d.id # NoRop /\ d.rop.status # "D" =>
                     ropRows'[d.id].n = 1 /\ ropRows'[d.id].tab = "U"
    <3>1. CASE d = c
      BY <1>2, <3>1
    <3>2. CASE d \in ropCalls
      BY <1>1, <1>5, <1>6, <1>7, <2>1, <2>2, <3>2 DEF RopIdOrNone, ropServer
    <3> QED
      BY <2>6, <3>1, <3>2
  <2> QED
    BY <1>1, <1>6, <2>8, <2>9, <2>10, <2>11
<1> QED
  BY <1>8, <1>9, <1>10

LEMMA MoveRuleShows ==
  ASSUME NEW id \in RopIds, NEW from \in {"A", "I"}, NEW to \in {"A", "I"},
         RopShows, MoveRule(id, from, to)
  PROVE  RopPlain' /\ RowsCached' /\ RowsAgree'
<1> USE DEF RopShows, MoveRule
<1>0. ropCache' = ropCache /\ ropCalls' = ropCalls
  BY DEF UpdateRuleStatus, ButtonOf
<1>1. NoRow.tab = "none"
  BY DEF NoRow
<1>2. ropRows \in [RopIds -> RopRow] /\ ropRows[id] # NoRow
  BY <1>1 DEF RopInv, RopTyped
<1>3. /\ \A x \in RopIds : x # id => ropRows'[x] = ropRows[x]
      /\ ropRows'[id].n = ropRows[id].n
  <2>1. [ropRows[id] EXCEPT !.tab = to].n = ropRows[id].n
    BY <1>2 DEF RopRow
  <2>2. ropRows' = [ropRows EXCEPT ![id] = [ropRows[id] EXCEPT !.tab = to]]
    OBVIOUS
  <2> QED
    BY <1>2, <2>1, <2>2
<1>4. \A x \in RopIds : /\ ropRows[x] = NoRow => ropRows'[x] = NoRow
                        /\ ropRows'[x].n = ropRows[x].n
  BY <1>2, <1>3
<1>5. ropListing = "shown"
  BY <1>2 DEF RopPlain
<1>6. RopPlain'
  BY <1>0, <1>4, <1>5 DEF RopPlain
<1>7. RowsCached'
  <2>1. \A d \in ropCalls : /\ d.id \in RopIdOrNone /\ d.to \in RopIdOrNone
                            /\ d.rop.status = "D" => d.id # NoRop
    BY DEF RopInv, RopTyped, RopCall, Known
  <2> QED
    BY <1>0, <1>4, <1>5, <2>1 DEF RowsCached, OneRow, RopIdOrNone
<1>8. RowsAgree'
  BY DEF RowsAgree, RopClean
<1> QED
  BY <1>6, <1>7, <1>8

LEMMA SaveRuleShows == RopShows /\ SaveRule => RopPlain' /\ RowsCached' /\ RowsAgree'
<1> SUFFICES ASSUME RopShows, SaveRule PROVE RopPlain' /\ RowsCached' /\ RowsAgree'
  OBVIOUS
<1> USE DEF RopShows
<1> DEFINE c == Call("save", ropForm.id, Rop(ropForm.body, "U"))
<1>1. /\ ropCalls' = ropCalls \cup {c}
      /\ ropMarks' = ropMarks \cup Again(ropForm.id) \cup Touched
           \cup (IF ropListing # "shown" THEN {"early"} ELSE {})
           \cup (IF ropForm.id # NoRop /\ ropRows[ropForm.id] = NoRow THEN {"gone"} ELSE {})
      /\ UNCHANGED <<ropServer, ropPage, ropEdit, ropUps>>
  BY DEF SaveRule
<1>2. c.id = ropForm.id /\ c.to = NoRop /\ c.rop.status = "U" /\ c.as = "save" /\ ~c.gone
  BY DEF Call, Rop
<1> HIDE DEF c
<1>3. RopPlain'
  BY <1>1, <1>2 DEF RopPlain, ropPage, ropEdit
<1>4. RowsCached'
  <2> SUFFICES ASSUME "early" \notin ropMarks' PROVE RowsCached!2'
    BY DEF RowsCached
  <2>1. RowsCached!2 /\ ropListing = "shown"
    BY <1>1 DEF RowsCached
  <2> QED
    BY <1>1, <1>2, <2>1 DEF ropPage, OneRow
<1>5. RowsAgree'
  <2> SUFFICES ASSUME RopClean' PROVE RowsAgree!2'
    BY DEF RowsAgree
  <2>1. /\ RopClean /\ ropListing = "shown" /\ \A d \in ropCalls : d.id # ropForm.id
        /\ ropForm.id # NoRop => ropRows[ropForm.id] # NoRow
    BY <1>1 DEF RopClean, Again
  <2>2. RowsAgree!2 /\ RowsCached!2
    BY <2>1 DEF RowsAgree, RowsCached, RopClean
  <2>3. ASSUME ropForm.id # NoRop
        PROVE  ropRows[ropForm.id].n = 1 /\ ropRows[ropForm.id].tab = "U"
    <3>1. ropForm.id \in RopIds
      BY <2>3 DEF RopInv, RopTyped, RopForm, RopIdOrNone
    <3>2. \A d \in ropCalls : d.to # ropForm.id
      BY <2>1, <2>2, <2>3 DEF RopInv, Known
    <3>3. RowAgrees(ropForm.id)
      BY <2>1, <2>2, <3>1, <3>2
    <3> QED
      BY <2>1, <2>2, <2>3, <3>3 DEF RowAgrees, Shown, Displayed
  <2>4. ASSUME NEW x \in RopIds,
               \A d \in ropCalls' : d.to # x /\ (d.id = x => d.rop.status # "D")
        PROVE  RowAgrees(x)'
    <3>1. RowAgrees(x)
      BY <1>1, <2>1, <2>2, <2>4
    <3> QED
      BY <1>1, <3>1 DEF RowAgrees, ropServer, ropPage
  <2> QED
    BY <1>1, <1>2, <2>1, <2>2, <2>3, <2>4 DEF ropServer, ropPage, ropEdit
<1> QED
  BY <1>3, <1>4, <1>5

LEMMA DoSaveShows ==
  ASSUME NEW c \in ropCalls, NEW written \in BOOLEAN, RopShows, DoSave(c, written)
  PROVE  RopPlain' /\ RowsCached' /\ RowsAgree'
<1> USE DEF RopShows
<1>1. PICK id \in (IF c.id # NoRop THEN {c.id} ELSE IF Fresh = {} THEN {} ELSE {Min(Fresh)}) :
        /\ c.to = NoRop
        /\ ropList' = [ropList EXCEPT ![id] = Listed(c.rop)]
        /\ ropCalls' = (ropCalls \ {c})
             \cup (IF written /\ ~c.gone THEN {[c EXCEPT !.to = id]} ELSE {})
        /\ ropMarks' = ropMarks \cup (IF written THEN {} ELSE {"unwritten"})
        /\ UNCHANGED <<ropPage, ropEdit, ropSent, ropUps>>
  BY DEF DoSave
<1>2. c \in RopCall
  BY DEF RopInv, RopTyped
<1>3. id \in RopIds /\ IF c.id # NoRop THEN id = c.id ELSE id \in Fresh
  BY <1>1, <1>2, LeastFresh DEF RopCall, RopIdOrNone, Fresh
<1> DEFINE d == [c EXCEPT !.to = id]
<1>4. /\ d.to = id /\ d.id = c.id /\ d.rop = c.rop /\ d.as = c.as /\ d.gone = c.gone
      /\ id # NoRop
  BY <1>2, <1>3, RopAssumption DEF RopCall, RopAssumption
<1>5. \A e \in ropCalls' : (e \in ropCalls /\ e # c) \/ (e = d /\ written /\ ~c.gone)
  BY <1>1
<1> HIDE DEF d
<1>6. c.id = NoRop => /\ ropRows[id] = NoRow
                      /\ \A e \in ropCalls : e.id # id /\ e.to # id
  BY <1>3, <1>4 DEF RopInv, Known, Fresh
<1>7. RopPlain'
  BY <1>1, <1>4, <1>5 DEF RopPlain, ropPage, ropEdit
<1>8. RowsCached'
  <2> SUFFICES ASSUME "early" \notin ropMarks' PROVE RowsCached!2'
    BY DEF RowsCached
  <2>1. RowsCached!2
    BY <1>1 DEF RowsCached
  <2>2. \A e \in ropCalls' : ~e.gone /\ e.rop.status = "D" => ropRows'[e.id] = NoRow
    BY <1>1, <1>4, <1>5, <2>1 DEF ropPage
  <2>3. ropListing' # "shown" => \A e \in ropCalls' : e.gone
    BY <1>1, <1>4, <1>5, <2>1 DEF ropPage
  <2>4. ASSUME NEW e \in ropCalls', e.id = NoRop, e.to # NoRop
        PROVE  /\ ropRows'[e.to] = NoRow
               /\ \A f \in ropCalls' : /\ f.id = e.to /\ ~f.gone => f.rop.status # "D"
                                       /\ f.id = NoRop /\ f.to = e.to => f = e
    <3>1. CASE e = d
      BY <1>1, <1>4, <1>5, <1>6, <2>4, <3>1 DEF ropPage
    <3>2. CASE e # d
      <4>1. e \in ropCalls /\ e # c
        BY <1>5, <3>2
      <4>2. /\ ropRows[e.to] = NoRow
            /\ \A f \in ropCalls : /\ f.id = e.to /\ ~f.gone => f.rop.status # "D"
                                   /\ f.id = NoRop /\ f.to = e.to => f = e
        BY <2>1, <2>4, <4>1
      <4>3. c.id = NoRop => e.to # id
        BY <1>6, <4>1
      <4> QED
        BY <1>1, <1>4, <1>5, <4>1, <4>2, <4>3 DEF ropPage
    <3> QED
      BY <3>1, <3>2
  <2> QED
    BY <1>1, <2>1, <2>2, <2>3, <2>4 DEF ropPage, OneRow
<1>9. RowsAgree'
  <2> SUFFICES ASSUME RopClean' PROVE RowsAgree!2'
    BY DEF RowsAgree
  <2>1. RopClean /\ written
    BY <1>1 DEF RopClean
  <2>2. RowsAgree!2 /\ RopSound
    BY <2>1 DEF RowsAgree, RopClean, RopSound
  <2>3. Opening /\ OneCall /\ Dying /\ Newborn
    BY <2>2 DEF RopInv, Deletes
  <2>4. ropListing = "shown"
    BY <2>3 DEF Opening
  <2>5. ropCalls' = (ropCalls \ {c}) \cup {d}
    BY <1>1, <2>1, <2>2 DEF d
  <2>6. \A x \in RopIds : x # id => ropList'[x] = ropList[x]
    BY <1>1
  <2>7. ropList'[id] = Listed(c.rop)
    BY <1>1, <1>3 DEF RopInv, RopTyped
  <2>8. ASSUME NEW x \in RopIds,
               \A e \in ropCalls' : e.to # x /\ (e.id = x => e.rop.status # "D")
        PROVE  RowAgrees(x)'
    <3>1. x # id
      BY <1>4, <2>5, <2>8
    <3>2. c.to # x /\ (c.id = x => c.rop.status # "D")
      BY <1>3, <1>4, <1>1, <2>8, <3>1, RopAssumption DEF RopAssumption
    <3>3. RowAgrees(x)
      BY <2>2, <2>4, <2>5, <2>8, <3>2
    <3> QED
      BY <1>1, <2>6, <3>1, <3>3 DEF RowAgrees, ropPage
  <2>9. ASSUME NEW e \in ropCalls'
        PROVE  /\ e.to # NoRop =>
                    IF e.rop.status = "D" THEN ~Shown(ropList'[e.to]) ELSE ropList'[e.to] = e.rop
               /\ e.id # NoRop /\ e.rop.status # "D" =>
                    ropRows'[e.id].n = 1 /\ ropRows'[e.id].tab = "U"
    <3>1. CASE e = d
      BY <1>1, <1>4, <2>2, <2>4, <2>7, <3>1 DEF Listed, Shown, ropPage
    <3>2. CASE e # d
      <4>1. e \in ropCalls /\ e # c
        BY <1>5, <3>2
      <4>2. e.to # NoRop => e.to # id /\ e.to \in RopIds
        <5>1. e.id # NoRop => e.to \in {e.id, NoRop}
          BY <4>1 DEF RopInv, Known
        <5>2. e.to \in RopIdOrNone
          BY <4>1 DEF RopInv, RopTyped, RopCall
        <5>3. CASE c.id = NoRop
          BY <1>6, <4>1, <5>2, <5>3 DEF RopIdOrNone
        <5>4. CASE c.id # NoRop
          BY <1>3, <2>3, <4>1, <5>1, <5>2, <5>4 DEF OneCall, Newborn, RopIdOrNone
        <5> QED
          BY <5>3, <5>4
      <4> QED
        BY <1>1, <2>2, <2>4, <2>6, <4>1, <4>2 DEF ropPage
    <3> QED
      BY <3>1, <3>2
  <2> QED
    BY <1>1, <1>4, <1>5, <2>2, <2>4, <2>8, <2>9 DEF ropPage, ropEdit
<1> QED
  BY <1>7, <1>8, <1>9

LEMMA RopLostShows ==
  ASSUME NEW c \in ropCalls, RopShows, RopLost(c)
  PROVE  RopPlain' /\ RowsCached' /\ RowsAgree'
<1> USE DEF RopShows, RopLost, ropServer, ropPage, ropEdit
<1>1. RopPlain'
  BY DEF RopPlain
<1>2. RowsCached'
  BY DEF RowsCached, OneRow
<1>3. RowsAgree'
  BY DEF RowsAgree, RopClean
<1> QED
  BY <1>1, <1>2, <1>3

LEMMA RopRestartShows == RopShows /\ RopRestart => RopPlain' /\ RowsCached' /\ RowsAgree'
<1> SUFFICES ASSUME RopShows, RopRestart PROVE RopPlain' /\ RowsCached' /\ RowsAgree'
  OBVIOUS
<1> USE DEF RopShows, RopRestart, ropPage, ropEdit
<1>1. RopPlain'
  BY DEF RopPlain
<1>2. RowsCached'
  BY DEF RowsCached, OneRow
<1>3. RowsAgree'
  <2> SUFFICES ASSUME RopClean' PROVE RowsAgree!2'
    BY DEF RowsAgree
  <2>1. RowsAgree!2
    BY DEF RowsAgree, RopClean
  <2>2. \A x \in RopIds : \/ ropList'[x] = ropList[x]
                          \/ ~Shown(ropList[x]) /\ ~Shown(ropList'[x])
    BY DEF RopClean, RopInv, RestartKeepsRules, Shown, Displayed
  <2>3. \A x \in RopIds : RowAgrees(x) => RowAgrees(x)'
    BY <2>2 DEF RowAgrees
  <2>4. \A c \in ropCalls : /\ c.to \in RopIdOrNone
                            /\ c.rop.status # "D" => Shown(c.rop)
    <3>1. \A c \in ropCalls : c.to \in RopIdOrNone /\ c.rop \in Rops /\ c.rop.status \in {"U", "D"}
      BY DEF RopInv, RopTyped, RopCall, RopPlain
    <3>2. \A rop \in Rops : rop # NoRop
      BY RopAssumption DEF RopAssumption
    <3> QED
      BY <3>1, <3>2 DEF Shown, Displayed
  <2>5. \A c \in ropCalls : c.to # NoRop =>
          IF c.rop.status = "D" THEN ~Shown(ropList'[c.to]) ELSE ropList'[c.to] = c.rop
    <3>1. ropCalls # {} => ropListing = "shown"
      BY DEF RopClean, RopSound, RopInv, Deletes, Opening
    <3> QED
      BY <2>1, <2>2, <2>4, <3>1 DEF RopIdOrNone
  <2> QED
    BY <2>1, <2>2, <2>3, <2>5
<1> QED
  BY <1>1, <1>2, <1>3

LEMMA RopReloadShows == RopShows /\ RopReload => RopPlain' /\ RowsCached' /\ RowsAgree'
<1> SUFFICES ASSUME RopShows, RopReload PROVE RopPlain' /\ RowsCached' /\ RowsAgree'
  OBVIOUS
<1> USE DEF RopShows, RopReload
<1>1. NoRow.n = 0 /\ EmptyForm.id = NoRop
  BY DEF NoRow, EmptyForm
<1>2. ASSUME NEW d \in ropCalls'
      PROVE  d.gone /\ d.to = NoRop /\ \E c \in ropCalls : d.as = c.as /\ d.rop = c.rop
  <2>1. PICK c \in ropCalls : c.to = NoRop /\ d = [c EXCEPT !.gone = TRUE]
    OBVIOUS
  <2>2. c \in RopCall
    BY DEF RopInv, RopTyped
  <2> QED
    BY <2>1, <2>2 DEF RopCall
<1>3. RopPlain'
  BY <1>1, <1>2 DEF RopPlain
<1>4. RowsCached'
  BY <1>1, <1>2 DEF RowsCached, OneRow
<1>5. RowsAgree'
  <2>1. RopClean' => ropCalls' = {}
    BY DEF RopClean
  <2> QED
    BY <1>1, <2>1 DEF RowsAgree
<1> QED
  BY <1>3, <1>4, <1>5

LEMMA SaveAnsweredShows ==
  ASSUME NEW c \in ropCalls, RopShows, SaveAnswered(c)
  PROVE  RopPlain' /\ RowsCached' /\ RowsAgree'
<1> USE DEF RopShows
<1>1. /\ c.as = "save" /\ c.to # NoRop /\ ropCache' = Cached(c) /\ ropRows' = RowAfterSave(c)
      /\ ropForm' = EmptyForm /\ ropCalls' = ropCalls \ {c}
      /\ UNCHANGED <<ropServer, ropListing, ropAnswer, ropMarks>>
  BY DEF SaveAnswered, ResetForm
<1>2. c.to \in RopIds /\ c.rop \in Rops /\ c.rop.status = "U" /\ ~c.gone /\ c \in RopCall
  BY <1>1, CachedType DEF RopPlain
<1>3. /\ ropRows' \in [RopIds -> RopRow]
      /\ \A x \in RopIds :
           \/ (ropRows[x] = NoRow => ropRows'[x] = NoRow) /\ ropRows'[x].n = ropRows[x].n
           \/ x = c.to /\ c.id = NoRop /\ ropRows'[x].n = ropRows[x].n + 1
  BY <1>1, RowsAfterSave
<1>4. \A x \in RopIds : ropRows[x].n \in Nat /\ ropRows[x] \in RopRow
  BY DEF RopInv, RopTyped, RopRow
<1>5. EmptyForm.id = NoRop /\ NoRow.n = 0
  BY DEF EmptyForm, NoRow
<1>6. c.id # NoRop => c.id = c.to
  BY <1>1 DEF RopInv, Known
<1>7. \A e \in ropCalls : /\ e.id \in RopIdOrNone /\ e.to \in RopIdOrNone
                          /\ e.rop.status = "D" => e.id # NoRop
                          /\ e.id # NoRop => e.to \in {e.id, NoRop}
  BY DEF RopInv, RopTyped, RopCall, Known
<1>8. RopPlain'
  <2>1. ropListing # "shown" => ropRows' = ropRows
    BY <1>1 DEF RowAfterSave
  <2> QED
    BY <1>1, <1>3, <1>4, <1>5, <2>1 DEF RopPlain
<1>9. RowsCached'
  <2> SUFFICES ASSUME "early" \notin ropMarks PROVE RowsCached!2'
    BY <1>1 DEF RowsCached
  <2>1. RowsCached!2 /\ ropListing = "shown"
    BY <1>2 DEF RowsCached
  <2>2. OneRow'
    BY <1>1, <1>3, <1>4, <1>5, <2>1 DEF OneRow
  <2>3. c.rop # NoRop /\ Shown(c.rop)
    BY <1>2, RopAssumption DEF RopAssumption, Shown, Displayed
  <2>4. \A x \in RopIds : ropRows'[x].n > 0 => Shown(ropCache'[x])
    <3>1. \A x \in RopIds : x # c.to => ropCache'[x] = ropCache[x]
      BY <1>1 DEF Cached
    <3>2. ropCache'[c.to] = c.rop
      BY <1>1, <1>2, <2>1 DEF Cached, RopInv, RopTyped
    <3> QED
      BY <1>3, <2>1, <2>3, <3>1, <3>2
  <2>5. \A e \in ropCalls' : ~e.gone /\ e.rop.status = "D" => ropRows'[e.id] = NoRow
    BY <1>1, <1>3, <1>7, <2>1 DEF RopIdOrNone
  <2>6. ASSUME NEW e \in ropCalls', e.id = NoRop, e.to # NoRop
        PROVE  ropRows'[e.to] = NoRow
    <3>1. e \in ropCalls /\ e # c /\ e.to \in RopIds
      BY <1>1, <1>7, <2>6 DEF RopIdOrNone
    <3>2. c.id = NoRop => e.to # c.to
      BY <2>1, <2>6, <3>1
    <3> QED
      BY <1>3, <2>1, <2>6, <3>1, <3>2
  <2> QED
    BY <1>1, <2>1, <2>2, <2>4, <2>5, <2>6
<1>10. RowsAgree'
  <2> SUFFICES ASSUME RopClean PROVE RowsAgree!2'
    BY <1>1 DEF RowsAgree, RopClean
  <2>1. RowsAgree!2 /\ RopSound
    BY DEF RowsAgree, RopClean, RopSound
  <2>2. Opening /\ OneCall /\ Dying /\ Newborn
    BY <2>1 DEF RopInv, Deletes
  <2>3. ropListing = "shown" /\ ropList[c.to] = c.rop
    BY <1>1, <1>2, <2>1, <2>2 DEF Opening
  <2>4. ropRows'[c.to] = [body |-> c.rop.body, tab |-> "U", n |-> 1]
    <3>1. CASE c.id # NoRop
      <4>1. ropRows[c.to].n = 1 /\ ropRows[c.to].tab = "U" /\ ropRows[c.to] \in RopRow
        BY <1>2, <1>4, <1>6, <2>1, <2>3, <3>1
      <4>2. ropRows'[c.to] = [ropRows[c.to] EXCEPT !.body = c.rop.body]
        BY <1>1, <1>2, <1>6, <2>3, <3>1, <4>1 DEF RowAfterSave, RopInv, RopTyped
      <4> QED
        BY <4>1, <4>2 DEF RopRow
    <3>2. CASE c.id = NoRop
      <4>1. ropRows[c.to] = NoRow
        BY <1>1, <2>2, <3>2 DEF Newborn
      <4> QED
        BY <1>1, <1>2, <1>5, <2>3, <3>2, <4>1 DEF RowAfterSave, RopInv, RopTyped
    <3> QED
      BY <3>1, <3>2
  <2>5. \A x \in RopIds : x # c.to => ropRows'[x] = ropRows[x] /\ ropCache'[x] = ropCache[x]
    BY <1>1, <1>6 DEF RowAfterSave, Cached
  <2>6. ropCache'[c.to] = c.rop
    BY <1>1, <1>2, <2>3 DEF Cached, RopInv, RopTyped
  <2>7. ASSUME NEW x \in RopIds,
               \A e \in ropCalls' : e.to # x /\ (e.id = x => e.rop.status # "D")
        PROVE  RowAgrees(x)'
    <3>1. CASE x = c.to
      BY <1>1, <1>2, <2>3, <2>4, <2>6, <3>1, RopAssumption
      DEF RopAssumption, RowAgrees, Shown, Displayed, ropServer
    <3>2. CASE x # c.to
      <4>1. c.id # x
        BY <1>6, <3>2, RopAssumption DEF RopAssumption
      <4>2. RowAgrees(x)
        BY <1>1, <2>1, <2>3, <2>7, <3>2, <4>1
      <4> QED
        BY <1>1, <2>5, <3>2, <4>2 DEF RowAgrees, ropServer
    <3> QED
      BY <3>1, <3>2
  <2>8. ASSUME NEW e \in ropCalls', e.id # NoRop, e.rop.status # "D"
        PROVE  ropRows'[e.id].n = 1 /\ ropRows'[e.id].tab = "U"
    <3>1. e \in ropCalls /\ e # c /\ e.id \in RopIds
      BY <1>1, <1>7, <2>8 DEF RopIdOrNone
    <3>2. e.id # c.to
      BY <1>1, <1>6, <2>2, <3>1 DEF OneCall, Newborn
    <3> QED
      BY <2>1, <2>3, <2>5, <2>8, <3>1, <3>2
  <2> QED
    BY <1>1, <1>5, <2>1, <2>3, <2>7, <2>8 DEF ropServer
<1> QED
  BY <1>8, <1>9, <1>10

LEMMA StatusAnsweredShows ==
  ASSUME NEW c \in ropCalls, RopShows, StatusAnswered(c)
  PROVE  RopPlain' /\ RowsCached' /\ RowsAgree'
<1> USE DEF RopShows
<1>1. /\ c.as = "status" /\ c.to # NoRop /\ ropCache' = Cached(c) /\ ropCalls' = ropCalls \ {c}
      /\ UNCHANGED <<ropServer, ropListing, ropAnswer, ropRows, ropEdit, ropMarks>>
  BY DEF StatusAnswered
<1>2. c.to \in RopIds /\ c.rop.status = "D" /\ ~c.gone /\ c.id = c.to
  BY <1>1, CachedType DEF RopPlain, RopInv, Known
<1>3. \A x \in RopIds : x # c.to => ropCache'[x] = ropCache[x]
  BY <1>1 DEF Cached
<1>4. RopPlain'
  BY <1>1 DEF RopPlain, ropEdit
<1>5. RowsCached'
  <2> SUFFICES ASSUME "early" \notin ropMarks PROVE RowsCached!2'
    BY <1>1 DEF RowsCached
  <2>1. RowsCached!2
    BY DEF RowsCached
  <2>2. ropRows[c.to].n = 0
    BY <1>2, <2>1 DEF NoRow
  <2> QED
    BY <1>1, <1>3, <2>1, <2>2 DEF OneRow
<1>6. RowsAgree'
  <2> SUFFICES ASSUME RopClean PROVE RowsAgree!2'
    BY <1>1 DEF RowsAgree, RopClean
  <2>1. RowsAgree!2 /\ RopSound
    BY DEF RowsAgree, RopClean, RopSound
  <2>2. Opening /\ Dying
    BY <2>1 DEF RopInv, Deletes
  <2>3. ropListing = "shown" /\ ~Shown(ropList[c.to]) /\ ropRows[c.to] = NoRow
    BY <1>1, <1>2, <2>1, <2>2 DEF Opening, Dying
  <2>4. ASSUME NEW x \in RopIds,
               \A e \in ropCalls' : e.to # x /\ (e.id = x => e.rop.status # "D")
        PROVE  RowAgrees(x)'
    <3>1. CASE x = c.to
      BY <1>1, <2>3, <3>1 DEF RowAgrees, ropServer
    <3>2. CASE x # c.to
      <4>1. RowAgrees(x)
        BY <1>1, <1>2, <2>1, <2>3, <2>4, <3>2
      <4> QED
        BY <1>1, <1>3, <3>2, <4>1 DEF RowAgrees, ropServer
    <3> QED
      BY <3>1, <3>2
  <2> QED
    BY <1>1, <2>1, <2>3, <2>4 DEF ropServer, ropEdit
<1> QED
  BY <1>4, <1>5, <1>6

LEMMA RopShowsStep == RopShows /\ [RopNext]_ropVars => RopShows'
<1> SUFFICES ASSUME RopShows, [RopNext]_ropVars PROVE RopPlain' /\ RowsCached' /\ RowsAgree'
  BY RopStepKeeps DEF RopShows
<1> DEFINE RopKept == RopPlain' /\ RowsCached' /\ RowsAgree'
<1>1. ASSUME DoNull PROVE RopKept
  BY <1>1, DoNullShows
<1>2. ASSUME DisplayExistingRules PROVE RopKept
  BY <1>2, DisplayShows
<1>3. ASSUME TypeRule PROVE RopKept
  BY <1>3, TypeRuleShows
<1>4. ASSUME ClearForm PROVE RopKept
  BY <1>4, ClearFormShows
<1>5. ASSUME SaveRule PROVE RopKept
  BY <1>5, SaveRuleShows
<1>6. ASSUME RopRestart PROVE RopKept
  BY <1>6, RopRestartShows
<1>7. ASSUME RopReload PROVE RopKept
  BY <1>7, RopReloadShows
<1>8. ASSUME NEW id \in RopIds, NEW copying \in BOOLEAN, ClickLoad(id, copying) PROVE RopKept
  BY <1>8, ClickLoadShows
<1>9. ASSUME NEW id \in RopIds, DeleteRule(id) PROVE RopKept
  BY <1>9, DeleteRuleShows
<1>10. ASSUME NEW id \in RopIds, ArchiveRule(id) PROVE RopKept
  BY <1>10, MoveRuleShows DEF ArchiveRule
<1>11. ASSUME NEW id \in RopIds, RestoreRule(id) PROVE RopKept
  BY <1>11, MoveRuleShows DEF RestoreRule
<1>12. ASSUME NEW c \in ropCalls, NEW written \in BOOLEAN, DoSave(c, written) PROVE RopKept
  BY <1>12, DoSaveShows
<1>13. ASSUME NEW c \in ropCalls, RopLost(c) PROVE RopKept
  BY <1>13, RopLostShows
<1>14. ASSUME NEW c \in ropCalls, SaveAnswered(c) PROVE RopKept
  BY <1>14, SaveAnsweredShows
<1>15. ASSUME NEW c \in ropCalls, StatusAnswered(c) PROVE RopKept
  BY <1>15, StatusAnsweredShows
<1>16. ASSUME UNCHANGED ropVars PROVE RopKept
  BY <1>16 DEF RopShows, ropVars, ropServer, ropPage, ropEdit, RopPlain, RowsCached, OneRow,
               RowsAgree, RopClean, RowAgrees
<1> QED
  BY <1>1, <1>2, <1>3, <1>4, <1>5, <1>6, <1>7, <1>8, <1>9, <1>10, <1>11, <1>12, <1>13, <1>14,
     <1>15, <1>16 DEF RopNext

LEMMA RulesShown == RopShows => TableAgrees /\ RowIsCached
<1> SUFFICES ASSUME RopShows PROVE TableAgrees /\ RowIsCached
  OBVIOUS
<1>1. RowIsCached
  BY DEF RopShows, RowsCached, RowIsCached
<1>2. TableAgrees
  BY DEF RopShows, RowsAgree, RopClean, RowAgrees, TableAgrees
<1> QED
  BY <1>1, <1>2

-----------------------------------------------------------------------------

(* How often a rule is in the table: once more when the answer to a save that  *)
(* created it comes, of which there is one at most.                           *)
RopCounted ==
  /\ \A id \in RopIds : ropRows[id].n <= 2
  /\ \A c \in ropCalls : c.id = NoRop /\ c.to # NoRop => ropRows[c.to].n <= 1
  /\ \A c, d \in ropCalls : c.id = NoRop /\ d.id = NoRop /\ c.to = d.to /\ c.to # NoRop => c = d

RopBounds ==
  /\ ropListing \in {"asked", "answered", "shown"} /\ ropSent \in 0..MaxSent
  /\ \A c \in ropCalls : c.n \in 1..MaxSent
  /\ ropAim \in RopIds \cup {NoRop} /\ ropUps \subseteq {"restart", "reload"}
  /\ ropMarks \subseteq {"early", "again", "reused", "gone", "moved", "lost", "unwritten"}

RopBounded == RopCounted /\ RopBounds

LEMMA RopTypeFromInv == RopInv /\ RopBounded => RopTypeOK
<1> SUFFICES ASSUME RopInv, RopBounded PROVE RopTypeOK
  OBVIOUS
<1>1. RopTyped /\ RopCounted /\ RopBounds
  BY DEF RopInv, RopBounded
<1>2. ropRows \in [RopIds -> [body : 0..(MaxTyped + 1), tab : Displayed \cup {"none"}, n : 0..2]]
  <2>1. ropRows \in [RopIds -> RopRow]
    BY <1>1 DEF RopTyped
  <2>2. ASSUME NEW id \in RopIds
        PROVE  ropRows[id] \in [body : 0..(MaxTyped + 1), tab : Displayed \cup {"none"}, n : 0..2]
    <3>1. ropRows[id] \in RopRow /\ ropRows[id].n <= 2
      BY <1>1, <2>1 DEF RopCounted
    <3>2. ropRows[id].n \in 0..2
      BY <3>1 DEF RopRow
    <3> QED BY <3>1, <3>2 DEF RopRow
  <2> QED BY <2>1, <2>2
<1>3. ropCalls \subseteq [n : 1..MaxSent, id : RopIds \cup {NoRop}, rop : Rops,
                          as : {"save", "status"}, to : RopIds \cup {NoRop}, gone : BOOLEAN]
  <2>1. ASSUME NEW c \in ropCalls
        PROVE  c \in [n : 1..MaxSent, id : RopIds \cup {NoRop}, rop : Rops,
                      as : {"save", "status"}, to : RopIds \cup {NoRop}, gone : BOOLEAN]
    <3>1. c \in RopCall /\ c.n \in 1..MaxSent
      BY <1>1 DEF RopTyped, RopBounds
    <3> QED BY <3>1 DEF RopCall, RopIdOrNone
  <2> QED BY <2>1
<1>4. {ropList, ropFile, ropAnswer, ropCache} \subseteq [RopIds -> Rops \cup {NoRop}]
  BY <1>1 DEF RopTyped, RopOrNone
<1>5. ropForm \in [id : RopIds \cup {NoRop}, body : 0..(MaxTyped + 1)]
  BY <1>1 DEF RopTyped, RopForm, RopIdOrNone
<1> QED BY <1>1, <1>2, <1>3, <1>4, <1>5 DEF RopTypeOK, RopTyped, RopBounds

LEMMA RopBoundedInitial == RopInit => RopBounded
<1> SUFFICES ASSUME RopInit PROVE RopBounded
  OBVIOUS
<1>1. 0 \in 0..MaxSent
  BY RopAssumption DEF RopAssumption
<1>2. RopBounds
  BY <1>1 DEF RopInit, RopBounds
<1>3. RopCounted
  BY DEF RopInit, RopCounted, NoRow
<1> QED BY <1>2, <1>3 DEF RopBounded

(* A call that was not there before is numbered and not answered yet.         *)
LEMMA CallSent ==
  ASSUME RopBounds, ropSent < MaxSent, NEW as, NEW id, NEW rop
  PROVE  /\ Call(as, id, rop).n \in 1..MaxSent /\ Call(as, id, rop).to = NoRop
         /\ ropSent + 1 \in 0..MaxSent
<1>1. MaxSent \in Nat /\ ropSent \in 0..MaxSent
  BY RopAssumption DEF RopAssumption, RopBounds
<1>2. ropSent + 1 \in 1..MaxSent /\ ropSent + 1 \in 0..MaxSent
  BY ONLY <1>1, ropSent < MaxSent
<1> QED BY <1>2 DEF Call

(* Counts are kept by a step that adds no answer and no row.                  *)
LEMMA CountsKept ==
  ASSUME RopCounted, RopTyped, RopTyped',
         \A c \in ropCalls' : c.to = NoRop \/ c \in ropCalls,
         \A id \in RopIds : ropRows'[id].n <= ropRows[id].n
  PROVE  RopCounted'
<1>1. ASSUME NEW id \in RopIds PROVE ropRows[id].n \in Int /\ ropRows'[id].n \in Int
  BY <1>1 DEF RopTyped, RopRow
<1>2. \A c \in ropCalls' : c.to \in RopIds \cup {NoRop}
  BY DEF RopTyped, RopCall, RopIdOrNone
<1>3. \A id \in RopIds : ropRows'[id].n <= 2
  BY <1>1 DEF RopCounted
<1>4. ASSUME NEW c \in ropCalls', c.id = NoRop, c.to # NoRop PROVE ropRows'[c.to].n <= 1
  <2>1. c \in ropCalls /\ c.to \in RopIds
    BY <1>2, <1>4
  <2>2. ropRows[c.to].n <= 1
    BY <1>4, <2>1 DEF RopCounted
  <2> QED BY <1>1, <2>1, <2>2
<1>5. \A c, d \in ropCalls' : c.id = NoRop /\ d.id = NoRop /\ c.to = d.to /\ c.to # NoRop => c = d
  BY DEF RopCounted
<1> QED BY <1>3, <1>4, <1>5 DEF RopCounted

(* A rule without identifier gets one that has no row.                        *)
LEMMA SaveCounts ==
  ASSUME RopInv, RopInv', RopBounded, NEW c \in ropCalls, NEW written \in BOOLEAN, DoSave(c, written)
  PROVE  RopCounted'
<1>1. RopTyped /\ RopTyped' /\ Known /\ RopCounted
  BY DEF RopInv, RopBounded
<1>2. PICK id \in (IF c.id # NoRop THEN {c.id} ELSE IF Fresh = {} THEN {} ELSE {Min(Fresh)}) :
        /\ ropCalls' = (ropCalls \ {c}) \cup (IF written /\ ~c.gone THEN {[c EXCEPT !.to = id]} ELSE {})
        /\ ropRows' = ropRows
  BY DEF DoSave, ropPage
<1>3. c \in RopCall
  BY <1>1 DEF RopTyped
<1>4. c.id = NoRop => id \in RopIds /\ id \notin ropDrawn
  BY <1>2, LeastFresh DEF Fresh
<1>5. ASSUME NEW d \in ropCalls', d.id = NoRop, d.to # NoRop
      PROVE  d \in ropCalls \/ (d.to = id /\ c.id = NoRop /\ d = [c EXCEPT !.to = id])
  BY <1>2, <1>3, <1>5 DEF RopCall
<1>6. \A d \in ropCalls : d.to \in ropDrawn \cup {NoRop}
  BY <1>1 DEF Known
<1>7. ASSUME c.id = NoRop PROVE ropRows[id].n <= 1
  <2>1. ropRows[id] = NoRow
    BY <1>1, <1>4, <1>7 DEF Known
  <2> QED BY <2>1 DEF NoRow
<1>8. \A d \in ropCalls' : d.id = NoRop /\ d.to # NoRop => ropRows'[d.to].n <= 1
  BY <1>1, <1>2, <1>5, <1>7 DEF RopCounted
<1>9. \A d, e \in ropCalls' : d.id = NoRop /\ e.id = NoRop /\ d.to = e.to /\ d.to # NoRop => d = e
  BY <1>1, <1>4, <1>5, <1>6 DEF RopCounted
<1> QED BY <1>1, <1>2, <1>8, <1>9 DEF RopCounted

(* The answer to the save that made a rule adds its row.                      *)
LEMMA AnswerAddsRow ==
  ASSUME RopInv, RopInv', RopBounded, NEW c \in ropCalls, SaveAnswered(c)
  PROVE  RopCounted'
<1>1. RopTyped /\ RopTyped' /\ Known /\ RopCounted
  BY DEF RopInv, RopBounded
<1>2. /\ ropRows' = RowAfterSave(c) /\ ropCalls' = ropCalls \ {c} /\ c.to # NoRop
  BY DEF SaveAnswered
<1>3. c.id \in RopIds \cup {NoRop} /\ c.to \in RopIds
  BY <1>1, <1>2 DEF RopTyped, RopCall, RopIdOrNone
<1>4. ropRows \in [RopIds -> RopRow] /\ \A id \in RopIds : ropRows[id].n \in Nat /\ ropRows[id] \in RopRow
  BY <1>1 DEF RopTyped, RopRow
<1>5. CASE ropListing # "shown" \/ c.id # NoRop
  <2>1. \A id \in RopIds : ropRows'[id].n <= ropRows[id].n
    <3>1. ASSUME NEW id \in RopIds PROVE ropRows'[id].n = ropRows[id].n
      BY <1>2, <1>3, <1>4, <1>5, <3>1 DEF RowAfterSave, RopRow
    <3> QED BY <1>4, <3>1
  <2> QED BY <1>1, <1>2, <2>1, CountsKept
<1>6. CASE ropListing = "shown" /\ c.id = NoRop
  <2>1. ropRows' = [ropRows EXCEPT ![c.to] = [body |-> c.rop.body, tab |-> "U", n |-> @.n + 1]]
    BY <1>2, <1>6 DEF RowAfterSave
  <2>2. /\ ropRows'[c.to].n = ropRows[c.to].n + 1
        /\ \A id \in RopIds : id # c.to => ropRows'[id] = ropRows[id]
    BY <1>3, <1>4, <2>1
  <2>3. ropRows[c.to].n <= 1 /\ ropRows[c.to].n \in Nat
    BY <1>1, <1>2, <1>3, <1>4, <1>6 DEF RopCounted
  <2>4. ropRows'[c.to].n <= 2
    BY ONLY <2>2, <2>3
  <2>5. \A id \in RopIds : ropRows'[id].n <= 2
    BY <1>1, <2>2, <2>4 DEF RopCounted
  <2>6. ASSUME NEW d \in ropCalls', d.id = NoRop, d.to # NoRop PROVE ropRows'[d.to].n <= 1
    <3>1. d \in ropCalls /\ d # c
      BY <1>2
    <3>2. d.to # c.to
      BY <1>1, <1>2, <1>6, <2>6, <3>1 DEF RopCounted
    <3>3. d.to \in RopIds
      BY <1>1, <2>6, <3>1 DEF RopTyped, RopCall, RopIdOrNone
    <3>4. ropRows[d.to].n <= 1
      BY <1>1, <2>6, <3>1 DEF RopCounted
    <3> QED BY <2>2, <3>2, <3>3, <3>4
  <2>7. \A d, e \in ropCalls' : d.id = NoRop /\ e.id = NoRop /\ d.to = e.to /\ d.to # NoRop => d = e
    BY <1>1, <1>2 DEF RopCounted
  <2> QED BY <2>5, <2>6, <2>7 DEF RopCounted
<1> QED BY <1>5, <1>6

LEMMA RopCountsStep ==
  ASSUME RopInv, RopInv', RopBounded, [RopNext]_ropVars
  PROVE  RopCounted'
<1>1. RopTyped /\ RopTyped' /\ RopCounted /\ RopBounds
  BY DEF RopInv, RopBounded
<1>2. \A id \in RopIds : ropRows[id] \in RopRow /\ ropRows[id].n \in Nat /\ ropRows[id].n <= ropRows[id].n
  BY <1>1 DEF RopTyped, RopRow
<1>3. ASSUME ropRows' = ropRows, \A c \in ropCalls' : c.to = NoRop \/ c \in ropCalls PROVE RopCounted'
  BY <1>1, <1>2, <1>3, CountsKept
(* The table is filled, or empty again.                                       *)
<1>4. CASE DisplayExistingRules
  <2>1. ropCalls' = ropCalls /\ \A id \in RopIds : ropRows'[id].n \in {0, 1}
    BY <1>4 DEF DisplayExistingRules, NoRow
  <2>2. \A id \in RopIds : ropRows'[id].n <= 1 /\ ropRows'[id].n <= 2
    BY <2>1
  <2>3. \A c \in ropCalls' : c.to \in RopIds \cup {NoRop}
    BY <1>1 DEF RopTyped, RopCall, RopIdOrNone
  <2> QED BY <1>1, <2>1, <2>2, <2>3 DEF RopCounted
<1>5. CASE RopReload
  <2>1. ropCalls' = {[c EXCEPT !.gone = TRUE] : c \in {c \in ropCalls : c.to = NoRop}}
        /\ ropRows' = [id \in RopIds |-> NoRow]
    BY <1>5 DEF RopReload
  <2>2. \A c \in ropCalls' : c.to = NoRop
    BY <1>1, <2>1 DEF RopTyped, RopCall
  <2>3. \A id \in RopIds : ropRows'[id].n <= ropRows[id].n
    BY <1>2, <2>1 DEF NoRow
  <2> QED BY <1>1, <2>2, <2>3, CountsKept
<1>6. ASSUME NEW id \in RopIds, DeleteRule(id) PROVE RopCounted'
  <2>1. \A c \in ropCalls' : c.to = NoRop \/ c \in ropCalls
    BY <1>1, <1>6, CallSent DEF DeleteRule, UpdateRuleStatus
  <2>2. ropRows' = RowRemoved(id)
    BY <1>6 DEF DeleteRule
  <2>3. ASSUME NEW i \in RopIds PROVE ropRows'[i].n <= ropRows[i].n
    <3>1. ropRows'[i].n \in {ropRows[i].n, ropRows[i].n - 1, 0}
      BY <1>1, <1>2, <2>2 DEF RowRemoved, NoRow, RopTyped, RopRow
    <3> QED BY <1>2, <3>1
  <2> QED BY <1>1, <2>1, <2>3, CountsKept
<1>7. ASSUME NEW id \in RopIds, ArchiveRule(id) \/ RestoreRule(id) PROVE RopCounted'
  <2>1. ropCalls' = ropCalls
    BY <1>7 DEF ArchiveRule, RestoreRule, MoveRule, UpdateRuleStatus, ButtonOf
  <2>2. PICK to : ropRows' = [ropRows EXCEPT ![id].tab = to]
    BY <1>7 DEF ArchiveRule, RestoreRule, MoveRule
  <2>3. ASSUME NEW i \in RopIds PROVE ropRows'[i].n <= ropRows[i].n
    <3>1. ropRows'[i].n = ropRows[i].n
      BY <1>1, <1>2, <2>2 DEF RopTyped, RopRow
    <3> QED BY <1>2, <3>1
  <2> QED BY <1>1, <2>1, <2>3, CountsKept
<1>8. CASE SaveRule
  BY <1>1, <1>3, <1>8, CallSent DEF SaveRule, ropPage
<1>9. CASE DoNull \/ TypeRule \/ ClearForm \/ RopRestart \/ UNCHANGED ropVars
  BY <1>3, <1>9 DEF DoNull, TypeRule, ClearForm, RopRestart, ropVars, ropPage
<1>10. ASSUME NEW id \in RopIds, NEW copying \in BOOLEAN, ClickLoad(id, copying) PROVE RopCounted'
  BY <1>3, <1>10 DEF ClickLoad, ropPage
<1>11. ASSUME NEW c \in ropCalls, RopLost(c) \/ StatusAnswered(c) PROVE RopCounted'
  BY <1>3, <1>11 DEF RopLost, StatusAnswered, ropPage
<1>12. ASSUME NEW c \in ropCalls, NEW written \in BOOLEAN, DoSave(c, written) PROVE RopCounted'
  BY <1>12, SaveCounts
<1>13. ASSUME NEW c \in ropCalls, SaveAnswered(c) PROVE RopCounted'
  BY <1>13, AnswerAddsRow
<1> QED BY <1>4, <1>5, <1>6, <1>7, <1>8, <1>9, <1>10, <1>11, <1>12, <1>13 DEF RopNext

LEMMA RopBoundsStep ==
  ASSUME RopInv, RopInv', RopBounded, [RopNext]_ropVars
  PROVE  RopBounds'
<1>1. RopTyped /\ RopTyped' /\ RopBounds
  BY DEF RopInv, RopBounded
<1>2. Touched \subseteq {"reused"} /\ \A id : Again(id) \subseteq {"again"}
  BY DEF Touched, Again
<1>3. CASE DoNull \/ DisplayExistingRules \/ TypeRule \/ ClearForm \/ RopRestart \/ UNCHANGED ropVars
  BY <1>1, <1>2, <1>3 DEF DoNull, DisplayExistingRules, TypeRule, ClearForm, RopRestart, ropVars,
     ropServer, ropPage, ropEdit, RopBounds
<1>4. CASE RopReload
  <2>1. \A c \in ropCalls' : c.n \in 1..MaxSent
    <3>1. \A c \in ropCalls : c \in RopCall /\ c.n \in 1..MaxSent
      BY <1>1 DEF RopTyped, RopBounds
    <3> QED BY <1>4, <3>1 DEF RopReload, RopCall
  <2> QED BY <1>1, <1>4, <2>1 DEF RopReload, RopBounds
<1>5. ASSUME NEW id \in RopIds, NEW copying \in BOOLEAN, ClickLoad(id, copying) PROVE RopBounds'
  BY <1>1, <1>2, <1>5 DEF ClickLoad, RopBounds, ropServer, ropPage
<1>6. CASE SaveRule
  <2>1. ropSent' \in 0..MaxSent /\ \A c \in ropCalls' : c.n \in 1..MaxSent
    BY <1>1, <1>6, CallSent DEF SaveRule, RopBounds
  <2> QED BY <1>1, <1>2, <1>6, <2>1 DEF SaveRule, RopBounds, ropServer, ropPage, ropEdit
<1>7. ASSUME NEW id \in RopIds, DeleteRule(id) PROVE RopBounds'
  <2>1. ropSent' \in 0..MaxSent /\ \A c \in ropCalls' : c.n \in 1..MaxSent
    BY <1>1, <1>7, CallSent DEF DeleteRule, UpdateRuleStatus, RopBounds
  <2> QED BY <1>1, <1>2, <1>7, <2>1 DEF DeleteRule, RopBounds, ropServer, ropEdit
<1>8. ASSUME NEW id \in RopIds, ArchiveRule(id) \/ RestoreRule(id) PROVE RopBounds'
  BY <1>1, <1>8 DEF ArchiveRule, RestoreRule, MoveRule, UpdateRuleStatus, ButtonOf, RopBounds,
     ropServer, ropEdit
<1>9. ASSUME NEW c \in ropCalls, NEW written \in BOOLEAN, DoSave(c, written) PROVE RopBounds'
  <2>1. c \in RopCall /\ c.n \in 1..MaxSent
    BY <1>1 DEF RopTyped, RopBounds
  <2>2. \A d \in ropCalls' : d.n \in 1..MaxSent
    BY <1>1, <1>9, <2>1 DEF DoSave, RopBounds, RopCall
  <2> QED BY <1>1, <1>9, <2>2 DEF DoSave, RopBounds, ropPage, ropEdit
<1>10. ASSUME NEW c \in ropCalls, RopLost(c) \/ SaveAnswered(c) \/ StatusAnswered(c) PROVE RopBounds'
  BY <1>1, <1>10 DEF RopLost, SaveAnswered, StatusAnswered, RopBounds, ropServer, ropPage, ropEdit
<1> QED BY <1>3, <1>4, <1>5, <1>6, <1>7, <1>8, <1>9, <1>10 DEF RopNext

LEMMA RopTypeCorrect == RopSpec => []RopTypeOK
<1>1. RopInit => RopInv /\ RopBounded
  BY RopInitial, RopBoundedInitial
<1>2. RopInv /\ RopBounded /\ [RopNext]_ropVars => RopInv' /\ RopBounded'
  BY RopStepKeeps, RopCountsStep, RopBoundsStep DEF RopBounded
<1> QED BY <1>1, <1>2, RopTypeFromInv, PTL DEF RopSpec

-----------------------------------------------------------------------------
(* How many there are with one more, one less or some of them.                *)
LEMMA OneMore ==
  ASSUME NEW S, IsFiniteSet(S), NEW x
  PROVE  /\ IsFiniteSet(S \cup {x}) /\ Cardinality(S) \in Nat /\ Cardinality(S \cup {x}) \in Nat
         /\ Cardinality(S \cup {x}) <= Cardinality(S) + 1
<1>1. Cardinality(S) \in Nat
  BY FS_CardinalityType
<1>2. /\ IsFiniteSet(S \cup {x})
      /\ Cardinality(S \cup {x}) = Cardinality(S) \/ Cardinality(S \cup {x}) = Cardinality(S) + 1
  BY FS_AddElement
<1> QED BY ONLY <1>1, <1>2

LEMMA OneLess ==
  ASSUME NEW S, IsFiniteSet(S), NEW x \in S
  PROVE  /\ IsFiniteSet(S \ {x}) /\ Cardinality(S) \in Nat /\ Cardinality(S \ {x}) \in Nat
         /\ Cardinality(S \ {x}) = Cardinality(S) - 1
<1>1. Cardinality(S) \in Nat
  BY FS_CardinalityType
<1>2. IsFiniteSet(S \ {x}) /\ Cardinality(S \ {x}) = Cardinality(S) - 1
  BY FS_RemoveElement
<1>3. Cardinality(S \ {x}) \in Nat
  BY <1>2, FS_CardinalityType
<1> QED BY ONLY <1>1, <1>2, <1>3

LEMMA SomeOf ==
  ASSUME NEW S, IsFiniteSet(S), NEW T \in SUBSET S
  PROVE  /\ IsFiniteSet(T) /\ Cardinality(T) \in Nat /\ Cardinality(S) \in Nat
         /\ Cardinality(T) <= Cardinality(S)
<1>1. IsFiniteSet(T) /\ Cardinality(T) <= Cardinality(S)
  BY FS_Subset
<1> QED BY <1>1, FS_CardinalityType

RcCallOK == [n : 1..MaxClicks, delete : SUBSET Ports, at : {"sent", "served", "failed"},
             list : SUBSET Ports, order : 0..MaxClicks]

(* Every timer and every request that waits is for a click of its own, and so *)
(* is every request served.                                                   *)
RcUnserved == {c \in rcCalls : c.at = "sent"}
RcCounted ==
  /\ IsFiniteSet(rcCalls) /\ rcTimers + Cardinality(rcCalls) <= rcClicks
  /\ rcOrder + Cardinality(RcUnserved) <= rcClicks
  /\ \A c \in rcCalls : c.order <= rcOrder

RcTypeInv == RcTypeOK /\ RcCounted

LEMMA RcTypeInitial == RcInit => RcTypeInv
<1> SUFFICES ASSUME RcInit PROVE RcTypeInv
  OBVIOUS
<1>1. MaxClicks \in Nat /\ MaxChanges \in Nat
  BY ConsoleAssumption DEF ConsoleAssumption
<1>2. rcCalls = {} /\ RcUnserved = {}
  BY DEF RcInit, RcUnserved
<1>3. IsFiniteSet(rcCalls) /\ Cardinality(rcCalls) = 0 /\ Cardinality(RcUnserved) = 0
  BY <1>2, FS_EmptySet
<1>4. RcCounted
  BY <1>2, <1>3 DEF RcInit, RcCounted
<1>5. RcTypeOK
  <2>1. 0 \in 0..MaxClicks /\ 0 \in 0..MaxChanges /\ 0 \in 0..0
    BY <1>1
  <2> QED BY <2>1 DEF RcInit, RcTypeOK
<1> QED BY <1>4, <1>5 DEF RcTypeInv

(* How many wait, and how many of them are not served.                        *)
LEMMA RcCounts ==
  ASSUME RcTypeInv
  PROVE  /\ IsFiniteSet(rcCalls) /\ IsFiniteSet(RcUnserved)
         /\ Cardinality(rcCalls) \in Nat /\ Cardinality(RcUnserved) \in Nat
<1>1. RcUnserved \subseteq rcCalls
  BY DEF RcUnserved
<1>2. IsFiniteSet(rcCalls)
  BY DEF RcTypeInv, RcCounted
<1> QED BY ONLY <1>1, <1>2, SomeOf

(* A request more.                                                            *)
LEMMA AskCounts ==
  ASSUME RcTypeInv, NEW delete \in SUBSET Ports, Ask(delete),
         UNCHANGED <<rcList, rcTable, rcMarkers, rcOverlay, rcTimers, rcChanges, rcOrder, rcFrom, rcMarks>>
  PROVE  RcTypeInv'
<1> DEFINE c == [n |-> rcClicks + 1, delete |-> delete, at |-> "sent", list |-> {}, order |-> 0]
<1>1. /\ rcCalls' = rcCalls \cup {c} /\ rcClicks < MaxClicks /\ rcClicks' = rcClicks + 1
  BY DEF Ask
<1>2. MaxClicks \in Nat /\ rcClicks \in 0..MaxClicks /\ rcTimers \in Nat /\ rcOrder \in Nat
  BY ConsoleAssumption DEF ConsoleAssumption, RcTypeInv, RcTypeOK
<1>3. c \in RcCallOK /\ rcClicks' \in 0..MaxClicks
  BY <1>1, <1>2 DEF RcCallOK
<1>4. RcUnserved' \subseteq RcUnserved \cup {c}
  BY <1>1 DEF RcUnserved
<1> HIDE DEF c
<1>5. /\ IsFiniteSet(rcCalls \cup {c}) /\ Cardinality(rcCalls \cup {c}) <= Cardinality(rcCalls) + 1
      /\ Cardinality(rcCalls \cup {c}) \in Nat
  BY RcCounts, OneMore
<1>6. /\ IsFiniteSet(RcUnserved \cup {c}) /\ Cardinality(RcUnserved \cup {c}) <= Cardinality(RcUnserved) + 1
      /\ Cardinality(RcUnserved \cup {c}) \in Nat
  BY RcCounts, OneMore
<1>7. Cardinality(RcUnserved') <= Cardinality(RcUnserved \cup {c}) /\ Cardinality(RcUnserved') \in Nat
  BY <1>4, <1>6, SomeOf
<1>8. /\ rcTimers + Cardinality(rcCalls) <= rcClicks /\ rcOrder + Cardinality(RcUnserved) <= rcClicks
      /\ \A x \in rcCalls : x.order <= rcOrder
  BY DEF RcTypeInv, RcCounted
<1>9. /\ rcTimers' + Cardinality(rcCalls') <= rcClicks' /\ rcOrder' + Cardinality(RcUnserved') <= rcClicks'
  BY <1>1, <1>2, <1>5, <1>6, <1>7, <1>8, RcCounts
<1>10. \A x \in rcCalls' : x.order <= rcOrder'
  BY <1>1, <1>2, <1>8 DEF c
<1>11. RcCounted'
  BY <1>1, <1>5, <1>9, <1>10 DEF RcCounted
<1>12. RcTypeOK'
  BY <1>1, <1>3 DEF RcTypeInv, RcTypeOK, RcCallOK
<1> QED BY <1>11, <1>12 DEF RcTypeInv

(* A request is served, fails, is answered or its answer is lost: it goes, and *)
(* what takes its place, if anything, is one.                                 *)
LEMMA ReplacedCounts ==
  ASSUME NEW S, IsFiniteSet(S), NEW x \in S, NEW y
  PROVE  /\ IsFiniteSet((S \ {x}) \cup {y}) /\ Cardinality((S \ {x}) \cup {y}) \in Nat
         /\ Cardinality(S) \in Nat /\ Cardinality((S \ {x}) \cup {y}) <= Cardinality(S)
<1>1. /\ IsFiniteSet(S \ {x}) /\ Cardinality(S) \in Nat /\ Cardinality(S \ {x}) \in Nat
      /\ Cardinality(S \ {x}) = Cardinality(S) - 1
  BY OneLess
<1>2. /\ IsFiniteSet((S \ {x}) \cup {y}) /\ Cardinality((S \ {x}) \cup {y}) \in Nat
      /\ Cardinality((S \ {x}) \cup {y}) <= Cardinality(S \ {x}) + 1
  BY <1>1, OneMore
<1> QED BY ONLY <1>1, <1>2

LEMMA ServeCounts ==
  ASSUME RcTypeInv, NEW c \in rcCalls, ServeList(c)
  PROVE  RcTypeInv'
<1>1. /\ c.at = "sent" /\ c \in RcUnserved /\ rcTimers' = rcTimers /\ rcClicks' = rcClicks
      /\ rcTable' = rcTable /\ rcMarkers' = rcMarkers /\ rcOverlay' = rcOverlay
      /\ rcChanges' = rcChanges /\ rcFrom' = rcFrom /\ rcMarks' = rcMarks
  BY DEF ServeList, RcUnserved
<1>2. /\ MaxClicks \in Nat /\ rcClicks \in 0..MaxClicks /\ rcTimers \in Nat /\ rcOrder \in Nat
      /\ rcCalls \subseteq RcCallOK /\ rcList \subseteq Ports /\ rcFrom \in 0..rcOrder
  BY ConsoleAssumption DEF ConsoleAssumption, RcTypeInv, RcTypeOK, RcCallOK
<1>3. /\ rcTimers + Cardinality(rcCalls) <= rcClicks /\ rcOrder + Cardinality(RcUnserved) <= rcClicks
      /\ \A x \in rcCalls : x.order <= rcOrder
  BY DEF RcTypeInv, RcCounted
<1>4. c \in RcCallOK
  BY <1>2
<1>5. /\ Cardinality(RcUnserved) \in Nat /\ Cardinality(RcUnserved \ {c}) = Cardinality(RcUnserved) - 1
      /\ IsFiniteSet(RcUnserved \ {c}) /\ Cardinality(RcUnserved \ {c}) \in Nat
  BY <1>1, RcCounts, OneLess
(* What stands for the request then, and how many were served.                *)
<1>6. ASSUME NEW d \in RcCallOK, d.at # "sent", rcCalls' = (rcCalls \ {c}) \cup {d},
             rcOrder' \in {rcOrder, rcOrder + 1}, d.order <= rcOrder', rcList' \subseteq Ports
      PROVE  RcTypeInv'
  <2>1. /\ IsFiniteSet(rcCalls') /\ Cardinality(rcCalls') \in Nat
        /\ Cardinality(rcCalls') <= Cardinality(rcCalls)
    BY <1>6, RcCounts, ReplacedCounts
  <2>2. RcUnserved' = RcUnserved \ {c}
    BY <1>6 DEF RcUnserved
  <2>3. rcOrder' + Cardinality(RcUnserved') <= rcClicks'
    BY <1>1, <1>2, <1>3, <1>5, <1>6, <2>2
  <2>4. rcTimers' + Cardinality(rcCalls') <= rcClicks'
    BY <1>1, <1>2, <1>3, <2>1, RcCounts
  <2>5. \A x \in rcCalls' : x.order <= rcOrder'
    BY <1>2, <1>3, <1>6 DEF RcCallOK
  <2>6. RcCounted'
    BY <2>1, <2>3, <2>4, <2>5 DEF RcCounted
  <2>7. rcOrder' \in 0..MaxClicks /\ rcFrom \in 0..rcOrder'
    <3>1. Cardinality(RcUnserved') \in Nat /\ rcOrder' + Cardinality(RcUnserved') <= rcClicks
      BY <1>1, <1>5, <2>2, <2>3
    <3>2. /\ rcOrder \in Nat /\ rcOrder' \in {rcOrder, rcOrder + 1} /\ rcClicks \in 0..MaxClicks
          /\ MaxClicks \in Nat /\ rcFrom \in 0..rcOrder
      BY <1>2, <1>6
    <3> QED BY ONLY <3>1, <3>2
  <2>8. rcCalls' \subseteq RcCallOK
    BY <1>2, <1>6
  <2>9. RcTypeOK'
    BY <1>1, <1>6, <2>7, <2>8 DEF RcTypeInv, RcTypeOK, RcCallOK
  <2> QED BY <2>6, <2>9 DEF RcTypeInv
<1>7. c.order <= rcOrder /\ rcOrder + 1 <= MaxClicks
  <2>1. Cardinality(RcUnserved) >= 1
    BY <1>5
  <2> QED BY <1>2, <1>3, <1>5, <2>1
<1>8. CASE rcOrder' = rcOrder + 1 /\ rcList' = rcList \ c.delete
           /\ rcCalls' = (rcCalls \ {c}) \cup
                {[c EXCEPT !.at = "served", !.list = rcList \ c.delete, !.order = rcOrder + 1]}
  <2> DEFINE d == [c EXCEPT !.at = "served", !.list = rcList \ c.delete, !.order = rcOrder + 1]
  <2>1. d \in RcCallOK /\ d.at # "sent" /\ d.order = rcOrder + 1
    <3>1. rcOrder + 1 \in 0..MaxClicks /\ rcList \ c.delete \in SUBSET Ports
      BY <1>2, <1>7
    <3> QED BY <1>4, <3>1 DEF RcCallOK
  <2> HIDE DEF d
  <2>2. d.order <= rcOrder' /\ rcOrder' \in {rcOrder, rcOrder + 1} /\ rcList' \subseteq Ports
    BY <1>2, <1>8, <2>1
  <2>3. rcCalls' = (rcCalls \ {c}) \cup {d}
    BY <1>8 DEF d
  <2> QED BY <1>6, <2>1, <2>2, <2>3
<1>9. CASE rcOrder' = rcOrder /\ rcList' = rcList
           /\ rcCalls' = (rcCalls \ {c}) \cup {[c EXCEPT !.at = "failed"]}
  <2> DEFINE d == [c EXCEPT !.at = "failed"]
  <2>1. d \in RcCallOK /\ d.at # "sent" /\ d.order = c.order
    BY <1>4 DEF RcCallOK
  <2> HIDE DEF d
  <2>2. d.order <= rcOrder' /\ rcOrder' \in {rcOrder, rcOrder + 1} /\ rcList' \subseteq Ports
    BY <1>2, <1>7, <1>9, <2>1
  <2>3. rcCalls' = (rcCalls \ {c}) \cup {d}
    BY <1>9 DEF d
  <2> QED BY <1>6, <2>1, <2>2, <2>3
<1> QED BY <1>8, <1>9 DEF ServeList

LEMMA AnswerCounts ==
  ASSUME RcTypeInv, NEW c \in rcCalls, rcCalls' = rcCalls \ {c},
         rcTimers' \in {rcTimers, rcTimers + 1}, rcOverlay' \in BOOLEAN,
         rcTable' \in {rcTable, c.list}, rcMarkers' \in {rcMarkers, c.list},
         rcFrom' \in {rcFrom, c.order}, rcMarks' \subseteq {"overtaken", "failed"},
         UNCHANGED <<rcList, rcClicks, rcChanges, rcOrder>>
  PROVE  RcTypeInv'
<1>1. /\ MaxClicks \in Nat /\ rcClicks \in 0..MaxClicks /\ rcTimers \in Nat /\ rcOrder \in 0..MaxClicks
      /\ rcCalls \subseteq RcCallOK /\ rcFrom \in 0..rcOrder
  BY ConsoleAssumption DEF ConsoleAssumption, RcTypeInv, RcTypeOK, RcCallOK
<1>2. /\ rcTimers + Cardinality(rcCalls) <= rcClicks /\ rcOrder + Cardinality(RcUnserved) <= rcClicks
      /\ \A x \in rcCalls : x.order <= rcOrder
  BY DEF RcTypeInv, RcCounted
<1>3. /\ IsFiniteSet(rcCalls') /\ Cardinality(rcCalls) \in Nat /\ Cardinality(rcCalls') \in Nat
      /\ Cardinality(rcCalls') = Cardinality(rcCalls) - 1
  BY RcCounts, OneLess
<1>4. RcUnserved' \subseteq RcUnserved
  BY DEF RcUnserved
<1>5. Cardinality(RcUnserved') <= Cardinality(RcUnserved) /\ Cardinality(RcUnserved) \in Nat
      /\ Cardinality(RcUnserved') \in Nat
  BY <1>4, RcCounts, SomeOf
<1>6. rcTimers' + Cardinality(rcCalls') <= rcClicks' /\ rcTimers' \in 0..MaxClicks
  BY <1>1, <1>2, <1>3
<1>7. rcOrder' + Cardinality(RcUnserved') <= rcClicks'
  BY <1>1, <1>2, <1>5
<1>8. RcCounted'
  BY <1>2, <1>3, <1>6, <1>7 DEF RcCounted
<1>9. c \in RcCallOK /\ c.order <= rcOrder
  BY <1>1, <1>2
<1>10. c.list \subseteq Ports /\ c.order \in 0..rcOrder
  BY <1>1, <1>9 DEF RcCallOK
<1>11. RcTypeOK'
  BY <1>6, <1>10 DEF RcTypeInv, RcTypeOK
<1> QED BY <1>8, <1>11 DEF RcTypeInv

LEMMA RcTypeStep == RcTypeInv /\ [RcNext]_rcVars => RcTypeInv'
<1> SUFFICES ASSUME RcTypeInv, [RcNext]_rcVars PROVE RcTypeInv'
  OBVIOUS
<1>1. RcTypeOK /\ RcCounted /\ MaxClicks \in Nat /\ MaxChanges \in Nat
  BY ConsoleAssumption DEF ConsoleAssumption, RcTypeInv
<1>2. CASE RefreshRSUs
  BY <1>2, AskCounts DEF RefreshRSUs
<1>3. CASE TimeoutOverlay
  <2>1. rcTimers - 1 \in 0..MaxClicks
    BY <1>1, <1>3 DEF TimeoutOverlay, RcTypeOK
  <2>2. RcTypeOK'
    BY <1>1, <1>3, <2>1 DEF TimeoutOverlay, RcTypeOK
  <2>3. rcTimers - 1 + Cardinality(rcCalls) <= rcClicks
    BY <1>1, RcCounts DEF RcTypeOK, RcCounted
  <2>4. RcUnserved' = RcUnserved
    BY <1>3 DEF TimeoutOverlay, RcUnserved
  <2>5. RcCounted'
    BY <1>1, <1>3, <2>3, <2>4 DEF TimeoutOverlay, RcCounted
  <2> QED BY <2>2, <2>5 DEF RcTypeInv
<1>4. ASSUME NEW p \in Ports, DelRSU(p) PROVE RcTypeInv'
  BY <1>4, AskCounts DEF DelRSU
<1>5. ASSUME NEW p \in Ports, Elsewhere(p) PROVE RcTypeInv'
  <2>1. RcTypeOK'
    BY <1>1, <1>5 DEF Elsewhere, RcTypeOK
  <2>2. RcUnserved' = RcUnserved
    BY <1>5 DEF Elsewhere, RcUnserved
  <2>3. RcCounted'
    BY <1>1, <1>5, <2>2 DEF Elsewhere, RcCounted
  <2> QED BY <2>1, <2>3 DEF RcTypeInv
<1>6. ASSUME NEW c \in rcCalls, ServeList(c) PROVE RcTypeInv'
  BY <1>6, ServeCounts
<1>7. ASSUME NEW c \in rcCalls, AnswerList(c) PROVE RcTypeInv'
  BY <1>1, <1>7, AnswerCounts DEF AnswerList, DisplayRSUList, TimersStarted, ShownFor, RcTypeOK
<1>8. ASSUME NEW c \in rcCalls, AnswerLost(c) PROVE RcTypeInv'
  BY <1>1, <1>8, AnswerCounts DEF AnswerLost, RcTypeOK
<1>9. CASE UNCHANGED rcVars
  <2>1. RcUnserved' = RcUnserved
    BY <1>9 DEF rcVars, RcUnserved
  <2> QED BY <1>1, <1>9, <2>1 DEF rcVars, RcTypeInv, RcTypeOK, RcCounted
<1> QED BY <1>2, <1>3, <1>4, <1>5, <1>6, <1>7, <1>8, <1>9 DEF RcNext

LEMMA RcTypeCorrect == RcSpec => []RcTypeOK
<1>1. RcTypeInv => RcTypeOK
  BY DEF RcTypeInv
<1> QED BY <1>1, RcTypeInitial, RcTypeStep, PTL DEF RcSpec

-----------------------------------------------------------------------------
(* A vehicle is no further than one step for each poll answered so far, and   *)
(* whatever is told of it was its place at some time.                         *)
SmNear ==
  /\ smDist \in [Cars -> Int]
  /\ \A v \in Cars : smDist[v] \in (SmStart - smPolls)..(SmStart + smPolls)
  /\ smPoll => \A v \in Cars : smDist[v] \in (SmStart - (smPolls - 1))..(SmStart + (smPolls - 1))
  /\ smPoll => smPolls > 0
  /\ \A m \in smMsgs : m.n <= smPolls
  /\ smFollow # NoCar => smFollow \in
       [car : Cars, click : 1..MaxMapClicks, dist : {-1} \cup Dists, lanes : {"unknown", "be", "eb"}]

SmTypeInv == SmTypeOK /\ SmNear

LEMMA SmTypeInitial == SmInit => SmTypeInv
<1> SUFFICES ASSUME SmInit PROVE SmTypeInv
  OBVIOUS
<1>1. SmStart \in Nat /\ MaxPolls \in Nat /\ MaxMapClicks \in Nat
  BY MonitorAssumption DEF MonitorAssumption
<1>2. SmStart \in Dists /\ 0 \in 0..MaxPolls /\ 0 \in 0..MaxMapClicks
      /\ SmStart \in (SmStart - 0)..(SmStart + 0)
  BY <1>1 DEF Dists
<1>3. smDist = [v \in Cars |-> SmStart] /\ smFollow = NoCar /\ smPoll = FALSE /\ smMsgs = {}
      /\ smPolls = 0 /\ smClicks = 0 /\ smLast = 0 /\ smMarks = {} /\ smDetail = FALSE
  BY DEF SmInit
<1>4. SmTypeOK
  BY <1>2, <1>3 DEF SmTypeOK
<1>5. SmNear
  BY <1>1, <1>2, <1>3 DEF SmNear
<1> QED BY <1>4, <1>5 DEF SmTypeInv

LEMMA SmTypeStep == SmTypeInv /\ [SmNext]_smVars => SmTypeInv'
<1> SUFFICES ASSUME SmTypeInv, [SmNext]_smVars PROVE SmTypeInv'
  OBVIOUS
<1>1. SmTypeOK /\ SmNear /\ SmStart \in Nat /\ MaxPolls \in Nat /\ MaxMapClicks \in Nat
  BY MonitorAssumption DEF MonitorAssumption, SmTypeInv
<1>2. CASE PollSim
  <2>1. /\ smPolls < MaxPolls /\ smPolls' = smPolls + 1 /\ smPoll' = TRUE /\ smPolls \in 0..MaxPolls
        /\ UNCHANGED <<smDist, smFollow, smMsgs, smDetail, smClicks, smLast, smMarks>>
    BY <1>1, <1>2 DEF PollSim, SmTypeOK
  <2>2. /\ smPolls' \in 0..MaxPolls /\ smPolls' > 0 /\ smPolls' - 1 = smPolls
        /\ \A x : x \in (SmStart - smPolls)..(SmStart + smPolls)
                    => x \in (SmStart - smPolls')..(SmStart + smPolls')
    BY ONLY <1>1, <2>1
  <2>3. SmTypeOK'
    BY <1>1, <2>1, <2>2 DEF SmTypeOK
  <2>4. \A m \in smMsgs : m.n <= smPolls'
    <3>1. \A m \in smMsgs : m.n \in 1..MaxPolls /\ m.n <= smPolls
      BY <1>1 DEF SmTypeOK, SmNear
    <3> QED BY <2>1, <3>1
  <2>5. SmNear'
    BY <1>1, <2>1, <2>2, <2>4 DEF SmNear
  <2> QED BY <2>3, <2>5 DEF SmTypeInv
<1>3. CASE PollTimeout
  BY <1>1, <1>3 DEF PollTimeout, SmTypeInv, SmTypeOK, SmNear
<1>4. ASSUME NEW v \in Cars \cup {NoCar.car}, MapClickHandler(v) PROVE SmTypeInv'
  <2>1. /\ smClicks < MaxMapClicks /\ smClicks' = smClicks + 1 /\ smClicks \in 0..MaxMapClicks
        /\ UNCHANGED <<smDist, smPoll, smMsgs, smDetail, smPolls, smLast, smMarks>>
        /\ smFollow' = IF v \in Cars
             THEN [car |-> v, click |-> smClicks + 1, dist |-> -1, lanes |-> "unknown"] ELSE NoCar
    BY <1>1, <1>4 DEF MapClickHandler, SmTypeOK
  <2>2. smClicks' \in 0..MaxMapClicks /\ smClicks + 1 \in 1..MaxMapClicks
    BY ONLY <1>1, <2>1
  <2>3. smFollow' = NoCar \/ smFollow' \in
          [car : Cars, click : 1..MaxMapClicks, dist : {-1} \cup Dists, lanes : {"unknown", "be", "eb"}]
    BY <2>1, <2>2
  <2>4. SmTypeOK'
    BY <1>1, <2>1, <2>2, <2>3 DEF SmTypeOK
  <2>5. SmNear'
    BY <1>1, <2>1, <2>3 DEF SmNear
  <2> QED BY <2>4, <2>5 DEF SmTypeInv
<1>5. ASSUME NEW moved \in SUBSET Cars, SimglSuccess(moved) PROVE SmTypeInv'
  <2>1. /\ smPoll /\ smPoll' = FALSE /\ smPolls \in 0..MaxPolls /\ smPolls > 0
        /\ smDist' = [v \in Cars |-> IF v \notin moved THEN smDist[v]
                               ELSE IF v \in Forward THEN smDist[v] + 1 ELSE smDist[v] - 1]
        /\ UNCHANGED <<smFollow, smPolls, smClicks, smLast, smMarks>>
    BY <1>1, <1>5 DEF SimglSuccess, SmTypeOK, SmNear
  <2>2. ASSUME NEW v \in Cars
        PROVE  /\ smDist'[v] \in (SmStart - smPolls)..(SmStart + smPolls) /\ smDist'[v] \in Dists
               /\ smDist'[v] \in Int
    <3>1. smDist[v] \in (SmStart - (smPolls - 1))..(SmStart + (smPolls - 1))
      BY <1>1, <2>1 DEF SmNear
    <3>2. smDist'[v] \in {smDist[v], smDist[v] + 1, smDist[v] - 1}
      BY <2>1
    <3>3. /\ SmStart \in Nat /\ MaxPolls \in Nat /\ smPolls \in 0..MaxPolls
      BY <1>1, <2>1
    <3> QED BY ONLY <3>1, <3>2, <3>3 DEF Dists
  <2>3. smDist' \in [Cars -> Dists] /\ smDist' \in [Cars -> Int]
    <3>1. \A v \in Cars : smDist'[v] \in Dists /\ smDist'[v] \in Int
      BY <2>2
    <3>2. smDist' = [v \in Cars |-> smDist'[v]]
      BY <2>1
    <3> QED BY <3>1, <3>2
  <2>4. smMsgs' \subseteq [n : 1..MaxPolls, click : 1..MaxMapClicks, dist : Dists]
        /\ smDetail' \in BOOLEAN /\ \A m \in smMsgs' : m.n <= smPolls
    <3>1. CASE smFollow = NoCar
      BY <1>1, <1>5, <3>1 DEF SimglSuccess, SmTypeOK, SmNear
    <3>2. CASE smFollow # NoCar
      <4> DEFINE d == [n |-> smPolls, click |-> smFollow.click, dist |-> smDist'[smFollow.car]]
      <4>1. smMsgs' = smMsgs \cup {d} /\ smDetail' = smDetail
        BY <1>5, <3>2 DEF SimglSuccess
      <4>2. smFollow.click \in 1..MaxMapClicks /\ smFollow.car \in Cars
        BY <1>1, <3>2 DEF SmNear
      <4>3. smPolls \in 1..MaxPolls /\ smPolls <= smPolls
        BY ONLY <1>1, <2>1
      <4>4. smDist'[smFollow.car] \in Dists
        BY <2>2, <4>2
      <4>5. d \in [n : 1..MaxPolls, click : 1..MaxMapClicks, dist : Dists] /\ d.n = smPolls
        BY <4>2, <4>3, <4>4
      <4> HIDE DEF d
      <4> QED BY <1>1, <4>1, <4>3, <4>5 DEF SmTypeOK, SmNear
    <3> QED BY <3>1, <3>2
  <2>5. SmTypeOK'
    BY <1>1, <2>1, <2>3, <2>4 DEF SmTypeOK
  <2>6. SmNear'
    BY <1>1, <2>1, <2>2, <2>3, <2>4 DEF SmNear
  <2> QED BY <2>5, <2>6 DEF SmTypeInv
<1>6. ASSUME NEW m \in smMsgs, MsgsSuccess(m) PROVE SmTypeInv'
  <2>1. /\ smMsgs' = smMsgs \ {m} /\ UNCHANGED <<smDist, smPoll, smPolls, smClicks>>
    BY <1>6 DEF MsgsSuccess
  <2>2. m.n \in 1..MaxPolls /\ m.dist \in Dists /\ m.n \in 0..MaxPolls
    <3>1. m \in [n : 1..MaxPolls, click : 1..MaxMapClicks, dist : Dists]
      BY <1>1 DEF SmTypeOK
    <3> QED BY <1>1, <3>1
  <2>3. /\ smFollow' = NoCar \/ smFollow' \in
             [car : Cars, click : 1..MaxMapClicks, dist : {-1} \cup Dists, lanes : {"unknown", "be", "eb"}]
        /\ smDetail' \in BOOLEAN /\ smLast' \in 0..MaxPolls
        /\ smMarks' \subseteq {"overtaken", "stranger", "standing"}
    <3>1. CASE smFollow = NoCar
      BY <1>1, <1>6, <3>1 DEF MsgsSuccess, SmTypeOK
    <3>2. CASE smFollow # NoCar
      <4>1. smFollow' = Noted(smFollow, m.dist) /\ smDetail' = TRUE /\ smLast' = m.n
        BY <1>6, <3>2 DEF MsgsSuccess
      <4>2. smFollow \in
             [car : Cars, click : 1..MaxMapClicks, dist : {-1} \cup Dists, lanes : {"unknown", "be", "eb"}]
        BY <1>1, <3>2 DEF SmNear
      <4>3. Noted(smFollow, m.dist) \in
             [car : Cars, click : 1..MaxMapClicks, dist : {-1} \cup Dists, lanes : {"unknown", "be", "eb"}]
        BY <2>2, <4>2 DEF Noted, LanesFor
      <4>4. smMarks' \subseteq {"overtaken", "stranger", "standing"}
        BY <1>1, <1>6, <3>2 DEF MsgsSuccess, SmTypeOK
      <4> QED BY <2>2, <4>1, <4>3, <4>4
    <3> QED BY <3>1, <3>2
  <2>4. SmTypeOK'
    BY <1>1, <2>1, <2>3 DEF SmTypeOK
  <2>5. SmNear'
    BY <1>1, <2>1, <2>3 DEF SmNear
  <2> QED BY <2>4, <2>5 DEF SmTypeInv
<1>7. ASSUME NEW m \in smMsgs, MsgsTimeout(m) PROVE SmTypeInv'
  BY <1>1, <1>7 DEF MsgsTimeout, SmTypeInv, SmTypeOK, SmNear
<1>8. CASE UNCHANGED smVars
  BY <1>1, <1>8 DEF smVars, SmTypeInv, SmTypeOK, SmNear
<1> QED BY <1>2, <1>3, <1>4, <1>5, <1>6, <1>7, <1>8 DEF SmNext

LEMMA SmTypeCorrect == SmSpec => []SmTypeOK
<1>1. SmTypeInv => SmTypeOK
  BY DEF SmTypeInv
<1> QED BY <1>1, SmTypeInitial, SmTypeStep, PTL DEF SmSpec

-----------------------------------------------------------------------------
(* Each part as it runs in Parts.                                             *)
partVars == <<part, ropVars, ihpVars, corVars, trkVars, wsVars, rcVars, smVars, lsVars>>

LEMMA PartStep ==
  ASSUME [PartNext]_partVars
  PROVE  /\ [RopNext]_ropVars /\ [IhpNext]_ihpVars /\ [CorNext]_corVars /\ [TrkNext]_trkVars
         /\ [WsNext]_wsVars /\ [RcNext]_rcVars /\ [SmNext]_smVars /\ [LsNext]_lsVars
BY DEF partVars, PartNext, RopPart, IhpPart, CorridorPart, TrackPart, SessionPart, RsuPart,
       SimPart, LanePart

LEMMA PartsImplement ==
  PartSpec => RopSpec /\ IhpSpec /\ CorSpec /\ TrkSpec /\ WsSpec /\ RcSpec /\ SmSpec /\ LsSpec
<1>1. PartInit => RopInit /\ IhpInit /\ CorInit /\ TrkInit /\ WsInit /\ RcInit /\ SmInit /\ LsInit
  BY DEF PartInit
<1>2. [PartNext]_partVars => /\ [RopNext]_ropVars /\ [IhpNext]_ihpVars /\ [CorNext]_corVars /\ [TrkNext]_trkVars
                             /\ [WsNext]_wsVars /\ [RcNext]_rcVars /\ [SmNext]_smVars /\ [LsNext]_lsVars
  BY PartStep
<1> QED
  BY <1>1, <1>2, PTL DEF PartSpec, partVars, RopSpec, IhpSpec, CorSpec, TrkSpec, WsSpec, RcSpec, SmSpec, LsSpec

(* The table of the rules and the cache behind it agree with the service,     *)
(* for any number of rules, contents and saves (rop.js, api-rop.js, RopMgr).  *)
THEOREM RulesShownCorrect == RopSpec => [](TableAgrees /\ RowIsCached)
<1>1. RopInit => RopShows
  BY RopInitial, ShowsInitial DEF RopShows
<1> QED
  BY <1>1, RopShowsStep, RulesShown, PTL DEF RopSpec

(* The console of roadside units shows the last answer under an overlay that  *)
(* a timer takes away, for any number of units and clicks (rsu.js).           *)
THEOREM ConsoleCorrect == RcSpec => [](ShowsLastServed /\ OverlayIsTimed)
BY RcInitial, RcStepKeeps, ConsoleShows, PTL DEF RcSpec

(* The monitor shows the lanes of the way the followed vehicle goes, for any  *)
(* vehicles, clicks and polls (sim.js).                                       *)
THEOREM MonitorCorrect == SmSpec => []LanesByTravel
<1>1. SmInv => LanesByTravel
  BY DEF SmInv
<1> QED
  BY <1>1, SmInitial, SmStepKeeps, PTL DEF SmSpec

(* What the pages of rules, units and the simulation show is what they were   *)
(* served, in the system of all parts.                                        *)
THEOREM ShowsServedCorrect == PartSpec => []ShowsServed
<1>1. (TableAgrees /\ RowIsCached) /\ (ShowsLastServed /\ OverlayIsTimed) /\ LanesByTravel
        => ShowsServed
  BY DEF ShowsServed
<1> QED
  BY <1>1, PartsImplement, RulesShownCorrect, ConsoleCorrect, MonitorCorrect, PTL

(* The theorems about the parts hold in the system that composes them, for    *)
(* every value of its constants.                                              *)
THEOREM PartsCorrect ==
  PartSpec => /\ [](RulesKept /\ ControlsLead /\ SessionsLast /\ PieceSent /\ ShowsServed /\ CorridorDrawn /\ TrackDrawn)
              /\ SmoothControls
BY PartsImplement, RulesKeptCorrect, ControlsLeadCorrect, SessionsLastCorrect, PieceSentCorrect,
   ShowsServedCorrect, CorridorDrawnCorrect, TrackDrawnCorrect, SmoothCorrect, PTL

(* Every variable of the part that is used has its type: in the system of all *)
(* parts, for every value of its constants.                                   *)
THEOREM PartTypeCorrect == PartSpec => []PartTypeOK
<1>1. PartInit => part \in PartNames
  BY DEF PartInit
<1>2. part \in PartNames /\ [PartNext]_partVars => (part \in PartNames)'
  BY DEF partVars, PartNext, PartNames, RopPart, IhpPart, CorridorPart, TrackPart, SessionPart,
         RsuPart, SimPart, LanePart
<1>3. PartSpec => [](part \in PartNames)
  BY <1>1, <1>2, PTL DEF PartSpec, partVars
<1>4. IhpInv => IhpTypeOK
  BY DEF IhpInv
<1>5. WsInv => WsTypeOK
  BY DEF WsInv
<1>6. LsInv => LsTypeOK
  BY DEF LsInv
<1>7. /\ part \in PartNames /\ RopTypeOK /\ IhpTypeOK /\ CorTypeOK /\ TrkTypeOK
      /\ WsTypeOK /\ RcTypeOK /\ SmTypeOK /\ LsTypeOK
      => PartTypeOK
  BY DEF PartTypeOK, PartNames
<1> QED
  BY <1>3, <1>4, <1>5, <1>6, <1>7, PartsImplement, RopTypeCorrect, IhpInvariant,
     CorridorTypeCorrect, TrackTypeCorrect, WsInvariant, RcTypeCorrect, SmTypeCorrect,
     LaneSpanInvariant, PTL
=============================================================================
