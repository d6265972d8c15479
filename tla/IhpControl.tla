------------------------------ MODULE IhpControl ------------------------------
(***************************************************************************)
(* The speed harmonisation service (cc/ihp/IHP.java, Subsegment.java) with  *)
(* simulated traffic: its simulation is started and stopped, and each run   *)
(* reads the detector file, counts the runs with reduced speed and issues   *)
(* advisory speeds that may change only by a gap from run to run.  Speeds   *)
(* are small integers and each corridor has one subsegment under control.   *)
(***************************************************************************)
EXTENDS Integers, FiniteSetsExt

CONSTANTS
  MaxCorridors,  \* how many corridors the corridor file may have
  IhpData,       \* what a detector file may say of a corridor
  IhpTrigger,    \* consecutive_time_interval_trigger
  IhpGap,        \* maximal_gap
  MaxRuns,       \* how many runs, starts, updates and restarts there are
  LowestInt,     \* Integer.MIN_VALUE, which stands for no speed limit
  NoIhp

ASSUME IhpAssumption ==
  /\ MaxCorridors \in Nat /\ MaxRuns \in Nat /\ IhpGap \in Nat
  /\ IhpTrigger \in Nat \ {0} /\ LowestInt \in Int
  /\ IhpData \subseteq [limit : Nat, slow : BOOLEAN, target : Nat]

VARIABLES
  ihpTimer,    \* whether m_oTimer is set
  ihpTriggers, \* m_nTriggers
  ihpFile,     \* the detector file: a record for each of its corridors, or none
  ihpInMemory, \* whether m_oCurrentDetectors is set
  ihpMax,      \* m_nMaxSpeed of the subsegment of each corridor
  ihpAdvisory, \* m_dAdvisorySpeed
  ihpControl,  \* the speed of the control the last run issued for it
  ihpInARow,   \* history: the runs with reduced speed in a row, by corridor
  ihpReduced,  \* history: all those of the simulation
  ihpSteps,    \* history: how many runs, starts, updates and restarts
  ihpFrom,     \* history: the limit in force when the simulation started
  ihpSwapped   \* history: whether the corridor was replaced during it

ihpData == <<ihpFile, ihpInMemory>>
ihpSpeeds == <<ihpMax, ihpAdvisory, ihpControl>>
ihpPast == <<ihpInARow, ihpReduced, ihpFrom, ihpSwapped>>
ihpVars == <<ihpTimer, ihpTriggers, ihpData, ihpSpeeds, ihpPast, ihpSteps>>

Corridors == DOMAIN ihpMax
Each(n, v) == [c \in 1..n |-> v]
Files(n) == {NoIhp} \cup [1..n -> IhpData]

IhpTypeOK ==
  /\ ihpTimer \in BOOLEAN /\ ihpTriggers \in Nat /\ ihpInMemory \in BOOLEAN
  /\ \E n \in 1..MaxCorridors : ihpFile \in Files(n)
  /\ ihpMax \in [Corridors -> Nat \cup {LowestInt}] /\ ihpAdvisory \in [Corridors -> Int]
  /\ ihpControl \in [Corridors -> Int \cup {NoIhp}]
  /\ ihpInARow \in [Corridors -> Nat] /\ ihpReduced \in [Corridors -> Nat]
  /\ ihpFrom \in [Corridors -> Nat \cup {NoIhp}]
  /\ ihpSwapped \in BOOLEAN /\ ihpSteps \in 0..MaxRuns

(* At start the corridors are read, with no limits yet, and not the detectors.*)
IhpBegin(n, file) ==
  /\ ihpTimer = FALSE /\ ihpTriggers = 0 /\ ihpFile = file /\ ihpInMemory = FALSE
  /\ ihpMax = Each(n, 0) /\ ihpAdvisory = Each(n, 0) /\ ihpControl = Each(n, NoIhp)
  /\ ihpInARow = Each(n, 0) /\ ihpReduced = Each(n, 0) /\ ihpFrom = Each(n, NoIhp)
  /\ ihpSwapped = FALSE /\ ihpSteps = 0

IhpInit == \E n \in 1..MaxCorridors : \E file \in Files(n) : IhpBegin(n, file)

IhpStep == ihpSteps < MaxRuns /\ ihpSteps' = ihpSteps + 1

ReadCorridors(n) ==
  /\ ihpMax' = Each(n, 0) /\ ihpAdvisory' = Each(n, 0) /\ ihpControl' = Each(n, NoIhp)
  /\ ihpInARow' = Each(n, 0) /\ ihpReduced' = Each(n, 0) /\ ihpFrom' = Each(n, NoIhp)

IhpRestart ==
  /\ IhpStep /\ ReadCorridors(Cardinality(Corridors))
  /\ ihpTimer' = FALSE /\ ihpTriggers' = 0 /\ ihpInMemory' = FALSE /\ ihpSwapped' = FALSE
  /\ UNCHANGED ihpFile

(* The page saves one corridor: the detector file goes with the old one; what *)
(* memory holds of it and the count of reduced runs do not.                   *)
SaveGeo ==
  /\ IhpStep /\ ReadCorridors(1) /\ ihpFile' = NoIhp /\ ihpSwapped' = ihpTimer
  /\ UNCHANGED <<ihpTimer, ihpTriggers, ihpInMemory>>

(* What readDetectors makes of the limits: a file with fewer corridors than   *)
(* memory is read as far as it goes, and then it fails.                       *)
Limits(file, before) ==
  IF file = NoIhp THEN before
  ELSE [c \in Corridors |-> IF c \in DOMAIN file THEN file[c].limit ELSE before[c]]

TooShort(file) == file # NoIhp /\ DOMAIN file # Corridors

(* The page sends the detectors of one corridor, however many there are.      *)
UpdateDetectors(file) ==
  /\ IhpStep /\ ihpFile' = file /\ ihpInMemory' = TRUE
  /\ ihpMax' = Limits(file, ihpMax)
  /\ UNCHANGED <<ihpTimer, ihpTriggers, ihpAdvisory, ihpControl, ihpPast>>

FromScratch == ihpTriggers' = 0 /\ ihpAdvisory' = ihpMax

StartSim ==
  /\ IhpStep /\ ~ihpTimer /\ ihpTimer' = TRUE
  /\ FromScratch
  /\ ihpFrom' = [c \in Corridors |->
       IF ihpFile = NoIhp \/ TooShort(ihpFile) THEN NoIhp
       ELSE IF ihpMax[c] = ihpFile[c].limit THEN ihpMax[c] ELSE NoIhp]
  /\ ihpInARow' = [c \in Corridors |-> 0] /\ ihpReduced' = [c \in Corridors |-> 0]
  /\ ihpSwapped' = FALSE
  /\ UNCHANGED <<ihpData, ihpMax, ihpControl>>

StopSim ==
  /\ ihpTimer /\ ihpTimer' = FALSE
  /\ UNCHANGED <<ihpTriggers, ihpData, ihpSpeeds, ihpPast, ihpSteps>>

-----------------------------------------------------------------------------
(* Equation 8.                                                                *)
(* Mutant: only a rise is bounded.                                            *)
RiseBounded(speed, before) == Min({speed, before + IhpGap})

WithinGap(speed, before) == Max({Min({speed, before + IhpGap}), before - IhpGap})

Reduced(c) == ihpFile # NoIhp /\ ihpFile[c].slow

(* m_nTriggers after the first c corridors: one count for all of them.        *)
(* Mutant: a run that is not slow does not reset it.                          *)
CountAll(c) == ihpTriggers + Cardinality({d \in 1..c : Reduced(d)})

Counted(c) ==
  (IF \A d \in 1..c : Reduced(d) THEN ihpTriggers ELSE 0)
    + Cardinality({d \in 1..c : \A e \in d..c : Reduced(e)})

(* A run resets every subsegment and reads the detectors; without any in      *)
(* memory, or with too few in the file, it fails before it comes to speeds.   *)
Reset ==
  /\ IhpStep /\ ihpTimer
  /\ ihpMax' = Limits(ihpFile, [c \in Corridors |-> LowestInt])
  /\ ihpInMemory' = (ihpInMemory \/ ihpFile # NoIhp)
  /\ UNCHANGED <<ihpTimer, ihpFile, ihpFrom, ihpSwapped>>

ExecuteFails ==
  /\ Reset /\ (~ihpInMemory' \/ TooShort(ihpFile))
  /\ ihpControl' = [c \in Corridors |-> NoIhp]
  /\ UNCHANGED <<ihpTriggers, ihpAdvisory, ihpInARow, ihpReduced>>

Execute ==
  /\ Reset /\ ihpInMemory' /\ ~TooShort(ihpFile)
  /\ ihpTriggers' = Counted(Cardinality(Corridors))
  /\ ihpAdvisory' = [c \in Corridors |->
       IF Reduced(c) THEN WithinGap(ihpFile[c].target, ihpAdvisory[c]) ELSE ihpAdvisory[c]]
  /\ ihpControl' = [c \in Corridors |->
       IF Reduced(c) /\ Counted(c) >= IhpTrigger THEN ihpAdvisory'[c] ELSE NoIhp]
  /\ ihpInARow' = [c \in Corridors |-> IF Reduced(c) THEN ihpInARow[c] + 1 ELSE 0]
  /\ ihpReduced' = [c \in Corridors |-> ihpReduced[c] + (IF Reduced(c) THEN 1 ELSE 0)]

IhpNext ==
  \/ IhpRestart
  \/ SaveGeo
  \/ \E file \in [1..1 -> IhpData] : UpdateDetectors(file)
  \/ StartSim
  \/ StopSim
  \/ ExecuteFails
  \/ Execute

IhpSpec == IhpInit /\ [][IhpNext]_ihpVars

-----------------------------------------------------------------------------
(* A control is issued only after as many runs in a row with reduced speed    *)
(* upstream as the trigger asks for: with one corridor, the one count of      *)
(* IHP.java being shared by all, and unless it is replaced during a           *)
(* simulation, which keeps the count.                                         *)
IssuedAfterTrigger ==
  (Cardinality(Corridors) = 1 /\ ~ihpSwapped) =>
  \A c \in Corridors :
    (ihpControl[c] # NoIhp /\ ihpInARow[c] > 0) => ihpInARow[c] >= IhpTrigger

(* A simulation leads speeds down from the limit, a gap for each run: if the  *)
(* limit was known when it started.  After a restart it is not, although the  *)
(* detector file is there, and the speeds start from zero.                    *)
LedFromLimit ==
  \A c \in Corridors :
    (ihpControl[c] # NoIhp /\ ihpFrom[c] # NoIhp /\ ihpReduced[c] > 0) =>
      ihpControl[c] >= ihpFrom[c] - IhpGap * ihpReduced[c]

(* Controls of two runs in a row of one simulation differ by no more than the *)
(* gap, whatever was uploaded between them.                                   *)
SmoothControls ==
  [][ihpTimer => \A c \in Corridors \cap DOMAIN ihpControl' :
       (ihpReduced[c] > 0 /\ ihpControl[c] # NoIhp /\ ihpControl'[c] # NoIhp) =>
         ihpControl'[c] - ihpControl[c] \in -IhpGap..IhpGap]_ihpVars

(* A speed control is issued when enough runs asked for one, and leads down   *)
(* from the limit by no more than a gap for each of them.                     *)
ControlsLead == IssuedAfterTrigger /\ LedFromLimit
=============================================================================
