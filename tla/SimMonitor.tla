------------------------------ MODULE SimMonitor ------------------------------
(***************************************************************************)
(* The monitor of simulated vehicles (web/script/sim.js, monitor.js): the   *)
(* positions are asked for every second, then the events near the vehicle   *)
(* that is followed; the first two distances to an event tell which of its  *)
(* lanes are shown.  An answer that takes too long is given up, so that no  *)
(* more than two requests for events are under way.                         *)
(***************************************************************************)
EXTENDS Integers, FiniteSets

CONSTANTS
  Cars,       \* the vehicles
  Forward,    \* those that go from the beginning of the event to its end
  SmStart,      \* how far from its beginning they start
  MaxPolls,   \* how often the positions are asked for
  MaxMapClicks   \* how often the map is clicked

ASSUME MonitorAssumption ==
  Forward \subseteq Cars /\ SmStart \in Nat /\ MaxPolls \in Nat /\ MaxMapClicks \in Nat

VARIABLES
  smDist,     \* how far each vehicle is from the beginning of the event
  smFollow,   \* g_sFollowing: the vehicle, which click chose it, and what is known of the event
  smPoll,     \* whether the positions are being asked for
  smMsgs,     \* the requests for events under way
  smDetail,   \* whether the detail is shown
  smPolls, smClicks, \* history: how often either was done
  smLast,     \* history: the last request whose answer was used
  smMarks     \* history: what happened that the source does not provide for

smVars == <<smDist, smFollow, smPoll, smMsgs, smDetail, smPolls, smClicks, smLast, smMarks>>

NoCar == [car |-> "none", click |-> 0, dist |-> -1, lanes |-> "unknown"]
Dists == (SmStart - MaxPolls)..(SmStart + MaxPolls)

SmTypeOK ==
  /\ smDist \in [Cars -> Dists]
  /\ \/ smFollow = NoCar
     \/ /\ smFollow.car \in Cars /\ smFollow.click \in 1..MaxMapClicks
        /\ smFollow.dist \in {-1} \cup Dists /\ smFollow.lanes \in {"unknown", "be", "eb"}
  /\ smPoll \in BOOLEAN /\ smDetail \in BOOLEAN
  /\ smMsgs \subseteq [n : 1..MaxPolls, click : 1..MaxMapClicks, dist : Dists]
  /\ smPolls \in 0..MaxPolls /\ smClicks \in 0..MaxMapClicks /\ smLast \in 0..MaxPolls
  /\ smMarks \subseteq {"overtaken", "stranger", "standing"}

SmInit ==
  /\ smDist = [v \in Cars |-> SmStart] /\ smFollow = NoCar /\ smPoll = FALSE /\ smMsgs = {}
  /\ smDetail = FALSE /\ smPolls = 0 /\ smClicks = 0 /\ smLast = 0 /\ smMarks = {}

(* A click on a vehicle follows it from anew, a click beside it none.         *)
MapClickHandler(v) ==
  /\ smClicks < MaxMapClicks /\ smClicks' = smClicks + 1
  /\ smFollow' = IF v \in Cars
       THEN [car |-> v, click |-> smClicks + 1, dist |-> -1, lanes |-> "unknown"] ELSE NoCar
  /\ UNCHANGED <<smDist, smPoll, smMsgs, smDetail, smPolls, smLast, smMarks>>

PollSim ==
  /\ ~smPoll /\ smPolls < MaxPolls /\ smPolls' = smPolls + 1 /\ smPoll' = TRUE
  /\ UNCHANGED <<smDist, smFollow, smMsgs, smDetail, smClicks, smLast, smMarks>>

(* The positions arrive: some vehicles have moved on.                         *)
SimglSuccess(moved) ==
  /\ smPoll /\ smPoll' = FALSE
  /\ \A m \in smMsgs : m.n >= smPolls - 1
  /\ smDist' = [v \in Cars |-> IF v \notin moved THEN smDist[v]
                               ELSE IF v \in Forward THEN smDist[v] + 1 ELSE smDist[v] - 1]
  /\ IF smFollow = NoCar
     THEN smDetail' = FALSE /\ UNCHANGED smMsgs
     ELSE /\ smMsgs' = smMsgs \cup
               {[n |-> smPolls, click |-> smFollow.click, dist |-> smDist'[smFollow.car]]}
          /\ UNCHANGED smDetail
  /\ UNCHANGED <<smFollow, smPolls, smClicks, smLast, smMarks>>

PollTimeout ==
  /\ smPoll /\ smPoll' = FALSE
  /\ UNCHANGED <<smDist, smFollow, smMsgs, smDetail, smPolls, smClicks, smLast, smMarks>>

LanesFor(before, now) == IF before < now THEN "be" ELSE "eb"

(* The first distance to the event is kept, the next one decides its lanes.   *)
Noted(f, dist) ==
  IF f.dist = -1 THEN [f EXCEPT !.dist = dist]
  ELSE IF f.lanes = "unknown" THEN [f EXCEPT !.lanes = LanesFor(f.dist, dist)] ELSE f

(* The events arrive, for the vehicle that is followed by then; if none is,   *)
(* the handler fails.                                                         *)
MsgsSuccess(m) ==
  /\ m \in smMsgs /\ smMsgs' = smMsgs \ {m}
  /\ IF smFollow = NoCar THEN UNCHANGED <<smFollow, smDetail, smLast, smMarks>>
     ELSE /\ smFollow' = Noted(smFollow, m.dist) /\ smDetail' = TRUE /\ smLast' = m.n
          /\ smMarks' = smMarks
               \cup (IF m.n < smLast THEN {"overtaken"} ELSE {})
               \cup (IF m.click # smFollow.click THEN {"stranger"} ELSE {})
               \cup (IF m.dist = smFollow.dist /\ smFollow.lanes = "unknown" THEN {"standing"} ELSE {})
  /\ UNCHANGED <<smDist, smPoll, smPolls, smClicks>>

MsgsTimeout(m) ==
  /\ m \in smMsgs /\ smMsgs' = smMsgs \ {m}
  /\ UNCHANGED <<smDist, smFollow, smPoll, smDetail, smPolls, smClicks, smLast, smMarks>>

SmNext ==
  \/ PollSim \/ PollTimeout
  \/ \E v \in Cars \cup {NoCar.car} : MapClickHandler(v)
  \/ \E moved \in SUBSET Cars : SimglSuccess(moved)
  \/ \E m \in smMsgs : MsgsSuccess(m) \/ MsgsTimeout(m)

SmSpec == SmInit /\ [][SmNext]_smVars

-----------------------------------------------------------------------------
(* The lanes shown for an event are those of the way the vehicle goes: unless *)
(* answers overtook one another, the one to an earlier click was used, or the *)
(* vehicle stood still.                                                       *)
LanesByTravel ==
  smFollow.lanes # "unknown" =>
  \/ smFollow.lanes = (IF smFollow.car \in Forward THEN "be" ELSE "eb")
  \/ smMarks \cap {"overtaken", "stranger", "standing"} # {}
=============================================================================
