------------------------------ MODULE RsuConsole ------------------------------
(***************************************************************************)
(* The console of the roadside units (web/script/rsu.js): a table and map   *)
(* filled from the list that every answer brings, to a refresh or to a      *)
(* deletion, under an overlay that a timer takes away.  The service is seen *)
(* through its list; how it keeps that is RsuRegistry.                      *)
(***************************************************************************)
EXTENDS Integers, FiniteSets

CONSTANTS
  Ports,       \* the units, each known by the port of its hub
  MaxClicks,   \* how often the list is asked for or a unit is deleted
  MaxChanges   \* how often a unit registers or another console deletes one

ASSUME ConsoleAssumption == MaxClicks \in Nat /\ MaxChanges \in Nat

VARIABLES
  rcList,     \* the units the service has
  rcTable,    \* the units in the table
  rcMarkers,  \* the units on the map
  rcOverlay,  \* whether the overlay is shown
  rcTimers,   \* how many timers will hide it
  rcCalls,    \* the requests not answered yet
  rcClicks, rcChanges,  \* history: how often either happened
  rcOrder,    \* history: how many requests were served
  rcFrom,     \* history: which of them the table shows
  rcMarks     \* history: what happened that the source does not provide for

rcVars == <<rcList, rcTable, rcMarkers, rcOverlay, rcTimers, rcCalls, rcClicks, rcChanges,
            rcOrder, rcFrom, rcMarks>>

RcTypeOK ==
  /\ rcList \subseteq Ports /\ rcTable \subseteq Ports /\ rcMarkers \subseteq Ports
  /\ rcOverlay \in BOOLEAN /\ rcTimers \in 0..MaxClicks
  /\ rcCalls \subseteq [n : 1..MaxClicks, delete : SUBSET Ports, at : {"sent", "served", "failed"},
                        list : SUBSET Ports, order : 0..MaxClicks]
  /\ rcClicks \in 0..MaxClicks /\ rcChanges \in 0..MaxChanges
  /\ rcOrder \in 0..MaxClicks /\ rcFrom \in 0..rcOrder
  /\ rcMarks \subseteq {"overtaken", "failed"}

Ask(delete) ==
  /\ rcClicks < MaxClicks /\ rcClicks' = rcClicks + 1
  /\ rcCalls' = rcCalls \cup {[n |-> rcClicks + 1, delete |-> delete, at |-> "sent", list |-> {},
                               order |-> 0]}

RcInit ==
  /\ rcList = Ports /\ rcTable = {} /\ rcMarkers = {} /\ rcOverlay = FALSE /\ rcTimers = 0
  /\ rcCalls = {} /\ rcClicks = 0 /\ rcChanges = 0 /\ rcOrder = 0 /\ rcFrom = 0 /\ rcMarks = {}

RefreshRSUs ==
  /\ Ask({})
  /\ UNCHANGED <<rcList, rcTable, rcMarkers, rcOverlay, rcTimers, rcChanges, rcOrder, rcFrom, rcMarks>>

(* The button of a row deletes its unit.  The overlay keeps the mouse from it *)
(* but not the keyboard.                                                      *)
DelRSU(p) ==
  /\ p \in rcTable /\ Ask({p})
  /\ UNCHANGED <<rcList, rcTable, rcMarkers, rcOverlay, rcTimers, rcChanges, rcOrder, rcFrom, rcMarks>>

(* The service: other units come and go, a request is served or fails.        *)
Elsewhere(p) ==
  /\ rcChanges < MaxChanges /\ rcChanges' = rcChanges + 1
  /\ rcList' = IF p \in rcList THEN rcList \ {p} ELSE rcList \cup {p}
  /\ UNCHANGED <<rcTable, rcMarkers, rcOverlay, rcTimers, rcCalls, rcClicks, rcOrder, rcFrom, rcMarks>>

ServeList(c) ==
  /\ c.at = "sent"
  /\ \/ /\ rcList' = rcList \ c.delete /\ rcOrder' = rcOrder + 1
        /\ rcCalls' = (rcCalls \ {c}) \cup
             {[c EXCEPT !.at = "served", !.list = rcList \ c.delete, !.order = rcOrder + 1]}
        /\ UNCHANGED rcMarks
     \/ /\ rcCalls' = (rcCalls \ {c}) \cup {[c EXCEPT !.at = "failed"]}
        /\ UNCHANGED <<rcList, rcOrder, rcMarks>>
  /\ UNCHANGED <<rcTable, rcMarkers, rcOverlay, rcTimers, rcClicks, rcChanges, rcFrom>>

(* Mutant: the answer to a deletion is not shown.                             *)
ShownIfRefresh(c) == c.delete = {}
ShownFor(c) == TRUE

TimersStarted(c) == 1

(* displayRSUList: table and map are emptied and filled from the list, under  *)
(* the overlay that timeoutPageoverlay hides.                                 *)
DisplayRSUList(c) ==
  /\ rcTimers' = rcTimers + TimersStarted(c) /\ rcOverlay' = TRUE
  /\ IF ShownFor(c)
     THEN rcTable' = c.list /\ rcMarkers' = c.list /\ rcFrom' = c.order
     ELSE UNCHANGED <<rcTable, rcMarkers, rcFrom>>
  /\ rcMarks' = rcMarks \cup (IF c.order < rcFrom THEN {"overtaken"} ELSE {})

AnswerList(c) ==
  /\ c.at = "served" /\ rcCalls' = rcCalls \ {c} /\ DisplayRSUList(c)
  /\ UNCHANGED <<rcList, rcClicks, rcChanges, rcOrder>>

AnswerLost(c) ==
  /\ c.at \in {"served", "failed"} /\ rcCalls' = rcCalls \ {c}
  /\ rcMarks' = rcMarks \cup (IF c.at = "served" THEN {"failed"} ELSE {})
  /\ UNCHANGED <<rcList, rcTable, rcMarkers, rcOverlay, rcTimers, rcClicks, rcChanges, rcOrder, rcFrom>>

TimeoutOverlay ==
  /\ rcTimers > 0 /\ rcTimers' = rcTimers - 1 /\ rcOverlay' = FALSE
  /\ UNCHANGED <<rcList, rcTable, rcMarkers, rcCalls, rcClicks, rcChanges, rcOrder, rcFrom, rcMarks>>

RcNext ==
  \/ RefreshRSUs \/ TimeoutOverlay
  \/ \E p \in Ports : DelRSU(p) \/ Elsewhere(p)
  \/ \E c \in rcCalls : ServeList(c) \/ AnswerList(c) \/ AnswerLost(c)

RcSpec == RcInit /\ [][RcNext]_rcVars

-----------------------------------------------------------------------------
(* The table shows what the last request that was served found, once its      *)
(* answer is there: unless the answer to an earlier one came after it, or the *)
(* answer was lost.                                                           *)
ShowsLastServed ==
  rcMarks \cap {"overtaken", "failed"} = {} /\ (\A c \in rcCalls : c.at # "served") =>
  rcFrom = rcOrder /\ (rcOrder > 0 /\ rcChanges = 0 => rcTable = rcList)

(* Under the overlay there is a timer that hides it.                          *)
OverlayIsTimed == rcOverlay => rcTimers > 0
=============================================================================
