-------------------------------- MODULE Parts --------------------------------
(* Eight parts of the web front end and of the services behind it, in one     *)
(* system: the log of rules, speed harmonisation and the corridor drawn for   *)
(* it, a track over road segments, sessions, the console of roadside units,   *)
(* the monitor of the simulation and a piece drawn on a lane.  They share no  *)
(* state: each is a page or a dialog of its own, and a user has one open.     *)
EXTENDS RopBook, IhpControl, IhpCorridor, SegmentTrack, WebSession, RsuConsole,
        SimMonitor, LaneSpan

VARIABLE part  \* the part that is used

PartNames == {"rop", "ihp", "corridor", "track", "session", "rsu", "sim", "lane"}

PartInit ==
  /\ part \in PartNames
  /\ RopInit /\ IhpInit /\ CorInit /\ TrkInit /\ WsInit /\ RcInit /\ SmInit /\ LsInit
  /\ part # "ihp" => Cardinality(Corridors) = 1 /\ ihpFile = NoIhp
  /\ part # "track" => trkRoad = CHOOSE b \in Backwards : TRUE
  /\ part # "track" => trk.segs = <<1>>

RopPart ==
  /\ part = "rop" /\ RopNext
  /\ UNCHANGED <<part, ihpVars, corVars, trkVars, wsVars, rcVars, smVars, lsVars>>
IhpPart ==
  /\ part = "ihp" /\ IhpNext
  /\ UNCHANGED <<part, ropVars, corVars, trkVars, wsVars, rcVars, smVars, lsVars>>
CorridorPart ==
  /\ part = "corridor" /\ CorNext
  /\ UNCHANGED <<part, ropVars, ihpVars, trkVars, wsVars, rcVars, smVars, lsVars>>
TrackPart ==
  /\ part = "track" /\ TrkNext
  /\ UNCHANGED <<part, ropVars, ihpVars, corVars, wsVars, rcVars, smVars, lsVars>>
SessionPart ==
  /\ part = "session" /\ WsNext
  /\ UNCHANGED <<part, ropVars, ihpVars, corVars, trkVars, rcVars, smVars, lsVars>>
RsuPart ==
  /\ part = "rsu" /\ RcNext
  /\ UNCHANGED <<part, ropVars, ihpVars, corVars, trkVars, wsVars, smVars, lsVars>>
SimPart ==
  /\ part = "sim" /\ SmNext
  /\ UNCHANGED <<part, ropVars, ihpVars, corVars, trkVars, wsVars, rcVars, lsVars>>
LanePart ==
  /\ part = "lane" /\ LsNext
  /\ UNCHANGED <<part, ropVars, ihpVars, corVars, trkVars, wsVars, rcVars, smVars>>

PartNext ==
  \/ RopPart \/ IhpPart \/ CorridorPart \/ TrackPart
  \/ SessionPart \/ RsuPart \/ SimPart \/ LanePart

PartSpec == PartInit /\ [][PartNext]_<<part, ropVars, ihpVars, corVars, trkVars, wsVars,
                                       rcVars, smVars, lsVars>>

(* Every variable of the part that is used holds what its comment says.      *)
PartTypeOK ==
  CASE part = "rop" -> RopTypeOK
    [] part = "ihp" -> IhpTypeOK
    [] part = "corridor" -> CorTypeOK
    [] part = "track" -> TrkTypeOK
    [] part = "session" -> WsTypeOK
    [] part = "rsu" -> RcTypeOK
    [] part = "sim" -> SmTypeOK
    [] part = "lane" -> LsTypeOK

(* What a page shows is what the service said last: the rules, each in one    *)
(* row that the form can load, the units, under an overlay that comes off,    *)
(* and the lanes of the way a vehicle goes.                                   *)
ShowsServed == TableAgrees /\ RowIsCached /\ ShowsLastServed /\ OverlayIsTimed /\ LanesByTravel
=============================================================================
