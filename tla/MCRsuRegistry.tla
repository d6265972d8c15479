---------------------------- MODULE MCRsuRegistry ----------------------------
(* Small instances of RsuRegistry: one BSM request, sent several times, that   *)
(* passes the units of both hubs.                                              *)
EXTENDS RsuRegistry, TLC

CONSTANTS p1, p2, g1, g2, d1, r1, r2

MCBsms == {"b1"}
MCAlong == [b1 |-> {p1, p2}]
MCSymmetry ==
  Permutations({g1, g2}) \cup Permutations({r1, r2}) \cup Permutations({p1, p2})
=============================================================================
