----------------------------- MODULE MCTcmParts ------------------------------
(* Path lengths on both sides of each boundary of a part.                     *)
EXTENDS TcmParts
MCSizes == {1, 255, 256, 257, 511, 512, 700}
=============================================================================
