---------------------------- MODULE MCRingBuffer ----------------------------
(* Instances of RingBuffer for TLC.                                         *)
EXTENDS RingBuffer

OneTwo == {1, 2}
TwoToFour == 2 .. 4
Three == {3}
=============================================================================
