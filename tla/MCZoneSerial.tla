---------------------------- MODULE MCZoneSerial ----------------------------
(* Instances of ZoneSerial for TLC: the threads are interchangeable. *)
EXTENDS ZoneSerial, TLC

Symmetry == Permutations(Thread)
=============================================================================
