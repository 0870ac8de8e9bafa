------------------------------ MODULE MCMkkeys ------------------------------
(* Instances of Mkkeys for TLC. *)
EXTENDS Mkkeys

CONSTANTS config, s, w1

\* No name contains another one.
DistinctNames == [h \in Host |-> {h}]

\* "w1" is the host "fig": its name ends the name of the host "config".
SuffixName == [h \in Host |-> IF h = w1 THEN {w1, config} ELSE {h}]
=============================================================================
