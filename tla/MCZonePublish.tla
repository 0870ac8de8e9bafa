--------------------------- MODULE MCZonePublish ---------------------------
(* Instances of ZonePublish for TLC: one address in each network and one *)
(* outside of them.                                                      *)
EXTENDS ZonePublish

CONSTANTS h1, h2

TwoNets == [a \in Addr |-> IF a \in Net THEN a ELSE 0]

OneHost == [h \in Host |-> IF h = h1 THEN 1 ELSE NoAddr]
=============================================================================
