---------------------------- MODULE Organization ----------------------------
(***************************************************************************)
(* The tree of organization.xml: its walkers fill_netclasses               *)
(* (src/Python/35_organization.py) and accumulate_tags                     *)
(* (src/Python/30_networking.py).                                          *)
(*                                                                         *)
(* The units are a sequence in document order; units[u].up is the unit     *)
(* that unit u is in, 0 for the root.  units[u].tags holds the texts of    *)
(* the elements that a unit has: network_match, network, gateway,          *)
(* users_group, admin_group, bcfg2_profile; units[u].blank names its       *)
(* elements without a text.                                                *)
(***************************************************************************)
EXTENDS Networks

\* the network of a unit that has none, and the text of an empty one, that
\* is no network for `ipaddress'
NoNet == [net |-> -1, len |-> 0]
NoText == [net |-> -1, len |-> -1]

Has(units, u, tag) == tag \in DOMAIN units[u].tags

\* the network of a unit: network_match, which an empty one removes, else
\* network, which an empty one does not
NetworkOf(units, u) ==
    IF "network_match" \in units[u].blank THEN NoNet
    ELSE IF Has(units, u, "network_match") THEN units[u].tags["network_match"]
    ELSE IF Has(units, u, "network") THEN units[u].tags["network"]
    ELSE IF "network" \in units[u].blank THEN NoText
    ELSE NoNet

HasNetwork(units, u) == IsNetwork(NetworkOf(units, u))

\* ip_network raises a ValueError
Refused(units, u) == NetworkOf(units, u) # NoNet /\ ~ HasNetwork(units, u)

Subunits(units, u) == {s \in DOMAIN units : units[s].up = u}

\* What the order of a document is: the root comes first, a unit after the one
\* that it is in, and only units of that one come between them.
DocumentOrder(units) ==
    \A u \in DOMAIN units :
        /\ units[u].up \in (IF u = 1 THEN {0} ELSE 1 .. (u - 1))
        /\ \A v \in (units[u].up + 1) .. (u - 1) : units[v].up >= units[u].up

(***************************************************************************)
(* accumulate_tags: walk down until a unit's network has the address, and  *)
(* collect the tag on the way back.  WalkFault is where the walk ends      *)
(* before that, at a unit whose network is refused, or at any network when *)
(* the host has no address.                                                *)
(***************************************************************************)
\* Mutant of AccumulateTags: the outermost value comes first.
AccumulateOutermost(units, ip, tag) ==
    LET own(u) == IF Has(units, u, tag) THEN <<units[u].tags[tag]>> ELSE <<>>
        walk[u \in DOMAIN units] ==
            IF HasNetwork(units, u) /\ ip \in Addresses(NetworkOf(units, u))
            THEN [found |-> TRUE, vals |-> own(u)]
            ELSE LET hits == {s \in Subunits(units, u) : walk[s].found}
                 IN  IF hits = {}
                     THEN [found |-> FALSE, vals |-> <<>>]
                     ELSE [found |-> TRUE,
                           vals |-> own(u) \o walk[Min(hits)].vals]
    IN  walk[1]

AccumulateTags(units, ip, tag) ==
    LET own(u) == IF Has(units, u, tag) THEN <<units[u].tags[tag]>> ELSE <<>>
        walk[u \in DOMAIN units] ==
            IF HasNetwork(units, u) /\ ip \in Addresses(NetworkOf(units, u))
            THEN [found |-> TRUE, vals |-> own(u)]
            ELSE LET hits == {s \in Subunits(units, u) : walk[s].found}
                 IN  IF hits = {}
                     THEN [found |-> FALSE, vals |-> <<>>]
                     ELSE [found |-> TRUE,
                           vals |-> walk[Min(hits)].vals \o own(u)]
    IN  walk[1]

\* the walk goes through the units in the order of the document
WalkFault(units, ip) ==
    LET stops == {u \in DOMAIN units :
                     \/ Refused(units, u)
                     \/ /\ HasNetwork(units, u)
                        /\ ip = NoAddr \/ ip \in Addresses(NetworkOf(units, u))}
    IN  IF stops = {} THEN ""
        ELSE IF Refused(units, Min(stops)) THEN "ValueError unit"
        ELSE IF ip = NoAddr THEN "AttributeError address"
        ELSE ""

(***************************************************************************)
(* fill_netclasses: the profile of every network of the tree; a profile is *)
(* inherited, and a network met again is overwritten.                      *)
(***************************************************************************)
OrganizationFault(units) ==
    IF \E u \in DOMAIN units : Refused(units, u) THEN "ValueError unit" ELSE ""

\* Mutant of FillNetclasses: a unit without a profile gets the default one.
FillWithDefaults(units) ==
    LET withNet == {u \in DOMAIN units : HasNetwork(units, u)}
        of(N)   == Max({u \in withNet : NetworkOf(units, u) = N})
    IN  [N \in {NetworkOf(units, u) : u \in withNet} |->
            IF Has(units, of(N), "bcfg2_profile")
            THEN units[of(N)].tags["bcfg2_profile"] ELSE "workstation"]

FillNetclasses(units) ==
    LET profile[u \in DOMAIN units] ==
            IF Has(units, u, "bcfg2_profile") THEN units[u].tags["bcfg2_profile"]
            ELSE IF units[u].up = 0 THEN "workstation"
            ELSE profile[units[u].up]
        withNet == {u \in DOMAIN units : HasNetwork(units, u)}
    IN  [N \in {NetworkOf(units, u) : u \in withNet} |->
            profile[Max({u \in withNet : NetworkOf(units, u) = N})]]

(***************************************************************************)
(* What the walks are for, without walking: the unit that an address       *)
(* belongs to is the first in the document whose network has it, and a     *)
(* host of it gets the tags of the units around it, the nearest first.     *)
(***************************************************************************)
UnitsWith(units, ip) ==
    {u \in DOMAIN units : HasNetwork(units, u)
                            /\ ip \in Addresses(NetworkOf(units, u))}

\* the tags of the units around a unit, the nearest first
TagsAbove(units, u, tag) ==
    LET above[v \in DOMAIN units] ==
            (IF Has(units, v, tag) THEN <<units[v].tags[tag]>> ELSE <<>>)
              \o (IF units[v].up = 0 THEN <<>> ELSE above[units[v].up])
    IN  above[u]

\* no two units are matched by the same address
UnitsDisjoint(units) ==
    \A u, v \in DOMAIN units :
        u # v /\ HasNetwork(units, u) /\ HasNetwork(units, v)
          => Addresses(NetworkOf(units, u)) \cap Addresses(NetworkOf(units, v))
               = {}
=============================================================================
