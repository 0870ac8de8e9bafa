------------------------------ MODULE Networks ------------------------------
(***************************************************************************)
(* The network plan of an installation: the networks of umbrella.xml       *)
(* (src/Python/20_networks.py), the reverse zones derived from them        *)
(* (src/Python/21_revzones.py) and what a resolver finds in the zones that *)
(* named.conf.ldap2zone and mainzone.rev render from both.                 *)
(*                                                                         *)
(* An address is a number of Octets octets, each of Bits bits (4 and 8 in  *)
(* the code, small here).  A network is a record of its first address and  *)
(* its prefix length; the text of one may be none for `ipaddress': it has  *)
(* host bits, or too long a prefix.                                        *)
(* Domain names below in-addr.arpa are written from the root on, a label   *)
(* is the sequence of the numbers that '-' joins in it.                    *)
(***************************************************************************)
EXTENDS Integers, Sequences, FiniteSets, SequencesExt

CONSTANTS Octets, Bits

ASSUME NetworksAssumption == Octets \in Nat \ {0} /\ Bits \in Nat \ {0}

Width == Octets * Bits

\* No address: a host that no address is known of.
NoAddr == -1

\* the number of values of n bits
Pow2[n \in 0 .. Width] == IF n = 0 THEN 1 ELSE 2 * Pow2[n - 1]

NetSize(N) == Pow2[Width - N.len]
Addresses(N) == N.net .. (N.net + NetSize(N) - 1)

\* what ip_network accepts: without host bits, and with a prefix of an address
IsNetwork(N) ==
    /\ N = [net |-> N.net, len |-> N.len]
    /\ N.len \in 0 .. Width
    /\ N.net \in 0 .. (Pow2[Width] - 1)
    /\ N.net % NetSize(N) = 0

\* list(N)[1:-1]: without the network and the broadcast address
Hosts(N) == (N.net + 1) .. (N.net + NetSize(N) - 2)

IsSubnetOf(a, b) ==
    b.net <= a.net /\ a.net + NetSize(a) <= b.net + NetSize(b)

\* ipaddress: `in' between two networks.  The containment of networks is
\* IsSubnetOf; `in' is for addresses and no network is in another one.
NetworkIn(a, b) == FALSE

(***************************************************************************)
(* 20_networks.py                                                          *)
(***************************************************************************)
\* the networks inside of the installation
Internal(nets) == DOMAIN nets \ {"extif", "intif"}

\* "check that internal networks do not intersect"
Intersecting(nets) ==
    \E T1, T2 \in Internal(nets) :
        nets[T1] # nets[T2] /\ NetworkIn(nets[T2], nets[T1])

\* The address a host is configured by: the only one it has, what its name
\* resolves to when bcfg2 knows none, else the one in the public network.
AddressesInPub(host, nets) == host.addrs \cap Addresses(nets["pubif"])

AmbiguousAddress(host, nets) ==
    host.known /\ Cardinality(host.addrs) > 1
               /\ Cardinality(AddressesInPub(host, nets)) > 1

HostAddress(host, nets) ==
    LET candidates == IF Cardinality(host.addrs) <= 1
                      THEN host.addrs
                      ELSE AddressesInPub(host, nets)
    IN  IF ~ host.known THEN NoAddr
        ELSE IF host.addrs = {} THEN host.resolved
        ELSE IF candidates = {} THEN NoAddr
        ELSE CHOOSE a \in candidates : TRUE

(***************************************************************************)
(* 21_revzones.py                                                          *)
(***************************************************************************)
\* the octets that a prefix fixes, prefixlen//8
Whole(N) == N.len \div Bits

\* the networks that have a reverse zone of their own
Served(nets) == DOMAIN nets \ {"extif", "intif", "vpnif"}

\* a network cut down to whole octets
Wrapper(N) ==
    LET len == Bits * Whole(N)
    IN  [net |-> N.net - (N.net % Pow2[Width - len]), len |-> len]

\* The wrapping classful networks.  The loop that is to remove the ones
\* nested in others compares with `in'.
ClassfulNets(nets) ==
    LET wrappers == {Wrapper(nets[T]) : T \in Served(nets)}
    IN  {N2 \in wrappers :
            ~ \E N1 \in wrappers :
                 NetworkIn(N2, N1) /\ NetSize(N2) < NetSize(N1)}

LinkingNets(nets) == ClassfulNets(nets) \ {nets[T] : T \in DOMAIN nets}

\* Mutant of FindClassful: the first wrapping network, whether it wraps N or not.
FindAnyClassful(N, nets) == ClassfulNets(nets)

\* What findClassful may return: the network itself, or the first wrapping
\* network in the order of a Python set.
FindClassful(N, nets) ==
    IF N \in ClassfulNets(nets)
    THEN {N}
    ELSE {NN \in ClassfulNets(nets) : IsSubnetOf(N, NN)}

OctetOf(a, i) == (a \div Pow2[Bits * (Octets - i)]) % Pow2[Bits]
Numbers(a, i, j) == [k \in 1 .. (j - i + 1) |-> OctetOf(a, i + k - 1)]
Labels(a, i, j) == [k \in 1 .. (j - i + 1) |-> <<OctetOf(a, i + k - 1)>>]

ClasslessShortName(N, NC) ==
    Numbers(N.net + 1, Whole(NC) + 1, Octets)
      \o Numbers(N.net + NetSize(N) - 2, Whole(NC) + 1, Octets)

NetworkZoneName(N, NC) ==
    Labels(NC.net, 1, Whole(NC))
      \o (IF NC = N THEN <<>> ELSE <<ClasslessShortName(N, NC)>>)

HostRevIP(ip, N) == Labels(ip, Whole(N) + 1, Octets)

(***************************************************************************)
(* The zones that are rendered (named.conf.ldap2zone, mainzone.rev) and    *)
(* what a query for an address finds in them.  `wrap' is the wrapping      *)
(* network that findClassful returned for each served network.             *)
(***************************************************************************)
Zones(nets, wrap) ==
    {[name |-> NetworkZoneName(nets[T], wrap[T]), net |-> nets[T],
      link |-> FALSE] : T \in Served(nets)}
    \cup
    {[name |-> NetworkZoneName(NC, NC), net |-> NC,
      link |-> TRUE] : NC \in LinkingNets(nets)}

\* the zone that answers: the one with the longest name
Answering(q, zones) ==
    {z \in zones :
        /\ IsPrefix(z.name, q)
        /\ \A y \in zones : IsPrefix(y.name, q) => Len(y.name) <= Len(z.name)}

\* the owner of the PTR of a host in the zone of its network
PtrName(z, ip) == z.name \o HostRevIP(ip, z.net)

\* where the CNAMEs of a link zone for an address point to
CnameTargets(z, ip, nets) ==
    {z.name \o <<ClasslessShortName(N, z.net)>> \o HostRevIP(ip, N) :
        N \in {M \in {nets[T] : T \in DOMAIN nets} :
                  IsSubnetOf(M, z.net) /\ M # z.net /\ ip \in Hosts(M)}}

\* the networks whose zones answer with a PTR to a name
WithPtr(q, ip, zones) ==
    {z.net : z \in {y \in Answering(q, zones) :
                       ~ y.link /\ ip \in Hosts(y.net) /\ q = PtrName(y, ip)}}

\* the networks whose zones have the PTR that a query for an address gets
ReverseLookup(ip, nets, wrap) ==
    LET zones == Zones(nets, wrap)
        q     == Labels(ip, 1, Octets)
        links == {z \in Answering(q, zones) : z.link}
    IN  WithPtr(q, ip, zones)
        \cup UNION {WithPtr(t, ip, zones) :
                       t \in UNION {CnameTargets(z, ip, nets) : z \in links}}

(***************************************************************************)
(* The plans that the derivation of the zones is made for.                 *)
(***************************************************************************)
Disjoint(nets) ==
    \A T1, T2 \in DOMAIN nets :
        T1 # T2 => /\ ~ IsSubnetOf(nets[T1], nets[T2])
                   /\ ~ IsSubnetOf(nets[T2], nets[T1])

\* no wrapping network is nested in another one, or is another network
PlainWrappers(nets) ==
    /\ \A T1, T2 \in Served(nets) :
          IsSubnetOf(Wrapper(nets[T1]), Wrapper(nets[T2]))
            => Wrapper(nets[T1]) = Wrapper(nets[T2])
    /\ \A T \in Served(nets), S \in DOMAIN nets :
          Wrapper(nets[T]) = nets[S] => S = T
=============================================================================
