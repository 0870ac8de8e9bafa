---------------------------- MODULE MCRendering ----------------------------
(***************************************************************************)
(* Installations to render: eight families, each varying one part of a     *)
(* plain installation.  Addresses have three octets of three bits.         *)
(***************************************************************************)
EXTENDS Rendering, TLC

Net(first, len) == [net |-> first, len |-> len]

\* the networks of the plain installation
Pub == Net(64, 4)
Sec == Net(128, 7)
DMZ == Net(132, 7)
PlainNets == [pubif |-> Pub, secif |-> Sec, DMZif |-> DMZ]

If(ip, mac, nat) == [ip |-> ip, mac |-> mac, nat_ip |-> nat]
Card(ip) == If(ip, 1, NoTag)
Srv(fn, name, ifs) == [fn |-> fn, name |-> name, ifs |-> ifs]
OnPubNet(fn, ip) == Srv(fn, fn, [pubif |-> Card(ip)])
OnDMZ(fn, name, ip) == Srv(fn, name, [DMZif |-> Card(ip)])

Router == Srv("router", "router",
    [extif |-> Card(300), pubif |-> Card(65), secif |-> Card(129), DMZif |-> Card(133)])
Config == OnPubNet("config", 66)
Proxy == OnPubNet("proxy", 67)
Smtp == OnDMZ("DMZsmtp", "smtp", 134)
Www == OnDMZ("DMZwww", "www", 134)
Vpn == OnDMZ("DMZvpn", "vpn", 134)
Mail == OnPubNet("mail", 68)

Domain(name, caps, slave, rev, aliases) ==
    [name |-> [id |-> name, caps |-> caps], slave |-> slave, revDNS |-> rev,
     aliases |-> aliases]

\* a unit, without the texts of some of its elements
UnitWith(up, tags, blank) ==
    [up |-> up, tags |-> [t \in DOMAIN tags \ blank |-> tags[t]], blank |-> blank]
Unit(up, tags) == UnitWith(up, tags, {})
RootTags == [network |-> Pub, gateway |-> 65, users_group |-> "crew",
             admin_group |-> "itadmins", bcfg2_profile |-> "workstation"]

PlainFw == [ssh_from_ext |-> TRUE, ssh_from_int |-> FALSE, forward_ssh_to_ltsp |-> FALSE,
            forward_mail |-> FALSE, robots |-> <<>>, routes |-> <<>>,
            dns_lists |-> <<"white">>]

Plain ==
    [domains |-> <<Domain("acme", FALSE, FALSE, "none", {"ftp"})>>,
     servers |-> <<Router, Config, Proxy, Smtp>>,
     nets |-> PlainNets, ntp_on_vmhost |-> FALSE,
     dhcp |-> [start |-> 80, end |-> 90],
     host |-> [name |-> "ws", fqdn |-> "ws.acme", known |-> TRUE, addrs |-> {70},
               resolved |-> NoAddr, groups |-> {"pcs"}],
     org |-> <<Unit(0, RootTags)>>,
     fw |-> PlainFw,
     usb |-> [blacklist |-> <<>>, whitelist |-> <<[host |-> {}, group |-> {}, devices |-> {}]>>]]

(***************************************************************************)
(* Network plans: classful, classless, nested and overlapping networks,    *)
(* with and without an external network and one for VPN clients, the host  *)
(* with no address, one, or several.                                       *)
(***************************************************************************)
SomeNets == {Net(64, 3), Pub, Net(96, 4), Net(104, 6), Sec, DMZ, Net(128, 6), Net(68, 7)}
Outer == {<<>>, [extif |-> Net(192, 3)], [extif |-> Net(128, 6)],
          [vpnif |-> Net(100, 7)], [vpnif |-> Net(112, 5), extif |-> Net(256, 2)]}

NetFamily ==
    {[Plain EXCEPT !.nets = [pubif |-> p, secif |-> s, DMZif |-> d] @@ o] :
        p \in SomeNets, s \in SomeNets, d \in SomeNets, o \in Outer}
AddrFamily ==
    {[Plain EXCEPT !.host.known = k, !.host.addrs = a, !.host.resolved = r,
                   !.dhcp.end = e] :
        k \in BOOLEAN, a \in SUBSET {70, 71, 130, 300}, r \in {70, NoAddr},
        e \in {79, 80}}

(***************************************************************************)
(* Organizations: three or four units, that match by their network, by a   *)
(* network_match, which may be empty, or not at all.                       *)
(***************************************************************************)
Opt(tag, value) == {<<>>, tag :> value}
RootUnits ==
    {UnitWith(0, g @@ [network |-> Pub, users_group |-> "crew"] @@ p, b) :
        b \in {{}, {"network_match"}}, g \in Opt("gateway", 65),
        p \in Opt("bcfg2_profile", "workstation")}
SubUnits(up, net, gw) ==
    {UnitWith(up, m @@ n @@ [admin_group |-> gw] @@ p, b) :
        m \in Opt("network_match", Net(68, 7)), b \in {{}, {"network_match"}},
        n \in Opt("network", net) \cup Opt("gateway", gw),
        p \in Opt("bcfg2_profile", "local")}
LeafUnits(up) ==
    {Unit(up, m @@ [admin_group |-> 3] @@ p) :
        m \in {"network_match" :> Net(70, 8), "network_match" :> Net(68, 7),
               "network" :> Net(416, 4)},
        p \in Opt("bcfg2_profile", "leaf")}

OrgFamily ==
    {[Plain EXCEPT !.org = <<r, s, l>>, !.host.addrs = {a}] :
        r \in RootUnits, s \in SubUnits(1, Net(416, 4), 417),
        l \in LeafUnits(1) \cup LeafUnits(2), a \in {69, 70, 420}}

(***************************************************************************)
(* Firewalls: robots that share servers and names, routes, ssh.            *)
(***************************************************************************)
Robot(list, name, ip, flow) == [list |-> list, name |-> name, ip |-> ip, flow |-> flow]
SomeRobots ==
    {Robot(l, <<"list", "">>, ip, f) : l \in BOOLEAN, ip \in {130, 131},
        f \in {"", "sendonly", "recvonly"}}
    \cup {Robot(FALSE, <<"list", "admin">>, 134, "sendrecv"),
          Robot(FALSE, <<"robot", "">>, 131, "none")}

SameNames == {r \in SomeRobots : r.name[1] = "list" /\ r.flow # "recvonly"}

\* a good route, and one whose network is refused
SomeRoutes == {[net |-> n, via |-> v] : n \in {Net(256, 2), Net(257, 2)}, v \in {65, 129}}

FirewallFamily ==
    {[Plain EXCEPT !.fw.robots = <<q>> \o r] :
        q \in SomeRobots, r \in BoundedSeq(SameNames, 2)}
    \cup
    {[Plain EXCEPT !.fw.routes = [pubif |-> <<[net |-> Net(256, 2), via |-> v]>>] @@ w,
                   !.fw.dns_lists = d, !.fw.forward_ssh_to_ltsp = l,
                   !.servers = s, !.fw.ssh_from_ext = l] :
        v \in {65, 130}, w \in {<<>>, [secif |-> <<>>]}, d \in {<<>>, <<"white">>},
        l \in BOOLEAN, s \in {Plain.servers, Plain.servers \o <<OnPubNet("ltsp", 69)>>}}
    \cup
    {[Plain EXCEPT !.fw.routes = [secif |-> r, pubif |-> s, extif |-> s]] :
        r \in BoundedSeq(SomeRoutes, 2), s \in BoundedSeq(SomeRoutes, 1)}

(***************************************************************************)
(* Servers and domains.                                                    *)
(***************************************************************************)
Routers ==
    {[Router EXCEPT !.ifs.extif = If(ip, m, nat)] :
        ip \in {300, NoTag, Blank}, m \in {1, NoTag, Blank}, nat \in {NoTag, Blank, 400}}
Vmhost == Srv("vmhost", "mumu", [extif |-> If(NoTag, 1, NoTag), pubif |-> Card(74)])
TwoCards == Srv("nfs", "nfs", [pubif |-> If(NoTag, 1, NoTag), secif |-> Card(130)])
NoCards == Srv("nfs", "nfs", <<>>)
OneCard == Srv("nfs", "nfs", [pubif |-> Card(75), secif |-> Card(130)])
Misplaced == Srv("vmhost", "mumu", [secif |-> Card(131)])
Nameless == OnPubNet("", 76)

ServerFamily ==
    {[Plain EXCEPT !.servers = <<r, Config, Proxy>>] : r \in Routers}
    \cup
    {[Plain EXCEPT !.servers = <<Router>> \o c \o x, !.host.name = n] :
        c \in {<<Config>>, <<Config, Proxy>>, <<Proxy>>,
               <<Config, OnDMZ("DMZxmpp", "xmpp", 134)>>},
        x \in BoundedSeq({Vmhost, TwoCards, OneCard, NoCards, Misplaced, Nameless, Router}, 2),
        n \in {"ws", "nfs"}}
    \cup {[Plain EXCEPT !.servers = <<Config, Proxy>>, !.org = <<u>>, !.host.name = n] :
             u \in {Unit(0, t) : t \in {RootTags, [network |-> Pub],
                                       [RootTags EXCEPT !.gateway = NotAddress]}}
                   \cup {UnitWith(0, RootTags, {"gateway"})},
             n \in {"ws", "config"}}

(***************************************************************************)
(* Texts that the schemas accept and ip_network refuses: with host bits,   *)
(* with too long a prefix, or empty.                                       *)
(***************************************************************************)
NoNetworks == {Net(65, 4), Net(64, 10)}
UnitTexts == {Pub, Net(416, 4)} \cup NoNetworks

RefusedFamily ==
    {[Plain EXCEPT !.nets = (T :> n) @@ PlainNets, !.host.addrs = a] :
        T \in {"pubif", "secif", "extif"}, n \in NoNetworks, a \in {{70}, {70, 71}}}
    \cup
    {[Plain EXCEPT !.org = <<UnitWith(0, [RootTags EXCEPT !.network = n], b),
                             UnitWith(1, m @@ [network |-> s], c)>>,
                   !.host.name = h, !.host.known = k] :
        n \in UnitTexts, b \in SUBSET {"network", "network_match"},
        m \in {<<>>} \cup {"network_match" :> x : x \in UnitTexts},
        s \in UnitTexts, c \in {{}, {"network"}},
        h \in {"ws", "config"}, k \in BOOLEAN}

DomainFamily ==
    {[Plain EXCEPT !.servers = <<Router, Config, Proxy>> \o s,
                   !.domains = <<Domain("acme", c, sl, rev, a), Domain("branch", FALSE, FALSE, rev2, b)>>,
                   !.fw.forward_mail = m] :
        s \in {<<>>, <<Mail>>, <<Smtp, Www, Vpn>>, <<Smtp, Www, Mail>>},
        c \in BOOLEAN, sl \in BOOLEAN, rev \in {"none", "empty", "mx"},
        rev2 \in {"none", "mx"}, m \in BOOLEAN,
        a \in {{}, {"www", "mail"}}, b \in {{}, {"vpn"}, {"autoconfig", "www", "mail"}}}

Elements(devices) ==
    [host : {{}, {"ws.acme"}, {"ws"}}, group : {{}, {"pcs"}, {"labs"}}, devices : devices]

UsbFamily ==
    {[Plain EXCEPT !.usb = [blacklist |-> b, whitelist |-> w]] :
        b \in BoundedSeq(Elements({{}, {"disk"}, {"disk", "mouse"}}), 1),
        w \in BoundedSeq(Elements({{}, {"disk"}}), 2)}

MCConfigs ==
    {NetFamily, AddrFamily, OrgFamily, FirewallFamily, ServerFamily,
     RefusedFamily, DomainFamily, UsbFamily}

\* The networks that the shipped umbrella.xml has: those of the DMZ and of
\* the secure network have wrapping networks inside of the public network's.
ShippedConfigs ==
    {{[Plain EXCEPT !.nets = [pubif |-> Net(96, 4), secif |-> Net(72, 7),
                              DMZif |-> Net(64, 7)] @@ o] : o \in Outer},
     AddrFamily}
=============================================================================
