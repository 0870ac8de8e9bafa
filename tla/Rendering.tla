------------------------------ MODULE Rendering ------------------------------
(***************************************************************************)
(* The rendering of a configuration file.  A template executes the files   *)
(* of src/Python that it needs, in the order of their numbers and in one   *)
(* namespace; this module executes all of them, one a step, for one        *)
(* installation (the texts of umbrella.xml, organization.xml, firewall.xml *)
(* and usbdev.xml) and one host.  A file binds its names in the namespace, *)
(* or it ends the rendering: by a TemplateError that tells the             *)
(* administrator what is wrong, or by an exception that nobody catches.    *)
(*                                                                         *)
(*   cfg    what is rendered: domains, servers, nets, dhcp, org, fw, usb,  *)
(*          and the host with its names, addresses and groups              *)
(*   pc     the file that is executed next, "done" or "failed"             *)
(*   fault  why the rendering failed                                       *)
(*   ns     the names that the files have bound                            *)
(***************************************************************************)
EXTENDS Organization, Servers

CONSTANT Configs     \* families of installations and hosts to render

VARIABLES cfg, pc, fault, ns

vars == <<cfg, pc, fault, ns>>

\* What the schemas see to, and no more: lists are lists, a server has interfaces
\* of the known types, there is a domain and a unit, the units are in the order of
\* the document, a network of umbrella.xml is an address and a number, which may be
\* no network, and the addresses of a host are numbers.
List(s) == Len(s) \in Nat /\ DOMAIN s = 1 .. Len(s)

WellFormed(c) ==
    /\ List(c.servers)
    /\ \A i \in DOMAIN c.servers :
          DOMAIN c.servers[i].ifs \subseteq {IfTypes[k] : k \in DOMAIN IfTypes}
    /\ List(c.domains) /\ c.domains # <<>>
    /\ \A i \in DOMAIN c.domains :
          /\ c.domains[i].name.caps \in BOOLEAN
          /\ c.domains[i].name = [id   |-> c.domains[i].name.id,
                                  caps |-> c.domains[i].name.caps]
    /\ \A T \in DOMAIN c.nets : c.nets[T] \in [net : Nat, len : Nat]
    /\ List(c.org) /\ c.org # <<>>
    /\ DocumentOrder(c.org)
    /\ List(c.fw.robots) /\ \A T \in DOMAIN c.fw.routes : List(c.fw.routes[T])
    /\ IsFiniteSet(c.host.addrs) /\ c.host.addrs \subseteq Nat

ASSUME ConfigsAssumption == \A family \in Configs : \A c \in family : WellFormed(c)

Files == {"00_baseparams", "10_funchosts", "20_networks", "21_revzones",
          "25_firewall", "30_networking", "35_organization", "40_usbdev"}

Init ==
    /\ \E family \in Configs : cfg \in family
    /\ pc = "00_baseparams"
    /\ fault = ""
    /\ ns = <<>>

\* a file binds its names in the namespace
Bind(names) == ns' = Update(ns, names)

\* Mutant of Execute: the next file is executed after a failure.
ExecuteOn(file, next, failure, names) ==
    /\ pc = file
    /\ fault' = failure
    /\ pc' = next
    /\ IF failure = "" THEN Bind(names) ELSE UNCHANGED ns
    /\ UNCHANGED cfg

\* a file binds its names, or fails before it binds the ones that matter
Execute(file, next, failure, names) ==
    /\ pc = file
    /\ fault' = failure
    /\ IF failure = ""
       THEN pc' = next /\ Bind(names)
       ELSE pc' = "failed" /\ UNCHANGED ns
    /\ UNCHANGED cfg

Baseparams ==
    Execute("00_baseparams", "10_funchosts", "",
        [domain_name  |-> DomainName(cfg.domains),
         domain_names |-> DomainNames(cfg.domains)])

Funchosts ==
    LET short     == FunchostsShort(cfg.servers)
        funchosts == DOMAIN short
    IN  Execute("10_funchosts", "20_networks", FunchostsFault(cfg.servers),
            [funchostsshort |-> short,
             service |-> [smtp |-> SmtpServer(funchosts),
                          ntp  |-> NtpServer(funchosts, cfg.ntp_on_vmhost),
                          xmpp |-> XmppServer(funchosts)],
             ldap |-> LdapServers(funchosts)])

NetworksFault ==
    IF \E T \in DOMAIN cfg.nets : ~ IsNetwork(cfg.nets[T]) THEN "ValueError network"
    ELSE IF AmbiguousAddress(cfg.host, cfg.nets) THEN "TemplateError addresses"
    ELSE IF Intersecting(cfg.nets) THEN "TemplateError intersects"
    ELSE IF cfg.dhcp.start > cfg.dhcp.end THEN "TemplateError dhcp"
    ELSE ""

NetworksFile ==
    Execute("20_networks", "21_revzones", NetworksFault,
        [ip_addr |-> HostAddress(cfg.host, cfg.nets)])

Revzones ==
    /\ pc = "21_revzones"
    /\ \E wrap \in [Served(cfg.nets) -> ClassfulNets(cfg.nets)] :
          /\ \A T \in Served(cfg.nets) :
                wrap[T] \in FindClassful(cfg.nets[T], cfg.nets)
          /\ Execute("21_revzones", "25_firewall", "", [wrap |-> wrap])

FirewallFile ==
    LET notes == Robots(cfg.fw.robots)
        short == ns.funchostsshort
    IN  Execute("25_firewall", "30_networking", FirewallFault(cfg.fw, cfg.nets),
            [ssh_to        |-> SshTo(cfg.fw, DOMAIN short),
             mail_out      |-> cfg.fw.forward_mail /\ "mail" \in DOMAIN short,
             robot_servers |-> RobotServers(notes),
             robot_out     |-> notes.outgoing,
             robot_in      |-> notes.incoming,
             static_routes |-> StaticRoutes(cfg.fw.routes, cfg.nets)])

(***************************************************************************)
(* 30_networking.py: a host that is not a server gets its parameters from  *)
(* the organization, the nearest ones.                                     *)
(***************************************************************************)
IsServer == \E i \in DOMAIN cfg.servers : cfg.servers[i].name = cfg.host.name

Walk(tag) == AccumulateTags(cfg.org, ns.ip_addr, tag)

WorkstationFault ==
    IF IsServer THEN ""
    ELSE IF WalkFault(cfg.org, ns.ip_addr) # "" THEN WalkFault(cfg.org, ns.ip_addr)
    ELSE IF \E tag \in {"network", "gateway", "users_group"} :
               Walk(tag).found /\ Walk(tag).vals = <<>>
    THEN "IndexError tag"
    ELSE ""

RootGateway ==
    IF Has(cfg.org, 1, "gateway") THEN cfg.org[1].tags["gateway"] ELSE NoTag

NetworkingFault ==
    LET servers == ServersFault(cfg.servers, cfg.host.name, RootGateway)
    IN  IF servers # "" THEN servers
        ELSE IF WorkstationFault # "" THEN WorkstationFault
        ELSE IF Cardinality(WithRevDNS(cfg.domains)) > 1
        THEN "TemplateError revDNS"
        ELSE ""

\* what a workstation is given; no value where the walk finds nothing
FromOrganization ==
    IF IsServer \/ ns.ip_addr = NoAddr THEN <<>>
    ELSE IF ~ Walk("network").found THEN <<>>
    ELSE [ws_org_network     |-> Head(Walk("network").vals),
          ws_org_gateway     |-> Head(Walk("gateway").vals),
          ws_org_users_group |-> Head(Walk("users_group").vals),
          ws_org_admin_group |-> Walk("admin_group").vals]

RouterNames ==
    LET routers == WithFunction(cfg.servers, "router")
        router  == cfg.servers[Min(routers)]
    IN  IF routers = {}
        THEN [routerifs   |-> [pubif |-> RootGateway],
              ext_address |-> NoAddr, int_address |-> NoAddr]
        ELSE [routerifs   |-> RouterIfs(router),
              ext_address |-> SeenAt(router, "extif"),
              int_address |-> SeenAt(router, "intif")]

Networking ==
    Execute("30_networking", "35_organization", NetworkingFault,
        [organization_host |-> FromOrganization # <<>>,
         workstation       |-> FromOrganization,
         router            |-> RouterNames,
         funcifs           |-> Funcifs(cfg.servers),
         canonical         |-> Canonical(cfg.domains, ns.funchostsshort),
         hostname_aliases  |-> [i \in Mastered(cfg.domains) |->
             HostnameAliases(cfg.domains[i], ns.funchostsshort)]])

OrganizationFile ==
    Execute("35_organization", "40_usbdev", OrganizationFault(cfg.org),
        [netclasses |-> FillNetclasses(cfg.org)])

Usbdev ==
    Execute("40_usbdev", "done", "",
        [blacklist |-> Listed(cfg.usb.blacklist, cfg.host),
         whitelist |-> Listed(cfg.usb.whitelist, cfg.host)])

Next ==
    \/ Baseparams \/ Funchosts \/ NetworksFile \/ Revzones
    \/ FirewallFile \/ Networking \/ OrganizationFile \/ Usbdev

Spec == Init /\ [][Next]_vars

Done == pc = "done"

(***************************************************************************)
(* Properties                                                              *)
(***************************************************************************)
Faults ==
    {"", "TypeError name", "KeyError config", "KeyError proxy", "ValueError network",
     "TemplateError addresses", "TemplateError intersects", "TemplateError dhcp",
     "NameError dnsname", "ValueError route", "TemplateError gateway",
     "TemplateError entries", "TemplateError routers", "AttributeError gateway",
     "ValueError gateway", "AttributeError mac", "AttributeError strip",
     "KeyError interface", "IndexError interface", "ValueError unit",
     "AttributeError address", "IndexError tag", "TemplateError revDNS"}

\* A rendering is before a file, finished, or failed with a reason.
TypeOK ==
    /\ \E family \in Configs : cfg \in family
    /\ pc \in Files \cup {"done", "failed"}
    /\ fault \in Faults
    /\ (pc = "failed") = (fault # "")

\* Reverse DNS of a plain plan: a query for any host of a served network
\* reaches the PTR in the zone of that network and in no other, whichever
\* wrapping network findClassful picked, and no name has two CNAMEs.
ReverseResolves ==
    (pc = "25_firewall" /\ Disjoint(cfg.nets) /\ PlainWrappers(cfg.nets)) =>
        \A T \in Served(cfg.nets) : \A ip \in Hosts(cfg.nets[T]) :
            /\ ReverseLookup(ip, cfg.nets, ns.wrap) = {cfg.nets[T]}
            /\ \A z \in Zones(cfg.nets, ns.wrap) :
                  z.link => Cardinality(CnameTargets(z, ip, cfg.nets)) <= 1

\* What 21_revzones.py:25 says it sees to: wrapping networks that are
\* subsets of each other are no obstacle, so that the hosts of any disjoint
\* networks resolve.
ReverseAlwaysResolves ==
    (pc = "25_firewall" /\ Disjoint(cfg.nets)) =>
        \A T \in Served(cfg.nets) : \A ip \in Hosts(cfg.nets[T]) :
            ReverseLookup(ip, cfg.nets, ns.wrap) = {cfg.nets[T]}

\* The walk down organization.xml finds the first unit of the document whose
\* network has the address of the host, and gives it what the units around
\* that one say, the nearest first.
WorkstationFollowsUnit ==
    (Done /\ ~ IsServer /\ ns.ip_addr # NoAddr) =>
        LET U == UnitsWith(cfg.org, ns.ip_addr)
            above(tag) == TagsAbove(cfg.org, Min(U), tag)
        IN  /\ ns.organization_host = (U # {})
            /\ ns.organization_host =>
                  /\ ns.workstation.ws_org_network = above("network")[1]
                  /\ ns.workstation.ws_org_gateway = above("gateway")[1]
                  /\ ns.workstation.ws_org_admin_group = above("admin_group")

\* The two walkers of organization.xml agree: where no address is in the
\* networks of two units, the network class that has the address of a host
\* has the profile nearest to the unit that its parameters come from.
ProfileFollowsUnit ==
    (Done /\ UnitsDisjoint(cfg.org) /\ ns.ip_addr # NoAddr) =>
        \A u \in UnitsWith(cfg.org, ns.ip_addr) :
            {ns.netclasses[N] : N \in {M \in DOMAIN ns.netclasses :
                                          ns.ip_addr \in Addresses(M)}}
              = {Head(TagsAbove(cfg.org, u, "bcfg2_profile") \o <<"workstation">>)}

\* What a host gets from organization.xml is what the units around its address say,
\* parameters and profile alike.
OrganizationFollowed == WorkstationFollowsUnit /\ ProfileFollowsUnit

\* Mail of a robot goes to the server of its last declaration with that
\* direction, and comes from there: the numbers lead back to it, and two
\* servers do not share a number.
RobotsServed ==
    pc = "30_networking" =>
        LET robots == cfg.fw.robots
            leads(numbers, flows) ==
                \A i \in DOMAIN robots : \A n \in RobotNames(robots[i]) :
                    (/\ robots[i].flow \in flows
                     /\ \A j \in DOMAIN robots :
                           (n \in RobotNames(robots[j]) /\ robots[j].flow \in flows)
                             => j <= i)
                    => ns.robot_servers[numbers[n]] = robots[i].ip
        IN  /\ leads(ns.robot_out, {"", "sendrecv", "sendonly"})
            /\ leads(ns.robot_in, {"", "sendrecv", "recvonly"})
            /\ \A k \in DOMAIN ns.robot_servers :
                  k \in 0 .. Cardinality({robots[i].ip : i \in DOMAIN robots}) - 1

\* What the schemas let an administrator leave out or mistype.
ServersComplete ==
    /\ \A i \in DOMAIN cfg.servers :
          LET s == cfg.servers[i]
          IN  /\ s.name # ""
              /\ s.fn \in OnPub => HasIp(s, "pubif") /\ HasMac(s, "pubif")
              /\ \E t \in DOMAIN s.ifs : HasIp(s, t)
              /\ \E t \in DOMAIN s.ifs : HasMac(s, t)
              /\ s.fn = "router" =>
                    /\ \A t \in DOMAIN s.ifs : s.ifs[t].mac # NoTag
                    /\ ~ StripFails(s)
    /\ \E i \in DOMAIN cfg.servers : cfg.servers[i].fn = "config"
    /\ \E i \in DOMAIN cfg.servers : cfg.servers[i].fn \in {"proxy", "DMZxmpp"}

NetworksComplete ==
    /\ \A T \in DOMAIN cfg.nets : IsNetwork(cfg.nets[T])
    /\ \A T \in DOMAIN cfg.nets \cap DOMAIN cfg.fw.routes :
          \A i \in DOMAIN cfg.fw.routes[T] : IsNetwork(cfg.fw.routes[T][i].net)
    /\ cfg.fw.dns_lists # <<>>

OrganizationComplete ==
    /\ {"network", "gateway", "users_group"} \subseteq DOMAIN cfg.org[1].tags
    /\ WithFunction(cfg.servers, "router") = {} => RootGateway >= 0
    /\ \A u \in DOMAIN cfg.org : ~ Refused(cfg.org, u)
    /\ IsServer \/ (cfg.host.known /\ Cardinality(cfg.host.addrs) = 1)

\* An administrator is told of every failure by a TemplateError, except for
\* these, that the schemas let pass: a server without a name, an address or a
\* MAC address, a router's interface without a MAC address or with an empty
\* address, no configuration server or proxy, a text that is no network in
\* umbrella.xml, a route or a unit, no list of SMTP hosts, a host without an
\* address, and an organization without a gateway, a network or a group of users.
UncaughtExplained ==
    ServersComplete /\ NetworksComplete /\ OrganizationComplete =>
        fault \in {"", "TemplateError addresses", "TemplateError dhcp",
                   "TemplateError gateway", "TemplateError entries",
                   "TemplateError routers", "TemplateError revDNS"}

\* A zone gives a name both a CNAME and an address, so that named refuses
\* it, only for an alias that 30_networking.py:300-304 does not remove: the
\* VPN server's or "autoconfig".
CnameClashExplained ==
    (Done /\ "router" \in DOMAIN ns.funchostsshort) =>
        \A i \in Mastered(cfg.domains), internal \in BOOLEAN :
            LET short == ns.funchostsshort
                clash == ZoneCnames(internal, ns.mail_out, short)
                           \cap ZoneAddresses(cfg.domains[i], internal, ns.mail_out,
                                   short, ns.canonical, ns.domain_name)
            IN  clash \subseteq cfg.domains[i].aliases
                                 \cap ({"autoconfig"} \cup ShortOf(short, {"DMZvpn"}))

\* The name that every hosted domain sends its mail to has an address in the
\* zone of its domain, when revDNS names one or the main domain is served
\* here and written in small letters.
MailNameHasAddress ==
    Done =>
        LET main == cfg.domains[1]
            zone == {i \in Mastered(cfg.domains) :
                        cfg.domains[i].name = ns.canonical.domain}
        IN  (WithRevDNS(cfg.domains) # {} \/ ~ (main.slave \/ main.name.caps)) =>
                \E i \in zone :
                    ns.canonical.host \in ZoneAddresses(cfg.domains[i], FALSE,
                        ns.mail_out, ns.funchostsshort, ns.canonical, ns.domain_name)

\* named accepts the zones of the domains, and the name in their MX records resolves.
ZoneNamesSound == CnameClashExplained /\ MailNameHasAddress

\* A USB device works unless the list of refused devices has it and the list
\* of permitted ones does not, where an element without devices stands for
\* all of them.
UsbPolicy ==
    Done =>
        LET covered(elements, d) ==
                \E i \in DOMAIN elements :
                    /\ Applies(elements[i], cfg.host)
                    /\ elements[i].devices = {} \/ d \in elements[i].devices
            devices == UNION {e.devices : e \in Range(cfg.usb.blacklist \o cfg.usb.whitelist)}
                          \cup {"another"}
        IN  \A d \in devices :
                Authorized(d, ns.blacklist, ns.whitelist)
                  = (covered(cfg.usb.blacklist, d) => covered(cfg.usb.whitelist, d))
=============================================================================
