------------------------------- MODULE Servers -------------------------------
(***************************************************************************)
(* What the configuration files derive from the servers and the domains of *)
(* umbrella.xml and from firewall.xml: the hosts by function               *)
(* (src/Python/10_funchosts.py), the domains (00_baseparams.py), the       *)
(* firewall's parameters (25_firewall.py), the interfaces of the servers   *)
(* and the names they are visible at (30_networking.py), and the rules for *)
(* USB devices (40_usbdev.py).                                             *)
(*                                                                         *)
(* A server is a record of its function, its name and its interfaces:      *)
(* ifs[t] holds the elements of interface t that matter, `ip', `nat_ip'    *)
(* and `mac' (NoTag without the element, Blank when it is empty).          *)
(* A domain name is a record of the name and whether it is in capitals.    *)
(***************************************************************************)
EXTENDS Networks

NoTag == -1
Blank == -2
\* the text of a gateway that is no address for `ipaddress'
NotAddress == -3

IfTypes == <<"extif", "intif", "pubif", "secif", "DMZif", "vpnif", "winif">>

\* a dictionary with the entries of another one, which replace its own
Update(old, new) ==
    [k \in DOMAIN old \cup DOMAIN new |->
        IF k \in DOMAIN new THEN new[k] ELSE old[k]]

Lower(domain) == [domain EXCEPT !.caps = FALSE]

(***************************************************************************)
(* 00_baseparams.py: the main domain is the first one, in small letters;   *)
(* the domains that are served are the ones without a master elsewhere.    *)
(***************************************************************************)
DomainName(domains) == Lower(domains[1].name)
Mastered(domains) == {i \in DOMAIN domains : ~ domains[i].slave}
DomainNames(domains) == {domains[i].name : i \in Mastered(domains)}

(***************************************************************************)
(* 10_funchosts.py                                                         *)
(***************************************************************************)
WithFunction(servers, f) == {i \in DOMAIN servers : servers[i].fn = f}

\* the short names by function: a function met again is overwritten
FunchostsShort(servers) ==
    [f \in {servers[i].fn : i \in DOMAIN servers} |->
        servers[Max(WithFunction(servers, f))].name]

\* Mutant of FunchostsFault: the Jabber server of the DMZ is not looked for.
FaultWithoutProxy(servers) ==
    LET funchosts == {servers[i].fn : i \in DOMAIN servers}
    IN  IF \E i \in DOMAIN servers : servers[i].name = "" THEN "TypeError name"
        ELSE IF "config" \notin funchosts THEN "KeyError config"
        ELSE IF "proxy" \notin funchosts THEN "KeyError proxy" ELSE ""

\* a server with an empty name, and the lookups of hosts by function that fail
FunchostsFault(servers) ==
    LET funchosts == {servers[i].fn : i \in DOMAIN servers}
    IN  IF \E i \in DOMAIN servers : servers[i].name = "" THEN "TypeError name"
        ELSE IF "config" \notin funchosts THEN "KeyError config"
        ELSE IF {"DMZxmpp", "proxy"} \cap funchosts = {} THEN "KeyError proxy"
        ELSE ""

SmtpServer(funchosts) == IF "mail" \in funchosts THEN "mail" ELSE "relay"
NtpServer(funchosts, onVmhost) ==
    IF onVmhost /\ "vmhost" \in funchosts THEN "vmhost" ELSE "config"
XmppServer(funchosts) ==
    IF "DMZxmpp" \in funchosts THEN "DMZxmpp" ELSE "proxy"
LdapServers(funchosts) == {"config"} \cup ({"proxy"} \cap funchosts)

(***************************************************************************)
(* 25_firewall.py                                                          *)
(***************************************************************************)
SshTo(fw, funchosts) ==
    IF ~ (fw.ssh_from_ext \/ fw.ssh_from_int) THEN "nobody"
    ELSE IF fw.forward_ssh_to_ltsp /\ "ltsp" \in funchosts THEN "ltsp"
    ELSE "router"

\* The names of a robot, each a word and a suffix: a mailing list is known
\* by its name and by a suffix for each of its functions.
MlSuffixes == {"", "admin", "bounces"}
RobotNames(robot) ==
    IF robot.list THEN {<<robot.name[1], s>> : s \in MlSuffixes} ELSE {robot.name}

Outgoing(robot) == robot.flow \in {"", "sendrecv", "sendonly"}
Incoming(robot) == robot.flow \in {"", "sendrecv", "recvonly"}

\* a new address gets the next number
Numbered(numbering, ip) ==
    IF ip \in DOMAIN numbering THEN numbering
    ELSE Update(numbering, [a \in {ip} |-> Cardinality(DOMAIN numbering)])

\* Mutant of NoteAddr: the first declaration of a name counts.
NoteFirstAddr(notes, robot) ==
    LET numbers == Numbered(notes.numbering, robot.ip)
        entries == [n \in RobotNames(robot) |-> numbers[robot.ip]]
    IN  [numbering |-> numbers,
         outgoing  |-> IF Outgoing(robot) THEN Update(entries, notes.outgoing)
                                          ELSE notes.outgoing,
         incoming  |-> IF Incoming(robot) THEN Update(entries, notes.incoming)
                                          ELSE notes.incoming]

\* noteaddr for the names of one robot
NoteAddr(notes, robot) ==
    LET numbers == Numbered(notes.numbering, robot.ip)
        entries == [n \in RobotNames(robot) |-> numbers[robot.ip]]
    IN  [numbering |-> numbers,
         outgoing  |-> IF Outgoing(robot) THEN Update(notes.outgoing, entries)
                                          ELSE notes.outgoing,
         incoming  |-> IF Incoming(robot) THEN Update(notes.incoming, entries)
                                          ELSE notes.incoming]

\* the robots one after the other
Robots(robots) ==
    LET noted[i \in 0 .. Len(robots)] ==
            IF i = 0 THEN [numbering |-> <<>>, outgoing |-> <<>>, incoming |-> <<>>]
            ELSE NoteAddr(noted[i - 1], robots[i])
    IN  noted[Len(robots)]

\* the servers by their numbers
RobotServers(notes) ==
    [n \in {notes.numbering[a] : a \in DOMAIN notes.numbering} |->
        CHOOSE a \in DOMAIN notes.numbering : notes.numbering[a] = n]

\* the networks in the order they are read
NetTypes == <<"pubif", "secif", "DMZif", "extif", "intif", "winif", "vpnif">>

\* the gateway of a static route must be in the network it is reached from
RouteFault(route, net) ==
    IF ~ IsNetwork(route.net) THEN "ValueError route"
    ELSE IF route.via \notin Addresses(net) THEN "TemplateError gateway"
    ELSE ""

\* the failure of the first route that fails
RoutesFault(routes, nets) ==
    LET failing(T) == {i \in DOMAIN routes[T] :
                          RouteFault(routes[T][i], nets[T]) # ""}
        at == {k \in DOMAIN NetTypes :
                  /\ NetTypes[k] \in DOMAIN nets \cap DOMAIN routes
                  /\ failing(NetTypes[k]) # {}}
        T  == NetTypes[Min(at)]
    IN  IF at = {} THEN "" ELSE RouteFault(routes[T][Min(failing(T))], nets[T])

StaticRoutes(routes, nets) ==
    [T \in {S \in DOMAIN nets \cap DOMAIN routes : routes[S] # <<>>} |->
        routes[T]]

\* `del dnsname' fails when no list has set the name
FirewallFault(fw, nets) ==
    IF fw.dns_lists = <<>> THEN "NameError dnsname"
    ELSE RoutesFault(fw.routes, nets)

(***************************************************************************)
(* 30_networking.py                                                        *)
(***************************************************************************)
\* the address of an interface, if it has one
HasIp(server, t) == t \in DOMAIN server.ifs /\ server.ifs[t].ip >= 0
HasMac(server, t) == t \in DOMAIN server.ifs /\ server.ifs[t].mac >= 0

WithIp(server) == {t \in DOMAIN server.ifs : HasIp(server, t)}
WithMac(server) == {t \in DOMAIN server.ifs : HasMac(server, t)}

\* the first of some interfaces, in the order of iftypes
FirstIf(types) ==
    IF types = {} THEN ""
    ELSE IfTypes[Min({k \in DOMAIN IfTypes : IfTypes[k] \in types})]

\* the interfaces whose address and MAC address stand for the server
OnPub == {"router", "vmhost", "backdoor"}
MainIf(server) ==
    IF server.fn \notin OnPub THEN FirstIf(WithIp(server))
    ELSE IF HasIp(server, "pubif") THEN "pubif" ELSE ""
MainMac(server) ==
    IF server.fn \notin OnPub THEN FirstIf(WithMac(server))
    ELSE IF HasMac(server, "pubif") THEN "pubif" ELSE ""

Funcifs(servers) ==
    [f \in {servers[i].fn : i \in DOMAIN servers} |->
        LET s == servers[Max(WithFunction(servers, f))]
        IN  [addr |-> s.ifs[MainIf(s)].ip, if |-> MainIf(s), mac |-> MainMac(s)]]

RouterIfs(router) ==
    [t \in {u \in DOMAIN router.ifs : router.ifs[u].ip >= 0} |->
        router.ifs[t].ip]

\* The address a system is seen at on an outer interface.
SeenAt(router, t) ==
    IF t \notin DOMAIN router.ifs THEN NoAddr
    ELSE IF router.ifs[t].nat_ip # NoTag THEN router.ifs[t].nat_ip
    ELSE router.ifs[t].ip

\* `.text.strip()' of an empty element
StripFails(router) ==
    \E t \in {"extif", "intif"} \cap DOMAIN router.ifs :
        Blank \in {router.ifs[t].ip, router.ifs[t].nat_ip}

\* the first loop: a second entry of the host, or a second router
EntriesFault(servers, hostname) ==
    LET entries   == {i \in DOMAIN servers : servers[i].name = hostname}
        routers   == WithFunction(servers, "router")
        Second(S) == Min(S \ {Min(S)})
    IN  IF Cardinality(routers) > 1
             /\ (Cardinality(entries) > 1 => Second(routers) < Second(entries))
        THEN "TemplateError routers"
        ELSE IF Cardinality(entries) > 1 THEN "TemplateError entries"
        ELSE ""

\* the interfaces of the router, or the gateway that stands in for it
RouterFault(servers, rootGateway) ==
    LET routers == WithFunction(servers, "router")
        router  == servers[Min(routers)]
    IN  IF routers = {}
        THEN IF rootGateway \in {NoTag, Blank} THEN "AttributeError gateway"
             ELSE IF rootGateway = NotAddress THEN "ValueError gateway"
             ELSE ""
        ELSE IF \E t \in DOMAIN router.ifs : router.ifs[t].mac = NoTag
        THEN "AttributeError mac"
        ELSE IF StripFails(router) THEN "AttributeError strip"
        ELSE ""

\* the last loop: the first server without an address or a MAC address that
\* stands for it, looked up by name or as the first of a list
MainFault(servers) ==
    LET bare == {i \in DOMAIN servers :
                    MainIf(servers[i]) = "" \/ MainMac(servers[i]) = ""}
    IN  IF bare = {} THEN ""
        ELSE IF servers[Min(bare)].fn \in OnPub THEN "KeyError interface"
        ELSE "IndexError interface"

\* the failures of the loops over the servers, in their order
ServersFault(servers, hostname, rootGateway) ==
    LET entries == EntriesFault(servers, hostname)
        router  == RouterFault(servers, rootGateway)
    IN  IF entries # "" THEN entries
        ELSE IF router # "" THEN router
        ELSE MainFault(servers)

(***************************************************************************)
(* The canonical name: DMZsmtp in the main domain, unless a domain has     *)
(* revDNS.  `<<>>' is the name of a domain itself.                         *)
(***************************************************************************)
WithRevDNS(domains) == {i \in Mastered(domains) : domains[i].revDNS # "none"}

\* Mutant of Canonical: a name from revDNS is put in the main domain.
CanonicalInMain(domains, short) ==
    LET revs == WithRevDNS(domains)
        main == IF "DMZsmtp" \in DOMAIN short THEN short["DMZsmtp"] ELSE ""
    IN  [host |-> IF revs = {} THEN main ELSE domains[Min(revs)].revDNS,
         domain |-> DomainName(domains)]

Canonical(domains, short) ==
    LET revs == WithRevDNS(domains)
        d    == domains[Min(revs)]
        main == IF "DMZsmtp" \in DOMAIN short THEN short["DMZsmtp"] ELSE ""
    IN  IF revs = {}
        THEN [host |-> main, domain |-> DomainName(domains)]
        ELSE [host |-> IF d.revDNS = "empty" THEN "" ELSE d.revDNS,
              domain |-> d.name]

\* Mutant of HostnameAliases: no alias is removed.
AllAliases(domain, short) == domain.aliases

\* the aliases of a domain, without the ones that the zones define
HostnameAliases(domain, short) ==
    domain.aliases \ {short[f] : f \in {"DMZwww", "mail"} \cap DOMAIN short}

(***************************************************************************)
(* The zone file of a domain (zone.genshi): the names it gives a CNAME and *)
(* the ones it gives an address.                                           *)
(***************************************************************************)
ShortOf(short, F) == {short[f] : f \in F \cap DOMAIN short}

ZoneCnames(internal, mailOut, short) ==
    IF internal
    THEN {"autoconfig"} \cup ShortOf(short, {"DMZwww", "DMZvpn"})
    ELSE IF mailOut /\ "DMZwww" \in DOMAIN short THEN {"autoconfig"} ELSE {}

ZoneAddresses(domain, internal, mailOut, short, canonical, main) ==
    LET top == IF internal THEN [host |-> short["router"], domain |-> domain.name]
               ELSE canonical
    IN  {""}
        \cup (IF top.domain = domain.name THEN {top.host} ELSE {})
        \cup (IF internal THEN {} ELSE ShortOf(short, {"DMZwww", "DMZvpn"}))
        \cup (IF mailOut /\ ~ internal THEN ShortOf(short, {"mail"}) ELSE {})
        \cup HostnameAliases(domain, short)
        \cup (IF domain.name = main THEN ShortOf(short, {"DMZxmpp"}) ELSE {})

(***************************************************************************)
(* 40_usbdev.py and the two files of udev rules: an element applies to a   *)
(* host by its full name, to a group of hosts, to both, or to all when it  *)
(* names none; one without devices stands for all devices, and makes the   *)
(* devices of the others not matter.  The names of an element's host and   *)
(* of its group are sets of at most one.                                   *)
(***************************************************************************)
Applies(element, host) ==
    \/ element.host \cup element.group = {}
    \/ host.fqdn \in element.host
    \/ element.group \cap host.groups # {}

\* Mutant of Listed: an element for all devices does not reset the list.
ListedWithoutReset(elements, host) ==
    LET mine == {i \in DOMAIN elements : Applies(elements[i], host)}
    IN  [has     |-> mine # {},
         devices |-> UNION {elements[i].devices : i \in mine}]

Listed(elements, host) ==
    LET mine == {i \in DOMAIN elements : Applies(elements[i], host)}
    IN  [has     |-> mine # {},
         devices |-> IF \E i \in mine : elements[i].devices = {} THEN {}
                     ELSE UNION {elements[i].devices : i \in mine}]

Restricted(black, white) == black.has /\ ~ (white.has /\ white.devices = {})

\* the file of the refused devices; its last rules skip the permitted ones when
\* all devices are refused
Deauthorized(d, black, white) ==
    /\ Restricted(black, white)
    /\ IF black.devices = {} THEN d \notin white.devices ELSE d \in black.devices

\* the file of the permitted devices, that follows
Reauthorized(d, black, white) ==
    Restricted(black, white) /\ d \in white.devices

\* what the rules of both files do with a device that is plugged in
Authorized(d, black, white) ==
    ~ Deauthorized(d, black, white) \/ Reauthorized(d, black, white)
=============================================================================
