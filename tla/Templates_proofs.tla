---------------------------- MODULE Templates_proofs ----------------------------
(***************************************************************************)
(* Proofs about what the templates are rendered from: the names that the   *)
(* files of src/Python bind (Rendering, with Networks, Organization and    *)
(* Servers), for any families of installations, and the passwords that     *)
(* they generate (PassFile).                                               *)
(*                                                                         *)
(* An invariant says which names are bound before a file and what they     *)
(* stand for; the rest is about functions: the walks up and down           *)
(* organization.xml, the numbers of the robots' servers, the names of a    *)
(* zone.  Where such a function is recursive, an induction over a set, in  *)
(* place of a predicate, says what it computes (UpTo, FromTheLeaves,       *)
(* FromTheRoot).                                                           *)
(***************************************************************************)
EXTENDS Rendering, PassFile,
        FiniteSetTheorems, SequenceTheorems, NaturalsInduction, TLAPS

-----------------------------------------------------------------------------
(* Types *)

LEMMA FailuresNamed ==
  /\ \A s : FunchostsFault(s) \in Faults
  /\ NetworksFault \in Faults
  /\ FirewallFault(cfg.fw, cfg.nets) \in Faults
  /\ NetworkingFault \in Faults
  /\ OrganizationFault(cfg.org) \in Faults
  /\ "" \in Faults
<1>1. \A s : FunchostsFault(s) \in Faults
  BY DEF FunchostsFault, Faults
<1>2. NetworksFault \in Faults
  BY DEF NetworksFault, Faults
<1>3. FirewallFault(cfg.fw, cfg.nets) \in Faults
  <2>1. \A r, n : RouteFault(r, n) \in Faults
    BY DEF RouteFault, Faults
  <2>2. "" \in Faults /\ "NameError dnsname" \in Faults
    BY DEF Faults
  <2>3. ASSUME NEW r, NEW n PROVE RoutesFault(r, n) \in Faults
    BY <2>1, <2>2, Zenon DEF RoutesFault
  <2>4. QED
    BY <2>2, <2>3 DEF FirewallFault
<1>4. \A s, h, g : ServersFault(s, h, g) \in Faults
  <2>1. \A s, h : EntriesFault(s, h) \in Faults
    BY DEF EntriesFault, Faults
  <2>2. \A s, g : RouterFault(s, g) \in Faults
    BY DEF RouterFault, Faults
  <2>3. \A s : MainFault(s) \in Faults
    BY DEF MainFault, Faults
  <2>4. QED
    BY <2>1, <2>2, <2>3 DEF ServersFault
<1>5. WorkstationFault \in Faults
  BY DEF WorkstationFault, WalkFault, Faults
<1>6. NetworkingFault \in Faults
  BY <1>4, <1>5 DEF NetworkingFault, Faults
<1>7. OrganizationFault(cfg.org) \in Faults
  BY DEF OrganizationFault, Faults
<1>8. QED
  BY <1>1, <1>2, <1>3, <1>6, <1>7 DEF Faults

LEMMA ExecuteKeepsTypes ==
  ASSUME TypeOK, NEW this \in Files, NEW next \in Files \cup {"done"},
         NEW failure \in Faults, NEW names, Execute(this, next, failure, names)
  PROVE  TypeOK'
BY DEF TypeOK, Execute, Files

\* A rendering is before a file, finished, or failed with a reason, for any
\* installations.
THEOREM RenderingTypeCorrect == Spec => []TypeOK
<1>1. Init => TypeOK
  BY DEF Init, TypeOK, Files, Faults
<1>2. TypeOK /\ [Next]_vars => TypeOK'
  <2> SUFFICES ASSUME TypeOK, Next PROVE TypeOK'
    BY DEF TypeOK, vars
  <2> USE FailuresNamed, ExecuteKeepsTypes DEF Files
  <2>1. CASE Baseparams
    BY <2>1 DEF Baseparams
  <2>2. CASE Funchosts
    BY <2>2 DEF Funchosts
  <2>3. CASE NetworksFile
    BY <2>3 DEF NetworksFile
  <2>4. CASE Revzones
    BY <2>4 DEF Revzones
  <2>5. CASE FirewallFile
    BY <2>5 DEF FirewallFile
  <2>6. CASE Networking
    BY <2>6 DEF Networking
  <2>7. CASE OrganizationFile
    BY <2>7 DEF OrganizationFile
  <2>8. CASE Usbdev
    BY <2>8 DEF Usbdev
  <2>9. QED
    BY <2>1, <2>2, <2>3, <2>4, <2>5, <2>6, <2>7, <2>8 DEF Next
<1>3. QED
  BY <1>1, <1>2, PTL DEF Spec

-----------------------------------------------------------------------------
(* The namespace *)

\* the names that are bound before each file
BeforeNetworks == {"domain_name", "domain_names", "funchostsshort", "service", "ldap"}
BeforeFirewall == BeforeNetworks \cup {"ip_addr", "wrap"}
BeforeNetworking ==
  BeforeFirewall \cup {"ssh_to", "mail_out", "robot_servers", "robot_out", "robot_in",
                       "static_routes"}
BeforeUsbdev ==
  BeforeNetworking \cup {"organization_host", "workstation", "router", "funcifs",
                         "canonical", "hostname_aliases", "netclasses"}

Namespace ==
  /\ pc = "00_baseparams" => DOMAIN ns = {}
  /\ pc = "10_funchosts" => DOMAIN ns = {"domain_name", "domain_names"}
  /\ pc = "20_networks" => DOMAIN ns = BeforeNetworks
  /\ pc = "21_revzones" => DOMAIN ns = BeforeFirewall \ {"wrap"}
  /\ pc = "25_firewall" => DOMAIN ns = BeforeFirewall
  /\ pc = "30_networking" => DOMAIN ns = BeforeNetworking
  /\ pc = "35_organization" => DOMAIN ns = BeforeUsbdev \ {"netclasses"}
  /\ pc = "40_usbdev" => DOMAIN ns = BeforeUsbdev
  /\ pc = "done" => DOMAIN ns = BeforeUsbdev \cup {"blacklist", "whitelist"}

\* what the names stand for that the properties speak of
Meanings ==
  LET short == FunchostsShort(cfg.servers)
  IN  /\ "domain_name" \in DOMAIN ns => ns.domain_name = DomainName(cfg.domains)
      /\ "funchostsshort" \in DOMAIN ns => ns.funchostsshort = short
      /\ "ip_addr" \in DOMAIN ns => ns.ip_addr = HostAddress(cfg.host, cfg.nets)
      /\ "funcifs" \in DOMAIN ns => ns.funcifs = Funcifs(cfg.servers)
      /\ "canonical" \in DOMAIN ns => ns.canonical = Canonical(cfg.domains, short)
      /\ "blacklist" \in DOMAIN ns => ns.blacklist = Listed(cfg.usb.blacklist, cfg.host)
      /\ "whitelist" \in DOMAIN ns => ns.whitelist = Listed(cfg.usb.whitelist, cfg.host)

NamesInv == Namespace /\ Meanings

LEMMA NamesInductive == NamesInv /\ [Next]_vars => NamesInv'
<1> SUFFICES ASSUME NamesInv, [Next]_vars PROVE NamesInv'
  OBVIOUS
<1> USE DEF NamesInv, Namespace, BeforeNetworks, BeforeFirewall, BeforeNetworking,
            BeforeUsbdev, Execute, Bind, Update
<1>1. CASE Baseparams
  <2>1. Namespace'
    BY <1>1 DEF Baseparams
  <2>2. Meanings'
    BY <1>1 DEF Baseparams, Meanings
  <2>3. QED
    BY <2>1, <2>2
<1>2. CASE Funchosts
  <2>1. Namespace'
    BY <1>2 DEF Funchosts
  <2>2. Meanings'
    BY <1>2 DEF Funchosts, Meanings
  <2>3. QED
    BY <2>1, <2>2
<1>3. CASE NetworksFile
  <2>1. Namespace'
    BY <1>3 DEF NetworksFile
  <2>2. Meanings'
    BY <1>3 DEF NetworksFile, Meanings
  <2>3. QED
    BY <2>1, <2>2
<1>4. CASE Revzones
  <2>1. Namespace'
    BY <1>4 DEF Revzones
  <2>2. /\ cfg' = cfg
        /\ \A x \in DOMAIN ns : ns'[x] = ns[x]
        /\ DOMAIN ns' \ DOMAIN ns \subseteq
             {"wrap"}
    <3>1. PICK wrap : Execute("21_revzones", "25_firewall", "", [wrap |-> wrap])
      BY <1>4 DEF Revzones
    <3>2. cfg' = cfg /\ ns' = Update(ns, [wrap |-> wrap])
      BY <3>1
    <3>3. "wrap" \notin DOMAIN ns
      BY <1>4 DEF Revzones
    <3>4. QED
      BY <3>2, <3>3
  <2>3. Meanings'
    BY <2>2 DEF Meanings
  <2>4. QED
    BY <2>1, <2>3
<1>5. CASE FirewallFile
  <2>1. Namespace'
    BY <1>5 DEF FirewallFile
  <2>2. /\ cfg' = cfg
        /\ \A x \in DOMAIN ns : ns'[x] = ns[x]
        /\ DOMAIN ns' \ DOMAIN ns \subseteq
             {"ssh_to", "mail_out", "robot_servers", "robot_out", "robot_in", "static_routes"}
    BY <1>5 DEF FirewallFile
  <2>3. Meanings'
    BY <2>2 DEF Meanings
  <2>4. QED
    BY <2>1, <2>3
<1>6. CASE Networking
  <2>1. Namespace'
    BY <1>6 DEF Networking
  <2>2. /\ cfg' = cfg
        /\ \A x \in DOMAIN ns : ns'[x] = ns[x]
        /\ DOMAIN ns' \ DOMAIN ns \subseteq
             {"organization_host", "workstation", "router", "funcifs", "canonical", "hostname_aliases"}
    BY <1>6 DEF Networking
  <2>3. pc' # "failed" =>
           /\ ns'["funcifs"] = Funcifs(cfg.servers)
           /\ ns'["canonical"] = Canonical(cfg.domains, ns.funchostsshort)
    BY <1>6 DEF Networking
  <2>4. Meanings'
    BY <1>6, <2>2, <2>3 DEF Networking, Meanings
  <2>5. QED
    BY <2>1, <2>4
<1>7. CASE OrganizationFile
  <2>1. Namespace'
    BY <1>7 DEF OrganizationFile
  <2>2. cfg' = cfg /\ DOMAIN ns' \ DOMAIN ns \subseteq {"netclasses"}
    <3>1. \/ ns' = ns
          \/ ns' = Update(ns, [netclasses |-> FillNetclasses(cfg.org)])
      BY <1>7 DEF OrganizationFile
    <3>2. DOMAIN Update(ns, [netclasses |-> FillNetclasses(cfg.org)])
            = DOMAIN ns \cup {"netclasses"}
      OBVIOUS
    <3>3. cfg' = cfg
      BY <1>7 DEF OrganizationFile
    <3>4. QED
      BY <3>1, <3>2, <3>3
  <2>3. \A x \in DOMAIN ns : ns'[x] = ns[x]
    BY <1>7 DEF OrganizationFile
  <2>4. Meanings'
    BY <2>2, <2>3 DEF Meanings
  <2>5. QED
    BY <2>1, <2>4
<1>8. CASE Usbdev
  <2>1. Namespace'
    BY <1>8 DEF Usbdev
  <2>2. Meanings'
    BY <1>8 DEF Usbdev, Meanings
  <2>3. QED
    BY <2>1, <2>2
<1>9. CASE UNCHANGED vars
  BY <1>9 DEF vars, Meanings
<1>10. QED
  BY <1>1, <1>2, <1>3, <1>4, <1>5, <1>6, <1>7, <1>8, <1>9 DEF Next

\* In every behaviour the namespace holds the names of the files executed.
LEMMA NamesCorrect == Spec => []NamesInv
<1>1. DOMAIN <<>> = {}
  OBVIOUS
<1>2. Init => NamesInv
  BY <1>1 DEF Init, NamesInv, Namespace, Meanings
<1>3. QED
  BY <1>2, NamesInductive, PTL DEF Spec

LEMMA NamesAtTheEnd ==
  ASSUME NamesInv, Done
  PROVE  LET short == FunchostsShort(cfg.servers)
         IN  /\ ns.domain_name = DomainName(cfg.domains)
             /\ ns.funchostsshort = short
             /\ ns.funcifs = Funcifs(cfg.servers)
             /\ ns.canonical = Canonical(cfg.domains, short)
             /\ ns.blacklist = Listed(cfg.usb.blacklist, cfg.host)
             /\ ns.whitelist = Listed(cfg.usb.whitelist, cfg.host)
BY DEF NamesInv, Namespace, Meanings, Done, BeforeNetworks, BeforeFirewall,
       BeforeNetworking, BeforeUsbdev

-----------------------------------------------------------------------------
(* 40_usbdev.py *)

\* an element for the host that stands for the device
Covered(elements, host, d) ==
  \E i \in DOMAIN elements :
      /\ Applies(elements[i], host)
      /\ elements[i].devices = {} \/ d \in elements[i].devices

LEMMA ListsFollowed ==
  ASSUME NEW black, NEW white, NEW host, NEW d
  PROVE  Authorized(d, Listed(black, host), Listed(white, host))
           = (Covered(black, host, d) => Covered(white, host, d))
<1> DEFINE mine(e) == {i \in DOMAIN e : Applies(e[i], host)}
           every(e) == \E i \in mine(e) : e[i].devices = {}
           one(e) == \E i \in mine(e) : d \in e[i].devices
<1>1. ASSUME NEW e
      PROVE  /\ Listed(e, host).has = (mine(e) # {})
             /\ every(e) => Listed(e, host).devices = {}
             /\ d \in Listed(e, host).devices <=> ~ every(e) /\ one(e)
             /\ Listed(e, host).devices = {} <=> mine(e) = {} \/ every(e)
  BY DEF Listed
<1>2. \A e : Covered(e, host, d) <=> every(e) \/ one(e)
  BY DEF Covered
<1>3. \A e : every(e) \/ one(e) => mine(e) # {}
  OBVIOUS
<1> HIDE DEF mine, every, one
<1>4. QED
  BY <1>1, <1>2, <1>3 DEF Authorized, Deauthorized, Reauthorized, Restricted

\* A USB device works unless the list of refused devices has it and the list of
\* permitted ones does not, for any lists, hosts and groups.
THEOREM UsbPolicyCorrect == Spec => []UsbPolicy
<1>1. ASSUME NamesInv PROVE UsbPolicy
  <2>1. \A d : Authorized(d, Listed(cfg.usb.blacklist, cfg.host), Listed(cfg.usb.whitelist, cfg.host))
                 = (Covered(cfg.usb.blacklist, cfg.host, d) => Covered(cfg.usb.whitelist, cfg.host, d))
    BY ListsFollowed
  <2>2. Done => /\ ns.blacklist = Listed(cfg.usb.blacklist, cfg.host)
                /\ ns.whitelist = Listed(cfg.usb.whitelist, cfg.host)
    BY <1>1, NamesAtTheEnd
  <2>3. QED
    BY <2>1, <2>2 DEF UsbPolicy, Covered
<1>2. QED
  BY <1>1, NamesCorrect, PTL

-----------------------------------------------------------------------------
(* The least and the greatest element of a set of positions. *)

LEMMA LeastElement ==
  ASSUME NEW S, S \subseteq Nat, S # {}
  PROVE  Min(S) \in S /\ \A y \in S : Min(S) <= y
<1>1. PICK x \in S : \A y \in S : <<y, x>> \notin OpToRel(<, Nat)
  BY NatLessThanWellFounded, WFMin, Zenon
<1>2. ASSUME NEW y \in S PROVE x <= y
  <2>1. x \in Nat /\ y \in Nat
    BY <1>1
  <2>2. y < x => <<y, x>> \in OpToRel(<, Nat)
    BY <2>1 DEF OpToRel
  <2>3. <<y, x>> \notin OpToRel(<, Nat)
    BY <1>1
  <2>4. ~ (y < x)
    BY <2>2, <2>3, Zenon
  <2>5. QED
    BY <2>1, <2>4
<1>3. QED
  BY <1>2 DEF Min

LEMMA GreatestElement ==
  ASSUME NEW n \in Nat, NEW S, S \subseteq 1 .. n, S # {}
  PROVE  Max(S) \in S /\ \A y \in S : Max(S) >= y
<1> DEFINE T == {n - y : y \in S}
<1>1. T \subseteq Nat /\ T # {}
  <2>1. \A y \in S : n - y \in Nat
    OBVIOUS
  <2>2. QED
    BY <2>1
<1>2. Min(T) \in T /\ \A y \in T : Min(T) <= y
  <2> HIDE DEF T
  <2>1. QED
    BY <1>1, LeastElement
<1>3. PICK x \in S : Min(T) = n - x
  BY <1>2
<1>4. ASSUME NEW y \in S PROVE x >= y
  <2>1. n - x <= n - y
    BY <1>2, <1>3
  <2>2. x \in Nat /\ y \in Nat
    OBVIOUS
  <2>3. QED
    BY <2>1, <2>2
<1>5. QED
  BY <1>4 DEF Max

-----------------------------------------------------------------------------
(* The zones of the domains *)

\* No two servers of different functions have one name, and no name is that of
\* the record for mail programs.
NamesApart(c) ==
  /\ \A i, j \in DOMAIN c.servers :
       c.servers[i].fn # c.servers[j].fn => c.servers[i].name # c.servers[j].name
  /\ \A i \in DOMAIN c.servers : c.servers[i].name \notin {"", "autoconfig"}
  /\ \A i \in DOMAIN c.domains : c.domains[i].revDNS # "autoconfig"

LEMMA ShortNamesApart ==
  ASSUME NEW c, WellFormed(c), NamesApart(c)
  PROVE  LET short == FunchostsShort(c.servers)
         IN  /\ \A f, g \in DOMAIN short : f # g => short[f] # short[g]
             /\ \A f \in DOMAIN short : short[f] \notin {"", "autoconfig"}
<1> DEFINE short == FunchostsShort(c.servers)
<1>1. ASSUME NEW f \in DOMAIN short
      PROVE  \E i \in DOMAIN c.servers : c.servers[i].fn = f /\ short[f] = c.servers[i].name
  <2>1. WithFunction(c.servers, f) \subseteq 1 .. Len(c.servers)
    BY DEF WithFunction, WellFormed, List
  <2>2. WithFunction(c.servers, f) # {}
    BY <1>1 DEF WithFunction, FunchostsShort
  <2>3. Max(WithFunction(c.servers, f)) \in WithFunction(c.servers, f)
    BY <2>1, <2>2, GreatestElement DEF WellFormed, List
  <2>4. short[f] = c.servers[Max(WithFunction(c.servers, f))].name
    BY <1>1 DEF FunchostsShort
  <2>5. QED
    BY <2>3, <2>4 DEF WithFunction
<1> HIDE DEF short
<1>2. ASSUME NEW f \in DOMAIN short, NEW g \in DOMAIN short, f # g
      PROVE  short[f] # short[g]
  <2>1. PICK i \in DOMAIN c.servers : c.servers[i].fn = f /\ short[f] = c.servers[i].name
    BY <1>1
  <2>2. PICK j \in DOMAIN c.servers : c.servers[j].fn = g /\ short[g] = c.servers[j].name
    BY <1>1
  <2>3. QED
    BY <1>2, <2>1, <2>2 DEF NamesApart
<1>3. \A f \in DOMAIN short : short[f] \notin {"", "autoconfig"}
  BY <1>1 DEF NamesApart
<1>4. QED
  BY <1>2, <1>3 DEF short

LEMMA RevDNSDomain ==
  ASSUME NEW c, WellFormed(c), WithRevDNS(c.domains) # {}
  PROVE  Min(WithRevDNS(c.domains)) \in Mastered(c.domains)
<1>1. WithRevDNS(c.domains) \subseteq Nat
  BY DEF WithRevDNS, Mastered, WellFormed, List
<1>2. QED
  BY <1>1, LeastElement DEF WithRevDNS

LEMMA ClashExplained ==
  ASSUME NEW c, WellFormed(c), NamesApart(c), NEW mailOut, NEW i \in Mastered(c.domains),
         NEW internal \in BOOLEAN, "router" \in DOMAIN FunchostsShort(c.servers),
         NEW x \in ZoneCnames(internal, mailOut, FunchostsShort(c.servers)),
         x \in ZoneAddresses(c.domains[i], internal, mailOut, FunchostsShort(c.servers),
                 Canonical(c.domains, FunchostsShort(c.servers)), DomainName(c.domains))
  PROVE  x \in c.domains[i].aliases
                \cap ({"autoconfig"} \cup ShortOf(FunchostsShort(c.servers), {"DMZvpn"}))
<1> DEFINE short == FunchostsShort(c.servers)
           top == Canonical(c.domains, short)
<1>1. /\ \A f, g \in DOMAIN short : f # g => short[f] # short[g]
      /\ \A f \in DOMAIN short : short[f] \notin {"", "autoconfig"}
  BY ShortNamesApart
<1>2. top.host # "autoconfig"
  BY <1>1, RevDNSDomain DEF Canonical, NamesApart, Mastered
<1> HIDE DEF short, top
<1>3. \/ x = "autoconfig"
      \/ internal /\ x \in ShortOf(short, {"DMZwww", "DMZvpn"})
  BY DEF ZoneCnames, short
<1>4. \/ x = ""
      \/ internal /\ x = short["router"]
      \/ x = top.host /\ ~ internal
      \/ ~ internal /\ x \in ShortOf(short, {"DMZwww", "DMZvpn", "mail"})
      \/ x \in HostnameAliases(c.domains[i], short)
      \/ x \in ShortOf(short, {"DMZxmpp"})
  BY DEF ZoneAddresses, ShortOf, short, top
<1>5. x \in HostnameAliases(c.domains[i], short)
  BY <1>1, <1>2, <1>3, <1>4 DEF ShortOf, short
<1>6. QED
  BY <1>3, <1>5 DEF HostnameAliases, ShortOf, short

LEMMA MailNameServed ==
  ASSUME NEW c, WellFormed(c), NEW mailOut,
         WithRevDNS(c.domains) # {} \/ ~ (c.domains[1].slave \/ c.domains[1].name.caps)
  PROVE  LET short == FunchostsShort(c.servers)
             top   == Canonical(c.domains, short)
         IN  \E i \in Mastered(c.domains) :
               /\ c.domains[i].name = top.domain
               /\ top.host \in ZoneAddresses(c.domains[i], FALSE, mailOut, short, top,
                                             DomainName(c.domains))
<1> DEFINE short == FunchostsShort(c.servers)
           top == Canonical(c.domains, short)
<1>1. \E i \in Mastered(c.domains) : c.domains[i].name = top.domain
  <2>1. CASE WithRevDNS(c.domains) # {}
    BY <2>1, RevDNSDomain DEF Canonical
  <2>2. CASE WithRevDNS(c.domains) = {}
    <3>1. 1 \in Mastered(c.domains)
      BY <2>2 DEF WellFormed, List, Mastered
    <3>2. DomainName(c.domains) = c.domains[1].name
      BY <2>2, <3>1 DEF DomainName, Lower, WellFormed, Mastered
    <3>3. QED
      BY <2>2, <3>1, <3>2 DEF Canonical
  <2>3. QED
    BY <2>1, <2>2
<1>2. \A d : d.name = top.domain =>
         top.host \in ZoneAddresses(d, FALSE, mailOut, short, top, DomainName(c.domains))
  BY DEF ZoneAddresses
<1>3. QED
  BY <1>1, <1>2

\* If the names of servers are distinct and none is reserved: named accepts the zone of
\* every domain unless an alias names the VPN server or "autoconfig", and the name
\* in the MX records of the domains has an address.
THEOREM ZoneNamesCorrect ==
  ASSUME \A family \in Configs : \A c \in family : NamesApart(c)
  PROVE  Spec => []ZoneNamesSound
<1>1. ASSUME TypeOK, NamesInv PROVE ZoneNamesSound
  <2>1. WellFormed(cfg) /\ NamesApart(cfg)
    BY <1>1, ConfigsAssumption DEF TypeOK
  <2>2. CnameClashExplained
    BY <1>1, <2>1, NamesAtTheEnd, ClashExplained DEF CnameClashExplained
  <2>3. MailNameHasAddress
    BY <1>1, <2>1, NamesAtTheEnd, MailNameServed DEF MailNameHasAddress
  <2>4. QED
    BY <2>2, <2>3 DEF ZoneNamesSound
<1>2. QED
  BY <1>1, RenderingTypeCorrect, NamesCorrect, PTL

-----------------------------------------------------------------------------
(* accumulate_tags *)

\* Induction, for a set in place of a predicate.
LEMMA UpTo ==
  ASSUME NEW n \in Nat, NEW S, 0 \in S, \A k \in 0 .. (n - 1) : k \in S => k + 1 \in S
  PROVE  0 .. n \subseteq S
<1> DEFINE missing == (0 .. n) \ S
<1> SUFFICES ASSUME missing # {} PROVE FALSE
  OBVIOUS
<1>1. missing \subseteq Nat
  OBVIOUS
<1>2. Min(missing) \in missing /\ \A y \in missing : Min(missing) <= y
  <2> HIDE DEF missing
  <2>1. QED
    BY <1>1, LeastElement
<1>3. PICK m \in missing : \A y \in missing : m <= y
  BY <1>2
<1>4. m \in 0 .. n /\ m \notin S /\ m # 0
  BY <1>3
<1>5. m - 1 \in 0 .. (n - 1) /\ (m - 1) + 1 = m
  BY <1>4
<1>6. m - 1 \notin S
  BY <1>4, <1>5
<1>7. m - 1 \in missing
  BY <1>4, <1>6
<1>8. m <= m - 1
  BY <1>3, <1>7
<1>9. QED
  BY <1>4, <1>8

\* What the walk makes of a unit.
Collect(units, ip, tag, walk, u) ==
  LET own  == IF Has(units, u, tag) THEN <<units[u].tags[tag]>> ELSE <<>>
      hits == {s \in Subunits(units, u) : walk[s].found}
  IN  IF HasNetwork(units, u) /\ ip \in Addresses(NetworkOf(units, u))
      THEN [found |-> TRUE, vals |-> own]
      ELSE IF hits = {} THEN [found |-> FALSE, vals |-> <<>>]
      ELSE [found |-> TRUE, vals |-> walk[Min(hits)].vals \o own]

LEMMA CollectLooksDown ==
  ASSUME NEW units, List(units), NEW ip, NEW tag, NEW u, NEW f, NEW g,
         \A s \in Subunits(units, u) : f[s] = g[s]
  PROVE  Collect(units, ip, tag, f, u) = Collect(units, ip, tag, g, u)
<1> DEFINE hits(w) == {s \in Subunits(units, u) : w[s].found}
<1>1. hits(f) = hits(g)
  OBVIOUS
<1>2. \A s \in hits(f) : f[s].vals = g[s].vals
  OBVIOUS
<1>3. hits(f) # {} => Min(hits(f)) \in hits(f)
  <2>1. hits(f) \subseteq Nat
    BY DEF Subunits, List
  <2> HIDE DEF hits
  <2>2. QED
    BY <2>1, LeastElement
<1>4. QED
  BY <1>1, <1>2, <1>3 DEF Collect

\* The walk is defined for every unit: it only looks at units that come later.
LEMMA WalkExists ==
  ASSUME NEW units, List(units), DocumentOrder(units), NEW ip, NEW tag
  PROVE  \E f : f = [u \in DOMAIN units |-> Collect(units, ip, tag, f, u)]
<1> DEFINE n == Len(units)
           From(k) == (n - k + 1) .. n
           Walks(k) == \E f : f = [u \in From(k) |-> Collect(units, ip, tag, f, u)]
           S == {k \in 0 .. n : Walks(k)}
<1>0. n \in Nat /\ DOMAIN units = 1 .. n
  BY DEF List
<1>1. 0 \in S
  <2>1. From(0) = {}
    BY <1>0
  <2>2. [u \in From(0) |-> 0] = [u \in From(0) |-> Collect(units, ip, tag, [v \in From(0) |-> 0], u)]
    BY <2>1
  <2>3. QED
    BY <1>0, <2>2
<1>2. ASSUME NEW k \in 0 .. (n - 1), Walks(k) PROVE Walks(k + 1)
  <2>1. PICK f : f = [u \in From(k) |-> Collect(units, ip, tag, f, u)]
    BY <1>2
  <2> DEFINE g == [u \in From(k + 1) |-> IF u \in From(k) THEN f[u]
                                        ELSE Collect(units, ip, tag, f, u)]
  <2>2. \A u \in From(k + 1) : g[u] = Collect(units, ip, tag, f, u)
    BY <2>1
  <2>3. ASSUME NEW u \in From(k + 1), NEW s \in Subunits(units, u) PROVE f[s] = g[s]
    <3>1. u \in Nat /\ u >= n - k /\ s \in 1 .. n /\ u < s
      BY <1>0 DEF Subunits, DocumentOrder
    <3>2. s \in From(k) /\ s \in From(k + 1)
      BY <1>0, <3>1
    <3>3. QED
      BY <3>2
  <2>4. \A u \in From(k + 1) : g[u] = Collect(units, ip, tag, g, u)
    <3> HIDE DEF g
    <3>1. QED
      BY <2>2, <2>3, CollectLooksDown
  <2>5. g = [u \in From(k + 1) |-> Collect(units, ip, tag, g, u)]
    BY <2>4
  <2>6. QED
    BY <2>5
<1>3. 0 .. n \subseteq S
  <2>1. \A k \in 0 .. (n - 1) : k \in S => k + 1 \in S
    <3> HIDE DEF Walks
    <3>1. QED
      BY <1>0, <1>2
  <2> HIDE DEF S
  <2>2. QED
    BY <1>0, <1>1, <2>1, UpTo
<1>4. Walks(n) /\ From(n) = 1 .. n
  BY <1>0, <1>3
<1>5. QED
  BY <1>0, <1>4

\* accumulate_tags does what the walk makes of the root.
LEMMA WalkFromRoot ==
  ASSUME NEW units, List(units), DocumentOrder(units), NEW ip, NEW tag
  PROVE  \E f : /\ f = [u \in DOMAIN units |-> Collect(units, ip, tag, f, u)]
               /\ AccumulateTags(units, ip, tag) = f[1]
<1> DEFINE walk == CHOOSE f : f = [u \in DOMAIN units |-> Collect(units, ip, tag, f, u)]
<1>1. walk = [u \in DOMAIN units |-> Collect(units, ip, tag, walk, u)]
  <2>1. \E f : f = [u \in DOMAIN units |-> Collect(units, ip, tag, f, u)]
    BY WalkExists
  <2>2. QED
    BY <2>1, Zenon
<1>2. AccumulateTags(units, ip, tag) = walk[1]
  BY DEF AccumulateTags, Collect
<1>3. QED
  BY <1>1, <1>2

\* Induction on the tree.
LEMMA FromTheLeaves ==
  ASSUME NEW units, List(units), DocumentOrder(units),
         NEW S, \A u \in DOMAIN units : Subunits(units, u) \subseteq S => u \in S
  PROVE  DOMAIN units \subseteq S
<1> DEFINE missing == DOMAIN units \ S
<1> SUFFICES ASSUME missing # {} PROVE FALSE
  OBVIOUS
<1>1. Max(missing) \in missing /\ \A y \in missing : Max(missing) >= y
  <2>1. Len(units) \in Nat /\ missing \subseteq 1 .. Len(units)
    BY DEF List
  <2> HIDE DEF missing
  <2>2. QED
    BY <2>1, GreatestElement
<1>2. PICK m \in missing : \A y \in missing : m >= y
  BY <1>1
<1>3. m \in 1 .. Len(units) /\ Len(units) \in Nat /\ DOMAIN units \subseteq Nat
  BY DEF List
<1>4. ASSUME NEW s \in Subunits(units, m) PROVE s \in DOMAIN units /\ s > m
  <2>1. s \in DOMAIN units /\ s \in Nat /\ units[s].up = m
    BY <1>3 DEF Subunits
  <2>2. units[s].up \in 1 .. (s - 1)
    BY <1>3, <2>1 DEF DocumentOrder
  <2>3. QED
    BY <1>3, <2>1, <2>2
<1>5. Subunits(units, m) \subseteq S
  BY <1>2, <1>3, <1>4
<1>6. QED
  BY <1>5

Values(units, tag) == {units[v].tags[tag] : v \in DOMAIN units}

LEMMA WalkValues ==
  ASSUME NEW units, List(units), DocumentOrder(units), NEW ip, NEW tag,
         NEW f, f = [u \in DOMAIN units |-> Collect(units, ip, tag, f, u)],
         NEW u \in DOMAIN units
  PROVE  f[u].found \in BOOLEAN /\ f[u].vals \in Seq(Values(units, tag))
<1> DEFINE T == Values(units, tag)
           S == {v \in DOMAIN units : f[v].found \in BOOLEAN /\ f[v].vals \in Seq(T)}
           own(v) == IF Has(units, v, tag) THEN <<units[v].tags[tag]>> ELSE <<>>
           hits(v) == {s \in Subunits(units, v) : f[s].found}
<1>1. ASSUME NEW v \in DOMAIN units, Subunits(units, v) \subseteq S PROVE v \in S
  <2>1. own(v) \in Seq(T)
    <3>1. units[v].tags[tag] \in T
      BY DEF Values
    <3> HIDE DEF T
    <3>2. QED
      BY <3>1
  <2>2. hits(v) # {} => Min(hits(v)) \in hits(v)
    <3>1. hits(v) \subseteq Nat
      BY DEF Subunits, List
    <3> HIDE DEF hits
    <3>2. QED
      BY <3>1, LeastElement
  <2>3. hits(v) # {} => f[Min(hits(v))].vals \in Seq(T)
    BY <1>1, <2>2
  <2>4. f[v] = Collect(units, ip, tag, f, v)
    OBVIOUS
  <2> HIDE DEF T
  <2>5. hits(v) # {} => f[Min(hits(v))].vals \o own(v) \in Seq(T)
    BY <2>1, <2>3
  <2>6. <<>> \in Seq(T)
    OBVIOUS
  <2>7. \/ f[v] = [found |-> TRUE, vals |-> own(v)]
        \/ f[v] = [found |-> FALSE, vals |-> <<>>]
        \/ hits(v) # {} /\ f[v] = [found |-> TRUE, vals |-> f[Min(hits(v))].vals \o own(v)]
    BY <2>4 DEF Collect
  <2> HIDE DEF own, hits
  <2>8. \E b \in BOOLEAN, x \in Seq(T) : f[v] = [found |-> b, vals |-> x]
    BY <2>1, <2>5, <2>6, <2>7, Zenon
  <2>9. f[v].found \in BOOLEAN /\ f[v].vals \in Seq(T)
    BY <2>8
  <2>10. QED
    BY <2>9
<1>2. DOMAIN units \subseteq S
  <2> HIDE DEF S
  <2>1. QED
    BY <1>1, FromTheLeaves
<1>3. QED
  BY <1>2

\* A host that is in the organization gets a value of each tag that the root has.
LEMMA RootAddsItsTag ==
  ASSUME NEW units, List(units), units # <<>>, DocumentOrder(units), NEW ip,
         NEW tag \in DOMAIN units[1].tags, AccumulateTags(units, ip, tag).found
  PROVE  AccumulateTags(units, ip, tag).vals # <<>>
<1>1. PICK f : /\ f = [u \in DOMAIN units |-> Collect(units, ip, tag, f, u)]
               /\ AccumulateTags(units, ip, tag) = f[1]
  BY WalkFromRoot
<1> DEFINE T == Values(units, tag)
           own == <<units[1].tags[tag]>>
           hits == {s \in Subunits(units, 1) : f[s].found}
<1>2. 1 \in DOMAIN units
  BY DEF List
<1>3. f[1] = Collect(units, ip, tag, f, 1) /\ f[1].found
  BY <1>1, <1>2
<1>4. \/ f[1].vals = own
      \/ hits # {} /\ f[1].vals = f[Min(hits)].vals \o own
  BY <1>3 DEF Collect, Has
<1>5. hits # {} => Min(hits) \in DOMAIN units
  <2>1. hits \subseteq Nat /\ hits \subseteq DOMAIN units
    BY DEF Subunits, List
  <2> HIDE DEF hits
  <2>2. QED
    BY <2>1, LeastElement
<1>6. ASSUME NEW u \in DOMAIN units PROVE f[u].vals \in Seq(T)
  <2>1. f = [v \in DOMAIN units |-> Collect(units, ip, tag, f, v)]
    BY <1>1
  <2>2. QED
    BY <2>1, WalkValues
<1>7. own \in Seq(T) /\ Len(own) = 1
  BY <1>2 DEF Values
<1> HIDE DEF own, T, hits
<1>8. ASSUME NEW x \in Seq(T) PROVE Len(x \o own) = Len(x) + 1 /\ Len(x) \in Nat
  BY <1>7, ConcatProperties
<1>9. Len(<<>>) = 0
  OBVIOUS
<1>10. QED
  BY <1>1, <1>4, <1>5, <1>6, <1>7, <1>8, <1>9

-----------------------------------------------------------------------------
(* The exceptions that nobody catches *)

Expected ==
  {"", "TemplateError addresses", "TemplateError dhcp", "TemplateError gateway",
   "TemplateError entries", "TemplateError routers", "TemplateError revDNS"}

LEMMA FunchostsExplained ==
  ASSUME ServersComplete PROVE FunchostsFault(cfg.servers) = ""
BY DEF ServersComplete, FunchostsFault

LEMMA RoutesExplained ==
  ASSUME NetworksComplete, WellFormed(cfg)
  PROVE  FirewallFault(cfg.fw, cfg.nets) \in {"", "TemplateError gateway"}
<1> DEFINE routes == cfg.fw.routes
           nets == cfg.nets
           failing(T) == {i \in DOMAIN routes[T] : RouteFault(routes[T][i], nets[T]) # ""}
           at == {k \in DOMAIN NetTypes :
                     /\ NetTypes[k] \in DOMAIN nets \cap DOMAIN routes
                     /\ failing(NetTypes[k]) # {}}
           T  == NetTypes[Min(at)]
<1>1. at # {} => Min(at) \in at
  <2>1. DOMAIN NetTypes = 1 .. 7
    BY DEF NetTypes
  <2>2. at \subseteq Nat
    <3>1. at \subseteq DOMAIN NetTypes
      OBVIOUS
    <3> HIDE DEF at
    <3>2. QED
      BY <2>1, <3>1
  <2> HIDE DEF at
  <2>3. QED
    BY <2>2, LeastElement
<1>2. ASSUME at # {} PROVE Min(failing(T)) \in failing(T)
  <2>1. T \in DOMAIN nets \cap DOMAIN routes /\ failing(T) # {}
    BY <1>1, <1>2
  <2>2. failing(T) \subseteq Nat
    <3> HIDE DEF T
    <3>1. failing(T) \subseteq DOMAIN routes[T]
      OBVIOUS
    <3>2. List(routes[T])
      BY <2>1 DEF WellFormed
    <3> HIDE DEF routes, failing
    <3>3. DOMAIN routes[T] \subseteq Nat
      BY <3>2 DEF List
    <3>4. QED
      BY <3>1, <3>3
  <2> HIDE DEF failing, T
  <2>3. QED
    BY <2>1, <2>2, LeastElement
<1>3. ASSUME at # {} PROVE RouteFault(routes[T][Min(failing(T))], nets[T]) = "TemplateError gateway"
  <2>1. T \in DOMAIN nets \cap DOMAIN routes
    BY <1>1, <1>3
  <2>2. IsNetwork(routes[T][Min(failing(T))].net)
    BY <1>2, <1>3, <2>1 DEF NetworksComplete
  <2>3. RouteFault(routes[T][Min(failing(T))], nets[T]) # ""
    BY <1>2, <1>3
  <2>4. QED
    BY <2>2, <2>3 DEF RouteFault
<1>4. QED
  BY <1>3 DEF FirewallFault, RoutesFault, NetworksComplete

LEMMA InterfaceFound ==
  ASSUME NEW types, types # {}, types \subseteq {IfTypes[k] : k \in DOMAIN IfTypes}
  PROVE  FirstIf(types) # ""
<1> DEFINE K == {k \in DOMAIN IfTypes : IfTypes[k] \in types}
<1>1. DOMAIN IfTypes = 1 .. 7
  BY DEF IfTypes
<1>2. K # {} /\ K \subseteq Nat
  BY <1>1
<1>3. Min(K) \in K
  <2> HIDE DEF K
  <2>1. QED
    BY <1>2, LeastElement
<1>4. ASSUME NEW k \in 1 .. 7 PROVE IfTypes[k] # ""
  <2>1. /\ IfTypes[1] # "" /\ IfTypes[2] # "" /\ IfTypes[3] # "" /\ IfTypes[4] # ""
        /\ IfTypes[5] # "" /\ IfTypes[6] # "" /\ IfTypes[7] # ""
    BY DEF IfTypes
  <2>2. k = 1 \/ k = 2 \/ k = 3 \/ k = 4 \/ k = 5 \/ k = 6 \/ k = 7
    OBVIOUS
  <2>3. QED
    BY <2>1, <2>2
<1>5. FirstIf(types) = IfTypes[Min(K)]
  BY DEF FirstIf
<1>6. QED
  BY <1>1, <1>3, <1>4, <1>5

LEMMA ServersExplained ==
  ASSUME ServersComplete, OrganizationComplete, WellFormed(cfg)
  PROVE  ServersFault(cfg.servers, cfg.host.name, RootGateway) \in Expected
<1>1. ASSUME NEW i \in DOMAIN cfg.servers
      PROVE  MainIf(cfg.servers[i]) # "" /\ MainMac(cfg.servers[i]) # ""
  <2> DEFINE s == cfg.servers[i]
  <2>1. CASE s.fn \in OnPub
    BY <2>1 DEF ServersComplete, MainIf, MainMac
  <2>2. CASE s.fn \notin OnPub
    <3>1. WithIp(s) # {} /\ WithMac(s) # {}
      BY DEF ServersComplete, WithIp, WithMac
    <3>2. /\ WithIp(s) \subseteq {IfTypes[k] : k \in DOMAIN IfTypes}
          /\ WithMac(s) \subseteq {IfTypes[k] : k \in DOMAIN IfTypes}
      BY DEF WellFormed, WithIp, WithMac
    <3>3. QED
      BY <2>2, <3>1, <3>2, InterfaceFound DEF MainIf, MainMac
  <2>3. QED
    BY <2>1, <2>2
<1>2. MainFault(cfg.servers) = ""
  BY <1>1 DEF MainFault
<1>3. EntriesFault(cfg.servers, cfg.host.name) \in Expected
  BY DEF EntriesFault, Expected
<1>4. RouterFault(cfg.servers, RootGateway) = ""
  <2> DEFINE routers == WithFunction(cfg.servers, "router")
  <2>1. CASE routers = {}
    <3>1. RootGateway \notin {NoTag, Blank, NotAddress}
      BY <2>1 DEF OrganizationComplete, NoTag, Blank, NotAddress
    <3>2. QED
      BY <2>1, <3>1 DEF RouterFault
  <2>2. CASE routers # {}
    <3>1. Min(routers) \in routers
      <4>1. routers \subseteq Nat
        BY DEF WithFunction, WellFormed, List
      <4> HIDE DEF routers
      <4>2. QED
        BY <2>2, <4>1, LeastElement
    <3>2. Min(routers) \in DOMAIN cfg.servers /\ cfg.servers[Min(routers)].fn = "router"
      BY <3>1 DEF WithFunction
    <3> HIDE DEF routers
    <3>3. QED
      BY <2>2, <3>2 DEF ServersComplete, RouterFault, routers
  <2>3. QED
    BY <2>1, <2>2
<1>5. QED
  BY <1>2, <1>3, <1>4 DEF ServersFault, Expected

LEMMA WorkstationExplained ==
  ASSUME OrganizationComplete, WellFormed(cfg), ns.ip_addr = HostAddress(cfg.host, cfg.nets)
  PROVE  WorkstationFault = ""
<1> SUFFICES ASSUME ~ IsServer PROVE WorkstationFault = ""
  BY DEF WorkstationFault
<1>1. cfg.host.known /\ Cardinality(cfg.host.addrs) = 1
  BY DEF OrganizationComplete
<1>2. PICK a : cfg.host.addrs = {a}
  BY <1>1, FS_Singleton DEF WellFormed
<1>3. ns.ip_addr \in cfg.host.addrs
  BY <1>1, <1>2 DEF HostAddress
<1>4. ns.ip_addr # NoAddr
  BY <1>3 DEF WellFormed, NoAddr
<1>5. ASSUME NEW tag \in {"network", "gateway", "users_group"}, Walk(tag).found
      PROVE  Walk(tag).vals # <<>>
  <2>1. tag \in DOMAIN cfg.org[1].tags
    BY DEF OrganizationComplete
  <2>2. QED
    BY <1>5, <2>1, RootAddsItsTag DEF Walk, WellFormed
<1>6. WalkFault(cfg.org, ns.ip_addr) = ""
  <2> DEFINE stops == {u \in DOMAIN cfg.org :
                         \/ Refused(cfg.org, u)
                         \/ /\ HasNetwork(cfg.org, u)
                            /\ \/ ns.ip_addr = NoAddr
                               \/ ns.ip_addr \in Addresses(NetworkOf(cfg.org, u))}
  <2>1. stops # {} => Min(stops) \in DOMAIN cfg.org
    <3>1. stops \subseteq DOMAIN cfg.org /\ DOMAIN cfg.org \subseteq Nat
      BY DEF WellFormed, List
    <3> HIDE DEF stops
    <3>2. QED
      BY <3>1, LeastElement
  <2>2. stops # {} => ~ Refused(cfg.org, Min(stops))
    BY <2>1 DEF OrganizationComplete
  <2>3. QED
    BY <1>4, <2>2 DEF WalkFault
<1>7. QED
  BY <1>5, <1>6 DEF WorkstationFault

\* An administrator is told of every failure, except for the ones that UncaughtExplained
\* lists; for any installations and hosts whose files have the form that WellFormed
\* states, and any texts of networks.
THEOREM UncaughtExplainedCorrect == Spec => []UncaughtExplained
<1> DEFINE Complete == ServersComplete /\ NetworksComplete /\ OrganizationComplete
<1>1. Init => UncaughtExplained
  BY DEF Init, UncaughtExplained
<1>2. TypeOK /\ NamesInv /\ UncaughtExplained /\ [Next]_vars => UncaughtExplained'
  <2> SUFFICES ASSUME TypeOK, NamesInv, UncaughtExplained, [Next]_vars, Complete'
               PROVE  fault' \in Expected
    BY DEF UncaughtExplained, Expected
  <2>1. cfg' = cfg
    BY DEF Next, vars, Execute, Baseparams, Funchosts, NetworksFile, Revzones,
           FirewallFile, Networking, OrganizationFile, Usbdev
  <2>2. Complete
    BY <2>1 DEF ServersComplete, NetworksComplete, OrganizationComplete, IsServer, RootGateway
  <2> HIDE DEF Complete
  <2>3. WellFormed(cfg)
    BY ConfigsAssumption DEF TypeOK
  <2>4. CASE Funchosts
    <3>1. FunchostsFault(cfg.servers) = ""
      BY <2>2, FunchostsExplained DEF Complete
    <3>2. QED
      BY <2>4, <3>1 DEF Funchosts, Execute, Expected
  <2>5. CASE NetworksFile
    <3>1. NetworksFault \in Expected
      BY <2>2 DEF Complete, NetworksComplete, NetworksFault, Intersecting, NetworkIn, Expected
    <3>2. QED
      BY <2>5, <3>1 DEF NetworksFile, Execute
  <2>6. CASE FirewallFile
    <3>1. FirewallFault(cfg.fw, cfg.nets) \in Expected
      BY <2>2, <2>3, RoutesExplained DEF Complete, Expected
    <3>2. QED
      BY <2>6, <3>1 DEF FirewallFile, Execute
  <2>7. CASE Networking
    <3>1. ns.ip_addr = HostAddress(cfg.host, cfg.nets)
      BY <2>7 DEF Networking, Execute, NamesInv, Namespace, Meanings, BeforeNetworks,
                  BeforeFirewall, BeforeNetworking
    <3>2. NetworkingFault \in Expected
      BY <2>2, <2>3, <3>1, ServersExplained, WorkstationExplained
         DEF Complete, NetworkingFault, Expected
    <3>3. QED
      BY <2>7, <3>2 DEF Networking, Execute
  <2>8. CASE OrganizationFile
    <3>1. OrganizationFault(cfg.org) = ""
      BY <2>2 DEF Complete, OrganizationComplete, OrganizationFault
    <3>2. QED
      BY <2>8, <3>1 DEF OrganizationFile, Execute, Expected
  <2>9. CASE Baseparams \/ Revzones \/ Usbdev
    BY <2>9 DEF Baseparams, Revzones, Usbdev, Execute, Expected
  <2>10. CASE UNCHANGED vars
    BY <2>2, <2>10 DEF Complete, vars, UncaughtExplained, Expected
  <2>11. QED
    BY <2>4, <2>5, <2>6, <2>7, <2>8, <2>9, <2>10 DEF Next
<1>3. QED
  BY <1>1, <1>2, RenderingTypeCorrect, NamesCorrect, PTL DEF Spec

-----------------------------------------------------------------------------
(* What the walk finds *)

\* v is u or a unit in it.
Inside(units, u, v) ==
  u <= v /\ \A w \in (u + 1) .. v : units[w].up >= u

LEMMA InsideOne ==
  ASSUME NEW units, List(units), DocumentOrder(units),
         NEW u \in DOMAIN units, NEW v \in DOMAIN units, Inside(units, u, v), v # u
  PROVE  \E s \in Subunits(units, u) : Inside(units, s, v)
<1> DEFINE C == {w \in (u + 1) .. v : units[w].up = u}
           n == Len(units)
<1>1. n \in Nat /\ DOMAIN units = 1 .. n /\ u < v
  BY DEF List, Inside
<1>2. u + 1 \in C
  <2>1. u + 1 \in DOMAIN units /\ u + 1 # 1 /\ u + 1 \in (u + 1) .. v
    BY <1>1
  <2>2. units[u + 1].up \in 1 .. u
    BY <1>1, <2>1 DEF DocumentOrder
  <2>3. units[u + 1].up >= u
    BY <2>1 DEF Inside
  <2>4. QED
    BY <1>1, <2>1, <2>2, <2>3
<1>3. Max(C) \in C /\ \A w \in C : Max(C) >= w
  <2>1. C \subseteq 1 .. n /\ C # {}
    BY <1>1, <1>2
  <2> HIDE DEF C
  <2>2. QED
    BY <1>1, <2>1, GreatestElement
<1>4. PICK s \in C : \A w \in C : s >= w
  BY <1>3
<1>5. s \in DOMAIN units /\ units[s].up = u /\ u < s /\ s <= v
  BY <1>1, <1>4
<1>6. ASSUME NEW w \in (s + 1) .. v PROVE units[w].up >= s
  <2>1. w \in DOMAIN units /\ w # 1 /\ w \in (u + 1) .. v /\ s < w
    BY <1>1, <1>5
  <2>2. units[w].up \in 1 .. (w - 1)
    BY <1>1, <2>1 DEF DocumentOrder
  <2>3. units[w].up > u
    <3>1. units[w].up >= u
      BY <2>1 DEF Inside
    <3>2. units[w].up # u
      BY <1>1, <1>4, <1>5, <2>1
    <3>3. QED
      BY <1>1, <2>2, <3>1, <3>2
  <2>4. CASE units[w].up < s
    <3>1. s \in (units[w].up + 1) .. (w - 1)
      BY <1>1, <1>5, <2>1, <2>2, <2>4
    <3>2. units[s].up >= units[w].up
      BY <2>1, <3>1 DEF DocumentOrder
    <3>3. QED
      BY <1>1, <1>5, <2>2, <2>3, <3>2
  <2>5. QED
    BY <1>1, <1>5, <2>2, <2>4
<1>7. QED
  BY <1>1, <1>5, <1>6 DEF Inside, Subunits

LEMMA InsideParent ==
  ASSUME NEW units, List(units), DocumentOrder(units), NEW u \in DOMAIN units,
         NEW s \in Subunits(units, u), NEW v \in DOMAIN units, Inside(units, s, v)
  PROVE  Inside(units, u, v)
<1>1. /\ Len(units) \in Nat /\ DOMAIN units = 1 .. Len(units)
      /\ s \in DOMAIN units /\ units[s].up = u /\ s <= v
  BY DEF List, Subunits, Inside
<1>2. u < s /\ s # 1
  BY <1>1 DEF DocumentOrder
<1>3. ASSUME NEW w \in (u + 1) .. v PROVE units[w].up >= u
  <2>1. w \in DOMAIN units /\ w # 1
    BY <1>1, <1>2
  <2>2. CASE w < s
    <3>1. w \in (units[s].up + 1) .. (s - 1)
      BY <1>1, <1>2, <2>2
    <3>2. QED
      BY <1>1, <3>1 DEF DocumentOrder
  <2>3. CASE w = s
    BY <1>1, <2>3
  <2>4. CASE w > s
    <3>1. w \in (s + 1) .. v
      BY <1>1, <2>4
    <3>2. units[w].up >= s
      BY <3>1 DEF Inside
    <3>3. units[w].up \in 1 .. (w - 1)
      BY <1>1, <2>1 DEF DocumentOrder
    <3>4. QED
      BY <1>1, <1>2, <3>2, <3>3
  <2>5. QED
    BY <1>1, <2>2, <2>3, <2>4
<1>4. QED
  BY <1>1, <1>2, <1>3 DEF Inside

\* What is inside of an earlier subunit comes before the later one.
LEMMA SubunitsApart ==
  ASSUME NEW units, List(units), DocumentOrder(units), NEW u \in DOMAIN units,
         NEW s \in Subunits(units, u), NEW t \in Subunits(units, u), s < t,
         NEW v \in DOMAIN units, Inside(units, s, v)
  PROVE  v < t
<1>1. /\ Len(units) \in Nat /\ DOMAIN units = 1 .. Len(units)
      /\ s \in DOMAIN units /\ t \in DOMAIN units
      /\ units[s].up = u /\ units[t].up = u
  BY DEF List, Subunits
<1>2. u < s
  BY <1>1 DEF DocumentOrder
<1>3. CASE t <= v
  <2>1. t \in (s + 1) .. v
    BY <1>1, <1>3
  <2>2. units[t].up >= s
    BY <2>1 DEF Inside
  <2>3. QED
    BY <1>1, <1>2, <2>2
<1>4. QED
  BY <1>1, <1>3

\* What TagsAbove makes of a unit.
Gather(units, tag, above, u) ==
  (IF Has(units, u, tag) THEN <<units[u].tags[tag]>> ELSE <<>>)
    \o (IF units[u].up = 0 THEN <<>> ELSE above[units[u].up])

LEMMA AboveExists ==
  ASSUME NEW units, List(units), DocumentOrder(units), NEW tag
  PROVE  \E f : f = [u \in DOMAIN units |-> Gather(units, tag, f, u)]
<1> DEFINE n == Len(units)
           To(k) == 1 .. k
           Exists(k) == \E f : f = [u \in To(k) |-> Gather(units, tag, f, u)]
           S == {k \in 0 .. n : Exists(k)}
<1>0. n \in Nat /\ DOMAIN units = 1 .. n
  BY DEF List
<1>1. 0 \in S
  <2>1. To(0) = {}
    OBVIOUS
  <2>2. [u \in To(0) |-> 0] = [u \in To(0) |-> Gather(units, tag, [v \in To(0) |-> 0], u)]
    BY <2>1
  <2>3. Exists(0)
    <3> HIDE DEF To
    <3>1. QED
      BY <2>2
  <2> HIDE DEF Exists
  <2>4. QED
    BY <1>0, <2>3
<1>2. ASSUME NEW k \in 0 .. (n - 1), Exists(k) PROVE Exists(k + 1)
  <2>1. PICK f : f = [u \in To(k) |-> Gather(units, tag, f, u)]
    BY <1>2
  <2> DEFINE g == [u \in To(k + 1) |-> IF u <= k THEN f[u] ELSE Gather(units, tag, f, u)]
  <2>2. \A u \in To(k + 1) : g[u] = Gather(units, tag, f, u)
    BY <2>1
  <2>3. ASSUME NEW u \in To(k + 1), units[u].up # 0 PROVE f[units[u].up] = g[units[u].up]
    <3>1. u \in DOMAIN units /\ u \in Nat
      BY <1>0
    <3>2. units[u].up \in 1 .. (u - 1)
      BY <2>3, <3>1 DEF DocumentOrder
    <3>3. QED
      BY <1>0, <3>1, <3>2
  <2>4. \A u \in To(k + 1) : g[u] = Gather(units, tag, g, u)
    <3> HIDE DEF g
    <3>1. QED
      BY <2>2, <2>3 DEF Gather
  <2>5. g = [u \in To(k + 1) |-> Gather(units, tag, g, u)]
    BY <2>4
  <2>6. QED
    BY <2>5
<1>3. 0 .. n \subseteq S
  <2>1. \A k \in 0 .. (n - 1) : k \in S => k + 1 \in S
    <3> HIDE DEF Exists
    <3>1. QED
      BY <1>0, <1>2
  <2> HIDE DEF S
  <2>2. QED
    BY <1>0, <1>1, <2>1, UpTo
<1>4. QED
  BY <1>0, <1>3

LEMMA AboveDefined ==
  ASSUME NEW units, List(units), DocumentOrder(units), NEW tag, NEW u \in DOMAIN units
  PROVE  TagsAbove(units, u, tag)
           = (IF Has(units, u, tag) THEN <<units[u].tags[tag]>> ELSE <<>>)
               \o (IF units[u].up = 0 THEN <<>> ELSE TagsAbove(units, units[u].up, tag))
<1> DEFINE above == CHOOSE f : f = [v \in DOMAIN units |-> Gather(units, tag, f, v)]
<1>1. above = [v \in DOMAIN units |-> Gather(units, tag, above, v)]
  <2>1. \E f : f = [v \in DOMAIN units |-> Gather(units, tag, f, v)]
    BY AboveExists
  <2>2. QED
    BY <2>1, Zenon
<1>2. \A v : TagsAbove(units, v, tag) = above[v]
  BY DEF TagsAbove, Gather
<1> HIDE DEF above
<1>3. above[u] = Gather(units, tag, above, u)
  BY <1>1
<1>4. QED
  BY <1>2, <1>3 DEF Gather

LEMMA FromTheRoot ==
  ASSUME NEW units, List(units), DocumentOrder(units),
         NEW S, \A u \in DOMAIN units : units[u].up \in S \cup {0} => u \in S
  PROVE  DOMAIN units \subseteq S
<1> DEFINE missing == DOMAIN units \ S
<1> SUFFICES ASSUME missing # {} PROVE FALSE
  OBVIOUS
<1>1. Min(missing) \in missing /\ \A y \in missing : Min(missing) <= y
  <2>1. missing \subseteq Nat
    BY DEF List
  <2> HIDE DEF missing
  <2>2. QED
    BY <2>1, LeastElement
<1>2. PICK m \in missing : \A y \in missing : m <= y
  BY <1>1
<1>3. m \in 1 .. Len(units) /\ Len(units) \in Nat /\ DOMAIN units = 1 .. Len(units)
  BY DEF List
<1>4. units[m].up = 0 \/ (units[m].up \in DOMAIN units /\ units[m].up < m)
  BY <1>3 DEF DocumentOrder
<1>5. units[m].up \in S \cup {0}
  BY <1>2, <1>3, <1>4
<1>6. QED
  BY <1>5

LEMMA AboveValues ==
  ASSUME NEW units, List(units), DocumentOrder(units), NEW tag, NEW u \in DOMAIN units
  PROVE  TagsAbove(units, u, tag) \in Seq(Values(units, tag))
<1> DEFINE T == Values(units, tag)
           S == {v \in DOMAIN units : TagsAbove(units, v, tag) \in Seq(T)}
<1>1. ASSUME NEW v \in DOMAIN units, units[v].up \in S \cup {0} PROVE v \in S
  <2> DEFINE own == IF Has(units, v, tag) THEN <<units[v].tags[tag]>> ELSE <<>>
             rest == IF units[v].up = 0 THEN <<>> ELSE TagsAbove(units, units[v].up, tag)
  <2>1. TagsAbove(units, v, tag) = own \o rest
    BY AboveDefined
  <2>2. own \in Seq(T)
    <3>1. units[v].tags[tag] \in T
      BY DEF Values
    <3> HIDE DEF T
    <3>2. QED
      BY <3>1
  <2>3. rest \in Seq(T)
    BY <1>1
  <2> HIDE DEF own, rest, T
  <2>4. QED
    BY <2>1, <2>2, <2>3, ConcatProperties
<1>2. DOMAIN units \subseteq S
  <2> HIDE DEF S
  <2>1. QED
    BY <1>1, FromTheRoot
<1>3. QED
  BY <1>2

\* The units with the address that are u or in it.
Matches(units, ip, u) == {v \in UnitsWith(units, ip) : Inside(units, u, v)}

\* The walk of a unit finds the first of them, and collects from there up to the unit.
WalkRight(units, ip, tag, f, u) ==
  LET rest == IF units[u].up = 0 THEN <<>> ELSE TagsAbove(units, units[u].up, tag)
  IN  /\ f[u].found = (Matches(units, ip, u) # {})
      /\ f[u].found =>
           TagsAbove(units, Min(Matches(units, ip, u)), tag) = f[u].vals \o rest

LEMMA WalkOfMatch ==
  ASSUME NEW units, List(units), DocumentOrder(units), NEW ip, NEW tag, NEW f,
         NEW u \in UnitsWith(units, ip), f[u] = Collect(units, ip, tag, f, u)
  PROVE  WalkRight(units, ip, tag, f, u)
<1> DEFINE M == Matches(units, ip, u)
<1>1. u \in DOMAIN units /\ DOMAIN units \subseteq Nat
  BY DEF List, UnitsWith
<1>2. u \in M /\ (\A v \in M : u <= v) /\ M \subseteq Nat
  BY <1>1 DEF Matches, Inside, UnitsWith
<1>3. Min(M) = u
  <2> HIDE DEF M
  <2>1. Min(M) \in M /\ \A y \in M : Min(M) <= y
    BY <1>2, LeastElement
  <2>2. Min(M) <= u /\ u <= Min(M)
    BY <1>2, <2>1
  <2>3. Min(M) \in Nat /\ u \in Nat
    BY <1>2, <2>1
  <2>4. QED
    BY <2>2, <2>3
<1>4. f[u] = [found |-> TRUE,
              vals |-> IF Has(units, u, tag) THEN <<units[u].tags[tag]>> ELSE <<>>]
  BY DEF Collect, UnitsWith
<1>5. TagsAbove(units, u, tag)
        = f[u].vals \o (IF units[u].up = 0 THEN <<>> ELSE TagsAbove(units, units[u].up, tag))
  <2>1. f[u].vals = IF Has(units, u, tag) THEN <<units[u].tags[tag]>> ELSE <<>>
    BY <1>4
  <2>2. TagsAbove(units, u, tag)
          = (IF Has(units, u, tag) THEN <<units[u].tags[tag]>> ELSE <<>>)
              \o (IF units[u].up = 0 THEN <<>> ELSE TagsAbove(units, units[u].up, tag))
    BY <1>1, AboveDefined
  <2>3. QED
    BY <2>1, <2>2, Zenon
<1>6. f[u].found = TRUE /\ M # {}
  BY <1>2, <1>4
<1>7. QED
  BY <1>3, <1>5, <1>6 DEF WalkRight

LEMMA MatchesOfSubunits ==
  ASSUME NEW units, List(units), DocumentOrder(units), NEW ip,
         NEW u \in DOMAIN units, u \notin UnitsWith(units, ip)
  PROVE  /\ \A v \in Matches(units, ip, u) :
              \E s \in Subunits(units, u) : v \in Matches(units, ip, s)
         /\ \A s \in Subunits(units, u) :
              Matches(units, ip, s) \subseteq Matches(units, ip, u)
<1>1. ASSUME NEW v \in Matches(units, ip, u)
      PROVE  \E s \in Subunits(units, u) : v \in Matches(units, ip, s)
  <2>1. v \in DOMAIN units /\ Inside(units, u, v) /\ v # u
    BY DEF Matches, UnitsWith
  <2>2. QED
    BY <2>1, InsideOne DEF Matches
<1>2. ASSUME NEW s \in Subunits(units, u), NEW v \in Matches(units, ip, s)
      PROVE  v \in Matches(units, ip, u)
  <2>1. v \in DOMAIN units /\ Inside(units, s, v)
    BY DEF Matches, UnitsWith
  <2>2. QED
    BY <2>1, InsideParent DEF Matches
<1>3. QED
  BY <1>1, <1>2

LEMMA WalkOfSubunits ==
  ASSUME NEW units, List(units), DocumentOrder(units), NEW ip, NEW tag,
         NEW f, NEW u \in DOMAIN units, u \notin UnitsWith(units, ip),
         f[u] = Collect(units, ip, tag, f, u),
         \A s \in Subunits(units, u) : /\ f[s].vals \in Seq(Values(units, tag))
                                       /\ WalkRight(units, ip, tag, f, s)
  PROVE  WalkRight(units, ip, tag, f, u)
<1> DEFINE M(v) == Matches(units, ip, v)
           hits == {s \in Subunits(units, u) : f[s].found}
           own == IF Has(units, u, tag) THEN <<units[u].tags[tag]>> ELSE <<>>
           rest == IF units[u].up = 0 THEN <<>> ELSE TagsAbove(units, units[u].up, tag)
           T == Values(units, tag)
<1>1. DOMAIN units \subseteq Nat /\ Subunits(units, u) \subseteq DOMAIN units
  BY DEF List, Subunits
<1>2. ~ (HasNetwork(units, u) /\ ip \in Addresses(NetworkOf(units, u)))
  BY DEF UnitsWith
<1>3. \A s \in Subunits(units, u) : f[s].found = (M(s) # {})
  BY DEF WalkRight
<1>4. CASE hits = {}
  <2>1. f[u] = [found |-> FALSE, vals |-> <<>>]
    BY <1>2, <1>4 DEF Collect
  <2>2. M(u) = {}
    BY <1>3, <1>4, MatchesOfSubunits
  <2>3. f[u].found = FALSE
    BY <2>1
  <2>4. QED
    BY <2>2, <2>3 DEF WalkRight
<1>5. CASE hits # {}
  <2> DEFINE s == Min(hits)
             m == Min(M(s))
  <2>1. s \in hits /\ \A t \in hits : s <= t
    <3>1. hits \subseteq Nat
      BY <1>1
    <3> HIDE DEF hits
    <3>2. QED
      BY <1>5, <3>1, LeastElement
  <2>2. s \in Subunits(units, u) /\ s \in DOMAIN units /\ s \in Nat /\ units[s].up = u
    BY <1>1, <2>1 DEF Subunits
  <2>3. f[u] = [found |-> TRUE, vals |-> f[s].vals \o own]
    BY <1>2, <1>5 DEF Collect
  <2> HIDE DEF s
  <2>4. \A v \in DOMAIN units : M(v) \subseteq Nat /\ M(v) \subseteq DOMAIN units
    BY <1>1 DEF Matches, UnitsWith
  <2>5. M(s) # {}
    BY <1>3, <2>1, <2>2
  <2>6. m \in M(s) /\ \A v \in M(s) : m <= v
    BY <2>2, <2>4, <2>5, LeastElement
  <2>7. m \in M(u)
    BY <2>2, <2>6, MatchesOfSubunits
  <2>8. ASSUME NEW v \in M(u) PROVE m <= v
    <3>1. PICK t \in Subunits(units, u) : v \in M(t)
      BY MatchesOfSubunits
    <3>2. t \in hits /\ s <= t /\ t \in Nat /\ v \in Nat /\ m \in Nat
      BY <1>1, <1>3, <2>1, <2>2, <2>4, <2>6, <3>1
    <3>3. CASE s < t
      <4>1. m < t
        BY <2>2, <2>4, <2>6, <3>3, SubunitsApart DEF Matches
      <4>2. t <= v
        BY <3>1 DEF Matches, Inside
      <4>3. QED
        BY <3>2, <4>1, <4>2
    <3>4. CASE s = t
      BY <2>6, <3>1, <3>4
    <3>5. QED
      BY <2>2, <3>2, <3>3, <3>4
  <2>9. Min(M(u)) = m
    <3>1. Min(M(u)) \in M(u) /\ \A v \in M(u) : Min(M(u)) <= v
      BY <2>4, <2>7, LeastElement
    <3>2. m \in Nat /\ Min(M(u)) \in Nat
      BY <2>4, <2>7, <3>1
    <3>3. QED
      BY <2>7, <2>8, <3>1, <3>2
  <2>10. TagsAbove(units, m, tag) = f[s].vals \o TagsAbove(units, u, tag)
    <3>1. u # 0
      BY DEF List
    <3>2. QED
      BY <2>1, <2>2, <3>1 DEF WalkRight
  <2>11. TagsAbove(units, u, tag) = own \o rest
    BY AboveDefined
  <2>12. f[s].vals \in Seq(T) /\ own \in Seq(T) /\ rest \in Seq(T)
    <3>1. f[s].vals \in Seq(T)
      BY <2>2
    <3>2. units[u].tags[tag] \in T
      BY DEF Values
    <3>3. rest \in Seq(T)
      <4>1. units[u].up = 0 \/ units[u].up \in DOMAIN units
        BY DEF DocumentOrder, List
      <4>2. QED
        BY <4>1, AboveValues
    <3> HIDE DEF T
    <3>4. own \in Seq(T)
      BY <3>2
    <3>5. QED
      BY <3>1, <3>3, <3>4
  <2> HIDE DEF own, rest, T, m, hits
  <2>13. (f[s].vals \o own) \o rest = f[s].vals \o (own \o rest)
    <3>1. \A x, y, z \in Seq(T) : (x \o y) \o z = x \o (y \o z)
      BY ConcatAssociative
    <3>2. QED
      BY <2>12, <3>1, Zenon
  <2>14. TagsAbove(units, m, tag) = (f[s].vals \o own) \o rest
    BY <2>10, <2>11, <2>13, Zenon
  <2>15. f[u].found = TRUE /\ f[u].vals = f[s].vals \o own
    BY <2>3
  <2>16. TagsAbove(units, Min(M(u)), tag) = f[u].vals \o rest
    BY <2>9, <2>14, <2>15, Zenon
  <2>17. QED
    BY <2>7, <2>15, <2>16 DEF WalkRight, rest
<1>6. QED
  BY <1>4, <1>5

LEMMA WalkFollowsUnits ==
  ASSUME NEW units, List(units), units # <<>>, DocumentOrder(units), NEW ip, NEW tag
  PROVE  LET U == UnitsWith(units, ip)
             walk == AccumulateTags(units, ip, tag)
         IN  /\ walk.found = (U # {})
             /\ walk.found => walk.vals = TagsAbove(units, Min(U), tag)
<1>1. PICK f : /\ f = [u \in DOMAIN units |-> Collect(units, ip, tag, f, u)]
               /\ AccumulateTags(units, ip, tag) = f[1]
  BY WalkFromRoot
<1> DEFINE S == {u \in DOMAIN units : WalkRight(units, ip, tag, f, u)}
<1>2. ASSUME NEW u \in DOMAIN units, Subunits(units, u) \subseteq S PROVE u \in S
  <2>1. f = [v \in DOMAIN units |-> Collect(units, ip, tag, f, v)]
    BY <1>1
  <2>2. f[u] = Collect(units, ip, tag, f, u)
    BY <2>1
  <2>3. CASE u \in UnitsWith(units, ip)
    BY <2>2, <2>3, WalkOfMatch
  <2>4. CASE u \notin UnitsWith(units, ip)
    <3>1. \A s \in Subunits(units, u) : /\ f[s].vals \in Seq(Values(units, tag))
                                        /\ WalkRight(units, ip, tag, f, s)
      <4>1. \A v \in DOMAIN units : f[v].vals \in Seq(Values(units, tag))
        BY <2>1, WalkValues
      <4>2. QED
        BY <1>2, <4>1
    <3>2. QED
      BY <2>2, <2>4, <3>1, WalkOfSubunits
  <2>5. QED
    BY <2>3, <2>4
<1>3. DOMAIN units \subseteq S
  <2> HIDE DEF S
  <2>1. QED
    BY <1>2, FromTheLeaves
<1>4. 1 \in DOMAIN units /\ units[1].up = 0
  BY DEF List, DocumentOrder
<1>5. Matches(units, ip, 1) = UnitsWith(units, ip)
  <2>1. ASSUME NEW v \in DOMAIN units PROVE Inside(units, 1, v)
    <3>1. ASSUME NEW w \in 2 .. v PROVE units[w].up >= 1
      <4>1. w \in DOMAIN units /\ w # 1 /\ w \in Nat
        BY DEF List
      <4>2. units[w].up \in 1 .. (w - 1)
        BY <4>1 DEF DocumentOrder
      <4>3. QED
        BY <4>1, <4>2
    <3>2. QED
      BY <3>1 DEF Inside, List
  <2>2. QED
    BY <2>1 DEF Matches, UnitsWith
<1>6. /\ f[1].found = (UnitsWith(units, ip) # {})
      /\ f[1].found => TagsAbove(units, Min(UnitsWith(units, ip)), tag) = f[1].vals \o <<>>
  BY <1>3, <1>4, <1>5 DEF WalkRight
<1>7. f[1].vals \o <<>> = f[1].vals
  <2>1. f = [v \in DOMAIN units |-> Collect(units, ip, tag, f, v)]
    BY <1>1
  <2>2. f[1].vals \in Seq(Values(units, tag))
    BY <1>4, <2>1, WalkValues
  <2>3. QED
    BY <2>2, ConcatEmptySeq
<1>8. QED
  BY <1>1, <1>6, <1>7

\* The profile nearest to a unit.
Nearest(units, u) == Head(TagsAbove(units, u, "bcfg2_profile") \o <<"workstation">>)

LEMMA NearestDefined ==
  ASSUME NEW units, List(units), DocumentOrder(units), NEW u \in DOMAIN units
  PROVE  Nearest(units, u)
           = IF Has(units, u, "bcfg2_profile") THEN units[u].tags["bcfg2_profile"]
             ELSE IF units[u].up = 0 THEN "workstation" ELSE Nearest(units, units[u].up)
<1> DEFINE T == Values(units, "bcfg2_profile") \cup {"workstation"}
           own == IF Has(units, u, "bcfg2_profile")
                  THEN <<units[u].tags["bcfg2_profile"]>> ELSE <<>>
           rest == IF units[u].up = 0 THEN <<>>
                   ELSE TagsAbove(units, units[u].up, "bcfg2_profile")
           last == <<"workstation">>
<1>1. TagsAbove(units, u, "bcfg2_profile") = own \o rest
  BY AboveDefined
<1>2. rest \in Seq(T)
  <2>1. units[u].up = 0 \/ units[u].up \in DOMAIN units
    BY DEF DocumentOrder, List
  <2>2. \A v \in DOMAIN units :
           TagsAbove(units, v, "bcfg2_profile") \in Seq(Values(units, "bcfg2_profile"))
    BY AboveValues
  <2>3. Seq(Values(units, "bcfg2_profile")) \subseteq Seq(T)
    OBVIOUS
  <2>4. <<>> \in Seq(T)
    OBVIOUS
  <2> HIDE DEF T
  <2>5. QED
    BY <2>1, <2>2, <2>3, <2>4
<1>3. last \in Seq(T)
  OBVIOUS
<1>4. CASE Has(units, u, "bcfg2_profile")
  <2> DEFINE t == units[u].tags["bcfg2_profile"]
  <2>1. own = <<t>> /\ t \in T
    BY <1>4 DEF Values
  <2> HIDE DEF T, own, rest, last, t
  <2>2. <<t>> \in Seq(T) /\ Len(<<t>>) = 1 /\ <<t>>[1] = t
    BY <2>1
  <2>3. /\ <<t>> \o rest \in Seq(T)
        /\ Len(<<t>> \o rest) = 1 + Len(rest)
        /\ (<<t>> \o rest)[1] = t
    BY <1>2, <2>2, ConcatProperties
  <2>4. /\ (<<t>> \o rest) \o last \in Seq(T)
        /\ ((<<t>> \o rest) \o last)[1] = t
    BY <1>2, <1>3, <2>3, ConcatProperties
  <2>5. Head((<<t>> \o rest) \o last) = t
    BY <2>4
  <2>6. Nearest(units, u) = t
    BY <1>1, <2>1, <2>5 DEF Nearest, last
  <2>7. QED
    BY <1>4, <2>6 DEF t
<1>5. CASE ~ Has(units, u, "bcfg2_profile")
  <2>1. TagsAbove(units, u, "bcfg2_profile") = rest
    <3>1. own = <<>>
      BY <1>5
    <3> HIDE DEF T, own, rest
    <3>2. QED
      BY <1>1, <1>2, <3>1, ConcatEmptySeq
  <2>2. units[u].up = 0 => Nearest(units, u) = "workstation"
    <3>1. <<>> \o last = last
      BY <1>3, ConcatEmptySeq
    <3>2. QED
      BY <2>1, <3>1 DEF Nearest
  <2>3. units[u].up # 0 => Nearest(units, u) = Nearest(units, units[u].up)
    BY <2>1 DEF Nearest
  <2>4. QED
    BY <1>5, <2>2, <2>3
<1>6. QED
  BY <1>4, <1>5

\* fill_netclasses inherits the nearest profile.
Inherit(units, profile, u) ==
  IF Has(units, u, "bcfg2_profile") THEN units[u].tags["bcfg2_profile"]
  ELSE IF units[u].up = 0 THEN "workstation" ELSE profile[units[u].up]

LEMMA ProfilesInherited ==
  ASSUME NEW units, List(units), DocumentOrder(units)
  PROVE  LET withNet == {u \in DOMAIN units : HasNetwork(units, u)}
         IN  FillNetclasses(units) =
               [N \in {NetworkOf(units, u) : u \in withNet} |->
                  Nearest(units, Max({u \in withNet : NetworkOf(units, u) = N}))]
<1> DEFINE profile == CHOOSE f : f = [u \in DOMAIN units |-> Inherit(units, f, u)]
           withNet == {u \in DOMAIN units : HasNetwork(units, u)}
           of(N) == {u \in withNet : NetworkOf(units, u) = N}
<1>1. profile = [u \in DOMAIN units |-> Inherit(units, profile, u)]
  <2> DEFINE near == [u \in DOMAIN units |-> Nearest(units, u)]
  <2>1. ASSUME NEW u \in DOMAIN units PROVE near[u] = Inherit(units, near, u)
    <3>1. units[u].up = 0 \/ units[u].up \in DOMAIN units
      BY DEF DocumentOrder, List
    <3>2. QED
      BY <3>1, NearestDefined DEF Inherit
  <2>2. near = [u \in DOMAIN units |-> Inherit(units, near, u)]
    BY <2>1
  <2>3. \E f : f = [u \in DOMAIN units |-> Inherit(units, f, u)]
    BY <2>2
  <2>4. QED
    BY <2>3, Zenon
<1>2. FillNetclasses(units) = [N \in {NetworkOf(units, u) : u \in withNet} |-> profile[Max(of(N))]]
  BY DEF FillNetclasses, Inherit
<1> HIDE DEF profile
<1>3. \A u \in DOMAIN units : profile[u] = Nearest(units, u)
  <2> DEFINE S == {u \in DOMAIN units : profile[u] = Nearest(units, u)}
  <2>1. ASSUME NEW u \in DOMAIN units, units[u].up \in S \cup {0} PROVE u \in S
    <3>1. profile[u] = Inherit(units, profile, u)
      BY <1>1
    <3>2. units[u].up # 0 => profile[units[u].up] = Nearest(units, units[u].up)
      BY <2>1
    <3>3. QED
      BY <3>1, <3>2, NearestDefined DEF Inherit
  <2>2. DOMAIN units \subseteq S
    <3> HIDE DEF S
    <3>1. QED
      BY <2>1, FromTheRoot
  <2>3. QED
    BY <2>2
<1>4. ASSUME NEW N \in {NetworkOf(units, u) : u \in withNet} PROVE Max(of(N)) \in DOMAIN units
  <2>1. of(N) # {} /\ of(N) \subseteq DOMAIN units
    OBVIOUS
  <2>2. Len(units) \in Nat /\ DOMAIN units = 1 .. Len(units)
    BY DEF List
  <2> HIDE DEF of
  <2>3. QED
    BY <2>1, <2>2, GreatestElement
<1>5. QED
  BY <1>2, <1>3, <1>4

LEMMA ProfileOfAddress ==
  ASSUME NEW units, List(units), DocumentOrder(units), UnitsDisjoint(units),
         NEW ip, NEW u \in UnitsWith(units, ip)
  PROVE  LET netclasses == FillNetclasses(units)
         IN  {netclasses[N] : N \in {M \in DOMAIN netclasses : ip \in Addresses(M)}}
               = {Nearest(units, u)}
<1> DEFINE withNet == {v \in DOMAIN units : HasNetwork(units, v)}
           of(N) == {v \in withNet : NetworkOf(units, v) = N}
           nets == {NetworkOf(units, v) : v \in withNet}
<1>1. u \in withNet /\ ip \in Addresses(NetworkOf(units, u)) /\ u \in DOMAIN units
  BY DEF UnitsWith
<1>2. \A v \in withNet : ip \in Addresses(NetworkOf(units, v)) => v = u
  BY <1>1 DEF UnitsDisjoint
<1>3. of(NetworkOf(units, u)) = {u}
  BY <1>1, <1>2
<1>4. Max({u}) = u
  <2>1. Len(units) \in Nat /\ {u} \subseteq 1 .. Len(units)
    BY <1>1 DEF List
  <2>2. QED
    BY <2>1, GreatestElement
<1>5. {M \in nets : ip \in Addresses(M)} = {NetworkOf(units, u)}
  BY <1>1, <1>2
<1>6. FillNetclasses(units) = [N \in nets |-> Nearest(units, Max(of(N)))]
  BY ProfilesInherited
<1>7. FillNetclasses(units)[NetworkOf(units, u)] = Nearest(units, u)
  BY <1>1, <1>3, <1>4, <1>6
<1>8. DOMAIN FillNetclasses(units) = nets
  BY <1>6
<1> HIDE DEF nets
<1>9. QED
  BY <1>5, <1>7, <1>8

\* What a host has been given when the organization has been read.
GivenInv ==
  /\ pc \in {"35_organization", "40_usbdev", "done"} =>
       /\ WorkstationFault = ""
       /\ ns.workstation = FromOrganization
       /\ ns.organization_host = (FromOrganization # <<>>)
  /\ pc \in {"40_usbdev", "done"} => ns.netclasses = FillNetclasses(cfg.org)

LEMMA GivenInductive == NamesInv /\ GivenInv /\ [Next]_vars => GivenInv'
<1> SUFFICES ASSUME NamesInv, GivenInv, [Next]_vars PROVE GivenInv'
  OBVIOUS
<1> DEFINE Same == /\ WorkstationFault' = WorkstationFault
                   /\ FromOrganization' = FromOrganization
<1>1. cfg' = cfg /\ ns'["ip_addr"] = ns["ip_addr"] => Same
  BY DEF WorkstationFault, FromOrganization, Walk, IsServer
<1> HIDE DEF Same
<1>2. CASE Networking
  <2>1. /\ pc = "30_networking" /\ cfg' = cfg
        /\ \/ pc' = "failed"
           \/ /\ pc' = "35_organization" /\ NetworkingFault = ""
              /\ ns'["ip_addr"] = ns["ip_addr"]
              /\ ns'["workstation"] = FromOrganization
              /\ ns'["organization_host"] = (FromOrganization # <<>>)
    BY <1>2 DEF Networking, Execute, Bind, Update, NamesInv, Namespace, BeforeNetworks,
                BeforeFirewall, BeforeNetworking
  <2>2. NetworkingFault = "" => WorkstationFault = ""
    BY DEF NetworkingFault
  <2>3. QED
    BY <1>1, <2>1, <2>2 DEF GivenInv, Same
<1>3. CASE OrganizationFile
  <2>1. /\ pc = "35_organization" /\ cfg' = cfg
        /\ \/ pc' = "failed"
           \/ /\ pc' = "40_usbdev"
              /\ ns'["ip_addr"] = ns["ip_addr"]
              /\ ns'["workstation"] = ns["workstation"]
              /\ ns'["organization_host"] = ns["organization_host"]
              /\ ns'["netclasses"] = FillNetclasses(cfg.org)
    BY <1>3 DEF OrganizationFile, Execute, Bind, Update, NamesInv, Namespace, BeforeNetworks,
                BeforeFirewall, BeforeNetworking, BeforeUsbdev
  <2>2. QED
    BY <1>1, <2>1 DEF GivenInv, Same
<1>4. CASE Usbdev
  <2>1. /\ pc = "40_usbdev" /\ pc' = "done" /\ cfg' = cfg
        /\ ns'["ip_addr"] = ns["ip_addr"]
        /\ ns'["workstation"] = ns["workstation"]
        /\ ns'["organization_host"] = ns["organization_host"]
        /\ ns'["netclasses"] = ns["netclasses"]
    BY <1>4 DEF Usbdev, Execute, Bind, Update, NamesInv, Namespace, BeforeNetworks,
                BeforeFirewall, BeforeNetworking, BeforeUsbdev
  <2>2. QED
    BY <1>1, <2>1 DEF GivenInv, Same
<1>5. CASE Baseparams \/ Funchosts \/ NetworksFile \/ Revzones \/ FirewallFile
  BY <1>5 DEF Baseparams, Funchosts, NetworksFile, Revzones, FirewallFile, Execute, GivenInv
<1>6. CASE UNCHANGED vars
  BY <1>1, <1>6 DEF vars, GivenInv, Same
<1>7. QED
  BY <1>2, <1>3, <1>4, <1>5, <1>6 DEF Next

\* A host is given what the first unit of the document with its address, and the units
\* around that one, say, the nearest first; and where no address is in the networks
\* of two units, the profile nearest to that unit, for any organization.
THEOREM OrganizationFollowedCorrect == Spec => []OrganizationFollowed
<1>1. Init => GivenInv
  BY DEF Init, GivenInv
<1>2. ASSUME TypeOK, NamesInv, GivenInv PROVE OrganizationFollowed
  <2>1. List(cfg.org) /\ cfg.org # <<>> /\ DocumentOrder(cfg.org)
    BY <1>2, ConfigsAssumption DEF TypeOK, WellFormed
  <2>2. WorkstationFollowsUnit
    <3> SUFFICES ASSUME Done, ~ IsServer, ns.ip_addr # NoAddr
                 PROVE  LET U == UnitsWith(cfg.org, ns.ip_addr)
                            above(tag) == TagsAbove(cfg.org, Min(U), tag)
                        IN  /\ ns.organization_host = (U # {})
                            /\ ns.organization_host =>
                                 /\ ns.workstation.ws_org_network = above("network")[1]
                                 /\ ns.workstation.ws_org_gateway = above("gateway")[1]
                                 /\ ns.workstation.ws_org_admin_group = above("admin_group")
      BY DEF WorkstationFollowsUnit
    <3> DEFINE U == UnitsWith(cfg.org, ns.ip_addr)
               above(tag) == TagsAbove(cfg.org, Min(U), tag)
    <3>1. /\ WorkstationFault = "" /\ ns.workstation = FromOrganization
          /\ ns.organization_host = (FromOrganization # <<>>)
      BY <1>2 DEF GivenInv, Done
    <3>2. \A tag : /\ Walk(tag).found = (U # {})
                   /\ Walk(tag).found => Walk(tag).vals = above(tag)
      BY <2>1, WalkFollowsUnits DEF Walk
    <3>3. CASE U = {}
      <4>1. FromOrganization = <<>>
        BY <3>2, <3>3 DEF FromOrganization
      <4>2. QED
        BY <3>1, <3>3, <4>1
    <3>4. CASE U # {}
      <4>1. FromOrganization =
              [ws_org_network     |-> Head(above("network")),
               ws_org_gateway     |-> Head(above("gateway")),
               ws_org_users_group |-> Head(above("users_group")),
               ws_org_admin_group |-> above("admin_group")]
        BY <3>2, <3>4 DEF FromOrganization
      <4>2. \A tag \in {"network", "gateway"} : above(tag) # <<>>
        BY <3>1, <3>2, <3>4 DEF WorkstationFault
      <4>3. \A tag : above(tag) \in Seq(Values(cfg.org, tag))
        <5>1. Min(U) \in DOMAIN cfg.org
          <6>1. U \subseteq Nat /\ U \subseteq DOMAIN cfg.org
            BY <2>1 DEF UnitsWith, List
          <6> HIDE DEF U
          <6>2. QED
            BY <3>4, <6>1, LeastElement
        <5> HIDE DEF U
        <5>2. QED
          BY <2>1, <5>1, AboveValues
      <4>4. \A tag \in {"network", "gateway"} : Head(above(tag)) = above(tag)[1]
        <5> HIDE DEF above
        <5>1. QED
          BY <4>2, <4>3
      <4>5. FromOrganization # <<>>
        <5>1. "ws_org_network" \in DOMAIN FromOrganization
          BY <4>1
        <5>2. DOMAIN <<>> = {}
          OBVIOUS
        <5>3. QED
          BY <5>1, <5>2
      <4> HIDE DEF above
      <4>6. /\ ns.workstation.ws_org_network = above("network")[1]
            /\ ns.workstation.ws_org_gateway = above("gateway")[1]
            /\ ns.workstation.ws_org_admin_group = above("admin_group")
        <5>1. /\ FromOrganization.ws_org_network = Head(above("network"))
              /\ FromOrganization.ws_org_gateway = Head(above("gateway"))
              /\ FromOrganization.ws_org_admin_group = above("admin_group")
          BY <4>1
        <5>2. QED
          BY <3>1, <4>4, <5>1
      <4>7. QED
        BY <3>1, <3>4, <4>5, <4>6 DEF above
    <3>5. QED
      BY <3>3, <3>4
  <2>3. ProfileFollowsUnit
    <3>1. Done => ns.netclasses = FillNetclasses(cfg.org)
      BY <1>2 DEF GivenInv, Done
    <3>2. QED
      BY <2>1, <3>1, ProfileOfAddress DEF ProfileFollowsUnit, Nearest
  <2>4. QED
    BY <2>2, <2>3 DEF OrganizationFollowed
<1>3. QED
  BY <1>1, <1>2, GivenInductive, RenderingTypeCorrect, NamesCorrect, PTL DEF Spec

-----------------------------------------------------------------------------
(* noteaddr *)

\* What is noted after the first i robots.
Noted(robots, notes, i) ==
  IF i = 0 THEN [numbering |-> <<>>, outgoing |-> <<>>, incoming |-> <<>>]
  ELSE NoteAddr(notes[i - 1], robots[i])

LEMMA NotesExist ==
  ASSUME NEW robots, List(robots)
  PROVE  \E f : f = [i \in 0 .. Len(robots) |-> Noted(robots, f, i)]
<1> DEFINE n == Len(robots)
           Exists(k) == \E f : f = [i \in 0 .. k |-> Noted(robots, f, i)]
           S == {k \in 0 .. n : Exists(k)}
<1>0. n \in Nat
  BY DEF List
<1>1. 0 \in S
  <2> DEFINE f == [i \in 0 .. 0 |-> Noted(robots, <<>>, i)]
  <2>1. f = [i \in 0 .. 0 |-> Noted(robots, f, i)]
    <3>1. \A i \in 0 .. 0 : Noted(robots, <<>>, i) = Noted(robots, f, i)
      BY DEF Noted
    <3>2. QED
      BY <3>1
  <2>2. Exists(0)
    BY <2>1
  <2> HIDE DEF Exists
  <2>3. QED
    BY <1>0, <2>2
<1>2. ASSUME NEW k \in 0 .. (n - 1), Exists(k) PROVE Exists(k + 1)
  <2>1. PICK f : f = [i \in 0 .. k |-> Noted(robots, f, i)]
    BY <1>2
  <2> DEFINE g == [i \in 0 .. (k + 1) |-> IF i <= k THEN f[i] ELSE Noted(robots, f, i)]
  <2>2. \A i \in 0 .. (k + 1) : g[i] = Noted(robots, f, i)
    BY <2>1
  <2>3. \A i \in 0 .. (k + 1) : i # 0 => f[i - 1] = g[i - 1]
    OBVIOUS
  <2>4. \A i \in 0 .. (k + 1) : g[i] = Noted(robots, g, i)
    <3> HIDE DEF g
    <3>1. QED
      BY <2>2, <2>3 DEF Noted
  <2>5. g = [i \in 0 .. (k + 1) |-> Noted(robots, g, i)]
    BY <2>4
  <2>6. QED
    BY <2>5
<1>3. 0 .. n \subseteq S
  <2>1. \A k \in 0 .. (n - 1) : k \in S => k + 1 \in S
    <3> HIDE DEF Exists
    <3>1. QED
      BY <1>0, <1>2
  <2> HIDE DEF S
  <2>2. QED
    BY <1>0, <1>1, <2>1, UpTo
<1>4. QED
  BY <1>0, <1>3

LEMMA NotesDefined ==
  ASSUME NEW robots, List(robots)
  PROVE  \E f : /\ \A i \in 0 .. Len(robots) : f[i] = Noted(robots, f, i)
                /\ Robots(robots) = f[Len(robots)]
<1> DEFINE noted == CHOOSE f : f = [i \in 0 .. Len(robots) |-> Noted(robots, f, i)]
<1>1. noted = [i \in 0 .. Len(robots) |-> Noted(robots, noted, i)]
  <2>1. \E f : f = [i \in 0 .. Len(robots) |-> Noted(robots, f, i)]
    BY NotesExist
  <2>2. QED
    BY <2>1, Zenon
<1>2. Robots(robots) = noted[Len(robots)]
  BY DEF Robots, Noted
<1> HIDE DEF noted
<1>3. \A i \in 0 .. Len(robots) : noted[i] = Noted(robots, noted, i)
  BY <1>1
<1>4. QED
  BY <1>2, <1>3

\* The servers of some robots have numbers of their own, the least ones.
WellNumbered(robots, i, numbering) ==
  /\ DOMAIN numbering = {robots[j].ip : j \in 1 .. i}
  /\ IsFiniteSet(DOMAIN numbering)
  /\ \A a \in DOMAIN numbering :
        numbering[a] \in Nat /\ numbering[a] < Cardinality(DOMAIN numbering)
  /\ \A a, b \in DOMAIN numbering : numbering[a] = numbering[b] => a = b

\* robot j is the last one of the first i with this name and direction
LastWith(robots, i, flows, j, n) ==
  /\ n \in RobotNames(robots[j])
  /\ robots[j].flow \in flows
  /\ \A k \in 1 .. i : (n \in RobotNames(robots[k]) /\ robots[k].flow \in flows) => k <= j

\* Every name has the number of the server of its last robot.
LeadsTo(robots, i, numbering, numbers, flows) ==
  \A j \in 1 .. i : \A n : LastWith(robots, i, flows, j, n) =>
     n \in DOMAIN numbers /\ numbers[n] = numbering[robots[j].ip]

Sending == {"", "sendrecv", "sendonly"}
Receiving == {"", "sendrecv", "recvonly"}

NotesFollow(robots, i, notes) ==
  /\ WellNumbered(robots, i, notes.numbering)
  /\ LeadsTo(robots, i, notes.numbering, notes.outgoing, Sending)
  /\ LeadsTo(robots, i, notes.numbering, notes.incoming, Receiving)

LEMMA NumberedNext ==
  ASSUME NEW robots, NEW i \in Nat, NEW numbering, WellNumbered(robots, i, numbering)
  PROVE  LET next == Numbered(numbering, robots[i + 1].ip)
         IN  /\ WellNumbered(robots, i + 1, next)
             /\ \A a \in DOMAIN numbering : next[a] = numbering[a]
             /\ robots[i + 1].ip \in DOMAIN next
<1> DEFINE ip == robots[i + 1].ip
           next == Numbered(numbering, ip)
           size == Cardinality(DOMAIN numbering)
<1>0. {robots[j].ip : j \in 1 .. (i + 1)} = DOMAIN numbering \cup {ip}
  <2>1. \A j \in 1 .. (i + 1) : j \in 1 .. i \/ j = i + 1
    OBVIOUS
  <2>2. \A j \in 1 .. i : j \in 1 .. (i + 1)
    OBVIOUS
  <2>3. i + 1 \in 1 .. (i + 1)
    OBVIOUS
  <2>4. QED
    BY <2>1, <2>2, <2>3 DEF WellNumbered
<1>1. CASE ip \in DOMAIN numbering
  <2>1. next = numbering
    BY <1>1 DEF Numbered
  <2>2. QED
    BY <1>0, <1>1, <2>1 DEF WellNumbered
<1>2. CASE ip \notin DOMAIN numbering
  <2>1. /\ DOMAIN next = DOMAIN numbering \cup {ip}
        /\ next[ip] = size
        /\ \A a \in DOMAIN numbering : next[a] = numbering[a]
    BY <1>2 DEF Numbered, Update
  <2>2. size \in Nat
    BY FS_CardinalityType DEF WellNumbered
  <2> HIDE DEF next
  <2>3. IsFiniteSet(DOMAIN next) /\ Cardinality(DOMAIN next) = size + 1
    <3>1. IsFiniteSet(DOMAIN numbering)
      BY DEF WellNumbered
    <3>2. /\ IsFiniteSet(DOMAIN numbering \cup {ip})
          /\ Cardinality(DOMAIN numbering \cup {ip}) = size + 1
      <4> HIDE DEF ip
      <4>1. QED
        BY <1>2, <3>1, FS_AddElement
    <3>3. QED
      BY <2>1, <3>2
  <2> HIDE DEF size
  <2>4. \A a \in DOMAIN next : next[a] \in Nat /\ next[a] < Cardinality(DOMAIN next)
    BY <2>1, <2>2, <2>3 DEF WellNumbered, size
  <2>5. \A a \in DOMAIN numbering : next[a] # next[ip]
    BY <2>1, <2>2 DEF WellNumbered, size
  <2>6. \A a, b \in DOMAIN next : next[a] = next[b] => a = b
    BY <2>1, <2>5 DEF WellNumbered
  <2>7. WellNumbered(robots, i + 1, next)
    BY <1>0, <2>1, <2>3, <2>4, <2>6 DEF WellNumbered
  <2>8. QED
    BY <2>1, <2>7 DEF next
<1>3. QED
  BY <1>1, <1>2

LEMMA AddrNoted ==
  ASSUME NEW notes, NEW robot
  PROVE  LET next    == Numbered(notes.numbering, robot.ip)
             entries == [n \in RobotNames(robot) |-> next[robot.ip]]
         IN  /\ NoteAddr(notes, robot).numbering = next
             /\ NoteAddr(notes, robot).outgoing =
                  (IF robot.flow \in Sending THEN Update(notes.outgoing, entries)
                   ELSE notes.outgoing)
             /\ NoteAddr(notes, robot).incoming =
                  (IF robot.flow \in Receiving THEN Update(notes.incoming, entries)
                   ELSE notes.incoming)
BY DEF NoteAddr, Outgoing, Incoming, Sending, Receiving

LEMMA LeadsNext ==
  ASSUME NEW robots, NEW i \in Nat, NEW flows, NEW numbering, NEW next, NEW numbers,
         NEW entries, NEW table,
         DOMAIN numbering = {robots[j].ip : j \in 1 .. i},
         \A a \in DOMAIN numbering : next[a] = numbering[a],
         entries = [n \in RobotNames(robots[i + 1]) |-> next[robots[i + 1].ip]],
         table = (IF robots[i + 1].flow \in flows THEN Update(numbers, entries)
                  ELSE numbers),
         LeadsTo(robots, i, numbering, numbers, flows)
  PROVE  LeadsTo(robots, i + 1, next, table, flows)
<1> SUFFICES ASSUME NEW j \in 1 .. (i + 1), NEW n, LastWith(robots, i + 1, flows, j, n)
             PROVE  n \in DOMAIN table /\ table[n] = next[robots[j].ip]
  BY DEF LeadsTo
<1>1. CASE j = i + 1
  BY <1>1 DEF LastWith, Update
<1>2. CASE j \in 1 .. i
  <2>1. LastWith(robots, i, flows, j, n)
    <3>1. \A k \in 1 .. i : k \in 1 .. (i + 1)
      OBVIOUS
    <3>2. QED
      BY <3>1 DEF LastWith
  <2>2. n \in DOMAIN numbers /\ numbers[n] = next[robots[j].ip]
    BY <1>2, <2>1 DEF LeadsTo
  <2>3. ~ (n \in RobotNames(robots[i + 1]) /\ robots[i + 1].flow \in flows)
    BY <1>2 DEF LastWith
  <2>4. QED
    BY <2>2, <2>3 DEF Update
<1>3. QED
  BY <1>1, <1>2

LEMMA RobotsFollowed ==
  ASSUME NEW robots, List(robots)
  PROVE  NotesFollow(robots, Len(robots), Robots(robots))
<1>0. Len(robots) \in Nat
  BY DEF List
<1>1. PICK f : /\ \A i \in 0 .. Len(robots) : f[i] = Noted(robots, f, i)
               /\ Robots(robots) = f[Len(robots)]
  BY NotesDefined
<1> DEFINE S == {i \in 0 .. Len(robots) : NotesFollow(robots, i, f[i])}
<1>2. 0 \in S
  <2>1. f[0] = [numbering |-> <<>>, outgoing |-> <<>>, incoming |-> <<>>]
    BY <1>0, <1>1 DEF Noted
  <2>2. DOMAIN <<>> = {}
    OBVIOUS
  <2>3. 1 .. 0 = {}
    OBVIOUS
  <2>4. WellNumbered(robots, 0, <<>>)
    BY <2>2, <2>3, FS_EmptySet DEF WellNumbered
  <2>5. \A flows : LeadsTo(robots, 0, <<>>, <<>>, flows)
    BY <2>3 DEF LeadsTo
  <2>6. NotesFollow(robots, 0, f[0])
    BY <2>1, <2>4, <2>5 DEF NotesFollow
  <2>7. QED
    BY <1>0, <2>6
<1>3. ASSUME NEW i \in 0 .. (Len(robots) - 1), NotesFollow(robots, i, f[i])
      PROVE  NotesFollow(robots, i + 1, f[i + 1])
  <2> DEFINE robot == robots[i + 1]
             next == Numbered(f[i].numbering, robot.ip)
             entries == [n \in RobotNames(robot) |-> next[robot.ip]]
  <2>1. f[i + 1] = NoteAddr(f[i], robot)
    <3>1. i + 1 \in 0 .. Len(robots) /\ i + 1 # 0 /\ (i + 1) - 1 = i
      BY <1>0
    <3>2. QED
      BY <1>1, <3>1 DEF Noted
  <2>2. /\ f[i + 1].numbering = next
        /\ f[i + 1].outgoing = (IF robot.flow \in Sending
                                THEN Update(f[i].outgoing, entries) ELSE f[i].outgoing)
        /\ f[i + 1].incoming = (IF robot.flow \in Receiving
                                THEN Update(f[i].incoming, entries) ELSE f[i].incoming)
    BY <2>1, AddrNoted
  <2>3. /\ WellNumbered(robots, i + 1, next)
        /\ \A a \in DOMAIN f[i].numbering : next[a] = f[i].numbering[a]
    <3>1. i \in Nat
      BY <1>0
    <3>2. WellNumbered(robots, i, f[i].numbering)
      BY <1>3 DEF NotesFollow
    <3> HIDE DEF S, entries
    <3>3. QED
      BY <3>1, <3>2, NumberedNext
  <2>4. DOMAIN f[i].numbering = {robots[j].ip : j \in 1 .. i}
    BY <1>3 DEF NotesFollow, WellNumbered
  <2> HIDE DEF next
  <2>5. LeadsTo(robots, i + 1, next, f[i + 1].outgoing, Sending)
    <3>1. LeadsTo(robots, i, f[i].numbering, f[i].outgoing, Sending)
      BY <1>3 DEF NotesFollow
    <3>2. entries = [n \in RobotNames(robot) |-> next[robot.ip]]
      OBVIOUS
    <3> HIDE DEF entries
    <3>3. f[i + 1].outgoing = (IF robot.flow \in Sending
                              THEN Update(f[i].outgoing, entries) ELSE f[i].outgoing)
      BY <2>2 DEF entries
    <3>4. i \in Nat
      BY <1>0
    <3>5. QED
      BY <2>3, <2>4, <3>1, <3>2, <3>3, <3>4, LeadsNext
  <2>6. LeadsTo(robots, i + 1, next, f[i + 1].incoming, Receiving)
    <3>1. LeadsTo(robots, i, f[i].numbering, f[i].incoming, Receiving)
      BY <1>3 DEF NotesFollow
    <3>2. entries = [n \in RobotNames(robot) |-> next[robot.ip]]
      OBVIOUS
    <3> HIDE DEF entries
    <3>3. f[i + 1].incoming = (IF robot.flow \in Receiving
                              THEN Update(f[i].incoming, entries) ELSE f[i].incoming)
      BY <2>2 DEF entries
    <3>4. i \in Nat
      BY <1>0
    <3>5. QED
      BY <2>3, <2>4, <3>1, <3>2, <3>3, <3>4, LeadsNext
  <2>7. QED
    BY <2>2, <2>3, <2>5, <2>6 DEF NotesFollow
<1>4. 0 .. Len(robots) \subseteq S
  <2>1. \A i \in 0 .. (Len(robots) - 1) : i \in S => i + 1 \in S
    BY <1>0, <1>3
  <2> HIDE DEF S
  <2>2. QED
    BY <1>0, <1>2, <2>1, UpTo
<1>5. QED
  BY <1>0, <1>1, <1>4

\* The number of a server leads back to it.
LEMMA NumbersLeadBack ==
  ASSUME NEW robots, NEW i, NEW notes, WellNumbered(robots, i, notes.numbering)
  PROVE  /\ \A a \in DOMAIN notes.numbering : RobotServers(notes)[notes.numbering[a]] = a
         /\ \A k \in DOMAIN RobotServers(notes) :
               k \in 0 .. (Cardinality(DOMAIN notes.numbering) - 1)
<1>1. ASSUME NEW a \in DOMAIN notes.numbering
      PROVE  RobotServers(notes)[notes.numbering[a]] = a
  <2> DEFINE n == notes.numbering[a]
             b == CHOOSE c \in DOMAIN notes.numbering : notes.numbering[c] = n
  <2>1. b \in DOMAIN notes.numbering /\ notes.numbering[b] = n
    OBVIOUS
  <2>2. RobotServers(notes)[n] = b
    BY DEF RobotServers
  <2> HIDE DEF b
  <2>3. QED
    BY <2>1, <2>2 DEF WellNumbered
<1>2. ASSUME NEW k \in DOMAIN RobotServers(notes)
      PROVE  k \in 0 .. (Cardinality(DOMAIN notes.numbering) - 1)
  <2>1. PICK a \in DOMAIN notes.numbering : k = notes.numbering[a]
    BY DEF RobotServers
  <2>2. Cardinality(DOMAIN notes.numbering) \in Nat
    BY FS_CardinalityType DEF WellNumbered
  <2>3. QED
    BY <2>1, <2>2 DEF WellNumbered
<1>3. QED
  BY <1>1, <1>2

\* What the firewall's file has bound, before the next one is executed.
RobotsInv ==
  pc = "30_networking" =>
    LET notes == Robots(cfg.fw.robots)
    IN  /\ ns.robot_servers = RobotServers(notes)
        /\ ns.robot_out = notes.outgoing
        /\ ns.robot_in = notes.incoming

LEMMA RobotsInductive == RobotsInv /\ [Next]_vars => RobotsInv'
<1> SUFFICES ASSUME RobotsInv, [Next]_vars PROVE RobotsInv'
  OBVIOUS
<1>1. CASE FirewallFile
  <2> DEFINE notes == Robots(cfg.fw.robots)
  <2>1. pc' = "30_networking" => /\ ns'["robot_servers"] = RobotServers(notes)
                                 /\ ns'["robot_out"] = notes.outgoing
                                 /\ ns'["robot_in"] = notes.incoming
    BY <1>1 DEF FirewallFile, Execute, Bind, Update
  <2>2. cfg' = cfg
    BY <1>1 DEF FirewallFile, Execute
  <2>3. QED
    BY <2>1, <2>2 DEF RobotsInv
<1>2. CASE Baseparams \/ Funchosts \/ NetworksFile \/ Revzones \/ Networking
             \/ OrganizationFile \/ Usbdev
  BY <1>2 DEF Baseparams, Funchosts, NetworksFile, Revzones, Networking, OrganizationFile,
              Usbdev, Execute, RobotsInv
<1>3. CASE UNCHANGED vars
  BY <1>3 DEF vars, RobotsInv
<1>4. QED
  BY <1>1, <1>2, <1>3 DEF Next

\* The mail of a robot goes to the server of its last declaration with that direction,
\* and the numbers of the servers are different and the least ones, for any declarations.
THEOREM RobotsServedCorrect == Spec => []RobotsServed
<1>1. Init => RobotsInv
  BY DEF Init, RobotsInv
<1>2. ASSUME TypeOK, RobotsInv PROVE RobotsServed
  <2> SUFFICES ASSUME pc = "30_networking" PROVE RobotsServed
    BY DEF RobotsServed
  <2> DEFINE robots == cfg.fw.robots
             notes == Robots(robots)
             leads(numbers, flows) ==
               \A i \in DOMAIN robots : \A n \in RobotNames(robots[i]) :
                 (/\ robots[i].flow \in flows
                  /\ \A j \in DOMAIN robots :
                        (n \in RobotNames(robots[j]) /\ robots[j].flow \in flows)
                          => j <= i)
                 => ns.robot_servers[numbers[n]] = robots[i].ip
  <2>1. List(robots)
    BY <1>2, ConfigsAssumption DEF TypeOK, WellFormed
  <2>2. DOMAIN robots = 1 .. Len(robots)
    BY <2>1 DEF List
  <2>3. NotesFollow(robots, Len(robots), notes)
    BY <2>1, RobotsFollowed
  <2>4. /\ ns.robot_servers = RobotServers(notes)
        /\ ns.robot_out = notes.outgoing /\ ns.robot_in = notes.incoming
    BY <1>2 DEF RobotsInv
  <2> HIDE DEF robots, notes
  <2>5. DOMAIN notes.numbering = {robots[i].ip : i \in DOMAIN robots}
    BY <2>2, <2>3 DEF NotesFollow, WellNumbered
  <2>6. /\ \A a \in DOMAIN notes.numbering : ns.robot_servers[notes.numbering[a]] = a
        /\ \A k \in DOMAIN ns.robot_servers :
              k \in 0 .. (Cardinality({robots[i].ip : i \in DOMAIN robots}) - 1)
    BY <2>3, <2>4, <2>5, NumbersLeadBack DEF NotesFollow
  <2>7. ASSUME NEW flows, NEW numbers,
               LeadsTo(robots, Len(robots), notes.numbering, numbers, flows)
        PROVE  leads(numbers, flows)
    <3> SUFFICES ASSUME NEW i \in DOMAIN robots, NEW n \in RobotNames(robots[i]),
                        robots[i].flow \in flows,
                        \A j \in DOMAIN robots :
                          (n \in RobotNames(robots[j]) /\ robots[j].flow \in flows)
                            => j <= i
                 PROVE  ns.robot_servers[numbers[n]] = robots[i].ip
      OBVIOUS
    <3>1. LastWith(robots, Len(robots), flows, i, n)
      BY <2>2 DEF LastWith
    <3>2. numbers[n] = notes.numbering[robots[i].ip]
      BY <2>2, <2>7, <3>1 DEF LeadsTo
    <3>3. QED
      BY <2>5, <2>6, <3>2
  <2>8. leads(ns.robot_out, Sending) /\ leads(ns.robot_in, Receiving)
    <3> HIDE DEF leads
    <3>1. QED
      BY <2>3, <2>4, <2>7 DEF NotesFollow
  <2>9. QED
    BY <2>6, <2>8 DEF RobotsServed, robots, Sending, Receiving
<1>3. QED
  BY <1>1, <1>2, RobotsInductive, RenderingTypeCorrect, PTL DEF Spec

-----------------------------------------------------------------------------
(* 21_revzones.py: which zone answers a query for an address, for any      *)
(* octets of any number of bits and networks of any length.                *)

-----------------------------------------------------------------------------
(* 21_revzones.py *)

LEMMA WidthType == Width \in Nat /\ Octets \in Nat \ {0} /\ Bits \in Nat \ {0}
<1>1. Octets \in Nat \ {0} /\ Bits \in Nat \ {0}
  BY NetworksAssumption
<1>2. QED
  BY <1>1 DEF Width

\* The recursion of Pow2 has a solution, by induction on the number of bits.
LEMMA Pow2Exists ==
  ASSUME NEW m \in Nat
  PROVE  \E f : f = [n \in 0 .. m |-> IF n = 0 THEN 1 ELSE 2 * f[n - 1]]
<1> DEFINE Exists(k) == \E f : f = [n \in 0 .. k |-> IF n = 0 THEN 1 ELSE 2 * f[n - 1]]
           S == {k \in 0 .. m : Exists(k)}
<1>1. 0 \in S
  <2> DEFINE f == [n \in 0 .. 0 |-> 1]
  <2>1. f = [n \in 0 .. 0 |-> IF n = 0 THEN 1 ELSE 2 * f[n - 1]]
    OBVIOUS
  <2>2. Exists(0)
    BY <2>1
  <2> HIDE DEF Exists
  <2>3. QED
    BY <2>2
<1>2. ASSUME NEW k \in 0 .. (m - 1), Exists(k) PROVE Exists(k + 1)
  <2>1. PICK f : f = [n \in 0 .. k |-> IF n = 0 THEN 1 ELSE 2 * f[n - 1]]
    BY <1>2
  <2> DEFINE g == [n \in 0 .. (k + 1) |-> IF n <= k THEN f[n] ELSE 2 * f[k]]
  <2>2. \A n \in 0 .. (k + 1) : g[n] = IF n = 0 THEN 1 ELSE 2 * f[n - 1]
    BY <2>1
  <2>3. \A n \in 0 .. (k + 1) : n # 0 => f[n - 1] = g[n - 1]
    OBVIOUS
  <2> HIDE DEF g
  <2>4. \A n \in 0 .. (k + 1) : g[n] = IF n = 0 THEN 1 ELSE 2 * g[n - 1]
    BY <2>2, <2>3
  <2>5. g = [n \in 0 .. (k + 1) |-> IF n = 0 THEN 1 ELSE 2 * g[n - 1]]
    BY <2>4 DEF g
  <2>6. QED
    BY <2>5
<1>3. 0 .. m \subseteq S
  <2>1. \A k \in 0 .. (m - 1) : k \in S => k + 1 \in S
    <3> HIDE DEF Exists
    <3>1. QED
      BY <1>2
  <2> HIDE DEF S
  <2>2. QED
    BY <1>1, <2>1, UpTo
<1>4. QED
  BY <1>3

LEMMA Pow2Defined ==
  /\ Pow2[0] = 1
  /\ \A n \in 0 .. (Width - 1) : Pow2[n + 1] = 2 * Pow2[n]
<1> DEFINE f == CHOOSE f : f = [n \in 0 .. Width |-> IF n = 0 THEN 1 ELSE 2 * f[n - 1]]
<1>1. f = [n \in 0 .. Width |-> IF n = 0 THEN 1 ELSE 2 * f[n - 1]]
  <2>1. \E g : g = [n \in 0 .. Width |-> IF n = 0 THEN 1 ELSE 2 * g[n - 1]]
    BY Pow2Exists, WidthType
  <2>2. QED
    BY <2>1, Zenon
<1>2. Pow2 = f
  BY DEF Pow2
<1> HIDE DEF f
<1>3. \A n \in 0 .. Width : Pow2[n] = IF n = 0 THEN 1 ELSE 2 * Pow2[n - 1]
  BY <1>1, <1>2
<1>4. Pow2[0] = 1
  BY <1>3, WidthType
<1>5. ASSUME NEW n \in 0 .. (Width - 1) PROVE Pow2[n + 1] = 2 * Pow2[n]
  <2>1. n + 1 \in 0 .. Width /\ n + 1 # 0 /\ (n + 1) - 1 = n
    BY WidthType
  <2>2. QED
    BY <1>3, <2>1
<1>6. QED
  BY <1>4, <1>5

LEMMA Pow2Type == \A n \in 0 .. Width : Pow2[n] \in Nat \ {0}
<1> DEFINE S == {n \in 0 .. Width : Pow2[n] \in Nat \ {0}}
<1>1. 0 \in S
  BY Pow2Defined, WidthType
<1>2. \A k \in 0 .. (Width - 1) : k \in S => k + 1 \in S
  BY Pow2Defined, WidthType
<1> HIDE DEF S
<1>3. 0 .. Width \subseteq S
  BY <1>1, <1>2, WidthType, UpTo
<1>4. QED
  BY <1>3 DEF S

\* The numbers of values multiply where the bits are put side by side.
LEMMA Pow2Sum ==
  ASSUME NEW m \in Nat, NEW n \in Nat, m + n <= Width
  PROVE  Pow2[m + n] = Pow2[m] * Pow2[n]
<1> DEFINE S == {k \in 0 .. n : Pow2[m + k] = Pow2[m] * Pow2[k]}
<1>0. m \in 0 .. Width /\ n \in 0 .. Width /\ Pow2[m] \in Nat
  BY Pow2Type, WidthType
<1>1. 0 \in S
  BY <1>0, Pow2Defined, WidthType
<1>2. ASSUME NEW k \in 0 .. (n - 1), k \in S PROVE k + 1 \in S
  <2>1. m + k \in 0 .. (Width - 1) /\ k \in 0 .. (Width - 1) /\ (m + k) + 1 = m + (k + 1)
    BY WidthType
  <2>2. Pow2[m + (k + 1)] = 2 * Pow2[m + k] /\ Pow2[k + 1] = 2 * Pow2[k]
    BY <2>1, Pow2Defined
  <2>3. Pow2[m + k] = Pow2[m] * Pow2[k]
    BY <1>2
  <2>4. Pow2[k] \in Nat
    BY <2>1, Pow2Type, WidthType
  <2>5. 2 * (Pow2[m] * Pow2[k]) = Pow2[m] * (2 * Pow2[k])
    BY <1>0, <2>4
  <2>6. QED
    BY <2>2, <2>3, <2>5
<1> HIDE DEF S
<1>3. 0 .. n \subseteq S
  BY <1>1, <1>2, UpTo
<1>4. QED
  BY <1>3 DEF S

\* The part of an address that is common to a network, the number of the network.
\* Quotients and remainders.
LEMMA Division ==
  ASSUME NEW a \in Nat, NEW d \in Nat \ {0}
  PROVE  /\ a \div d \in Nat /\ a % d \in 0 .. (d - 1)
         /\ a = d * (a \div d) + (a % d)
OBVIOUS

LEMMA DivisionUnique ==
  ASSUME NEW d \in Nat \ {0}, NEW q \in Nat, NEW r \in 0 .. (d - 1), NEW a, a = d * q + r
  PROVE  a \div d = q /\ a % d = r
OBVIOUS

LEMMA DivideTwice ==
  ASSUME NEW a \in Nat, NEW d \in Nat \ {0}, NEW e \in Nat \ {0}
  PROVE  (a \div d) \div e = a \div (d * e)
OBVIOUS

\* The number of addresses of a network of k whole octets.
Part(k) == Pow2[Bits * (Octets - k)]
Base == Pow2[Bits]

LEMMA Parts ==
  /\ Base \in Nat \ {0}
  /\ Part(Octets) = 1 /\ Part(0) = Pow2[Width]
  /\ \A k \in 0 .. Octets : /\ Bits * (Octets - k) \in 0 .. Width
                            /\ Part(k) \in Nat \ {0}
  /\ \A k \in 1 .. Octets : Part(k - 1) = Part(k) * Base
<1> USE WidthType
<1>1. ASSUME NEW k \in 0 .. Octets PROVE Bits * (Octets - k) \in 0 .. Width
  <2>1. Bits * k \in Nat /\ Bits * (Octets - k) = Bits * Octets - Bits * k
    OBVIOUS
  <2>2. Bits * (Octets - k) \in Nat
    OBVIOUS
  <2>3. QED
    BY <2>1, <2>2 DEF Width
<1>2. Base \in Nat \ {0}
  <2>1. Bits \in 0 .. Width
    BY <1>1, Bits * (Octets - (Octets - 1)) = Bits
  <2>2. QED
    BY <2>1, Pow2Type DEF Base
<1>3. Part(Octets) = 1
  BY Pow2Defined, Bits * (Octets - Octets) = 0 DEF Part
<1>4. Part(0) = Pow2[Width]
  BY Bits * (Octets - 0) = Width DEF Part, Width
<1>5. \A k \in 0 .. Octets : Part(k) \in Nat \ {0}
  BY <1>1, Pow2Type DEF Part
<1>6. ASSUME NEW k \in 1 .. Octets PROVE Part(k - 1) = Part(k) * Base
  <2>1. /\ Bits * (Octets - k) \in 0 .. Width
        /\ Bits * (Octets - (k - 1)) \in 0 .. Width
    BY <1>1
  <2>2. Bits * (Octets - (k - 1)) = Bits * (Octets - k) + Bits
    OBVIOUS
  <2>3. Pow2[Bits * (Octets - k) + Bits] = Pow2[Bits * (Octets - k)] * Pow2[Bits]
    BY <2>1, <2>2, Pow2Sum
  <2>4. QED
    BY <2>2, <2>3 DEF Part, Base
<1>7. QED
  BY <1>1, <1>2, <1>3, <1>4, <1>5, <1>6

Address == 0 .. (Pow2[Width] - 1)

LEMMA DivideSmall ==
  ASSUME NEW d \in Nat \ {0}, NEW a \in 0 .. (d - 1)
  PROVE  a \div d = 0
OBVIOUS

\* An address down to an octet is the one before it, with the octet appended.
LEMMA NextOctet ==
  ASSUME NEW a \in Nat, NEW k \in 1 .. Octets
  PROVE  /\ a \div Part(k) = Base * (a \div Part(k - 1)) + OctetOf(a, k)
         /\ OctetOf(a, k) \in 0 .. (Base - 1)
         /\ a \div Part(k - 1) \in Nat
<1> DEFINE d == Part(k)
<1>1. d \in Nat \ {0} /\ Base \in Nat \ {0} /\ Part(k - 1) = d * Base
  BY Parts, WidthType
<1>2. OctetOf(a, k) = (a \div d) % Base
  BY DEF OctetOf, Part, Base
<1> HIDE DEF d
<1>3. a \div d \in Nat
  BY <1>1, Division
<1>4. a \div Part(k - 1) = (a \div d) \div Base
  <2>1. (a \div d) \div Base = a \div (d * Base)
    <3> HIDE DEF Base
    <3>1. QED
      BY <1>1, DivideTwice
  <2>2. QED
    BY <1>1, <2>1
<1>5. QED
  BY <1>1, <1>2, <1>3, <1>4, Division DEF d

\* The first octets of two addresses are the same if their networks of that many
\* octets are.
\* Addresses that begin with the same octets are in the same network of whole octets.
LEMMA LeadingOctets ==
  ASSUME NEW a \in Address, NEW b \in Address, NEW w \in 0 .. Octets
  PROVE  (\A i \in 1 .. w : OctetOf(a, i) = OctetOf(b, i)) <=> a \div Part(w) = b \div Part(w)
<1> DEFINE Same(k) == (\A i \in 1 .. k : OctetOf(a, i) = OctetOf(b, i))
                        <=> a \div Part(k) = b \div Part(k)
           S == {k \in 0 .. Octets : Same(k)}
<1>0. a \in Nat /\ b \in Nat /\ Octets \in Nat
  BY WidthType, Pow2Type DEF Address
<1>1. Same(0)
  <2>1. a \div Part(0) = 0 /\ b \div Part(0) = 0
    <3>1. Pow2[Width] \in Nat \ {0}
      BY Pow2Type, WidthType
    <3>2. QED
      BY <3>1, Parts, DivideSmall DEF Address
  <2>2. QED
    BY <2>1
<1>2. ASSUME NEW k \in 0 .. (Octets - 1), Same(k) PROVE Same(k + 1)
  <2>1. k + 1 \in 1 .. Octets /\ (k + 1) - 1 = k
    BY <1>0
  <2>2. /\ a \div Part(k + 1) = Base * (a \div Part(k)) + OctetOf(a, k + 1)
        /\ OctetOf(a, k + 1) \in 0 .. (Base - 1) /\ a \div Part(k) \in Nat
    BY <1>0, <2>1, NextOctet
  <2>3. /\ b \div Part(k + 1) = Base * (b \div Part(k)) + OctetOf(b, k + 1)
        /\ OctetOf(b, k + 1) \in 0 .. (Base - 1) /\ b \div Part(k) \in Nat
    BY <1>0, <2>1, NextOctet
  <2>4. Base \in Nat \ {0}
    BY Parts
  <2>5. a \div Part(k + 1) = b \div Part(k + 1)
          <=> a \div Part(k) = b \div Part(k) /\ OctetOf(a, k + 1) = OctetOf(b, k + 1)
    <3>1. ASSUME a \div Part(k + 1) = b \div Part(k + 1)
          PROVE  a \div Part(k) = b \div Part(k) /\ OctetOf(a, k + 1) = OctetOf(b, k + 1)
      <4>1. /\ (a \div Part(k + 1)) \div Base = a \div Part(k)
            /\ (a \div Part(k + 1)) % Base = OctetOf(a, k + 1)
        BY <2>2, <2>4, DivisionUnique
      <4>2. /\ (b \div Part(k + 1)) \div Base = b \div Part(k)
            /\ (b \div Part(k + 1)) % Base = OctetOf(b, k + 1)
        BY <2>3, <2>4, DivisionUnique
      <4>3. QED
        BY <3>1, <4>1, <4>2
    <3>2. QED
      BY <2>2, <2>3, <3>1
  <2>6. \A i \in 1 .. (k + 1) : i \in 1 .. k \/ i = k + 1
    OBVIOUS
  <2>7. \A i \in 1 .. k : i \in 1 .. (k + 1)
    OBVIOUS
  <2>8. k + 1 \in 1 .. (k + 1)
    OBVIOUS
  <2>9. QED
    BY <1>2, <2>5, <2>6, <2>7, <2>8
<1>3. 0 .. Octets \subseteq S
  <2>1. 0 \in S
    BY <1>0, <1>1
  <2>2. \A k \in 0 .. (Octets - 1) : k \in S => k + 1 \in S
    <3> HIDE DEF Same
    <3>1. QED
      BY <1>0, <1>2
  <2> HIDE DEF S
  <2>3. QED
    BY <1>0, <2>1, <2>2, UpTo
<1>4. QED
  BY <1>3

\* Its octets determine an address.
LEMMA Floor ==
  ASSUME NEW a \in Nat, NEW d \in Nat \ {0}
  PROVE  /\ a \div d \in Nat
         /\ d * (a \div d) <= a
         /\ d * (a \div d) = a - (a % d)
         /\ a % d = 0 => a = d * (a \div d)
OBVIOUS

\* A network without host bits is a block of the addresses, at a multiple of its size.
LEMMA NetworkFits ==
  ASSUME NEW N, IsNetwork(N)
  PROVE  /\ NetSize(N) \in Nat \ {0}
         /\ N.net \in Address /\ N.net + NetSize(N) <= Pow2[Width]
         /\ N.net = NetSize(N) * (N.net \div NetSize(N))
         /\ N.net \in Addresses(N)
         /\ \A x : x \in Addresses(N)
                     <=> x \in Nat /\ x \div NetSize(N) = N.net \div NetSize(N)
<1> DEFINE s == NetSize(N)
           t == Pow2[N.len]
           q == N.net \div s
<1>1. /\ N.len \in 0 .. Width /\ Width - N.len \in 0 .. Width
      /\ N.net \in Nat /\ N.net < Pow2[Width] /\ N.net % s = 0
  BY WidthType, Pow2Type DEF IsNetwork
<1>2. s \in Nat \ {0} /\ t \in Nat \ {0} /\ Pow2[Width] \in Nat
  BY <1>1, Pow2Type, WidthType DEF NetSize
<1>3. Pow2[Width] = s * t
  <2>1. Pow2[(Width - N.len) + N.len] = Pow2[Width - N.len] * Pow2[N.len]
    BY <1>1, WidthType, Pow2Sum
  <2>2. (Width - N.len) + N.len = Width
    BY <1>1, WidthType
  <2>3. QED
    BY <2>1, <2>2 DEF NetSize
<1>4. Addresses(N) = N.net .. (N.net + s - 1)
  BY DEF Addresses
<1>5. N.net \in Address
  BY <1>1, <1>2 DEF Address
<1> HIDE DEF s, t
<1>6. N.net = s * q /\ q \in Nat
  BY <1>1, <1>2, Floor
<1> HIDE DEF q
<1>7. q < t
  <2>1. s * q < s * t
    BY <1>1, <1>3, <1>6
  <2>2. QED
    BY <1>2, <1>6, <2>1
<1>8. N.net + s <= Pow2[Width]
  <2>1. s * (q + 1) <= s * t
    BY <1>2, <1>6, <1>7
  <2>2. s * (q + 1) = s * q + s
    BY <1>2, <1>6
  <2>3. QED
    BY <1>3, <1>6, <2>1, <2>2
<1>9. ASSUME NEW x PROVE x \in Addresses(N) <=> x \in Nat /\ x \div s = q
  <2>1. ASSUME x \in Addresses(N) PROVE x \in Nat /\ x \div s = q
    <3>1. x \in Nat /\ x - s * q \in 0 .. (s - 1) /\ x = s * q + (x - s * q)
      BY <1>2, <1>4, <1>6, <2>1
    <3>2. QED
      BY <1>2, <1>6, <3>1, DivisionUnique
  <2>2. ASSUME x \in Nat, x \div s = q PROVE x \in Addresses(N)
    <3>1. x = s * q + (x % s) /\ x % s \in 0 .. (s - 1)
      BY <1>2, <2>2, Division
    <3>2. QED
      BY <1>2, <1>4, <1>6, <3>1
  <2>3. QED
    BY <2>1, <2>2
<1>10. N.net \in Addresses(N)
  BY <1>1, <1>2, <1>4
<1>11. QED
  BY <1>2, <1>5, <1>6, <1>8, <1>9, <1>10 DEF s, q

\* Of two networks with a common address, the one with the longer prefix is inside of
\* the other one.
LEMMA NestedIfLonger ==
  ASSUME NEW A, NEW B, IsNetwork(A), IsNetwork(B), B.len <= A.len,
         NEW x \in Addresses(A), x \in Addresses(B)
  PROVE  IsSubnetOf(A, B)
<1> DEFINE s == NetSize(A)
           d == Pow2[A.len - B.len]
<1>1. A.len \in 0 .. Width /\ B.len \in 0 .. Width
  BY DEF IsNetwork
<1>2. s \in Nat \ {0} /\ d \in Nat \ {0} /\ NetSize(B) = s * d
  <2>1. Width - A.len \in 0 .. Width /\ A.len - B.len \in 0 .. Width
    BY <1>1, WidthType
  <2>2. (Width - A.len) + (A.len - B.len) = Width - B.len
    BY <1>1, WidthType
  <2>3. Pow2[Width - B.len] = Pow2[Width - A.len] * Pow2[A.len - B.len]
    <3>1. /\ Width - A.len \in Nat /\ A.len - B.len \in Nat
          /\ (Width - A.len) + (A.len - B.len) <= Width
      BY <1>1, WidthType
    <3>2. QED
      BY <2>2, <3>1, Pow2Sum
  <2>4. QED
    BY <2>1, <2>3, Pow2Type DEF NetSize
<1> HIDE DEF s, d
<1>3. ASSUME NEW y \in Addresses(A) PROVE y \in Addresses(B)
  <2>1. x \in Nat /\ y \in Nat /\ x \div s = y \div s
    BY NetworkFits DEF s
  <2>2. /\ (x \div s) \div d = x \div (s * d)
        /\ (y \div s) \div d = y \div (s * d)
    BY <1>2, <2>1, DivideTwice
  <2>3. x \div NetSize(B) = y \div NetSize(B)
    BY <1>2, <2>1, <2>2
  <2>4. QED
    BY <2>1, <2>3, NetworkFits
<1>4. /\ A.net \in Addresses(A) /\ A.net + s - 1 \in Addresses(A)
      /\ A.net \in Nat /\ B.net \in Nat /\ NetSize(B) \in Nat
  <2>1. A.net \in Nat /\ B.net \in Nat /\ NetSize(B) \in Nat
    BY NetworkFits DEF Address
  <2>2. QED
    BY <1>2, <2>1 DEF Addresses, s
<1>5. A.net \in Addresses(B) /\ A.net + s - 1 \in Addresses(B)
  BY <1>3, <1>4
<1>6. QED
  BY <1>2, <1>4, <1>5 DEF Addresses, IsSubnetOf, s

\* Two networks that have an address in common are nested.
LEMMA NestedIfMeeting ==
  ASSUME NEW A, NEW B, IsNetwork(A), IsNetwork(B),
         NEW x \in Addresses(A), x \in Addresses(B)
  PROVE  IsSubnetOf(A, B) \/ IsSubnetOf(B, A)
<1>1. A.len <= B.len \/ B.len <= A.len
  BY WidthType DEF IsNetwork
<1>2. QED
  BY <1>1, NestedIfLonger

LEMMA AddressesOfSubnet ==
  ASSUME NEW A, NEW B, IsNetwork(A), IsNetwork(B), IsSubnetOf(A, B)
  PROVE  Addresses(A) \subseteq Addresses(B)
<1>1. /\ A.net \in Nat /\ B.net \in Nat /\ NetSize(A) \in Nat /\ NetSize(B) \in Nat
  BY NetworkFits DEF Address
<1>2. QED
  BY <1>1 DEF Addresses, IsSubnetOf

\* A network cut down to whole octets is a network, and wraps it.
LEMMA WrapperFits ==
  ASSUME NEW N, IsNetwork(N)
  PROVE  LET W == Wrapper(N)
             w == Whole(N)
         IN  /\ IsNetwork(W) /\ IsSubnetOf(N, W)
             /\ w \in 0 .. Octets /\ Whole(W) = w
             /\ W.len = Bits * w /\ W.len <= N.len /\ NetSize(W) = Part(w)
<1> DEFINE W == Wrapper(N)
           w == Whole(N)
           p == Part(w)
<1>1. /\ N.len \in 0 .. Width /\ N.net \in Nat
      /\ Bits \in Nat \ {0} /\ Octets \in Nat /\ Width = Octets * Bits
  BY WidthType, NetworkFits DEF IsNetwork, Address, Width
<1>2. w \in Nat /\ Bits * w <= N.len
  <2>1. N.len \in Nat
    BY <1>1
  <2>2. QED
    BY <1>1, <2>1, Floor DEF Whole
<1>3. w \in 0 .. Octets
  <2>1. w * Bits <= Octets * Bits
    BY <1>1, <1>2
  <2> HIDE DEF w
  <2>2. QED
    BY <1>1, <1>2, <2>1
<1> HIDE DEF w
<1>4. Bits * w \in Nat /\ Width - Bits * w = Bits * (Octets - w)
  BY <1>1, <1>3
<1>5. Bits * (Octets - w) \in 0 .. Width /\ p \in Nat \ {0}
  BY <1>3, Parts
<1>6. W = [net |-> N.net - (N.net % p), len |-> Bits * w]
  BY <1>4 DEF Wrapper, Part, w
<1>7. NetSize(W) = p
  BY <1>4, <1>6 DEF NetSize, Part
<1> HIDE DEF W, p
<1>8. W.net = p * (N.net \div p) /\ N.net \div p \in Nat /\ W.net \in Nat /\ W.net <= N.net
  <2>1. W.net = N.net - (N.net % p)
    BY <1>6
  <2>2. /\ N.net \div p \in Nat /\ p * (N.net \div p) <= N.net
        /\ p * (N.net \div p) = N.net - (N.net % p)
    <3>1. N.net \in Nat /\ p \in Nat \ {0}
      BY <1>1, <1>5
    <3>2. QED
      BY <3>1, Floor
  <2> DEFINE q == N.net \div p
  <2>3. q \in Nat /\ p * q <= N.net /\ W.net = p * q
    BY <2>1, <2>2
  <2> HIDE DEF q
  <2>4. p * q \in Nat
    BY <1>5, <2>3
  <2>5. QED
    BY <2>3, <2>4 DEF q
<1>9. W.net % p = 0 /\ W.net \div p = N.net \div p
  <2>1. W.net = p * (N.net \div p) + 0 /\ 0 \in 0 .. (p - 1)
    BY <1>5, <1>8
  <2>2. QED
    BY <1>5, <1>8, <2>1, DivisionUnique
<1>10. IsNetwork(W)
  <2>1. W.net < Pow2[Width]
    BY <1>8, NetworkFits, Pow2Type, WidthType DEF Address
  <2>2. Pow2[Width] \in Nat
    BY Pow2Type, WidthType
  <2>3. W.len \in 0 .. Width
    BY <1>1, <1>2, <1>4, <1>6
  <2>4. W = [net |-> W.net, len |-> W.len]
    BY <1>6
  <2>5. QED
    BY <1>7, <1>8, <1>9, <2>1, <2>2, <2>3, <2>4 DEF IsNetwork
<1>11. IsSubnetOf(N, W)
  <2>1. N.net \in Addresses(N)
    BY NetworkFits
  <2>2. N.net \in Addresses(W)
    BY <1>1, <1>7, <1>9, <1>10, NetworkFits
  <2>3. W.len <= N.len
    BY <1>2, <1>6
  <2>4. QED
    BY <1>10, <2>1, <2>2, <2>3, NestedIfLonger
<1>12. Whole(W) = w
  <2>1. W.len = Bits * w + 0 /\ 0 \in 0 .. (Bits - 1)
    BY <1>1, <1>3, <1>6
  <2>2. W.len \div Bits = w
    BY <1>1, <1>2, <2>1, DivisionUnique
  <2>3. QED
    BY <2>2 DEF Whole
<1>13. W.len = Bits * w
  BY <1>6
<1>14. QED
  BY <1>2, <1>3, <1>7, <1>10, <1>11, <1>12, <1>13 DEF W, w, p

\* Labels, and the names they make.
LEMMA OctetType ==
  ASSUME NEW a \in Int, NEW i \in 1 .. Octets
  PROVE  OctetOf(a, i) \in Nat
<1> DEFINE d == Part(i)
           b == Base
<1>1. d \in Nat \ {0} /\ b \in Nat \ {0}
  BY Parts
<1>2. OctetOf(a, i) = (a \div d) % b
  BY DEF OctetOf, Part, Base
<1> HIDE DEF d, b
<1>3. a \div d \in Int
  BY <1>1
<1>4. (a \div d) % b \in 0 .. (b - 1)
  BY <1>1, <1>3
<1> QED
  BY <1>1, <1>2, <1>4

LEMMA LabelsType ==
  ASSUME NEW a \in Int, NEW i \in 1 .. (Octets + 1), NEW j \in (i - 1) .. Octets
  PROVE  /\ Labels(a, i, j) \in Seq(Seq(Nat)) /\ Len(Labels(a, i, j)) = j - i + 1
         /\ \A k \in 1 .. (j - i + 1) : Labels(a, i, j)[k] = <<OctetOf(a, i + k - 1)>>
<1>1. j - i + 1 \in Nat
  BY WidthType
<1>2. ASSUME NEW k \in 1 .. (j - i + 1) PROVE OctetOf(a, i + k - 1) \in Nat
  <2>1. i + k - 1 \in 1 .. Octets
    BY WidthType
  <2>2. QED
    BY <2>1, OctetType
<1>3. ASSUME NEW k \in 1 .. (j - i + 1) PROVE <<OctetOf(a, i + k - 1)>> \in Seq(Nat)
  <2> DEFINE o == OctetOf(a, i + k - 1)
  <2>1. o \in Nat
    BY <1>2
  <2> HIDE DEF o
  <2>2. <<o>> \in Seq(Nat)
    BY <2>1
  <2> QED
    BY <2>2 DEF o
<1>4. QED
  BY <1>1, <1>3 DEF Labels

LEMMA NumbersType ==
  ASSUME NEW a \in Int, NEW i \in 1 .. (Octets + 1), NEW j \in (i - 1) .. Octets
  PROVE  /\ Numbers(a, i, j) \in Seq(Nat) /\ Len(Numbers(a, i, j)) = j - i + 1
         /\ \A k \in 1 .. (j - i + 1) : Numbers(a, i, j)[k] = OctetOf(a, i + k - 1)
<1>1. j - i + 1 \in Nat
  BY WidthType
<1>2. ASSUME NEW k \in 1 .. (j - i + 1) PROVE OctetOf(a, i + k - 1) \in Nat
  <2>1. i + k - 1 \in 1 .. Octets
    BY WidthType
  <2>2. QED
    BY <2>1, OctetType
<1>3. QED
  BY <1>1, <1>2 DEF Numbers

LEMMA PrefixOfName ==
  ASSUME NEW s \in Seq(Seq(Nat)), NEW t \in Seq(Seq(Nat))
  PROVE  IsPrefix(s, t) <=> Len(s) <= Len(t) /\ \A k \in 1 .. Len(s) : s[k] = t[k]
<1>1. Len(s) \in Nat /\ Len(t) \in Nat
  OBVIOUS
<1>2. SubSeq(s, 1, Len(s)) = s
  OBVIOUS
<1>3. ASSUME Len(s) <= Len(t)
      PROVE  SubSeq(s, 1, Len(s)) = SubSeq(t, 1, Len(s))
               <=> \A k \in 1 .. Len(s) : s[k] = t[k]
  <2>1. /\ Len(SubSeq(t, 1, Len(s))) = Len(s) /\ SubSeq(t, 1, Len(s)) \in Seq(Seq(Nat))
        /\ \A k \in 1 .. Len(s) : SubSeq(t, 1, Len(s))[k] = t[k]
    BY <1>1, <1>3
  <2>2. QED
    BY <1>2, <2>1, SeqEqual
<1>4. QED
  BY <1>3 DEF IsPrefix

\* The plans that ReverseResolves is about.
PlanOK(nets) ==
    /\ \A T \in DOMAIN nets : IsNetwork(nets[T])
    /\ Disjoint(nets) /\ PlainWrappers(nets)

LEMMA ClassfulAre ==
  ASSUME NEW nets
  PROVE  ClassfulNets(nets) = {Wrapper(nets[T]) : T \in Served(nets)}
BY DEF ClassfulNets, NetworkIn

LEMMA ServedNets == ASSUME NEW nets PROVE Served(nets) \subseteq DOMAIN nets
BY DEF Served

LEMMA OneWrapper ==
  ASSUME NEW nets, PlanOK(nets), NEW S \in Served(nets), NEW T \in Served(nets),
         NEW x \in Addresses(Wrapper(nets[S])), x \in Addresses(Wrapper(nets[T]))
  PROVE  Wrapper(nets[S]) = Wrapper(nets[T])
<1>1. IsNetwork(nets[S]) /\ IsNetwork(nets[T])
  BY ServedNets DEF PlanOK
<1>2. IsNetwork(Wrapper(nets[S])) /\ IsNetwork(Wrapper(nets[T]))
  BY <1>1, WrapperFits
<1>3. \/ IsSubnetOf(Wrapper(nets[S]), Wrapper(nets[T]))
      \/ IsSubnetOf(Wrapper(nets[T]), Wrapper(nets[S]))
  BY <1>2, NestedIfMeeting
<1> QED
  BY <1>3 DEF PlanOK, PlainWrappers

LEMMA OneNetwork ==
  ASSUME NEW nets, PlanOK(nets), NEW S \in DOMAIN nets, NEW T \in DOMAIN nets,
         NEW x \in Addresses(nets[S]), x \in Addresses(nets[T])
  PROVE  S = T
<1>1. IsNetwork(nets[S]) /\ IsNetwork(nets[T])
  BY DEF PlanOK
<1>2. IsSubnetOf(nets[S], nets[T]) \/ IsSubnetOf(nets[T], nets[S])
  BY <1>1, NestedIfMeeting
<1> QED
  BY <1>2 DEF PlanOK, Disjoint

\* findClassful has one answer for a plain plan: the network cut down to whole octets.
LEMMA WrapsAre ==
  ASSUME NEW nets, PlanOK(nets), NEW T \in Served(nets),
         NEW NC \in FindClassful(nets[T], nets)
  PROVE  NC = Wrapper(nets[T])
<1>1. PICK S \in Served(nets) : NC = Wrapper(nets[S])
  BY ClassfulAre DEF FindClassful
<1>2. T \in DOMAIN nets
  BY ServedNets
<1>3. CASE nets[T] \in ClassfulNets(nets)
  <2>1. Wrapper(nets[S]) = nets[T]
    BY <1>1, <1>3 DEF FindClassful
  <2> QED
    BY <1>1, <1>2, <2>1 DEF PlanOK, PlainWrappers
<1>4. CASE nets[T] \notin ClassfulNets(nets)
  <2>1. IsSubnetOf(nets[T], Wrapper(nets[S]))
    BY <1>1, <1>4 DEF FindClassful
  <2>2. IsNetwork(nets[T]) /\ IsNetwork(nets[S])
    BY ServedNets DEF PlanOK
  <2>3. /\ IsNetwork(Wrapper(nets[S])) /\ IsNetwork(Wrapper(nets[T]))
        /\ IsSubnetOf(nets[T], Wrapper(nets[T]))
    BY <2>2, WrapperFits
  <2>4. nets[T].net \in Addresses(nets[T])
    BY <2>2, NetworkFits
  <2>5. /\ nets[T].net \in Addresses(Wrapper(nets[S]))
        /\ nets[T].net \in Addresses(Wrapper(nets[T]))
    BY <2>1, <2>2, <2>3, <2>4, AddressesOfSubnet
  <2> QED
    BY <1>1, <2>5, OneWrapper
<1> QED
  BY <1>3, <1>4

\* The zones of a network: the one of its wrapping network, and one of its own with the
\* hosts when it is not cut at an octet.
Simple(W) == Labels(W.net, 1, Whole(W))
SimpleZone(N) == [name |-> Simple(Wrapper(N)), net |-> Wrapper(N), link |-> Wrapper(N) # N]
OwnZone(N) == [name |-> Simple(Wrapper(N)) \o <<ClasslessShortName(N, Wrapper(N))>>,
               net |-> N, link |-> FALSE]

LEMMA SimpleType ==
  ASSUME NEW N, IsNetwork(N)
  PROVE  LET W == Wrapper(N)
         IN  /\ Simple(W) \in Seq(Seq(Nat)) /\ Len(Simple(W)) = Whole(N)
             /\ Whole(N) \in 0 .. Octets
             /\ \A k \in 1 .. Whole(N) : Simple(W)[k] = <<OctetOf(W.net, k)>>
<1> DEFINE W == Wrapper(N)
           w == Whole(N)
<1>1. IsNetwork(W) /\ Whole(W) = w /\ w \in 0 .. Octets
  BY WrapperFits
<1>2. W.net \in Nat /\ W.net \in Int
  BY <1>1, NetworkFits DEF Address
<1>3. Simple(W) = Labels(W.net, 1, w)
  BY <1>1 DEF Simple
<1> HIDE DEF W, w
<1>4. 1 \in 1 .. (Octets + 1) /\ w \in (1 - 1) .. Octets /\ w - 1 + 1 = w
  BY <1>1, WidthType
<1>5. /\ Labels(W.net, 1, w) \in Seq(Seq(Nat)) /\ Len(Labels(W.net, 1, w)) = w
      /\ \A k \in 1 .. w : Labels(W.net, 1, w)[k] = <<OctetOf(W.net, 1 + k - 1)>>
  BY <1>2, <1>4, LabelsType
<1>6. \A k \in 1 .. w : 1 + k - 1 = k
  BY <1>1
<1>7. /\ Simple(W) \in Seq(Seq(Nat)) /\ Len(Simple(W)) = w
      /\ w \in 0 .. Octets
      /\ \A k \in 1 .. w : Simple(W)[k] = <<OctetOf(W.net, k)>>
  BY <1>1, <1>3, <1>5, <1>6
<1> QED
  BY <1>7 DEF W, w

LEMMA ShortType ==
  ASSUME NEW N, IsNetwork(N)
  PROVE  /\ ClasslessShortName(N, Wrapper(N)) \in Seq(Nat)
         /\ Len(ClasslessShortName(N, Wrapper(N))) = 2 * (Octets - Whole(N))
<1> DEFINE w == Whole(N)
           a == N.net + 1
           b == N.net + NetSize(N) - 2
<1>1. Whole(Wrapper(N)) = w /\ w \in 0 .. Octets
  BY WrapperFits
<1>2. a \in Int /\ b \in Int
  <2>1. N.net \in Nat /\ NetSize(N) \in Nat
    BY NetworkFits DEF Address
  <2> QED
    BY <2>1
<1>3. ClasslessShortName(N, Wrapper(N)) = Numbers(a, w + 1, Octets) \o Numbers(b, w + 1, Octets)
  BY <1>1 DEF ClasslessShortName
<1> HIDE DEF w, a, b
<1>4. /\ w + 1 \in 1 .. (Octets + 1) /\ Octets \in ((w + 1) - 1) .. Octets
      /\ Octets - (w + 1) + 1 = Octets - w /\ Octets - w \in Nat
  BY <1>1, WidthType
<1>5. /\ Numbers(a, w + 1, Octets) \in Seq(Nat) /\ Len(Numbers(a, w + 1, Octets)) = Octets - w
      /\ Numbers(b, w + 1, Octets) \in Seq(Nat) /\ Len(Numbers(b, w + 1, Octets)) = Octets - w
  BY <1>2, <1>4, NumbersType
<1> DEFINE s == Numbers(a, w + 1, Octets)
           t == Numbers(b, w + 1, Octets)
<1> HIDE DEF s, t
<1>6. s \in Seq(Nat) /\ t \in Seq(Nat) /\ Len(s) = Octets - w /\ Len(t) = Octets - w
  BY <1>5 DEF s, t
<1>7. s \o t \in Seq(Nat) /\ Len(s \o t) = Len(s) + Len(t)
  BY <1>6
<1>8. Len(s \o t) = 2 * (Octets - w)
  BY <1>4, <1>6, <1>7
<1> QED
  BY <1>3, <1>7, <1>8 DEF s, t, w

\* A network that is not its own wrapping network has an octet of its own.
LEMMA NotWhole ==
  ASSUME NEW N, IsNetwork(N), Wrapper(N) # N
  PROVE  Whole(N) < Octets
<1> DEFINE w == Whole(N)
           W == Wrapper(N)
<1>1. /\ IsNetwork(W) /\ w \in 0 .. Octets /\ W.len = Bits * w /\ W.len <= N.len
      /\ NetSize(W) = Part(w)
  BY WrapperFits
<1>2. SUFFICES ASSUME w = Octets PROVE FALSE
  BY <1>1, WidthType
<1>3. W.len = Width
  <2>1. Bits * Octets = Octets * Bits
    BY WidthType
  <2> QED
    BY <1>1, <1>2, <2>1 DEF Width
<1>4. N.len = Width
  BY <1>1, <1>3, WidthType DEF IsNetwork
<1>5. W.net = N.net - (N.net % Pow2[0])
  <2>1. Width - Bits * w = 0
    BY <1>1, <1>3, WidthType
  <2>2. W = [net |-> N.net - (N.net % Pow2[Width - Bits * w]), len |-> Bits * w]
    BY DEF Wrapper
  <2> QED
    BY <2>1, <2>2
<1>6. N.net \in Nat
  BY NetworkFits DEF Address
<1>7. N.net % 1 = 0
  BY <1>6
<1>8. W.net = N.net
  BY <1>5, <1>6, <1>7, Pow2Defined
<1>9. W = N
  BY <1>1, <1>3, <1>4, <1>8 DEF IsNetwork
<1> QED
  BY <1>9

\* The name of a zone of its own: single numbers for the octets of the wrapping network,
\* then one label of at least two numbers.
LEMMA OwnType ==
  ASSUME NEW N, IsNetwork(N), Wrapper(N) # N
  PROVE  /\ OwnZone(N).name \in Seq(Seq(Nat)) /\ Len(OwnZone(N).name) = Whole(N) + 1
         /\ Whole(N) \in 0 .. Octets
         /\ \A k \in 1 .. Whole(N) : OwnZone(N).name[k] = Simple(Wrapper(N))[k]
         /\ OwnZone(N).name[Whole(N) + 1] = ClasslessShortName(N, Wrapper(N))
         /\ Len(ClasslessShortName(N, Wrapper(N))) # 1
<1> DEFINE w == Whole(N)
           s == Simple(Wrapper(N))
           c == ClasslessShortName(N, Wrapper(N))
<1>1. s \in Seq(Seq(Nat)) /\ Len(s) = w /\ w \in 0 .. Octets
  BY SimpleType
<1>2. c \in Seq(Nat) /\ Len(c) = 2 * (Octets - w)
  BY ShortType
<1>3. OwnZone(N).name = s \o <<c>>
  BY DEF OwnZone
<1> HIDE DEF w, s, c
<1>4. /\ s \o <<c>> \in Seq(Seq(Nat)) /\ Len(s \o <<c>>) = w + 1
      /\ \A k \in 1 .. w : (s \o <<c>>)[k] = s[k]
      /\ (s \o <<c>>)[w + 1] = c
  BY <1>1, <1>2
<1>5. Len(c) # 1
  BY <1>1, <1>2, WidthType
<1> QED
  BY <1>1, <1>3, <1>4, <1>5 DEF w, s, c

\* The rendered zones are these and no others.
LEMMA ZonesAre ==
  ASSUME NEW nets, PlanOK(nets), NEW wrap,
         \A T \in Served(nets) : wrap[T] = Wrapper(nets[T])
  PROVE  /\ \A z \in Zones(nets, wrap) : \E S \in Served(nets) :
               \/ z = SimpleZone(nets[S])
               \/ Wrapper(nets[S]) # nets[S] /\ z = OwnZone(nets[S])
         /\ \A S \in Served(nets) :
               /\ SimpleZone(nets[S]) \in Zones(nets, wrap)
               /\ Wrapper(nets[S]) # nets[S] => OwnZone(nets[S]) \in Zones(nets, wrap)
<1>1. ASSUME NEW S \in Served(nets)
      PROVE  NetworkZoneName(nets[S], wrap[S])
               = IF Wrapper(nets[S]) = nets[S] THEN SimpleZone(nets[S]).name
                 ELSE OwnZone(nets[S]).name
  <2>1. IsNetwork(nets[S])
    BY ServedNets DEF PlanOK
  <2>2. Simple(Wrapper(nets[S])) \in Seq(Seq(Nat))
    BY <2>1, SimpleType
  <2>3. Simple(Wrapper(nets[S])) \o <<>> = Simple(Wrapper(nets[S]))
    BY <2>2
  <2> QED
    BY <2>3 DEF NetworkZoneName, SimpleZone, OwnZone, Simple
<1>2. ASSUME NEW S \in Served(nets)
      PROVE  NetworkZoneName(Wrapper(nets[S]), Wrapper(nets[S])) = SimpleZone(nets[S]).name
  <2>1. IsNetwork(nets[S])
    BY ServedNets DEF PlanOK
  <2>2. Simple(Wrapper(nets[S])) \in Seq(Seq(Nat))
    BY <2>1, SimpleType
  <2>3. Simple(Wrapper(nets[S])) \o <<>> = Simple(Wrapper(nets[S]))
    BY <2>2
  <2> QED
    BY <2>3 DEF NetworkZoneName, SimpleZone, Simple
<1>3. LinkingNets(nets) = {Wrapper(nets[S]) : S \in {R \in Served(nets) : Wrapper(nets[R]) # nets[R]}}
  <2>1. \A S \in Served(nets), R \in DOMAIN nets : Wrapper(nets[S]) = nets[R] => R = S
    BY DEF PlanOK, PlainWrappers
  <2> QED
    BY <2>1, ClassfulAre, ServedNets DEF LinkingNets
<1>4. ASSUME NEW z \in Zones(nets, wrap)
      PROVE  \E S \in Served(nets) :
               \/ z = SimpleZone(nets[S])
               \/ Wrapper(nets[S]) # nets[S] /\ z = OwnZone(nets[S])
  <2>1. CASE \E S \in Served(nets) :
               z = [name |-> NetworkZoneName(nets[S], wrap[S]), net |-> nets[S], link |-> FALSE]
    <3>1. PICK S \in Served(nets) :
             z = [name |-> NetworkZoneName(nets[S], wrap[S]), net |-> nets[S], link |-> FALSE]
      BY <2>1
    <3>2. CASE Wrapper(nets[S]) = nets[S]
      BY <1>1, <3>1, <3>2 DEF SimpleZone
    <3>3. CASE Wrapper(nets[S]) # nets[S]
      BY <1>1, <3>1, <3>3 DEF OwnZone
    <3> QED
      BY <3>2, <3>3
  <2>2. CASE \E NC \in LinkingNets(nets) :
               z = [name |-> NetworkZoneName(NC, NC), net |-> NC, link |-> TRUE]
    <3>1. PICK S \in Served(nets) : /\ Wrapper(nets[S]) # nets[S]
                                    /\ z = [name |-> NetworkZoneName(Wrapper(nets[S]), Wrapper(nets[S])),
                                            net |-> Wrapper(nets[S]), link |-> TRUE]
      BY <1>3, <2>2
    <3> QED
      BY <1>2, <3>1 DEF SimpleZone
  <2> QED
    BY <2>1, <2>2 DEF Zones
<1>5. ASSUME NEW S \in Served(nets)
      PROVE  /\ SimpleZone(nets[S]) \in Zones(nets, wrap)
             /\ Wrapper(nets[S]) # nets[S] => OwnZone(nets[S]) \in Zones(nets, wrap)
  <2>1. [name |-> NetworkZoneName(nets[S], wrap[S]), net |-> nets[S], link |-> FALSE]
          \in Zones(nets, wrap)
    BY DEF Zones
  <2>2. CASE Wrapper(nets[S]) = nets[S]
    BY <1>1, <2>1, <2>2 DEF SimpleZone
  <2>3. CASE Wrapper(nets[S]) # nets[S]
    <3>1. OwnZone(nets[S]) \in Zones(nets, wrap)
      BY <1>1, <2>1, <2>3 DEF OwnZone
    <3>2. Wrapper(nets[S]) \in LinkingNets(nets)
      BY <1>3, <2>3
    <3>3. [name |-> NetworkZoneName(Wrapper(nets[S]), Wrapper(nets[S])),
           net |-> Wrapper(nets[S]), link |-> TRUE] \in Zones(nets, wrap)
      BY <3>2 DEF Zones
    <3>4. SimpleZone(nets[S]) \in Zones(nets, wrap)
      BY <1>2, <2>3, <3>3 DEF SimpleZone
    <3> QED
      BY <3>1, <3>4
  <2> QED
    BY <2>2, <2>3
<1> QED
  BY <1>4, <1>5

LEMMA OneNumber == ASSUME NEW x PROVE Len(<<x>>) = 1
OBVIOUS

LEMMA QueryType ==
  ASSUME NEW ip \in Nat
  PROVE  LET q == Labels(ip, 1, Octets)
         IN  /\ q \in Seq(Seq(Nat)) /\ Len(q) = Octets
             /\ \A k \in 1 .. Octets : q[k] = <<OctetOf(ip, k)>>
<1>1. ip \in Int /\ 1 \in 1 .. (Octets + 1) /\ Octets \in (1 - 1) .. Octets /\ Octets - 1 + 1 = Octets
  BY WidthType
<1>2. /\ Labels(ip, 1, Octets) \in Seq(Seq(Nat)) /\ Len(Labels(ip, 1, Octets)) = Octets
      /\ \A k \in 1 .. Octets : Labels(ip, 1, Octets)[k] = <<OctetOf(ip, 1 + k - 1)>>
  BY <1>1, LabelsType
<1>3. \A k \in 1 .. Octets : 1 + k - 1 = k
  BY WidthType
<1> QED
  BY <1>2, <1>3

\* A query for an address is inside of the zone of a wrapping network when the address is.
LEMMA PrefixOfAddress ==
  ASSUME NEW N, IsNetwork(N), NEW ip \in Address
  PROVE  IsPrefix(Simple(Wrapper(N)), Labels(ip, 1, Octets)) <=> ip \in Addresses(Wrapper(N))
<1> DEFINE w == Whole(N)
           W == Wrapper(N)
           s == Simple(W)
           q == Labels(ip, 1, Octets)
<1>0. ip \in Nat
  BY DEF Address
<1>1. /\ s \in Seq(Seq(Nat)) /\ Len(s) = w /\ w \in 0 .. Octets
      /\ \A k \in 1 .. w : s[k] = <<OctetOf(W.net, k)>>
  BY SimpleType
<1>2. /\ q \in Seq(Seq(Nat)) /\ Len(q) = Octets
      /\ \A k \in 1 .. Octets : q[k] = <<OctetOf(ip, k)>>
  BY <1>0, QueryType
<1>3. IsNetwork(W) /\ NetSize(W) = Part(w)
  BY WrapperFits
<1>4. /\ W.net \in Address
      /\ \A x : x \in Addresses(W) <=> x \in Nat /\ x \div Part(w) = W.net \div Part(w)
  BY <1>3, NetworkFits
<1> HIDE DEF w, W, s, q
<1>5. IsPrefix(s, q) <=> Len(s) <= Len(q) /\ \A k \in 1 .. Len(s) : s[k] = q[k]
  BY <1>1, <1>2, PrefixOfName
<1>6. Len(s) <= Len(q) /\ \A k \in 1 .. w : k \in 1 .. Octets
  BY <1>1, <1>2, WidthType
<1>7. \A k \in 1 .. w : s[k] = q[k] <=> OctetOf(W.net, k) = OctetOf(ip, k)
  <2>1. ASSUME NEW k \in 1 .. w PROVE s[k] = q[k] <=> OctetOf(W.net, k) = OctetOf(ip, k)
    <3>1. s[k] = <<OctetOf(W.net, k)>> /\ q[k] = <<OctetOf(ip, k)>>
      BY <1>1, <1>2, <1>6
    <3> QED
      BY <3>1
  <2> QED
    BY <2>1
<1>8. (\A k \in 1 .. w : OctetOf(W.net, k) = OctetOf(ip, k))
        <=> W.net \div Part(w) = ip \div Part(w)
  BY <1>1, <1>4, LeadingOctets
<1>9. IsPrefix(s, q) <=> ip \in Addresses(W)
  BY <1>0, <1>1, <1>4, <1>5, <1>6, <1>7, <1>8
<1> QED
  BY <1>9 DEF s, q, W

\* No query for an address is inside of a network's own zone.
LEMMA NotBelowOwn ==
  ASSUME NEW N, IsNetwork(N), Wrapper(N) # N, NEW ip \in Nat
  PROVE  ~ IsPrefix(OwnZone(N).name, Labels(ip, 1, Octets))
<1> DEFINE w == Whole(N)
           s == OwnZone(N).name
           q == Labels(ip, 1, Octets)
           c == ClasslessShortName(N, Wrapper(N))
<1>1. /\ s \in Seq(Seq(Nat)) /\ Len(s) = w + 1 /\ w \in 0 .. Octets
      /\ s[w + 1] = c /\ Len(c) # 1
  BY OwnType
<1>2. /\ q \in Seq(Seq(Nat)) /\ Len(q) = Octets
      /\ \A k \in 1 .. Octets : q[k] = <<OctetOf(ip, k)>>
  BY QueryType
<1>3. w + 1 \in 1 .. Octets
  BY <1>1, NotWhole, WidthType
<1> HIDE DEF w, s, q, c
<1>4. Len(q[w + 1]) = 1
  BY <1>2, <1>3, OneNumber
<1>5. ASSUME IsPrefix(s, q) PROVE FALSE
  <2>1. \A k \in 1 .. Len(s) : s[k] = q[k]
    BY <1>1, <1>2, <1>5, PrefixOfName
  <2>2. w + 1 \in 1 .. Len(s)
    BY <1>1
  <2> QED
    BY <1>1, <1>4, <2>1, <2>2
<1> QED
  BY <1>5 DEF s, q

\* The zone of the wrapping network answers a query for an address.
LEMMA AnswersAddress ==
  ASSUME NEW nets, PlanOK(nets), NEW wrap,
         \A S \in Served(nets) : wrap[S] = Wrapper(nets[S]),
         NEW T \in Served(nets), NEW ip \in Addresses(nets[T])
  PROVE  SimpleZone(nets[T]) \in Answering(Labels(ip, 1, Octets), Zones(nets, wrap))
<1> DEFINE q == Labels(ip, 1, Octets)
<1>1. \A S \in Served(nets) : IsNetwork(nets[S])
  BY ServedNets DEF PlanOK
<1>2. IsNetwork(Wrapper(nets[T])) /\ ip \in Addresses(Wrapper(nets[T]))
  BY <1>1, WrapperFits, AddressesOfSubnet
<1>3. ip \in Address
  <2> DEFINE N == nets[T]
  <2>1. /\ NetSize(N) \in Nat \ {0} /\ N.net \in Address
        /\ N.net + NetSize(N) <= Pow2[Width]
    BY <1>1, NetworkFits
  <2>2. ip \in N.net .. (N.net + NetSize(N) - 1)
    BY DEF Addresses
  <2>3. Pow2[Width] \in Nat
    BY Pow2Type, WidthType
  <2> HIDE DEF N
  <2> QED
    BY <2>1, <2>2, <2>3 DEF Address
<1>4. IsPrefix(SimpleZone(nets[T]).name, q)
  BY <1>1, <1>2, <1>3, PrefixOfAddress DEF SimpleZone
<1>5. ASSUME NEW y \in Zones(nets, wrap), IsPrefix(y.name, q)
      PROVE  Len(y.name) <= Len(SimpleZone(nets[T]).name)
  <2>1. PICK S \in Served(nets) : \/ y = SimpleZone(nets[S])
                                  \/ Wrapper(nets[S]) # nets[S] /\ y = OwnZone(nets[S])
    BY ZonesAre
  <2>2. y = SimpleZone(nets[S])
    BY <1>1, <1>3, <1>5, <2>1, NotBelowOwn DEF Address
  <2>3. ip \in Addresses(Wrapper(nets[S]))
    BY <1>1, <1>3, <1>5, <2>2, PrefixOfAddress DEF SimpleZone
  <2>4. y.name = SimpleZone(nets[T]).name
    BY <1>2, <2>2, <2>3, OneWrapper DEF SimpleZone
  <2>5. Len(SimpleZone(nets[T]).name) \in Nat
    BY <1>1, SimpleType, WidthType DEF SimpleZone
  <2> QED
    BY <2>4, <2>5
<1>6. SimpleZone(nets[T]) \in Zones(nets, wrap)
  BY ZonesAre
<1> QED
  BY <1>4, <1>5, <1>6 DEF Answering

\* The network's own zone answers a query for a name that a link points to.
LEMMA AnswersTarget ==
  ASSUME NEW nets, PlanOK(nets), NEW wrap,
         \A S \in Served(nets) : wrap[S] = Wrapper(nets[S]),
         NEW T \in Served(nets), Wrapper(nets[T]) # nets[T], NEW ip \in Nat
  PROVE  OwnZone(nets[T]) \in Answering(PtrName(OwnZone(nets[T]), ip), Zones(nets, wrap))
<1> DEFINE N == nets[T]
           w == Whole(N)
           s == OwnZone(N).name
           c == ClasslessShortName(N, Wrapper(N))
           r == HostRevIP(ip, N)
           t == s \o r
<1>1. \A S \in Served(nets) : IsNetwork(nets[S])
  BY ServedNets DEF PlanOK
<1>2. /\ s \in Seq(Seq(Nat)) /\ Len(s) = w + 1 /\ w \in 0 .. Octets
      /\ \A k \in 1 .. w : s[k] = Simple(Wrapper(N))[k]
      /\ s[w + 1] = c /\ Len(c) # 1
  BY <1>1, OwnType
<1>3. \A k \in 1 .. w : Simple(Wrapper(N))[k] = <<OctetOf(Wrapper(N).net, k)>>
  BY <1>1, SimpleType
<1>4. r \in Seq(Seq(Nat)) /\ Len(r) = Octets - w
      /\ \A k \in 1 .. (Octets - w) : Len(r[k]) = 1
  <2>1. r = Labels(ip, w + 1, Octets)
    BY DEF HostRevIP
  <2> HIDE DEF w, r
  <2>2. /\ ip \in Int /\ w + 1 \in 1 .. (Octets + 1) /\ Octets \in ((w + 1) - 1) .. Octets
        /\ Octets - (w + 1) + 1 = Octets - w
    BY <1>2, WidthType
  <2>3. /\ r \in Seq(Seq(Nat)) /\ Len(r) = Octets - w
        /\ \A k \in 1 .. (Octets - w) : r[k] = <<OctetOf(ip, (w + 1) + k - 1)>>
    BY <2>1, <2>2, LabelsType
  <2>4. ASSUME NEW k \in 1 .. (Octets - w) PROVE Len(r[k]) = 1
    BY <2>3, OneNumber
  <2> QED
    BY <2>3, <2>4
<1>5. PtrName(OwnZone(N), ip) = t
  BY DEF PtrName, OwnZone
<1>6. \A k \in 1 .. w : Len(s[k]) = 1
  BY <1>2, <1>3, OneNumber
<1> HIDE DEF w, s, c, r
<1>7. /\ t \in Seq(Seq(Nat)) /\ Len(t) = Octets + 1
      /\ \A k \in 1 .. (w + 1) : t[k] = s[k]
      /\ \A k \in 1 .. (Octets - w) : t[w + 1 + k] = r[k]
  <2>1. t \in Seq(Seq(Nat)) /\ Len(t) = Len(s) + Len(r)
    <3>1. s \in Seq(Seq(Nat)) /\ r \in Seq(Seq(Nat))
      BY <1>2, <1>4
    <3> QED
      BY <3>1
  <2>2. \A k \in 1 .. Len(s) : t[k] = s[k]
    BY <1>2, <1>4
  <2>3. \A k \in 1 .. Len(r) : t[Len(s) + k] = r[k]
    BY <1>2, <1>4
  <2>4. Len(t) = Octets + 1
    BY <1>2, <1>4, <2>1, WidthType
  <2> QED
    BY <1>2, <1>4, <2>1, <2>2, <2>3, <2>4
<1> HIDE DEF t
<1>8. Len(t[w + 1]) # 1
  <2>1. w + 1 \in 1 .. (w + 1)
    BY <1>2
  <2> QED
    BY <1>2, <1>7, <2>1
<1>9. \A k \in 1 .. (Octets + 1) : k # w + 1 => Len(t[k]) = 1
  <2>1. ASSUME NEW k \in 1 .. (Octets + 1), k # w + 1 PROVE Len(t[k]) = 1
    <3>1. CASE k <= w
      <4>1. k \in 1 .. w /\ k \in 1 .. (w + 1)
        BY <1>2, <3>1
      <4> QED
        BY <1>6, <1>7, <4>1
    <3>2. CASE k > w
      <4> DEFINE j == k - (w + 1)
      <4>1. j \in 1 .. (Octets - w) /\ k = w + 1 + j
        BY <1>2, <2>1, <3>2, WidthType
      <4> HIDE DEF j
      <4> QED
        BY <1>4, <1>7, <4>1
    <3> QED
      BY <1>2, <3>1, <3>2
  <2> QED
    BY <2>1
<1>10. IsPrefix(s, t)
  <2>1. Len(s) <= Len(t) /\ \A k \in 1 .. Len(s) : s[k] = t[k]
    BY <1>2, <1>7, WidthType
  <2> QED
    BY <1>2, <1>7, <2>1, PrefixOfName
<1>11. ASSUME NEW y \in Zones(nets, wrap), IsPrefix(y.name, t)
       PROVE  Len(y.name) <= Len(s)
  <2>1. PICK S \in Served(nets) : \/ y = SimpleZone(nets[S])
                                  \/ Wrapper(nets[S]) # nets[S] /\ y = OwnZone(nets[S])
    BY ZonesAre
  <2> DEFINE M == nets[S]
             v == Whole(M)
  <2>2. IsNetwork(M)
    BY <1>1
  <2>3. CASE y = SimpleZone(M)
    <3> DEFINE u == Simple(Wrapper(M))
    <3>1. /\ u \in Seq(Seq(Nat)) /\ Len(u) = v /\ v \in 0 .. Octets
          /\ \A k \in 1 .. v : u[k] = <<OctetOf(Wrapper(M).net, k)>>
      BY <2>2, SimpleType
    <3>2. y.name = u
      BY <2>3 DEF SimpleZone
    <3>3. \A k \in 1 .. v : Len(u[k]) = 1
      BY <3>1, OneNumber
    <3> HIDE DEF u, v
    <3>4. \A k \in 1 .. v : u[k] = t[k]
      BY <1>7, <1>11, <3>1, <3>2, PrefixOfName
    <3>5. w + 1 \notin 1 .. v
      BY <1>8, <3>3, <3>4
    <3> QED
      BY <1>2, <3>1, <3>2, <3>5, WidthType
  <2>4. CASE Wrapper(M) # M /\ y = OwnZone(M)
    <3> DEFINE u == OwnZone(M).name
               d == ClasslessShortName(M, Wrapper(M))
    <3>1. /\ u \in Seq(Seq(Nat)) /\ Len(u) = v + 1 /\ v \in 0 .. Octets
          /\ u[v + 1] = d /\ Len(d) # 1
      BY <2>2, <2>4, OwnType
    <3>2. y.name = u
      BY <2>4
    <3> HIDE DEF u, v, d
    <3>3. \A k \in 1 .. (v + 1) : u[k] = t[k]
      BY <1>7, <1>11, <3>1, <3>2, PrefixOfName
    <3>4. v + 1 \in 1 .. (v + 1) /\ v + 1 \in 1 .. (Octets + 1)
      BY <3>1, WidthType
    <3>5. v + 1 = w + 1
      BY <1>9, <3>1, <3>3, <3>4
    <3> QED
      BY <1>2, <3>1, <3>2, <3>5
  <2> QED
    BY <2>1, <2>3, <2>4
<1>12. OwnZone(N) \in Zones(nets, wrap)
  BY ZonesAre
<1> QED
  BY <1>5, <1>10, <1>11, <1>12 DEF Answering, s

\* The hosts of a network are the hosts of no other network.
LEMMA HostsOfOne ==
  ASSUME NEW nets, PlanOK(nets), NEW S \in DOMAIN nets, NEW T \in DOMAIN nets,
         NEW ip \in Hosts(nets[S]), ip \in Hosts(nets[T])
  PROVE  S = T
<1>1. \A R \in DOMAIN nets : Hosts(nets[R]) \subseteq Addresses(nets[R])
  <2> SUFFICES ASSUME NEW R \in DOMAIN nets
               PROVE  Hosts(nets[R]) \subseteq Addresses(nets[R])
    OBVIOUS
  <2>1. nets[R].net \in Nat /\ NetSize(nets[R]) \in Nat
    BY NetworkFits DEF PlanOK, Address
  <2> QED
    BY <2>1 DEF Hosts, Addresses
<1> QED
  BY <1>1, OneNetwork

\* A query for a host finds the PTR of its network, through the link of the wrapping
\* network where there is one, and nothing else.
LEMMA LookupFinds ==
  ASSUME NEW nets, PlanOK(nets), NEW wrap,
         \A S \in Served(nets) : wrap[S] = Wrapper(nets[S]),
         NEW T \in Served(nets), NEW ip \in Hosts(nets[T])
  PROVE  ReverseLookup(ip, nets, wrap) = {nets[T]}
<1> DEFINE N == nets[T]
           zones == Zones(nets, wrap)
           q == Labels(ip, 1, Octets)
<1>1. /\ IsNetwork(N) /\ T \in DOMAIN nets
      /\ \A S \in Served(nets) : S \in DOMAIN nets /\ IsNetwork(nets[S])
  BY ServedNets DEF PlanOK
<1>2. ip \in Addresses(N) /\ ip \in Nat
  <2>1. N.net \in Nat /\ NetSize(N) \in Nat
    BY <1>1, NetworkFits DEF Address
  <2> HIDE DEF N
  <2>2. ip \in Hosts(N)
    BY DEF N
  <2> QED
    BY <2>1, <2>2 DEF Hosts, Addresses
<1>3. ASSUME NEW t PROVE WithPtr(t, ip, zones) \subseteq {N}
  <2> SUFFICES ASSUME NEW z \in zones, ~ z.link, ip \in Hosts(z.net) PROVE z.net = N
    BY DEF WithPtr, Answering
  <2>1. PICK S \in Served(nets) : \/ z = SimpleZone(nets[S])
                                  \/ Wrapper(nets[S]) # nets[S] /\ z = OwnZone(nets[S])
    BY ZonesAre
  <2>2. z.net = nets[S]
    <3>1. CASE z = SimpleZone(nets[S])
      <4>1. z.link = (Wrapper(nets[S]) # nets[S]) /\ z.net = Wrapper(nets[S])
        BY <3>1 DEF SimpleZone
      <4> QED
        BY <4>1
    <3>2. CASE z = OwnZone(nets[S])
      BY <3>2 DEF OwnZone
    <3> QED
      BY <2>1, <3>1, <3>2
  <2> QED
    BY <1>1, <2>2, HostsOfOne
<1>4. ReverseLookup(ip, nets, wrap) \subseteq {N}
  BY <1>3 DEF ReverseLookup
<1>5. SimpleZone(N) \in Answering(q, zones)
  BY <1>2, AnswersAddress
<1>6. CASE Wrapper(N) = N
  <2>1. SimpleZone(N) = [name |-> Simple(N), net |-> N, link |-> FALSE]
    BY <1>6 DEF SimpleZone
  <2>2. q = Simple(N) \o HostRevIP(ip, N)
    <3> DEFINE w == Whole(N)
               s == Simple(N)
               r == HostRevIP(ip, N)
    <3>1. s \in Seq(Seq(Nat)) /\ Len(s) = w /\ w \in 0 .. Octets
      BY <1>1, <1>6, SimpleType
    <3>2. IsPrefix(s, q)
      BY <1>5, <2>1 DEF Answering
    <3>3. /\ q \in Seq(Seq(Nat)) /\ Len(q) = Octets
          /\ \A k \in 1 .. Octets : q[k] = <<OctetOf(ip, k)>>
      BY <1>2, QueryType
    <3>4. r = Labels(ip, w + 1, Octets)
      BY DEF HostRevIP
    <3> HIDE DEF w, s, r, q
    <3>5. /\ ip \in Int /\ w + 1 \in 1 .. (Octets + 1) /\ Octets \in ((w + 1) - 1) .. Octets
          /\ Octets - (w + 1) + 1 = Octets - w
      BY <1>2, <3>1, WidthType
    <3>6. /\ r \in Seq(Seq(Nat)) /\ Len(r) = Octets - w
          /\ \A k \in 1 .. (Octets - w) : r[k] = <<OctetOf(ip, (w + 1) + k - 1)>>
      BY <3>4, <3>5, LabelsType
    <3>7. \A k \in 1 .. w : s[k] = q[k]
      BY <3>1, <3>2, <3>3, PrefixOfName
    <3>8. /\ s \o r \in Seq(Seq(Nat)) /\ Len(s \o r) = Len(s) + Len(r)
          /\ \A k \in 1 .. Len(s) : (s \o r)[k] = s[k]
          /\ \A k \in 1 .. Len(r) : (s \o r)[Len(s) + k] = r[k]
      <4>1. s \in Seq(Seq(Nat)) /\ r \in Seq(Seq(Nat))
        BY <3>1, <3>6
      <4> QED
        BY <4>1
    <3>9. Len(s \o r) = Octets
      BY <3>1, <3>6, <3>8, WidthType
    <3>10. ASSUME NEW k \in 1 .. Octets PROVE (s \o r)[k] = q[k]
      <4>1. CASE k <= w
        BY <3>1, <3>7, <3>8, <4>1
      <4>2. CASE k > w
        <5> DEFINE j == k - w
        <5>1. j \in 1 .. (Octets - w) /\ k = w + j /\ (w + 1) + j - 1 = k
          BY <3>1, <4>2, WidthType
        <5> HIDE DEF j
        <5>2. (s \o r)[w + j] = r[j]
          BY <3>1, <3>6, <3>8, <5>1
        <5>3. r[j] = <<OctetOf(ip, k)>>
          BY <3>6, <5>1
        <5> QED
          BY <3>3, <5>1, <5>2, <5>3
      <4>3. k <= w \/ k > w
        BY <3>1, WidthType
      <4> QED
        BY <4>1, <4>2, <4>3
    <3>11. s \o r = q
      BY <3>3, <3>8, <3>9, <3>10, SeqEqual
    <3> QED
      BY <3>11 DEF s, r
  <2> HIDE DEF q
  <2>3. /\ SimpleZone(N).net = N /\ ~ SimpleZone(N).link
        /\ q = PtrName(SimpleZone(N), ip)
    BY <2>1, <2>2 DEF PtrName
  <2>4. N \in WithPtr(q, ip, zones)
    BY <1>5, <2>3 DEF WithPtr
  <2> QED
    BY <1>4, <2>4 DEF ReverseLookup, q
<1>7. CASE Wrapper(N) # N
  <2> DEFINE W == Wrapper(N)
             t == Simple(W) \o <<ClasslessShortName(N, W)>> \o HostRevIP(ip, N)
  <2>1. SimpleZone(N) = [name |-> Simple(W), net |-> W, link |-> TRUE]
    BY <1>7 DEF SimpleZone
  <2>2. IsSubnetOf(N, W)
    BY <1>1, WrapperFits
  <2>3. t \in CnameTargets(SimpleZone(N), ip, nets)
    BY <1>1, <1>7, <2>1, <2>2 DEF CnameTargets
  <2>4. t = PtrName(OwnZone(N), ip)
    BY DEF PtrName, OwnZone
  <2>5. OwnZone(N) \in Answering(t, zones)
    BY <1>2, <1>7, <2>4, AnswersTarget
  <2> HIDE DEF t
  <2>6. OwnZone(N).net = N /\ ~ OwnZone(N).link
    BY DEF OwnZone
  <2>7. N \in WithPtr(t, ip, zones)
    BY <2>4, <2>5, <2>6 DEF WithPtr
  <2>8. SimpleZone(N).link
    BY <2>1
  <2>9. t \in UNION {CnameTargets(z, ip, nets) : z \in {y \in Answering(q, zones) : y.link}}
    BY <1>5, <2>3, <2>8
  <2>10. N \in ReverseLookup(ip, nets, wrap)
    BY <2>7, <2>9 DEF ReverseLookup
  <2> QED
    BY <1>4, <2>10
<1> QED
  BY <1>6, <1>7

\* At most one network has a CNAME for a host.
LEMMA OneTarget ==
  ASSUME NEW nets, PlanOK(nets), NEW T \in Served(nets), NEW ip \in Hosts(nets[T]), NEW z
  PROVE  Cardinality(CnameTargets(z, ip, nets)) <= 1
<1> DEFINE N == nets[T]
           t == z.name \o <<ClasslessShortName(N, z.net)>> \o HostRevIP(ip, N)
<1>1. \A S \in DOMAIN nets : ip \in Hosts(nets[S]) => nets[S] = N
  BY HostsOfOne, ServedNets
<1>2. CnameTargets(z, ip, nets) \subseteq {t}
  BY <1>1 DEF CnameTargets
<1>3. CnameTargets(z, ip, nets) = {} \/ CnameTargets(z, ip, nets) = {t}
  BY <1>2
<1> HIDE DEF t
<1>4. Cardinality({}) = 0 /\ Cardinality({t}) = 1
  BY FS_EmptySet, FS_Singleton
<1> QED
  BY <1>3, <1>4

\* The networks are networks when the zones are derived, and what findClassful returned
\* is there when they are rendered.
WrapInv ==
  /\ pc \in {"21_revzones", "25_firewall"} =>
       \A T \in DOMAIN cfg.nets : IsNetwork(cfg.nets[T])
  /\ pc = "25_firewall" =>
       \A T \in Served(cfg.nets) : ns.wrap[T] \in FindClassful(cfg.nets[T], cfg.nets)

LEMMA WrapInductive == WrapInv /\ [Next]_vars => WrapInv'
<1> SUFFICES ASSUME WrapInv, [Next]_vars PROVE WrapInv'
  OBVIOUS
<1>1. CASE NetworksFile
  <2>1. cfg' = cfg /\ pc' \in {"21_revzones", "failed"} /\ (pc' = "21_revzones" => NetworksFault = "")
    BY <1>1 DEF NetworksFile, Execute
  <2>2. NetworksFault = "" => \A T \in DOMAIN cfg.nets : IsNetwork(cfg.nets[T])
    BY DEF NetworksFault
  <2> QED
    BY <2>1, <2>2 DEF WrapInv
<1>2. CASE Revzones
  <2>1. PICK wrap \in [Served(cfg.nets) -> ClassfulNets(cfg.nets)] :
          /\ \A T \in Served(cfg.nets) : wrap[T] \in FindClassful(cfg.nets[T], cfg.nets)
          /\ Execute("21_revzones", "25_firewall", "", [wrap |-> wrap])
    BY <1>2 DEF Revzones
  <2>2. pc = "21_revzones" /\ cfg' = cfg /\ ns'["wrap"] = wrap
    BY <2>1 DEF Execute, Bind, Update
  <2> QED
    BY <2>1, <2>2 DEF WrapInv
<1>3. CASE Baseparams \/ Funchosts \/ FirewallFile \/ Networking
             \/ OrganizationFile \/ Usbdev
  BY <1>3 DEF Baseparams, Funchosts, FirewallFile, Networking, OrganizationFile,
              Usbdev, Execute, WrapInv
<1>4. CASE UNCHANGED vars
  BY <1>4 DEF vars, WrapInv
<1> QED
  BY <1>1, <1>2, <1>3, <1>4 DEF Next

\* Reverse DNS of a plain plan: a query for any host of a served network reaches the PTR
\* in the zone of that network and in no other, whichever wrapping network findClassful
\* picked, and no name has two CNAMEs; for any number of networks of any lengths.
THEOREM ReverseResolvesCorrect == Spec => []ReverseResolves
<1>1. Init => WrapInv
  BY DEF Init, WrapInv
<1>2. ASSUME TypeOK, WrapInv PROVE ReverseResolves
  <2> SUFFICES ASSUME pc = "25_firewall", Disjoint(cfg.nets), PlainWrappers(cfg.nets),
                      NEW T \in Served(cfg.nets), NEW ip \in Hosts(cfg.nets[T])
               PROVE  /\ ReverseLookup(ip, cfg.nets, ns.wrap) = {cfg.nets[T]}
                      /\ \A z \in Zones(cfg.nets, ns.wrap) :
                            z.link => Cardinality(CnameTargets(z, ip, cfg.nets)) <= 1
    BY DEF ReverseResolves
  <2>1. PlanOK(cfg.nets)
    BY <1>2 DEF WrapInv, PlanOK
  <2>2. \A S \in Served(cfg.nets) : ns.wrap[S] = Wrapper(cfg.nets[S])
    BY <1>2, <2>1, WrapsAre DEF WrapInv
  <2> QED
    BY <2>1, <2>2, LookupFinds, OneTarget
<1> QED
  BY <1>1, <1>2, WrapInductive, RenderingTypeCorrect, PTL DEF Spec

-----------------------------------------------------------------------------
(* 12_passfiles: the generated passwords, which templates read while other *)
(* renderings do, for any number of configurations, expirations, failures  *)
(* and stops.                                                              *)

\* The types of the variables; a rendering reads or writes only a file that exists,
\* and what it writes is a password.
THEOREM PassTypeCorrect == PassSpec => []PassTypeOK
<1>1. PassInit => PassTypeOK
  BY PasswordAssumption, FaultsAssumption
  DEF PassInit, PassTypeOK, NotRunning, JobType, Content
<1>2. PassTypeOK /\ [PassNext]_passVars => PassTypeOK'
  <2> SUFFICES ASSUME PassTypeOK, [PassNext]_passVars PROVE PassTypeOK'
    OBVIOUS
  <2>0. CASE UNCHANGED passVars
    BY <2>0 DEF PassTypeOK, passVars
  <2>1. CASE Expire
    <3>1. PICK f \in file : file' = {[f EXCEPT !.young = FALSE]}
      BY <2>1 DEF Expire
    <3>2. \E g \in PassFile : file' = {g}
      BY <3>1 DEF PassTypeOK, PassFile
    <3> QED
      BY <2>1, <3>2 DEF Expire, PassTypeOK
  <2>2. CASE Stop
    BY <2>2, PasswordAssumption, FaultsAssumption
    DEF Stop, Fault, NotRunning, PassTypeOK, JobType, Content
  <2>3. ASSUME NEW c \in Config, Raise(c) PROVE PassTypeOK'
    BY <2>3, PasswordAssumption, FaultsAssumption
    DEF Raise, Fault, NotRunning, PassTypeOK, JobType, Content
  <2>4. ASSUME NEW c \in Config, Check(c) PROVE PassTypeOK'
    BY <2>4 DEF Check, PassTypeOK, JobType
  <2>5. ASSUME NEW c \in Config, Read(c) PROVE PassTypeOK'
    BY <2>5 DEF Read, Return, Contents, NotRunning, PassTypeOK, JobType, PassFile, Content
  <2>6. ASSUME NEW c \in Config, Generate(c) PROVE PassTypeOK'
    <3>1. \E g \in PassFile : file' = {g}
      BY <2>6 DEF Generate, PassFile, Content
    <3> QED
      BY <2>6, <3>1, PasswordAssumption, FaultsAssumption
      DEF Generate, Meet, Active, PassTypeOK, JobType, Content
  <2>7. ASSUME NEW c \in Config, Write(c) PROVE PassTypeOK'
    <3>1. job[c].password \in Content
      BY <2>7 DEF PassTypeOK, JobType
    <3>2. \E g \in PassFile : file' = {g}
      BY <2>7, <3>1 DEF Write, PassFile
    <3> QED
      BY <2>7, <3>1, <3>2
      DEF Write, Return, Meet, Active, NotRunning, PassTypeOK, JobType, Content
  <2> QED
    BY <2>0, <2>1, <2>2, <2>3, <2>4, <2>5, <2>6, <2>7 DEF PassNext, Render
<1> QED
  BY <1>1, <1>2, PTL DEF PassSpec

\* A configuration that has a password never gets an empty one.
THEOREM NeverEmptyCorrect == PassSpec => NeverEmpty
<1> DEFINE Full == \A c \in Config : conf'[c] = NoPassword => conf[c] = NoPassword
<1>1. PassTypeOK /\ [PassNext]_passVars => [Full]_passVars
  <2> SUFFICES ASSUME PassTypeOK, PassNext PROVE Full
    OBVIOUS
  <2>1. CASE UNCHANGED conf
    BY <2>1
  <2>2. ASSUME NEW c \in Config, Read(c) PROVE Full
    BY <2>2 DEF Read, Return, PassTypeOK
  <2>3. ASSUME NEW c \in Config, Write(c) PROVE Full
    BY <2>3 DEF Write, Return, PassTypeOK
  <2> QED
    BY <2>1, <2>2, <2>3 DEF PassNext, Render, Expire, Stop, Raise,
                            Check, Generate
<1> QED
  BY <1>1, PassTypeCorrect, PTL DEF PassSpec, NeverEmpty

Valid(f) == f.young /\ f.content # NoPassword

\* A rendering that is about to replace the password, and during which no other
\* one wrote to the file, has no valid password before it.
NoneToReplace ==
  \A c \in Config \ met :
    job[c].pc \in {"generate", "write"} => \A f \in file : ~Valid(f)

LEMMA NoneToReplaceInductive ==
  PassTypeOK /\ NoneToReplace /\ [PassNext]_passVars => NoneToReplace'
<1> SUFFICES ASSUME PassTypeOK, NoneToReplace, [PassNext]_passVars PROVE NoneToReplace'
  OBVIOUS
<1>0. CASE UNCHANGED passVars
  BY <1>0 DEF NoneToReplace, passVars
<1>1. CASE Expire
  BY <1>1 DEF Expire, NoneToReplace, Valid, PassTypeOK, PassFile
<1>2. CASE Stop
  BY <1>2 DEF Stop, NotRunning, NoneToReplace
<1>3. ASSUME NEW c \in Config, Raise(c) PROVE NoneToReplace'
  BY <1>3 DEF Raise, NotRunning, NoneToReplace, PassTypeOK
<1>4. ASSUME NEW c \in Config, Check(c) PROVE NoneToReplace'
  BY <1>4 DEF Check, NoneToReplace, Valid, PassTypeOK, JobType
<1>5. ASSUME NEW c \in Config, Read(c) PROVE NoneToReplace'
  BY <1>5 DEF Read, Return, Contents, NotRunning, NoneToReplace, Valid, PassTypeOK, JobType
<1>6. ASSUME NEW c \in Config, Generate(c) PROVE NoneToReplace'
  BY <1>6 DEF Generate, NoneToReplace, Valid
<1>7. ASSUME NEW c \in Config, Write(c) PROVE NoneToReplace'
  BY <1>7 DEF Write, Return, Meet, Active, NotRunning, NoneToReplace, PassTypeOK
<1> QED
  BY <1>0, <1>1, <1>2, <1>3, <1>4, <1>5, <1>6, <1>7 DEF PassNext, Render

\* A password within its lifetime is replaced only by a rendering that overlapped
\* with the one that had written it.
THEOREM PasswordKeptCorrect == PassSpec => PasswordKept
<1> DEFINE Kept(f) ==
      \/ \E g \in file' : g.content = f.content
      \/ \E c \in met : job[c].pc = "generate" /\ job'[c].pc = "write"
      \/ \E c \in met : job[c].pc = "write" /\ job'[c].pc = "idle"
<1>1. PassInit => NoneToReplace
  BY DEF PassInit, NoneToReplace, NotRunning
<1>2. PassTypeOK /\ NoneToReplace /\ [PassNext]_passVars
        => [\A f \in file : f.young /\ f.content # NoPassword => Kept(f)]_passVars
  <2> SUFFICES ASSUME PassTypeOK, NoneToReplace, PassNext, NEW f \in file, Valid(f)
               PROVE  Kept(f)
    BY DEF Valid
  <2>1. CASE UNCHANGED file
    BY <2>1
  <2>2. CASE Expire
    BY <2>2 DEF Expire, PassTypeOK, PassFile
  <2>3. ASSUME NEW c \in Config, Generate(c) PROVE Kept(f)
    <3>1. c \in met
      BY <2>3 DEF Generate, NoneToReplace
    <3>2. job'[c].pc = "write"
      BY <2>3 DEF Generate, PassTypeOK
    <3> QED
      BY <2>3, <3>1, <3>2 DEF Generate
  <2>4. ASSUME NEW c \in Config, Write(c) PROVE Kept(f)
    <3>1. c \in met
      BY <2>4 DEF Write, NoneToReplace
    <3>2. job'[c].pc = "idle"
      BY <2>4 DEF Write, Return, NotRunning, PassTypeOK
    <3> QED
      BY <2>4, <3>1, <3>2 DEF Write
  <2> QED
    BY <2>1, <2>2, <2>3, <2>4 DEF PassNext, Render, Stop, Raise,
                                  Check, Read
<1> QED
  BY <1>1, <1>2, PassTypeCorrect, NoneToReplaceInductive, PTL
  DEF PassSpec, PasswordKept

\* The password in the file is young, every configuration contains it, and whatever
\* is being rendered is about to read it.
Agreed(password) ==
  /\ password # NoPassword
  /\ file = {[content |-> password, young |-> TRUE]}
  /\ \A c \in Config : conf[c] = password /\ job[c].pc \in {"idle", "read"}

\* Configurations that agree on a password do so until it reaches its lifetime,
\* however renderings overlap, fail or are stopped.
THEOREM AgreementStays ==
  PassSpec => [][\A x \in Password : Agreed(x) => Agreed(x)' \/ Expire]_passVars
<1>1. ASSUME PassTypeOK, PassNext, NEW x \in Password, Agreed(x)
      PROVE  Agreed(x)' \/ Expire
  <2>1. CASE Stop
    BY <1>1, <2>1 DEF Stop, NotRunning, Agreed
  <2>2. ASSUME NEW c \in Config, Raise(c) PROVE FALSE
    BY <1>1, <2>2 DEF Raise, Agreed
  <2>3. ASSUME NEW c \in Config, Check(c) PROVE Agreed(x)'
    BY <1>1, <2>3 DEF Check, Agreed, PassTypeOK, JobType
  <2>4. ASSUME NEW c \in Config, Read(c) PROVE Agreed(x)'
    <3>1. Contents = {x}
      BY <1>1 DEF Agreed, Contents
    <3>2. Return(c, x)
      BY <1>1, <2>4, <3>1 DEF Read, Agreed
    <3> QED
      BY <1>1, <2>4, <3>2 DEF Read, Return, NotRunning, Agreed, PassTypeOK
  <2>5. ASSUME NEW c \in Config, Generate(c) \/ Write(c) PROVE FALSE
    BY <1>1, <2>5 DEF Generate, Write, Agreed
  <2> QED
    BY <1>1, <2>1, <2>2, <2>3, <2>4, <2>5 DEF PassNext, Render
<1>2. PassTypeOK /\ [PassNext]_passVars
        => [\A x \in Password : Agreed(x) => Agreed(x)' \/ Expire]_passVars
  BY <1>1
<1> QED
  BY <1>2, PassTypeCorrect, PTL DEF PassSpec
=============================================================================
