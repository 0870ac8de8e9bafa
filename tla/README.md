# TLA+ models of Umbrella Linux

Umbrella Linux is a bcfg2 configuration repository for the network of a small
organization: a router, a config server, LDAP, Kerberos, mail and file servers in
virtual machines, and workstations that are registered in LDAP and installed from
the network. Most of it is declarative: templates and lists of packages, services
and files. Its own program logic is in the shell scripts that cron, bcfg2 and the
administrators run (`Cfg/usr/local/bin/*`), in the Python fragments that the
templates execute (`Python/*.py`), in the installer
(`Documentation/installer/umbrella-install`) and in one C program
(`Repository/kpoppassd/kpoppassd.c`).

This directory holds TLA+ modules for the scripts in which order, failure and
concurrency matter, and for the Python fragments that compute what the templates
contain, configurations that check them with TLC, and proofs that the
TLA+ proof system (tlapm) checks. Paths below are relative to the repository;
`mkkeys.sh:129` is line 129 of that script, wherever it is clear which directory it
lives in.

    tlc -config Mkkeys.cfg MCMkkeys            # one of the runs of PROJECT.json
    tlapm Mkkeys_proofs.tla                    # one of the proof modules

| Module | Models | Checked by | Proofs |
|---|---|---|---|
| RunLock | the lock file of the five-minute scripts | MCRunLock | RunLock_proofs |
| Mkkeys | `mkkeys.sh`, `ldapsanity.sh` | MCMkkeys | Mkkeys_proofs |
| LdapMirror | abstract: a copy of LDAP that is always some LDAP content | as a property of the next two | |
| ZonePublish | `umbrella-ldap2zone` | MCZonePublish | ZonePublish_proofs |
| DhcpPublish | `umbrella-ldap2dhcp` | DhcpPublish.cfg | DhcpPublish_proofs |
| Registration | `umbrella-addworkstation`, `umbrella-hosts` | MCRegistration | Registration_proofs |
| Crl | `umbrella-revoke-key` | Crl.cfg | Certificates_proofs |
| CertExpiry | `umbrella-expire-ssl-certs` | CertExpiry.cfg | Certificates_proofs |
| Networks, Organization, Servers | operators for `Python/00`, `10`, `20`, `21`, `25`, `30`, `35`, `40` | through Rendering | Templates_proofs |
| Rendering | the execution of these files for one template | MCRendering | Templates_proofs |
| ZoneSerial | `Python/32_zone_timestamp.py` | MCZoneSerial | ZoneSerial_proofs |
| PassFile | `Python/12_passfiles.py` | PassFile.cfg | Templates_proofs |

## 1. Inventory

### 1.1 Parts, their state and what they do

| Part | State it keeps | Operations | Hard behaviour |
|---|---|---|---|
| Run lock of `mkkeys.sh`, `umbrella-ldap2zone`, `umbrella-ldap2dhcp` | lock file in /var/run or /tmp | create with noclobber, trap, removal, exit, reset of the trap | signals between any two commands, handler followed by the EXIT trap, kills, reboots |
| `mkkeys.sh` (config server, every 5 minutes) with `ldapsanity.sh` | keytab files, KDC principals, `clients.xml`, SSL certificates, SSL and SSH keys | compare LDAP with the lists, delete clients, revoke and delete their certificates and keys, delete and make principals and keytabs, add clients | snapshots that become stale, lost exit statuses, kills in the middle, bcfg2 working on the same files, names that contain other names |
| `umbrella-revoke-key` (mkkeys.sh, cron, by hand) | index of the CA, temporary and published CRL in PEM and DER | revoke, generate, convert, move twice | concurrent runs on the same temporary files, a masked failure, kills, repetition |
| `umbrella-expire-ssl-certs` (nightly) | certificate files of the bcfg2 repository | warn, delete what expires in 7 days | the night's granularity, missed nights, hosts that are late, removal of a host without certificate |
| `umbrella-addworkstation` with `umbrella-hosts` (by hand) | LDAP units and host entries | choose or check an address, make the units, add the entry, verify | two administrators at once, LDAP commands that fail or break off, repetition |
| `umbrella-ldap2zone` (router, every 5 minutes) | zone files, host list in /var/cache/bind, what named has loaded | search, make the forward zone and one reverse zone per network, compare, move, reload each view | searches that break off, reloads that fail, stops between move and reload, leftovers in the host list |
| `umbrella-ldap2dhcp` (every 5 minutes) | `dhcpd.conf`, what dhcpd runs with | search, compare, move, restart | as above; the result of the restart is ignored, dhcpd does not start with a line it cannot parse |
| `Python/32_zone_timestamp.py` | sequence file, its mtime | serial of the zone headers | truncate, write and utime are three steps; several edits within one second; wrap at 100 |
| `Python/12_passfiles.py` | password files | read or generate a password | age checked before use, file empty between open and write, renderings of two configurations at once |
| Network plan: `Python/20_networks.py`, `21_revzones.py` | none (pure) | networks, address of the host, classful wrappers, link zones, zone names | nested and equal networks, networks without whole octets, the order of a Python set |
| Organization tree: `Python/30_networking.py` (`accumulate_tags`), `35_organization.py` | none (pure) | unit of an address, inherited parameters, profiles of networks | two walkers that must agree, empty elements, several matches |
| Servers and domains: `Python/00_baseparams.py`, `10_funchosts.py`, `30_networking.py` | none (pure) | hosts by function, interfaces, outer addresses, canonical name, aliases | optional elements, order of overrides, capitals, name clashes in the zones |
| Firewall and USB parameters: `Python/25_firewall.py`, `40_usbdev.py` | none (pure) | robots and their numbers, static routes, SSH forwarding, lists of devices | repeated declarations, optional lists, elements that stand for everything |
| `ipclass` | none (pure) | profile of an address | addresses outside of the internal networks |
| `kpoppassd` | dialogue with the client, ticket, KDC | authenticate, change the password | answers of the KDC that are lost, protocol states |
| `umbrella-backup-vms` (nightly) | LVM/qcow2 snapshots, backups | snapshot, copy, pivot, remove | a crash between two of them |
| `umbrella-install` | machines and VMs under construction, users and groups | about forty resumable steps, renumbering of users | interruption and restart, order of the renumbering |
| `mkhomes.sh`, `autounison.sh`, `umbrella-pubhtml-watch` | home directories, unison profiles and locks | create, synchronize, watch | a client that goes away during the synchronization |
| Group logic: `GroupLogic/groups.xml`, `Metadata/groups.xml` | none (pure) | groups of a client from its place in `umbrella.xml` | exclusive and negated groups |
| iptables templates, OSSEC packages, boot files and installation images, one-time initialisations | files | straight-line scripts and templates | little |

### 1.2 How the parts interact

* **LDAP is the source of truth for workstations.** `umbrella-addworkstation` writes
  it; `mkkeys.sh`, `umbrella-ldap2zone` and `umbrella-ldap2dhcp` each poll it every
  five minutes on another machine and carry the result into Kerberos and bcfg2, DNS
  and DHCP. Nothing tells them of a change, and none of them remembers what it has
  done: they compare LDAP with files.
* **bcfg2 shares files with the scripts.** `clients.xml` and the certificate and key
  files of the repository are read and written by `mkkeys.sh`, by the expiry job, by
  the revocation and by the bcfg2 server's own plugins (SSLCA and SSHbase make what is
  missing when a client asks for its configuration). The zone headers are installed
  on the router by the bcfg2 client while `umbrella-ldap2zone` reads them.
* **`mkkeys.sh` calls** `ldapsanity.sh`, `kadmin` (on the KDC), `umbrella-revoke-key`
  and `ipclass`. It looks at no exit status after line 60.
* **`umbrella-revoke-key`** is called by `mkkeys.sh` every five minutes, by cron once
  a night and by hand; the CRL it publishes is fetched by all hosts.
* **Every template of bcfg2 executes** the files of `Python/` that it needs, in the order
  of their numbers and in one namespace: what one file binds the next ones use, and an
  exception in any of them leaves the template without a result. The server renders
  templates for several hosts in threads, so that the two files that keep something on
  disk (`12`, `32`) run concurrently with themselves.
* **The zone headers** that `umbrella-ldap2zone` completes are templates: their names and
  CNAMEs come from `21_revzones.py`, their serial from `32_zone_timestamp.py`.
* **`umbrella-addworkstation` calls** `umbrella-hosts`, which reads the addresses of
  LDAP and of `umbrella.xml`.

### 1.3 What makes each part correct

* *Run lock:* never two invocations in the body; a lock file without an owner only
  after the owner was killed; the five-minute job is not blocked otherwise.
* *mkkeys.sh:* the config server is never thrown out; no key without its principal; a
  host that left keeps no usable certificate, key or principal; every registered host
  becomes a client, every other host loses everything, whatever failed meanwhile, as
  long as all other servers keep their keytabs. One of these that a broken-off search
  has cost its keytab blocks the job for all hosts until somebody uses `-f`.
* *Revocation:* whoever is told of success finds the certificate on both lists; every
  revoked certificate gets there and stays there.
* *Expiry:* a certificate in use never runs out; one that escapes revocation soon does.
* *Registration:* an address belongs to the network of its unit, is no server's and no
  other host's; the final message is true; a broken-off registration can be repeated.
* *Zones:* forward and reverse zones agree with LDAP and with each other, named serves
  the files that are there, stale lines disappear.
* *DHCP:* `dhcpd.conf` is always what LDAP contained at one moment, dhcpd runs with it and
  is not down for good.
* *Zone serial:* a later change has a greater serial, one change has one serial. The code tells
  changes by whole seconds: one that comes after a rendering in the same second keeps the
  serial of the one before.
* *Passwords:* never an empty one, not replaced before its time, replaced after it, and
  the same in all configurations that contain it.
* *Rendering:* every host resolves backwards; both walkers of the organization agree on
  the unit of an address; the numbers of robots lead to their servers; no
  zone contradicts itself; an installation is rendered, or refused with a message. The
  schemas let pass much that is neither: section 2.8 lists what.

`PROJECT.json` lists every hazard at its line with the properties that watch it.

## 2. What is modelled

### 2.1 RunLock (run lock; `mkkeys.sh:47-50, 204-206`)

`lock` is the content of the lock file, `pc` the stage of each invocation, and
`abandoned` remembers that an owner died without removing the file. One action per
access to the file or to the traps. `quiet` says that no handler has run since the last
boot. bash's handler for a trapped signal is
`rm -f "$LOCKFILE"; exit $?`, and this `exit` fires the EXIT trap, which removes the
file *again*: that is the stage `handler`. After `trap - INT TERM EXIT` the signals
HUP, QUIT and PIPE still have their handler.

| Run | Bounds | Shows |
|---|---|---|
| lock | 3 invocations, 4 signals or kills, any number of reboots, fair | `MutexUnlessSignalled`, `StaleOnlyIfAbandoned`, `LockComesFree` |

`mkkeys.sh:47` says "lock the script from running twice". With a single signal this is
not so: a signal in the body removes the file, another invocation takes it, and the EXIT
trap of the first one removes it once more for a third. Checking `Mutex` in place of
`MutexUnlessSignalled` shows it; the three invocations of the run are the number this
needs (one whose trap runs twice, the robbed owner and the intruder).

### 2.2 Mkkeys (`mkkeys.sh:30-206`, `ldapsanity.sh`)

State: `ldap` (entries per name: the same name may be registered under two units),
`keytab` and `princ` (the services `host` and `nfs` in a host's keytab file and in the
KDC), `clients` (`clients.xml`), `pem`, `secrets` and `stray` (certificate file and
its state at the CA, other keys, unrevoked certificates whose file is gone),
`connecting` (clients whose configuration bcfg2 is generating), `run` (position and
shell variables of the running script) and `faulted` (hosts whose processing a fault,
a kill or a late certificate disturbed).

One action per external command that reads or changes state. `Sanity` is the search of
`ldapsanity.sh`, which appends the domain to every `cn` because its line 18 tests an
unset variable: a server that is registered under its full name (`fullName`) is never
found. `Search` (lines 62-72), `CheckKeytabs` (75-94) and `Compute` (96-117) read LDAP, the
keytabs and `clients.xml` one after the other; `uniq -u` drops names that occur twice,
and each search may break off unnoticed. `FilterClients` is the refusal of line 124 and the
`grep -v` of line 129, both with the relation `Matches` (the names that contain a name)
in place of strings; `MoveClients` moves the filtered list in place, over whatever
somebody has added meanwhile. The revocation, the deletions and each `kadmin` command
may fail, and the script goes on. `AddClient` adds the host if LDAP and `ipclass` know a
profile for it by then (`HasProfile`, lines 181-194), or, where one of its searches fails,
may leave it out. Others act between any two commands: administrators register,
unregister, correct an address or edit `clients.xml` by hand; clients connect, and
bcfg2 makes a missing certificate later; a kill leaves the lock file, a reboot removes it.

| Run | Bounds | Shows |
|---|---|---|
| mkkeys | 3 hosts (the config server, another server with a keytab, a new roaming host), 2 edits, 1 fault, fair | `ConfigProtected`, `KeytabBacked`, `CertificatesAccounted`, `PrincipalsAccounted`, `ClientsFollowLdap`, `LostKeytabBlocks` |
| mkkeys_suffix | a host `fig` beside `config` | `ConfigProtected` is violated: the name of the removed host is a part of the config server's |

The second server is a host that the sanity checks ask for and that lines 124 and 151 do
not protect; the new host is enrolled and removed. Two edits let a host leave and come
back, or leave while another one comes, with each edit anywhere in a run. One fault is
one failed command, one truncated search or one kill; because the script looks at no
exit status, faults of two commands only add up, they do not enable each other.

`ClientsFollowLdap` has a condition that the run needs: from some time on all servers have
their keytabs, or administrators use `-f` again and again. One search that breaks
off before the second server takes that server out of `clients.xml` and deletes its keytab
(line 156), and then no run of cron passes line 91, so that no host is enrolled or
removed any more. `LostKeytabBlocks` says so: from then on only `-f` and an edit of
`clients.xml` change anything of what the job keeps. Without the condition TLC finds
this behaviour, with one fault.

Some disagreements show in the same actions without a run of their own. A roaming
workstation that is added to `clients.xml` by hand before it is in LDAP, as
`Documentation/installer/umbrella.xml:335` and `roamers/README:39` have it, never gets a
keytab, because line 116 leaves out every host that is a client. `-f` is
said to force the creation of missing server keytabs (`mkkeys.sh:41`), but the
same line leaves out all servers that are still clients, as they are after the
installation or if only their keytab could not be made. And a
name that is registered twice is neither extra nor new: it keeps what it has and gets
nothing.

### 2.3 ZonePublish (`umbrella-ldap2zone:12-123`)

Zone 0 is the forward zone, zone *n* the reverse zone of the *n*-th network. A zone file
is the version of its header and a sequence of batches, one for each LDAP search whose
result it contains: this tells complete files from files with lines of earlier runs
that failed. `hostlist` is `REVZONE_HOSTLIST`, which survives a failed run. `loaded` is
what each view of named has loaded, `missed` the reloads that failed or never happened.
The program `grepcidr` is the function `NetOf`; the variable `grepcidr` says whether it is
there (without it line 98 leaves the reverse zones without hosts), `refused` are the
networks whose mask the script refuses, none or all of `WrongClass`, both for a whole
behaviour. The header files are taken to be there (lines 28 and 92 test for them): the
absent header is modelled once, in DhcpPublish.

| Run | Bounds | Shows |
|---|---|---|
| zone | 2 hosts, 2 networks and an outside address, the second network refused or not, with and without grepcidr, 2 views, 2 edits, 2 faults, fair | `ForwardIsCurrent`, `PtrForEveryA`, `NamedServesFiles`, `FilesFollowLdap`, `MirrorsLdap` |

`Mirror` is an instance of LdapMirror: its copy is what the forward zone contains, what a
run has found is taken. `MirrorsLdap` is the safety part only; the fairness of LdapMirror
does not survive the bound `MaxRuns`, and `FilesFollowLdap` says what it would.

Two things the headers promise (`mainzone.rev.genshi:63-65`: the live list "gets
supplemented", the result "is then (re)loaded") do not always hold. The records a
broken-off search has found stay in the host list, and the next run appends to it and
publishes them in the reverse zones (`NoStalePtr`), until the run after it. And a
`rndc reload` that fails is not repeated, since the files do not differ the next time
(`DnsFollowsLdap`). Both formulas are in the module; one host and one fault violate them.

`MaxRuns` is the length the host list may reach before exploration stops. With no network
refused it is larger than the number of failures that can lengthen the list, so no such
behaviour is stopped by it. With the second network refused every run ends there: the
networks after it never get their zones, and the host list is never emptied and only
grows, boots included (it is in /var/cache/bind). Line order within a batch and duplicate lines are not told apart.

### 2.4 Registration (`umbrella-addworkstation:96-243`, `umbrella-hosts:22-142`)

`nodes` and `host` are LDAP: the units that exist and the address of every entry. For
each administrator `pc`, `addr`, `level` and `outcome` are the position of the script,
its variable `ip`, the unit of the chain it is at, and how it ended. `ChooseAddress` is
the whole call of `umbrella-hosts`: `seen` is what the LDAP search delivered, since a
search that fails inside the pipeline goes unnoticed. `Make` ignores the result of
`ldapadd`; `Attach`, `Unique` and `Verify` look again. Two history variables say whom the
missing lock can have harmed: `disturbed` are the administrators whose last script ran at
the same time as another one or missed an address, `doubtful` the hosts such scripts
added.

| Run | Bounds | Shows |
|---|---|---|
| registration | 3 administrators at once, 2 faults, 1 removal, fair | `InOwnNetwork`, `DuplicatesAreDoubtful`, `UndisturbedReportsTruth`, `RetrySucceeds` |

The units have chains of two and three nodes (the code has the short chain for the
organization itself and the long one for its units), and their networks overlap, so that
administrators of different units compete for an address; one of the two addresses of
the smaller network is a server's, so it fills up. The requests are two automatic
addresses, one that is asked for, and among them two for the same name. Two overlapping
scripts do hand out one address twice, and the second of two administrators who register
one name is told that its address is registered: `DuplicatesAreDoubtful` and
`UndisturbedReportsTruth` say that this is the only way, with the broken search, in which
it comes about. `umbrella-hosts:155` "checks that the specified IP address is free": a
search that breaks off inside of it makes a taken address look free even with one
administrator at a time (`AddressesUnique` in place of `DuplicatesAreDoubtful` is
violated by it).

### 2.5 Crl (`umbrella-revoke-key`)

`marked` is the set of certificates that the CA's index marks as revoked, four variables are the two temporary and the two
published files, each either a set of certificates or missing. One action per command,
except that `gencrl` reads the index and writes its output in two steps. `set -e` ends a
run at the first failure, but the failure of `gencrl` is hidden by `|| :` (line 42).
`disturbed` are the runs that overlapped another one or whose `gencrl` failed.

| Run | Bounds | Shows |
|---|---|---|
| crl | 2 concurrent runs, 2 certificates, 1 kill, 2 failures, fair | `CrlTypeOK`, `SuccessMeansPublished`, `RevokedGetsPublished` |

`SuccessMeansPublished` says of a run that ends undisturbed that both published lists are
exactly what the index marks, its own certificate included.

The exceptions of `SuccessMeansPublished` are essential: after a killed run a failing
`gencrl` publishes the temporary file that is there and exits with 0, and two overlapping
runs move each other's files. The nightly run repairs this, which is what
`RevokedGetsPublished` says. Not so the repetition of a revocation whose first run was
killed before it made the list: openssl refuses to revoke a certificate twice, and the
script ends before the list, although line 37 says that it is regenerated "in any case".

### 2.6 CertExpiry (`umbrella-expire-ssl-certs`, with `mkkeys.sh:137-143`)

A certificate is the time at which it expires. Time goes in parts of a day; the job
runs at the beginning of a day, one file after the other, and may miss `Missed` nights
in a row. A host updates its configuration at least once in `Patience` parts of a day,
and bcfg2 then makes a certificate if the repository has none. `Remove` is the removal
of a host by `mkkeys.sh`, which revokes the certificate that is in the repository.

| Run | Bounds | Shows |
|---|---|---|
| expiry | 2 parts a day, 7 days' warning, 9 days' validity, Patience 10, 1 missed night | `RenewedSeamlessly`, `UnrevokedRunsOut` |

The bounds are exactly at the limit of the assumption `Punctual` of
the theorem below. Hosts do not influence each other, so one host shows what there is to
see; `Horizon` lets its certificate be renewed more than three times. The real validity
is 365 days (`sslcert.xml`); 9 is enough for renewals to follow each other. The mail of the job
promises a seamless renewal to everyone who updates "during the next $DAYS days" (line
10): that is a Patience of 13 or 14 here, for which the property fails, since the job may
leave little more than six days.

### 2.7 DhcpPublish and LdapMirror (`umbrella-ldap2dhcp`)

LdapMirror is what the jobs that poll LDAP promise: `copy` changes only to a value `taken`
from `source` as a whole, an update may be abandoned, and updates go on for ever.
DhcpPublish has one action per command of the script: `run.header` and `run.found` are the
temporary file. `serving` is what dhcpd runs with, nothing when it is down: it reads
`dhcpd.conf` only when it starts, and does not start with an entry in `Malformed` or without
the subnets that the header declares. The header is missing (`header = 0`) until bcfg2 has
installed it; until then the job makes a `dhcpd.conf` without one (line 18).
`missed` remembers that a job was stopped between `mv` and `systemctl restart`. Others act
meanwhile: LDAP and the header change, bcfg2 restarts the services of a bundle, systemd
(`Restart=on-failure` in the override that the repository installs) and bcfg2
(`Rules/base-services.xml:73`) start a dhcpd that is down.

| Run | Bounds | Shows |
|---|---|---|
| dhcp | 3 LDAP entries of which one is malformed, 3 edits, 2 faults, fair | `MirrorsLdap` (refinement with liveness), `ServesFile`, `DhcpFollowsLdap`, `UpAgain` |

The exceptions are what the code leaves open: a missed restart is not made up for, because
the next job finds no difference, and a malformed entry takes the server down at the next
restart, because the new file is not tested before. So does a header that is not there yet.

### 2.8 Rendering, with Networks, Organization and Servers (`Python/*.py`)

One action per file, in the order of the numbers: it binds names in `ns` or ends the
rendering with a `fault`, a `TemplateError` that tells the administrator what is wrong or
an exception nobody catches. A template executes only the files it needs; the model
executes all of them, in one namespace. The files are pure, so the work is done by the
operators of three modules. `WellFormed` is what the schemas see to of an installation, and no
more: lists are lists, interfaces have known types, there is a domain and a unit, units are
in document order, a network of `umbrella.xml` is an address and a number
(`xsd_types.xsd:76` does not exclude host bits or prefixes above 32), addresses of hosts are
numbers. That it holds of every installation is the assumption `ConfigsAssumption`, which
TLC checks for the families of MCRendering. A text that `ipaddress.ip_network` refuses (host bits, a
prefix above 32, an octet with a leading zero, or no network at all in a unit) is a
record that `IsNetwork` does not hold of, an empty one of a unit is `NoText`.

* **Networks** - an address is a number of `Octets` octets of `Bits` bits (4 of 8 in the
  code, 3 of 3 in the runs, so that wrapping networks nest), a network a first address and
  a prefix length, without host bits (`IsNetwork`); powers of two are the recursive function `Pow2`, which the
  proofs can unfold. `NetworkIn` is the `in` of two networks, which `ipaddress` answers with
  False: both tests that use it (`20_networks.py:63`, `21_revzones.py:29`) never fire.
  `FindClassful` is the set of the networks `findClassful` may return, since it takes the
  first one of a Python set. `ReverseLookup` is a resolver on the zones that
  `named.conf.ldap2zone` and `mainzone.rev` make: longest zone name, link zone, CNAME, PTR.
* **Organization** - the tree as a sequence of units in document order; the two recursive
  walkers are recursive functions. `blank` names the elements of a unit that have no text: an
  empty `network_match` removes the network of a unit, an empty `network` does not, and
  `ip_network` refuses it (`WalkFault`, `OrganizationFault`). `UnitsWith` and `TagsAbove` (which goes up from a unit)
  say what they are for without walking down.
* **Servers** - the failures of the files in the order the code comes to them
  (`FunchostsFault`, `RoutesFault`, `EntriesFault`, `RouterFault`, `MainFault`), domains, servers with their interfaces, robots, static routes, devices, and
  the names that `zone.genshi` and the udev rules make of them.

| Run | Bounds | Shows |
|---|---|---|
| render | eight families of installations in MCRendering, each varying one part of a plain one: network plans; addresses of the host; organization trees; firewall and robots; servers and interfaces; networks and units with texts that are refused; domains and aliases; USB devices | the seven properties of Rendering, `TypeOK` included |
| revzones | the shipped plan, scaled | `ReverseAlwaysResolves` is violated |

* `ReverseResolves`: each host of a served network has its PTR in the zone of that network
  only, for every choice of `findClassful`, when no wrapper is inside of another one.
  `ReverseAlwaysResolves` drops that condition, as `21_revzones.py:25` claims, and fails. The
  shipped `umbrella.xml:70-72` is such a plan: executing the file with it gives the zone
  `4-1-4-62.17.172.in-addr.arpa` for secnet, while a query for 172.17.4.2 goes to the link
  zone `4.17.172.in-addr.arpa`, whose CNAME points to `2.1-62.4.17.172.in-addr.arpa`.
* `OrganizationFollowed` (`WorkstationFollowsUnit` and `ProfileFollowsUnit`): both walkers agree with the first unit in
  the document whose network has the address, and with each other.
* `UncaughtExplained`: `ServersComplete`, `NetworksComplete` and `OrganizationComplete` list what
  an installation must have beyond its schemas; with that, only messages for the
  administrator are left. Without it, each of these ends in an exception, and the run
  reaches every one: a text that is no network in `umbrella.xml` (`20_networks.py:16-30`), a
  static route (`25_firewall.py:111`) or a unit (`30_networking.py:101`,
  `35_organization.py:18`); a server with an empty name (`10_funchosts.py:9`); no config
  server, neither proxy nor DMZxmpp; `del dnsname` with no list of SMTP hosts
  (`25_firewall.py:101`); no router and no readable gateway in the root unit
  (`30_networking.py:149`); a router's interface without `mac` or with an empty `ip`
  (`160, 174-195`); a server without an address or a MAC address (`222-226`); a unit whose path
  says nothing of the network, the gateway or the group of users (`256-266`); a host
  without an address.
* `RobotsServed`, `ZoneNamesSound` (`CnameClashExplained` and
  `MailNameHasAddress`), `UsbPolicy`: what several elements together come to, against a
  definition that looks at them one by one. The exceptions named in their comments are what the code gets wrong.

No property relates the address of a server to its MAC address: `30_networking.py:225-226`
look for the first of each, and nothing makes them come from one interface. An element of
`usbdev.xml` applies to a host, a group, both or all (`Applies`), as its schema allows.

Served networks with a prefix of less than one octet, whose wrapper contains all addresses,
are left out of the families. Texts of addresses are taken as
readable for `ip_address` (but for the gateway of the root), and without surrounding blanks.

### 2.9 ZoneSerial (`Python/32_zone_timestamp.py`)

Times are whole seconds, as `int(getmtime)` makes them. `file` is the sequence file with
its time and number, empty after it was opened for writing; `job` are the renderings that
bcfg2's threads do at once, one action per operation on the file. `done` remembers what
serial each change was given; changes are counted (`changes`), and their seconds (`edited`) are
all the code knows of them. `disturbed` are the days that two renderings that met at the file,
a failed operation or a stop of the server can have spoiled: from the day of the oldest
change that was being rendered, which may be an earlier one, to the present day.

| Run | Bounds | Shows |
|---|---|---|
| serial | 2 threads, 3 sequence numbers a day, days of 3 seconds, clock to 3, 4 changes, 1 fault | `LaterDayGreater`, `SerialsFollowChanges` |

The clock passes one midnight and the first day may have changes in as many seconds as there
are numbers, so that the serial wraps; with four changes two may also come in one second,
before, between and after renderings. `32_zone_timestamp.py:18` says "Modified since the last
zone generation", but compares whole seconds: a change that follows a rendering within its
second is never noticed, and its zones have the serial of the one before.
`SerialsFollowChanges` excepts exactly such pairs, for which it says only that the serial is
not less.

### 2.10 PassFile (`Python/12_passfiles.py`)

A configuration renders `read_password` again and again: check of the age, read, generate
(the file is open and empty), write. `met` are the renderings during which another one
wrote. The passwords are different whenever they are generated.

| Run | Bounds | Shows |
|---|---|---|
| passfile | 2 configurations, 6 passwords, 2 faults, fair | `NeverEmpty`, `PasswordKept`, `ExpiredIsReplaced`, `ConfigsAgree` |

Six passwords are more than can be in use at once (file, two configurations, two
renderings), so that a new one is always left.

### 2.11 Fairness

Fairness is stated for steps of the scheduled jobs only, never for people or clients.
*cron starts a job again and again* (weak fairness of `Cron`, of the nightly `Start`):
its entries are part of the configuration. *A running script goes on* (weak fairness of
`Run`, `Script`, `Step`): each of its commands returns, possibly with a failure. *A
machine with a stale lock file is rebooted some day* (weak fairness of `Reboot`): nothing
else removes the file, so without this the liveness properties would fail after a kill;
the property `LockComesFree` of RunLock makes the exception explicit instead. In
DhcpPublish, systemd and bcfg2 start a server that is down (weak fairness of
`StartServer`). In PassFile the hosts ask for their configurations periodically and a
rendering goes on (weak fairness of `Render`); `ConfigsAgree` has as its premise that
renderings do not overlap for ever, which no scheduler guarantees but the bcfg2 clients'
hours make so. In
Registration an administrator repeats a command that failed. Faults, kills and edits are
bounded in number, which means that they stop some day.

## 3. What is proved

The theorems hold for every value of the constants that the named assumptions admit:
any number of hosts, invocations, edits and faults, any length of time.

| Module | Theorem | Statement |
|---|---|---|
| RunLock_proofs | `TypeCorrect`, `MutualExclusion` | `Spec => []TypeOK`, `Spec => []MutexUnlessSignalled` |
| RunLock_proofs | `NoFileLeftBehind`, `AbandonedIsStale` | `Spec => []StaleOnlyIfAbandoned`, `Spec => [](abandoned <=> Stale)` |
| RunLock_proofs | `StaleLockKeepsOut` | `Spec => [][...]_vars` (below) |
| Mkkeys_proofs | `TypeCorrect`, `KeytabsBacked` | `Spec => []TypeOK`, `Spec => []KeytabBacked` |
| Mkkeys_proofs | `LostKeytabBlocksCorrect` | `Spec => LostKeytabBlocks` |
| Mkkeys_proofs | `ConfigStays` | `Spec => []ConfigProtected` if no other name is a part of the config server's |
| Mkkeys_proofs | `PrincipalsCorrect` | `Spec => []PrincipalsAccounted` |
| Mkkeys_proofs | `CertificatesCorrect` | `Spec => []CertificatesAccounted` if no name is a part of another one |
| Mkkeys_proofs | `EnrolledStays`, `RemovedStays` | `Spec => [][...]_vars` (below) |
| Certificates_proofs | `TypeCorrect`, `UnrevokedIsShort` | `Spec => []TypeOK`, `Spec => []UnrevokedRunsOut` |
| Certificates_proofs | `Renewal` | `Spec => []RenewedSeamlessly` under `Punctual` |
| Certificates_proofs | `CrlTypeCorrect`, `CrlPublished` | `CrlSpec => []CrlTypeOK`, `CrlSpec => SuccessMeansPublished` |
| Certificates_proofs | `OnlyRevokedListed`, `SuccessIsForGood` | `CrlSpec => [](crlPem \union crlDer \subseteq marked)`, `CrlSpec => [][...]_crlVars` (below) |
| Certificates_proofs | `PublishedStays` | `CrlSpec => \A c : [](OnEveryList(c) => [](c \in crlPem \intersect crlDer))` |
| Registration_proofs | `TypeCorrect`, `AddressInNetwork` | `Spec => []TypeOK`, `Spec => []InOwnNetwork` |
| Registration_proofs | `NoOtherDuplicates`, `TruthfulReports` | `Spec => []DuplicatesAreDoubtful`, `Spec => []UndisturbedReportsTruth` |
| Registration_proofs | `AnswersAreTrue`, `RegisteredStays` | `Spec => [](...)`, `Spec => [][...]_vars` (below) |
| ZonePublish_proofs | `TypeCorrect`, `ForwardIsCurrentCorrect` | `Spec => []TypeOK`, `Spec => []ForwardIsCurrent` |
| ZonePublish_proofs | `PtrForEveryACorrect`, `NamedServesFilesCorrect` | `Spec => []PtrForEveryA`, `Spec => []NamedServesFiles` |
| ZonePublish_proofs | `MirrorSafe` | `Spec => MirrorsLdap` (refinement) |
| ZonePublish_proofs | `LinesStay`, `FilesStay` | `Spec => [][Exact /\ UNCHANGED ldap => Exact']_vars`, `Spec => [][...]_vars` (below) |
| DhcpPublish_proofs | `TypeCorrect`, `ServesFileCorrect` | `Spec => []TypeOK`, `Spec => []ServesFile` |
| DhcpPublish_proofs | `MirrorSafe` | `Spec => Mirror!Safety` (refinement) |
| DhcpPublish_proofs | `ServedStays`, `MissedIsNotNoticed` | `Spec => [][...]_vars` (below) |
| ZoneSerial_proofs | `TypeCorrect`, `LaterDayGreaterCorrect` | `Spec => [](TypeOK /\ HasLastChange)`, `Spec => []LaterDayGreater` |
| ZoneSerial_proofs | `SerialsFollowTimesCorrect`, `SerialsFollowChangesCorrect` | `Spec => []SerialsFollowTimes`, `Spec => []SerialsFollowChanges` |
| Templates_proofs | `RenderingTypeCorrect`, `UncaughtExplainedCorrect` | `Spec => []TypeOK`, `Spec => []UncaughtExplained` (Rendering) |
| Templates_proofs | `OrganizationFollowedCorrect`, `RobotsServedCorrect` | `Spec => []OrganizationFollowed`, `Spec => []RobotsServed` |
| Templates_proofs | `UsbPolicyCorrect` | `Spec => []UsbPolicy` |
| Templates_proofs | `ReverseResolvesCorrect` | `Spec => []ReverseResolves` |
| Templates_proofs | `ZoneNamesCorrect` | `Spec => []ZoneNamesSound` if `NamesApart` holds of all installations |
| Templates_proofs | `PassTypeCorrect`, `NeverEmptyCorrect`, `PasswordKeptCorrect` | `PassSpec => []PassTypeOK`, `PassSpec => NeverEmpty`, `PassSpec => PasswordKept` |
| Templates_proofs | `AgreementStays` | `PassSpec => [][\A x : Agreed(x) => Agreed(x)' \/ Expire]_passVars` |

Certificates_proofs and Templates_proofs reason about two specifications each, which is why
the names of Crl and PassFile that the other module has as well begin with `Crl` and `Pass`.
The assumptions behind all theorems are the named ASSUMEs of the modules, which TLC
evaluates in the runs, and those in the table.

* **MutualExclusion.** Mutual exclusion is not inductive: a step that removes the file must
  not rob an owner. `OwnerHoldsLock` adds that, as long as no handler has run, whoever
  works owns the file and nobody is in a handler. One signal is
  enough to lose it.
* **ConfigStays.** The refusals guard the two deletions, but the keytabs are deleted later
  than the check, from a snapshot. `ConfigInv` says in addition that past the check the
  config server is not among the keytabs to be deleted, and that it is never among those
  to be made (its keytab would be replaced by one for whatever principals the KDC has).
  Its assumption
  `ConfigNameDistinct` is what the run mkkeys_suffix violates.
* **KeytabsBacked.** `KeytabInv` adds that while a host's principals are being deleted
  its keytab is empty already, so neither a failed `kadmin` nor a kill between the two
  deletions leaves a key without a principal.
* **PrincipalsCorrect.** A host without a keytab has no principals, except while its keys are being
  changed or where a fault hit it. `PrincipalInv` adds that before the second deletion
  (`nfs/`) the first principal of the host at hand is gone, or the host counts as faulted.
* **CertificatesCorrect.** `CertificateInv` adds where in the loop of lines 136-146 the
  certificate of the host at hand is (revoked before its file is deleted, gone before the keys
  are), that hosts under removal are no clients any more, and that a certificate loses its
  file unrevoked only where something went wrong. It needs `NamesDistinct`: the `grep -v` of
  `mkkeys.sh:129` drops every client whose name contains the removed one, and the loop
  revokes the removed one only. The run mkkeys_suffix shows such a host.
* **CrlPublished.** `PublishInv`: a run that is not disturbed is alone (`Solo`), and its list,
  the temporary files and the published ones hold, one after the other, exactly what the
  index marks (`Carried`), whatever earlier runs have left behind.
* **Renewal.** `ClockInv` relates the time, the part of the day and the last night the job
  ran. `HostInv` says of each host that a certificate in the repository is the one in use
  and was good for the whole warning when the job looked at it last (or, tonight, is
  still to be looked at), and that one the job has deleted is good for as long as the host
  may take to update. `RenewalInv` is both. `Punctual` is
  `Patience + Missed * Parts + Parts <= DAYS * Parts`; the run `expiry` has equality. The
  product `DAYS * Parts` has a name of its own (`Warning`), which keeps the arithmetic
  linear.
* **UnrevokedIsShort.** `RemovalInv`: a certificate in use that is missing in the repository
  has less than the warning left, counted from the removal once the host is removed.
* **AddressInNetwork.** `NetworkInv`: what a script holds between its choice and its attempt
  to add the host is an address of its unit's network. That umbrella-hosts finds one
  whenever one is free (`FirstFreeIsFree`) rests on the numbers being well-founded.
* **NoOtherDuplicates.** `DuplicateInv` adds that an undisturbed script is the only one that
  runs and that no host has the address it holds; a removal only frees addresses.
* **TruthfulReports.** `TruthInv`, relative to `DuplicateInv`: an undisturbed script about to
  add its host has found no entry of that name, so an entry that is there afterwards is
  its own, even though the script does not look whether the last command failed.

* **ForwardIsCurrentCorrect.** `ForwardInv` has three parts: a search begins with zone 0
  (`Fresh`), past the installation of zone 0 its file holds what the run has found
  (`Published`), and what it has found is what LDAP still has for every host that has not
  changed (`InSync`).
* **PtrForEveryACorrect.** `ReverseInv` says in addition that a run that is going on counts as
  unfinished, that what it has found is in the host list (`HostsListed`; leftovers of a failed
  run only add to it) and in the reverse zones it has installed (`PtrsMade`).
* **NamedServesFilesCorrect** and **ServesFileCorrect.** These are inductive together with the
  types, one case per action.
* **MirrorSafe** (ZonePublish). The copy is what the forward zone contains, `taken` what the run
  has found while it stands before the installation of zone 0: the search is LdapMirror's
  `Take`, the installation its `Publish`, a stop there its `Abandon`, and everything else
  stutters.
* **MirrorSafe** (DhcpPublish). The same with `dhcpd.conf`; a search that ended normally is a
  `Take`, the comparison with the `mv` a `Publish`.
* **RenderingTypeCorrect** and the namespace. `NamesInv` says which names are bound before each
  file and what those that the properties speak of stand for; with it a property of a finished
  rendering becomes one of the operators. `GivenInv` and `RobotsInv` do the same for what a
  workstation is given and for the firewall.
* **UncaughtExplainedCorrect.** With the three conditions of completeness every lookup that fails without a message is
  excluded one by one. For the walk this is `RootAddsItsTag`: whatever the walk finds ends
  with what the root says, so that the list is not empty; for the static routes
  `RoutesExplained`: the first that fails is in a network that is one, so its gateway is
  outside of it.
* **OrganizationFollowedCorrect.** `WalkFollowsUnits`: at every unit the walk finds the first
  unit of the document inside of it that has the address, and brings what `TagsAbove` says
  from there up to that unit. It is an induction from the leaves. That the first match
  inside of the first subunit with a match is the first one of all rests on the
  document order: the units inside of different subunits do not mix (`SubunitsApart`).
  `NearestDefined` and `ProfilesInherited` relate the other walker's inheritance to the
  nearest profile above.
* **ReverseResolvesCorrect.** `WrapInv` keeps what `findClassful` returned until the zones are
  rendered, and that all networks are networks past `20_networks.py`, which `WellFormed` does
  not say; `WrapsAre` says that in a plain plan this is the network cut down to whole
  octets. The rest is about addresses. Two networks with a common address are nested
  (`NestedIfMeeting`), so an address is in one network and below one wrapping network. A
  query is below the zone of a wrapping network exactly when the address is inside of it
  (`PrefixOfAddress`), which needs that leading octets determine the network
  (`LeadingOctets`). The label of a network inside of its wrapper has at least two numbers
  (`NotWhole`, `OwnType`), so it matches no octet of a query, and only it answers what a
  link points to (`AnswersTarget`). Plans that are not plain are not covered: there the
  code fails (`ReverseAlwaysResolves`).
* **RobotsServedCorrect.** `RobotsFollowed` is an induction over the declarations: the servers
  noted so far have different numbers below their count, and each name leads to the
  server of its last declaration in that direction (`LeadsTo`).
* **ZoneNamesCorrect.** `NamesApart`: servers of different functions have different names, none is
  called `autoconfig`, nor is the name in `revDNS`. The code relies on it, since the short
  names of the functions become names in one zone.
* **NeverEmptyCorrect** and **PasswordKeptCorrect.** The types say that a rendering never carries
  an empty password. `NoneToReplace` adds that a rendering that is about to replace the
  password, and has met no other one, has no valid password before it.
* **LaterDayGreaterCorrect.** `SerialOfItsDay`: whatever the file held, a serial is made from
  the day of its change and a number below `Wrap`, so those of two days cannot meet.
  `HasLastChange`, which the types rest on, says that there always is a last change.
* **SerialsFollowChangesCorrect.** `SerialInv` has two halves. The first one is about the order of
  renderings and says of which days nothing is known: who writes beside another rendering
  disturbs all days between their changes (`Apart`), and on the other days nobody is at an older
  change than one that is done or is in the file. The second one says, for the other days,
  what a rendering knows at its position (`StageOK`) and that the file nobody writes has the
  number of the last change done (`FileOK`). Both are about times, and give `SerialsFollowTimes`:
  the property for the seconds of changes in place of the changes. `Dated` carries it over:
  of two changes that are done or being rendered, the later has no earlier second. An earlier form of `disturbed` named
  fewer days, and the proof failed on renderings that are still at a change of an earlier day.

Several of these are about what recursive functions return. The induction theorems of the
library take the predicate as an operator, which the provers cannot instantiate;
`UpTo` (over 0, 1, ..., n), `FromTheLeaves` and `FromTheRoot` (over a tree in document order)
state induction for a set in place of the predicate. That a recursive function exists at
all is proved the same way (`WalkExists`, `AboveExists`, `NotesExist`, `Pow2Exists`).

`TypeOK` of every module with a specification is proved; it is an invariant of the runs crl
and render, too.

### 3.1 What lasts

The liveness properties say that a good state is reached and, most of them, that it stays.
Reaching it is left to TLC; that it stays is a fact about single steps, and is
proved for any number of hosts, runs, faults and kills. TLC checked each of
these on the instances of the runs first, and that states in which they apply are reached.

* **PublishedStays**, **SuccessIsForGood** (for `RevokedGetsPublished`). A certificate on the two
  published lists may disappear again: another run may hold an older list.
  `OnEveryList` asks in addition for the temporary files and the lists that runs have read
  but not written yet. Every step keeps that, and the last step of an undisturbed run brings
  it about for all that is revoked. **OnlyRevokedListed** is the other direction: no list ever
  has a certificate that is not revoked.
* **AgreementStays** (for `ConfigsAgree`). `Agreed` says of the renderings under way that they are at
  most about to read the file: one past the check of the age would store another password.
* **ServedStays** and **MissedIsNotNoticed** (for `DhcpFollowsLdap`). Once `dhcpd.conf` is what the
  job would make (`Settled`), no job changes it, so nobody but others restart the
  server. For the same reason a restart that was missed is never made up for by the job: the
  exception in `ServesFile` and `DhcpFollowsLdap` is needed.
* **LinesStay** and **FilesStay** (for `FilesFollowLdap`). `Exact` speaks of what the zones contain,
  `Settled` of the files as they are. Faults separate the two: a search that breaks off
  leaves its result in the host list, and the next run writes a line twice, which changes
  nothing of what is served.
* **EnrolledStays** and **RemovedStays** (for `ClientsFollowLdap`). An enrolled host loses something
  only for one of three named reasons, two of which are weaknesses of the script: `Search` looks
  at no exit status, and `grep -v` drops clients whose names contain a removed one. `Gone` names
  what can bring a removed host back: a list that a run has read or filtered, keys that
  it has planned, a client that is just connecting, an unrevoked certificate whose file is
  gone.
* **LostKeytabBlocksCorrect.** `BlockedRunStep`: a run that has not passed line 91 can only take
  the steps up to it, and these change nothing but the shell's variables.
* **AnswersAreTrue** and **RegisteredStays** (for `RetrySucceeds`). `AnswerInv`: whoever was told
  that the host is registered or already defined is not running, and the host is in LDAP,
  for scripts that overlap as well. The address in the message may be another one's
  then (`TruthfulReports`), but what LDAP has stays until the host is removed.
* **AbandonedIsStale** and **StaleLockKeepsOut** (for `LockComesFree`). `abandoned` excuses no more than
  the lock files that no invocation at work owns; and such a file does stop the jobs, until a
  reboot or the misdirected removal of a signal's handler.

### 3.2 What is not proved

Every invariant and every action property of the passing runs is stated by a theorem.
Model-checked only are the liveness properties (`LockComesFree`, `ClientsFollowLdap`,
`FilesFollowLdap`, `DhcpFollowsLdap`, `UpAgain`, `RetrySucceeds`, `RevokedGetsPublished`,
`ExpiredIsReplaced`, `ConfigsAgree`) and the fairness part of LdapMirror: the prover has no
rules for fairness and ENABLED. For `UpAgain` and `ExpiredIsReplaced` there is nothing that
lasts, a server can go down and a password expires.

## 4. What is left out

* In all modules: wording, logging, options that print help, file modes.
* *RunLock:* the time between two commands; a pid in the lock file is never read by the
  scripts, so reuse of pids does not matter.
* *Mkkeys:* local commands (`mv`, `rm`, `sed -i` on `clients.xml`) that fail, that is a
  full or broken disk; MAC addresses; the call of `umbrella-revoke-key` without an
  argument when a removed host has no certificate (line 140: `xargs` without `-r`), which
  only makes a new CRL; the profile that a new client gets (a failed search at line 181
  gives a roaming workstation the profile of its address); a client added without a keytab because of a class that is not
  known is in (`HasProfile`), the warnings about it are not.
* *ZonePublish:* a temporary file that is left half written is only ever overwritten.
* *Registration:* `print_tree`, the listing of all networks; several MAC addresses.
* *Crl:* a temporary file that is truncated but not yet written by another run (the list
  is one short write); OpenSSL's rewriting of its index, taken as one step; the check of
  line 22 that the key is readable.
* *CertExpiry:* a file that vanishes between `find` and `openssl` (its empty date is taken
  for today's, `umbrella-expire-ssl-certs:18`), passwords of keys, the mail.
* *DhcpPublish:* a temporary file that is left half written is only ever overwritten.
* *Rendering:* `interface_stanza` (`30_networking.py:10-87`), which nothing calls any more, and
  the devices and addresses of the host itself (`231-248`), which only the netplan
  template reads; localized texts and
  other parameters of `00_baseparams.py` that are only copied; secondary name servers;
  `cleanup_fully_contained` (`20_networks.py:82-91`, with the working test `is_subnet_of`), which
  none of these files calls, only the templates of opendkim and squid; the list of DNS
  caches.
* *ZoneSerial:* the time of `umbrella.xml` is asked for by every zone, while the server may
  still render contents it has cached from before the change; an `umbrella.xml` restored
  from a backup with an older time.
* *PassFile:* what a password is made of.
* *ipclass:* on Python 3 it ends with an exception for an address that is in neither the
  public nor the secure network (`iteritems`, `ipclass.G50_ubuntu-jammy.genshi:41`); for Mkkeys
  this is a host without a profile.
* The components with status `not_modelled` in `PROJECT.json`, with the reasons there.
  Hazards of theirs that a later model should be aimed at: a backup stopped between the
  pivot and the removal of the snapshot file makes all later ones stop
  (`umbrella-backup-vms:38`); the KDC has changed a password and its answer is lost
  (`kpoppassd.c:249`); the installer is interrupted and started again
  (`umbrella-install:1658`); users are renumbered in an order in which one takes an id that
  is still in use (`umbrella-install:962`).

## 5. Plan

The core came first: the lock all jobs share, the job with the most state, and its
neighbours (RunLock, Mkkeys, ZonePublish, Registration, Crl, CertExpiry). Then what all
polling jobs promise and the second of them (LdapMirror, DhcpPublish), the two files with
state on disk that templates execute (ZoneSerial, PassFile), and the pure ones (Networks,
Organization, Servers, composed in Rendering). Left, in this order:

1. **Enrolment** - Registration composed with the three polling jobs, each as the LdapMirror
   it is shown to be: from the administrator's command to DNS, DHCP, clients and keytabs.
2. **UidRenumber** - `umbrella-install:932-1026`: the order of renumbering never merges two
   users. The order as a fold, so that it can be proved about.
3. **Kpoppassd** - the dialogue of `kpoppassd.c` with the client and the KDC, and the change
   whose answer is lost.
4. **BackupVMs**, **Installer**, **GroupLogic**, home directories: crashes between two commands
   and repetition.

Theorems worth proving next: for Enrolment, that what the
jobs publish is the content of LDAP at one moment each. Bounds for the new runs: two or three hosts, one
or two faults, one crash at any position, as above.
