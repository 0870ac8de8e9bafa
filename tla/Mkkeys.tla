------------------------------- MODULE Mkkeys -------------------------------
(***************************************************************************)
(* mkkeys.sh: the five-minute job on the config server that makes the      *)
(* Kerberos keytabs, the principals of the KDC, the bcfg2 client list and  *)
(* the SSL and SSH keys follow the hosts registered in LDAP.               *)
(*                                                                         *)
(* The script reads LDAP, the keytabs and clients.xml one after the other  *)
(* and then works from what it has read, one external command at a time,   *)
(* while administrators edit LDAP and clients.xml and bcfg2 clients        *)
(* connect and receive certificates.  Each command that reads or changes   *)
(* state is one action, so the script can be killed, and the others can    *)
(* act, between any two of them.  Line numbers are those of                *)
(* mkkeys.sh; RunLock models its lock in detail.                           *)
(***************************************************************************)
EXTENDS Naturals

CONSTANTS
  Host,          \* host names
  NoHost,        \* no host is being processed
  Config,        \* the config server, HOST_CONFIG
  Servers,       \* ALL_SERVERS
  KeyedServers,  \* ALL_SERVERS_WITH_KEYTAB
  Roaming,       \* hosts whose LDAP location is "roaming"
  Matches,       \* Matches[h]: the names that contain the name h
  Initial,       \* hosts enrolled when the behaviour starts
  MaxEdits,      \* bound on what the administrators do
  MaxFaults      \* bound on kills, failed commands and truncated LDAP reads

ASSUME HostsAssumption ==
  /\ NoHost \notin Host
  /\ Config \in KeyedServers
  /\ KeyedServers \subseteq Servers
  /\ Servers \subseteq Initial
  /\ Initial \subseteq Host
  /\ Roaming \subseteq Host

ASSUME MatchesAssumption ==
  /\ Matches \in [Host -> SUBSET Host]
  /\ \A h \in Host : h \in Matches[h]

ASSUME BoundsAssumption == MaxEdits \in Nat /\ MaxFaults \in Nat

Service == {"host", "nfs"}         \* the two principals of a host
Pem == {"none", "good", "revoked"} \* *.pem.H_host and its state at the CA

VARIABLES
  ldap,       \* number of LDAP entries with this cn, one per OU
  fullName,   \* hosts whose cn in LDAP is the name with the domain
  classed,    \* hosts whose address ipclass resolves to a profile
  keytab,     \* services in the host's keytab file, {} if there is no file
  princ,      \* principals of the host in the KDC
  clients,    \* clients.xml
  pem,        \* the host's certificate in the bcfg2 repository
  secrets,    \* hosts with private key or SSH key files in the repository
  stray,      \* hosts with an unrevoked certificate but no file of it
  connecting, \* clients whose configuration bcfg2 is generating
  lock,       \* the lock file: "free" or "held"
  run,        \* the shell variables and the position of the running script
  faulted,    \* hosts whose processing a fault, kill or race disturbed
  edits, faults

world == <<ldap, fullName, classed, edits, connecting>>
certs == <<pem, secrets, stray>>
kerberos == <<keytab, princ>>

vars == <<ldap, fullName, classed, keytab, princ, clients, pem, secrets, stray,
          connecting, lock, run, faulted, edits, faults>>

RevokeStages == {"revoke", "rm_pem", "rm_keys"}
KerberosStages == {"delprinc_host", "delprinc_nfs", "addprinc_nfs", "ktadd"}
CheckStages == {"sanity", "search", "check"}
Stages == {"idle", "compute", "clients", "mv", "keytabs", "rm_keytab", "add", "new"}
          \union CheckStages \union RevokeStages \union KerberosStages

\* "found" are the hosts the search has listed, "once" those it has listed once,
\* and "kept" the clients in the temporary file.
RunType == [pc : Stages, forced : {"no", "yes"}, cur : Host \union {NoHost},
            found : SUBSET Host, once : SUBSET Host, kept : SUBSET Host,
            extraClients : SUBSET Host, extraKeys : SUBSET Host,
            addKeys : SUBSET Host, newClients : SUBSET Host]

NotRunning == [pc |-> "idle", forced |-> "no", cur |-> NoHost,
               found |-> {}, once |-> {}, kept |-> {},
               extraClients |-> {}, extraKeys |-> {},
               addKeys |-> {}, newClients |-> {}]

TypeOK ==
  /\ ldap \in [Host -> 0..2]
  /\ fullName \in SUBSET Host
  /\ classed \in SUBSET Host
  /\ keytab \in [Host -> SUBSET Service]
  /\ princ \in [Host -> SUBSET Service]
  /\ clients \in SUBSET Host
  /\ pem \in [Host -> Pem]
  /\ secrets \in SUBSET Host
  /\ stray \in SUBSET Host
  /\ connecting \in SUBSET Host
  /\ lock \in {"free", "held"}
  /\ run \in RunType
  /\ run.pc \in {"rm_pem", "rm_keys"} \union KerberosStages => run.cur \in Host
  /\ faulted \in SUBSET Host
  /\ edits \in 0..MaxEdits
  /\ faults \in 0..MaxFaults

\* Every enrolled host has all it should have.
Init ==
  /\ ldap = [h \in Host |-> IF h \in Initial THEN 1 ELSE 0]
  /\ fullName = {}
  /\ classed = Initial
  /\ keytab = [h \in Host |-> IF h \in Initial THEN Service ELSE {}]
  /\ princ = [h \in Host |-> IF h \in Initial THEN Service ELSE {}]
  /\ clients = Initial
  /\ pem = [h \in Host |-> IF h \in Initial THEN "good" ELSE "none"]
  /\ secrets = Initial
  /\ stray = {}
  /\ connecting = {}
  /\ lock = "free"
  /\ run = NotRunning
  /\ faulted = {}
  /\ edits = 0
  /\ faults = 0

Registered == {h \in Host : ldap[h] > 0}

Fault == faults < MaxFaults /\ faults' = faults + 1

\* A command does its work or, by a fault, nothing.  The script looks at no
\* exit status after line 60, so it goes on in either case.
Works == UNCHANGED <<faults, faulted>>
Fails(h) == Fault /\ faulted' = faulted \union {h}

-----------------------------------------------------------------------------
(* The administrators and the bcfg2 server *)

\* Removed clients whose keys the running script is dealing with, and those it
\* has still to look for.
Removing == IF run.pc \in RevokeStages THEN run.extraClients ELSE {}
ToRevoke == Removing \ {run.cur}

Edit ==
  /\ edits < MaxEdits
  /\ edits' = edits + 1
  /\ UNCHANGED <<certs, kerberos, connecting, lock, run, faults>>

\* The same cn may be registered under two organizational units.
Register(h) ==
  /\ ldap[h] < 2
  /\ ldap' = [ldap EXCEPT ![h] = @ + 1]
  /\ \/ UNCHANGED fullName
     \/ ldap[h] = 0 /\ fullName' = fullName \union {h}
  /\ Edit
  /\ UNCHANGED <<classed, clients, faulted>>

Unregister(h) ==
  /\ ldap[h] > 0
  /\ ldap' = [ldap EXCEPT ![h] = @ - 1]
  /\ fullName' = IF ldap[h] = 1 THEN fullName \ {h} ELSE fullName
  /\ Edit
  /\ UNCHANGED <<classed, clients, faulted>>

\* What line 198 asks the administrator to do.
FixAddress(h) ==
  /\ classed' = classed \union {h}
  /\ Edit
  /\ UNCHANGED <<ldap, fullName, clients, faulted>>

\* Line 198 again, and the way Documentation/installer/umbrella.xml:335
\* describes for roaming workstations.
AddClientByHand(h) ==
  /\ clients' = clients \union {h}
  /\ faulted' = IF h \in Removing THEN faulted \union {h} ELSE faulted
  /\ Edit
  /\ UNCHANGED <<ldap, fullName, classed>>

\* bcfg2 serves a host only while it is in clients.xml, ...
Connect(h) ==
  /\ h \in clients
  /\ connecting' = connecting \union {h}
  /\ UNCHANGED <<ldap, fullName, classed, edits, kerberos, certs, clients, lock,
                 run, faulted, faults>>

\* ... but a certificate that is missing is made while the configuration is
\* being generated, which the script may overtake.
IssueCertificate(h) ==
  /\ h \in connecting
  /\ connecting' = connecting \ {h}
  /\ pem' = [pem EXCEPT ![h] = IF @ = "none" THEN "good" ELSE @]
  /\ secrets' = secrets \union {h}
  /\ faulted' = IF h \in clients \union ToRevoke THEN faulted
                                                 ELSE faulted \union {h}
  /\ UNCHANGED <<ldap, fullName, classed, edits, kerberos, clients, stray, lock,
                 run, faults>>

-----------------------------------------------------------------------------
(* One run of the script *)

Goto(stage) == run' = [run EXCEPT !.pc = stage]

\* The end of the script, and every `exit` of its body through the EXIT trap.
Exit == run' = NotRunning /\ lock' = "free"

\* Lines 30-50: cron starts the script without a flag, the administrator may
\* start it with -f; it goes on only if it creates the lock file.
Start(flag) ==
  /\ run.pc = "idle"
  /\ lock = "free"
  /\ lock' = "held"
  /\ run' = [run EXCEPT !.pc = "sanity", !.forced = flag]
  /\ UNCHANGED <<kerberos, clients, certs, faulted, faults>>

\* The servers that ldapsanity.sh:16-22 finds: it tests the unset $i instead of
\* $HOST, so it appends the domain to every cn, a full name too.
ServersFound == Servers \subseteq Registered \ fullName

\* ldapsanity.sh makes an LDAP search of its own, which may miss a server.
Sanity ==
  /\ run.pc = "sanity"
  /\ \/ ServersFound /\ Goto("search") /\ UNCHANGED <<lock, faults>>
     \/ ~ServersFound /\ Exit /\ UNCHANGED faults
     \/ Exit /\ Fault
  /\ UNCHANGED <<kerberos, clients, certs, faulted>>

Unique == {h \in Host : ldap[h] = 1}

\* Lines 62-72.  The search may fail or break off, its exit status is lost in the
\* pipeline: hosts are missing, or only one of a host's two entries is listed.
Search ==
  /\ run.pc = "search"
  /\ \E found \in SUBSET Registered : \E once \in SUBSET found :
       /\ found \intersect Unique \subseteq once
       /\ \/ found = Registered /\ once = Unique /\ UNCHANGED faults
          \/ <<found, once>> # <<Registered, Unique>> /\ Fault
       /\ run' = [run EXCEPT !.pc = "check", !.found = found, !.once = once]
  /\ UNCHANGED <<kerberos, clients, certs, lock, faulted>>

Keyed == {h \in Host : keytab[h] # {}}
KeytabsPresent == KeyedServers \subseteq Keyed

\* Mutant of CheckKeytabs: the flag decides nothing.
CheckKeytabsNever ==
  /\ run.pc = "check"
  /\ Goto("compute") /\ UNCHANGED lock
  /\ UNCHANGED <<kerberos, clients, certs, faulted, faults>>

\* Lines 75-94.  Only this script changes keytabs, under its lock: the list made
\* here is still right when line 104 uses it.
CheckKeytabs ==
  /\ run.pc = "check"
  /\ IF run.forced = "no" /\ ~KeytabsPresent
     THEN Exit
     ELSE Goto("compute") /\ UNCHANGED lock
  /\ UNCHANGED <<kerberos, clients, certs, faulted, faults>>

\* Mutants of Snapshot: hosts that have a keytab are taken for enrolled, and
\* the extra keytabs are looked for among the clients.
SnapshotUnkeyed(seen, once) ==
  run' = [run EXCEPT !.pc = "clients", !.found = {}, !.once = {},
                     !.extraClients = clients \ seen,
                     !.extraKeys = Keyed \ seen,
                     !.addKeys = (once \ Keyed) \ clients,
                     !.newClients = (once \ Keyed) \ clients]

SnapshotClientKeys(seen, once) ==
  run' = [run EXCEPT !.pc = "clients", !.found = {}, !.once = {},
                     !.extraClients = clients \ seen,
                     !.extraKeys = clients \ seen,
                     !.addKeys = (once \ Keyed) \ clients,
                     !.newClients = once \ clients]

\* The sets of lines 104-117.  `uniq -u` keeps the lines that occur once: a cn
\* found twice in LDAP is missing from "once", yet it is not extra either.
Snapshot(seen, once) ==
  run' = [run EXCEPT !.pc = "clients", !.found = {}, !.once = {},
                     !.extraClients = clients \ seen,
                     !.extraKeys = Keyed \ seen,
                     !.addKeys = (once \ Keyed) \ clients,
                     !.newClients = once \ clients]

\* Lines 96-117: clients.xml is read some time after LDAP.
Compute ==
  /\ run.pc = "compute"
  /\ Snapshot(run.found, run.once)
  /\ UNCHANGED <<kerberos, clients, certs, lock, faulted, faults>>

\* Mutant of Refuses: the check is gone.
RefusesNothing(names) == FALSE

\* `grep -q "${HOST_CONFIG}"` over the names to be deleted.
Refuses(names) == names \intersect Matches[Config] # {}

\* The hosts whose lines `grep -v` drops from clients.xml.
Dropped(names) == UNION {Matches[h] : h \in names}

\* Lines 119-132: the lines that stay go to a temporary file.
FilterClients ==
  /\ run.pc = "clients"
  /\ IF run.extraClients = {}
     THEN Goto("keytabs") /\ UNCHANGED lock
     ELSE IF Refuses(run.extraClients)
     THEN Exit
     ELSE /\ run' = [run EXCEPT !.pc = "mv",
                                !.kept = clients \ Dropped(run.extraClients)]
          /\ UNCHANGED lock
  /\ UNCHANGED <<kerberos, clients, certs, faulted, faults>>

\* Clients that somebody has added since, which the new file does not have.
Overwritten == clients \ (run.kept \union Dropped(run.extraClients))

\* Mutant of MoveClients: the loop runs over the extra keytabs.
MoveClientsKeyLoop ==
  /\ run.pc = "mv"
  /\ clients' = run.kept
  /\ faulted' = faulted \union Overwritten
  /\ run' = [run EXCEPT !.pc = "revoke", !.kept = {}, !.extraClients = run.extraKeys]
  /\ UNCHANGED <<kerberos, certs, lock, faults>>

\* Lines 134-135.
MoveClients ==
  /\ run.pc = "mv"
  /\ clients' = run.kept
  /\ faulted' = faulted \union Overwritten
  /\ run' = [run EXCEPT !.pc = "revoke", !.kept = {}]
  /\ UNCHANGED <<kerberos, certs, lock, faults>>

\* Line 140 for the next host of the loop.
RevokeCertificate ==
  /\ run.pc = "revoke"
  /\ \E h \in run.extraClients :
       /\ run' = [run EXCEPT !.pc = "rm_pem", !.cur = h]
       /\ \/ /\ pem' = [pem EXCEPT ![h] = IF @ = "good" THEN "revoked" ELSE @]
             /\ Works
          \/ UNCHANGED pem /\ Fails(h)
  /\ UNCHANGED <<kerberos, clients, secrets, stray, lock>>

\* Line 142, whatever became of the revocation.
RemovePem ==
  /\ run.pc = "rm_pem"
  /\ pem' = [pem EXCEPT ![run.cur] = "none"]
  /\ stray' = IF pem[run.cur] = "good" THEN stray \union {run.cur} ELSE stray
  /\ Goto("rm_keys")
  /\ UNCHANGED <<kerberos, clients, secrets, lock, faulted, faults>>

\* Lines 143 and 145: until the second command is done, some key is left.
RemoveKeys ==
  /\ run.pc = "rm_keys"
  /\ secrets' = secrets \ {run.cur}
  /\ LET rest == run.extraClients \ {run.cur}
     IN  run' = [run EXCEPT !.pc = IF rest = {} THEN "keytabs" ELSE "revoke",
                            !.extraClients = rest, !.cur = NoHost]
  /\ UNCHANGED <<kerberos, clients, pem, stray, lock, faulted, faults>>

\* Lines 149-154.
DeleteKeytabs ==
  /\ run.pc = "keytabs"
  /\ IF run.extraKeys # {} /\ Refuses(run.extraKeys)
     THEN Exit
     ELSE /\ Goto(IF run.extraKeys = {} THEN "add" ELSE "rm_keytab")
          /\ UNCHANGED lock
  /\ UNCHANGED <<kerberos, clients, certs, faulted, faults>>

\* Line 156 for the next host of the loop.
RemoveKeytab ==
  /\ run.pc = "rm_keytab"
  /\ \E h \in run.extraKeys :
       /\ keytab' = [keytab EXCEPT ![h] = {}]
       /\ run' = [run EXCEPT !.pc = "delprinc_host", !.cur = h]
  /\ UNCHANGED <<princ, clients, certs, lock, faulted, faults>>

\* A kadmin command on the principals of h; the KDC may not answer.
Kadmin(h, principals) ==
  \/ princ' = [princ EXCEPT ![h] = principals] /\ Works
  \/ UNCHANGED princ /\ Fails(h)

\* Line 158.
DelprincHost ==
  /\ run.pc = "delprinc_host"
  /\ Kadmin(run.cur, princ[run.cur] \ {"host"})
  /\ Goto("delprinc_nfs")
  /\ UNCHANGED <<keytab, clients, certs, lock>>

\* Mutant of DelprincNfs: line 159 is missing.
DelprincNfsMissing ==
  /\ run.pc = "delprinc_nfs"
  /\ LET rest == run.extraKeys \ {run.cur}
     IN  run' = [run EXCEPT !.pc = IF rest = {} THEN "add" ELSE "rm_keytab",
                            !.extraKeys = rest, !.cur = NoHost]
  /\ UNCHANGED <<kerberos, clients, certs, lock, faulted, faults>>

\* Line 159, and on to the next host.
DelprincNfs ==
  /\ run.pc = "delprinc_nfs"
  /\ Kadmin(run.cur, princ[run.cur] \ {"nfs"})
  /\ LET rest == run.extraKeys \ {run.cur}
     IN  run' = [run EXCEPT !.pc = IF rest = {} THEN "add" ELSE "rm_keytab",
                            !.extraKeys = rest, !.cur = NoHost]
  /\ UNCHANGED <<keytab, clients, certs, lock>>

\* Line 166 for the next host of the loop; an existing principal is kept.
AddprincHost ==
  /\ run.pc = "add"
  /\ \E h \in run.addKeys :
       /\ Kadmin(h, princ[h] \union {"host"})
       /\ run' = [run EXCEPT !.pc = "addprinc_nfs", !.cur = h]
  /\ UNCHANGED <<keytab, clients, certs, lock>>

\* Line 167.
AddprincNfs ==
  /\ run.pc = "addprinc_nfs"
  /\ Kadmin(run.cur, princ[run.cur] \union {"nfs"})
  /\ Goto("ktadd")
  /\ UNCHANGED <<keytab, clients, certs, lock>>

\* Mutant of InstallKeytab: the keytab is made for principals that may be
\* missing.
InstallKeytabUnchecked ==
  /\ run.pc = "ktadd"
  /\ keytab' = [keytab EXCEPT ![run.cur] = Service]
  /\ run' = [run EXCEPT !.pc = "add", !.addKeys = @ \ {run.cur},
                        !.cur = NoHost]
  /\ UNCHANGED <<princ, clients, certs, lock, faulted, faults>>

\* Lines 168-174: the keys of the principals that exist go to a temporary file
\* that is moved in place; without any there is no file to move.
InstallKeytab ==
  /\ run.pc = "ktadd"
  /\ \/ keytab' = [keytab EXCEPT ![run.cur] = princ[run.cur]] /\ Works
     \/ UNCHANGED keytab /\ Fails(run.cur)
  /\ run' = [run EXCEPT !.pc = "add", !.addKeys = @ \ {run.cur},
                        !.cur = NoHost]
  /\ UNCHANGED <<princ, clients, certs, lock>>

KeysDone ==
  /\ run.pc = "add"
  /\ run.addKeys = {}
  /\ Goto("new")
  /\ UNCHANGED <<kerberos, clients, certs, lock, faulted, faults>>

\* Lines 181-194: what LDAP and ipclass say of the host now, after its keys
\* have been made.  Line 181 asks for the location under the short name only.
HasProfile(h) == ldap[h] = 1 /\ h \in (Roaming \ fullName) \union classed

\* Lines 178-202 for the next host of the loop.  A search that fails or breaks
\* off may hide the host, its location, or one of its two entries.
AddClient ==
  /\ run.pc = "new"
  /\ \E h \in run.newClients :
       /\ \/ /\ clients' = IF HasProfile(h) THEN clients \union {h} ELSE clients
             /\ UNCHANGED faults
          \/ /\ Fault
             /\ \/ UNCHANGED clients
                \/ /\ h \in Registered /\ h \in (Roaming \ fullName) \union classed
                   /\ clients' = clients \union {h}
       /\ run' = [run EXCEPT !.newClients = @ \ {h}]
  /\ UNCHANGED <<kerberos, certs, lock, faulted>>

\* Lines 204-206.
Finish ==
  /\ run.pc = "new"
  /\ run.newClients = {}
  /\ Exit
  /\ UNCHANGED <<kerberos, clients, certs, faulted, faults>>

-----------------------------------------------------------------------------
(* Kills and reboots *)

\* The host whose principals and keytab the script is changing.
Rekeying == IF run.pc \in KerberosStages THEN {run.cur} ELSE {}

Interrupted ==
  /\ run' = NotRunning
  /\ faulted' = faulted \union Removing \union Rekeying
  /\ UNCHANGED <<world, kerberos, clients, certs>>

\* SIGKILL: no trap runs, so the lock file stays.
Kill ==
  /\ run.pc # "idle"
  /\ Fault
  /\ Interrupted
  /\ UNCHANGED lock

\* A reboot empties /var/run and ends a run that is under way.
Reboot ==
  /\ \/ run.pc = "idle" /\ lock = "held" /\ UNCHANGED faults
     \/ run.pc # "idle" /\ Fault
  /\ Interrupted
  /\ lock' = "free"

-----------------------------------------------------------------------------
Run ==
  /\ \/ Sanity \/ Search \/ CheckKeytabs \/ Compute
     \/ FilterClients \/ MoveClients \/ RevokeCertificate \/ RemovePem \/ RemoveKeys
     \/ DeleteKeytabs \/ RemoveKeytab \/ DelprincHost \/ DelprincNfs
     \/ AddprincHost \/ AddprincNfs \/ InstallKeytab \/ KeysDone
     \/ AddClient \/ Finish
  /\ UNCHANGED world

Cron == Start("no") /\ UNCHANGED world

Forced == Start("yes") /\ UNCHANGED world

Next ==
  \/ Cron \/ Forced \/ Run \/ Kill \/ Reboot
  \/ \E h \in Host : \/ Register(h) \/ Unregister(h) \/ FixAddress(h)
                     \/ AddClientByHand(h)
                     \/ Connect(h) \/ IssueCertificate(h)

Spec == Init /\ [][Next]_vars

\* cron starts the script again and again, a running script goes on, and a
\* config server with a stale lock is rebooted some day.
FairSpec == Spec /\ WF_vars(Cron) /\ WF_vars(Run) /\ WF_vars(Reboot)

-----------------------------------------------------------------------------
(* Properties *)

\* Lines 124 and 151: whatever administrators, faults and kills do to LDAP and
\* to the run, the config server stays a client and keeps its keytab.
ConfigProtected == Config \in clients /\ keytab[Config] # {}

\* An installed keytab holds only keys of existing principals: they are added
\* before it is installed and deleted after it is removed.
KeytabBacked == \A h \in Host : keytab[h] \subseteq princ[h]

\* A host that has left clients.xml leaves no usable certificate and no key
\* behind, and no client is served a revoked certificate, except where a
\* fault, a kill or a late certificate disturbed the removal.
CertificatesAccounted ==
  \A h \in Host \ (faulted \union Removing) :
    /\ h \in clients => pem[h] # "revoked"
    /\ h \notin clients => pem[h] = "none" /\ h \notin secrets \union stray

\* A host without a keytab has no principals left in the KDC either, except
\* while the run works on it or where a fault or a kill disturbed that.
PrincipalsAccounted ==
  \A h \in Host \ (faulted \union Rekeying) :
    keytab[h] = {} => princ[h] = {}

\* A host that stays registered once, with a known profile, becomes and stays a
\* client, as long as ldapsanity.sh finds the servers and either they keep their
\* keytabs or an administrator uses -f now and then.
RegisteredBecomeClients ==
  \A h \in Host :
    /\ <>[](ServersFound /\ HasProfile(h))
    /\ <>[]KeytabsPresent \/ []<><<Forced>>_vars
    => <>[](h \in clients)

\* A host that stays unregistered loses, under the same conditions, its place in
\* clients.xml and its keytab; its certificates, keys and principals go with them
\* unless a fault or a late certificate disturbed that.
UnregisteredAreRemoved ==
  \A h \in Host :
    /\ <>[](ServersFound /\ ldap[h] = 0)
    /\ <>[]KeytabsPresent \/ []<><<Forced>>_vars
    => <>[](/\ h \notin clients /\ keytab[h] = {}
            /\ \/ h \in faulted
               \/ pem[h] = "none" /\ h \notin secrets /\ princ[h] = {})

\* Lines 64-202: clients.xml, keytabs and certificates come to follow LDAP,
\* whatever failed before, but for a lost server keytab (LostKeytabBlocks).
ClientsFollowLdap == RegisteredBecomeClients /\ UnregisteredAreRemoved

\* A server has lost its keytab, and no run that could make it is under way.
Blocked ==
  /\ ~KeytabsPresent
  /\ run.forced = "no" /\ run.pc \in {"idle"} \union CheckStages

\* Lines 88-94: a single search that misses a server other than the config server
\* takes its keytab away (line 156), and from then on no run that cron starts
\* changes anything, however often it is repeated, until somebody uses -f.
LostKeytabBlocks ==
  [][Blocked => \/ Forced
                \/ /\ Blocked'
                   /\ UNCHANGED kerberos
                   /\ clients' = clients \/ \E h \in Host : AddClientByHand(h)]_vars
=============================================================================
