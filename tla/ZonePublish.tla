---------------------------- MODULE ZonePublish ----------------------------
(***************************************************************************)
(* umbrella-ldap2zone: the five-minute job on the router that completes    *)
(* the zone headers bcfg2 generates with the hosts registered in LDAP and  *)
(* makes named load the result.                                            *)
(*                                                                         *)
(* One LDAP search feeds the forward zone file directly and a host list,   *)
(* from which the reverse zone of every network is made afterwards.  The   *)
(* script can fail or be stopped between any two commands, rndc can fail,  *)
(* and LDAP and the headers change at any time.  Zone 0 is the forward     *)
(* zone, zone n the reverse zone of the n-th network of NETWORKS.  Line    *)
(* numbers are those of umbrella-ldap2zone; RunLock models its lock.       *)
(***************************************************************************)
EXTENDS Naturals, Sequences, FiniteSets

CONSTANTS
  Host,        \* host names in LDAP
  Addr,        \* IP addresses
  NoAddr,      \* the address of a host that is not in LDAP
  NumNets,     \* number of networks in NETWORKS
  NumViews,    \* number of views in ZONE_VIEWS
  NetOf,       \* the network of an address, 0 for one outside of them all
  WrongClass,  \* networks whose mask may not be of the class 1, 2 or 3
  Initial,     \* the hosts of LDAP when the behaviour starts
  MaxRuns,     \* bound on the search results the host list can collect
  MaxEdits,    \* bound on changes of LDAP, of headers and restarts of named
  MaxFaults    \* bound on failed searches and reloads and stopped scripts

Net == 1..NumNets
Zone == 0..NumNets
View == 1..NumViews

ASSUME SizesAssumption == NumNets \in Nat /\ NumViews \in Nat
ASSUME BoundsAssumption ==
  MaxRuns \in Nat /\ MaxEdits \in Nat /\ MaxFaults \in Nat
ASSUME NetsAssumption == NetOf \in [Addr -> Zone] /\ WrongClass \subseteq Net
ASSUME LdapAssumption ==
  NoAddr \notin Addr /\ Initial \in [Host -> Addr \union {NoAddr}]

Record == Host \X Addr

\* What one LDAP search appends to a file, nothing if it finds nothing.
Batches == Seq(SUBSET Record)
Batch(records) == IF records = {} THEN <<>> ELSE <<records>>

\* A zone file: the version of its header and the host lines below it.
ZoneFile == [header : {0, 1}, hosts : Batches]

VARIABLES
  ldap,       \* address of each registered host
  header,     \* version of the header file of each zone
  file,       \* the zone files named loads
  loaded,     \* what each view of named has loaded for each zone
  missed,     \* the pairs of a view and a zone that missed a reload
  hostlist,   \* REVZONE_HOSTLIST; an empty list and none are the same
  unfinished, \* the last run that was started has not reached line 119
  refused,    \* networks whose mask is not of the class 1, 2 or 3
  grepcidr,   \* the command that picks a network's lines of the list is installed
  lock,       \* the lock file: "free" or "held"
  run,        \* the position of the running script, what it has read, and the
              \* hosts that have changed in LDAP since then
  edits, faults

vars == <<ldap, header, file, loaded, missed, hostlist, unfinished, refused,
          grepcidr, lock, run, edits, faults>>

RunType == [pc : {"idle", "search", "install", "reload", "finish"},
            zone : Zone, view : View \union {0}, header : {0, 1},
            found : SUBSET Record, changed : SUBSET Host]

NotRunning == [pc |-> "idle", zone |-> 0, view |-> 0, header |-> 0,
               found |-> {}, changed |-> {}]

TypeOK ==
  /\ ldap \in [Host -> Addr \union {NoAddr}]
  /\ header \in [Zone -> {0, 1}]
  /\ file \in [Zone -> ZoneFile]
  /\ loaded \in [View \X Zone -> ZoneFile]
  /\ missed \in SUBSET (View \X Zone)
  /\ hostlist \in Batches
  /\ unfinished \in BOOLEAN
  /\ refused \in SUBSET WrongClass
  /\ grepcidr \in BOOLEAN
  /\ lock \in {"free", "held"}
  /\ run \in RunType
  /\ run.pc = "reload" => run.view \in View
  /\ edits \in 0..MaxEdits
  /\ faults \in 0..MaxFaults

\* The records of LDAP, and those of a list that the script puts into a zone: line
\* 98 leaves a reverse zone without hosts where there is no grepcidr.
Records == {<<h, ldap[h]>> : h \in {g \in Host : ldap[g] # NoAddr}}
InZone(z, records) ==
  IF z = 0 THEN records ELSE {r \in records : grepcidr /\ NetOf[r[2]] = z}

\* The positions of a list in increasing order.
Increasing(f) == \A j, k \in DOMAIN f : j < k => f[j] < f[k]
InOrder(positions) ==
  CHOOSE f \in [1..Cardinality(positions) -> positions] : Increasing(f)

\* What of the list belongs to a zone, without the batches that have nothing.
ListInZone(z, list) ==
  LET filled == {i \in DOMAIN list : InZone(z, list[i]) # {}}
  IN  [k \in 1..Cardinality(filled) |-> InZone(z, list[InOrder(filled)[k]])]

UpToDate(z) == [header |-> header[z], hosts |-> Batch(InZone(z, Records))]

Init ==
  /\ refused \in {{}, WrongClass}
  /\ grepcidr \in BOOLEAN
  /\ ldap = Initial
  /\ header = [z \in Zone |-> 0]
  /\ file = [z \in Zone |-> UpToDate(z)]
  /\ loaded = [vz \in View \X Zone |-> UpToDate(vz[2])]
  /\ missed = {}
  /\ hostlist = <<>>
  /\ unfinished = FALSE
  /\ lock = "free"
  /\ run = NotRunning
  /\ edits = 0
  /\ faults = 0

Fault == faults < MaxFaults /\ faults' = faults + 1

-----------------------------------------------------------------------------
(* The others: LDAP, bcfg2 and named *)

Edit == edits < MaxEdits /\ edits' = edits + 1 /\ UNCHANGED <<refused, grepcidr>>

\* A host is registered, gets another address or is removed.
SetAddress(h, a) ==
  /\ ldap[h] # a
  /\ ldap' = [ldap EXCEPT ![h] = a]
  /\ run' = IF run.pc \in {"idle", "search"} THEN run
            ELSE [run EXCEPT !.changed = @ \union {h}]
  /\ Edit
  /\ UNCHANGED <<header, file, loaded, missed, hostlist, unfinished, lock,
                 faults>>

\* bcfg2 replaces a header.
ChangeHeader(z) ==
  /\ header' = [header EXCEPT ![z] = 1 - @]
  /\ Edit
  /\ UNCHANGED <<ldap, file, loaded, missed, hostlist, unfinished, lock, run,
                 faults>>

\* named loads all its zones anew.
LoadAll == loaded' = [vz \in View \X Zone |-> file[vz[2]]] /\ missed' = {}

RestartNamed ==
  /\ LoadAll
  /\ Edit
  /\ UNCHANGED <<ldap, header, file, hostlist, unfinished, lock, run, faults>>

-----------------------------------------------------------------------------
(* One run of the script *)

Exit == run' = NotRunning /\ lock' = "free"

\* Lines 12-32: the forward header is read here.
Start ==
  /\ run.pc = "idle"
  /\ lock = "free"
  /\ Len(hostlist) < MaxRuns
  /\ lock' = "held"
  /\ run' = [run EXCEPT !.pc = "search", !.header = header[0]]
  /\ unfinished' = TRUE
  /\ UNCHANGED <<file, loaded, missed, hostlist, faults>>

\* Lines 34-49.
Search ==
  /\ run.pc = "search"
  /\ hostlist' = hostlist \o Batch(Records)
  /\ run' = [run EXCEPT !.pc = "install", !.found = Records]
  /\ UNCHANGED <<file, loaded, missed, unfinished, lock, faults>>

\* Mutant of SearchFails: without the test of line 50 the run goes on with
\* what it has got.
SearchFailsUnnoticed ==
  /\ run.pc = "search"
  /\ Fault
  /\ \E part \in SUBSET Records :
       /\ hostlist' = hostlist \o Batch(part)
       /\ run' = [run EXCEPT !.pc = "install", !.found = part]
  /\ UNCHANGED <<file, loaded, missed, unfinished, lock>>

\* Lines 50-53: the records that came before the failure are in the host list.
SearchFails ==
  /\ run.pc = "search"
  /\ Fault
  /\ \E part \in SUBSET Records : hostlist' = hostlist \o Batch(part)
  /\ Exit
  /\ UNCHANGED <<file, loaded, missed, unfinished>>

\* The file that is made for the zone the run is at.
Made ==
  IF run.zone = 0
  THEN [header |-> run.header, hosts |-> Batch(run.found)]
  ELSE [header |-> header[run.zone], hosts |-> ListInZone(run.zone, hostlist)]

\* On to the next network, and after the last one to line 119.
NextZone ==
  run' = IF run.zone < NumNets
         THEN [run EXCEPT !.pc = "install", !.zone = @ + 1, !.view = 0]
         ELSE [run EXCEPT !.pc = "finish", !.view = 0]

\* Mutant of Install: line 119 stands inside the loop.
InstallConsuming ==
  /\ run.pc = "install"
  /\ run.zone \notin refused
  /\ file' = [file EXCEPT ![run.zone] = Made]
  /\ hostlist' = IF run.zone = 0 THEN hostlist ELSE <<>>
  /\ IF file[run.zone] # Made /\ NumViews > 0
     THEN run' = [run EXCEPT !.pc = "reload", !.view = 1]
     ELSE NextZone
  /\ UNCHANGED <<loaded, missed, unfinished, lock, faults>>

\* Mutant of Install: the file is copied before it is compared.
InstallWithoutReload ==
  /\ run.pc = "install"
  /\ run.zone \notin refused
  /\ file' = [file EXCEPT ![run.zone] = Made]
  /\ NextZone
  /\ UNCHANGED <<loaded, missed, hostlist, unfinished, lock, faults>>

\* Lines 55-64 and 71-116: a file that differs is moved in place.
Install ==
  /\ run.pc = "install"
  /\ run.zone \notin refused
  /\ file' = [file EXCEPT ![run.zone] = Made]
  /\ IF file[run.zone] # Made /\ NumViews > 0
     THEN run' = [run EXCEPT !.pc = "reload", !.view = 1]
     ELSE NextZone
  /\ UNCHANGED <<loaded, missed, hostlist, unfinished, lock, faults>>

\* Lines 81-84.
RefuseNetwork ==
  /\ run.pc = "install"
  /\ run.zone \in refused
  /\ Exit
  /\ UNCHANGED <<file, loaded, missed, hostlist, unfinished, faults>>

NextView ==
  IF run.view < NumViews THEN run' = [run EXCEPT !.view = @ + 1] ELSE NextZone

\* Lines 58-60 and 110-112 for the next view.  A failure of rndc is ignored.
Reload ==
  /\ run.pc = "reload"
  /\ LET vz == <<run.view, run.zone>>
     IN  \/ /\ loaded' = [loaded EXCEPT ![vz] = file[run.zone]]
            /\ missed' = missed \ {vz}
            /\ UNCHANGED faults
         \/ /\ missed' = missed \union {vz}
            /\ Fault
            /\ UNCHANGED loaded
  /\ NextView
  /\ UNCHANGED <<file, hostlist, unfinished, lock>>

\* Mutant of Finish: line 119 is missing.
FinishKeepingList ==
  /\ run.pc = "finish"
  /\ unfinished' = FALSE
  /\ Exit
  /\ UNCHANGED <<file, loaded, missed, hostlist, faults>>

\* Lines 119-123.
Finish ==
  /\ run.pc = "finish"
  /\ hostlist' = <<>>
  /\ unfinished' = FALSE
  /\ Exit
  /\ UNCHANGED <<file, loaded, missed, faults>>

-----------------------------------------------------------------------------
(* Signals, kills and reboots *)

\* The views that a run stopped now leaves with an old zone.
Unreloaded ==
  IF run.pc = "reload" THEN {<<v, run.zone>> : v \in run.view..NumViews} ELSE {}

Stopped ==
  /\ run.pc # "idle"
  /\ Fault
  /\ run' = NotRunning
  /\ \E part \in SUBSET Records :
       /\ part = {} \/ run.pc = "search"
       /\ hostlist' = hostlist \o Batch(part)
  /\ UNCHANGED <<file, unfinished>>

\* A signal runs the trap, SIGKILL leaves the lock file where it is.
Stop ==
  /\ Stopped
  /\ lock' \in {"free", "held"}
  /\ missed' = missed \union Unreloaded
  /\ UNCHANGED loaded

\* A reboot empties /tmp, /var/cache/bind remains.
Reboot ==
  /\ \/ Stopped
     \/ run.pc = "idle" /\ lock = "held"
        /\ UNCHANGED <<run, hostlist, file, unfinished, faults>>
  /\ lock' = "free"
  /\ LoadAll

-----------------------------------------------------------------------------
world == <<ldap, header, refused, grepcidr, edits>>

Cron == Start /\ UNCHANGED world

Run ==
  /\ \/ Search \/ SearchFails
     \/ Install \/ RefuseNetwork \/ Reload \/ Finish
  /\ UNCHANGED world

Restarted == Reboot /\ UNCHANGED world

\* Not a step of the system: a host list longer than MaxRuns is not explored.
BoundReached == Len(hostlist) >= MaxRuns /\ run.pc = "idle" /\ UNCHANGED vars

Next ==
  \/ Cron
  \/ Run
  \/ Stop /\ UNCHANGED world
  \/ Restarted
  \/ \E h \in Host, a \in Addr \union {NoAddr} : SetAddress(h, a)
  \/ \E z \in Zone : ChangeHeader(z)
  \/ RestartNamed
  \/ BoundReached

Spec == Init /\ [][Next]_vars

\* cron starts the script every five minutes, a running script goes on, and a
\* router with a stale lock file is rebooted some day.
FairSpec == Spec /\ WF_vars(Cron) /\ WF_vars(Run) /\ WF_vars(Restarted)

-----------------------------------------------------------------------------
(* Properties *)

Lines(z) == UNION {file[z].hosts[i] : i \in DOMAIN file[z].hosts}

\* At the end of a run the forward zone holds the address LDAP has for a host,
\* or nothing if LDAP has none: a search that fails or breaks off is noticed, and
\* "zone unchanged" (line 51) is what becomes of it.  Hosts that changed while
\* the run went on have to wait for the next one.
ForwardIsCurrent ==
  run.pc = "finish" =>
    \A h \in Host \ run.changed :
      {r \in Lines(0) : r[1] = h} = {r \in Records : r[1] = h}

\* The forward zone is at all times what LDAP contained at one moment, however
\* the search ends and wherever the script is stopped: as far as safety goes, the
\* script implements LdapMirror.
Mirror == INSTANCE LdapMirror WITH
  source <- Records,
  taken  <- IF run.pc = "install" /\ run.zone = 0 THEN {run.found} ELSE {},
  copy   <- Lines(0)

MirrorsLdap == Mirror!Safety

\* When the last run went through to its end, every host of the forward zone
\* that lies in one of the networks has its line in the reverse zone of that
\* network, whatever failed before, if grepcidr is there.
PtrForEveryA ==
  ~unfinished /\ grepcidr => \A r \in Lines(0) : NetOf[r[2]] # 0 => r \in Lines(NetOf[r[2]])

\* A view serves the zone files as they are, unless a reload of it failed or
\* was prevented, or is about to happen.
NamedServesFiles ==
  \A v \in View, z \in Zone :
    \/ loaded[v, z] = file[z]
    \/ <<v, z>> \in missed \union Unreloaded

\* Once LDAP and the headers rest, all zone files become and stay complete (a
\* reverse zone as far as grepcidr is there) and free of anything else, stale
\* lines of earlier failures included, unless the script refuses a network.
FilesFollowLdap ==
  refused = {} /\ <>[][FALSE]_<<ldap, header>>
    => <>[](\A z \in Zone : file[z] = UpToDate(z))

\* The header of the reverse zones (mainzone.rev.genshi:63): "supplemented (every
\* 5 minutes) by a live list of hosts from LDAP".  When a run went through to its
\* end, the reverse zones have no host that the forward zone lacks.
NoStalePtr == ~unfinished => \A n \in Net : Lines(n) \subseteq Lines(0)

\* The same comment, line 65: "The resulting completed zone file is then
\* (re)loaded into the local bind", and Documentation/installer/README:202: "Wait
\* 5 minutes ... to propagate to DNS".
DnsFollowsLdap ==
  <>[][FALSE]_<<ldap, header>>
    => <>[](\A v \in View, z \in Zone : loaded[v, z] = UpToDate(z))
=============================================================================
