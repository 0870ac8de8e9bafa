---------------------------- MODULE Registration ----------------------------
(***************************************************************************)
(* umbrella-addworkstation and umbrella-hosts: administrators register     *)
(* workstations in LDAP from the command line of the config server.        *)
(*                                                                         *)
(* The script has umbrella-hosts choose or check an address, makes the     *)
(* organizational units that are missing one by one, and adds the host.    *)
(* No lock keeps two administrators apart, every LDAP command can fail,    *)
(* and hosts are removed meanwhile.  Bare line numbers are those of        *)
(* umbrella-addworkstation.                                                *)
(***************************************************************************)
EXTENDS Naturals, Sequences, FiniteSets

CONSTANTS
  Proc,        \* administrators
  Ou,          \* organizational units
  Name,        \* host names
  Addr,        \* IP addresses, numbers
  NoAddr,      \* the address of a host that is not registered
  AnyAddr,     \* asked for when the script shall choose the address
  Network,     \* the addresses of the network organization.xml gives a unit
  Server,      \* addresses of servers in umbrella.xml
  Node,        \* LDAP nodes that hold others
  Chain,       \* the nodes above the hosts of a unit, topmost first
  Initial,     \* nodes that exist when the behaviour starts
  Asked,       \* the unit, name and address each administrator asks for
  BadMac,      \* administrators who mistype the MAC address
  MaxRemovals, \* bound on removals of hosts
  MaxFaults    \* bound on LDAP commands that fail

ASSUME AddrAssumption ==
  /\ Addr \subseteq Nat
  /\ NoAddr \notin Addr /\ AnyAddr \notin Addr
  /\ Network \in [Ou -> SUBSET Addr]
  /\ Server \subseteq Addr
ASSUME TreeAssumption ==
  /\ Chain \in [Ou -> Seq(Node)]
  /\ \A ou \in Ou : Len(Chain[ou]) > 0
  /\ Initial \subseteq Node
ASSUME AskedAssumption ==
  /\ Asked \in [Proc -> [ou : Ou, name : Name, addr : Addr \union {AnyAddr}]]
  /\ BadMac \subseteq Proc
ASSUME BoundsAssumption == MaxRemovals \in Nat /\ MaxFaults \in Nat

VARIABLES
  nodes,    \* LDAP nodes that exist
  host,     \* the address of each host entry, by unit and name
  pc,       \* where the script of each administrator is
  addr,     \* its variable ip
  level,    \* the node of the chain it is at
  outcome,  \* how the last script of each administrator ended
  disturbed, \* administrators whose last script ran at the same time as
             \* another one, or whose umbrella-hosts missed an address
  doubtful,  \* hosts that were added by such a script
  removals, faults

vars == <<nodes, host, pc, addr, level, outcome, disturbed, doubtful, removals,
          faults>>
ldap == <<nodes, host, doubtful>>

\* The stages at which a script has an address that it has not added yet.
Holding == {"look", "make", "attach", "unique", "add"}

Outcomes == {"none", "registered", "exists", "refused", "failed"}

TypeOK ==
  /\ nodes \in SUBSET Node
  /\ host \in [Ou \X Name -> Addr \union {NoAddr}]
  /\ pc \in [Proc -> {"idle", "address", "verify"} \union Holding]
  /\ addr \in [Proc -> Addr \union {NoAddr}]
  /\ level \in [Proc -> Nat]
  /\ \A p \in Proc : /\ pc[p] \in {"look", "make"}
                          => level[p] \in DOMAIN Chain[Asked[p].ou]
                     /\ pc[p] \in Holding => addr[p] \in Addr
  /\ outcome \in [Proc -> Outcomes]
  /\ disturbed \in SUBSET Proc
  /\ doubtful \in SUBSET (Ou \X Name)
  /\ removals \in 0..MaxRemovals
  /\ faults \in 0..MaxFaults

Init ==
  /\ nodes = Initial
  /\ host = [key \in Ou \X Name |-> NoAddr]
  /\ pc = [p \in Proc |-> "idle"]
  /\ addr = [p \in Proc |-> NoAddr]
  /\ level = [p \in Proc |-> 0]
  /\ outcome = [p \in Proc |-> "none"]
  /\ disturbed = {}
  /\ doubtful = {}
  /\ removals = 0
  /\ faults = 0

\* The entry an administrator asks for, and the nodes above it.
Entry(p) == <<Asked[p].ou, Asked[p].name>>
Above(p) == Chain[Asked[p].ou]
Last(p) == Above(p)[Len(Above(p))]

Registered == {key \in Ou \X Name : host[key] # NoAddr}
InUse == {host[key] : key \in Registered}

Fault == faults < MaxFaults /\ faults' = faults + 1

Goto(p, stage) == pc' = [pc EXCEPT ![p] = stage]

End(p, how) ==
  /\ pc' = [pc EXCEPT ![p] = "idle"]
  /\ addr' = [addr EXCEPT ![p] = NoAddr]
  /\ level' = [level EXCEPT ![p] = 0]
  /\ outcome' = [outcome EXCEPT ![p] = how]

-----------------------------------------------------------------------------
(* umbrella-addworkstation *)

Running == {p \in Proc : pc[p] # "idle"}

\* An administrator asks until the host is registered.
Begin(p) ==
  /\ pc[p] = "idle"
  /\ outcome[p] \notin {"registered", "exists"}
  /\ Goto(p, "address")
  /\ disturbed' = IF Running = {} THEN disturbed \ {p}
                  ELSE disturbed \union Running \union {p}
  /\ UNCHANGED <<ldap, addr, level, outcome, removals, faults>>

\* get_network_by_path and get_curr_network, umbrella-hosts lines 57-63 and
\* 87-102: a unit without a network is refused.
Known(ou) == Network[ou] # {}

\* umbrella-hosts lines 47-55: the first address of the network not taken.
FirstFree(ou, taken) ==
  LET free == Network[ou] \ taken
  IN  CHOOSE a \in free : \A b \in free : a <= b

\* Mutant of Chosen: the addresses of umbrella.xml are left out.
ChosenOfServers(ou, asked, taken) ==
  IF asked = AnyAddr
  THEN IF Network[ou] \subseteq taken \ Server THEN NoAddr
       ELSE FirstFree(ou, taken \ Server)
  ELSE IF asked \in Network[ou] \ (taken \ Server) THEN asked ELSE NoAddr

\* Mutant of Chosen: an address that is asked for need only be in the network.
ChosenTaken(ou, asked, taken) ==
  IF asked = AnyAddr
  THEN IF Network[ou] \subseteq taken THEN NoAddr ELSE FirstFree(ou, taken)
  ELSE IF asked \in Network[ou] THEN asked ELSE NoAddr

\* umbrella-hosts lines 119-142.
Chosen(ou, asked, taken) ==
  IF asked = AnyAddr
  THEN IF Network[ou] \subseteq taken THEN NoAddr ELSE FirstFree(ou, taken)
  ELSE IF asked \in Network[ou] /\ asked \notin taken THEN asked ELSE NoAddr

\* Lines 104-135.  load_all_IPs (umbrella-hosts lines 22-38) gets the addresses
\* of LDAP through a pipeline, so a search that fails or breaks off goes
\* unnoticed.
ChooseAddress(p) ==
  /\ pc[p] = "address"
  /\ \E seen \in SUBSET InUse :
       /\ \/ seen = InUse /\ UNCHANGED <<disturbed, faults>>
          \/ seen # InUse /\ Fault /\ disturbed' = disturbed \union {p}
       /\ LET a == Chosen(Asked[p].ou, Asked[p].addr, Server \union seen)
          IN  IF ~Known(Asked[p].ou) \/ a = NoAddr \/ p \in BadMac
              THEN End(p, "refused")
              ELSE /\ addr' = [addr EXCEPT ![p] = a]
                   /\ level' = [level EXCEPT ![p] = 1]
                   /\ Goto(p, "look")
                   /\ UNCHANGED outcome
  /\ UNCHANGED <<ldap, removals>>

\* LDAP_has_LEAF, lines 142-155: whatever is neither success nor "no such
\* object" ends the script.
SearchError(p) ==
  /\ pc[p] \in {"look", "attach", "unique", "verify"}
  /\ Fault
  /\ End(p, "failed")
  /\ UNCHANGED <<ldap, disturbed, removals>>

NextLevel(p) ==
  IF level[p] < Len(Above(p))
  THEN level' = [level EXCEPT ![p] = @ + 1] /\ Goto(p, "look")
  ELSE Goto(p, "attach") /\ UNCHANGED level

\* Lines 172, 191 and 202.
Look(p) ==
  /\ pc[p] = "look"
  /\ IF Above(p)[level[p]] \in nodes
     THEN NextLevel(p)
     ELSE Goto(p, "make") /\ UNCHANGED level
  /\ UNCHANGED <<ldap, addr, outcome, disturbed, removals, faults>>

\* LDAP takes a node only below an existing one.
HasParent(p) == level[p] = 1 \/ Above(p)[level[p] - 1] \in nodes

\* Mutant of Make: nodes below the first one are left to the last command.
MakeFirst(p) ==
  /\ pc[p] = "make"
  /\ nodes' = IF level[p] = 1 THEN nodes \union {Above(p)[1]} ELSE nodes
  /\ NextLevel(p)
  /\ UNCHANGED <<host, doubtful, addr, outcome, disturbed, removals, faults>>

\* Lines 174-181, 193-197 and 204-208; whether ldapadd failed is not looked at.
Make(p) ==
  /\ pc[p] = "make"
  /\ \/ /\ nodes' = IF HasParent(p) THEN nodes \union {Above(p)[level[p]]}
                                    ELSE nodes
        /\ UNCHANGED faults
     \/ Fault /\ UNCHANGED nodes
  /\ NextLevel(p)
  /\ UNCHANGED <<host, doubtful, addr, outcome, disturbed, removals>>

\* Lines 211-214.
Attach(p) ==
  /\ pc[p] = "attach"
  /\ IF Last(p) \in nodes
     THEN Goto(p, "unique") /\ UNCHANGED <<addr, level, outcome>>
     ELSE End(p, "failed")
  /\ UNCHANGED <<ldap, disturbed, removals, faults>>

\* Lines 216-219.
Unique(p) ==
  /\ pc[p] = "unique"
  /\ IF Entry(p) \in Registered
     THEN End(p, "exists")
     ELSE Goto(p, "add") /\ UNCHANGED <<addr, level, outcome>>
  /\ UNCHANGED <<ldap, disturbed, removals, faults>>

\* Lines 222-232.  LDAP takes an entry only once.
Add(p) ==
  /\ pc[p] = "add"
  /\ \/ /\ Entry(p) \notin Registered /\ Last(p) \in nodes
        /\ host' = [host EXCEPT ![Entry(p)] = addr[p]]
        /\ doubtful' = IF p \in disturbed THEN doubtful \union {Entry(p)}
                                          ELSE doubtful
        /\ UNCHANGED faults
     \/ /\ Entry(p) \in Registered \/ Last(p) \notin nodes
        /\ UNCHANGED <<host, doubtful, faults>>
     \/ Fault /\ UNCHANGED <<host, doubtful>>
  /\ Goto(p, "verify")
  /\ UNCHANGED <<nodes, addr, level, outcome, disturbed, removals>>

\* Mutant of Verify: the message is printed without looking.
VerifyNothing(p) ==
  /\ pc[p] = "verify"
  /\ pc' = [pc EXCEPT ![p] = "idle"]
  /\ outcome' = [outcome EXCEPT ![p] = "registered"]
  /\ UNCHANGED <<ldap, addr, level, disturbed, removals, faults>>

\* Lines 234-243.  The address stays in the message of line 236.
Verify(p) ==
  /\ pc[p] = "verify"
  /\ IF Entry(p) \in Registered
     THEN /\ pc' = [pc EXCEPT ![p] = "idle"]
          /\ outcome' = [outcome EXCEPT ![p] = "registered"]
          /\ UNCHANGED <<addr, level>>
     ELSE End(p, "failed")
  /\ UNCHANGED <<ldap, disturbed, removals, faults>>

-----------------------------------------------------------------------------
(* Others *)

\* A host is taken out of LDAP; whoever registered it forgets about it.
Remove(key) ==
  /\ host[key] # NoAddr
  /\ removals < MaxRemovals
  /\ removals' = removals + 1
  /\ host' = [host EXCEPT ![key] = NoAddr]
  /\ doubtful' = doubtful \ {key}
  /\ outcome' = [p \in Proc |-> IF Entry(p) = key /\ pc[p] = "idle"
                                THEN "none" ELSE outcome[p]]
  /\ addr' = [p \in Proc |-> IF Entry(p) = key /\ pc[p] = "idle"
                             THEN NoAddr ELSE addr[p]]
  /\ UNCHANGED <<nodes, pc, level, disturbed, faults>>

-----------------------------------------------------------------------------
Step(p) ==
  \/ ChooseAddress(p) \/ SearchError(p)
  \/ Look(p) \/ Make(p) \/ Attach(p) \/ Unique(p) \/ Add(p) \/ Verify(p)

Done ==
  /\ \A p \in Proc : pc[p] = "idle" /\ outcome[p] \in {"registered", "exists"}
  /\ UNCHANGED vars

Next ==
  \/ \E p \in Proc : Begin(p) \/ Step(p)
  \/ \E key \in Ou \X Name : Remove(key)
  \/ Done

Spec == Init /\ [][Next]_vars

\* One administrator at a time.
SequentialSpec == Init /\ [][Next /\ Cardinality(Running') <= 1]_vars

\* A script that runs goes on; an administrator repeats a command that failed.
FairSpec == Spec /\ \A p \in Proc : WF_vars(Begin(p)) /\ WF_vars(Step(p))

-----------------------------------------------------------------------------
(* Properties *)

\* umbrella-hosts lines 133-138: whoever else is registering, and whatever
\* searches fail, a host has an address of its unit's network that is no
\* server's.
InOwnNetwork ==
  \A key \in Registered : host[key] \in Network[key[1]] \ Server

\* Two hosts have the same address only if one of them was added by a script
\* that ran at the same time as another one or missed an address in LDAP:
\* otherwise the first free address is still free when the host is added,
\* whatever commands fail and however often a registration is repeated.
DuplicatesAreDoubtful ==
  \A k1, k2 \in Registered \ doubtful : host[k1] = host[k2] => k1 = k2

\* Lines 82-85: "The address must be free", and one that is allocated
\* automatically is free: no two hosts have the same address.
AddressesUnique ==
  \A k1, k2 \in Registered : host[k1] = host[k2] => k1 = k2

\* The message of line 236 is true of the entry in LDAP, address included, unless
\* another script ran at the same time or an address was missed.
UndisturbedReportsTruth ==
  \A p \in Proc \ disturbed : pc[p] = "idle" /\ outcome[p] = "registered"
                                => host[Entry(p)] = addr[p]

\* A run that was broken off half-way, with some of the units made, never stands
\* in the way of repeating the command: in the end the host is registered, unless
\* what was asked for is refused.
RetrySucceeds ==
  \A p \in Proc :
    \/ <>[](outcome[p] \in {"registered", "exists"} /\ Entry(p) \in Registered)
    \/ []<>(outcome[p] = "refused")
=============================================================================
