---------------------------- MODULE Mkkeys_proofs ----------------------------
(***************************************************************************)
(* Proofs about Mkkeys, for any set of hosts and any number of edits and   *)
(* faults.                                                                 *)
(***************************************************************************)
EXTENDS Mkkeys, TLAPS

\* The shell variables of a run keep their types when one step changes them.
LEMMA RunTypes ==
  ASSUME run \in RunType
  PROVE  /\ run.pc \in Stages
         /\ run.forced \in {"no", "yes"}
         /\ run.cur \in Host \union {NoHost}
         /\ run.found \in SUBSET Host
         /\ run.once \in SUBSET Host
         /\ run.kept \in SUBSET Host
         /\ run.extraClients \in SUBSET Host
         /\ run.extraKeys \in SUBSET Host
         /\ run.addKeys \in SUBSET Host
         /\ run.newClients \in SUBSET Host
         /\ NotRunning \in RunType
BY DEF RunType, NotRunning, Stages

\* What a search leaves in the variables of the run.
LEMMA SearchEffect ==
  ASSUME run \in RunType, Search
  PROVE  /\ run' \in RunType /\ run.pc = "search" /\ run'.pc = "check"
         /\ run'.found \subseteq Registered /\ run'.once \subseteq Registered
         /\ run'.found = Registered \/ Fault
         /\ faults' = faults \/ Fault
         /\ UNCHANGED <<run.forced, run.cur, run.kept, run.extraClients,
                         run.extraKeys, run.addKeys, run.newClients>>
<1>1. PICK found \in SUBSET Registered, once \in SUBSET Registered :
        /\ (found = Registered /\ UNCHANGED faults) \/ Fault
        /\ run' = [run EXCEPT !.pc = "check", !.found = found, !.once = once]
  BY DEF Search
<1>2. found \in SUBSET Host /\ once \in SUBSET Host
  BY DEF Registered
<1>3. run' \in RunType
  BY <1>1, <1>2 DEF RunType, Stages, CheckStages
<1>4. /\ run'.pc = "check" /\ run'.found = found /\ run'.once = once
      /\ UNCHANGED <<run.forced, run.cur, run.kept, run.extraClients,
                      run.extraKeys, run.addKeys, run.newClients>>
  BY <1>1 DEF RunType
<1> QED
  BY <1>1, <1>3, <1>4 DEF Search

\* No step of the loops goes back to the lists read first.
LEMMA LoopRests ==
  ASSUME run \in RunType,
         \/ RevokeCertificate \/ RemovePem \/ RemoveKeys
         \/ RemoveKeytab \/ DelprincHost \/ DelprincNfs
         \/ AddprincHost \/ AddprincNfs \/ InstallKeytab \/ KeysDone
         \/ AddClient \/ Finish
  PROVE  /\ run'.pc \notin CheckStages \union {"compute", "mv"}
         /\ run'.once \subseteq run.once /\ run'.kept \subseteq run.kept
<1> USE DEF RunType, CheckStages, Goto
<1>1. CASE RevokeCertificate \/ RemovePem
  BY <1>1 DEF RevokeCertificate, RemovePem
<1>2. CASE RemoveKeys
  BY <1>2 DEF RemoveKeys
<1>3. CASE RemoveKeytab \/ DelprincHost
  BY <1>3 DEF RemoveKeytab, DelprincHost
<1>4. CASE DelprincNfs
  BY <1>4 DEF DelprincNfs
<1>5. CASE AddprincHost \/ AddprincNfs
  BY <1>5 DEF AddprincHost, AddprincNfs
<1>6. CASE InstallKeytab \/ KeysDone
  BY <1>6 DEF InstallKeytab, KeysDone
<1>7. CASE AddClient
  BY <1>7 DEF AddClient
<1>8. CASE Finish
  BY <1>8 DEF Finish, Exit, NotRunning
<1> QED
  BY <1>1, <1>2, <1>3, <1>4, <1>5, <1>6, <1>7, <1>8

\* What the steps of the administrators and of bcfg2 change has its type.
LEMMA WorldTypes ==
  ASSUME TypeOK,
         NEW h \in Host,
         \/ Register(h) \/ Unregister(h) \/ FixAddress(h) \/ AddClientByHand(h)
         \/ Connect(h) \/ IssueCertificate(h)
  PROVE  TypeOK'
<1> USE BoundsAssumption
    DEF TypeOK, Edit, world, certs, kerberos
<1>1. CASE Register(h) \/ Unregister(h)
  BY <1>1 DEF Register, Unregister
<1>2. CASE FixAddress(h) \/ AddClientByHand(h)
  BY <1>2 DEF FixAddress, AddClientByHand
<1>3. CASE Connect(h)
  BY <1>3 DEF Connect
<1>4. CASE IssueCertificate(h)
  BY <1>4 DEF IssueCertificate, Pem
<1>5. QED
  BY <1>1, <1>2, <1>3, <1>4

\* What the first steps of a run change has its type.
LEMMA PlanTypes ==
  ASSUME TypeOK,
         \/ Cron
         \/ Forced
         \/ (Sanity \/ Search \/ CheckKeytabs \/ Compute) /\ UNCHANGED world
  PROVE  TypeOK'
<1> USE BoundsAssumption, RunTypes
    DEF TypeOK, world, certs, kerberos, Goto, Exit, KerberosStages, NotRunning
<1>1. CASE Cron \/ Forced
  BY <1>1 DEF Cron, Forced, Start, RunType, Stages, CheckStages
<1>2. CASE Sanity /\ UNCHANGED world
  BY <1>2 DEF Sanity, Fault, RunType, Stages, CheckStages
<1>3. CASE Search /\ UNCHANGED world
  <2>1. run' \in RunType /\ run'.pc = "check"
    BY <1>3, SearchEffect
  <2>2. faults' \in 0..MaxFaults
    BY <1>3, SearchEffect DEF Fault
  <2> QED
    BY <1>3, <2>1, <2>2 DEF Search
<1>4. CASE CheckKeytabs /\ UNCHANGED world
  BY <1>4 DEF CheckKeytabs, RunType, Stages
<1>5. CASE Compute /\ UNCHANGED world
  <2>1. run' \in RunType /\ run'.pc = "clients"
    BY <1>5 DEF Compute, Snapshot, Keyed, RunType, Stages
  <2> QED
    BY <1>5, <2>1 DEF Compute
<1> QED
  BY <1>1, <1>2, <1>3, <1>4, <1>5

\* What the deletion steps of a run change has its type.
LEMMA DeletionTypes ==
  ASSUME TypeOK,
         UNCHANGED world,
         \/ FilterClients \/ MoveClients \/ RevokeCertificate \/ RemovePem \/ RemoveKeys
         \/ DeleteKeytabs \/ RemoveKeytab \/ DelprincHost \/ DelprincNfs
  PROVE  TypeOK'
<1> USE BoundsAssumption, RunTypes
    DEF TypeOK, world, certs, kerberos, Goto, Exit, KerberosStages, NotRunning,
        Works, Fails, Fault
<1>1. CASE FilterClients
  <2>1. CASE Exit \/ Goto("keytabs")
    BY <1>1, <2>1 DEF FilterClients, RunType, Stages
  <2>2. CASE run' = [run EXCEPT !.pc = "mv",
                                !.kept = clients \ Dropped(run.extraClients)]
    BY <1>1, <2>2 DEF FilterClients, RunType, Stages
  <2> QED
    BY <1>1, <2>1, <2>2 DEF FilterClients
<1>10. CASE MoveClients
  BY <1>10 DEF MoveClients, Overwritten, RunType, Stages, RevokeStages
<1>2. CASE RevokeCertificate
  <2>1. PICK h \in run.extraClients :
          /\ run' = [run EXCEPT !.pc = "rm_pem", !.cur = h]
          /\ \/ /\ pem' = [pem EXCEPT ![h] = IF @ = "good" THEN "revoked" ELSE @]
                /\ Works
             \/ UNCHANGED pem /\ Fails(h)
    BY <1>2 DEF RevokeCertificate
  <2>2. h \in Host
    OBVIOUS
  <2>3. run' \in RunType /\ run'.pc = "rm_pem" /\ run'.cur = h
    BY <2>1, <2>2 DEF RunType, Stages, RevokeStages
  <2>4. pem' \in [Host -> Pem]
    BY <2>1, <2>2 DEF Pem
  <2>5. faulted' \in SUBSET Host /\ faults' \in 0..MaxFaults
    BY <2>1, <2>2
  <2>6. QED
    BY <1>2, <2>2, <2>3, <2>4, <2>5 DEF RevokeCertificate
<1>3. CASE RemovePem
  BY <1>3 DEF RemovePem, RunType, Stages, RevokeStages, Pem
<1>4. CASE RemoveKeys
  BY <1>4 DEF RemoveKeys, RunType, Stages, RevokeStages
<1>5. CASE DeleteKeytabs
  BY <1>5 DEF DeleteKeytabs, RunType, Stages
<1>6. CASE RemoveKeytab
  <2>1. PICK h \in run.extraKeys :
          /\ keytab' = [keytab EXCEPT ![h] = {}]
          /\ run' = [run EXCEPT !.pc = "delprinc_host", !.cur = h]
    BY <1>6 DEF RemoveKeytab
  <2>2. run' \in RunType /\ run'.pc = "delprinc_host" /\ run'.cur \in Host
    BY <2>1 DEF RunType, Stages
  <2>3. keytab' \in [Host -> SUBSET Service]
    BY <2>1
  <2>4. QED
    BY <1>6, <2>2, <2>3 DEF RemoveKeytab
<1>7. CASE DelprincHost
  BY <1>7 DEF DelprincHost, Kadmin, RunType, Stages
<1>8. CASE DelprincNfs
  <2>1. run' \in RunType /\ run'.pc \in {"add", "rm_keytab"}
    BY <1>8 DEF DelprincNfs, RunType, Stages
  <2>2. princ' \in [Host -> SUBSET Service]
    BY <1>8 DEF DelprincNfs, Kadmin
  <2>3. faulted' \in SUBSET Host /\ faults' \in 0..MaxFaults
    BY <1>8 DEF DelprincNfs, Kadmin
  <2>4. QED
    BY <1>8, <2>1, <2>2, <2>3 DEF DelprincNfs
<1>11. QED
  BY <1>1, <1>2, <1>3, <1>4, <1>5, <1>6, <1>7, <1>8, <1>10

\* What the last steps of a run change has its type.
LEMMA AdditionTypes ==
  ASSUME TypeOK,
         UNCHANGED world,
         \/ AddprincHost \/ AddprincNfs \/ InstallKeytab \/ KeysDone
         \/ AddClient \/ Finish
  PROVE  TypeOK'
<1> USE BoundsAssumption, RunTypes
    DEF TypeOK, world, certs, kerberos, Goto, Exit, KerberosStages, NotRunning,
        Works, Fails, Fault
<1>1. CASE AddprincHost
  <2>1. PICK h \in run.addKeys :
          /\ Kadmin(h, princ[h] \union {"host"})
          /\ run' = [run EXCEPT !.pc = "addprinc_nfs", !.cur = h]
    BY <1>1 DEF AddprincHost
  <2>2. run' \in RunType /\ run'.cur = h /\ h \in Host
    BY <2>1 DEF RunType, Stages
  <2>3. princ' \in [Host -> SUBSET Service]
    BY <2>1, <2>2 DEF Kadmin, Service
  <2>4. faulted' \in SUBSET Host /\ faults' \in 0..MaxFaults
    BY <2>1, <2>2 DEF Kadmin
  <2>5. QED
    BY <1>1, <2>2, <2>3, <2>4 DEF AddprincHost
<1>2. CASE AddprincNfs
  <2>1. run' \in RunType /\ run'.cur = run.cur /\ run.cur \in Host
    BY <1>2 DEF AddprincNfs, RunType, Stages
  <2>2. princ' \in [Host -> SUBSET Service]
    BY <1>2, <2>1 DEF AddprincNfs, Kadmin, Service
  <2>3. faulted' \in SUBSET Host /\ faults' \in 0..MaxFaults
    BY <1>2, <2>1 DEF AddprincNfs, Kadmin
  <2>4. QED
    BY <1>2, <2>1, <2>2, <2>3 DEF AddprincNfs
<1>3. CASE InstallKeytab
  <2>1. run' \in RunType /\ run'.pc = "add" /\ run.cur \in Host
    BY <1>3 DEF InstallKeytab, RunType, Stages
  <2>2. keytab' \in [Host -> SUBSET Service]
    BY <1>3, <2>1 DEF InstallKeytab
  <2>3. faulted' \in SUBSET Host /\ faults' \in 0..MaxFaults
    BY <1>3, <2>1 DEF InstallKeytab
  <2>4. QED
    BY <1>3, <2>1, <2>2, <2>3 DEF InstallKeytab
<1>4. CASE KeysDone \/ Finish
  BY <1>4 DEF KeysDone, Finish, RunType, Stages
<1>5. CASE AddClient
  <2>1. PICK h \in run.newClients :
          /\ clients' \in {clients, clients \union {h}}
          /\ run' = [run EXCEPT !.newClients = @ \ {h}]
    BY <1>5 DEF AddClient
  <2>2. run' \in RunType /\ run'.pc = run.pc /\ run'.cur = run.cur
    BY <2>1 DEF RunType
  <2>3. clients' \in SUBSET Host /\ faults' \in 0..MaxFaults
    BY <1>5, <2>1 DEF AddClient
  <2>4. QED
    BY <1>5, <2>2, <2>3 DEF AddClient
<1>6. QED
  BY <1>1, <1>2, <1>3, <1>4, <1>5

\* What a kill or a reboot changes has its type.
LEMMA InterruptionTypes ==
  ASSUME TypeOK,
         Kill \/ Reboot
  PROVE  TypeOK'
<1>1. Removing \union Rekeying \subseteq Host
  BY RunTypes DEF TypeOK, Removing, Rekeying
<1>2. run' = NotRunning /\ run' \in RunType
  BY RunTypes DEF TypeOK, Kill, Reboot, Interrupted
<1>3. run'.pc = "idle"
  BY <1>2 DEF NotRunning
<1>4. faulted' \in SUBSET Host
  BY <1>1 DEF TypeOK, Kill, Reboot, Interrupted
<1>5. faults' \in 0..MaxFaults /\ lock' \in {"free", "held"}
  BY BoundsAssumption DEF TypeOK, Kill, Reboot, Fault
<1>6. QED
  BY <1>2, <1>3, <1>4, <1>5
     DEF TypeOK, Kill, Reboot, Interrupted, world, kerberos, certs,
         KerberosStages

\* Every variable keeps its type, however the job, its faults and the others
\* interleave.
THEOREM TypeCorrect == Spec => []TypeOK
<1>1. Init => TypeOK
  BY HostsAssumption, BoundsAssumption
     DEF Init, TypeOK, Service, Pem, RunType, NotRunning, Stages,
         KerberosStages
<1>2. TypeOK /\ [Next]_vars => TypeOK'
  <2> SUFFICES ASSUME TypeOK, [Next]_vars PROVE TypeOK'
    OBVIOUS
  <2>1. CASE Cron \/ Forced
    BY <2>1, PlanTypes, Zenon
  <2>2. CASE Run
    BY <2>2, PlanTypes, DeletionTypes, AdditionTypes, Zenon DEF Run
  <2>3. CASE Kill \/ Reboot
    BY <2>3, InterruptionTypes
  <2>4. ASSUME NEW h \in Host,
               \/ Register(h) \/ Unregister(h) \/ FixAddress(h)
               \/ AddClientByHand(h) \/ Connect(h) \/ IssueCertificate(h)
        PROVE  TypeOK'
    BY <2>4, WorldTypes
  <2>5. CASE UNCHANGED vars
    BY <2>5 DEF vars, TypeOK
  <2>6. QED
    BY <2>1, <2>2, <2>3, <2>4, <2>5 DEF Next
<1>3. QED
  BY <1>1, <1>2, PTL DEF Spec

-----------------------------------------------------------------------------
(* The config server is never locked out *)

\* The name of the config server contains no other host name.  Without this the
\* property is false: `grep -v` with the shorter name drops the config server.
ConfigNameDistinct == \A h \in Host : Config \in Matches[h] => h \in Matches[Config]

\* The config server is in the filtered client list, its keytab is never on the list
\* the deletion loop goes through, nor on that of the keytabs to be made (InstallKeytab may leave a
\* host without one), and the loop stays within its list.
ConfigInv ==
  /\ ConfigProtected
  /\ run.pc = "mv" => Config \in run.kept
  /\ run.pc \in {"rm_keytab", "delprinc_host", "delprinc_nfs"}
       => Config \notin run.extraKeys
  /\ Config \notin run.addKeys
  /\ run.pc \in {"addprinc_nfs", "ktadd"} => run.cur \in run.addKeys

LEMMA ConfigIsHost == Config \in Host
BY HostsAssumption

\* The steps of a run that set, follow or change its lists keep ConfigInv.
LEMMA ConfigPlanStep ==
  ASSUME TypeOK, ConfigInv, ConfigNameDistinct,
         \/ Start("no") \/ Start("yes") \/ Sanity \/ Search \/ CheckKeytabs
         \/ Compute \/ FilterClients \/ MoveClients \/ DeleteKeytabs
  PROVE  ConfigInv'
<1> USE ConfigIsHost, RunTypes, MatchesAssumption
    DEF ConfigInv, ConfigProtected, TypeOK, kerberos, KerberosStages, Goto, Exit,
        NotRunning
<1>1. CASE Start("no") \/ Start("yes")
  BY <1>1 DEF Start, RunType
<1>2. CASE Sanity
  BY <1>2 DEF Sanity, RunType
<1>3. CASE Search
  <2>1. run'.pc = "check" /\ run'.addKeys = run.addKeys
    BY <1>3, SearchEffect
  <2> QED
    BY <1>3, <2>1 DEF Search
<1>4. CASE CheckKeytabs
  BY <1>4 DEF CheckKeytabs, RunType
<1>7. CASE Compute
  <2>1. run'.pc = "clients" /\ run'.addKeys \intersect clients = {}
    BY <1>7 DEF Compute, Snapshot, RunType
  <2> QED
    BY <1>7, <2>1 DEF Compute
<1>8. CASE FilterClients
  <2>1. CASE Exit
    BY <1>8, <2>1 DEF FilterClients
  <2>2. CASE Goto("keytabs")
    BY <1>8, <2>2 DEF FilterClients, RunType
  <2>3. CASE /\ ~Refuses(run.extraClients)
             /\ run' = [run EXCEPT !.pc = "mv",
                                   !.kept = clients \ Dropped(run.extraClients)]
    <3>1. Config \notin Dropped(run.extraClients)
      BY <2>3 DEF Refuses, Dropped, ConfigNameDistinct
    <3> QED
      BY <1>8, <2>3, <3>1 DEF FilterClients, RunType
  <2> QED
    BY <1>8, <2>1, <2>2, <2>3 DEF FilterClients
<1>9. CASE MoveClients
  BY <1>9 DEF MoveClients, RunType
<1>5. CASE DeleteKeytabs
  <2>1. CASE Exit
    BY <1>5, <2>1 DEF DeleteKeytabs
  <2>2. CASE Goto("add")
    BY <1>5, <2>2 DEF DeleteKeytabs, RunType
  <2>3. CASE Goto("rm_keytab") /\ ~Refuses(run.extraKeys)
    <3>1. Config \notin run.extraKeys
      BY <2>3 DEF Refuses
    <3>2. QED
      BY <1>5, <2>3, <3>1 DEF DeleteKeytabs, RunType
  <2>4. QED
    BY <1>5, <2>1, <2>2, <2>3 DEF DeleteKeytabs
<1>10. QED
  BY <1>1, <1>2, <1>3, <1>4, <1>5, <1>7, <1>8, <1>9

\* So do the steps of its loops.
LEMMA ConfigLoopStep ==
  ASSUME TypeOK, ConfigInv,
         \/ RevokeCertificate \/ RemovePem \/ RemoveKeys
         \/ RemoveKeytab \/ DelprincHost \/ DelprincNfs
         \/ AddprincHost \/ AddprincNfs \/ InstallKeytab \/ KeysDone
         \/ AddClient \/ Finish
  PROVE  ConfigInv'
<1> USE ConfigIsHost, RunTypes
    DEF ConfigInv, ConfigProtected, TypeOK, kerberos, KerberosStages, Goto
<1>1. CASE RevokeCertificate \/ RemovePem \/ RemoveKeys
  <2>1. /\ run'.pc \in {"rm_pem", "rm_keys", "keytabs", "revoke"}
        /\ run'.addKeys = run.addKeys
    BY <1>1 DEF RevokeCertificate, RemovePem, RemoveKeys, RunType
  <2> QED
    BY <1>1, <2>1 DEF RevokeCertificate, RemovePem, RemoveKeys
<1>2. CASE RemoveKeytab
  <2>1. PICK h \in run.extraKeys :
          /\ keytab' = [keytab EXCEPT ![h] = {}]
          /\ run' = [run EXCEPT !.pc = "delprinc_host", !.cur = h]
    BY <1>2 DEF RemoveKeytab
  <2>2. h # Config /\ keytab'[Config] = keytab[Config]
    BY <1>2, <2>1 DEF RemoveKeytab
  <2>3. QED
    BY <1>2, <2>1, <2>2 DEF RemoveKeytab, RunType
<1>3. CASE DelprincHost
  BY <1>3 DEF DelprincHost, RunType
<1>4. CASE DelprincNfs
  <2>1. /\ run'.extraKeys \subseteq run.extraKeys
        /\ run'.addKeys = run.addKeys
        /\ run'.pc \in {"add", "rm_keytab"}
    BY <1>4 DEF DelprincNfs, RunType
  <2>2. Config \notin run.extraKeys /\ UNCHANGED <<keytab, clients>>
    BY <1>4 DEF DelprincNfs
  <2>3. QED
    BY <2>1, <2>2
<1>5. CASE AddprincHost
  <2>1. PICK h \in run.addKeys :
               run' = [run EXCEPT !.pc = "addprinc_nfs", !.cur = h]
    BY <1>5 DEF AddprincHost
  <2>2. /\ run'.pc = "addprinc_nfs"
        /\ run'.cur \in run'.addKeys
        /\ run'.addKeys = run.addKeys
        /\ run'.extraKeys = run.extraKeys
    BY <2>1 DEF RunType
  <2>3. QED
    BY <1>5, <2>2 DEF AddprincHost
<1>6. CASE AddprincNfs
  BY <1>6 DEF AddprincNfs, RunType
<1>7. CASE InstallKeytab
  <2>1. run.cur # Config
    BY <1>7 DEF InstallKeytab
  <2>2. keytab'[Config] = keytab[Config]
    BY <1>7, <2>1 DEF InstallKeytab
  <2>3. run'.pc = "add" /\ Config \notin run'.addKeys
    BY <1>7 DEF InstallKeytab, RunType
  <2>4. QED
    BY <1>7, <2>2, <2>3 DEF InstallKeytab
<1>8. CASE KeysDone \/ Finish
  BY <1>8 DEF KeysDone, Finish, Exit, NotRunning, RunType
<1>9. CASE AddClient
  BY <1>9 DEF AddClient, RunType
<1>10. QED
  BY <1>1, <1>2, <1>3, <1>4, <1>5, <1>6, <1>7, <1>8, <1>9

\* Nobody but the job takes the config server's place or keytab away.
LEMMA ConfigOtherStep ==
  ASSUME TypeOK, ConfigInv,
         \/ Kill \/ Reboot
         \/ \E h \in Host : \/ Register(h) \/ Unregister(h) \/ FixAddress(h)
                            \/ AddClientByHand(h)
                            \/ Connect(h) \/ IssueCertificate(h)
         \/ UNCHANGED vars
  PROVE  ConfigInv'
<1> USE DEF ConfigInv, ConfigProtected, kerberos
<1>1. CASE Kill \/ Reboot
  BY <1>1 DEF Kill, Reboot, Interrupted, NotRunning, KerberosStages
<1>2. ASSUME NEW h \in Host,
             \/ Register(h) \/ Unregister(h) \/ FixAddress(h)
             \/ AddClientByHand(h) \/ Connect(h) \/ IssueCertificate(h)
      PROVE  ConfigInv'
  <2>1. clients \subseteq clients' /\ UNCHANGED <<run, keytab>>
    BY <1>2 DEF Register, Unregister, FixAddress, AddClientByHand, Connect,
                IssueCertificate, Edit
  <2>2. QED
    BY <2>1
<1>3. CASE UNCHANGED vars
  BY <1>3 DEF vars
<1>4. QED
  BY <1>1, <1>2, <1>3

\* As long as its name contains no other host name, the config server stays in
\* clients.xml and keeps its keytab, whatever LDAP search fails, breaks off or
\* finds, and wherever the script is killed.
THEOREM ConfigStays ==
  ASSUME ConfigNameDistinct
  PROVE  Spec => []ConfigProtected
<1>1. Init => ConfigInv
  <2> SUFFICES ASSUME Init PROVE ConfigInv
    OBVIOUS
  <2>1. Config \in clients /\ "host" \in keytab[Config]
    BY HostsAssumption DEF Init, Service
  <2>2. run = NotRunning
    BY DEF Init
  <2>3. QED
    BY <2>1, <2>2 DEF ConfigInv, ConfigProtected, NotRunning, KerberosStages
<1>2. TypeOK /\ ConfigInv /\ [Next]_vars => ConfigInv'
  <2> SUFFICES ASSUME TypeOK, ConfigInv, [Next]_vars PROVE ConfigInv'
    OBVIOUS
  <2>1. CASE Cron \/ Forced
    BY <2>1, ConfigPlanStep, Zenon DEF Cron, Forced
  <2>2. CASE Run
    BY <2>2, ConfigPlanStep, ConfigLoopStep, Zenon DEF Run
  <2>3. CASE ~(Cron \/ Forced \/ Run)
    BY <2>3, ConfigOtherStep, Zenon DEF Next
  <2>4. QED
    BY <2>1, <2>2, <2>3
<1>3. ConfigInv => ConfigProtected
  BY DEF ConfigInv
<1>4. QED
  BY <1>1, <1>2, <1>3, TypeCorrect, PTL DEF Spec

-----------------------------------------------------------------------------
(* No keytab outlives its principals *)

\* While the principals of a host are deleted, its keytab is gone.
KeytabInv ==
  /\ KeytabBacked
  /\ run.pc \in {"delprinc_host", "delprinc_nfs"} => keytab[run.cur] = {}

\* The steps that touch keytabs or principals keep KeytabInv.
LEMMA KeytabKerberosStep ==
  ASSUME TypeOK, KeytabInv,
         \/ RemoveKeytab \/ DelprincHost \/ DelprincNfs
         \/ AddprincHost \/ AddprincNfs \/ InstallKeytab
  PROVE  KeytabInv'
<1> USE RunTypes
    DEF KeytabInv, KeytabBacked, TypeOK, KerberosStages, Goto, Kadmin, Works
<1>1. CASE RemoveKeytab
  <2>1. PICK h \in run.extraKeys :
          /\ keytab' = [keytab EXCEPT ![h] = {}]
          /\ run' = [run EXCEPT !.pc = "delprinc_host", !.cur = h]
    BY <1>1 DEF RemoveKeytab
  <2>2. run'.cur = h /\ keytab'[h] = {}
    BY <2>1 DEF RunType
  <2>3. KeytabBacked'
    BY <1>1, <2>1 DEF RemoveKeytab
  <2>4. QED
    BY <2>2, <2>3
<1>2. CASE DelprincHost
  <2>1. KeytabBacked'
    BY <1>2 DEF DelprincHost
  <2>2. run'.cur = run.cur /\ keytab' = keytab
    BY <1>2 DEF DelprincHost, RunType
  <2>3. QED
    BY <1>2, <2>1, <2>2 DEF DelprincHost
<1>3. CASE DelprincNfs
  <2>1. KeytabBacked'
    BY <1>3 DEF DelprincNfs
  <2>2. run'.pc \in {"add", "rm_keytab"}
    BY <1>3 DEF DelprincNfs, RunType
  <2>3. QED
    BY <2>1, <2>2
<1>4. CASE AddprincHost
  <2>1. PICK h \in run.addKeys :
          /\ Kadmin(h, princ[h] \union {"host"})
          /\ run' = [run EXCEPT !.pc = "addprinc_nfs", !.cur = h]
    BY <1>4 DEF AddprincHost
  <2>2. run'.pc = "addprinc_nfs"
    BY <2>1 DEF RunType
  <2>3. /\ \/ princ' = [princ EXCEPT ![h] = princ[h] \union {"host"}]
           \/ princ' = princ
        /\ keytab' = keytab
    BY <1>4, <2>1 DEF AddprincHost
  <2>4. KeytabBacked'
    BY <2>3
  <2>5. QED
    BY <2>2, <2>4
<1>5. CASE AddprincNfs
  <2>1. run'.pc = "ktadd"
    BY <1>5 DEF AddprincNfs, RunType
  <2>2. KeytabBacked'
    BY <1>5 DEF AddprincNfs
  <2>3. QED
    BY <2>1, <2>2
<1>6. CASE InstallKeytab
  <2>1. run'.pc = "add"
    BY <1>6 DEF InstallKeytab, RunType
  <2>2. /\ \/ keytab' = [keytab EXCEPT ![run.cur] = princ[run.cur]]
           \/ keytab' = keytab
        /\ princ' = princ
    BY <1>6 DEF InstallKeytab
  <2>3. KeytabBacked'
    BY <2>2
  <2>4. QED
    BY <2>1, <2>3
<1>7. QED
  BY <1>1, <1>2, <1>3, <1>4, <1>5, <1>6

\* No other step touches them, nor does one of them enter or leave the stages at
\* which the principals of a host change, unless it ends the run.
LEMMA KerberosRests ==
  ASSUME TypeOK, [Next]_vars,
         ~(\/ RemoveKeytab \/ DelprincHost \/ DelprincNfs
           \/ AddprincHost \/ AddprincNfs \/ InstallKeytab
           \/ Kill \/ Reboot)
  PROVE  /\ UNCHANGED kerberos
         /\ faulted \subseteq faulted'
         /\ \/ run' = run
            \/ run.pc \notin KerberosStages /\ run'.pc \notin KerberosStages
<1> USE RunTypes DEF TypeOK, kerberos, KerberosStages, Goto, Exit, NotRunning
<1>1. CASE Cron \/ Forced
  BY <1>1 DEF Cron, Forced, Start, RunType
<1>2. CASE Run
  <2>1. CASE Sanity \/ Search \/ CheckKeytabs
    <3>1. run'.pc \in CheckStages \union {"idle", "compute"}
      BY <2>1, SearchEffect DEF Sanity, CheckKeytabs, RunType, CheckStages
    <3> QED
      BY <2>1, <3>1 DEF Sanity, Search, CheckKeytabs, CheckStages
  <2>2. CASE Compute
    BY <2>2 DEF Compute, Snapshot, RunType
  <2>3. CASE FilterClients
    <3>1. CASE Exit \/ Goto("keytabs")
      BY <2>3, <3>1 DEF FilterClients, RunType
    <3>2. CASE run' = [run EXCEPT !.pc = "mv",
                                  !.kept = clients \ Dropped(run.extraClients)]
      BY <2>3, <3>2 DEF FilterClients, RunType
    <3>3. QED
      BY <2>3, <3>1, <3>2 DEF FilterClients
  <2>9. CASE DeleteKeytabs
    <3>1. run'.pc \in {"idle", "add", "rm_keytab"}
      BY <2>9 DEF DeleteKeytabs, RunType
    <3>2. QED
      BY <2>9, <3>1 DEF DeleteKeytabs
  <2>8. CASE MoveClients
    BY <2>8 DEF MoveClients, RunType
  <2>4. CASE RevokeCertificate \/ RemovePem \/ RemoveKeys
    BY <2>4 DEF RevokeCertificate, RemovePem, RemoveKeys, RunType, Works, Fails
  <2>5. CASE KeysDone \/ Finish
    BY <2>5 DEF KeysDone, Finish, RunType
  <2>6. CASE AddClient
    BY <2>6 DEF AddClient, RunType
  <2>7. QED
    BY <1>2, <2>1, <2>2, <2>3, <2>4, <2>5, <2>6, <2>8, <2>9, Zenon DEF Run
<1>3. ASSUME NEW h \in Host,
             \/ Register(h) \/ Unregister(h) \/ FixAddress(h)
             \/ AddClientByHand(h) \/ Connect(h) \/ IssueCertificate(h)
      PROVE  UNCHANGED <<kerberos, run>> /\ faulted \subseteq faulted'
  BY <1>3 DEF Register, Unregister, FixAddress, AddClientByHand, Connect,
              IssueCertificate, Edit
<1>4. CASE UNCHANGED vars
  BY <1>4 DEF vars
<1>5. QED
  BY <1>1, <1>2, <1>3, <1>4 DEF Next

LEMMA KeytabOtherStep ==
  ASSUME TypeOK, KeytabInv, [Next]_vars,
         ~(\/ RemoveKeytab \/ DelprincHost \/ DelprincNfs
           \/ AddprincHost \/ AddprincNfs \/ InstallKeytab)
  PROVE  KeytabInv'
<1> USE DEF KeytabInv, KeytabBacked, kerberos
<1>1. CASE Kill \/ Reboot
  BY <1>1 DEF Kill, Reboot, Interrupted, NotRunning
<1>2. CASE ~(Kill \/ Reboot)
  BY <1>2, KerberosRests DEF KerberosStages
<1>3. QED
  BY <1>1, <1>2

\* An installed keytab never holds a key of a principal the KDC does not know,
\* whichever command fails and wherever the script is killed.
THEOREM KeytabsBacked == Spec => []KeytabBacked
<1>1. Init => KeytabInv
  BY DEF Init, KeytabInv, KeytabBacked, NotRunning
<1>2. TypeOK /\ KeytabInv /\ [Next]_vars => KeytabInv'
  BY KeytabKerberosStep, KeytabOtherStep
<1>3. KeytabInv => KeytabBacked
  BY DEF KeytabInv
<1>4. QED
  BY <1>1, <1>2, <1>3, TypeCorrect, PTL DEF Spec

-----------------------------------------------------------------------------
(* No principals without a keytab *)

\* Between the two deletions the host principal is gone, or its deletion failed.
PrincipalInv ==
  /\ PrincipalsAccounted
  /\ run.pc = "delprinc_nfs" =>
       run.cur \in faulted \/ "host" \notin princ[run.cur]

\* The steps that touch keytabs or principals keep PrincipalInv.
LEMMA PrincipalKerberosStep ==
  ASSUME TypeOK, PrincipalInv,
         \/ RemoveKeytab \/ DelprincHost \/ DelprincNfs
         \/ AddprincHost \/ AddprincNfs \/ InstallKeytab
  PROVE  PrincipalInv'
<1> USE RunTypes
    DEF PrincipalInv, PrincipalsAccounted, TypeOK, KerberosStages, Rekeying, Goto,
        Works, Fails
<1>1. CASE RemoveKeytab
  <2>1. PICK h \in run.extraKeys :
          /\ keytab' = [keytab EXCEPT ![h] = {}]
          /\ run' = [run EXCEPT !.pc = "delprinc_host", !.cur = h]
    BY <1>1 DEF RemoveKeytab
  <2>2. run'.pc = "delprinc_host" /\ run'.cur = h
    BY <2>1 DEF RunType
  <2>3. UNCHANGED <<princ, faulted>> /\ Rekeying = {}
    BY <1>1 DEF RemoveKeytab
  <2>4. QED
    BY <2>1, <2>2, <2>3
<1>2. CASE DelprincHost
  <2>1. run'.pc = "delprinc_nfs" /\ run'.cur = run.cur
    BY <1>2 DEF DelprincHost, RunType
  <2>2. CASE princ' = [princ EXCEPT ![run.cur] = @ \ {"host"}] /\ Works
    BY <1>2, <2>1, <2>2 DEF DelprincHost
  <2>3. CASE UNCHANGED princ /\ Fails(run.cur)
    BY <1>2, <2>1, <2>3 DEF DelprincHost
  <2>4. QED
    BY <1>2, <2>2, <2>3 DEF DelprincHost, Kadmin
<1>3. CASE DelprincNfs
  <2>1. run'.pc \in {"add", "rm_keytab"}
    BY <1>3 DEF DelprincNfs, RunType
  <2>2. CASE princ' = [princ EXCEPT ![run.cur] = @ \ {"nfs"}] /\ Works
    <3>1. run.cur \in faulted \/ princ'[run.cur] = {}
      BY <1>3, <2>2 DEF DelprincNfs, Service
    <3>2. QED
      BY <1>3, <2>1, <2>2, <3>1 DEF DelprincNfs
  <2>3. CASE UNCHANGED princ /\ Fails(run.cur)
    BY <1>3, <2>1, <2>3 DEF DelprincNfs
  <2>4. QED
    BY <1>3, <2>2, <2>3 DEF DelprincNfs, Kadmin
<1>4. CASE AddprincHost
  <2>1. PICK h \in run.addKeys :
          /\ Kadmin(h, princ[h] \union {"host"})
          /\ run' = [run EXCEPT !.pc = "addprinc_nfs", !.cur = h]
    BY <1>4 DEF AddprincHost
  <2>2. run'.pc = "addprinc_nfs" /\ run'.cur = h
    BY <2>1 DEF RunType
  <2>3. /\ \A g \in Host \ {h} : princ'[g] = princ[g]
        /\ faulted \subseteq faulted'
    BY <2>1 DEF Kadmin
  <2>4. keytab' = keytab /\ Rekeying = {}
    BY <1>4 DEF AddprincHost
  <2>5. QED
    BY <2>2, <2>3, <2>4
<1>5. CASE AddprincNfs
  <2>1. run'.pc = "ktadd" /\ run'.cur = run.cur
    BY <1>5 DEF AddprincNfs, RunType
  <2>2. /\ \A g \in Host \ {run.cur} : princ'[g] = princ[g]
        /\ faulted \subseteq faulted'
    BY <1>5 DEF AddprincNfs, Kadmin
  <2>3. QED
    BY <1>5, <2>1, <2>2 DEF AddprincNfs
<1>6. CASE InstallKeytab
  <2>1. run'.pc = "add"
    BY <1>6 DEF InstallKeytab, RunType
  <2>2. CASE keytab' = [keytab EXCEPT ![run.cur] = princ[run.cur]] /\ Works
    BY <1>6, <2>1, <2>2 DEF InstallKeytab
  <2>3. CASE UNCHANGED keytab /\ Fails(run.cur)
    BY <1>6, <2>1, <2>3 DEF InstallKeytab
  <2>4. QED
    BY <1>6, <2>2, <2>3 DEF InstallKeytab
<1>7. QED
  BY <1>1, <1>2, <1>3, <1>4, <1>5, <1>6

\* A kill or a reboot names the host it leaves halfway.
LEMMA PrincipalOtherStep ==
  ASSUME TypeOK, PrincipalInv, [Next]_vars,
         ~(\/ RemoveKeytab \/ DelprincHost \/ DelprincNfs
           \/ AddprincHost \/ AddprincNfs \/ InstallKeytab)
  PROVE  PrincipalInv'
<1> USE DEF PrincipalInv, PrincipalsAccounted, Rekeying, kerberos
<1>1. CASE Kill \/ Reboot
  BY <1>1 DEF Kill, Reboot, Interrupted, NotRunning, KerberosStages
<1>2. CASE ~(Kill \/ Reboot)
  BY <1>2, KerberosRests DEF KerberosStages
<1>3. QED
  BY <1>1, <1>2

\* A host that has no keytab has no principals in the KDC either, once the run is
\* through with it, unless a fault or a kill hit the host.
THEOREM PrincipalsCorrect == Spec => []PrincipalsAccounted
<1>1. Init => PrincipalInv
  BY DEF Init, PrincipalInv, PrincipalsAccounted, NotRunning, Service
<1>2. TypeOK /\ PrincipalInv /\ [Next]_vars => PrincipalInv'
  BY PrincipalKerberosStep, PrincipalOtherStep
<1>3. PrincipalInv => PrincipalsAccounted
  BY DEF PrincipalInv
<1>4. QED
  BY <1>1, <1>2, <1>3, TypeCorrect, PTL DEF Spec

-----------------------------------------------------------------------------
(* A removed host leaves no certificate and no key behind *)

\* No host name contains another one.  Without this the property is false: `grep -v`
\* drops a client whose certificate nobody revokes.
NamesDistinct == \A h \in Host : Matches[h] = {h}

\* A host under removal is no client any more, a certificate whose file is deleted
\* has been revoked before, and a certificate loses its file only where something
\* went wrong.
CertificateInv ==
  /\ CertificatesAccounted
  /\ stray \subseteq faulted
  /\ clients \intersect Removing \subseteq faulted
  /\ run.pc = "mv" => run.kept \intersect run.extraClients = {}
  /\ run.pc \in {"rm_pem", "rm_keys"} => run.cur \in run.extraClients
  /\ run.cur \notin faulted =>
       /\ run.pc = "rm_pem" => pem[run.cur] # "good"
       /\ run.pc = "rm_keys" => pem[run.cur] = "none"

\* Outside of the loop of lines 136-146 only clients and certificates matter.
LEMMA CertificateRests ==
  ASSUME CertificateInv, UNCHANGED <<clients, certs>>, faulted \subseteq faulted',
         \/ UNCHANGED run
         \/ run.pc \notin RevokeStages /\ run'.pc \notin RevokeStages \union {"mv"}
  PROVE  CertificateInv'
BY DEF CertificateInv, CertificatesAccounted, Removing, RevokeStages, certs

\* The administrators and bcfg2.
LEMMA CertificateWorldStep ==
  ASSUME TypeOK, CertificateInv, NEW h \in Host,
         \/ Register(h) \/ Unregister(h) \/ FixAddress(h) \/ AddClientByHand(h)
         \/ Connect(h) \/ IssueCertificate(h)
  PROVE  CertificateInv'
<1>1. CASE Register(h) \/ Unregister(h) \/ FixAddress(h) \/ Connect(h)
  BY <1>1, CertificateRests
     DEF Register, Unregister, FixAddress, Connect, Edit
<1>2. CASE AddClientByHand(h)
  <2>1. /\ clients' = clients \union {h}
        /\ faulted' = IF h \in Removing THEN faulted \union {h} ELSE faulted
        /\ UNCHANGED <<run, pem, secrets, stray>>
    BY <1>2 DEF AddClientByHand, Edit, certs
  <2>2. Removing' = Removing
    BY <2>1 DEF Removing
  <2>3. h \notin faulted' => pem[h] # "revoked"
    BY <2>1 DEF CertificateInv, CertificatesAccounted
  <2>4. CertificatesAccounted'
    BY <2>1, <2>2, <2>3 DEF CertificateInv, CertificatesAccounted
  <2>5. QED
    BY <2>1, <2>2, <2>4 DEF CertificateInv
<1>3. CASE IssueCertificate(h)
  <2>1. /\ pem' = [pem EXCEPT ![h] = IF @ = "none" THEN "good" ELSE @]
        /\ secrets' = secrets \union {h}
        /\ faulted' = IF h \in clients \union ToRevoke THEN faulted
                                                       ELSE faulted \union {h}
        /\ UNCHANGED <<run, clients, stray>>
    BY <1>3 DEF IssueCertificate
  <2>2. Removing' = Removing /\ faulted \subseteq faulted'
    BY <2>1 DEF Removing
  <2>3. \A g \in Host \ {h} : pem'[g] = pem[g]
    BY <2>1 DEF TypeOK
  <2>4. h \in faulted' \union clients \union ToRevoke
    BY <2>1
  <2>5. pem'[h] = "revoked" => pem[h] = "revoked"
    BY <2>1 DEF TypeOK
  <2>6. CertificatesAccounted'
    BY <2>1, <2>2, <2>3, <2>4, <2>5
       DEF CertificateInv, CertificatesAccounted, ToRevoke
  <2>7. run.pc \in {"rm_pem", "rm_keys"} /\ h = run.cur => h \in faulted'
    BY <2>2, <2>4 DEF CertificateInv, Removing, RevokeStages, ToRevoke
  <2>8. QED
    BY <2>1, <2>2, <2>3, <2>6, <2>7
       DEF CertificateInv, TypeOK, KerberosStages
<1>4. QED
  BY <1>1, <1>2, <1>3

\* The removal of clients and of their certificates.
LEMMA CertificateRemovalStep ==
  ASSUME TypeOK, CertificateInv, NamesDistinct,
         \/ FilterClients \/ MoveClients \/ RevokeCertificate \/ RemovePem \/ RemoveKeys
  PROVE  CertificateInv'
<1> USE RunTypes DEF TypeOK, Goto
<1> USE DEF Removing, RevokeStages
<1>0. Dropped(run.extraClients) = run.extraClients
  BY DEF Dropped, NamesDistinct
<1>1. CASE FilterClients
  <2>1. UNCHANGED <<clients, certs, faulted>> /\ run.pc = "clients"
    BY <1>1 DEF FilterClients
  <2>2. CASE run'.pc \in {"idle", "keytabs"}
    BY <2>1, <2>2, CertificateRests
  <2>3. CASE run' = [run EXCEPT !.pc = "mv",
                                !.kept = clients \ Dropped(run.extraClients)]
    <3>1. run'.pc = "mv" /\ run'.kept \intersect run'.extraClients = {}
      BY <1>0, <2>3 DEF RunType
    <3> QED
      BY <2>1, <3>1 DEF CertificateInv, CertificatesAccounted, certs
  <2> QED
    BY <1>1, <2>2, <2>3 DEF FilterClients, Exit, NotRunning, RunType
<1>6. CASE MoveClients
  <2>1. /\ run.pc = "mv" /\ clients' = run.kept /\ UNCHANGED certs
        /\ faulted' = faulted \union (clients \ (run.kept \union run.extraClients))
    BY <1>0, <1>6 DEF MoveClients, Overwritten
  <2>2. run'.pc = "revoke" /\ Removing = {} /\ Removing' = run.extraClients
    BY <1>6 DEF MoveClients, RunType
  <2> QED
    BY <2>1, <2>2 DEF CertificateInv, CertificatesAccounted, certs
<1>2. CASE RevokeCertificate
  <2>1. PICK h \in run.extraClients :
          /\ run' = [run EXCEPT !.pc = "rm_pem", !.cur = h]
          /\ \/ /\ pem' = [pem EXCEPT ![h] = IF @ = "good" THEN "revoked" ELSE @]
                /\ Works
             \/ UNCHANGED pem /\ Fails(h)
    BY <1>2 DEF RevokeCertificate
  <2>2. /\ run.pc = "revoke" /\ run'.pc = "rm_pem" /\ run'.cur = h
        /\ run'.extraClients = run.extraClients
    BY <1>2, <2>1 DEF RevokeCertificate, RunType
  <2>3. Removing' = Removing /\ h \in Removing
    BY <2>2 DEF Removing, RevokeStages
  <2>4. UNCHANGED <<clients, secrets, stray>>
    BY <1>2 DEF RevokeCertificate
  <2>5. /\ \A g \in Host \ {h} : pem'[g] = pem[g]
        /\ faulted \subseteq faulted'
        /\ h \in faulted' \/ pem'[h] # "good"
    BY <2>1 DEF Works, Fails
  <2>6. CertificatesAccounted'
    BY <2>3, <2>4, <2>5 DEF CertificateInv, CertificatesAccounted
  <2>7. QED
    BY <2>2, <2>3, <2>4, <2>5, <2>6 DEF CertificateInv
<1>3. CASE RemovePem
  <2>1. /\ run.pc = "rm_pem" /\ run'.pc = "rm_keys" /\ run'.cur = run.cur
        /\ run'.extraClients = run.extraClients
    BY <1>3 DEF RemovePem, RunType
  <2>2. Removing' = Removing /\ run.cur \in Removing
    BY <2>1 DEF CertificateInv, Removing, RevokeStages
  <2>3. UNCHANGED <<clients, secrets, faulted>>
    BY <1>3 DEF RemovePem
  <2>4. pem'[run.cur] = "none" /\ \A g \in Host \ {run.cur} : pem'[g] = pem[g]
    BY <1>3, <2>1 DEF RemovePem
  <2>5. stray' \subseteq faulted
    BY <1>3 DEF RemovePem, CertificateInv
  <2>6. CertificatesAccounted'
    BY <2>2, <2>3, <2>4, <2>5 DEF CertificateInv, CertificatesAccounted
  <2>7. QED
    BY <2>1, <2>2, <2>3, <2>4, <2>5, <2>6 DEF CertificateInv
<1>4. CASE RemoveKeys
  <2>1. /\ run.pc = "rm_keys" /\ run'.pc \in {"keytabs", "revoke"}
        /\ run'.extraClients = run.extraClients \ {run.cur}
        /\ run'.pc = "keytabs" => run'.extraClients = {}
    BY <1>4 DEF RemoveKeys, RunType
  <2>2. Removing = run.extraClients /\ Removing' = Removing \ {run.cur}
    BY <2>1 DEF Removing, RevokeStages
  <2>3. secrets' = secrets \ {run.cur} /\ UNCHANGED <<clients, pem, stray, faulted>>
    BY <1>4 DEF RemoveKeys
  <2>4. run.cur \in Removing /\ (run.cur \in faulted \/ pem[run.cur] = "none")
    BY <2>1, <2>2 DEF CertificateInv
  <2>5. CertificatesAccounted'
    BY <2>1, <2>2, <2>3, <2>4 DEF CertificateInv, CertificatesAccounted
  <2>6. QED
    BY <2>1, <2>2, <2>3, <2>5 DEF CertificateInv
<1>5. QED
  BY <1>1, <1>2, <1>3, <1>4, <1>6

\* The other steps of a run, its start and its end.
LEMMA CertificateOtherStep ==
  ASSUME TypeOK, CertificateInv,
         \/ Cron \/ Forced \/ Sanity \/ Search \/ CheckKeytabs \/ Compute
         \/ DeleteKeytabs \/ RemoveKeytab \/ DelprincHost \/ DelprincNfs
         \/ AddprincHost \/ AddprincNfs \/ InstallKeytab \/ KeysDone
         \/ AddClient \/ Finish \/ Kill \/ Reboot
  PROVE  CertificateInv'
<1> USE RunTypes DEF TypeOK, Goto, Exit, NotRunning, RevokeStages
<1>1. CASE Cron \/ Forced
  BY <1>1, CertificateRests DEF Cron, Forced, Start, RunType
<1>2. CASE Sanity \/ Search \/ CheckKeytabs
  <2>1. run'.pc \in CheckStages \union {"idle", "compute"}
    BY <1>2, SearchEffect DEF Sanity, CheckKeytabs, RunType, CheckStages
  <2> QED
    BY <1>2, <2>1, CertificateRests DEF Sanity, Search, CheckKeytabs, CheckStages
<1>3. CASE Compute
  BY <1>3, CertificateRests DEF Compute, Snapshot, RunType
<1>4. CASE DeleteKeytabs \/ RemoveKeytab \/ KeysDone \/ Finish
  <2>1. CASE DeleteKeytabs
    <3>1. run'.pc \in {"idle", "add", "rm_keytab"}
      BY <2>1 DEF DeleteKeytabs, RunType
    <3>2. QED
      BY <2>1, <3>1, CertificateRests DEF DeleteKeytabs
  <2>2. CASE RemoveKeytab
    BY <2>2, CertificateRests DEF RemoveKeytab, RunType
  <2>3. CASE KeysDone \/ Finish
    BY <2>3, CertificateRests DEF KeysDone, Finish, RunType
  <2>4. QED
    BY <1>4, <2>1, <2>2, <2>3
<1>5. CASE DelprincHost \/ DelprincNfs
  BY <1>5, CertificateRests
     DEF DelprincHost, DelprincNfs, Kadmin, Works, Fails, RunType
<1>6. CASE AddprincHost \/ AddprincNfs \/ InstallKeytab
  BY <1>6, CertificateRests
     DEF AddprincHost, AddprincNfs, InstallKeytab, Kadmin, Works, Fails, RunType
<1>7. CASE AddClient
  <2>1. PICK h \in run.newClients :
          /\ clients' \in {clients, clients \union {h}}
          /\ run' = [run EXCEPT !.newClients = @ \ {h}]
    BY <1>7 DEF AddClient
  <2>2. /\ run.pc = "new" /\ run'.pc = "new" /\ run'.cur = run.cur
        /\ UNCHANGED <<certs, faulted>>
    BY <1>7, <2>1 DEF AddClient, RunType
  <2>3. Removing = {} /\ Removing' = {}
    BY <2>2 DEF Removing
  <2>4. QED
    BY <2>1, <2>2, <2>3 DEF CertificateInv, CertificatesAccounted, certs
<1>8. CASE Kill \/ Reboot
  <2>1. /\ run' = NotRunning /\ UNCHANGED <<clients, certs>>
        /\ faulted \union Removing \subseteq faulted'
    BY <1>8 DEF Kill, Reboot, Interrupted
  <2>2. QED
    BY <2>1 DEF CertificateInv, CertificatesAccounted, Removing, certs
<1>9. QED
  BY <1>1, <1>2, <1>3, <1>4, <1>5, <1>6, <1>7, <1>8

\* If no host name contains another one: a host that has left clients.xml leaves no
\* usable certificate and no key behind, and no client is served a revoked
\* certificate, except for the hosts that a failed command, a kill or a late
\* certificate hit.
THEOREM CertificatesCorrect ==
  ASSUME NamesDistinct
  PROVE  Spec => []CertificatesAccounted
<1>1. Init => CertificateInv
  BY HostsAssumption
     DEF Init, CertificateInv, CertificatesAccounted, NotRunning, Removing,
         RevokeStages
<1>2. TypeOK /\ CertificateInv /\ [Next]_vars => CertificateInv'
  <2> SUFFICES ASSUME TypeOK, CertificateInv, [Next]_vars PROVE CertificateInv'
    OBVIOUS
  <2>1. CASE Run
    BY <2>1, CertificateRemovalStep, CertificateOtherStep, Zenon DEF Run
  <2>2. CASE Cron \/ Forced \/ Kill \/ Reboot
    BY <2>2, CertificateOtherStep, Zenon
  <2>3. ASSUME NEW h \in Host,
               \/ Register(h) \/ Unregister(h) \/ FixAddress(h)
               \/ AddClientByHand(h) \/ Connect(h) \/ IssueCertificate(h)
        PROVE  CertificateInv'
    BY <2>3, CertificateWorldStep
  <2>4. CASE UNCHANGED vars
    BY <2>4, CertificateRests DEF vars, certs
  <2>5. QED
    BY <2>1, <2>2, <2>3, <2>4 DEF Next
<1>3. CertificateInv => CertificatesAccounted
  BY DEF CertificateInv
<1>4. QED
  BY <1>1, <1>2, <1>3, TypeCorrect, PTL DEF Spec

-----------------------------------------------------------------------------
(* What the job leaves alone *)

\* The hosts whose keys the running script is going to remove, or removes.
Doomed ==
  run.extraClients \union run.extraKeys \union
  IF run.pc \in {"rm_pem", "rm_keys", "delprinc_host", "delprinc_nfs"}
  THEN {run.cur} ELSE {}

\* What the running script has read or filtered so far still has the host.
Listed(h) ==
  /\ run.pc \in {"check", "compute"} => h \in run.found
  /\ run.pc = "mv" => h \in run.kept

\* A registered host has all that an enrolled host should have, and the running
\* script is not about to take anything of it away.
Enrolled(h) ==
  /\ ldap[h] > 0 /\ h \in clients
  /\ keytab[h] = Service /\ princ[h] = Service
  /\ pem[h] = "good" /\ h \in secrets
  /\ Listed(h) /\ h \notin Doomed

\* The administrators and bcfg2.
LEMMA EnrolledWorldStep ==
  ASSUME TypeOK, NEW h \in Host, Enrolled(h), NEW g \in Host,
         \/ Register(g) \/ Unregister(g) \/ FixAddress(g) \/ AddClientByHand(g)
         \/ Connect(g) \/ IssueCertificate(g)
  PROVE  Enrolled(h)' \/ (Unregister(h) /\ ldap'[h] = 0)
<1> USE DEF Enrolled, Listed, Doomed, Edit, kerberos, certs, TypeOK
<1>1. CASE Register(g)
  BY <1>1 DEF Register
<1>2. CASE Unregister(g)
  <2>1. ldap'[h] = IF g = h THEN ldap[h] - 1 ELSE ldap[h]
    BY <1>2 DEF Unregister
  <2>2. ldap'[h] > 0 \/ (g = h /\ ldap'[h] = 0)
    BY <2>1
  <2> QED
    BY <1>2, <2>2 DEF Unregister
<1>3. CASE FixAddress(g) \/ AddClientByHand(g) \/ Connect(g)
  BY <1>3 DEF FixAddress, AddClientByHand, Connect
<1>4. CASE IssueCertificate(g)
  BY <1>4 DEF IssueCertificate
<1> QED
  BY <1>1, <1>2, <1>3, <1>4

\* The steps of a run that set, follow or change its lists.
LEMMA EnrolledPlanStep ==
  ASSUME TypeOK, NEW h \in Host, Enrolled(h), UNCHANGED world,
         \/ Start("no") \/ Start("yes") \/ Sanity \/ Search \/ CheckKeytabs
         \/ Compute \/ FilterClients \/ MoveClients \/ DeleteKeytabs
  PROVE  \/ Enrolled(h)'
         \/ Search /\ faults' # faults
         \/ FilterClients /\ h \in Dropped(run.extraClients)
<1> USE RunTypes DEF Enrolled, Listed, Doomed, TypeOK, kerberos, certs, world, Goto, Exit
<1>0. CASE run' = NotRunning /\ UNCHANGED <<clients, kerberos, certs>>
  BY <1>0 DEF NotRunning
<1>1. CASE Start("no") \/ Start("yes")
  BY <1>1 DEF Start, RunType
<1>2. CASE Sanity \/ CheckKeytabs
  <2>1. CASE Exit
    BY <1>0, <1>2, <2>1 DEF Sanity, CheckKeytabs
  <2>2. CASE Sanity /\ Goto("search")
    BY <2>2 DEF Sanity, RunType
  <2>3. CASE CheckKeytabs /\ Goto("compute")
    BY <2>3 DEF CheckKeytabs, RunType
  <2> QED
    BY <1>2, <2>1, <2>2, <2>3 DEF Sanity, CheckKeytabs
<1>3. CASE Search /\ faults' = faults
  <2>1. ~Fault
    BY <1>3, BoundsAssumption DEF Fault
  <2>2. /\ run'.pc = "check" /\ h \in run'.found
        /\ UNCHANGED <<run.extraClients, run.extraKeys>>
    BY <1>3, <2>1, SearchEffect DEF Registered
  <2> QED
    BY <1>3, <2>2 DEF Search
<1>6. CASE Compute
  <2>1. /\ run'.pc = "clients" /\ run'.extraClients = clients \ run.found
        /\ run'.extraKeys = Keyed \ run.found
    BY <1>6 DEF Compute, Snapshot, RunType
  <2> QED
    BY <1>6, <2>1 DEF Compute
<1>4. CASE FilterClients /\ h \notin Dropped(run.extraClients)
  <2>1. CASE Exit
    BY <1>0, <1>4, <2>1 DEF FilterClients
  <2>2. CASE Goto("keytabs")
    BY <1>4, <2>2 DEF FilterClients, RunType
  <2>3. CASE run' = [run EXCEPT !.pc = "mv",
                                !.kept = clients \ Dropped(run.extraClients)]
    BY <1>4, <2>3 DEF FilterClients, RunType
  <2> QED
    BY <1>4, <2>1, <2>2, <2>3 DEF FilterClients
<1>7. CASE MoveClients
  BY <1>7 DEF MoveClients, RunType
<1>5. CASE DeleteKeytabs
  <2>1. CASE Exit
    BY <1>0, <1>5, <2>1 DEF DeleteKeytabs
  <2>2. CASE Goto("add") \/ Goto("rm_keytab")
    BY <1>5, <2>2 DEF DeleteKeytabs, RunType
  <2> QED
    BY <1>5, <2>1, <2>2 DEF DeleteKeytabs
<1> QED
  BY <1>1, <1>2, <1>3, <1>4, <1>5, <1>6, <1>7

\* The steps of its loops.
LEMMA EnrolledLoopStep ==
  ASSUME TypeOK, NEW h \in Host, Enrolled(h), UNCHANGED world,
         \/ RevokeCertificate \/ RemovePem \/ RemoveKeys
         \/ RemoveKeytab \/ DelprincHost \/ DelprincNfs
         \/ AddprincHost \/ AddprincNfs \/ InstallKeytab \/ KeysDone
         \/ AddClient \/ Finish
  PROVE  Enrolled(h)'
<1> USE RunTypes DEF Enrolled, Listed, Doomed, TypeOK, kerberos, certs, world, Goto
<1>0. run'.pc \notin {"check", "compute", "mv"}
  BY LoopRests DEF CheckStages
<1>1. CASE RevokeCertificate
  <2>1. PICK g \in run.extraClients :
          /\ run' = [run EXCEPT !.pc = "rm_pem", !.cur = g]
          /\ \/ pem' = [pem EXCEPT ![g] = IF @ = "good" THEN "revoked" ELSE @]
             \/ UNCHANGED pem
    BY <1>1 DEF RevokeCertificate
  <2>2. g # h /\ pem'[h] = pem[h]
    BY <2>1
  <2>3. /\ run'.extraClients = run.extraClients /\ run'.extraKeys = run.extraKeys
        /\ run'.cur = g
    BY <2>1 DEF RunType
  <2> QED
    BY <1>0, <1>1, <2>2, <2>3 DEF RevokeCertificate
<1>2. CASE RemovePem \/ RemoveKeys
  <2>0. run.cur # h
    BY <1>2 DEF RemovePem, RemoveKeys
  <2>1. /\ run'.extraClients \subseteq run.extraClients
        /\ run'.extraKeys = run.extraKeys /\ run'.cur \in {run.cur, NoHost}
    <3>1. CASE RemovePem
      BY <3>1 DEF RemovePem, RunType
    <3>2. CASE RemoveKeys
      BY <3>2 DEF RemoveKeys, RunType
    <3> QED
      BY <1>2, <3>1, <3>2
  <2>2. pem'[h] = pem[h] /\ (h \in secrets' <=> h \in secrets)
    BY <1>2, <2>0 DEF RemovePem, RemoveKeys
  <2> QED
    BY <1>0, <1>2, <2>0, <2>1, <2>2, HostsAssumption DEF RemovePem, RemoveKeys
<1>3. CASE RemoveKeytab
  <2>1. PICK g \in run.extraKeys :
          /\ keytab' = [keytab EXCEPT ![g] = {}]
          /\ run' = [run EXCEPT !.pc = "delprinc_host", !.cur = g]
    BY <1>3 DEF RemoveKeytab
  <2>2. g # h /\ keytab'[h] = keytab[h]
    BY <2>1
  <2>3. /\ run'.extraClients = run.extraClients /\ run'.extraKeys = run.extraKeys
        /\ run'.cur = g
    BY <2>1 DEF RunType
  <2> QED
    BY <1>0, <1>3, <2>2, <2>3 DEF RemoveKeytab
<1>4. CASE DelprincHost \/ DelprincNfs
  <2>0. run.cur # h
    BY <1>4 DEF DelprincHost, DelprincNfs
  <2>1. /\ run'.extraClients = run.extraClients
        /\ run'.extraKeys \subseteq run.extraKeys /\ run'.cur \in {run.cur, NoHost}
    <3>1. CASE DelprincHost
      BY <3>1 DEF DelprincHost, RunType
    <3>2. CASE DelprincNfs
      BY <3>2 DEF DelprincNfs, RunType
    <3> QED
      BY <1>4, <3>1, <3>2
  <2>2. princ'[h] = princ[h]
    BY <1>4, <2>0 DEF DelprincHost, DelprincNfs, Kadmin
  <2> QED
    BY <1>0, <1>4, <2>0, <2>1, <2>2, HostsAssumption DEF DelprincHost, DelprincNfs
<1>5. CASE AddprincHost \/ AddprincNfs
  <2>1. PICK g \in Host, s \in Service : Kadmin(g, princ[g] \union {s})
    <3>1. CASE AddprincHost
      BY <3>1 DEF AddprincHost, Service
    <3>2. CASE AddprincNfs
      BY <3>2 DEF AddprincNfs, Service, KerberosStages
    <3> QED
      BY <1>5, <3>1, <3>2
  <2>2. princ'[h] = princ[h]
    <3>1. princ[h] \union {s} = princ[h]
      OBVIOUS
    <3>2. princ' = princ \/ princ' = [princ EXCEPT ![g] = princ[g] \union {s}]
      BY <2>1 DEF Kadmin
    <3> QED
      BY <3>1, <3>2
  <2>3. /\ run'.extraClients = run.extraClients /\ run'.extraKeys = run.extraKeys
        /\ run'.pc \in {"addprinc_nfs", "ktadd"}
    BY <1>5 DEF AddprincHost, AddprincNfs, RunType
  <2> QED
    BY <1>0, <1>5, <2>2, <2>3 DEF AddprincHost, AddprincNfs
<1>6. CASE InstallKeytab
  <2>1. keytab'[h] = Service
    BY <1>6 DEF InstallKeytab
  <2> QED
    BY <1>0, <1>6, <2>1 DEF InstallKeytab, RunType
<1>7. CASE KeysDone \/ Finish
  BY <1>7 DEF KeysDone, Finish, Exit, NotRunning, RunType
<1>8. CASE AddClient
  <2>1. /\ h \in clients' /\ run'.extraClients = run.extraClients
        /\ run'.extraKeys = run.extraKeys /\ run'.pc = "new"
    BY <1>8 DEF AddClient, RunType
  <2> QED
    BY <1>0, <1>8, <2>1 DEF AddClient
<1> QED
  BY <1>1, <1>2, <1>3, <1>4, <1>5, <1>6, <1>7, <1>8

\* An enrolled host keeps its place in clients.xml, its keytab, principals,
\* certificate and keys, whatever runs do to other hosts and wherever commands
\* fail, scripts are killed and administrators interfere, until it leaves LDAP, a
\* search breaks off (Search looks at no exit status), or a client is removed
\* whose name is part of its own.
THEOREM EnrolledStays ==
  Spec => [][\A h \in Host : Enrolled(h) =>
               \/ Enrolled(h)'
               \/ Unregister(h) /\ ldap'[h] = 0
               \/ Search /\ faults' # faults
               \/ FilterClients /\ h \in Dropped(run.extraClients)]_vars
<1> DEFINE Kept(h) == \/ Enrolled(h)'
                      \/ Unregister(h) /\ ldap'[h] = 0
                      \/ Search /\ faults' # faults
                      \/ FilterClients /\ h \in Dropped(run.extraClients)
<1>1. ASSUME TypeOK, Next, NEW h \in Host, Enrolled(h) PROVE Kept(h)
  <2>1. CASE Kill \/ Reboot
    BY <1>1, <2>1
    DEF Kill, Reboot, Interrupted, NotRunning, Enrolled, Listed, Doomed, world, kerberos, certs
  <2>2. CASE Cron \/ Forced
    BY <1>1, <2>2, EnrolledPlanStep DEF Cron, Forced
  <2>3. CASE Run
    BY <1>1, <2>3, EnrolledPlanStep, EnrolledLoopStep DEF Run
  <2>4. ASSUME NEW g \in Host,
               \/ Register(g) \/ Unregister(g) \/ FixAddress(g)
               \/ AddClientByHand(g) \/ Connect(g) \/ IssueCertificate(g)
        PROVE  Kept(h)
    BY <1>1, <2>4, EnrolledWorldStep
  <2> QED
    BY <1>1, <2>1, <2>2, <2>3, <2>4 DEF Next
<1>2. TypeOK /\ [Next]_vars => [\A h \in Host : Enrolled(h) => Kept(h)]_vars
  BY <1>1
<1> QED
  BY <1>2, TypeCorrect, PTL DEF Spec

\* The hosts for which the running script is going to make keys, or makes them.
Adding ==
  run.once \union run.addKeys \union IF run.pc \in {"addprinc_nfs", "ktadd"} THEN {run.cur} ELSE {}

\* Nothing is left of a host that has been removed, and nothing is under way that
\* would make anything for it.
Gone(h) ==
  /\ ldap[h] = 0 /\ h \notin clients
  /\ keytab[h] = {} /\ princ[h] = {}
  /\ pem[h] = "none" /\ h \notin secrets \union stray
  /\ h \notin connecting \union run.kept \union Adding

\* The administrators and bcfg2.
LEMMA GoneWorldStep ==
  ASSUME TypeOK, NEW h \in Host, Gone(h), NEW g \in Host,
         \/ Register(g) \/ Unregister(g) \/ FixAddress(g) \/ AddClientByHand(g)
         \/ Connect(g) \/ IssueCertificate(g)
  PROVE  Gone(h)' \/ Register(h) \/ AddClientByHand(h)
<1> USE DEF Gone, Adding, Edit, kerberos, certs, TypeOK
<1>1. CASE Register(g)
  BY <1>1 DEF Register
<1>2. CASE Unregister(g)
  BY <1>2 DEF Unregister
<1>3. CASE FixAddress(g) \/ Connect(g)
  BY <1>3 DEF FixAddress, Connect
<1>4. CASE AddClientByHand(g)
  BY <1>4 DEF AddClientByHand
<1>5. CASE IssueCertificate(g)
  BY <1>5 DEF IssueCertificate
<1> QED
  BY <1>1, <1>2, <1>3, <1>4, <1>5

\* The steps of a run that set, follow or change its lists.
LEMMA GonePlanStep ==
  ASSUME TypeOK, NEW h \in Host, Gone(h), UNCHANGED world,
         \/ Start("no") \/ Start("yes") \/ Sanity \/ Search \/ CheckKeytabs
         \/ Compute \/ FilterClients \/ MoveClients \/ DeleteKeytabs
  PROVE  Gone(h)'
<1> USE RunTypes DEF Gone, Adding, TypeOK, kerberos, certs, world, Goto, Exit
<1>0. CASE run' = NotRunning /\ UNCHANGED <<clients, kerberos, certs>>
  BY <1>0 DEF NotRunning
<1>1. CASE Start("no") \/ Start("yes")
  <2>1. /\ run'.pc = "sanity"
        /\ UNCHANGED <<run.once, run.kept, run.addKeys>>
    BY <1>1 DEF Start, RunType
  <2> QED
    BY <1>1, <2>1 DEF Start
<1>2. CASE Sanity \/ CheckKeytabs
  <2>1. CASE Exit
    BY <1>0, <1>2, <2>1 DEF Sanity, CheckKeytabs
  <2>2. CASE Sanity /\ Goto("search")
    BY <2>2 DEF Sanity, RunType
  <2>3. CASE CheckKeytabs /\ Goto("compute")
    BY <2>3 DEF CheckKeytabs, RunType
  <2> QED
    BY <1>2, <2>1, <2>2, <2>3 DEF Sanity, CheckKeytabs
<1>3. CASE Search
  <2>1. /\ run'.pc = "check" /\ h \notin run'.once
        /\ UNCHANGED <<run.addKeys, run.kept>>
    BY <1>3, SearchEffect DEF Registered
  <2> QED
    BY <1>3, <2>1 DEF Search
<1>6. CASE Compute
  <2>1. /\ run'.pc = "clients" /\ run'.once = {} /\ run'.addKeys \subseteq run.once
        /\ run'.kept = run.kept
    BY <1>6 DEF Compute, Snapshot, RunType
  <2> QED
    BY <1>6, <2>1 DEF Compute
<1>4. CASE FilterClients
  <2>1. CASE Exit
    BY <1>0, <1>4, <2>1 DEF FilterClients
  <2>2. CASE Goto("keytabs")
    BY <1>4, <2>2 DEF FilterClients, RunType
  <2>3. CASE run' = [run EXCEPT !.pc = "mv",
                                !.kept = clients \ Dropped(run.extraClients)]
    BY <1>4, <2>3 DEF FilterClients, RunType
  <2> QED
    BY <1>4, <2>1, <2>2, <2>3 DEF FilterClients
<1>7. CASE MoveClients
  BY <1>7 DEF MoveClients, RunType
<1>5. CASE DeleteKeytabs
  <2>1. CASE Exit
    BY <1>0, <1>5, <2>1 DEF DeleteKeytabs
  <2>2. CASE Goto("add") \/ Goto("rm_keytab")
    BY <1>5, <2>2 DEF DeleteKeytabs, RunType
  <2> QED
    BY <1>5, <2>1, <2>2 DEF DeleteKeytabs
<1> QED
  BY <1>1, <1>2, <1>3, <1>4, <1>5, <1>6, <1>7

\* The steps of its loops.
LEMMA GoneLoopStep ==
  ASSUME TypeOK, NEW h \in Host, Gone(h), UNCHANGED world,
         \/ RevokeCertificate \/ RemovePem \/ RemoveKeys
         \/ RemoveKeytab \/ DelprincHost \/ DelprincNfs
         \/ AddprincHost \/ AddprincNfs \/ InstallKeytab \/ KeysDone
         \/ AddClient \/ Finish
  PROVE  Gone(h)'
<1> USE RunTypes DEF Gone, Adding, TypeOK, kerberos, certs, world, Goto
<1>0. run'.once \subseteq run.once /\ run'.kept \subseteq run.kept
  BY LoopRests
<1>1. CASE RevokeCertificate
  <2>1. pem'[h] = "none"
    BY <1>1 DEF RevokeCertificate
  <2>2. run'.addKeys = run.addKeys /\ run'.pc = "rm_pem"
    BY <1>1 DEF RevokeCertificate, RunType
  <2> QED
    BY <1>0, <1>1, <2>1, <2>2 DEF RevokeCertificate
<1>2. CASE RemovePem
  <2>1. pem'[h] = "none" /\ h \notin stray'
    BY <1>2 DEF RemovePem
  <2> QED
    BY <1>0, <1>2, <2>1 DEF RemovePem, RunType
<1>3. CASE RemoveKeys
  <2>1. run'.addKeys = run.addKeys /\ run'.pc \in {"keytabs", "revoke"}
    BY <1>3 DEF RemoveKeys, RunType
  <2> QED
    BY <1>0, <1>3, <2>1 DEF RemoveKeys
<1>4. CASE RemoveKeytab
  <2>1. keytab'[h] = {}
    BY <1>4 DEF RemoveKeytab
  <2>2. run'.addKeys = run.addKeys /\ run'.pc = "delprinc_host"
    BY <1>4 DEF RemoveKeytab, RunType
  <2> QED
    BY <1>0, <1>4, <2>1, <2>2 DEF RemoveKeytab
<1>5. CASE DelprincHost \/ DelprincNfs
  <2>1. princ'[h] = {}
    BY <1>5 DEF DelprincHost, DelprincNfs, Kadmin
  <2>2. CASE DelprincHost
    BY <2>1, <2>2 DEF DelprincHost, RunType
  <2>3. CASE DelprincNfs
    <3>1. run'.addKeys = run.addKeys /\ run'.pc \in {"add", "rm_keytab"}
      BY <2>3 DEF DelprincNfs, RunType
    <3> QED
      BY <1>0, <2>1, <2>3, <3>1 DEF DelprincNfs
  <2> QED
    BY <1>0, <1>5, <2>2, <2>3
<1>6. CASE AddprincHost
  <2>1. PICK g \in run.addKeys :
          /\ Kadmin(g, princ[g] \union {"host"})
          /\ run' = [run EXCEPT !.pc = "addprinc_nfs", !.cur = g]
    BY <1>6 DEF AddprincHost
  <2>2. g # h /\ princ'[h] = princ[h]
    BY <2>1 DEF Kadmin
  <2>3. run'.addKeys = run.addKeys /\ run'.cur = g
    BY <2>1 DEF RunType
  <2> QED
    BY <1>0, <1>6, <2>2, <2>3 DEF AddprincHost
<1>7. CASE AddprincNfs
  <2>1. run.cur # h /\ princ'[h] = princ[h]
    BY <1>7 DEF AddprincNfs, Kadmin
  <2>2. run'.addKeys = run.addKeys /\ run'.cur = run.cur
    BY <1>7 DEF AddprincNfs, RunType
  <2> QED
    BY <1>0, <1>7, <2>1, <2>2 DEF AddprincNfs
<1>8. CASE InstallKeytab
  <2>1. run.cur # h /\ keytab'[h] = keytab[h]
    BY <1>8 DEF InstallKeytab
  <2>2. run'.addKeys \subseteq run.addKeys /\ run'.pc = "add"
    BY <1>8 DEF InstallKeytab, RunType
  <2> QED
    BY <1>0, <1>8, <2>1, <2>2 DEF InstallKeytab
<1>9. CASE KeysDone \/ Finish
  BY <1>9 DEF KeysDone, Finish, Exit, NotRunning, RunType
<1>10. CASE AddClient
  <2>1. h \notin clients'
    BY <1>10 DEF AddClient, HasProfile, Registered
  <2>2. run'.addKeys = run.addKeys /\ run'.pc = "new"
    BY <1>10 DEF AddClient, RunType
  <2> QED
    BY <1>0, <1>10, <2>1, <2>2 DEF AddClient
<1> QED
  BY <1>1, <1>2, <1>3, <1>4, <1>5, <1>6, <1>7, <1>8, <1>9, <1>10

\* Of a host that has been removed nothing comes back, neither as a client nor as a
\* keytab, principal, certificate or key, whatever a run has read earlier and
\* wherever it fails or is killed, until somebody registers it again or adds it to
\* clients.xml.
THEOREM RemovedStays ==
  Spec => [][\A h \in Host :
               Gone(h) => Gone(h)' \/ Register(h) \/ AddClientByHand(h)]_vars
<1> DEFINE Kept(h) == Gone(h)' \/ Register(h) \/ AddClientByHand(h)
<1>1. ASSUME TypeOK, Next, NEW h \in Host, Gone(h) PROVE Kept(h)
  <2>1. CASE Kill \/ Reboot
    BY <1>1, <2>1
    DEF Kill, Reboot, Interrupted, NotRunning, Gone, Adding, world, kerberos, certs
  <2>2. CASE Cron \/ Forced
    BY <1>1, <2>2, GonePlanStep DEF Cron, Forced
  <2>3. CASE Run
    BY <1>1, <2>3, GonePlanStep, GoneLoopStep DEF Run
  <2>4. ASSUME NEW g \in Host,
               \/ Register(g) \/ Unregister(g) \/ FixAddress(g)
               \/ AddClientByHand(g) \/ Connect(g) \/ IssueCertificate(g)
        PROVE  Kept(h)
    BY <1>1, <2>4, GoneWorldStep
  <2> QED
    BY <1>1, <2>1, <2>2, <2>3, <2>4 DEF Next
<1>2. TypeOK /\ [Next]_vars => [\A h \in Host : Gone(h) => Kept(h)]_vars
  BY <1>1
<1> QED
  BY <1>2, TypeCorrect, PTL DEF Spec

-----------------------------------------------------------------------------
(* A server's lost keytab *)

\* The steps of a run that has not passed the check of the keytabs.
LEMMA BlockedRunStep ==
  ASSUME TypeOK, Blocked, Run
  PROVE  Blocked' /\ UNCHANGED <<kerberos, clients>>
<1> USE RunTypes
    DEF Blocked, KeytabsPresent, Keyed, CheckStages, TypeOK, kerberos, Goto, Exit,
        NotRunning
<1>1. Sanity \/ Search \/ CheckKeytabs
  BY DEF Run, Compute, FilterClients, MoveClients, RevokeCertificate, RemovePem,
         RemoveKeys, DeleteKeytabs, RemoveKeytab, DelprincHost, DelprincNfs,
         AddprincHost, AddprincNfs, InstallKeytab, KeysDone, AddClient, Finish
<1>2. CASE Sanity
  BY <1>2 DEF Sanity, RunType
<1>3. CASE Search
  <2>1. run'.pc = "check" /\ run'.forced = run.forced
    BY <1>3, SearchEffect
  <2> QED
    BY <1>3, <2>1 DEF Search
<1>4. CASE CheckKeytabs
  BY <1>4 DEF CheckKeytabs
<1> QED
  BY <1>1, <1>2, <1>3, <1>4

\* While a server has no keytab, cron's runs change neither a keytab nor a principal
\* nor the list of clients, however often they are repeated, whatever is killed and
\* whatever administrators do short of -f and of editing clients.xml by hand.
THEOREM LostKeytabBlocksCorrect == Spec => LostKeytabBlocks
<1> DEFINE Stays == /\ Blocked'
                    /\ UNCHANGED kerberos
                    /\ clients' = clients \/ \E h \in Host : AddClientByHand(h)
<1>1. ASSUME TypeOK, Next, Blocked, ~Forced PROVE Stays
  <2> USE <1>1 DEF Blocked, KeytabsPresent, Keyed, kerberos
  <2>1. CASE Cron
    BY <2>1 DEF Cron, Start, CheckStages, TypeOK, RunType
  <2>2. CASE Run
    BY <2>2, BlockedRunStep
  <2>3. CASE Kill \/ Reboot
    BY <2>3 DEF Kill, Reboot, Interrupted, NotRunning
  <2>4. ASSUME NEW h \in Host,
               \/ Register(h) \/ Unregister(h) \/ FixAddress(h)
               \/ AddClientByHand(h) \/ Connect(h) \/ IssueCertificate(h)
        PROVE  Stays
    <3>1. UNCHANGED <<keytab, princ, run>>
      BY <2>4 DEF Register, Unregister, FixAddress, AddClientByHand, Connect,
                  IssueCertificate, Edit
    <3>2. clients' = clients \/ \E g \in Host : AddClientByHand(g)
      BY <2>4 DEF Register, Unregister, FixAddress, Connect, IssueCertificate
    <3> QED
      BY <3>1, <3>2
  <2> QED
    BY <2>1, <2>2, <2>3, <2>4 DEF Next
<1>2. TypeOK /\ [Next]_vars => [Blocked => Forced \/ Stays]_vars
  BY <1>1
<1> QED
  BY <1>2, TypeCorrect, PTL DEF Spec, LostKeytabBlocks
=============================================================================
