-------------------------- MODULE DhcpPublish_proofs --------------------------
(***************************************************************************)
(* TypeOK, ServesFile, the refinement of LdapMirror, as far as safety goes, *)
(* and what lasts once dhcpd.conf follows LDAP: for any set of hosts and any *)
(* number of changes and faults.                                           *)
(***************************************************************************)
EXTENDS DhcpPublish, TLAPS

\* A start of dhcpd serves the configuration it reads, or fails.
LEMMA LaunchedServes ==
  ASSUME NEW conf \in Conf
  PROVE  /\ Launched(conf) \in {{}, {conf}}
         /\ Launched(conf) = {} \/ \E c \in Conf : Launched(conf) = {c}
  BY Zenon DEF Launched

\* What the job makes is a configuration.
LEMMA MadeType == TypeOK /\ run.pc # "idle" => Made \in Conf
  BY DEF TypeOK, Made, Conf, Headers, RunType

\* The types of the variables, and that a running job holds the lock.
THEOREM TypeCorrect == Spec => []TypeOK
<1>1. Init => TypeOK
  <2> SUFFICES ASSUME Init PROVE TypeOK
    OBVIOUS
  <2>1. file \in Conf
    BY HostsAssumption DEF Init, Conf, Headers
  <2>2. serving = {} \/ \E c \in Conf : serving = {c}
    BY <2>1, LaunchedServes DEF Init
  <2>3. missed \in BOOLEAN
    BY Zenon DEF Init
  <2> QED
    BY <2>1, <2>2, <2>3, HostsAssumption, BoundsAssumption
    DEF Init, TypeOK, NotRunning, RunType, Headers
<1>2. TypeOK /\ [Next]_vars => TypeOK'
  <2> SUFFICES ASSUME TypeOK, [Next]_vars PROVE TypeOK'
    OBVIOUS
  <2>0. CASE UNCHANGED vars
    BY <2>0 DEF TypeOK, vars
  <2>1. CASE Cron
    BY <2>1 DEF Cron, Start, world, TypeOK, RunType, Headers
  <2>2. CASE Run
    <3>1. CASE Search
      BY <2>2, <3>1 DEF Run, Search, world, TypeOK, RunType, Headers
    <3>2. CASE SearchFails
      BY <2>2, <3>2, BoundsAssumption
      DEF Run, SearchFails, Fault, Exit, NotRunning, world, TypeOK, RunType, Headers
    <3>3. CASE Compare
      <4>1. file' \in Conf
        BY <3>3, MadeType DEF Compare
      <4> QED
        BY <2>2, <3>3, <4>1 DEF Run, Compare, world, TypeOK, RunType, Headers
    <3>4. CASE Restart
      <4>1. serving' = {} \/ \E c \in Conf : serving' = {c}
        BY <3>4, LaunchedServes DEF Restart, TypeOK
      <4>2. faults' \in 0..MaxFaults
        BY <3>4, BoundsAssumption DEF Restart, Fault, TypeOK
      <4> QED
        BY <2>2, <3>4, <4>1, <4>2 DEF Run, Restart, world, TypeOK, RunType, Headers
    <3>5. CASE Unlock
      BY <2>2, <3>5 DEF Run, Unlock, Exit, NotRunning, world, TypeOK, RunType, Headers
    <3> QED
      BY <2>2, <3>1, <3>2, <3>3, <3>4, <3>5 DEF Run
  <2>3. CASE Stop /\ UNCHANGED world
    BY <2>3, BoundsAssumption DEF Stop, Fault, NotRunning, world, TypeOK, RunType, Headers
  <2>4. CASE Restarted
    <3>1. serving' = {} \/ \E c \in Conf : serving' = {c}
      BY <2>4, LaunchedServes DEF Restarted, Reboot, Launch, TypeOK
    <3>2. faults' \in 0..MaxFaults
      BY <2>4, BoundsAssumption DEF Restarted, Reboot, Fault, TypeOK
    <3> QED
      BY <2>4, <3>1, <3>2
      DEF Restarted, Reboot, Exit, Launch, NotRunning, world, TypeOK, RunType, Headers
  <2>5. CASE ChangeLdap
    BY <2>5, BoundsAssumption DEF ChangeLdap, Edit, TypeOK
  <2>6. CASE ChangeHeader
    BY <2>6, BoundsAssumption DEF ChangeHeader, Edit, TypeOK, Headers
  <2>7. CASE RestartServer
    <3>1. serving' = {} \/ \E c \in Conf : serving' = {c}
      BY <2>7, LaunchedServes DEF RestartServer, Launch, TypeOK
    <3>2. missed' \in BOOLEAN
      BY <2>7, Zenon DEF RestartServer, Launch
    <3> QED
      BY <2>7, <3>1, <3>2, BoundsAssumption DEF RestartServer, Launch, Edit, TypeOK
  <2>8. CASE StartServer
    <3>1. serving' = {} \/ \E c \in Conf : serving' = {c}
      BY <2>8, LaunchedServes DEF StartServer, Launch, TypeOK
    <3> QED
      BY <2>8, <3>1 DEF StartServer, Launch, TypeOK
  <2> QED
    BY <2>0, <2>1, <2>2, <2>3, <2>4, <2>5, <2>6, <2>7, <2>8 DEF Next
<1> QED
  BY <1>1, <1>2, PTL DEF Spec

\* dhcpd is down or runs with dhcpd.conf as it is, unless a restart was missed or
\* is about to come.
THEOREM ServesFileCorrect == Spec => []ServesFile
<1>1. Init => ServesFile
  <2> SUFFICES ASSUME Init PROVE ServesFile
    OBVIOUS
  <2>1. file \in Conf
    BY HostsAssumption DEF Init, Conf, Headers
  <2> QED
    BY <2>1, LaunchedServes DEF Init, ServesFile
<1>2. TypeOK /\ ServesFile /\ [Next]_vars => ServesFile'
  <2> SUFFICES ASSUME TypeOK, ServesFile, [Next]_vars PROVE ServesFile'
    OBVIOUS
  <2>0. CASE UNCHANGED vars
    BY <2>0 DEF ServesFile, vars
  <2>1. CASE Cron
    BY <2>1 DEF Cron, Start, ServesFile
  <2>2. CASE Run
    <3>1. CASE Search
      BY <3>1 DEF Search, ServesFile, TypeOK, RunType, Headers
    <3>2. CASE SearchFails
      BY <3>2 DEF SearchFails, ServesFile
    <3>3. CASE Compare
      BY <3>3 DEF Compare, ServesFile, TypeOK, RunType, Headers
    <3>4. CASE Restart
      BY <3>4, LaunchedServes DEF Restart, ServesFile, TypeOK
    <3>5. CASE Unlock
      BY <3>5 DEF Unlock, ServesFile
    <3> QED
      BY <2>2, <3>1, <3>2, <3>3, <3>4, <3>5 DEF Run
  <2>3. CASE Stop /\ UNCHANGED world
    BY <2>3 DEF Stop, ServesFile
  <2>4. CASE Restarted
    BY <2>4, LaunchedServes DEF Restarted, Reboot, Launch, ServesFile, TypeOK
  <2>5. CASE ChangeLdap
    BY <2>5 DEF ChangeLdap, ServesFile
  <2>6. CASE ChangeHeader
    BY <2>6 DEF ChangeHeader, ServesFile
  <2>7. CASE RestartServer
    BY <2>7, LaunchedServes DEF RestartServer, Launch, ServesFile, TypeOK
  <2>8. CASE StartServer
    BY <2>8, LaunchedServes DEF StartServer, Launch, ServesFile, TypeOK
  <2> QED
    BY <2>0, <2>1, <2>2, <2>3, <2>4, <2>5, <2>6, <2>7, <2>8 DEF Next
<1> QED
  BY <1>1, <1>2, TypeCorrect, PTL DEF Spec

\* A step that changes neither LDAP nor the hosts of dhcpd.conf, and that takes
\* nothing, stutters or abandons the update.
LEMMA NothingTaken ==
  ASSUME UNCHANGED <<ldap, file>>, run'.pc # "compare" \/ UNCHANGED run
  PROVE  [Mirror!Next]_(Mirror!vars)
<1>1. CASE run'.pc # "compare"
  BY <1>1 DEF Mirror!Next, Mirror!Abandon
<1>2. CASE UNCHANGED run
  BY <1>2 DEF Mirror!vars
<1> QED
  BY <1>1, <1>2

\* The job implements LdapMirror, as far as safety goes: dhcpd.conf has at all
\* times the hosts that LDAP contained at one moment.
THEOREM MirrorSafe == Spec => Mirror!Safety
<1>1. Init => Mirror!Init
  BY DEF Init, NotRunning, Mirror!Init
<1>2. TypeOK /\ [Next]_vars => [Mirror!Next]_(Mirror!vars)
  <2> SUFFICES ASSUME TypeOK, [Next]_vars PROVE [Mirror!Next]_(Mirror!vars)
    OBVIOUS
  <2>0. CASE UNCHANGED vars
    BY <2>0, NothingTaken DEF vars
  <2>1. CASE Cron
    BY <2>1, NothingTaken DEF Cron, Start, world
  <2>2. CASE Run
    <3>1. CASE Search
      BY <2>2, <3>1
      DEF Run, Search, world, TypeOK, RunType, Mirror!Next, Mirror!Take
    <3>2. CASE SearchFails
      BY <2>2, <3>2, NothingTaken DEF Run, SearchFails, Exit, NotRunning, world
    <3>3. CASE Compare
      BY <2>2, <3>3
      DEF Run, Compare, Made, world, TypeOK, RunType, Mirror!Next, Mirror!Publish
    <3>4. CASE Restart
      BY <2>2, <3>4, NothingTaken DEF Run, Restart, world, TypeOK, RunType, Headers
    <3>5. CASE Unlock
      BY <2>2, <3>5, NothingTaken DEF Run, Unlock, Exit, NotRunning, world
    <3> QED
      BY <2>2, <3>1, <3>2, <3>3, <3>4, <3>5 DEF Run
  <2>3. CASE Stop /\ UNCHANGED world
    BY <2>3, NothingTaken DEF Stop, NotRunning, world
  <2>4. CASE Restarted
    BY <2>4, NothingTaken DEF Restarted, Reboot, Exit, NotRunning, world
  <2>5. CASE ChangeLdap
    <3>1. ldap' # ldap
      BY <2>5 DEF ChangeLdap, TypeOK
    <3> QED
      BY <2>5, <3>1 DEF ChangeLdap, Mirror!Next, Mirror!Change
  <2>6. CASE ChangeHeader
    BY <2>6, NothingTaken DEF ChangeHeader
  <2>7. CASE RestartServer
    BY <2>7, NothingTaken DEF RestartServer
  <2>8. CASE StartServer
    BY <2>8, NothingTaken DEF StartServer
  <2> QED
    BY <2>0, <2>1, <2>2, <2>3, <2>4, <2>5, <2>6, <2>7, <2>8 DEF Next
<1> QED
  BY <1>1, <1>2, TypeCorrect, PTL DEF Spec, Mirror!Safety

-----------------------------------------------------------------------------
(* What lasts while LDAP and the header rest *)

\* dhcpd.conf is up to date, and a running job has read nothing else.
Settled ==
  /\ file = UpToDate
  /\ run.pc \in {"search", "compare"} => run.header = header
  /\ run.pc = "compare" => run.found = ldap
  /\ run.pc # "restart"

LEMMA SettledStays ==
  ASSUME TypeOK, Settled, [Next]_vars, UNCHANGED <<ldap, header>>
  PROVE  Settled' /\ UNCHANGED file
<1> USE DEF Settled, UpToDate
<1>0. CASE UNCHANGED vars
  BY <1>0 DEF vars
<1>1. CASE Cron
  BY <1>1 DEF Cron, Start
<1>2. CASE Search
  BY <1>2 DEF Search, TypeOK, RunType, Headers
<1>3. CASE SearchFails \/ Unlock
  BY <1>3 DEF SearchFails, Unlock, Exit, NotRunning
<1>4. CASE Compare
  <2>1. Made = file
    BY <1>4 DEF Compare, Made
  <2> QED
    BY <1>4, <2>1 DEF Compare, TypeOK, RunType, Headers
<1>5. CASE Restart
  BY <1>5 DEF Restart
<1>6. CASE Stop \/ Restarted
  BY <1>6 DEF Stop, Restarted, Reboot, Exit, NotRunning
<1>7. CASE ChangeLdap \/ ChangeHeader \/ RestartServer \/ StartServer
  BY <1>7 DEF ChangeLdap, ChangeHeader, RestartServer, StartServer
<1> QED
  BY <1>0, <1>1, <1>2, <1>3, <1>4, <1>5, <1>6, <1>7 DEF Next, Run

\* What a step does to dhcpd when no job is about to restart it.
LEMMA OthersLaunch ==
  ASSUME TypeOK, [Next]_vars, run.pc # "restart"
  PROVE  \/ UNCHANGED <<serving, missed>>
         \/ (RestartServer \/ StartServer \/ Restarted) /\ serving' = Launched(file)
<1>1. CASE UNCHANGED vars
  BY <1>1 DEF vars
<1>2. CASE Cron \/ Run
  BY <1>2 DEF Cron, Start, Run, Search, SearchFails, Compare, Restart, Unlock
<1>3. CASE Stop \/ ChangeLdap \/ ChangeHeader
  BY <1>3 DEF Stop, ChangeLdap, ChangeHeader, TypeOK
<1>4. CASE RestartServer \/ StartServer \/ Restarted
  BY <1>4 DEF RestartServer, StartServer, Restarted, Reboot, Launch
<1> QED
  BY <1>1, <1>2, <1>3, <1>4 DEF Next

\* Once dhcpd serves what LDAP contains, and dhcpd can use it, it goes on to
\* do so until LDAP or the header changes, wherever jobs fail or are stopped: the
\* job never restarts dhcpd, and whoever else does gives it the same configuration.
THEOREM ServedStays ==
  Spec => [][/\ Settled /\ serving = {file} /\ ~Unusable(UpToDate)
             /\ UNCHANGED <<ldap, header>>
             => Settled' /\ serving' = {file}']_vars
<1>1. ASSUME TypeOK, [Next]_vars, Settled, serving = {file},
             ~Unusable(UpToDate), UNCHANGED <<ldap, header>>
      PROVE  Settled' /\ serving' = {file}'
  <2>1. Settled' /\ UNCHANGED file
    BY <1>1, SettledStays
  <2>2. Launched(file) = {file}
    BY <1>1 DEF Settled, Launched
  <2> QED
    BY <1>1, <2>1, <2>2, OthersLaunch DEF Settled
<1>2. TypeOK /\ [Next]_vars
        => [/\ Settled /\ serving = {file} /\ ~Unusable(UpToDate)
            /\ UNCHANGED <<ldap, header>>
            => Settled' /\ serving' = {file}']_vars
  BY <1>1
<1> QED
  BY <1>2, TypeCorrect, PTL DEF Spec

\* The exception that ServesFile and DhcpFollowsLdap make for a missed restart is
\* no way of speaking: while LDAP and the header rest, no job notices that dhcpd
\* serves an old configuration, and only a start by someone else ends it.
THEOREM MissedIsNotNoticed ==
  Spec => [][Settled /\ missed /\ UNCHANGED <<ldap, header>>
               => \/ Settled' /\ missed' /\ UNCHANGED serving
                  \/ RestartServer \/ StartServer \/ Restarted]_vars
<1>1. TypeOK /\ [Next]_vars
        => [Settled /\ missed /\ UNCHANGED <<ldap, header>>
              => \/ Settled' /\ missed' /\ UNCHANGED serving
                 \/ RestartServer \/ StartServer \/ Restarted]_vars
  BY SettledStays, OthersLaunch DEF Settled
<1> QED
  BY <1>1, TypeCorrect, PTL DEF Spec
=============================================================================
