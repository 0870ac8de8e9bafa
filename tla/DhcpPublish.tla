----------------------------- MODULE DhcpPublish -----------------------------
(***************************************************************************)
(* umbrella-ldap2dhcp: the five-minute job on the router that completes    *)
(* the header of dhcpd.conf, which bcfg2 generates, with the hosts that    *)
(* are registered in LDAP, and restarts dhcpd when the result differs.     *)
(*                                                                         *)
(* dhcpd reads its configuration only at its start and does not start with *)
(* one it cannot parse; systemd (Restart=on-failure) and bcfg2 (status on) *)
(* start it again.  The job can be stopped between any two commands.  Line *)
(* numbers are those of umbrella-ldap2dhcp; RunLock models its lock.       *)
(***************************************************************************)
EXTENDS Naturals

CONSTANTS
  Host,        \* the entries that LDAP may contain
  Malformed,   \* the entries that make a line dhcpd cannot parse
  Initial,     \* the entries at the start
  MaxEdits,    \* bound on changes of LDAP and the header, and on restarts
  MaxFaults    \* bound on failed searches and restarts and stopped jobs

ASSUME HostsAssumption == Malformed \subseteq Host /\ Initial \subseteq Host
ASSUME BoundsAssumption == MaxEdits \in Nat /\ MaxFaults \in Nat

VARIABLES
  ldap,      \* the entries of LDAP
  header,    \* the version of dhcpd.conf-head, 0 before bcfg2 has installed it
  file,      \* dhcpd.conf
  serving,   \* {the configuration that dhcpd runs with}, {} when it is down
  missed,    \* a job was stopped between its mv and its restart, and dhcpd has
             \* not been started since
  lock,      \* the lock file: "free" or "held"
  run,       \* the position of the running job and what it has read
  edits, faults

vars == <<ldap, header, file, serving, missed, lock, run, edits, faults>>

Headers == {0, 1, 2}
Conf == [header : Headers, hosts : SUBSET Host]

RunType == [pc : {"idle", "search", "compare", "restart", "unlock"},
            header : Headers, found : SUBSET Host]

NotRunning == [pc |-> "idle", header |-> 0, found |-> {}]

TypeOK ==
  /\ ldap \subseteq Host
  /\ header \in Headers
  /\ file \in Conf
  /\ serving = {} \/ \E c \in Conf : serving = {c}
  /\ missed \in BOOLEAN
  /\ lock \in {"free", "held"}
  /\ run \in RunType
  /\ run.pc # "idle" => lock = "held"
  /\ edits \in 0..MaxEdits
  /\ faults \in 0..MaxFaults

\* dhcpd does not start with a line that it cannot parse, nor without the subnets
\* that the header declares.
Unusable(conf) == conf.header = 0 \/ conf.hosts \intersect Malformed # {}

\* What dhcpd runs with after a start.
Launched(conf) == IF Unusable(conf) THEN {} ELSE {conf}

Init ==
  /\ ldap = Initial
  /\ header \in {0, 1}
  /\ file = [header |-> header, hosts |-> Initial]
  /\ serving = Launched(file)
  /\ missed = FALSE
  /\ lock = "free"
  /\ run = NotRunning
  /\ edits = 0
  /\ faults = 0

Fault == faults < MaxFaults /\ faults' = faults + 1
Edit == edits < MaxEdits /\ edits' = edits + 1 /\ UNCHANGED faults

-----------------------------------------------------------------------------
(* The others: LDAP, bcfg2, systemd *)

ChangeLdap ==
  /\ \E h \in Host : ldap' = IF h \in ldap THEN ldap \ {h} ELSE ldap \union {h}
  /\ Edit
  /\ UNCHANGED <<header, file, serving, missed, lock, run>>

\* bcfg2 installs the header, or replaces it.
ChangeHeader ==
  /\ header' \in {1, 2} \ {header}
  /\ Edit
  /\ UNCHANGED <<ldap, file, serving, missed, lock, run>>

Launch == serving' = Launched(file) /\ missed' = FALSE

\* bcfg2 restarts the services of a bundle that it has changed.
RestartServer ==
  /\ Launch
  /\ Edit
  /\ UNCHANGED <<ldap, header, file, lock, run>>

\* Mutant of StartServer: dhcpd is not started again after a failure.
StayDown == FALSE /\ UNCHANGED vars

\* systemd, or bcfg2 where status is "on", starts a server that is down.
StartServer ==
  /\ serving = {}
  /\ ~Unusable(file)
  /\ Launch
  /\ UNCHANGED <<ldap, header, file, lock, run, edits, faults>>

-----------------------------------------------------------------------------
(* One run of the job *)

Exit == run' = NotRunning /\ lock' = "free"

\* Lines 7-21: the header is copied here if it is there (line 18), and without it
\* the job goes on.
Start ==
  /\ run.pc = "idle"
  /\ lock = "free"
  /\ lock' = "held"
  /\ run' = [pc |-> "search", header |-> header, found |-> {}]
  /\ UNCHANGED <<file, serving, missed, faults>>

\* Lines 23-41.
Search ==
  /\ run.pc = "search"
  /\ run' = [run EXCEPT !.pc = "compare", !.found = ldap]
  /\ UNCHANGED <<file, serving, missed, lock, faults>>

\* Mutant of SearchFails: what came before the failure is used.
SearchFailsUnnoticed ==
  /\ run.pc = "search"
  /\ Fault
  /\ \E part \in SUBSET ldap :
       run' = [run EXCEPT !.pc = "compare", !.found = part]
  /\ UNCHANGED <<file, serving, missed, lock>>

\* Lines 42-45: "dhcp configuration unchanged".
SearchFails ==
  /\ run.pc = "search"
  /\ Fault
  /\ Exit
  /\ UNCHANGED <<file, serving, missed>>

Made == [header |-> run.header, hosts |-> run.found]

\* Mutant of Compare: the files are compared after the mv.
CompareAfterMv ==
  /\ run.pc = "compare"
  /\ file' = Made
  /\ run' = [run EXCEPT !.pc = "unlock"]
  /\ UNCHANGED <<serving, missed, lock, faults>>

\* Mutant of Compare: a new header alone is no difference.
CompareHostsOnly ==
  /\ run.pc = "compare"
  /\ IF file.hosts # run.found
     THEN file' = Made /\ run' = [run EXCEPT !.pc = "restart"]
     ELSE UNCHANGED file /\ run' = [run EXCEPT !.pc = "unlock"]
  /\ UNCHANGED <<serving, missed, lock, faults>>

\* Lines 47-49 and 51-54: a file that differs is moved in place.
Compare ==
  /\ run.pc = "compare"
  /\ file' = Made
  /\ run' = [run EXCEPT !.pc = IF file # Made THEN "restart" ELSE "unlock"]
  /\ UNCHANGED <<serving, missed, lock, faults>>

\* Line 50: whether dhcpd has started is not looked at.
Restart ==
  /\ run.pc = "restart"
  /\ \/ serving' = Launched(file) /\ UNCHANGED faults
     \/ serving' = {} /\ Fault
  /\ missed' = FALSE
  /\ run' = [run EXCEPT !.pc = "unlock"]
  /\ UNCHANGED <<file, lock>>

\* Lines 57-58.
Unlock ==
  /\ run.pc = "unlock"
  /\ Exit
  /\ UNCHANGED <<file, serving, missed, faults>>

-----------------------------------------------------------------------------
(* Signals, kills and reboots *)

\* A signal runs the trap, SIGKILL leaves the lock file where it is.
Stop ==
  /\ run.pc # "idle"
  /\ Fault
  /\ run' = NotRunning
  /\ lock' \in {"free", "held"}
  /\ missed' = (missed \/ run.pc = "restart")
  /\ UNCHANGED <<file, serving>>

\* A reboot empties /tmp and starts dhcpd.
Reboot ==
  /\ \/ run.pc # "idle" /\ Fault
     \/ run.pc = "idle" /\ lock = "held" /\ UNCHANGED faults
  /\ Exit
  /\ Launch
  /\ UNCHANGED file

-----------------------------------------------------------------------------
world == <<ldap, header, edits>>

Cron == Start /\ UNCHANGED world

Run ==
  /\ Search \/ SearchFails \/ Compare \/ Restart \/ Unlock
  /\ UNCHANGED world

Restarted == Reboot /\ UNCHANGED world

Next ==
  \/ Cron
  \/ Run
  \/ Stop /\ UNCHANGED world
  \/ Restarted
  \/ ChangeLdap
  \/ ChangeHeader
  \/ RestartServer
  \/ StartServer

Spec == Init /\ [][Next]_vars

\* cron starts the job every five minutes, a running job goes on, systemd and
\* bcfg2 start dhcpd, and a router with a stale lock file is rebooted some day.
FairSpec ==
  /\ Spec
  /\ WF_vars(Cron) /\ WF_vars(Run) /\ WF_vars(StartServer) /\ WF_vars(Restarted)

-----------------------------------------------------------------------------
(* Properties *)

UpToDate == [header |-> header, hosts |-> ldap]

\* dhcpd is down, or runs with dhcpd.conf as it is, unless a job was stopped
\* between the mv and the restart, or is about to restart it.
ServesFile ==
  serving \in {{}, {file}} \/ missed \/ run.pc = "restart"

\* dhcpd.conf is at all times what LDAP contained at one moment, however the
\* search ends and wherever the job is stopped, and the hosts in it follow LDAP:
\* the job implements LdapMirror.
Mirror == INSTANCE LdapMirror WITH
  source <- ldap,
  taken  <- IF run.pc = "compare" THEN {run.found} ELSE {},
  copy   <- file.hosts

MirrorsLdap == Mirror!Spec

\* Once LDAP and the header rest, dhcpd comes to serve them and goes on to do
\* so, unless an entry is malformed, the header was never installed or a restart
\* was missed: then the next job finds no difference, and dhcpd keeps what it has.
DhcpFollowsLdap ==
  <>[][FALSE]_<<ldap, header>>
    => <>[](\/ serving = {UpToDate}
            \/ Unusable(UpToDate)
            \/ missed)

\* A restart that fails does not leave the network without a DHCP server for
\* good, and neither does a job that ran before bcfg2 had installed the header:
\* dhcpd comes back unless it can do nothing with dhcpd.conf.
UpAgain == serving = {} ~> (serving # {} \/ Unusable(file))
=============================================================================
