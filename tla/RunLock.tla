------------------------------- MODULE RunLock -------------------------------
(***************************************************************************)
(* The "lock the script from running twice" protocol that mkkeys.sh,       *)
(* umbrella-ldap2zone and umbrella-ldap2dhcp share: a lock file created    *)
(* with noclobber, a trap that removes it, and an explicit removal at the  *)
(* end of the script.  Line numbers in comments are those of mkkeys.sh.    *)
(*                                                                         *)
(* A process is one slot for invocations of the script: cron starts one    *)
(* every five minutes and an administrator may start another by hand.      *)
(* Each access to the lock file and each change of the traps is one step,  *)
(* so signals may arrive between any two of them.                          *)
(***************************************************************************)
EXTENDS Naturals

CONSTANTS Proc,        \* slots for concurrent invocations of the script
          NoOne,       \* the value of the lock when the file does not exist
          MaxFaults    \* bound on the signals and kills of one behaviour

ASSUME NoOneAssumption == NoOne \notin Proc
ASSUME MaxFaultsAssumption == MaxFaults \in Nat

VARIABLES lock,        \* the invocation whose pid the lock file holds
          pc,          \* where each invocation is
          abandoned,   \* the file's owner died without removing it
          quiet,       \* no signal's handler has run since the last boot
          faults       \* signals and kills so far

vars == <<lock, pc, abandoned, quiet, faults>>

(***************************************************************************)
(* "idle"      not running                                                 *)
(* "locked"    the file is created, the trap is not installed yet          *)
(* "body"      the trap is installed, the script does its work             *)
(* "released"  the file is removed, the trap is still installed            *)
(* "untrapped" INT, TERM and EXIT are reset; HUP, QUIT and PIPE are not    *)
(* "handler"   a signal's handler has removed the file, `exit` comes next  *)
(*             and fires the EXIT trap, which removes the file again       *)
(***************************************************************************)
Stages == {"idle", "locked", "body", "released", "untrapped", "handler"}

Working == {"locked", "body"}

TypeOK ==
  /\ lock \in Proc \union {NoOne}
  /\ pc \in [Proc -> Stages]
  /\ abandoned \in BOOLEAN
  /\ quiet \in BOOLEAN
  /\ faults \in 0..MaxFaults

Init ==
  /\ lock = NoOne
  /\ pc = [p \in Proc |-> "idle"]
  /\ abandoned = FALSE
  /\ quiet = TRUE
  /\ faults = 0

Goto(p, stage) == pc' = [pc EXCEPT ![p] = stage]

\* `rm -f "$LOCKFILE"` removes the file whoever owns it.
RemoveFile == lock' = NoOne /\ abandoned' = FALSE

-----------------------------------------------------------------------------
(* The script's own steps *)

\* Mutant of Acquire: `echo $$ > lockfile` without noclobber.
AcquireClobber(p) ==
  /\ pc[p] = "idle"
  /\ lock' = p
  /\ Goto(p, "locked")
  /\ UNCHANGED <<abandoned, quiet, faults>>

\* `echo $$ > lockfile` under noclobber succeeds only if there is no file.
Acquire(p) ==
  /\ pc[p] = "idle"
  /\ lock = NoOne
  /\ lock' = p
  /\ Goto(p, "locked")
  /\ UNCHANGED <<abandoned, quiet, faults>>

InstallTrap(p) ==
  /\ pc[p] = "locked"
  /\ Goto(p, "body")
  /\ UNCHANGED <<lock, abandoned, quiet, faults>>

\* The explicit `rm -f` at the end of the body.
Release(p) ==
  /\ pc[p] = "body"
  /\ RemoveFile
  /\ Goto(p, "released")
  /\ UNCHANGED <<quiet, faults>>

\* Mutant of ExitEarly: the trap's list lacks EXIT.
ExitKeepingFile(p) ==
  /\ pc[p] = "body"
  /\ Goto(p, "idle")
  /\ UNCHANGED <<lock, abandoned, quiet, faults>>

\* An `exit` inside the body runs the EXIT trap, which removes the file.
ExitEarly(p) ==
  /\ pc[p] = "body"
  /\ RemoveFile
  /\ Goto(p, "idle")
  /\ UNCHANGED <<quiet, faults>>

ResetTrap(p) ==
  /\ pc[p] = "released"
  /\ Goto(p, "untrapped")
  /\ UNCHANGED <<lock, abandoned, quiet, faults>>

Finish(p) ==
  /\ pc[p] = "untrapped"
  /\ Goto(p, "idle")
  /\ UNCHANGED <<lock, abandoned, quiet, faults>>

\* After a signal's handler: `exit $?` fires the EXIT trap, a second removal.
ExitTrap(p) ==
  /\ pc[p] = "handler"
  /\ RemoveFile
  /\ Goto(p, "idle")
  /\ UNCHANGED <<quiet, faults>>

-----------------------------------------------------------------------------
(* Signals, kills and reboots *)

Fault == faults < MaxFaults /\ faults' = faults + 1

\* Mutant of SignalTrapped: the body's signal is missing from the trap's list.
SignalUntrapped(p) ==
  /\ Fault
  /\ pc[p] \in {"body", "released"}
  /\ Goto(p, "idle")
  /\ UNCHANGED <<lock, abandoned, quiet>>

\* A signal of the trap's list while the trap is installed: the handler runs.
SignalTrapped(p) ==
  /\ Fault
  /\ pc[p] \in {"body", "released"}
  /\ RemoveFile
  /\ quiet' = FALSE
  /\ Goto(p, "handler")

\* HUP, QUIT or PIPE after `trap - INT TERM EXIT`: the handler runs, and the
\* `exit` it ends with has no EXIT trap any more.
SignalStillTrapped(p) ==
  /\ Fault
  /\ pc[p] = "untrapped"
  /\ RemoveFile
  /\ quiet' = FALSE
  /\ Goto(p, "idle")

\* A signal between the creation of the file and the trap, or SIGKILL at any
\* time, ends the script without a handler.
Die(p) ==
  /\ Fault
  /\ pc[p] # "idle"
  /\ abandoned' = (abandoned \/ lock = p)
  /\ Goto(p, "idle")
  /\ UNCHANGED <<lock, quiet>>

\* /var/run and /tmp are empty after a boot.
Reboot ==
  /\ RemoveFile
  /\ pc' = [p \in Proc |-> "idle"]
  /\ quiet' = TRUE
  /\ UNCHANGED faults

-----------------------------------------------------------------------------
Script(p) ==
  \/ Acquire(p) \/ InstallTrap(p) \/ Release(p) \/ ExitEarly(p)
  \/ ResetTrap(p) \/ Finish(p) \/ ExitTrap(p)

Next ==
  \/ Reboot
  \/ \E p \in Proc : \/ Script(p) \/ Die(p)
                     \/ SignalTrapped(p) \/ SignalStillTrapped(p)

Spec == Init /\ [][Next]_vars

\* A running script goes on, and cron keeps starting the script.
FairSpec == Spec /\ \A p \in Proc : WF_vars(Script(p))

-----------------------------------------------------------------------------
(* Properties *)

\* Comment at line 47 of mkkeys.sh: the lock keeps the script from running
\* twice, so no two invocations are ever in the body together.
Mutex == \A p, q \in Proc : pc[p] \in Working /\ pc[q] \in Working => p = q

\* The same as far as the code goes: kills, exits and reboots never let a second
\* invocation in; it takes a signal whose handler runs.
MutexUnlessSignalled == quiet => Mutex

\* What makes this inductive: as long as no handler has run, whoever works owns
\* the file, and nobody is about to remove a file it does not own.
OwnerHoldsLock ==
  quiet => \A p \in Proc : /\ pc[p] \in Working => lock = p
                          /\ pc[p] # "handler"

\* A lock file that no running invocation owns is there only because its owner
\* was killed, or hit by a signal before its trap: a run that ends by itself,
\* by `exit`, or by a trapped signal never leaves the file behind.
StaleOnlyIfAbandoned ==
  lock \in Proc /\ pc[lock] \notin Working => abandoned

\* The five-minute cron job makes progress: unless a stale lock stays for ever,
\* the lock is free again and again.
LockComesFree == <>[]abandoned \/ []<>(lock = NoOne)
=============================================================================
