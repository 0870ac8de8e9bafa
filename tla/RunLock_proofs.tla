---------------------------- MODULE RunLock_proofs ----------------------------
(***************************************************************************)
(* Proofs about RunLock, for any number of invocations and faults.         *)
(***************************************************************************)
EXTENDS RunLock, TLAPS

\* Every step of the script, every fault and every reboot keeps the variables
\* in their types.
THEOREM TypeCorrect == Spec => []TypeOK
<1>1. Init => TypeOK
  <2>1. Init => abandoned \in BOOLEAN /\ quiet \in BOOLEAN
    BY Zenon DEF Init
  <2>2. QED
    BY <2>1, MaxFaultsAssumption DEF Init, TypeOK, Stages
<1>2. TypeOK /\ [Next]_vars => TypeOK'
  <2> SUFFICES ASSUME TypeOK, [Next]_vars PROVE TypeOK'
    OBVIOUS
  <2> USE MaxFaultsAssumption
      DEF TypeOK, Stages, Goto, RemoveFile, Fault
  <2>1. ASSUME NEW p \in Proc, Script(p) PROVE TypeOK'
    BY <2>1 DEF Script, Acquire, InstallTrap, Release, ExitEarly, ResetTrap,
       Finish, ExitTrap
  <2>2. ASSUME NEW p \in Proc,
               SignalTrapped(p) \/ SignalStillTrapped(p) \/ Die(p)
        PROVE  TypeOK'
    <3>1. abandoned' \in BOOLEAN /\ quiet' \in BOOLEAN
      BY <2>2, Zenon DEF SignalTrapped, SignalStillTrapped, Die
    <3>2. QED
      BY <2>2, <3>1 DEF SignalTrapped, SignalStillTrapped, Die
  <2>3. CASE Reboot
    BY <2>3 DEF Reboot
  <2>4. CASE UNCHANGED vars
    BY <2>4 DEF vars
  <2>5. QED
    BY <2>1, <2>2, <2>3, <2>4 DEF Next
<1>3. QED
  BY <1>1, <1>2, PTL DEF Spec

\* As long as no handler has run, nobody removes a file it does not own, so
\* whoever works in the body is the owner of the file.
LEMMA OwnershipInductive ==
  TypeOK /\ OwnerHoldsLock /\ [Next]_vars => OwnerHoldsLock'
<1> SUFFICES ASSUME TypeOK, OwnerHoldsLock, [Next]_vars
             PROVE  OwnerHoldsLock'
  OBVIOUS
<1> USE NoOneAssumption
    DEF TypeOK, OwnerHoldsLock, Stages, Working, Goto, RemoveFile
<1>1. ASSUME NEW p \in Proc, Acquire(p) PROVE OwnerHoldsLock'
  BY <1>1 DEF Acquire
<1>2. ASSUME NEW p \in Proc, InstallTrap(p) PROVE OwnerHoldsLock'
  BY <1>2 DEF InstallTrap
<1>3. ASSUME NEW p \in Proc, Release(p) \/ ExitEarly(p)
      PROVE  OwnerHoldsLock'
  BY <1>3 DEF Release, ExitEarly
<1>4. ASSUME NEW p \in Proc, ResetTrap(p) \/ Finish(p) \/ Die(p)
      PROVE  OwnerHoldsLock'
  BY <1>4 DEF ResetTrap, Finish, Die
<1>5. ASSUME NEW p \in Proc, ExitTrap(p) PROVE OwnerHoldsLock'
  BY <1>5 DEF ExitTrap
<1>6. ASSUME NEW p \in Proc, SignalTrapped(p) \/ SignalStillTrapped(p)
      PROVE  OwnerHoldsLock'
  BY <1>6 DEF SignalTrapped, SignalStillTrapped
<1>7. CASE Reboot
  BY <1>7 DEF Reboot
<1>8. CASE UNCHANGED vars
  BY <1>8 DEF vars
<1>9. QED
  BY <1>1, <1>2, <1>3, <1>4, <1>5, <1>6, <1>7, <1>8 DEF Next, Script

\* As long as no handler of a signal has run since the last boot, the lock does
\* what its comment says for any number of invocations, kills and reboots: at
\* most one is in the body.
THEOREM MutualExclusion == Spec => []MutexUnlessSignalled
<1>1. Init => OwnerHoldsLock
  BY DEF Init, OwnerHoldsLock, Working
<1>2. OwnerHoldsLock => MutexUnlessSignalled
  BY DEF OwnerHoldsLock, MutexUnlessSignalled, Mutex
<1>3. QED
  BY <1>1, <1>2, TypeCorrect, OwnershipInductive, PTL DEF Spec

\* Whatever signals arrive, only a kill, or a signal before the trap, leaves a
\* lock file behind: removing the file too often never leaves one.
THEOREM NoFileLeftBehind == Spec => []StaleOnlyIfAbandoned
<1>1. Init => StaleOnlyIfAbandoned
  BY NoOneAssumption DEF Init, StaleOnlyIfAbandoned
<1>2. TypeOK /\ StaleOnlyIfAbandoned /\ [Next]_vars => StaleOnlyIfAbandoned'
  <2> SUFFICES ASSUME TypeOK, StaleOnlyIfAbandoned, [Next]_vars,
                      lock' \in Proc, pc'[lock'] \notin Working
               PROVE  abandoned'
    BY DEF StaleOnlyIfAbandoned
  <2> USE NoOneAssumption
      DEF TypeOK, StaleOnlyIfAbandoned, Working, Goto, RemoveFile
  <2>1. ASSUME NEW p \in Proc, Acquire(p) \/ InstallTrap(p) PROVE abandoned'
    BY <2>1 DEF Acquire, InstallTrap
  <2>2. ASSUME NEW p \in Proc,
               \/ Release(p) \/ ExitEarly(p) \/ ExitTrap(p)
               \/ SignalTrapped(p) \/ SignalStillTrapped(p)
        PROVE  abandoned'
    BY <2>2 DEF Release, ExitEarly, ExitTrap, SignalTrapped, SignalStillTrapped
  <2>3. ASSUME NEW p \in Proc, ResetTrap(p) \/ Finish(p) PROVE abandoned'
    BY <2>3 DEF ResetTrap, Finish
  <2>4. ASSUME NEW p \in Proc, Die(p) PROVE abandoned'
    BY <2>4 DEF Die
  <2>5. CASE Reboot
    BY <2>5 DEF Reboot
  <2>6. CASE UNCHANGED vars
    BY <2>6 DEF vars
  <2>7. QED
    BY <2>1, <2>2, <2>3, <2>4, <2>5, <2>6 DEF Next, Script
<1>3. QED
  BY <1>1, <1>2, TypeCorrect, PTL DEF Spec

-----------------------------------------------------------------------------
(* A file that is left behind *)

\* A file that no invocation at work owns.
Stale == lock \in Proc /\ pc[lock] \notin Working

\* The exception of LockComesFree is not wider than its name says: `abandoned`
\* holds of exactly the lock files that no running invocation will remove as
\* its own.
THEOREM AbandonedIsStale == Spec => [](abandoned <=> Stale)
<1>1. Init => (abandoned => Stale)
  BY DEF Init
<1>2. TypeOK /\ (abandoned => Stale) /\ [Next]_vars => (abandoned => Stale)'
  <2> SUFFICES ASSUME TypeOK, abandoned => Stale, [Next]_vars, abandoned'
               PROVE  Stale'
    OBVIOUS
  <2> USE NoOneAssumption
      DEF TypeOK, Stale, Working, Stages, Goto, RemoveFile
  <2>1. ASSUME NEW p \in Proc, Acquire(p) \/ InstallTrap(p) PROVE Stale'
    BY <2>1 DEF Acquire, InstallTrap
  <2>2. ASSUME NEW p \in Proc,
               \/ Release(p) \/ ExitEarly(p) \/ ExitTrap(p)
               \/ SignalTrapped(p) \/ SignalStillTrapped(p)
        PROVE  Stale'
    BY <2>2 DEF Release, ExitEarly, ExitTrap, SignalTrapped, SignalStillTrapped
  <2>3. ASSUME NEW p \in Proc, ResetTrap(p) \/ Finish(p) PROVE Stale'
    BY <2>3 DEF ResetTrap, Finish
  <2>4. ASSUME NEW p \in Proc, Die(p) PROVE Stale'
    BY <2>4 DEF Die
  <2>5. CASE Reboot
    BY <2>5 DEF Reboot
  <2>6. CASE UNCHANGED vars
    BY <2>6 DEF vars
  <2>7. QED
    BY <2>1, <2>2, <2>3, <2>4, <2>5, <2>6 DEF Next, Script
<1>3. StaleOnlyIfAbandoned => (Stale => abandoned)
  BY DEF StaleOnlyIfAbandoned, Stale
<1>4. QED
  BY <1>1, <1>2, <1>3, TypeCorrect, NoFileLeftBehind, PTL DEF Spec

\* What an abandoned lock file costs: it stays as it is and keeps everybody out,
\* however often cron starts the script, until the machine is rebooted or a
\* signal's handler in an invocation that does not own it removes it by mistake.
THEOREM StaleLockKeepsOut ==
  Spec => [][quiet /\ abandoned =>
               \/ Reboot \/ ~quiet'
               \/ /\ abandoned' /\ lock' = lock
                  /\ \A p \in Proc : pc'[p] \notin Working]_vars
<1> DEFINE KeepsOut == /\ abandoned' /\ lock' = lock
                       /\ \A p \in Proc : pc'[p] \notin Working
<1>1. TypeOK /\ OwnerHoldsLock /\ (abandoned <=> Stale) /\ [Next]_vars =>
        [quiet /\ abandoned => Reboot \/ ~quiet' \/ KeepsOut]_vars
  <2> SUFFICES ASSUME TypeOK, OwnerHoldsLock, Stale, abandoned, quiet, quiet',
                      Next, ~Reboot
               PROVE  KeepsOut
    OBVIOUS
  <2> USE NoOneAssumption
      DEF TypeOK, Stale, Working, Stages, Goto, OwnerHoldsLock
  <2>1. /\ lock # NoOne
        /\ \A p \in Proc : pc[p] \notin Working /\ pc[p] # "handler"
    OBVIOUS
  <2>2. PICK p \in Proc :
          Script(p) \/ Die(p) \/ SignalTrapped(p) \/ SignalStillTrapped(p)
    BY DEF Next
  <2>3. ~(SignalTrapped(p) \/ SignalStillTrapped(p))
    BY DEF SignalTrapped, SignalStillTrapped
  <2>4. ResetTrap(p) \/ Finish(p) \/ Die(p)
    BY <2>1, <2>2, <2>3
       DEF Script, Acquire, InstallTrap, Release, ExitEarly, ExitTrap
  <2>5. QED
    BY <2>1, <2>4 DEF ResetTrap, Finish, Die
<1>2. Init => OwnerHoldsLock
  BY DEF Init, OwnerHoldsLock, Working
<1>3. QED
  BY <1>1, <1>2, TypeCorrect, OwnershipInductive, AbandonedIsStale, PTL DEF Spec
=============================================================================
