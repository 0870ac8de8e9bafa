----------------------------- MODULE CertExpiry -----------------------------
(***************************************************************************)
(* umbrella-expire-ssl-certs: the nightly job that deletes certificates    *)
(* from the bcfg2 repository when they are about to expire, so that bcfg2  *)
(* makes new ones the next time a host updates its configuration, together *)
(* with the revocation of the certificates of removed hosts by mkkeys.sh.  *)
(*                                                                         *)
(* A certificate is the time it expires.  Time goes in parts of a day, and *)
(* the job runs at the beginning of a day, one file after the other.  Bare *)
(* line numbers are those of umbrella-expire-ssl-certs.                    *)
(***************************************************************************)
EXTENDS Integers

CONSTANTS
  Host,      \* hosts with a certificate
  Parts,     \* parts of a day
  DAYS,      \* line 3
  Validity,  \* days for which a certificate is made
  Patience,  \* a host updates its configuration at least once in that many
             \* parts of a day
  Missed,    \* nights in a row on which the job does not run
  Horizon    \* bound on the time

ASSUME TimesAssumption ==
  /\ Parts \in Nat \ {0} /\ DAYS \in Nat /\ Patience \in Nat
  /\ Validity \in Nat /\ DAYS < Validity
  /\ Missed \in Nat /\ Horizon \in Nat

Never == -1

VARIABLES
  now,
  part,     \* part of the day
  repo,     \* the certificate of a host in the repository, Never if none
  inUse,    \* the certificate a host has installed, Never before the first
  updated,  \* when the host updated its configuration last
  checked,  \* hosts whose certificate tonight's job has looked at
  ran,      \* when the job ran last
  removed,  \* when the host was removed, Never while it is there
  revoked   \* removed hosts whose certificate was revoked

vars == <<now, part, repo, inUse, updated, checked, ran, removed, revoked>>
clock == <<now, part, ran>>

Time == 0..Horizon
Expiry == {Never} \union 0..(Horizon + Validity * Parts)

TypeOK ==
  /\ now \in Time
  /\ part \in 0..(Parts - 1)
  /\ repo \in [Host -> Expiry]
  /\ inUse \in [Host -> Expiry]
  /\ updated \in [Host -> Time]
  /\ checked \in SUBSET Host
  /\ ran \in Time
  /\ removed \in [Host -> Time \union {Never}]
  /\ revoked \in SUBSET Host

Init ==
  /\ now = 0
  /\ part = 0
  /\ repo = [h \in Host |-> Never]
  /\ inUse = [h \in Host |-> Never]
  /\ updated = [h \in Host |-> 0]
  /\ checked = Host
  /\ ran = 0
  /\ removed = [h \in Host |-> Never]
  /\ revoked = {}

Present == {h \in Host : removed[h] = Never}

\* A host updates its configuration: bcfg2 makes the certificate if there is
\* none in the repository.
Update(h) ==
  /\ h \in Present
  /\ updated[h] < now \/ inUse[h] = Never
  /\ repo' = [repo EXCEPT ![h] = IF @ = Never THEN now + Validity * Parts ELSE @]
  /\ inUse' = [inUse EXCEPT ![h] = repo'[h]]
  /\ updated' = [updated EXCEPT ![h] = now]
  /\ UNCHANGED <<clock, checked, removed, revoked>>

\* Mutant of Expiring: a certificate is given up when it has expired.
HasExpired(certificate) == now > certificate

\* Lines 18-22.
Expiring(certificate) == now + DAYS * Parts > certificate

\* Line 5 calls the script again for each file, lines 17-36.
Check(h) ==
  /\ h \in Host \ checked
  /\ checked' = checked \union {h}
  /\ repo' = [repo EXCEPT ![h] = IF Expiring(@) THEN Never ELSE @]
  /\ UNCHANGED <<clock, inUse, updated, removed, revoked>>

\* Mutant of Remove: line 142 of mkkeys.sh comes before line 140.
RemoveUnrevoked(h) ==
  /\ h \in Present
  /\ inUse[h] # Never
  /\ removed' = [removed EXCEPT ![h] = now]
  /\ repo' = [repo EXCEPT ![h] = Never]
  /\ UNCHANGED <<clock, inUse, updated, checked, revoked>>

\* mkkeys.sh lines 137-143: the certificate that is in the repository is revoked.
Remove(h) ==
  /\ h \in Present
  /\ inUse[h] # Never
  /\ removed' = [removed EXCEPT ![h] = now]
  /\ revoked' = IF repo[h] # Never THEN revoked \union {h} ELSE revoked
  /\ repo' = [repo EXCEPT ![h] = Never]
  /\ UNCHANGED <<clock, inUse, updated, checked>>

InTime == \A h \in Present : now - updated[h] < Patience

\* At the beginning of a day cron starts the job, unless the server is down.
Tick ==
  /\ now < Horizon
  /\ InTime
  /\ checked = Host
  /\ now' = now + 1
  /\ part' = IF part + 1 = Parts THEN 0 ELSE part + 1
  /\ \/ part' # 0 /\ UNCHANGED <<checked, ran>>
     \/ part' = 0 /\ checked' = {} /\ ran' = now'
     \/ part' = 0 /\ now' - ran <= Missed * Parts /\ UNCHANGED <<checked, ran>>
  /\ UNCHANGED <<repo, inUse, updated, removed, revoked>>

\* Not a step of the system: time after the horizon is not explored.
BoundReached == now = Horizon /\ UNCHANGED vars

Next ==
  \/ Tick \/ BoundReached
  \/ \E h \in Host : Update(h) \/ Check(h) \/ Remove(h)

Spec == Init /\ [][Next]_vars

-----------------------------------------------------------------------------
(* Properties *)

Served == {h \in Present : inUse[h] # Never}

\* Lines 9-11: "Please update their configuration during the next $DAYS days to
\* have their certificates seamlessly regenerated": the certificate of a host that
\* updates its configuration in time (Patience) never runs out while in use.
RenewedSeamlessly == \A h \in Served : now <= inUse[h]

\* A removed host whose certificate was missing in the repository, and so was not
\* revoked, can use it for less than DAYS more days.
UnrevokedRunsOut ==
  \A h \in Host \ (Present \union revoked) :
    now <= inUse[h] => now - removed[h] < DAYS * Parts
=============================================================================
