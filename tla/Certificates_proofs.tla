-------------------------- MODULE Certificates_proofs --------------------------
(***************************************************************************)
(* Proofs about certificates: their renewal and removal (CertExpiry), for  *)
(* any number of days, parts of a day and hosts, and the list of the       *)
(* revoked ones (Crl).                                                     *)
(*                                                                         *)
(* The products of the constants of CertExpiry get names so that the       *)
(* arithmetic of the steps is linear.                                      *)
(***************************************************************************)
EXTENDS CertExpiry, Crl, TLAPS

Warning == DAYS * Parts
Life == Validity * Parts
Outage == Missed * Parts

\* Hosts update their configuration so often that the nights the job may miss,
\* and the day that passes between two nights, are left of the warning.
Punctual == Patience + Outage + Parts <= Warning

\* A certificate outlives the warning by a day or more.
LEMMA Products ==
  /\ Warning \in Nat
  /\ Life \in Nat
  /\ Outage \in Nat
  /\ Warning <= Life
<1>1. Warning \in Nat /\ Life \in Nat /\ Outage \in Nat
  BY TimesAssumption DEF Warning, Life, Outage
<1>2. \A m, n \in Nat : m < n => m * Parts <= n * Parts
  BY TimesAssumption
<1>3. Warning <= Life
  BY <1>2, TimesAssumption DEF Warning, Life
<1>4. QED
  BY <1>1, <1>3

-----------------------------------------------------------------------------
(* Type correctness *)

LEMMA TypeInductive == TypeOK /\ [Next]_vars => TypeOK'
<1> SUFFICES ASSUME TypeOK, [Next]_vars PROVE TypeOK'
  OBVIOUS
<1> USE TimesAssumption, Products DEF TypeOK, Time
<1>1. \A n \in Time : n + Life \in Expiry
  BY DEF Expiry, Life
<1>2. ASSUME NEW h \in Host, Update(h) PROVE TypeOK'
  <2>1. repo' \in [Host -> Expiry]
    BY <1>1, <1>2 DEF Update, Life
  <2>2. inUse' \in [Host -> Expiry]
    BY <1>2, <2>1 DEF Update
  <2>3. QED
    BY <1>2, <2>1, <2>2 DEF Update, clock
<1>3. ASSUME NEW h \in Host, Check(h) PROVE TypeOK'
  BY <1>3 DEF Check, clock, Expiry, Never
<1>4. ASSUME NEW h \in Host, Remove(h) PROVE TypeOK'
  BY <1>4 DEF Remove, clock, Expiry, Never
<1>5. CASE Tick
  BY <1>5 DEF Tick
<1>6. CASE UNCHANGED vars
  BY <1>6 DEF vars
<1>7. QED
  BY <1>2, <1>3, <1>4, <1>5, <1>6 DEF Next, BoundReached

\* The times, certificates and sets of hosts have their types.
THEOREM TypeCorrect == Spec => []TypeOK
<1>1. Init => TypeOK
  BY TimesAssumption DEF Init, TypeOK, Time, Expiry, Never
<1>2. QED
  BY <1>1, TypeInductive, PTL DEF Spec

-----------------------------------------------------------------------------
(* The clock: the job never stays away for longer than Missed nights *)

ClockInv ==
  /\ ran <= now - part
  /\ now - part - ran <= Outage
  /\ checked # Host => now = ran
  /\ \A h \in Host : updated[h] <= now

LEMMA ClockInductive ==
  TypeOK /\ ClockInv /\ [Next]_vars => ClockInv'
<1> SUFFICES ASSUME TypeOK, ClockInv, [Next]_vars PROVE ClockInv'
  OBVIOUS
<1> USE TimesAssumption, Products DEF TypeOK, Time, ClockInv
<1>1. ASSUME NEW h \in Host, Update(h) \/ Check(h) \/ Remove(h)
      PROVE  ClockInv'
  BY <1>1 DEF Update, Check, Remove, clock
<1>2. CASE Tick
  <2>1. \A h \in Host : updated'[h] <= now'
    BY <1>2 DEF Tick
  <2>2. ran' <= now' - part' /\ now' - part' - ran' <= Outage
    <3>1. CASE part' # 0
      BY <1>2, <3>1 DEF Tick
    <3>2. CASE part' = 0
      BY <1>2, <3>2 DEF Tick, Outage
    <3>3. QED
      BY <3>1, <3>2
  <2>3. checked' # Host => now' = ran'
    BY <1>2 DEF Tick
  <2>4. QED
    BY <2>1, <2>2, <2>3
<1>3. CASE UNCHANGED vars
  BY <1>3 DEF vars
<1>4. QED
  BY <1>1, <1>2, <1>3 DEF Next, BoundReached

-----------------------------------------------------------------------------
(* Renewal *)

\* A certificate in the repository is the one in use and was good for the whole
\* warning when the job looked at it last; one that the job has deleted is good
\* for as long as the host may take to update its configuration.
HostInv(h) ==
  /\ now - updated[h] <= Patience
  /\ inUse[h] = Never => repo[h] = Never
  /\ repo[h] # Never =>
       /\ inUse[h] = repo[h]
       /\ h \in checked => repo[h] >= ran + Warning
       /\ h \notin checked => repo[h] >= ran + Patience
  /\ repo[h] = Never /\ inUse[h] # Never => inUse[h] >= updated[h] + Patience

RenewalInv == ClockInv /\ \A h \in Present : HostInv(h)

LEMMA RenewalInductive ==
  ASSUME Punctual
  PROVE  TypeOK /\ RenewalInv /\ [Next]_vars => RenewalInv'
<1> SUFFICES ASSUME TypeOK, RenewalInv, [Next]_vars PROVE RenewalInv'
  OBVIOUS
<1> USE TimesAssumption, Products DEF TypeOK, Time
<1>1. ClockInv /\ ClockInv'
  BY ClockInductive DEF RenewalInv
<1>2. ASSUME NEW h \in Present' PROVE HostInv(h)'
  <2>1. ASSUME NEW g \in Host, Update(g) PROVE HostInv(h)'
    <3>1. h \in Present /\ h \in Host /\ HostInv(h)
      BY <2>1 DEF Update, Present, RenewalInv
    <3>2. CASE h # g
      BY <2>1, <3>1, <3>2 DEF Update, HostInv, clock
    <3>3. CASE h = g
      <4>1. /\ updated'[h] = now /\ inUse'[h] = repo'[h]
            /\ now' = now /\ ran' = ran /\ checked' = checked
            /\ repo'[h] = IF repo[h] = Never THEN now + Life ELSE repo[h]
        BY <2>1, <3>1, <3>3 DEF Update, clock, Life
      <4>2. ran <= now /\ Patience <= Warning /\ Never = -1
        BY <1>1 DEF Punctual, ClockInv, Never
      <4>3. QED
        BY <3>1, <4>1, <4>2 DEF HostInv
    <3>4. QED
      BY <3>2, <3>3
  <2>2. ASSUME NEW g \in Host, Check(g) PROVE HostInv(h)'
    <3>1. h \in Present /\ h \in Host /\ HostInv(h)
      BY <2>2 DEF Check, Present, RenewalInv
    <3>2. CASE h # g
      BY <2>2, <3>1, <3>2 DEF Check, HostInv, clock
    <3>3. CASE h = g
      <4>1. /\ updated'[h] = updated[h] /\ inUse'[h] = inUse[h]
            /\ now' = now /\ ran' = ran /\ h \in checked' /\ h \notin checked
            /\ repo'[h] = IF now + Warning > repo[h] THEN Never ELSE repo[h]
        BY <2>2, <3>1, <3>3 DEF Check, clock, Warning, Expiring
      <4>2. now = ran /\ updated[h] <= now
        BY <1>1, <3>1, <4>1 DEF ClockInv
      <4>3. QED
        BY <3>1, <4>1, <4>2 DEF HostInv, Never, Expiry
    <3>4. QED
      BY <3>2, <3>3
  <2>3. ASSUME NEW g \in Host, Remove(g) PROVE HostInv(h)'
    <3>1. h \in Present /\ h \in Host /\ h # g
      BY <2>3 DEF Remove, Present, Never
    <3>2. HostInv(h)
      BY <3>1 DEF RenewalInv
    <3>3. QED
      BY <2>3, <3>1, <3>2 DEF Remove, HostInv, clock
  <2>4. CASE Tick
    <3>1. h \in Present /\ h \in Host /\ HostInv(h)
      BY <2>4 DEF Tick, Present, RenewalInv
    <3>2. /\ h \in checked /\ now' = now + 1 /\ now - updated[h] < Patience
          /\ UNCHANGED <<repo, inUse, updated>>
          /\ \/ UNCHANGED <<checked, ran>>
             \/ checked' = {} /\ ran' = now' /\ part = Parts - 1
      BY <2>4, <3>1 DEF Tick, InTime
    <3>3. CASE UNCHANGED <<checked, ran>>
      BY <3>1, <3>2, <3>3 DEF HostInv
    <3>4. CASE checked' = {} /\ ran' = now' /\ part = Parts - 1
      <4>1. ran' <= ran + Outage + Parts
        BY <1>1, <3>2, <3>4 DEF ClockInv
      <4>2. ran' + Patience <= ran + Warning
        BY <4>1, <3>2, <3>4 DEF Punctual
      <4>3. repo'[h] # Never => repo'[h] >= ran' + Patience
        BY <3>1, <3>2, <3>4, <4>2 DEF HostInv, Expiry, Never
      <4>4. QED
        BY <3>1, <3>2, <3>4, <4>3 DEF HostInv
    <3>5. QED
      BY <3>2, <3>3, <3>4
  <2>5. CASE UNCHANGED vars
    BY <2>5 DEF vars, RenewalInv, HostInv, Present
  <2>6. QED
    BY <2>1, <2>2, <2>3, <2>4, <2>5 DEF Next, BoundReached
<1>3. QED
  BY <1>1, <1>2 DEF RenewalInv

\* The promise of the message (lines 9-11), with a day and the nights the job may
\* miss taken off it: certificates in use never run out.
THEOREM Renewal ==
  ASSUME Punctual
  PROVE  Spec => []RenewedSeamlessly
<1> USE TimesAssumption, Products
<1>1. Init => RenewalInv
  BY DEF Init, RenewalInv, ClockInv, HostInv, Present
<1>2. TypeOK /\ RenewalInv => RenewedSeamlessly
  <2> SUFFICES ASSUME TypeOK, RenewalInv, NEW h \in Served
               PROVE  now <= inUse[h]
    BY DEF RenewedSeamlessly
  <2>1. h \in Host /\ HostInv(h) /\ inUse[h] # Never
    BY DEF Served, Present, RenewalInv
  <2>2. /\ now \in Int /\ ran \in Int /\ part \in 0..(Parts - 1)
        /\ updated[h] \in Int /\ inUse[h] \in Int
    BY <2>1 DEF TypeOK, Time, Expiry, Never
  <2>3. CASE repo[h] = Never
    BY <2>1, <2>2, <2>3 DEF HostInv
  <2>4. CASE repo[h] # Never
    <3>1. now <= ran + Warning /\ (h \notin checked => now = ran)
      BY <2>1, <2>2 DEF RenewalInv, ClockInv, Punctual
    <3>2. QED
      BY <2>1, <2>2, <2>4, <3>1 DEF HostInv
  <2>5. QED
    BY <2>3, <2>4
<1>3. QED
  BY <1>1, <1>2, TypeCorrect, RenewalInductive, PTL DEF Spec

-----------------------------------------------------------------------------
(* Removed hosts *)

\* A certificate that is in use and not in the repository was about to expire
\* when it was deleted there, and so it was when its host was removed.
RemovalInv ==
  \A h \in Host :
    /\ h \in Present => \/ repo[h] = inUse[h]
                        \/ repo[h] = Never /\ inUse[h] < now + Warning
    /\ h \notin Present \union revoked => inUse[h] < removed[h] + Warning

LEMMA RemovalInductive == TypeOK /\ RemovalInv /\ [Next]_vars => RemovalInv'
<1> SUFFICES ASSUME TypeOK, RemovalInv, [Next]_vars, NEW h \in Host
             PROVE  /\ h \in Present' => \/ repo'[h] = inUse'[h]
                                         \/ /\ repo'[h] = Never
                                            /\ inUse'[h] < now' + Warning
                    /\ h \notin (Present \union revoked)'
                         => inUse'[h] < removed'[h] + Warning
  BY DEF RemovalInv
<1> USE Products DEF TypeOK, Time
<1>1. /\ h \in Present => \/ repo[h] = inUse[h]
                          \/ repo[h] = Never /\ inUse[h] < now + Warning
      /\ h \notin Present \union revoked => inUse[h] < removed[h] + Warning
  BY DEF RemovalInv
<1>2. ASSUME NEW g \in Host, Update(g)
      PROVE  /\ \/ inUse'[h] = inUse[h] /\ repo'[h] = repo[h]
                \/ repo'[h] = inUse'[h]
             /\ h \in Present \/ inUse'[h] = inUse[h]
             /\ UNCHANGED <<now, removed, revoked>>
  BY <1>2 DEF Update, clock
<1>3. ASSUME NEW g \in Host, Check(g)
      PROVE  /\ \/ repo'[h] = repo[h]
                \/ repo'[h] = Never /\ repo[h] < now + Warning
             /\ UNCHANGED <<now, inUse, removed, revoked>>
  BY <1>3 DEF Check, clock, Expiring, Warning, Expiry, Never
<1>4. CASE \E g \in Host : Update(g)
  BY <1>1, <1>2, <1>4 DEF Present
<1>5. CASE \E g \in Host : Check(g)
  BY <1>1, <1>3, <1>5 DEF Present, Expiry, Never
<1>6. ASSUME NEW g \in Host, Remove(g)
      PROVE  /\ h \in Present' => \/ repo'[h] = inUse'[h]
                                  \/ /\ repo'[h] = Never
                                     /\ inUse'[h] < now' + Warning
             /\ h \notin (Present \union revoked)'
                  => inUse'[h] < removed'[h] + Warning
  BY <1>1, <1>6 DEF Remove, clock, Present, Expiry, Never
<1>7. CASE Tick
  BY <1>1, <1>7 DEF Tick, Present, Expiry, Never
<1>8. CASE UNCHANGED vars
  BY <1>1, <1>8 DEF vars, Present
<1>9. QED
  BY <1>4, <1>5, <1>6, <1>7, <1>8 DEF Next, BoundReached

\* Removing a host right after the job has deleted its certificate leaves that
\* certificate unrevoked, yet for less than DAYS days, whatever nights are missed.
THEOREM UnrevokedIsShort == Spec => []UnrevokedRunsOut
<1>1. Init => RemovalInv
  BY DEF Init, RemovalInv, Present
<1>2. TypeOK /\ RemovalInv => UnrevokedRunsOut
  BY Products DEF TypeOK, Time, Expiry, Never, RemovalInv, UnrevokedRunsOut,
                  Present, Warning
<1>3. QED
  BY <1>1, <1>2, TypeCorrect, RemovalInductive, PTL DEF Spec

-----------------------------------------------------------------------------
(* The list of revoked certificates that umbrella-revoke-key publishes, for *)
(* any number of runs of the script, certificates, kills and failures.      *)

LEMMA CrlTypeInductive ==
  CrlTypeOK /\ [CrlNext]_crlVars => CrlTypeOK'
<1> SUFFICES ASSUME CrlTypeOK, [CrlNext]_crlVars PROVE CrlTypeOK'
  OBVIOUS
<1> USE ProcAssumption, CertAssumption, BoundsAssumption
    DEF CrlTypeOK, RunType, NotRunning, Goto, Exit
<1>1. ASSUME NEW p \in Proc, NEW c \in Cert \union {NoCert}, Start(p, c)
      PROVE  CrlTypeOK'
  <2>1. Overlap(p) => disturbed' \in SUBSET Proc
    BY DEF Overlap, Running
  <2>2. /\ run' \in [Proc -> RunType]
        /\ \A q \in Proc : run'[q].pc = "revoke" => run'[q].cert \in Cert
    <3>1. run' = [run EXCEPT ![p].pc = IF c = NoCert THEN "gencrl" ELSE "revoke",
                             ![p].cert = c]
      BY <1>1 DEF Start
    <3>2. /\ run'[p].pc \in {"gencrl", "revoke"} /\ run'[p].cert = c
          /\ run'[p].pc = "revoke" => c # NoCert
      BY <3>1
    <3>3. run'[p] = [pc |-> run'[p].pc, cert |-> c, list |-> run[p].list]
      BY <3>1
    <3>4. run'[p] \in RunType
      BY <3>2, <3>3
    <3>5. run' = [run EXCEPT ![p] = run'[p]]
      BY <3>1
    <3>6. run' \in [Proc -> RunType] /\ \A q \in Proc \ {p} : run'[q] = run[q]
      BY <3>4, <3>5
    <3> QED
      BY <3>2, <3>6
  <2>3. QED
    BY <1>1, <2>1, <2>2 DEF Start, files
<1>2. ASSUME NEW p \in Proc, Revoke(p) PROVE CrlTypeOK'
  BY <1>2 DEF Revoke, Failure, files
<1>3. ASSUME NEW p \in Proc, GenCrl(p) PROVE CrlTypeOK'
  BY <1>3 DEF GenCrl, Failure, files
<1>4. ASSUME NEW p \in Proc, WriteCrl(p) PROVE CrlTypeOK'
  BY <1>4 DEF WriteCrl
<1>5. ASSUME NEW p \in Proc, Convert(p) PROVE CrlTypeOK'
  BY <1>5 DEF Convert, Failure
<1>6. ASSUME NEW p \in Proc, MvPem(p) PROVE CrlTypeOK'
  <2>1. tmpPem' \in (SUBSET Cert) \union {NoFile} /\ crlPem' \in SUBSET Cert
    BY <1>6 DEF MvPem
  <2>2. Exit(p) \/ Goto(p, "mv_der")
    BY <1>6 DEF MvPem
  <2>3. /\ run' \in [Proc -> RunType]
        /\ \A q \in Proc : run'[q].pc = "revoke" => run'[q].cert \in Cert
    BY <2>2
  <2>4. QED
    BY <1>6, <2>1, <2>3 DEF MvPem
<1>7. ASSUME NEW p \in Proc, MvDer(p) PROVE CrlTypeOK'
  <2>1. tmpDer' \in (SUBSET Cert) \union {NoFile} /\ crlDer' \in SUBSET Cert
    BY <1>7 DEF MvDer
  <2>2. /\ run' \in [Proc -> RunType]
        /\ \A q \in Proc : run'[q].pc = "revoke" => run'[q].cert \in Cert
    BY <1>7 DEF MvDer
  <2>3. QED
    BY <1>7, <2>1, <2>2 DEF MvDer
<1>8. ASSUME NEW p \in Proc, Kill(p) PROVE CrlTypeOK'
  BY <1>8 DEF Kill, files
<1>9. CASE UNCHANGED crlVars
  BY <1>9 DEF crlVars
<1>10. QED
  BY <1>1, <1>2, <1>3, <1>4, <1>5, <1>6, <1>7, <1>8, <1>9 DEF CrlNext, Step

\* The index, the files and the runs have their types: a file on its way is a list
\* or missing, and only a run with a certificate gets to the revocation.
THEOREM CrlTypeCorrect ==
  CrlSpec => []CrlTypeOK
<1>1. CrlInit => CrlTypeOK
  <2> SUFFICES ASSUME CrlInit PROVE CrlTypeOK
    OBVIOUS
  <2>1. /\ run \in [Proc -> RunType]
        /\ \A p \in Proc : run[p].pc = "idle"
    BY DEF CrlInit, RunType, NotRunning
  <2>2. tmpPem = NoFile /\ tmpDer = NoFile
    BY DEF CrlInit
  <2>3. QED
    <3>1. kills \in 0..MaxKills /\ failures \in 0..MaxFailures
      BY BoundsAssumption DEF CrlInit
    <3>2. QED
      BY <2>1, <2>2, <3>1 DEF CrlInit, CrlTypeOK
<1>2. QED
  BY <1>1, CrlTypeInductive, PTL DEF CrlSpec

\* A run that nobody has disturbed is the only one.
Solo == \A p \in Running \ disturbed : Running = {p}

\* The certificate that a run was given.
Given(p) == {run[p].cert} \ {NoCert}

\* How far an undisturbed run has got with its certificate and the list.
Carried(p) ==
  /\ run[p].pc # "revoke" => Given(p) \subseteq marked
  /\ run[p].pc = "write" => run[p].list = marked
  /\ run[p].pc = "convert" => tmpPem = marked
  /\ run[p].pc = "mv_pem" => tmpPem = marked /\ tmpDer = marked
  /\ run[p].pc = "mv_der" => tmpPem = NoFile /\ tmpDer = marked /\ crlPem = marked

PublishInv == Solo /\ \A p \in Running \ disturbed : Carried(p)

LEMMA PublishInductive ==
  CrlTypeOK /\ PublishInv /\ [CrlNext]_crlVars => PublishInv'
<1> SUFFICES ASSUME CrlTypeOK, PublishInv, [CrlNext]_crlVars PROVE PublishInv'
  OBVIOUS
<1> USE ProcAssumption, CertAssumption, BoundsAssumption
<1>1. ASSUME NEW p \in Proc, NEW c \in Cert \union {NoCert}, Start(p, c)
      PROVE  PublishInv'
  <2>1. /\ p \notin Running /\ Running' = Running \union {p}
        /\ run'[p].pc = (IF c = NoCert THEN "gencrl" ELSE "revoke")
        /\ run'[p].cert = c
    BY <1>1 DEF Start, CrlTypeOK, RunType, Running
  <2>2. CASE Running = {}
    BY <1>1, <2>1, <2>2 DEF PublishInv, Solo, Carried, Given
  <2>3. CASE Running # {}
    BY <1>1, <2>1, <2>3 DEF Start, Overlap, PublishInv, Solo
  <2> QED
    BY <2>2, <2>3
<1>2. ASSUME NEW p \in Proc, run[p].pc # "idle", disturbed \subseteq disturbed',
             run'[p].pc = "idle" \/ p \in disturbed',
             \A q \in Proc \ {p} : run'[q] = run[q]
      PROVE  PublishInv'
  <2>1. p \in Running /\ Running' \subseteq Running
    BY <1>2 DEF Running
  <2>2. Running' \ disturbed' = {}
    BY <1>2, <2>1 DEF PublishInv, Solo, Running
  <2> QED
    BY <2>2 DEF PublishInv, Solo
<1>3. ASSUME NEW p \in Proc, run[p].pc # "idle", run'[p].pc # "idle",
             disturbed' = disturbed, \A q \in Proc \ {p} : run'[q] = run[q],
             p \notin disturbed => Carried(p)'
      PROVE  PublishInv'
  <2>1. p \in Running /\ Running' = Running
    BY <1>3 DEF Running
  <2> QED
    BY <1>3, <2>1 DEF PublishInv, Solo
<1>4. ASSUME NEW p \in Proc, run[p].pc # "idle", p \notin disturbed PROVE Carried(p)
  BY <1>4 DEF PublishInv, Running
<1>5. ASSUME NEW p \in Proc, Exit(p), run[p].pc # "idle", disturbed' = disturbed
      PROVE  PublishInv'
  <2>1. run'[p].pc = "idle" /\ \A q \in Proc \ {p} : run'[q] = run[q]
    BY <1>5 DEF Exit, NotRunning, CrlTypeOK
  <2> QED
    BY <1>2, <1>5, <2>1
<1>6. ASSUME NEW p \in Proc, NEW stage, Goto(p, stage)
      PROVE  /\ run'[p] = [run[p] EXCEPT !.pc = stage]
             /\ run'[p].pc = stage /\ run'[p].cert = run[p].cert
             /\ run'[p].list = run[p].list
             /\ \A q \in Proc \ {p} : run'[q] = run[q]
  BY <1>6 DEF Goto, CrlTypeOK, RunType
<1>7. ASSUME NEW p \in Proc, Revoke(p) PROVE PublishInv'
  <2>1. CASE Exit(p)
    BY <1>5, <1>7, <2>1 DEF Revoke
  <2>2. CASE marked' = marked \union {run[p].cert} /\ Goto(p, "gencrl")
    <3>1. /\ run[p].pc = "revoke" /\ disturbed' = disturbed /\ run'[p].pc = "gencrl"
          /\ run'[p].cert = run[p].cert /\ \A q \in Proc \ {p} : run'[q] = run[q]
      BY <1>6, <1>7, <2>2 DEF Revoke
    <3>2. Carried(p)'
      BY <2>2, <3>1 DEF Carried, Given
    <3> QED
      BY <1>3, <3>1, <3>2
  <2> QED
    BY <1>7, <2>1, <2>2 DEF Revoke
<1>8. ASSUME NEW p \in Proc, GenCrl(p) PROVE PublishInv'
  <2>1. CASE Goto(p, "convert") /\ disturbed' = disturbed \union {p}
    BY <1>2, <1>6, <1>8, <2>1 DEF GenCrl
  <2>2. CASE /\ run' = [run EXCEPT ![p].pc = "write", ![p].list = marked]
             /\ disturbed' = disturbed
    <3>1. /\ run[p].pc = "gencrl" /\ run'[p].pc = "write" /\ run'[p].list = marked
          /\ marked' = marked /\ run'[p].cert = run[p].cert
          /\ \A q \in Proc \ {p} : run'[q] = run[q]
      BY <1>8, <2>2 DEF GenCrl, CrlTypeOK, RunType
    <3>2. p \notin disturbed => Carried(p)'
      BY <1>4, <3>1 DEF Carried, Given
    <3> QED
      BY <1>3, <2>2, <3>1, <3>2
  <2> QED
    BY <1>8, <2>1, <2>2 DEF GenCrl
<1>9. ASSUME NEW p \in Proc, WriteCrl(p) PROVE PublishInv'
  <2>1. /\ run[p].pc = "write" /\ run'[p].pc = "convert" /\ disturbed' = disturbed
        /\ marked' = marked /\ run'[p].cert = run[p].cert
        /\ \A q \in Proc \ {p} : run'[q] = run[q]
        /\ tmpPem' = run[p].list /\ run[p].list \subseteq Cert
    BY <1>6, <1>9 DEF WriteCrl, CrlTypeOK, RunType
  <2>2. p \notin disturbed => Carried(p)'
    BY <1>4, <2>1 DEF Carried, Given
  <2> QED
    BY <1>3, <2>1, <2>2
<1>10. ASSUME NEW p \in Proc, Convert(p) PROVE PublishInv'
  <2>1. CASE Exit(p)
    BY <1>5, <1>10, <2>1 DEF Convert
  <2>2. CASE tmpDer' = tmpPem /\ Goto(p, "mv_pem")
    <3>1. /\ run[p].pc = "convert" /\ run'[p].pc = "mv_pem" /\ disturbed' = disturbed
          /\ marked' = marked /\ run'[p].cert = run[p].cert
          /\ \A q \in Proc \ {p} : run'[q] = run[q]
          /\ tmpPem' = tmpPem
      BY <1>6, <1>10, <2>2 DEF Convert
    <3>2. p \notin disturbed => Carried(p)'
      BY <1>4, <2>2, <3>1 DEF Carried, Given
    <3> QED
      BY <1>3, <3>1, <3>2
  <2> QED
    BY <1>10, <2>1, <2>2 DEF Convert
<1>11. ASSUME NEW p \in Proc, MvPem(p) PROVE PublishInv'
  <2>1. CASE tmpPem = NoFile
    BY <1>5, <1>11, <2>1 DEF MvPem
  <2>2. CASE tmpPem # NoFile
    <3>1. /\ run[p].pc = "mv_pem" /\ run'[p].pc = "mv_der" /\ disturbed' = disturbed
          /\ marked' = marked /\ run'[p].cert = run[p].cert
          /\ \A q \in Proc \ {p} : run'[q] = run[q]
          /\ crlPem' = tmpPem /\ tmpPem' = NoFile /\ tmpDer' = tmpDer
      BY <1>6, <1>11, <2>2 DEF MvPem
    <3>2. p \notin disturbed => Carried(p)'
      BY <1>4, <3>1 DEF Carried, Given
    <3> QED
      BY <1>3, <3>1, <3>2
  <2> QED
    BY <2>1, <2>2
<1>12. ASSUME NEW p \in Proc, MvDer(p) \/ Kill(p) PROVE PublishInv'
  BY <1>5, <1>12 DEF MvDer, Kill
<1>13. CASE UNCHANGED crlVars
  BY <1>13 DEF crlVars, PublishInv, Solo, Running, Carried, Given
<1>14. QED
  BY <1>1, <1>7, <1>8, <1>9, <1>10, <1>11, <1>12, <1>13 DEF CrlNext, Step

\* A run that comes to its end undisturbed has published all that is revoked in both
\* formats, its certificate included, whatever earlier runs have left behind.
THEOREM CrlPublished == CrlSpec => SuccessMeansPublished
<1>1. CrlInit => PublishInv
  BY DEF CrlInit, NotRunning, PublishInv, Solo, Running
<1>2. ASSUME CrlTypeOK, PublishInv, NEW p \in Proc \ disturbed, MvDer(p)
      PROVE  /\ crlPem' = marked /\ crlDer' = marked
             /\ run[p].cert # NoCert => run[p].cert \in marked
  <2>1. /\ run[p].pc = "mv_der" /\ tmpDer = marked /\ crlPem = marked
        /\ Given(p) \subseteq marked
    BY <1>2 DEF MvDer, PublishInv, Running, Carried
  <2>2. tmpDer # NoFile
    BY <1>2, <2>1, CertAssumption DEF CrlTypeOK, NoFile
  <2> QED
    BY <1>2, <2>1, <2>2 DEF MvDer, Given
<1>3. CrlTypeOK /\ PublishInv => \A p \in Proc \ disturbed : MvDer(p) =>
        /\ crlPem' = marked /\ crlDer' = marked
        /\ run[p].cert # NoCert => run[p].cert \in marked
  BY <1>2
<1>4. QED
  BY <1>1, <1>3, CrlTypeCorrect, PublishInductive, PTL DEF CrlSpec, SuccessMeansPublished

-----------------------------------------------------------------------------
(* Published certificates *)

\* No list, wherever it is, has a certificate that is not revoked.
ListsInv ==
  /\ crlPem \subseteq marked /\ crlDer \subseteq marked
  /\ \A f \in {tmpPem, tmpDer} : f = NoFile \/ f \subseteq marked
  /\ \A p \in Proc : run[p].pc = "write" => run[p].list \subseteq marked

\* Every list has it: the published ones, those on their way and those that a run
\* has read from the index and not written yet.
OnEveryList(c) ==
  /\ c \in marked /\ c \in crlPem /\ c \in crlDer
  /\ \A f \in {tmpPem, tmpDer} : f = NoFile \/ c \in f
  /\ \A p \in Proc : run[p].pc = "write" => c \in run[p].list

\* A list that a run has read comes from the index.
LEMMA ListIsRead ==
  ASSUME CrlTypeOK, CrlNext, NEW p \in Proc, run'[p].pc = "write"
  PROVE  \/ run[p].pc = "write" /\ run'[p].list = run[p].list
         \/ run'[p].list = marked
<1> USE DEF CrlTypeOK, RunType, NotRunning, Goto, Exit
<1>1. ASSUME NEW q \in Proc, NEW c, Start(q, c)
      PROVE  run'[p].pc = "write" => run'[p] = run[p]
  BY <1>1 DEF Start
<1>2. ASSUME NEW q \in Proc, Revoke(q) \/ WriteCrl(q) \/ Convert(q)
      PROVE  run'[p].pc = "write" => run'[p] = run[p]
  BY <1>2 DEF Revoke, WriteCrl, Convert
<1>3. ASSUME NEW q \in Proc, MvPem(q) \/ MvDer(q) \/ Kill(q)
      PROVE  run'[p].pc = "write" => run'[p] = run[p]
  BY <1>3 DEF MvPem, MvDer, Kill
<1>4. ASSUME NEW q \in Proc, GenCrl(q)
      PROVE  run'[p].pc = "write" => run'[p] = run[p] \/ run'[p].list = marked
  BY <1>4 DEF GenCrl
<1> QED
  BY <1>1, <1>2, <1>3, <1>4 DEF CrlNext, Step

\* A file that changes becomes one of the others, a list that a run has read, or
\* disappears; what is published never does.
LEMMA FilesAreLists ==
  ASSUME CrlTypeOK, CrlNext
  PROVE  LET lists == {run[p].list : p \in {q \in Proc : run[q].pc = "write"}}
         IN  /\ marked \subseteq marked'
             /\ tmpPem' \in {tmpPem, NoFile} \union lists
             /\ tmpDer' \in {tmpDer, tmpPem, NoFile}
             /\ crlPem' \in {crlPem} \union ({tmpPem} \ {NoFile})
             /\ crlDer' \in {crlDer} \union ({tmpDer} \ {NoFile})
<1>1. ASSUME NEW p \in Proc, NEW c, Start(p, c) PROVE UNCHANGED <<marked, files>>
  BY <1>1 DEF Start
<1>2. ASSUME NEW p \in Proc, Revoke(p) PROVE marked \subseteq marked' /\ UNCHANGED files
  BY <1>2 DEF Revoke
<1>3. ASSUME NEW p \in Proc, GenCrl(p) \/ Kill(p) PROVE UNCHANGED <<marked, files>>
  BY <1>3 DEF GenCrl, Kill
<1>4. ASSUME NEW p \in Proc, WriteCrl(p)
      PROVE  /\ run[p].pc = "write" /\ tmpPem' = run[p].list
             /\ UNCHANGED <<marked, tmpDer, crlPem, crlDer>>
  BY <1>4 DEF WriteCrl
<1>5. ASSUME NEW p \in Proc, Convert(p)
      PROVE  tmpDer' \in {tmpDer, tmpPem} /\ UNCHANGED <<marked, tmpPem, crlPem, crlDer>>
  BY <1>5 DEF Convert
<1>6. ASSUME NEW p \in Proc, MvPem(p)
      PROVE  /\ UNCHANGED <<marked, tmpDer, crlDer>>
             /\ \/ UNCHANGED <<tmpPem, crlPem>>
                \/ tmpPem # NoFile /\ crlPem' = tmpPem /\ tmpPem' = NoFile
  BY <1>6 DEF MvPem
<1>7. ASSUME NEW p \in Proc, MvDer(p)
      PROVE  /\ UNCHANGED <<marked, tmpPem, crlPem>>
             /\ \/ UNCHANGED <<tmpDer, crlDer>>
                \/ tmpDer # NoFile /\ crlDer' = tmpDer /\ tmpDer' = NoFile
  BY <1>7 DEF MvDer
<1> QED
  BY <1>1, <1>2, <1>3, <1>4, <1>5, <1>6, <1>7 DEF CrlNext, Step, files

LEMMA ListsInductive == CrlTypeOK /\ ListsInv /\ [CrlNext]_crlVars => ListsInv'
<1> SUFFICES ASSUME CrlTypeOK, ListsInv, CrlNext PROVE ListsInv'
  BY DEF ListsInv, crlVars
<1>1. \A p \in Proc : run'[p].pc = "write" => run'[p].list \subseteq marked
  BY ListIsRead DEF ListsInv
<1> QED
  BY <1>1, FilesAreLists DEF ListsInv, NoFile

\* A certificate that nobody has revoked is on no published list.
THEOREM OnlyRevokedListed == CrlSpec => [](crlPem \union crlDer \subseteq marked)
<1>1. CrlInit => ListsInv
  BY DEF CrlInit, ListsInv, NotRunning
<1>2. ListsInv => crlPem \union crlDer \subseteq marked
  BY DEF ListsInv
<1> QED
  BY <1>1, <1>2, CrlTypeCorrect, ListsInductive, PTL DEF CrlSpec

LEMMA OnEveryListStays ==
  ASSUME NEW c \in Cert
  PROVE  CrlTypeOK /\ OnEveryList(c) /\ [CrlNext]_crlVars => OnEveryList(c)'
<1> SUFFICES ASSUME CrlTypeOK, OnEveryList(c), CrlNext PROVE OnEveryList(c)'
  BY DEF OnEveryList, crlVars
<1>1. \A p \in Proc : run'[p].pc = "write" => c \in run'[p].list
  BY ListIsRead DEF OnEveryList
<1> QED
  BY <1>1, FilesAreLists DEF OnEveryList

\* Once every list has a certificate, it stays on the published ones, whatever
\* runs get into each other's way, fail or are killed.
THEOREM PublishedStays ==
  CrlSpec => \A c \in Cert : [](OnEveryList(c) => [](c \in crlPem \intersect crlDer))
<1> SUFFICES ASSUME NEW c \in Cert
             PROVE  CrlSpec => [](OnEveryList(c) => [](c \in crlPem \intersect crlDer))
  OBVIOUS
<1>1. OnEveryList(c) => c \in crlPem \intersect crlDer
  BY DEF OnEveryList
<1>2. CrlTypeOK /\ OnEveryList(c) /\ [CrlNext]_crlVars => OnEveryList(c)'
  BY OnEveryListStays
<1> QED
  BY <1>1, <1>2, CrlTypeCorrect, PTL DEF CrlSpec

\* An undisturbed run that comes to its end puts all that is revoked on every list:
\* by PublishedStays, it is published for good.
THEOREM SuccessIsForGood ==
  CrlSpec => [][\A p \in Proc \ disturbed : MvDer(p) =>
                  \A c \in marked : OnEveryList(c)']_crlVars
<1>1. CrlInit => PublishInv
  BY DEF CrlInit, NotRunning, PublishInv, Solo, Running
<1>2. ASSUME CrlTypeOK, PublishInv, NEW p \in Proc \ disturbed, MvDer(p), NEW c \in marked
      PROVE  OnEveryList(c)'
  <2>1. /\ tmpPem = NoFile /\ tmpDer = marked /\ crlPem = marked /\ Running = {p}
    BY <1>2 DEF MvDer, PublishInv, Solo, Running, Carried
  <2>2. tmpDer # NoFile
    BY <1>2, <2>1, CertAssumption DEF CrlTypeOK, NoFile
  <2>3. \A q \in Proc : run'[q].pc = "idle"
    BY <1>2, <2>1 DEF MvDer, Exit, NotRunning, Running, CrlTypeOK
  <2> QED
    BY <1>2, <2>1, <2>2, <2>3 DEF MvDer, OnEveryList
<1>3. CrlTypeOK /\ PublishInv =>
        \A p \in Proc \ disturbed : MvDer(p) => \A c \in marked : OnEveryList(c)'
  BY <1>2
<1> QED
  BY <1>1, <1>3, CrlTypeCorrect, PublishInductive, PTL DEF CrlSpec
=============================================================================
