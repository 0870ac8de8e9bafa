--------------------------------- MODULE Crl ---------------------------------
(***************************************************************************)
(* umbrella-revoke-key: revokes a certificate and publishes the list of    *)
(* revoked certificates (CRL) as a PEM and a DER file.                     *)
(*                                                                         *)
(* mkkeys.sh runs it for the certificates of removed hosts, cron every     *)
(* night without an argument, an administrator by hand.  All runs share    *)
(* the temporary files, and no lock keeps them apart.  The script runs     *)
(* under `set -e`; each of its commands is one action, with the exception  *)
(* of gencrl, which reads the CA's index and writes its result later.      *)
(* Line numbers are those of umbrella-revoke-key.                          *)
(***************************************************************************)
EXTENDS Naturals

CONSTANTS
  Proc,        \* runs of the script at the same time
  Nightly,     \* the one that cron starts
  Cert,        \* certificates
  NoCert,      \* the argument is missing
  MaxKills,    \* bound on runs that are killed
  MaxFailures  \* bound on openssl commands that fail

ASSUME ProcAssumption == Nightly \in Proc
ASSUME CertAssumption == NoCert \notin Cert
ASSUME BoundsAssumption == MaxKills \in Nat /\ MaxFailures \in Nat

VARIABLES
  marked,          \* certificates that the CA's index marks as revoked
  tmpPem, tmpDer,  \* crl/root.crl.pem.tmp and crl/root.crl.tmp
  crlPem, crlDer,  \* crl/root.crl.pem and crl/root.crl, which hosts fetch
  run,             \* position, argument and the list made by gencrl of a run
  disturbed,       \* runs at the same time as another one, or whose gencrl failed
  kills, failures

\* The content of a file that does not exist.
NoFile == {NoCert}

files == <<tmpPem, tmpDer, crlPem, crlDer>>
crlVars == <<marked, tmpPem, tmpDer, crlPem, crlDer, run, disturbed,
          kills, failures>>

RunType == [pc : {"idle", "revoke", "gencrl", "write", "convert", "mv_pem",
                  "mv_der"},
            cert : Cert \union {NoCert}, list : SUBSET Cert]

NotRunning == [pc |-> "idle", cert |-> NoCert, list |-> {}]

CrlTypeOK ==
  /\ marked \in SUBSET Cert
  /\ tmpPem \in (SUBSET Cert) \union {NoFile}
  /\ tmpDer \in (SUBSET Cert) \union {NoFile}
  /\ crlPem \in SUBSET Cert
  /\ crlDer \in SUBSET Cert
  /\ run \in [Proc -> RunType]
  /\ \A p \in Proc : run[p].pc = "revoke" => run[p].cert \in Cert
  /\ disturbed \in SUBSET Proc
  /\ kills \in 0..MaxKills
  /\ failures \in 0..MaxFailures

CrlInit ==
  /\ marked = {}
  /\ tmpPem = NoFile /\ tmpDer = NoFile
  /\ crlPem = {} /\ crlDer = {}
  /\ run = [p \in Proc |-> NotRunning]
  /\ disturbed = {}
  /\ kills = 0
  /\ failures = 0

Goto(p, stage) == run' = [run EXCEPT ![p].pc = stage]
Exit(p) == run' = [run EXCEPT ![p] = NotRunning]

Running == {p \in Proc : run[p].pc # "idle"}

Overlap(p) ==
  disturbed' = IF Running = {} THEN disturbed \ {p}
               ELSE disturbed \union Running \union {p}

Failure == failures < MaxFailures /\ failures' = failures + 1

-----------------------------------------------------------------------------
\* Mutant of Start: the empty argument of xargs goes to the revocation.
StartRevoking(p, c) ==
  /\ run[p].pc = "idle"
  /\ p = Nightly => c = NoCert
  /\ run' = [run EXCEPT ![p].pc = "revoke", ![p].cert = c]
  /\ Overlap(p)
  /\ UNCHANGED <<marked, files, kills, failures>>

\* Lines 1-26.
Start(p, c) ==
  /\ run[p].pc = "idle"
  /\ p = Nightly => c = NoCert
  /\ run' = [run EXCEPT ![p].pc = IF c = NoCert THEN "gencrl" ELSE "revoke",
                        ![p].cert = c]
  /\ Overlap(p)
  /\ UNCHANGED <<marked, files, kills, failures>>

\* Lines 32-33: openssl refuses a certificate that is revoked already, and
\* `set -e` ends the script then as after every other failure.
Revoke(p) ==
  /\ run[p].pc = "revoke"
  /\ \/ /\ run[p].cert \notin marked
        /\ marked' = marked \union {run[p].cert}
        /\ Goto(p, "gencrl")
        /\ UNCHANGED failures
     \/ /\ run[p].cert \in marked
        /\ Exit(p)
        /\ UNCHANGED <<marked, failures>>
     \/ Failure /\ Exit(p) /\ UNCHANGED marked
  /\ UNCHANGED <<files, disturbed, kills>>

\* Lines 40-42.  A failure is hidden by the pipeline and by `|| :`.
GenCrl(p) ==
  /\ run[p].pc = "gencrl"
  /\ \/ /\ run' = [run EXCEPT ![p].pc = "write", ![p].list = marked]
        /\ UNCHANGED <<disturbed, failures>>
     \/ /\ Failure
        /\ Goto(p, "convert")
        /\ disturbed' = disturbed \union {p}
  /\ UNCHANGED <<marked, files, kills>>

\* Mutant of WriteCrl: a temporary file that is there is left alone.
WriteCrlOnce(p) ==
  /\ run[p].pc = "write"
  /\ tmpPem' = IF tmpPem = NoFile THEN run[p].list ELSE tmpPem
  /\ Goto(p, "convert")
  /\ UNCHANGED <<marked, tmpDer, crlPem, crlDer, disturbed, kills, failures>>

\* Line 41: gencrl opens and writes its output when the list is signed.
WriteCrl(p) ==
  /\ run[p].pc = "write"
  /\ tmpPem' = run[p].list
  /\ Goto(p, "convert")
  /\ UNCHANGED <<marked, tmpDer, crlPem, crlDer, disturbed, kills, failures>>

\* Line 43.
Convert(p) ==
  /\ run[p].pc = "convert"
  /\ \/ /\ tmpPem # NoFile
        /\ tmpDer' = tmpPem
        /\ Goto(p, "mv_pem")
        /\ UNCHANGED failures
     \/ tmpPem = NoFile /\ Exit(p) /\ UNCHANGED <<tmpDer, failures>>
     \/ Failure /\ Exit(p) /\ UNCHANGED tmpDer
  /\ UNCHANGED <<marked, tmpPem, crlPem, crlDer, disturbed, kills>>

\* Line 44.
MvPem(p) ==
  /\ run[p].pc = "mv_pem"
  /\ IF tmpPem = NoFile
     THEN Exit(p) /\ UNCHANGED <<tmpPem, crlPem>>
     ELSE crlPem' = tmpPem /\ tmpPem' = NoFile /\ Goto(p, "mv_der")
  /\ UNCHANGED <<marked, tmpDer, crlDer, disturbed, kills, failures>>

\* Mutant of MvDer: the line is missing.
MvDerMissing(p) ==
  /\ run[p].pc = "mv_der"
  /\ Exit(p)
  /\ UNCHANGED <<marked, files, disturbed, kills, failures>>

\* Lines 45-46.
MvDer(p) ==
  /\ run[p].pc = "mv_der"
  /\ Exit(p)
  /\ IF tmpDer = NoFile
     THEN UNCHANGED <<tmpDer, crlDer>>
     ELSE crlDer' = tmpDer /\ tmpDer' = NoFile
  /\ UNCHANGED <<marked, tmpPem, crlPem, disturbed, kills, failures>>

Kill(p) ==
  /\ run[p].pc # "idle"
  /\ kills < MaxKills
  /\ kills' = kills + 1
  /\ Exit(p)
  /\ UNCHANGED <<marked, files, disturbed, failures>>

-----------------------------------------------------------------------------
Step(p) ==
  \/ Revoke(p) \/ GenCrl(p) \/ WriteCrl(p) \/ Convert(p) \/ MvPem(p) \/ MvDer(p)

CrlNext ==
  \E p \in Proc : \/ \E c \in Cert \union {NoCert} : Start(p, c)
                  \/ Step(p)
                  \/ Kill(p)

CrlSpec == CrlInit /\ [][CrlNext]_crlVars

\* cron starts the script every night, and a running script goes on.
CrlFairSpec ==
  CrlSpec /\ WF_crlVars(Start(Nightly, NoCert)) /\ \A p \in Proc : WF_crlVars(Step(p))

-----------------------------------------------------------------------------
(* Properties *)

\* A run that comes to its `exit 0`, after whatever earlier runs that failed or
\* were killed have left behind, has published everything that is revoked in both
\* formats, the certificate it was given included, unless another run was at the
\* same files or the failure of its gencrl was hidden.
SuccessMeansPublished ==
  [][\A p \in Proc \ disturbed : MvDer(p) =>
       /\ crlPem' = marked /\ crlDer' = marked
       /\ run[p].cert # NoCert => run[p].cert \in marked]_crlVars

\* In spite of runs that get into each other's way, are killed or fail, a
\* revoked certificate gets on both published lists and stays there.
RevokedGetsPublished ==
  \A c \in Cert : c \in marked ~> [](c \in crlPem \intersect crlDer)
=============================================================================
