------------------------------ MODULE PassFile ------------------------------
(***************************************************************************)
(* 12_passfiles, read_password: a password that the server generates and   *)
(* that several configurations have in common, for example that of the UPS *)
(* monitors (upsd.users of the host with the UPS, upsmon.conf of the hosts *)
(* it feeds) or that of the TURN server and its client.  It is kept in a   *)
(* file and replaced when the file is older than its lifetime.             *)
(*                                                                         *)
(* Every configuration is rendered again and again, at any time and in     *)
(* threads of its own; nothing is locked.  A write can fail and the server *)
(* can stop between any two operations on the file.  The lifetime of all   *)
(* passwords in use is positive.  Line numbers are those of 12_passfiles.  *)
(***************************************************************************)
EXTENDS Naturals, FiniteSets

CONSTANTS
  Config,     \* the configurations that contain the password
  Password,   \* the passwords that can be generated
  NoPassword, \* the empty password
  MaxFaults   \* bound on failed writes and stops of bcfg2-server

ASSUME PasswordAssumption == NoPassword \notin Password
ASSUME FaultsAssumption == MaxFaults \in Nat

VARIABLES
  file,     \* {the password file}, {} before the first rendering
  conf,     \* the password in each configuration
  job,      \* the position of every rendering and its password
  met,      \* the renderings during which another one wrote to the file
  faults

passVars == <<file, conf, job, met, faults>>

Content == Password \union {NoPassword}

\* What read_password sees of the file: its content, and whether it is younger
\* than its lifetime.
PassFile == [content : Content, young : BOOLEAN]

JobType == [pc : {"idle", "read", "generate", "write"}, password : Content]

NotRunning == [pc |-> "idle", password |-> NoPassword]

PassTypeOK ==
  /\ file = {} \/ \E f \in PassFile : file = {f}
  /\ conf \in [Config -> Content]
  /\ job \in [Config -> JobType]
  /\ \A c \in Config : job[c].pc \in {"read", "write"} => file # {}
  /\ \A c \in Config : job[c].pc = "write" => job[c].password # NoPassword
  /\ met \in SUBSET Config
  /\ faults \in 0..MaxFaults

PassInit ==
  /\ file = {}
  /\ conf = [c \in Config |-> NoPassword]
  /\ job = [c \in Config |-> NotRunning]
  /\ met = {}
  /\ faults = 0

Active == {c \in Config : job[c].pc # "idle"}

Contents == {f.content : f \in file}

InUse == Contents \union {conf[c] : c \in Config} \union {job[c].password : c \in Config}

Fault == faults < MaxFaults /\ faults' = faults + 1

-----------------------------------------------------------------------------
\* The lifetime of the password ends.
Expire ==
  /\ \E f \in file : f.young /\ file' = {[f EXCEPT !.young = FALSE]}
  /\ UNCHANGED <<conf, job, met, faults>>

-----------------------------------------------------------------------------
(* One rendering *)

\* Mutant of Check: the age of the file is not looked at.
CheckExistence(c) ==
  /\ job[c].pc = "idle"
  /\ job' = [job EXCEPT ![c].pc = IF file # {} THEN "read" ELSE "generate"]
  /\ met' = met \ {c}
  /\ UNCHANGED <<file, conf, faults>>

\* Mutant of Check: the comparison of the ages is the other way round.
CheckOld(c) ==
  /\ job[c].pc = "idle"
  /\ job' = [job EXCEPT ![c].pc =
               IF \E f \in file : ~f.young THEN "read" ELSE "generate"]
  /\ met' = met \ {c}
  /\ UNCHANGED <<file, conf, faults>>

\* Lines 11-14.
Check(c) ==
  /\ job[c].pc = "idle"
  /\ job' = [job EXCEPT ![c].pc =
               IF \E f \in file : f.young THEN "read" ELSE "generate"]
  /\ met' = met \ {c}
  /\ UNCHANGED <<file, conf, faults>>

\* Line 23: the password gets into the configuration.
Return(c, password) ==
  /\ conf' = [conf EXCEPT ![c] = password]
  /\ job' = [job EXCEPT ![c] = NotRunning]

\* Mutant of Read: without the test of line 17.
ReadAnything(c) ==
  /\ job[c].pc = "read"
  /\ \E f \in file : Return(c, f.content)
  /\ UNCHANGED <<file, met, faults>>

\* Lines 15-17.
Read(c) ==
  /\ job[c].pc = "read"
  /\ \/ \E f \in file : f.content # NoPassword /\ Return(c, f.content)
     \/ NoPassword \in Contents
        /\ job' = [job EXCEPT ![c].pc = "generate"] /\ UNCHANGED conf
  /\ UNCHANGED <<file, met, faults>>

Meet(c) == met' = met \union (Active \ {c})

\* Mutant of Generate: the password is not stored.
GenerateOnly(c) ==
  /\ job[c].pc = "generate"
  /\ \E p \in Password \ InUse : Return(c, p)
  /\ UNCHANGED <<file, met, faults>>

\* Lines 19-21: the password is generated, and the file is opened and empty.
Generate(c) ==
  /\ job[c].pc = "generate"
  /\ \E p \in Password \ InUse :
       job' = [job EXCEPT ![c] = [pc |-> "write", password |-> p]]
  /\ file' = {[content |-> NoPassword, young |-> TRUE]}
  /\ Meet(c)
  /\ UNCHANGED <<conf, faults>>

\* Lines 22-23.
Write(c) ==
  /\ job[c].pc = "write"
  /\ file' = {[content |-> job[c].password, young |-> TRUE]}
  /\ Return(c, job[c].password)
  /\ Meet(c)
  /\ UNCHANGED faults

\* Opening or writing the file raises an exception, which ends the rendering and
\* leaves the configuration as it is.
Raise(c) ==
  /\ job[c].pc \in {"generate", "write"}
  /\ Fault
  /\ job' = [job EXCEPT ![c] = NotRunning]
  /\ UNCHANGED <<file, conf, met>>

\* bcfg2-server stops, and with it all renderings.
Stop ==
  /\ Active # {}
  /\ Fault
  /\ job' = [c \in Config |-> NotRunning]
  /\ UNCHANGED <<file, conf, met>>

-----------------------------------------------------------------------------
Render(c) == Check(c) \/ Read(c) \/ Generate(c) \/ Write(c)

PassNext == Expire \/ Stop \/ \E c \in Config : Render(c) \/ Raise(c)

PassSpec == PassInit /\ [][PassNext]_passVars

\* The hosts ask for their configurations again and again, and a rendering goes on.
PassFairSpec == PassSpec /\ \A c \in Config : WF_passVars(Render(c))

-----------------------------------------------------------------------------
(* Properties *)

\* No configuration ever gets an empty password from a file that another
\* rendering has just opened, or that a stop of the server has left empty: what
\* was rendered once has a password for good.
NeverEmpty ==
  [][\A c \in Config : conf'[c] = NoPassword => conf[c] = NoPassword]_passVars

\* A password that has not reached its lifetime is replaced by nobody but a
\* rendering that began before another one had written it.
PasswordKept ==
  [][\A f \in file :
       f.young /\ f.content # NoPassword
         => \/ \E g \in file' : g.content = f.content
            \/ \E c \in met : job[c].pc = "generate" /\ job'[c].pc = "write"
            \/ \E c \in met : job[c].pc = "write" /\ job'[c].pc = "idle"]_passVars

\* A password that has reached its lifetime does not stay.
ExpiredIsReplaced == (\E f \in file : ~f.young) ~> (\A f \in file : f.young)

\* The configurations come to contain one password and keep it, whatever happened
\* before, once renderings do not overlap any more and until the password
\* reaches its lifetime.
ConfigsAgree ==
  <>[](\A f \in file : f.young) /\ <>[](Cardinality(Active) <= 1)
    => <>[](\A c \in Config : {conf[c]} = Contents)
=============================================================================
