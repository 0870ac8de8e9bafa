----------------------------- MODULE ZoneSerial -----------------------------
(***************************************************************************)
(* 32_zone_timestamp: the serial number of a zone, the day of the last     *)
(* change of umbrella.xml followed by a sequence number.  The sequence     *)
(* number is kept in a file, whose modification time is set to that of the *)
(* umbrella.xml for which it was made.                                     *)
(*                                                                         *)
(* Every template of a zone executes the file anew, several hosts have     *)
(* zones, and bcfg2-server serves them in threads; nothing is locked.  The *)
(* server can stop between any two operations on the file, and an          *)
(* operation that fails goes unnoticed.  Line numbers are those of         *)
(* 32_zone_timestamp.                                                      *)
(***************************************************************************)
EXTENDS Integers, FiniteSets

CONSTANTS
  Thread,     \* the renderings that can go on at once
  Wrap,       \* the number of sequence numbers, 100 in the code
  DayLength,  \* seconds of a day
  MaxTime,    \* bound on the clock
  MaxChanges, \* bound on the changes of umbrella.xml
  MaxFaults   \* bound on failed writes and stops of bcfg2-server

ASSUME WrapAssumption == Wrap \in Nat /\ Wrap > 1
ASSUME TimeAssumption ==
  /\ DayLength \in Nat /\ DayLength > 0
  /\ MaxTime \in Nat /\ MaxChanges \in Nat /\ MaxFaults \in Nat

Time == 0..MaxTime
SeqNumber == 0..(Wrap - 1)

Day(t) == t \div DayLength

\* The sequence file, and the content that it has after it was truncated.
Empty == -1
SeqFile == [mtime : Time, number : SeqNumber \union {Empty}]

VARIABLES
  now,        \* the clock, in whole seconds
  changes,    \* how many times umbrella.xml was changed
  edited,     \* the seconds in which it was
  file,       \* {the sequence file}, {} before the first rendering
  job,        \* the position of every rendering and its variables
  done,       \* what was rendered: a change by its number, its second and the
              \* serial it was given
  disturbed,  \* when two threads get in each other's way, a write fails or the
              \* server stops in one: the days from that of the change that
              \* is rendered to that day
  faults

vars == <<now, changes, edited, file, job, done, disturbed, faults>>

\* timestamp, seq_number and seq_timestamp.  The code does not know the number of
\* the change that it renders.
JobType == [pc : {"idle", "stat", "read", "truncate", "write", "utime", "finish"},
            change : Nat, time : Time, number : SeqNumber, filetime : Time]

NotRunning == [pc |-> "idle", change |-> 0, time |-> 0, number |-> 0, filetime |-> 0]

Serial(t, n) == Day(t) * Wrap + n

\* The modification time of umbrella.xml.
Modified == CHOOSE t \in edited : \A u \in edited : u <= t

TypeOK ==
  /\ now \in Time
  /\ changes \in Nat
  /\ edited \subseteq 0..now /\ edited # {}
  /\ file = {} \/ \E f \in SeqFile : file = {f}
  /\ job \in [Thread -> JobType]
  /\ \A j \in Thread : job[j].pc \in {"read", "write", "utime"} => file # {}
  /\ done \subseteq [change : Nat, time : Time, serial : Nat]
  /\ disturbed \subseteq {Day(t) : t \in Time}
  /\ faults \in 0..MaxFaults

Init ==
  /\ now = 0
  /\ changes = 1
  /\ edited = {0}
  /\ file = {}
  /\ job = [j \in Thread |-> NotRunning]
  /\ done = {}
  /\ disturbed = {}
  /\ faults = 0

Active == {j \in Thread : job[j].pc # "idle"}
Writing == {j \in Thread : job[j].pc \in {"write", "utime"}}

\* The days from that of the oldest change that the threads render to today.
DaysSince(threads) ==
  {Day(t) : t \in {u \in 0..now : \E j \in threads : job[j].time <= u}}

Fault == faults < MaxFaults /\ faults' = faults + 1

-----------------------------------------------------------------------------
(* The clock and the administrator *)

Tick ==
  /\ now < MaxTime
  /\ now' = now + 1
  /\ UNCHANGED <<changes, edited, file, job, done, disturbed, faults>>

\* Several changes may come in one second, which is all that the times tell of them
\* (lines 4 and 9).
Edit ==
  /\ changes < MaxChanges
  /\ changes' = changes + 1
  /\ edited' = edited \union {now}
  /\ UNCHANGED <<now, file, job, done, disturbed, faults>>

-----------------------------------------------------------------------------
(* One rendering *)

world == <<now, changes, edited>>

\* Lines 4-7.
Start(j) ==
  /\ job[j].pc = "idle"
  /\ job' = [job EXCEPT ![j] =
               [pc |-> "stat", change |-> changes, time |-> Modified, number |-> 0,
                filetime |-> 0]]
  /\ disturbed' = disturbed \union DaysSince(Writing)
  /\ UNCHANGED <<world, file, done, faults>>

\* Mutant of Decide: equal times count as a change.
DecideOnEqualTimes(j, number, filetime) ==
  LET next == (IF Day(job[j].time) = Day(filetime) THEN number + 1 ELSE 0) % Wrap
  IN  IF job[j].time >= filetime
      THEN [job[j] EXCEPT !.pc = "truncate", !.filetime = 0, !.number = next]
      ELSE [job[j] EXCEPT !.pc = "finish", !.filetime = 0, !.number = number]

\* Mutant of Decide: the sequence number has no bound.
DecideWithoutWrap(j, number, filetime) ==
  LET next == IF Day(job[j].time) = Day(filetime) THEN number + 1 ELSE 0
  IN  IF job[j].time > filetime
      THEN [job[j] EXCEPT !.pc = "truncate", !.filetime = 0, !.number = next]
      ELSE [job[j] EXCEPT !.pc = "finish", !.filetime = 0, !.number = number]

\* Lines 17-24, from seq_number and seq_timestamp, which is not used any more then.
Decide(j, number, filetime) ==
  LET next == (IF Day(job[j].time) = Day(filetime) THEN number + 1 ELSE 0) % Wrap
  IN  IF job[j].time > filetime
      THEN [job[j] EXCEPT !.pc = "truncate", !.filetime = 0, !.number = next]
      ELSE [job[j] EXCEPT !.pc = "finish", !.filetime = 0, !.number = number]

\* Lines 8-9, and 16 for a file that does not exist.
Stat(j) ==
  /\ job[j].pc = "stat"
  /\ \/ \E f \in file : job' = [job EXCEPT ![j].pc = "read", ![j].filetime = f.mtime]
     \/ file = {} /\ job' = [job EXCEPT ![j] = Decide(j, 0, job[j].time - 1)]
  /\ UNCHANGED <<world, file, done, disturbed, faults>>

\* Lines 10-14: an empty file raises an exception, and the number is 0.
Read(j) ==
  /\ job[j].pc = "read"
  /\ \E f \in file :
       job' = [job EXCEPT ![j] =
                 Decide(j, IF f.number = Empty THEN 0 ELSE f.number, job[j].filetime)]
  /\ UNCHANGED <<world, file, done, disturbed, faults>>

\* Line 27.  A rendering that goes on in another thread sees this file or the one
\* before.
Truncate(j) ==
  /\ job[j].pc = "truncate"
  /\ file' = {[mtime |-> now, number |-> Empty]}
  /\ job' = [job EXCEPT ![j].pc = "write"]
  /\ disturbed' = IF Active = {j} THEN disturbed
                                  ELSE disturbed \union DaysSince(Active)
  /\ UNCHANGED <<world, done, faults>>

\* Mutant of Write: line 30 is missing.
WriteOnly(j) ==
  /\ job[j].pc = "write"
  /\ file' = {[mtime |-> now, number |-> job[j].number]}
  /\ job' = [job EXCEPT ![j].pc = "finish"]
  /\ UNCHANGED <<world, done, disturbed, faults>>

\* Lines 28-29.
Write(j) ==
  /\ job[j].pc = "write"
  /\ file' = {[mtime |-> now, number |-> job[j].number]}
  /\ job' = [job EXCEPT ![j].pc = "utime"]
  /\ UNCHANGED <<world, done, disturbed, faults>>

\* Line 30.
Utime(j) ==
  /\ job[j].pc = "utime"
  /\ \E f \in file : file' = {[f EXCEPT !.mtime = job[j].time]}
  /\ job' = [job EXCEPT ![j].pc = "finish"]
  /\ UNCHANGED <<world, done, disturbed, faults>>

\* Lines 31-32: an operation fails, and the rendering goes on with its number.
WriteFails(j) ==
  /\ job[j].pc \in {"truncate", "write", "utime"}
  /\ Fault
  /\ job' = [job EXCEPT ![j].pc = "finish"]
  /\ disturbed' = disturbed \union DaysSince({j})
  /\ UNCHANGED <<world, file, done>>

\* Line 34.
Finish(j) ==
  /\ job[j].pc = "finish"
  /\ done' = done \union {[change |-> job[j].change, time |-> job[j].time,
                           serial |-> Serial(job[j].time, job[j].number)]}
  /\ job' = [job EXCEPT ![j] = NotRunning]
  /\ UNCHANGED <<world, file, disturbed, faults>>

\* bcfg2-server stops, and with it all renderings.
Stop ==
  /\ Active # {}
  /\ Fault
  /\ job' = [j \in Thread |-> NotRunning]
  /\ disturbed' = disturbed \union DaysSince(Writing)
  /\ UNCHANGED <<world, file, done>>

-----------------------------------------------------------------------------
Render(j) ==
  \/ Start(j) \/ Stat(j) \/ Read(j) \/ Truncate(j) \/ Write(j) \/ Utime(j)
  \/ WriteFails(j) \/ Finish(j)

Next == Tick \/ Edit \/ Stop \/ \E j \in Thread : Render(j)

Spec == Init /\ [][Next]_vars

-----------------------------------------------------------------------------
(* Properties *)

\* Whatever two threads do to the file, whichever write fails and wherever the
\* server stops, the serial of a change is greater than those of all changes of
\* earlier days: a secondary server that has missed a change gets the next one
\* of another day.
LaterDayGreater ==
  \A a, b \in done : Day(a.time) < Day(b.time) => a.serial < b.serial

ChangedOn(day) == {t \in edited : Day(t) = day}

\* All zones that are rendered for one change have one serial, however often they
\* are rendered, and of two changes the later has the greater serial, so that no
\* secondary server keeps a zone that was replaced: unless renderings disturbed
\* each other on that day, or it has changes in as many seconds as there are
\* sequence numbers, or the two changes came in one second.  "Modified since the
\* last zone generation" (line 18) is a comparison of whole seconds, and a change
\* that comes after the rendering in the same second keeps the serial of the one
\* before; it is never less.
SerialsFollowChanges ==
  \A a, b \in done :
    \/ Day(b.time) \in disturbed
    \/ a.change = b.change /\ a.serial = b.serial
    \/ a.change < b.change /\ a.serial < b.serial
    \/ a.change < b.change /\ a.serial = b.serial /\ a.time = b.time
    \/ a.change < b.change /\ a.time < b.time
       /\ Cardinality(ChangedOn(Day(b.time))) >= Wrap
    \/ a.change > b.change
=============================================================================
