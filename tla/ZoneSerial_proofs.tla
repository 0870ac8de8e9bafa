--------------------------- MODULE ZoneSerial_proofs ---------------------------
(* TypeOK, LaterDayGreater and SerialsFollowChanges for any number of     *)
(* threads, sequence numbers and faults and any length of a day and of the  *)
(* behaviour.                                                               *)
EXTENDS ZoneSerial, FiniteSetTheorems, TLAPS

\* umbrella.xml has a last change.
HasLastChange == \E t \in edited : \A u \in edited : u <= t

LEMMA ModifiedIsLast ==
  HasLastChange => Modified \in edited /\ \A u \in edited : u <= Modified
  BY Zenon DEF HasLastChange, Modified

LEMMA HasLastChangeInductive ==
  TypeOK /\ HasLastChange /\ [Next]_vars => HasLastChange'
<1> SUFFICES ASSUME TypeOK, HasLastChange, [Next]_vars PROVE HasLastChange'
  OBVIOUS
<1>1. CASE UNCHANGED edited
  BY <1>1 DEF HasLastChange
<1>2. CASE Edit
  <2>1. now \in edited' /\ \A u \in edited' : u <= now
    BY <1>2 DEF Edit, TypeOK, Time
  <2> QED
    BY <2>1 DEF HasLastChange
<1> QED
  BY <1>1, <1>2
  DEF Next, Tick, Stop, Render, Start, Stat, Read, Truncate, Write, Utime,
      WriteFails, Finish, world, vars

\* The sequence number that a rendering decides for is a number with two digits.
LEMMA DecideType ==
  ASSUME NEW j \in Thread, job \in [Thread -> JobType],
         NEW number \in SeqNumber, NEW filetime \in Time \union {-1}
  PROVE  /\ Decide(j, number, filetime) \in JobType
         /\ Decide(j, number, filetime).pc \in {"truncate", "finish"}
<1> DEFINE next == (IF Day(job[j].time) = Day(filetime) THEN number + 1 ELSE 0) % Wrap
<1>1. next \in SeqNumber
  BY WrapAssumption DEF SeqNumber
<1> HIDE DEF next
<1>2. job[j] \in JobType /\ job[j].time \in Time /\ 0 \in Time
  BY TimeAssumption DEF JobType, Time
<1>3. Decide(j, number, filetime) =
        IF job[j].time > filetime
        THEN [job[j] EXCEPT !.pc = "truncate", !.filetime = 0, !.number = next]
        ELSE [job[j] EXCEPT !.pc = "finish", !.filetime = 0, !.number = number]
  BY Zenon DEF Decide, next
<1> QED
  BY <1>1, <1>2, <1>3 DEF JobType

LEMMA DaysSinceType ==
  ASSUME TypeOK, NEW threads
  PROVE  DaysSince(threads) \subseteq {Day(t) : t \in Time}
<1>1. 0..now \subseteq Time
  BY TimeAssumption DEF TypeOK, Time
<1> QED
  BY <1>1, Zenon DEF DaysSince

LEMMA TypeCorrectInit == Init => TypeOK /\ HasLastChange
  BY TimeAssumption, WrapAssumption
  DEF Init, TypeOK, HasLastChange, Time, NotRunning, JobType, SeqNumber

\* Types in the order of the variables.
THEOREM TypeCorrect == Spec => [](TypeOK /\ HasLastChange)
<1>1. Init => TypeOK /\ HasLastChange
  BY TypeCorrectInit
<1>2. TypeOK /\ HasLastChange /\ [Next]_vars => TypeOK'
  <2> SUFFICES ASSUME TypeOK, HasLastChange, [Next]_vars PROVE TypeOK'
    OBVIOUS
  <2> USE TimeAssumption
  <2>0. CASE UNCHANGED vars
    BY <2>0 DEF TypeOK, vars
  <2>1. CASE Tick
    BY <2>1 DEF Tick, TypeOK, Time
  <2>2. CASE Edit
    BY <2>2 DEF Edit, TypeOK, Time
  <2>3. CASE Stop
    <3>2. disturbed' \subseteq {Day(t) : t \in Time}
      BY <2>3, DaysSinceType DEF Stop, TypeOK
    <3>3. job' \in [Thread -> JobType] /\ \A j \in Thread : job'[j].pc = "idle"
      BY <2>3, WrapAssumption DEF Stop, NotRunning, JobType, Time, SeqNumber
    <3> QED
      BY <2>3, <3>2, <3>3 DEF Stop, Fault, world, TypeOK
  <2>4. ASSUME NEW j \in Thread, Start(j) PROVE TypeOK'
    <3>1. Modified \in Time
      <4>1. Modified \in 0..now
        BY ModifiedIsLast, Zenon DEF TypeOK
      <4> QED
        BY <4>1 DEF TypeOK, Time
    <3>2. job' \in [Thread -> JobType] /\ job'[j].pc = "stat"
      <4> DEFINE started == [pc |-> "stat", change |-> changes, time |-> Modified,
                          number |-> 0, filetime |-> 0]
      <4>1. job' = [job EXCEPT ![j] = started]
        BY <2>4 DEF Start
      <4>2. 0 \in Time /\ 0 \in SeqNumber
        BY WrapAssumption DEF Time, SeqNumber
      <4>3. started \in JobType /\ started.pc = "stat"
        BY <3>1, <4>2 DEF JobType, TypeOK
      <4> HIDE DEF started
      <4> QED
        BY <4>1, <4>3 DEF TypeOK
    <3>3. disturbed' \subseteq {Day(t) : t \in Time}
      BY <2>4, DaysSinceType DEF Start, TypeOK
    <3> QED
      BY <2>4, <3>2, <3>3 DEF Start, world, TypeOK
  <2>5. ASSUME NEW j \in Thread, Stat(j) PROVE TypeOK'
    <3>1. CASE \E f \in file : job' = [job EXCEPT ![j].pc = "read", ![j].filetime = f.mtime]
      <4>1. PICK f \in file :
              job' = [job EXCEPT ![j].pc = "read", ![j].filetime = f.mtime]
        BY <3>1
      <4>2. f.mtime \in Time
        BY DEF TypeOK, SeqFile
      <4>3. job' \in [Thread -> JobType]
        BY <4>1, <4>2 DEF TypeOK, JobType
      <4>4. file # {}
        OBVIOUS
      <4> QED
        BY <2>5, <4>1, <4>3, <4>4 DEF Stat, world, TypeOK
    <3>2. CASE file = {} /\ job' = [job EXCEPT ![j] = Decide(j, 0, job[j].time - 1)]
      <4>1. job[j].time - 1 \in Time \union {-1} /\ 0 \in SeqNumber
        BY WrapAssumption DEF TypeOK, JobType, Time, SeqNumber
      <4>2. /\ Decide(j, 0, job[j].time - 1) \in JobType
            /\ Decide(j, 0, job[j].time - 1).pc \in {"truncate", "finish"}
        BY <4>1, DecideType DEF TypeOK
      <4> QED
        BY <2>5, <3>2, <4>2 DEF Stat, world, TypeOK
    <3> QED
      BY <2>5, <3>1, <3>2 DEF Stat
  <2>6. ASSUME NEW j \in Thread, Read(j) PROVE TypeOK'
    <3>1. PICK f \in file :
            job' = [job EXCEPT ![j] =
              Decide(j, IF f.number = Empty THEN 0 ELSE f.number, job[j].filetime)]
      BY <2>6, Zenon DEF Read
    <3> DEFINE number == IF f.number = Empty THEN 0 ELSE f.number
    <3>2. number \in SeqNumber /\ job[j].filetime \in Time
      BY WrapAssumption DEF TypeOK, JobType, SeqFile, SeqNumber
    <3>3. job' = [job EXCEPT ![j] = Decide(j, number, job[j].filetime)]
      BY <3>1
    <3> HIDE DEF number
    <3>4. /\ Decide(j, number, job[j].filetime) \in JobType
          /\ Decide(j, number, job[j].filetime).pc \in {"truncate", "finish"}
      BY <3>2, DecideType DEF TypeOK
    <3> QED
      BY <2>6, <3>3, <3>4 DEF Read, world, TypeOK
  <2>7. ASSUME NEW j \in Thread, Truncate(j) PROVE TypeOK'
    <3>2. disturbed' \subseteq {Day(t) : t \in Time}
      BY <2>7, DaysSinceType DEF Truncate, TypeOK
    <3>3. \E f \in SeqFile : file' = {f}
      BY <2>7 DEF Truncate, SeqFile, TypeOK
    <3> QED
      BY <2>7, <3>2, <3>3 DEF Truncate, world, TypeOK, JobType
  <2>8. ASSUME NEW j \in Thread, Write(j) PROVE TypeOK'
    <3>1. \E f \in SeqFile : file' = {f}
      BY <2>8 DEF Write, SeqFile, TypeOK, JobType
    <3> QED
      BY <2>8, <3>1 DEF Write, world, TypeOK, JobType
  <2>9. ASSUME NEW j \in Thread, Utime(j) PROVE TypeOK'
    <3>1. \E f \in SeqFile : file' = {f}
      BY <2>9 DEF Utime, SeqFile, TypeOK, JobType
    <3> QED
      BY <2>9, <3>1 DEF Utime, world, TypeOK, JobType
  <2>10. ASSUME NEW j \in Thread, WriteFails(j) PROVE TypeOK'
    <3>1. disturbed' \subseteq {Day(t) : t \in Time}
      BY <2>10, DaysSinceType DEF WriteFails, TypeOK
    <3>2. job' = [job EXCEPT ![j].pc = "finish"] /\ UNCHANGED <<world, file, done>>
      BY <2>10 DEF WriteFails
    <3>3. /\ job' \in [Thread -> JobType]
          /\ \A i \in Thread : job'[i].pc \in {job[i].pc, "finish"}
      BY <3>2 DEF TypeOK, JobType
    <3>4. faults' \in 0..MaxFaults
      BY <2>10 DEF WriteFails, Fault, TypeOK
    <3> QED
      BY <3>1, <3>2, <3>3, <3>4 DEF world, TypeOK
  <2>11. ASSUME NEW j \in Thread, Finish(j) PROVE TypeOK'
    <3>1. job[j].change \in Nat /\ job[j].time \in Time /\ job[j].number \in SeqNumber
      BY DEF TypeOK, JobType
    <3>2. Serial(job[j].time, job[j].number) \in Nat
      <4>1. Day(job[j].time) \in Nat
        BY <3>1 DEF Day, Time
      <4>2. Day(job[j].time) * Wrap \in Nat
        BY <4>1, WrapAssumption
      <4> QED
        BY <3>1, <4>2, WrapAssumption DEF Serial, SeqNumber
    <3>3. done' \subseteq [change : Nat, time : Time, serial : Nat]
      BY <2>11, <3>1, <3>2 DEF Finish, TypeOK
    <3> QED
      BY <2>11, <3>3, WrapAssumption
      DEF Finish, NotRunning, world, TypeOK, JobType, Time, SeqNumber
  <2> QED
    BY <2>0, <2>1, <2>2, <2>3, <2>4, <2>5, <2>6, <2>7, <2>8, <2>9, <2>10, <2>11
    DEF Next, Render
<1> QED
  BY <1>1, <1>2, HasLastChangeInductive, PTL DEF Spec

-----------------------------------------------------------------------------
\* Every serial that was given to a change is made from its day.
SerialOfItsDay ==
  \A a \in done : \E n \in SeqNumber : a.serial = Serial(a.time, n)

LEMMA SerialOfItsDayInductive ==
  TypeOK /\ SerialOfItsDay /\ [Next]_vars => SerialOfItsDay'
<1> SUFFICES ASSUME TypeOK, SerialOfItsDay, [Next]_vars PROVE SerialOfItsDay'
  OBVIOUS
<1>1. CASE UNCHANGED done
  BY <1>1 DEF SerialOfItsDay
<1>2. ASSUME NEW j \in Thread, Finish(j) PROVE SerialOfItsDay'
  <2>1. job[j].number \in SeqNumber
    BY DEF TypeOK, JobType
  <2> QED
    BY <1>2, <2>1 DEF Finish, SerialOfItsDay
<1> QED
  BY <1>1, <1>2
  DEF Next, Tick, Edit, Stop, Render, Start, Stat, Read, Truncate, Write, Utime,
      WriteFails, vars

\* A sequence number never reaches the next day.
LEMMA DaysDoNotMeet ==
  ASSUME NEW d \in Int, NEW e \in Int, d < e,
         NEW m \in SeqNumber, NEW n \in SeqNumber
  PROVE  d * Wrap + m < e * Wrap + n
<1>1. (e - d) * Wrap >= Wrap
  BY WrapAssumption
<1>2. e * Wrap = d * Wrap + (e - d) * Wrap
  BY WrapAssumption
<1>3. d * Wrap \in Int /\ e * Wrap \in Int /\ (e - d) * Wrap \in Int
  BY WrapAssumption
<1> QED
  BY <1>1, <1>2, <1>3, WrapAssumption DEF SeqNumber

LEMMA DayType == ASSUME NEW t \in Time PROVE Day(t) \in Int
  BY TimeAssumption DEF Day, Time

\* The serials of a later day are greater, whatever happened to the file.
THEOREM LaterDayGreaterCorrect == Spec => []LaterDayGreater
<1>1. Init => SerialOfItsDay
  BY DEF Init, SerialOfItsDay
<1>2. TypeOK /\ SerialOfItsDay => LaterDayGreater
  <2> SUFFICES ASSUME TypeOK, SerialOfItsDay,
                      NEW a \in done, NEW b \in done, Day(a.time) < Day(b.time)
               PROVE  a.serial < b.serial
    BY DEF LaterDayGreater
  <2>1. PICK m \in SeqNumber : a.serial = Serial(a.time, m)
    BY DEF SerialOfItsDay
  <2>2. PICK n \in SeqNumber : b.serial = Serial(b.time, n)
    BY DEF SerialOfItsDay
  <2>3. Day(a.time) \in Int /\ Day(b.time) \in Int
    BY DayType DEF TypeOK
  <2> QED
    BY <2>1, <2>2, <2>3, DaysDoNotMeet DEF Serial
<1> QED
  BY <1>1, <1>2, TypeCorrect, SerialOfItsDayInductive, PTL DEF Spec

-----------------------------------------------------------------------------
(* What SerialsFollowChanges says of the seconds of the changes, which is all that *)
(* the code knows of them. *)

SerialsFollowTimes ==
  \A a, b \in done :
    \/ Day(b.time) \in disturbed
    \/ a.time = b.time /\ a.serial = b.serial
    \/ a.time < b.time /\ a.serial < b.serial
    \/ a.time < b.time /\ Cardinality(ChangedOn(Day(b.time))) >= Wrap
    \/ a.time > b.time


\* Nothing went wrong with the file for a change of this day.
Clean(t) == Day(t) \notin disturbed

\* Something went wrong on all days from that of t to that of u.
Broken(t, u) ==
  \A v \in Time : t <= v /\ v <= u => Day(v) \in disturbed

\* The changes of a day up to one of them: its sequence number is not greater
\* than their number.
UpTo(seconds, t) == {u \in seconds : u <= t /\ Day(u) = Day(t)}

\* The day has so many changes that the sequence numbers begin anew.
Full(seconds, day) == Cardinality({t \in seconds : Day(t) = day}) >= Wrap

LEMMA DayMonotone ==
  ASSUME NEW t \in Time, NEW u \in Time, t <= u
  PROVE  Day(t) <= Day(u)
<1>1. t \in Nat /\ u \in Nat
  BY TimeAssumption DEF Time
<1>2. /\ Day(t) \in Int /\ DayLength * Day(t) <= t /\ t < DayLength * Day(t) + DayLength
      /\ Day(u) \in Int /\ DayLength * Day(u) <= u /\ u < DayLength * Day(u) + DayLength
  BY <1>1, TimeAssumption DEF Day
<1>3. SUFFICES ASSUME Day(u) + 1 <= Day(t) PROVE FALSE
  BY <1>2
<1>4. DayLength * (Day(u) + 1) <= DayLength * Day(t)
  BY <1>2, <1>3, TimeAssumption
<1> QED
  BY <1>1, <1>2, <1>4, TimeAssumption

LEMMA TimesFinite ==
  ASSUME NEW times \in SUBSET Time PROVE IsFiniteSet(times)
<1>1. IsFiniteSet(0..MaxTime)
  BY FS_Interval, TimeAssumption
<1> QED
  BY <1>1, FS_Subset DEF Time

LEMMA EditedType == TypeOK => edited \subseteq Time
  BY TimeAssumption DEF TypeOK, Time

LEMMA EditedFinite ==
  ASSUME TypeOK PROVE IsFiniteSet(edited) /\ edited \subseteq Time
  BY EditedType, TimesFinite

LEMMA ChangesCounted ==
  ASSUME NEW seconds \in SUBSET Time, NEW t \in seconds
  PROVE  /\ Cardinality(UpTo(seconds, t)) \in Nat
         /\ Cardinality(UpTo(seconds, t)) >= 1
<1>1. UpTo(seconds, t) \subseteq seconds /\ {t} \subseteq UpTo(seconds, t)
  BY TimeAssumption DEF UpTo, Time
<1>2. IsFiniteSet(UpTo(seconds, t))
  BY <1>1, TimesFinite
<1>3. Cardinality({t}) = 1
  BY FS_Singleton
<1>4. Cardinality({t}) <= Cardinality(UpTo(seconds, t))
  BY <1>1, <1>2, FS_Subset
<1>5. Cardinality(UpTo(seconds, t)) \in Nat
  BY <1>2, FS_CardinalityType
<1> QED
  BY <1>3, <1>4, <1>5

LEMMA NextChangeCounted ==
  ASSUME NEW seconds \in SUBSET Time, NEW t \in seconds, NEW u \in seconds,
         t < u, Day(t) = Day(u)
  PROVE  /\ Cardinality(UpTo(seconds, t)) + 1 <= Cardinality(UpTo(seconds, u))
         /\ Cardinality(UpTo(seconds, u)) >= Wrap => Full(seconds, Day(u))
<1> DEFINE onDay == {v \in seconds : Day(v) = Day(u)}
           before == UpTo(seconds, t)
           all == UpTo(seconds, u)
<1>0. all \subseteq onDay /\ onDay \subseteq Time
  BY DEF UpTo
<1>1. before \union {u} \subseteq all /\ u \notin before
  <2>1. seconds \subseteq Int
    BY TimeAssumption DEF Time
  <2>2. u \in all /\ u \notin before
    BY <2>1 DEF UpTo
  <2>3. ASSUME NEW v \in before PROVE v \in all
    BY <2>1 DEF UpTo
  <2> HIDE DEF before, all
  <2> QED
    BY <2>2, <2>3
<1>2. IsFiniteSet(before) /\ IsFiniteSet(all) /\ IsFiniteSet(onDay)
  BY <1>0, <1>1, TimesFinite
<1>3. Cardinality(before \union {u}) = Cardinality(before) + 1
  BY <1>1, <1>2, FS_AddElement
<1>4. /\ Cardinality(before \union {u}) <= Cardinality(all)
      /\ Cardinality(all) <= Cardinality(onDay)
  BY <1>0, <1>1, <1>2, FS_Subset
<1>5. Cardinality(all) \in Nat /\ Cardinality(onDay) \in Nat
  BY <1>2, FS_CardinalityType
<1> QED
  BY <1>3, <1>4, <1>5, WrapAssumption DEF Full

LEMMA CountsGrow ==
  ASSUME NEW more \in SUBSET Time, NEW seconds \in SUBSET more, NEW t
  PROVE  /\ Cardinality(UpTo(seconds, t)) <= Cardinality(UpTo(more, t))
         /\ Cardinality(UpTo(seconds, t)) \in Nat /\ Cardinality(UpTo(more, t)) \in Nat
         /\ Full(seconds, Day(t)) => Full(more, Day(t))
<1> DEFINE onDay == {v \in seconds : Day(v) = Day(t)}
           moreOnDay == {v \in more : Day(v) = Day(t)}
<1>1. /\ UpTo(seconds, t) \subseteq UpTo(more, t) /\ UpTo(more, t) \subseteq Time
      /\ onDay \subseteq moreOnDay /\ moreOnDay \subseteq Time
  BY DEF UpTo
<1>2. /\ IsFiniteSet(UpTo(seconds, t)) /\ IsFiniteSet(UpTo(more, t))
      /\ IsFiniteSet(onDay) /\ IsFiniteSet(moreOnDay)
  BY <1>1, TimesFinite
<1>3. /\ Cardinality(UpTo(seconds, t)) <= Cardinality(UpTo(more, t))
      /\ Cardinality(onDay) <= Cardinality(moreOnDay)
  BY <1>1, <1>2, FS_Subset
<1>4. /\ Cardinality(UpTo(seconds, t)) \in Nat /\ Cardinality(UpTo(more, t)) \in Nat
      /\ Cardinality(onDay) \in Nat /\ Cardinality(moreOnDay) \in Nat
  BY <1>2, FS_CardinalityType
<1> QED
  BY <1>3, <1>4, WrapAssumption DEF Full

-----------------------------------------------------------------------------
(* The actions by what they do to the rendering that takes them. *)

\* The number for which a rendering decides that writes the file.
NextNumber(j, number, filetime) ==
  (IF Day(job[j].time) = Day(filetime) THEN number + 1 ELSE 0) % Wrap

LEMMA DecideEffect ==
  ASSUME TypeOK, NEW j \in Thread, NEW number, NEW filetime
  PROVE  LET decision == Decide(j, number, filetime)
         IN  /\ decision.time = job[j].time
             /\ \/ /\ job[j].time > filetime /\ decision.pc = "truncate"
                   /\ decision.number = NextNumber(j, number, filetime)
                \/ /\ ~(job[j].time > filetime) /\ decision.pc = "finish"
                   /\ decision.number = number
<1> DEFINE next == NextNumber(j, number, filetime)
<1>1. job[j] \in JobType
  BY DEF TypeOK
<1>2. Decide(j, number, filetime) =
        IF job[j].time > filetime
        THEN [job[j] EXCEPT !.pc = "truncate", !.filetime = 0, !.number = next]
        ELSE [job[j] EXCEPT !.pc = "finish", !.filetime = 0, !.number = number]
  BY Zenon DEF Decide, NextNumber
<1>3. next = NextNumber(j, number, filetime)
  OBVIOUS
<1> HIDE DEF next
<1> QED
  BY <1>1, <1>2, <1>3 DEF JobType

\* A step of one rendering is none of another.
LEMMA RenderingsApart ==
  ASSUME TypeOK, NEW j \in Thread, Render(j)
  PROVE  /\ \A i \in Thread \ {j} : job'[i] = job[i]
         /\ disturbed \subseteq disturbed'
         /\ now' = now /\ edited' = edited
  BY DEF TypeOK, Render, Start, Stat, Read, Truncate, Write, Utime, WriteFails, Finish, world

LEMMA StartEffect ==
  ASSUME TypeOK, NEW j \in Thread, Start(j)
  PROVE  job[j].pc = "idle" /\ job'[j].pc = "stat" /\ job'[j].time = Modified
  BY DEF TypeOK, Start

LEMMA StatEffect ==
  ASSUME TypeOK, NEW j \in Thread, Stat(j)
  PROVE  /\ job[j].pc = "stat" /\ job'[j].time = job[j].time
         /\ \/ job'[j].pc = "read" /\ \E f \in file : job'[j].filetime = f.mtime
            \/ /\ file = {} /\ job'[j].pc = "truncate"
               /\ job'[j].number = NextNumber(j, 0, job[j].time - 1)
<1>1. job[j].pc = "stat" /\ job[j] \in JobType
  BY DEF Stat, TypeOK
<1>2. CASE \E f \in file : job' = [job EXCEPT ![j].pc = "read", ![j].filetime = f.mtime]
  <2>1. PICK f \in file : job' = [job EXCEPT ![j].pc = "read", ![j].filetime = f.mtime]
    BY <1>2
  <2>2. job'[j].pc = "read" /\ job'[j].filetime = f.mtime /\ job'[j].time = job[j].time
    BY <1>1, <2>1 DEF TypeOK, JobType
  <2> QED
    BY <1>1, <2>2
<1>3. CASE file = {} /\ job' = [job EXCEPT ![j] = Decide(j, 0, job[j].time - 1)]
  <2>1. job'[j] = Decide(j, 0, job[j].time - 1)
    BY <1>3 DEF TypeOK
  <2>2. job[j].time > job[j].time - 1
    BY <1>1, TimeAssumption DEF JobType, Time
  <2> QED
    BY <1>1, <1>3, <2>1, <2>2, DecideEffect
<1> QED
  BY <1>2, <1>3 DEF Stat

\* What is read from the file.
FileNumber(f) == IF f.number = Empty THEN 0 ELSE f.number

LEMMA ReadEffect ==
  ASSUME TypeOK, NEW j \in Thread, Read(j)
  PROVE  /\ job[j].pc = "read" /\ job'[j].time = job[j].time
         /\ \E f \in file :
              \/ /\ job[j].time > job[j].filetime /\ job'[j].pc = "truncate"
                 /\ job'[j].number = NextNumber(j, FileNumber(f), job[j].filetime)
              \/ /\ ~(job[j].time > job[j].filetime) /\ job'[j].pc = "finish"
                 /\ job'[j].number = FileNumber(f)
<1>1. PICK f \in file :
        job' = [job EXCEPT ![j] = Decide(j, FileNumber(f), job[j].filetime)]
  BY Zenon DEF Read, FileNumber
<1>2. job'[j] = Decide(j, FileNumber(f), job[j].filetime)
  BY <1>1 DEF TypeOK
<1> QED
  BY <1>2, DecideEffect DEF Read

LEMMA WriteEffects ==
  ASSUME TypeOK, NEW j \in Thread
  PROVE  /\ Truncate(j) => job[j].pc = "truncate" /\ job'[j] = [job[j] EXCEPT !.pc = "write"]
         /\ Write(j) => job[j].pc = "write" /\ job'[j] = [job[j] EXCEPT !.pc = "utime"]
         /\ Utime(j) => job[j].pc = "utime" /\ job'[j] = [job[j] EXCEPT !.pc = "finish"]
         /\ WriteFails(j) => /\ job[j].pc \in {"truncate", "write", "utime"}
                             /\ job'[j] = [job[j] EXCEPT !.pc = "finish"]
         /\ Finish(j) => job[j].pc = "finish" /\ job'[j].pc = "idle"
  BY DEF Truncate, Write, Utime, WriteFails, Finish, NotRunning, TypeOK

\* What a step of a rendering does to the positions.
Moves(j) == Stat(j) \/ Read(j) \/ Truncate(j) \/ Write(j) \/ Utime(j) \/ WriteFails(j)

LEMMA MovesPositions ==
  ASSUME TypeOK, NEW j \in Thread, Moves(j)
  PROVE  /\ j \in Active /\ Active' = Active
         /\ \A i \in Thread : job'[i].time = job[i].time
<1>1. \A i \in Thread \ {j} : job'[i] = job[i]
  BY RenderingsApart DEF Moves, Render
<1>2. job[j].pc # "idle" /\ job'[j].pc # "idle" /\ job'[j].time = job[j].time
  BY StatEffect, ReadEffect, WriteEffects DEF Moves, TypeOK, JobType
<1> QED
  BY <1>1, <1>2 DEF Active

\* Who writes after the step.
LEMMA Writers ==
  ASSUME TypeOK, NEW j \in Thread, Render(j)
  PROVE  /\ Start(j) \/ Stat(j) \/ Read(j) \/ Finish(j)
              => Writing' = Writing /\ j \notin Writing
         /\ Truncate(j) => Writing' = Writing \union {j} /\ j \notin Writing
         /\ Write(j) => Writing' = Writing /\ j \in Writing
         /\ Utime(j) => Writing' = Writing \ {j} /\ j \in Writing
         /\ WriteFails(j) => Writing' = Writing \ {j}
<1>1. \A i \in Thread \ {j} : job'[i] = job[i]
  BY RenderingsApart
<1>2. /\ Start(j) => job[j].pc = "idle" /\ job'[j].pc = "stat"
      /\ Stat(j) => job[j].pc = "stat" /\ job'[j].pc \in {"read", "truncate"}
      /\ Read(j) => job[j].pc = "read" /\ job'[j].pc \in {"truncate", "finish"}
      /\ Finish(j) => job[j].pc = "finish" /\ job'[j].pc = "idle"
  BY StartEffect, StatEffect, ReadEffect, WriteEffects
<1>3. /\ Truncate(j) => job[j].pc = "truncate" /\ job'[j].pc = "write"
      /\ Write(j) => job[j].pc = "write" /\ job'[j].pc = "utime"
      /\ Utime(j) => job[j].pc = "utime" /\ job'[j].pc = "finish"
      /\ WriteFails(j) => job'[j].pc = "finish"
  BY WriteEffects DEF TypeOK, JobType
<1> QED
  BY <1>1, <1>2, <1>3 DEF Writing

-----------------------------------------------------------------------------
(* The invariant, in parts.  The first ones are about the order of the   *)
(* renderings; they say of which days nothing is known.                   *)

\* All times that are at work were changes of umbrella.xml.
Known ==
  /\ \A j \in Active : job[j].time \in edited
  /\ \A a \in done : a.time \in edited
  /\ \A f \in file : f.mtime <= now

\* Who writes the file while another rendering is under way disturbs it, and all
\* days between the changes of the two.
Apart ==
  \A i \in Writing : \A j \in Active \ {i} :
    Broken(job[i].time, job[j].time) /\ Broken(job[j].time, job[i].time)

\* The file is of a later change than one that is or will be rendered only if
\* all days between them are disturbed.
NotOvertaken ==
  Writing = {} =>
    \A f \in file :
      /\ Modified < f.mtime => Broken(Modified, f.mtime)
      /\ \A j \in Active : job[j].time < f.mtime => Broken(job[j].time, f.mtime)

\* No rendering is at an older change than one that is done.
NotLate ==
  \A j \in Active : \A a \in done : job[j].time < a.time => ~Clean(a.time)

\* No rendering is at an older change than one that is about to be done.
FinishInOrder ==
  \A i, j \in Active :
    job[i].pc = "finish" /\ job[j].time < job[i].time => ~Clean(job[i].time)

\* The file was made for a change at least as late as one that is done.
Reached == \A a \in done : Clean(a.time) => \E f \in file : a.time <= f.mtime

LEMMA DaysSinceHas ==
  ASSUME TypeOK, NEW threads, NEW j \in threads, NEW v \in Time,
         job[j].time <= v, v <= now
  PROVE  Day(v) \in DaysSince(threads)
<1>1. v \in 0..now
  BY TimeAssumption DEF TypeOK, Time
<1> QED
  BY <1>1 DEF DaysSince

LEMMA TimesType ==
  ASSUME TypeOK, HasLastChange, Known
  PROVE  /\ \A t \in edited : t \in Time /\ t <= now /\ t <= Modified
         /\ Modified \in edited
         /\ \A j \in Thread : job[j] \in JobType /\ job[j].time \in Time
         /\ \A f \in file : f \in SeqFile /\ f.mtime \in Time
         /\ Active \subseteq Thread /\ Writing \subseteq Active
         /\ now \in Time /\ Time \subseteq Int
<1>1. /\ \A t \in edited : t \in Time /\ t <= now
      /\ \A j \in Thread : job[j] \in JobType /\ job[j].time \in Time
      /\ \A f \in file : f \in SeqFile /\ f.mtime \in Time
      /\ now \in Time /\ Time \subseteq Int
  BY EditedFinite, TimeAssumption DEF TypeOK, Time, JobType, SeqFile
<1>2. Active \subseteq Thread /\ Writing \subseteq Active
  BY DEF Active, Writing
<1> QED
  BY <1>1, <1>2, ModifiedIsLast

LEMMA OwnDay ==
  ASSUME TypeOK, HasLastChange, Known, NEW j \in Active, NEW threads, j \in threads
  PROVE  Day(job[j].time) \in DaysSince(threads)
<1>1. job[j].time \in edited
  BY DEF Known
<1>2. job[j].time \in Time /\ job[j].time \in Int /\ job[j].time <= now
  BY <1>1, TimesType
<1> QED
  BY <1>2, DaysSinceHas

LEMMA WritersApart ==
  ASSUME TypeOK, HasLastChange, Known, Apart,
         NEW i \in Writing, NEW j \in Active, i # j
  PROVE  ~Clean(job[i].time) /\ ~Clean(job[j].time)
<1>1. /\ job[i].time \in Time /\ job[j].time \in Time
      /\ job[i].time <= job[j].time \/ job[j].time <= job[i].time
  BY TimesType
<1> QED
  BY <1>1, TimesType DEF Apart, Broken, Clean

LEMMA FinishPositions ==
  ASSUME TypeOK, NEW j \in Thread, Finish(j)
  PROVE  /\ j \in Active /\ Active' = Active \ {j}
         /\ \A i \in Active' : job'[i] = job[i] /\ job'[i].time = job[i].time
<1>1. \A i \in Thread \ {j} : job'[i] = job[i]
  BY RenderingsApart DEF Render
<1>2. job[j].pc = "finish" /\ job'[j].pc = "idle"
  BY WriteEffects
<1> QED
  BY <1>1, <1>2 DEF Active

LEMMA StartPositions ==
  ASSUME TypeOK, NEW j \in Thread, Start(j)
  PROVE  /\ j \notin Active /\ Active' = Active \union {j}
         /\ \A i \in Active : job'[i] = job[i] /\ job'[i].time = job[i].time
         /\ job'[j].time = Modified
<1>1. \A i \in Thread \ {j} : job'[i] = job[i]
  BY RenderingsApart DEF Render
<1> QED
  BY <1>1, StartEffect DEF Active

LEMMA KnownRender ==
  ASSUME TypeOK, HasLastChange, Known, NEW j \in Thread, Render(j)
  PROVE  Known'
<1> USE TimesType
<1>0. edited' = edited /\ now' = now /\ \A i \in Thread \ {j} : job'[i] = job[i]
  BY RenderingsApart
<1>1. \A i \in Active' : job'[i].time \in edited'
  <2>1. CASE Start(j)
    BY <1>0, <2>1, StartEffect DEF Active, Known
  <2>2. CASE Moves(j)
    BY <1>0, <2>2, MovesPositions DEF Known
  <2>3. CASE Finish(j)
    BY <1>0, <2>3, WriteEffects DEF Active, Known
  <2> QED
    BY <2>1, <2>2, <2>3 DEF Render, Moves
<1>2. \A a \in done' : a.time \in edited'
  <2>1. CASE Finish(j)
    BY <1>0, <2>1, WriteEffects DEF Finish, Active, Known
  <2>2. CASE done' = done
    BY <1>0, <2>2 DEF Known
  <2> QED
    BY <2>1, <2>2 DEF Render, Start, Stat, Read, Truncate, Write, Utime, WriteFails
<1>3. \A f \in file' : f.mtime <= now'
  <2>1. CASE Utime(j)
    <3>1. j \in Active
      BY <2>1, WriteEffects DEF Active
    <3>2. \A f \in file' : f.mtime = job[j].time
      BY <2>1 DEF Utime, SeqFile
    <3> QED
      BY <1>0, <3>1, <3>2 DEF Known
  <2>2. CASE Truncate(j) \/ Write(j)
    BY <1>0, <2>2 DEF Truncate, Write
  <2>3. CASE file' = file
    BY <1>0, <2>3 DEF Known
  <2> QED
    BY <2>1, <2>2, <2>3 DEF Render, Start, Stat, Read, WriteFails, Finish
<1> QED
  BY <1>1, <1>2, <1>3 DEF Known

LEMMA ApartRender ==
  ASSUME TypeOK, HasLastChange, Known, Apart, NEW j \in Thread, Render(j)
  PROVE  Apart'
<1> USE TimesType
<1>0. /\ \A i \in Thread \ {j} : job'[i] = job[i]
      /\ disturbed \subseteq disturbed'
  BY RenderingsApart
<1>1. CASE Start(j)
  <2>1. Active' = Active \union {j} /\ Writing' = Writing /\ j \notin Writing
    BY <1>0, <1>1, StartEffect, Writers DEF Active
  <2>2. SUFFICES ASSUME NEW i \in Writing, NEW v \in Time,
                        \/ job[i].time <= v /\ v <= Modified
                        \/ Modified <= v /\ v <= job[i].time
                 PROVE  Day(v) \in disturbed'
    BY <1>0, <1>1, <2>1, StartEffect DEF Apart, Broken
  <2>3. job[i].time <= Modified /\ Modified <= now
    BY DEF Known
  <2>4. job[i].time <= v /\ v <= now
    BY <2>2, <2>3
  <2>5. Day(v) \in DaysSince(Writing)
    BY <2>4, DaysSinceHas
  <2> QED
    BY <1>1, <2>5 DEF Start
<1>2. CASE Truncate(j)
  <2>1. /\ Active' = Active /\ Writing' = Writing \union {j} /\ j \in Active
        /\ \A i \in Thread : job'[i].time = job[i].time
    BY <1>2, MovesPositions, Writers DEF Moves
  <2>2. SUFFICES ASSUME NEW i \in Active \ {j}, NEW v \in Time,
                        \/ job[i].time <= v /\ v <= job[j].time
                        \/ job[j].time <= v /\ v <= job[i].time
                 PROVE  Day(v) \in disturbed'
    BY <1>0, <2>1 DEF Apart, Broken
  <2>3. job[i].time <= now /\ job[j].time <= now
    BY <2>1 DEF Known
  <2>4. v <= now /\ (job[i].time <= v \/ job[j].time <= v)
    BY <2>2, <2>3, <2>1
  <2>5. Day(v) \in DaysSince(Active)
    BY <2>1, <2>4, DaysSinceHas
  <2> QED
    BY <1>2, <2>5 DEF Truncate
<1>3. CASE Stat(j) \/ Read(j) \/ Write(j) \/ Utime(j) \/ WriteFails(j)
  <2>1. /\ Active' = Active /\ Writing' \subseteq Writing
        /\ \A i \in Thread : job'[i].time = job[i].time
    BY <1>3, MovesPositions, Writers DEF Moves
  <2> QED
    BY <1>0, <2>1 DEF Apart, Broken
<1>4. CASE Finish(j)
  <2>1. /\ Active' = Active \ {j} /\ Writing' = Writing /\ j \notin Writing
        /\ \A i \in Active' : job'[i].time = job[i].time
    BY <1>4, FinishPositions, Writers
  <2> QED
    BY <1>0, <2>1 DEF Apart, Broken
<1> QED
  BY <1>1, <1>2, <1>3, <1>4 DEF Render

LEMMA NotOvertakenRender ==
  ASSUME TypeOK, HasLastChange, Known, Apart, NotOvertaken, NEW j \in Thread, Render(j)
  PROVE  NotOvertaken'
<1> USE TimesType
<1>0. disturbed \subseteq disturbed' /\ edited' = edited
  BY RenderingsApart
<1>m. Modified' = Modified
  BY <1>0 DEF Modified
<1>1. CASE Start(j)
  <2>1. /\ Active' = Active \union {j} /\ job'[j].time = Modified
        /\ \A i \in Active : job'[i].time = job[i].time
    BY <1>1, StartPositions
  <2>2. Writing' = Writing /\ file' = file
    BY <1>1, Writers DEF Start, Render
  <2> QED
    BY <1>0, <1>m, <2>1, <2>2 DEF NotOvertaken, Broken
<1>2. CASE Stat(j) \/ Read(j) \/ Finish(j)
  <2>1. /\ Active' \subseteq Active
        /\ \A i \in Active' : job'[i].time = job[i].time
    BY <1>2, MovesPositions, FinishPositions DEF Moves
  <2>2. Writing' = Writing /\ file' = file
    BY <1>2, Writers DEF Stat, Read, Finish, Render
  <2> QED
    BY <1>0, <1>m, <2>1, <2>2 DEF NotOvertaken, Broken
<1>3. CASE Truncate(j) \/ Write(j)
  <2>1. j \in Writing'
    BY <1>3, Writers DEF Render
  <2> QED
    BY <2>1 DEF NotOvertaken
<1>4. CASE Utime(j)
  <2>1. /\ j \in Active /\ Active' = Active
        /\ \A i \in Thread : job'[i].time = job[i].time
    BY <1>4, MovesPositions DEF Moves
  <2>2. \A f \in file' : f.mtime = job[j].time
    BY <1>4 DEF Utime, SeqFile
  <2>3. j \in Writing
    BY <1>4, Writers DEF Render
  <2>4. job[j].time <= Modified
    BY <2>1 DEF Known
  <2> QED
    BY <1>0, <1>m, <2>1, <2>2, <2>3, <2>4 DEF NotOvertaken, Apart, Broken
<1>5. CASE WriteFails(j)
  <2>1. /\ j \in Active /\ Active' = Active /\ file' = file
        /\ \A i \in Thread : job'[i].time = job[i].time
    BY <1>5, MovesPositions DEF Moves, WriteFails
  <2>2. Writing' = Writing \ {j}
    BY <1>5, Writers DEF Render
  <2>3. CASE j \notin Writing
    BY <1>0, <1>m, <2>1, <2>2, <2>3 DEF NotOvertaken, Broken
  <2>4. CASE j \in Writing
    <3>1. \A v \in Time : job[j].time <= v /\ v <= now => Day(v) \in disturbed'
      BY <1>5, DaysSinceHas DEF WriteFails
    <3>2. \A f \in file : f.mtime <= now
      BY DEF Known
    <3>3. job[j].time <= Modified
      BY <2>1 DEF Known
    <3>4. ASSUME NEW i \in Active, NEW f \in file, NEW v \in Time,
                 job[i].time <= v, v <= f.mtime
          PROVE  Day(v) \in disturbed'
      <4>1. CASE job[j].time <= v
        BY <3>1, <3>2, <3>4, <4>1
      <4>2. CASE v < job[j].time
        <5>1. i # j
          BY <3>4, <4>2
        <5> QED
          BY <1>0, <2>4, <3>4, <4>2, <5>1 DEF Apart, Broken
      <4> QED
        BY <2>1, <4>1, <4>2
    <3>5. ASSUME NEW f \in file, NEW v \in Time, Modified <= v, v <= f.mtime
          PROVE  Day(v) \in disturbed'
      <4>1. job[j].time <= v /\ v <= now
        BY <2>1, <3>2, <3>3, <3>5
      <4> QED
        BY <3>1, <4>1
    <3> QED
      BY <1>m, <2>1, <3>4, <3>5 DEF NotOvertaken, Broken
  <2> QED
    BY <2>3, <2>4
<1> QED
  BY <1>1, <1>2, <1>3, <1>4, <1>5 DEF Render

LEMMA NotLateRender ==
  ASSUME TypeOK, HasLastChange, Known, NotLate, FinishInOrder, NEW j \in Thread, Render(j)
  PROVE  NotLate'
<1> USE TimesType
<1>0. disturbed \subseteq disturbed'
  BY RenderingsApart
<1>1. CASE Start(j)
  <2>1. /\ Active' = Active \union {j} /\ job'[j].time = Modified /\ done' = done
        /\ \A i \in Active : job'[i].time = job[i].time
    BY <1>1, StartPositions DEF Start
  <2>2. \A a \in done : ~(Modified < a.time)
    BY DEF Known
  <2> QED
    BY <1>0, <2>1, <2>2 DEF NotLate, Clean
<1>2. CASE Moves(j)
  <2>1. /\ Active' = Active /\ done' = done
        /\ \A i \in Thread : job'[i].time = job[i].time
    BY <1>2, MovesPositions DEF Moves, Stat, Read, Truncate, Write, Utime, WriteFails
  <2> QED
    BY <1>0, <2>1 DEF NotLate, Clean
<1>3. CASE Finish(j)
  <2>1. /\ j \in Active /\ Active' \subseteq Active /\ job[j].pc = "finish"
        /\ \A i \in Active' : job'[i].time = job[i].time
    BY <1>3, FinishPositions, WriteEffects
  <2>2. \A a \in done' : a \in done \/ a.time = job[j].time
    BY <1>3 DEF Finish
  <2> QED
    BY <1>0, <2>1, <2>2 DEF NotLate, FinishInOrder, Clean
<1> QED
  BY <1>1, <1>2, <1>3 DEF Render, Moves

LEMMA ReachedRender ==
  ASSUME TypeOK, HasLastChange, Known, NotLate, Reached, NEW j \in Thread, Render(j),
         Clean(job[j].time) /\ job[j].pc = "finish"
            => \E f \in file : f.mtime = job[j].time
  PROVE  Reached'
<1> USE TimesType
<1>0. disturbed \subseteq disturbed'
  BY RenderingsApart
<1>1. CASE Truncate(j) \/ Write(j)
  <2>1. done' = done /\ \E n : file' = {[mtime |-> now, number |-> n]}
    BY <1>1, Zenon DEF Truncate, Write
  <2>3. \E f \in file' : f.mtime = now
    BY <2>1
  <2>2. \A a \in done : a.time <= now
    BY DEF Known
  <2> QED
    BY <2>1, <2>2, <2>3 DEF Reached
<1>2. CASE Utime(j)
  <2>1. done' = done /\ \E f \in file' : f.mtime = job[j].time
    BY <1>2 DEF Utime, SeqFile, TypeOK
  <2>2. j \in Active
    BY <1>2, MovesPositions DEF Moves
  <2>3. \A a \in done : ~Clean(a.time) \/ a.time <= job[j].time
    BY <2>2 DEF NotLate, Known
  <2> QED
    BY <1>0, <2>1, <2>3 DEF Reached, Clean
<1>3. CASE Finish(j)
  <2>1. \A a \in done' : a \in done \/ a.time = job[j].time
    BY <1>3 DEF Finish
  <2> QED
    BY <1>0, <1>3, <2>1, WriteEffects DEF Finish, Reached, Clean
<1>4. CASE file' = file /\ done' = done
  BY <1>0, <1>4 DEF Reached, Clean
<1> QED
  BY <1>1, <1>2, <1>3, <1>4 DEF Render, Start, Stat, Read, WriteFails

-----------------------------------------------------------------------------
(* The other parts of the invariant say what a rendering knows and what is *)
(* in the file.                                                             *)

\* What is done, a, precedes the change at t with the sequence number n.
Precedes(a, t, n, seconds) ==
  a.time < t /\ (a.serial < Serial(t, n) \/ Full(seconds, Day(t)))

\* The number that a rendering is about to write is right beside what is done.
Fits(j) ==
  /\ job[j].number <= Cardinality(UpTo(edited, job[j].time))
  /\ \A a \in done : Day(a.time) = Day(job[j].time)
       => Precedes(a, job[j].time, job[j].number, edited)

\* The file that it replaces is of an older change.
Replaces(j) ==
  \A f \in file :
    /\ f.mtime < job[j].time
    /\ Day(f.mtime) = Day(job[j].time)
         => f.number < job[j].number \/ Full(edited, Day(job[j].time))

\* What a rendering knows at its position.
StageOK(j) ==
  /\ job[j].pc = "read" => \E f \in file : job[j].filetime = f.mtime
  /\ job[j].pc = "truncate" => Fits(j) /\ Replaces(j)
  /\ job[j].pc = "write" => Fits(j)
  /\ job[j].pc = "utime" => Fits(j) /\ \A f \in file : f.number = job[j].number
  /\ job[j].pc = "finish"
       => \E f \in file : f.mtime = job[j].time /\ f.number = job[j].number

Stages == \A j \in Thread : Clean(job[j].time) => StageOK(j)

\* The file is empty or of a time of its own only while somebody writes it, or on
\* a day that is disturbed.
Damaged ==
  \A f \in file : Clean(f.mtime) =>
    \/ Writing = {} /\ f.number # Empty
    \/ \E i \in Writing : job[i].time <= f.mtime

\* The file that nobody writes is of the last change of its day that is done.
FileOK ==
  Writing = {} => \A f \in file : Clean(f.mtime) =>
    /\ f.mtime \in edited
    /\ f.number <= Cardinality(UpTo(edited, f.mtime))
    /\ \A a \in done : Day(a.time) = Day(f.mtime) =>
         \/ a.time = f.mtime /\ a.serial = Serial(f.mtime, f.number)
         \/ Precedes(a, f.mtime, f.number, edited)

SerialInv ==
  /\ TypeOK /\ HasLastChange /\ SerialOfItsDay
  /\ Known /\ Apart /\ NotOvertaken /\ NotLate /\ FinishInOrder /\ Reached
  /\ Stages /\ Damaged /\ FileOK

\* Nobody writes while a rendering of a clean day is at another position.
LEMMA Alone ==
  ASSUME SerialInv, NEW j \in Active, j \notin Writing, Clean(job[j].time)
  PROVE  Writing = {}
  BY WritersApart DEF SerialInv

\* The other renderings of a clean day leave the file alone.
LEMMA FileRests ==
  ASSUME SerialInv, NEW j \in Thread, Render(j),
         NEW k \in Active, k # j, Day(job[k].time) \notin disturbed'
  PROVE  file' = file /\ ~Write(j) /\ ~Utime(j) /\ ~Truncate(j)
<1>0. disturbed \subseteq disturbed'
  BY RenderingsApart DEF SerialInv
<1>1. ~Truncate(j)
  <2>1. TypeOK /\ HasLastChange /\ Known
    BY DEF SerialInv
  <2>2. Day(job[k].time) \in DaysSince(Active)
    BY <2>1, OwnDay
  <2>3. Active # {j}
    OBVIOUS
  <2> QED
    BY <2>2, <2>3 DEF Truncate
<1>2. ~Write(j) /\ ~Utime(j)
  BY <1>0, Writers, WritersApart DEF SerialInv, Clean
<1> QED
  BY <1>1, <1>2 DEF Render, Start, Stat, Read, WriteFails, Finish

\* What a rendering knows stays true when another one of its day takes a step.
LEMMA StageRests ==
  ASSUME SerialInv, NEW j \in Thread, Render(j), NEW k \in Thread, k # j,
         Day(job'[k].time) \notin disturbed'
  PROVE  StageOK(k)'
<1> USE DEF SerialInv
<1>0. /\ job'[k] = job[k] /\ edited' = edited
      /\ disturbed \subseteq disturbed'
  BY RenderingsApart
<1>1. CASE k \notin Active
  <2>1. job'[k].pc = "idle"
    BY <1>0, <1>1 DEF Active
  <2> QED
    BY <2>1 DEF StageOK
<1>2. CASE k \in Active
  <2>1. file' = file /\ Clean(job[k].time)
    BY <1>0, <1>2, FileRests DEF Clean
  <2>2. StageOK(k)
    BY <2>1 DEF Stages
  <2>3. CASE done' = done
    BY <1>0, <2>1, <2>2, <2>3 DEF StageOK, Fits, Replaces
  <2>4. CASE Finish(j)
    <3> DEFINE e == [change |-> job[j].change, time |-> job[j].time,
                 serial |-> Serial(job[j].time, job[j].number)]
    <3>1. j \in Active /\ job[j].pc = "finish" /\ done' = done \union {e}
      BY <2>4, FinishPositions DEF Finish
    <3>2. k \notin Writing
      BY <3>1, <2>1, WritersApart
    <3>3. CASE job[k].pc = "truncate"
      <4>1. ASSUME Day(job[j].time) = Day(job[k].time)
            PROVE  Precedes(e, job[k].time, job[k].number, edited)
        <5>1. \E f \in file : f.mtime = job[j].time /\ f.number = job[j].number
          BY <2>1, <3>1, <4>1 DEF Stages, StageOK, Clean
        <5>2. /\ job[j].time < job[k].time
              /\ job[j].number < job[k].number \/ Full(edited, Day(job[k].time))
          BY <2>2, <3>3, <4>1, <5>1 DEF StageOK, Replaces
        <5>3. job[j].number < job[k].number => e.serial < Serial(job[k].time, job[k].number)
          <6>1. job[j].number \in SeqNumber /\ job[k].number \in SeqNumber
            BY DEF TypeOK, JobType
          <6>2. Day(job[k].time) \in Int
            BY DayType, TimesType
          <6>3. Day(job[k].time) * Wrap \in Int
            BY <6>2, WrapAssumption
          <6> QED
            BY <4>1, <6>1, <6>3, WrapAssumption DEF Serial, SeqNumber
        <5> QED
          BY <5>2, <5>3 DEF Precedes
      <4> HIDE DEF e
      <4>2. e.time = job[j].time
        BY DEF e
      <4>3. Fits(k) /\ Replaces(k)
        BY <2>2, <3>3 DEF StageOK
      <4>4. Fits(k)' /\ Replaces(k)'
        BY <1>0, <2>1, <3>1, <4>1, <4>2, <4>3 DEF Fits, Replaces
      <4> QED
        BY <1>0, <3>3, <4>4 DEF StageOK
    <3>4. CASE job[k].pc \in {"stat", "read", "finish"}
      BY <1>0, <2>1, <2>2, <3>4 DEF StageOK
    <3> QED
      BY <1>2, <3>2, <3>3, <3>4 DEF Active, Writing, TypeOK, JobType
  <2> QED
    BY <2>3, <2>4 DEF Render, Start, Stat, Read, Truncate, Write, Utime, WriteFails
<1> QED
  BY <1>1, <1>2

-----------------------------------------------------------------------------
(* The sequence number that a rendering decides for. *)

\* The next sequence number: after the last one the numbers begin anew.
LEMMA NumbersWrap ==
  ASSUME NEW n \in SeqNumber
  PROVE  /\ 0 % Wrap = 0 /\ 1 % Wrap = 1
         /\ n + 1 < Wrap => (n + 1) % Wrap = n + 1
         /\ n + 1 >= Wrap => n + 1 = Wrap /\ (n + 1) % Wrap = 0
  BY WrapAssumption DEF SeqNumber

LEMMA SerialOrder ==
  ASSUME NEW t \in Time, NEW u \in Time, Day(t) = Day(u),
         NEW m \in SeqNumber, NEW n \in SeqNumber, m < n
  PROVE  Serial(t, m) < Serial(u, n)
<1>1. Day(t) * Wrap \in Int
  BY DayType, WrapAssumption
<1> QED
  BY <1>1, WrapAssumption DEF Serial, SeqNumber

\* The number for which a rendering decides that finds no file.
LEMMA FirstNumber ==
  ASSUME SerialInv, NEW j \in Thread, Stat(j), file = {}, Clean(job[j].time)
  PROVE  /\ NextNumber(j, 0, job[j].time - 1)
              <= Cardinality(UpTo(edited, job[j].time))
         /\ \A a \in done : Day(a.time) # Day(job[j].time)
<1>0. TypeOK /\ HasLastChange /\ Known /\ Reached
  BY DEF SerialInv
<1>1. job[j].time \in edited
  <2>1. job[j].pc = "stat"
    BY <1>0, StatEffect
  <2> QED
    BY <1>0, <2>1 DEF Known, Active
<1>2. 0 \in SeqNumber
  BY WrapAssumption DEF SeqNumber
<1>3. NextNumber(j, 0, job[j].time - 1) \in {0, 1}
  BY <1>2, NumbersWrap DEF NextNumber
<1>4. /\ Cardinality(UpTo(edited, job[j].time)) \in Nat
      /\ Cardinality(UpTo(edited, job[j].time)) >= 1
  BY <1>0, <1>1, EditedFinite, ChangesCounted
<1>5. \A a \in done : Day(a.time) # Day(job[j].time)
  BY <1>0 DEF Reached, Clean
<1> QED
  BY <1>3, <1>4, <1>5

\* The number for which a rendering decides that finds a file older than the change.
LEMMA NextNumberFits ==
  ASSUME SerialInv, NEW j \in Active, job[j].pc = "read", Clean(job[j].time),
         NEW f \in file, f.mtime < job[j].time,
         NEW n, n = NextNumber(j, FileNumber(f), f.mtime)
  PROVE  /\ n <= Cardinality(UpTo(edited, job[j].time))
         /\ \A a \in done : Day(a.time) = Day(job[j].time)
              => Precedes(a, job[j].time, n, edited)
         /\ Day(f.mtime) = Day(job[j].time)
              => f.number < n \/ Full(edited, Day(job[j].time))
<1> DEFINE t == job[j].time
<1>0. TypeOK /\ HasLastChange /\ Known /\ Reached /\ Damaged /\ FileOK
  BY DEF SerialInv
<1>1. /\ t \in edited /\ t \in Time /\ t \in Int
      /\ f \in SeqFile /\ f.mtime \in Time /\ f.mtime \in Int
  BY <1>0, TimesType DEF Known
<1>2. Writing = {}
  <2>1. j \notin Writing
    BY DEF Writing
  <2> QED
    BY <2>1, Alone
<1>3. /\ Cardinality(UpTo(edited, t)) \in Nat
      /\ Cardinality(UpTo(edited, t)) >= 1
  BY <1>0, <1>1, EditedFinite, ChangesCounted
<1>4. CASE Day(f.mtime) # Day(t)
  <2>1. n = 0
    BY <1>4, WrapAssumption, NumbersWrap DEF NextNumber, SeqNumber
  <2>2. ASSUME NEW a \in done, Day(a.time) = Day(t) PROVE FALSE
    <3>1. a.time <= f.mtime /\ a.time \in Time
      <4>1. Clean(a.time)
        BY <2>2 DEF Clean
      <4>2. \E g \in file : a.time <= g.mtime
        BY <1>0, <4>1 DEF Reached
      <4> QED
        BY <1>0, <4>2 DEF TypeOK
    <3>2. Day(a.time) <= Day(f.mtime) /\ Day(f.mtime) <= Day(t)
      BY <1>1, <3>1, DayMonotone
    <3>3. Day(a.time) \in Int /\ Day(f.mtime) \in Int /\ Day(t) \in Int
      BY <1>1, <3>1, DayType
    <3> QED
      BY <1>4, <2>2, <3>2, <3>3
  <2> QED
    BY <1>3, <1>4, <2>1, <2>2
<1>5. CASE Day(f.mtime) = Day(t)
  <2>1. Clean(f.mtime)
    BY <1>5 DEF Clean
  <2>2. /\ f.mtime \in edited /\ f.number # Empty
        /\ f.number <= Cardinality(UpTo(edited, f.mtime))
        /\ \A a \in done : Day(a.time) = Day(f.mtime) =>
             \/ a.time = f.mtime /\ a.serial = Serial(f.mtime, f.number)
             \/ Precedes(a, f.mtime, f.number, edited)
    BY <1>0, <1>2, <2>1 DEF FileOK, Damaged
  <2>3. f.number \in SeqNumber /\ FileNumber(f) = f.number /\ f.number \in Int
    BY <1>1, <2>2, WrapAssumption DEF SeqFile, FileNumber, SeqNumber
  <2>4. n = (f.number + 1) % Wrap
    BY <1>5, <2>3 DEF NextNumber
  <2>5. /\ Cardinality(UpTo(edited, f.mtime)) + 1 <= Cardinality(UpTo(edited, t))
        /\ Cardinality(UpTo(edited, t)) >= Wrap => Full(edited, Day(t))
        /\ Cardinality(UpTo(edited, f.mtime)) \in Nat
    BY <1>0, <1>1, <1>5, <2>2, EditedFinite, NextChangeCounted, ChangesCounted
  <2>6. ASSUME NEW a \in done, Day(a.time) = Day(t)
        PROVE  a.time < t /\ (a.serial <= Serial(f.mtime, f.number) \/ Full(edited, Day(t)))
    <3>1. a.time \in Time /\ a.time \in Int /\ a.serial \in Int
      BY <1>0, TimeAssumption DEF TypeOK, Time
    <3>2. \/ a.time = f.mtime /\ a.serial = Serial(f.mtime, f.number)
          \/ Precedes(a, f.mtime, f.number, edited)
      BY <1>5, <2>2, <2>6
    <3>3. a.time = f.mtime \/ a.time < f.mtime
      BY <3>2 DEF Precedes
    <3>4. a.time < t
      BY <1>1, <3>1, <3>3
    <3>5. Serial(f.mtime, f.number) \in Int
      <4>1. Day(f.mtime) * Wrap \in Int
        BY <1>1, DayType, WrapAssumption
      <4> QED
        BY <2>3, <4>1 DEF Serial
    <3>6. a.serial <= Serial(f.mtime, f.number) \/ Full(edited, Day(t))
      BY <1>5, <3>1, <3>2, <3>5 DEF Precedes
    <3> QED
      BY <3>4, <3>6
  <2>7. CASE f.number + 1 < Wrap
    <3>1. n = f.number + 1 /\ n \in SeqNumber
      BY <2>3, <2>4, <2>7, NumbersWrap, WrapAssumption DEF SeqNumber
    <3>2. Serial(f.mtime, f.number) < Serial(t, n)
      BY <1>1, <1>5, <2>3, <3>1, SerialOrder
    <3>3. /\ Serial(f.mtime, f.number) \in Int /\ Serial(t, n) \in Int
          /\ \A a \in done : a.serial \in Int
      <4>1. Day(f.mtime) * Wrap \in Int /\ Day(t) * Wrap \in Int
        BY <1>1, DayType, WrapAssumption
      <4> QED
        BY <1>0, <2>3, <3>1, <4>1 DEF Serial, TypeOK
    <3>4. \A a \in done : Day(a.time) = Day(t) => Precedes(a, t, n, edited)
      BY <2>6, <3>2, <3>3 DEF Precedes
    <3>5. n <= Cardinality(UpTo(edited, t)) /\ f.number < n
      BY <1>3, <2>2, <2>3, <2>5, <3>1
    <3> QED
      BY <3>4, <3>5
  <2>8. CASE f.number + 1 >= Wrap
    <3>1. n = 0 /\ f.number + 1 = Wrap
      BY <2>3, <2>4, <2>8, NumbersWrap
    <3>2. Full(edited, Day(t))
      BY <1>3, <2>2, <2>3, <2>5, <3>1, WrapAssumption
    <3> QED
      BY <1>3, <2>6, <3>1, <3>2 DEF Precedes
  <2> QED
    BY <2>3, <2>7, <2>8, WrapAssumption
<1> QED
  BY <1>4, <1>5

\* A rendering of a clean day that finds no newer change in the file is one of
\* the change for which the file was made.
LEMMA FileOfTheChange ==
  ASSUME SerialInv, NEW j \in Active, job[j].pc = "read", Clean(job[j].time),
         NEW f \in file, ~(job[j].time > f.mtime)
  PROVE  f.mtime = job[j].time /\ f.number # Empty
<1>0. TypeOK /\ HasLastChange /\ Known /\ NotOvertaken /\ Damaged
  BY DEF SerialInv
<1>1. Writing = {}
  <2>1. j \notin Writing
    BY DEF Writing
  <2> QED
    BY <2>1, Alone
<1>2. job[j].time \in Time /\ f.mtime \in Time /\ job[j].time \in Int /\ f.mtime \in Int
  BY <1>0, TimesType
<1>3. ~(job[j].time < f.mtime)
  BY <1>0, <1>1, <1>2 DEF NotOvertaken, Broken, Clean
<1>4. f.mtime = job[j].time
  BY <1>2, <1>3
<1> QED
  BY <1>0, <1>1, <1>4 DEF Damaged

LEMMA StageOwn ==
  ASSUME SerialInv, NEW j \in Thread, Render(j), Day(job'[j].time) \notin disturbed'
  PROVE  StageOK(j)'
<1>0. /\ TypeOK /\ HasLastChange /\ Known /\ Stages
      /\ edited' = edited /\ disturbed \subseteq disturbed'
  BY RenderingsApart DEF SerialInv
<1>1. CASE Start(j)
  <2>1. job'[j].pc = "stat"
    BY <1>0, <1>1, StartEffect
  <2> QED
    BY <2>1 DEF StageOK
<1>2. CASE Finish(j)
  <2>1. job'[j].pc = "idle"
    BY <1>0, <1>2, WriteEffects
  <2> QED
    BY <2>1 DEF StageOK
<1>3. CASE Moves(j)
  <2>0. /\ job'[j].time = job[j].time /\ j \in Active
        /\ Clean(job[j].time) /\ StageOK(j) /\ done' = done
    <3>1. job'[j].time = job[j].time /\ j \in Active
      BY <1>0, <1>3, MovesPositions
    <3>2. done' = done /\ Clean(job[j].time)
      BY <1>0, <1>3, <3>1 DEF Moves, Stat, Read, Truncate, Write, Utime, WriteFails, Clean
    <3> QED
      BY <1>0, <3>1, <3>2 DEF Stages
  <2>1. CASE Stat(j)
    <3>1. file' = file
      BY <2>1 DEF Stat
    <3>2. CASE job'[j].pc = "read" /\ \E f \in file : job'[j].filetime = f.mtime
      BY <3>1, <3>2 DEF StageOK
    <3>3. CASE /\ file = {} /\ job'[j].pc = "truncate"
               /\ job'[j].number = NextNumber(j, 0, job[j].time - 1)
      <4>1. /\ job'[j].number <= Cardinality(UpTo(edited, job[j].time))
            /\ \A a \in done : Day(a.time) # Day(job[j].time)
        BY <2>0, <2>1, <3>3, FirstNumber
      <4>2. Fits(j)' /\ Replaces(j)'
        BY <1>0, <2>0, <3>1, <3>3, <4>1 DEF Fits, Replaces
      <4> QED
        BY <3>3, <4>2 DEF StageOK
    <3> QED
      BY <1>0, <2>1, <3>2, <3>3, StatEffect
  <2>2. CASE Read(j)
    <3>1. PICK f \in file :
            \/ /\ job[j].time > job[j].filetime /\ job'[j].pc = "truncate"
               /\ job'[j].number = NextNumber(j, FileNumber(f), job[j].filetime)
            \/ /\ ~(job[j].time > job[j].filetime) /\ job'[j].pc = "finish"
               /\ job'[j].number = FileNumber(f)
      BY <1>0, <2>2, ReadEffect
    <3>2. /\ job[j].pc = "read" /\ file' = file
          /\ \A g \in file : g = f
      BY <1>0, <2>2 DEF Read, TypeOK
    <3>3. job[j].filetime = f.mtime /\ f.mtime \in Int /\ job[j].time \in Int
      BY <1>0, <2>0, <3>2, TimesType DEF StageOK
    <3>4. CASE job[j].time > f.mtime
      <4>1. /\ job'[j].number = NextNumber(j, FileNumber(f), f.mtime)
            /\ job'[j].pc = "truncate" /\ f.mtime < job[j].time
        BY <3>1, <3>3, <3>4
      <4>2. /\ job'[j].number <= Cardinality(UpTo(edited, job[j].time))
            /\ \A a \in done : Day(a.time) = Day(job[j].time)
                 => Precedes(a, job[j].time, job'[j].number, edited)
            /\ Day(f.mtime) = Day(job[j].time)
                 => f.number < job'[j].number \/ Full(edited, Day(job[j].time))
        BY <2>0, <3>2, <4>1, NextNumberFits
      <4>3. Fits(j)' /\ Replaces(j)'
        BY <1>0, <2>0, <3>2, <4>1, <4>2 DEF Fits, Replaces
      <4> QED
        BY <4>1, <4>3 DEF StageOK
    <3>5. CASE ~(job[j].time > f.mtime)
      <4>1. job'[j].pc = "finish" /\ job'[j].number = FileNumber(f)
        BY <3>1, <3>3, <3>5
      <4>2. f.mtime = job[j].time /\ f.number # Empty
        BY <2>0, <3>2, <3>5, FileOfTheChange
      <4> QED
        BY <2>0, <3>2, <4>1, <4>2 DEF StageOK, FileNumber
    <3> QED
      BY <3>4, <3>5
  <2>3. CASE Truncate(j)
    <3>1. /\ job[j].pc = "truncate"
          /\ job'[j].pc = "write" /\ job'[j].number = job[j].number
      BY <1>0, <2>3, WriteEffects DEF TypeOK, JobType
    <3>2. Fits(j)'
      BY <1>0, <2>0, <3>1 DEF StageOK, Fits
    <3> QED
      BY <3>1, <3>2 DEF StageOK
  <2>4. CASE Write(j)
    <3>1. /\ job[j].pc = "write"
          /\ job'[j].pc = "utime" /\ job'[j].number = job[j].number
      BY <1>0, <2>4, WriteEffects DEF TypeOK, JobType
    <3>2. Fits(j)'
      BY <1>0, <2>0, <3>1 DEF StageOK, Fits
    <3>3. \A f \in file' : f.number = job'[j].number
      BY <2>4, <3>1 DEF Write
    <3> QED
      BY <3>1, <3>2, <3>3 DEF StageOK
  <2>5. CASE Utime(j)
    <3>1. /\ job[j].pc = "utime"
          /\ job'[j].pc = "finish" /\ job'[j].number = job[j].number
      BY <1>0, <2>5, WriteEffects DEF TypeOK, JobType
    <3>2. \E f \in file : file' = {[f EXCEPT !.mtime = job[j].time]}
      BY <2>5 DEF Utime
    <3>3. \A f \in file : f \in SeqFile /\ f.number = job[j].number
      BY <1>0, <2>0, <3>1, TimesType DEF StageOK
    <3>4. \E f \in file' : f.mtime = job[j].time /\ f.number = job[j].number
      BY <3>2, <3>3 DEF SeqFile
    <3> QED
      BY <2>0, <3>1, <3>4 DEF StageOK
  <2>6. CASE WriteFails(j)
    <3>2. Day(job[j].time) \in DaysSince({j})
      BY <1>0, <2>0, OwnDay
    <3> QED
      BY <2>0, <2>6, <3>2 DEF WriteFails
  <2> QED
    BY <1>3, <2>1, <2>2, <2>3, <2>4, <2>5, <2>6 DEF Moves
<1> QED
  BY <1>1, <1>2, <1>3 DEF Render, Moves

LEMMA StagesRender ==
  ASSUME SerialInv, NEW j \in Thread, Render(j)
  PROVE  Stages'
<1>1. disturbed \subseteq disturbed'
  BY RenderingsApart DEF SerialInv
<1>2. ASSUME NEW k \in Thread, Day(job'[k].time) \notin disturbed'
      PROVE  StageOK(k)'
  <2>1. CASE k = j
    BY <1>2, <2>1, StageOwn
  <2>2. CASE k # j
    BY <1>2, <2>2, StageRests
  <2> QED
    BY <2>1, <2>2
<1> QED
  BY <1>2 DEF Stages, Clean

LEMMA FinishInOrderRender ==
  ASSUME SerialInv, NEW j \in Thread, Render(j)
  PROVE  FinishInOrder'
<1>0. /\ TypeOK /\ HasLastChange /\ Known /\ Apart /\ NotOvertaken /\ FinishInOrder /\ Stages
      /\ disturbed \subseteq disturbed'
      /\ \A i \in Thread \ {j} : job'[i] = job[i]
  BY RenderingsApart DEF SerialInv
<1> SUFFICES ASSUME NEW i \in Active', NEW k \in Active', job'[i].pc = "finish",
                    job'[k].time < job'[i].time, Day(job'[i].time) \notin disturbed'
             PROVE  FALSE
  BY DEF FinishInOrder, Clean
<1>1. CASE Start(j)
  <2>1. i \in Active /\ job'[i] = job[i]
    BY <1>0, <1>1, StartPositions, StartEffect
  <2>2. job[i].time <= Modified
    BY <1>0, <2>1, TimesType DEF Known
  <2>3. CASE k = j
    BY <1>0, <1>1, <2>1, <2>2, <2>3, StartPositions, TimesType DEF Known
  <2>4. CASE k # j
    BY <1>0, <1>1, <2>1, <2>4, StartPositions DEF FinishInOrder, Clean
  <2> QED
    BY <2>3, <2>4
<1>2. CASE Finish(j)
  BY <1>0, <1>2, FinishPositions DEF FinishInOrder, Clean
<1>3. CASE Moves(j)
  <2>1. /\ Active' = Active /\ j \in Active
        /\ job'[i].time = job[i].time /\ job'[k].time = job[k].time
    BY <1>0, <1>3, MovesPositions, TimesType
  <2>2. /\ Clean(job[i].time) /\ job[k].time < job[i].time
        /\ job[i].time \in Time /\ job[k].time \in Time
        /\ job[i].time \in Int /\ job[k].time \in Int
    BY <1>0, <2>1, TimesType DEF Clean
  <2>3. i # k
    BY <2>2
  <2>4. job[i].pc # "finish"
    BY <1>0, <2>1, <2>2 DEF FinishInOrder
  <2>5. i = j
    BY <1>0, <2>1, <2>4, TimesType
  <2>6. i \notin Writing /\ k \notin Writing
    BY <1>0, <2>1, <2>2, <2>3, WritersApart
  <2>7. CASE Read(j)
    <3>1. PICK f \in file : ~(job[j].time > job[j].filetime)
      BY <1>0, <2>5, <2>7, ReadEffect
    <3>2. job[j].pc = "read"
      BY <2>7 DEF Read
    <3>3. PICK g \in file : job[j].filetime = g.mtime
      BY <1>0, <2>1, <2>2, <2>5, <3>2 DEF Stages, StageOK, Active
    <3>4. g.mtime = job[i].time
      BY <2>1, <2>2, <2>5, <3>1, <3>2, <3>3, FileOfTheChange
    <3>5. Writing = {}
      BY <2>1, <2>2, <2>6, Alone
    <3> QED
      BY <1>0, <2>1, <2>2, <3>4, <3>5 DEF NotOvertaken, Broken, Clean
  <2>8. CASE Utime(j)
    BY <1>0, <2>5, <2>6, <2>8, Writers DEF Render
  <2>9. CASE WriteFails(j)
    <3>2. Day(job[j].time) \in DaysSince({j})
      BY <1>0, <2>1, OwnDay
    <3> QED
      BY <2>1, <2>5, <2>9, <3>2 DEF WriteFails
  <2>10. CASE Stat(j) \/ Truncate(j) \/ Write(j)
    <3>1. job'[j].pc # "finish"
      <4>1. Stat(j) => job'[j].pc # "finish"
        BY <1>0, StatEffect
      <4>2. Truncate(j) \/ Write(j) => job'[j].pc # "finish"
        BY <1>0, WriteEffects DEF TypeOK, JobType
      <4> QED
        BY <2>10, <4>1, <4>2
    <3> QED
      BY <2>5, <3>1
  <2> QED
    BY <1>3, <2>7, <2>8, <2>9, <2>10 DEF Moves
<1> QED
  BY <1>1, <1>2, <1>3 DEF Render, Moves

-----------------------------------------------------------------------------
(* The file, and all parts together. *)

LEMMA DamagedRender ==
  ASSUME SerialInv, NEW j \in Thread, Render(j)
  PROVE  Damaged'
<1>0. /\ TypeOK /\ HasLastChange /\ Known /\ Apart /\ Damaged /\ Stages
      /\ disturbed \subseteq disturbed'
      /\ \A i \in Thread \ {j} : job'[i] = job[i]
      /\ Writing \subseteq Thread /\ Writing \subseteq Active
  BY RenderingsApart DEF SerialInv, Writing, Active
<1>1. CASE Start(j) \/ Stat(j) \/ Read(j) \/ Finish(j)
  <2>1. file' = file
    BY <1>1 DEF Start, Stat, Read, Finish
  <2>2. Writing' = Writing /\ j \notin Writing
    BY <1>0, <1>1, Writers
  <2>3. \A i \in Writing : job'[i].time = job[i].time
    BY <1>0, <2>2
  <2> QED
    BY <1>0, <2>1, <2>2, <2>3 DEF Damaged, Clean
<1>2. CASE Truncate(j) \/ Write(j)
  <2>1. j \in Writing' /\ job'[j].time = job[j].time /\ j \in Active
    BY <1>0, <1>2, Writers, MovesPositions DEF Moves, Render
  <2>2. \E n : file' = {[mtime |-> now, number |-> n]}
    BY <1>2, Zenon DEF Truncate, Write
  <2>3. \A f \in file' : f.mtime = now
    BY <2>2
  <2>4. job[j].time <= now
    BY <1>0, <2>1, TimesType DEF Known
  <2> QED
    BY <2>1, <2>3, <2>4 DEF Damaged
<1>3. CASE Utime(j)
  <2>1. /\ job[j].pc = "utime" /\ j \in Writing /\ Writing' = Writing \ {j}
        /\ job[j].time \in Time
    BY <1>0, <1>3, Writers, WriteEffects, TimesType DEF Render
  <2>2. ASSUME NEW f \in file', Day(f.mtime) \notin disturbed'
        PROVE  Writing' = {} /\ f.number # Empty
    <3>1. PICK g \in file : file' = {[g EXCEPT !.mtime = job[j].time]}
      BY <1>3 DEF Utime
    <3>2. f.mtime = job[j].time /\ f.number = g.number
      BY <1>0, <3>1, TimesType DEF SeqFile
    <3>3. Clean(job[j].time)
      BY <1>0, <2>2, <3>2 DEF Clean
    <3>4. Writing' = {}
      BY <1>0, <2>1, <3>3, WritersApart
    <3>5. g.number = job[j].number
      BY <1>0, <2>1, <3>3 DEF Stages, StageOK
    <3>6. job[j].number \in SeqNumber
      BY <1>0, <2>1 DEF TypeOK, JobType
    <3> QED
      BY <3>2, <3>4, <3>5, <3>6, WrapAssumption DEF Empty, SeqNumber
  <2> QED
    BY <2>2 DEF Damaged, Clean
<1>4. CASE WriteFails(j)
  <2>1. file' = file /\ j \in Active
    BY <1>0, <1>4, MovesPositions DEF WriteFails, Moves
  <2>2. Writing' = Writing \ {j}
    BY <1>0, <1>4, Writers
  <2>3. \A i \in Writing' : job'[i].time = job[i].time
    BY <1>0, <2>2
  <2>4. \A v \in Time : job[j].time <= v /\ v <= now => Day(v) \in disturbed'
    BY <1>0, <1>4, DaysSinceHas DEF WriteFails
  <2>5. \A f \in file : f.mtime \in Time /\ f.mtime <= now
    BY <1>0, TimesType DEF Known
  <2>6. \A f \in file' : Day(f.mtime) \notin disturbed' =>
          \/ Writing = {} /\ f.number # Empty
          \/ \E i \in Writing : i # j /\ job[i].time <= f.mtime
    BY <1>0, <2>1, <2>4, <2>5 DEF Damaged, Clean
  <2> QED
    BY <2>2, <2>3, <2>6 DEF Damaged, Clean
<1> QED
  BY <1>1, <1>2, <1>3, <1>4 DEF Render

LEMMA FileOKRender ==
  ASSUME SerialInv, NEW j \in Thread, Render(j)
  PROVE  FileOK'
<1>0. /\ TypeOK /\ HasLastChange /\ Known /\ Apart /\ Damaged /\ Stages /\ FileOK
      /\ edited' = edited /\ disturbed \subseteq disturbed'
  BY RenderingsApart DEF SerialInv
<1>1. CASE Start(j) \/ Stat(j) \/ Read(j)
  <2>1. file' = file /\ done' = done /\ Writing' = Writing
    BY <1>0, <1>1, Writers DEF Start, Stat, Read
  <2> QED
    BY <1>0, <2>1 DEF FileOK, Clean
<1>2. CASE Truncate(j) \/ Write(j)
  <2>1. j \in Writing'
    BY <1>0, <1>2, Writers
  <2> QED
    BY <2>1 DEF FileOK
<1>3. CASE Utime(j)
  <2>1. /\ job[j].pc = "utime" /\ j \in Active /\ done' = done
        /\ job[j].time \in edited
    BY <1>0, <1>3, MovesPositions DEF Moves, Utime, Known
  <2>2. ASSUME NEW f \in file', Day(f.mtime) \notin disturbed'
        PROVE  f.mtime = job[j].time /\ f.number = job[j].number /\ Fits(j)
    <3>1. PICK g \in file : file' = {[g EXCEPT !.mtime = job[j].time]}
      BY <1>3 DEF Utime
    <3>2. f.mtime = job[j].time /\ f.number = g.number
      BY <1>0, <3>1, TimesType DEF SeqFile
    <3>3. Clean(job[j].time)
      BY <1>0, <2>2, <3>2 DEF Clean
    <3> QED
      BY <1>0, <2>1, <3>2, <3>3 DEF Stages, StageOK
  <2> QED
    BY <1>0, <2>1, <2>2 DEF FileOK, Clean, Fits
<1>4. CASE WriteFails(j)
  <2>1. file' = file /\ done' = done /\ j \in Active
    BY <1>0, <1>4, MovesPositions DEF WriteFails, Moves
  <2>2. Writing' = Writing \ {j}
    BY <1>0, <1>4, Writers
  <2>3. CASE j \notin Writing
    BY <1>0, <2>1, <2>2, <2>3 DEF FileOK, Clean
  <2>4. CASE Writing = {j}
    <3>1. \A v \in Time : job[j].time <= v /\ v <= now => Day(v) \in disturbed'
      BY <1>0, <1>4, DaysSinceHas DEF WriteFails
    <3>2. \A f \in file : f.mtime \in Time /\ f.mtime <= now
      BY <1>0, TimesType DEF Known
    <3>3. \A f \in file : Day(f.mtime) \in disturbed'
      BY <1>0, <2>4, <3>1, <3>2 DEF Damaged, Clean
    <3> QED
      BY <2>1, <3>3 DEF FileOK, Clean
  <2>5. CASE j \in Writing /\ Writing # {j}
    BY <2>2, <2>5 DEF FileOK
  <2> QED
    BY <2>3, <2>4, <2>5
<1>5. CASE Finish(j)
  <2>1. file' = file /\ Writing' = Writing /\ job[j].pc = "finish"
    BY <1>0, <1>5, Writers DEF Finish
  <2> DEFINE e == [change |-> job[j].change, time |-> job[j].time,
                 serial |-> Serial(job[j].time, job[j].number)]
  <2>2. done' = done \union {e}
    BY <1>5 DEF Finish
  <2>3. ASSUME NEW f \in file, Clean(f.mtime), Day(e.time) = Day(f.mtime)
        PROVE  e.time = f.mtime /\ e.serial = Serial(f.mtime, f.number)
    <3>1. Clean(job[j].time)
      BY <2>3 DEF Clean
    <3>2. \E g \in file : g.mtime = job[j].time /\ g.number = job[j].number
      BY <1>0, <2>1, <3>1 DEF Stages, StageOK
    <3>3. f.mtime = job[j].time /\ f.number = job[j].number
      BY <1>0, <3>2 DEF TypeOK
    <3> QED
      BY <3>3
  <2> HIDE DEF e
  <2> QED
    BY <1>0, <2>1, <2>2, <2>3 DEF FileOK, Clean
<1> QED
  BY <1>1, <1>2, <1>3, <1>4, <1>5 DEF Render

LEMMA SerialInvRender ==
  ASSUME SerialInv, TypeOK', HasLastChange', SerialOfItsDay', NEW j \in Thread, Render(j)
  PROVE  SerialInv'
<1>1. /\ TypeOK /\ HasLastChange /\ Known /\ Apart /\ NotOvertaken /\ NotLate
      /\ FinishInOrder /\ Reached /\ Stages
  BY DEF SerialInv
<1>2. Known' /\ Apart' /\ NotOvertaken' /\ NotLate'
  BY <1>1, KnownRender, ApartRender, NotOvertakenRender, NotLateRender
<1>3. Reached'
  <2>1. Clean(job[j].time) /\ job[j].pc = "finish"
          => \E f \in file : f.mtime = job[j].time
    BY <1>1 DEF Stages, StageOK
  <2> QED
    BY <1>1, <2>1, ReachedRender
<1>4. FinishInOrder' /\ Stages' /\ Damaged' /\ FileOK'
  BY FinishInOrderRender, StagesRender, DamagedRender, FileOKRender
<1> QED
  BY <1>2, <1>3, <1>4 DEF SerialInv

\* The clock, the administrator and the end of the server.
LEMMA SerialInvWorld ==
  ASSUME SerialInv, TypeOK', HasLastChange', SerialOfItsDay',
         Tick \/ Edit \/ Stop \/ UNCHANGED vars
  PROVE  SerialInv'
<1>0. /\ TypeOK /\ HasLastChange /\ Known /\ Apart /\ NotOvertaken /\ NotLate
      /\ FinishInOrder /\ Reached /\ Stages /\ Damaged /\ FileOK
  BY DEF SerialInv
<1>1. /\ file' = file /\ done' = done /\ disturbed \subseteq disturbed'
      /\ now' \in Int /\ now' >= now /\ edited \subseteq edited' /\ edited' \subseteq Time
  <2>1. now' \in Int /\ now' >= now
    BY <1>0, TimeAssumption DEF Tick, Edit, Stop, vars, world, TypeOK, Time
  <2>2. edited' \subseteq Time
    BY TimeAssumption DEF TypeOK, Time
  <2> QED
    BY <2>1, <2>2 DEF Tick, Edit, Stop, vars, world
<1>2. CASE job' = job
  <2>1. Active' = Active /\ Writing' = Writing
    BY <1>2 DEF Active, Writing
  <2>2. Known'
    <3>1. \A f \in file : f.mtime <= now'
      BY <1>0, <1>1, TimesType DEF Known
    <3> QED
      BY <1>0, <1>1, <1>2, <2>1, <3>1 DEF Known
  <2>3. Apart' /\ NotLate' /\ FinishInOrder' /\ Reached'
    BY <1>0, <1>1, <1>2, <2>1 DEF Apart, NotLate, FinishInOrder, Reached, Broken, Clean
  <2>4. NotOvertaken'
    <3>1. CASE edited' = edited
      <4>1. Modified' = Modified
        BY <3>1 DEF Modified
      <4> QED
        BY <1>0, <1>1, <1>2, <2>1, <4>1 DEF NotOvertaken, Broken
    <3>2. CASE Edit
      <4>1. Modified' \in edited' /\ \A u \in edited' : u <= Modified'
        BY ModifiedIsLast DEF HasLastChange, Modified
      <4>2. Modified' >= now /\ Modified' \in Int /\ now \in Int
        BY <1>0, <1>1, <3>2, <4>1, TimesType DEF Edit
      <4>3. \A f \in file : ~(Modified' < f.mtime)
        BY <1>0, <4>2, TimesType DEF Known
      <4> QED
        BY <1>0, <1>1, <1>2, <2>1, <4>3 DEF NotOvertaken, Broken
    <3> QED
      BY <3>1, <3>2 DEF Tick, Stop, vars, world
  <2>5. /\ \A t : /\ Cardinality(UpTo(edited, t)) <= Cardinality(UpTo(edited', t))
                  /\ Cardinality(UpTo(edited, t)) \in Nat
                  /\ Cardinality(UpTo(edited', t)) \in Nat
                  /\ Full(edited, Day(t)) => Full(edited', Day(t))
    BY <1>1, CountsGrow
  <2>6. Stages'
    <3> SUFFICES ASSUME NEW k \in Thread, Clean(job[k].time), StageOK(k)
                 PROVE  StageOK(k)'
      BY <1>0, <1>1, <1>2 DEF Stages, Clean
    <3>1. job[k].number \in Int
      BY <1>0, WrapAssumption DEF TypeOK, JobType, SeqNumber
    <3>2. Fits(k) => Fits(k)'
      BY <1>1, <1>2, <2>5, <3>1 DEF Fits, Precedes
    <3>3. Replaces(k) => Replaces(k)'
      BY <1>1, <1>2, <2>5 DEF Replaces
    <3> QED
      BY <1>1, <1>2, <3>2, <3>3 DEF StageOK
  <2>7. Damaged'
    BY <1>0, <1>1, <1>2, <2>1 DEF Damaged, Clean
  <2>8. FileOK'
    <3>1. \A f \in file : f.number \in Int
      BY <1>0, WrapAssumption, TimesType DEF SeqFile, SeqNumber, Empty
    <3> QED
      BY <1>0, <1>1, <2>1, <2>5, <3>1 DEF FileOK, Clean, Precedes
  <2> QED
    BY <2>2, <2>3, <2>4, <2>6, <2>7, <2>8 DEF SerialInv
<1>3. CASE Stop
  <2>1. /\ \A i \in Thread : job'[i].pc = "idle"
        /\ edited' = edited /\ now' = now
        /\ disturbed' = disturbed \union DaysSince(Writing)
    BY <1>3 DEF Stop, NotRunning, world
  <2>2. Active' = {} /\ Writing' = {}
    BY <2>1 DEF Active, Writing
  <2>3. Known' /\ Apart' /\ NotLate' /\ FinishInOrder' /\ Reached'
    BY <1>0, <1>1, <2>1, <2>2
    DEF Known, Apart, NotLate, FinishInOrder, Reached, Clean
  <2>4. Stages'
    BY <2>1 DEF Stages, StageOK
  <2>5. Modified' = Modified
    BY <2>1 DEF Modified
  <2>6. \A i \in Writing : \A v \in Time : job[i].time <= v /\ v <= now => Day(v) \in disturbed'
    BY <1>0, <2>1, DaysSinceHas
  <2>7. \A f \in file : f.mtime \in Time /\ f.mtime <= now /\ f.mtime \in Int
    BY <1>0, TimesType DEF Known
  <2>8. NotOvertaken'
    <3>1. CASE Writing = {}
      BY <1>0, <1>1, <2>2, <2>5, <3>1 DEF NotOvertaken, Broken
    <3>2. ASSUME NEW i \in Writing PROVE NotOvertaken'
      <4>1. job[i].time <= Modified /\ job[i].time \in Int /\ Modified \in Int
        BY <1>0, TimesType DEF Known
      <4>2. now \in Int /\ Time \subseteq Int
        BY <1>0, TimesType
      <4>3. ASSUME NEW f \in file, NEW v \in Time, Modified <= v, v <= f.mtime
            PROVE  Day(v) \in disturbed'
        <5>1. job[i].time <= v /\ v <= now
          BY <2>7, <4>1, <4>2, <4>3
        <5> QED
          BY <2>6, <5>1
      <4> QED
        BY <1>1, <2>2, <2>5, <4>3 DEF NotOvertaken, Broken
    <3> QED
      BY <3>1, <3>2
  <2>9. CASE Writing = {}
    BY <1>0, <1>1, <2>1, <2>2, <2>3, <2>4, <2>8, <2>9 DEF SerialInv, Damaged, FileOK, Clean
  <2>10. CASE Writing # {}
    <3>1. \A f \in file : Day(f.mtime) \in disturbed'
      BY <1>0, <1>1, <2>6, <2>7, <2>10 DEF Damaged, Clean
    <3>2. Damaged' /\ FileOK'
      BY <1>1, <3>1 DEF Damaged, FileOK, Clean
    <3> QED
      BY <2>3, <2>4, <2>8, <3>2 DEF SerialInv
  <2> QED
    BY <2>9, <2>10
<1> QED
  BY <1>2, <1>3 DEF Tick, Edit, vars

-----------------------------------------------------------------------------
(* The serials that are given out. *)

\* The serial of a change b is right beside that of a.
Follows(a, b) ==
  \/ Day(b.time) \in disturbed
  \/ a.time = b.time /\ a.serial = b.serial
  \/ a.time < b.time /\ a.serial < b.serial
  \/ a.time < b.time /\ Full(edited, Day(b.time))
  \/ a.time > b.time

LEMMA FollowsIsTheProperty ==
  SerialsFollowTimes <=> \A a, b \in done : Follows(a, b)
  BY DEF SerialsFollowTimes, Follows, Full, ChangedOn

\* A rendering that is done fits in with all that are.
LEMMA FinishFollows ==
  ASSUME SerialInv, NEW j \in Thread, Finish(j), NEW a \in done
  PROVE  LET e == [change |-> job[j].change, time |-> job[j].time,
                 serial |-> Serial(job[j].time, job[j].number)]
         IN  Follows(a, e) /\ Follows(e, a)
<1> DEFINE e == [change |-> job[j].change, time |-> job[j].time,
                 serial |-> Serial(job[j].time, job[j].number)]
<1>0. TypeOK /\ HasLastChange /\ SerialOfItsDay /\ Known /\ NotLate /\ Stages /\ FileOK
  BY DEF SerialInv
<1>1. /\ j \in Active /\ j \notin Writing /\ job[j].pc = "finish"
      /\ e.time = job[j].time /\ e.time \in Time /\ e.time \in Int
      /\ a.time \in Time /\ a.time \in Int
  <2>1. j \in Active /\ j \notin Writing /\ job[j].pc = "finish" /\ job[j].time \in Time
    BY <1>0, FinishPositions, WriteEffects, Writers, TimesType DEF Render
  <2> QED
    BY <1>0, <2>1, TimeAssumption DEF TypeOK, Time
<1>2. Clean(e.time) /\ Day(a.time) = Day(e.time) =>
        \/ a.time = e.time /\ a.serial = e.serial
        \/ a.time < e.time /\ (a.serial < e.serial \/ Full(edited, Day(e.time)))
  <2> SUFFICES ASSUME Clean(e.time), Day(a.time) = Day(e.time)
               PROVE  \/ a.time = e.time /\ a.serial = e.serial
                      \/ a.time < e.time /\ (a.serial < e.serial \/ Full(edited, Day(e.time)))
    OBVIOUS
  <2>1. PICK f \in file : f.mtime = job[j].time /\ f.number = job[j].number
    BY <1>0, <1>1 DEF Stages, StageOK
  <2>2. Writing = {}
    BY <1>1, Alone
  <2>3. \/ a.time = f.mtime /\ a.serial = Serial(f.mtime, f.number)
        \/ Precedes(a, f.mtime, f.number, edited)
    BY <1>0, <1>1, <2>1, <2>2 DEF FileOK
  <2> QED
    BY <2>1, <2>3 DEF Precedes
<1>3. Day(a.time) < Day(e.time) => a.time < e.time /\ a.serial < e.serial
  <2> SUFFICES ASSUME Day(a.time) < Day(e.time)
               PROVE  a.time < e.time /\ a.serial < e.serial
    OBVIOUS
  <2>1. Day(a.time) \in Int /\ Day(e.time) \in Int
    BY <1>1, DayType
  <2>2. a.time < e.time
    <3>1. ~(e.time <= a.time)
      BY <1>1, <2>1, DayMonotone
    <3> QED
      BY <1>1, <3>1
  <2>3. PICK n \in SeqNumber : a.serial = Serial(a.time, n)
    BY <1>0 DEF SerialOfItsDay
  <2>4. job[j].number \in SeqNumber
    BY <1>0 DEF TypeOK, JobType
  <2>5. a.serial < e.serial
    BY <1>1, <2>1, <2>3, <2>4, DaysDoNotMeet DEF Serial
  <2> QED
    BY <2>2, <2>5
<1>4. Day(a.time) > Day(e.time) => a.time > e.time
  <2>1. Day(a.time) \in Int /\ Day(e.time) \in Int
    BY <1>1, DayType
  <2>2. ~(a.time <= e.time) => a.time > e.time
    BY <1>1
  <2> QED
    BY <1>1, <2>1, <2>2, DayMonotone
<1>5. Day(a.time) \in Int /\ Day(e.time) \in Int
  BY <1>1, DayType
<1>6. Follows(a, e)
  BY <1>2, <1>3, <1>4, <1>5 DEF Follows, Clean
<1>7. Follows(e, a)
  <2>1. CASE e.time < a.time
    BY <1>0, <1>1, <2>1 DEF NotLate, Follows, Clean
  <2>2. CASE e.time = a.time
    BY <1>1, <1>2, <2>2 DEF Follows, Clean
  <2>3. CASE e.time > a.time
    BY <2>3 DEF Follows
  <2> QED
    BY <1>1, <2>1, <2>2, <2>3
<1> QED
  BY <1>6, <1>7

\* It stays so.
LEMMA FollowsOn ==
  ASSUME SerialInv, TypeOK', [Next]_vars, NEW a, NEW b, Follows(a, b)
  PROVE  Follows(a, b)'
<1>1. edited \subseteq edited' /\ edited' \subseteq Time /\ disturbed \subseteq disturbed'
  <2>1. edited' \subseteq Time
    BY TimeAssumption DEF TypeOK, Time
  <2>2. Tick \/ Edit \/ Stop \/ UNCHANGED vars
          => edited \subseteq edited' /\ disturbed \subseteq disturbed'
    BY DEF Tick, Edit, Stop, vars, world
  <2>3. \A j \in Thread : Render(j) => edited \subseteq edited' /\ disturbed \subseteq disturbed'
    BY RenderingsApart DEF SerialInv
  <2> QED
    BY <2>1, <2>2, <2>3 DEF Next
<1>2. Full(edited, Day(b.time)) => Full(edited', Day(b.time))
  BY <1>1, CountsGrow
<1> QED
  BY <1>1, <1>2 DEF Follows

\* The serials follow the seconds of the changes on every day on which no two
\* renderings were at the file together and no write failed: for any number of
\* threads and changes, also when an older change is still rendered while a newer
\* one is done.
THEOREM SerialsFollowTimesCorrect == Spec => []SerialsFollowTimes
<1>1. Init => SerialInv /\ SerialsFollowTimes
  <2> SUFFICES ASSUME Init PROVE SerialInv /\ SerialsFollowTimes
    OBVIOUS
  <2>1. Active = {} /\ Writing = {} /\ \A k \in Thread : job[k].pc = "idle"
    BY DEF Init, NotRunning, Active, Writing
  <2>2. TypeOK /\ HasLastChange
    BY TypeCorrectInit
  <2> QED
    BY <2>1, <2>2
    DEF Init, SerialInv, SerialOfItsDay, Known, Apart, NotOvertaken, NotLate, FinishInOrder,
        Reached, Stages, StageOK, Damaged, FileOK, SerialsFollowTimes
<1>2. SerialInv /\ TypeOK' /\ HasLastChange' /\ [Next]_vars => SerialInv'
  <2> SUFFICES ASSUME SerialInv, TypeOK', HasLastChange', [Next]_vars PROVE SerialInv'
    OBVIOUS
  <2>1. SerialOfItsDay'
    BY SerialOfItsDayInductive DEF SerialInv
  <2>2. CASE Tick \/ Edit \/ Stop \/ UNCHANGED vars
    BY <2>1, <2>2, SerialInvWorld
  <2>3. ASSUME NEW j \in Thread, Render(j) PROVE SerialInv'
    BY <2>1, <2>3, SerialInvRender
  <2> QED
    BY <2>2, <2>3 DEF Next
<1>3. SerialInv /\ TypeOK' /\ SerialsFollowTimes /\ [Next]_vars => SerialsFollowTimes'
  <2> SUFFICES ASSUME SerialInv, TypeOK', SerialsFollowTimes, [Next]_vars,
                      NEW a \in done', NEW b \in done'
               PROVE  Follows(a, b)'
    BY FollowsIsTheProperty DEF SerialsFollowTimes, Follows, Full, ChangedOn
  <2>1. CASE a \in done /\ b \in done
    BY <2>1, FollowsIsTheProperty, FollowsOn
  <2>2. ASSUME NEW j \in Thread, Finish(j) PROVE Follows(a, b)'
    <3> DEFINE e == [change |-> job[j].change, time |-> job[j].time,
                 serial |-> Serial(job[j].time, job[j].number)]
    <3>1. done' = done \union {e}
      BY <2>2 DEF Finish
    <3>2. \A c \in done : Follows(c, e) /\ Follows(e, c)
      BY <2>2, FinishFollows
    <3>3. Follows(e, e)
      BY DEF Follows
    <3>4. Follows(a, b)
      BY <3>1, <3>2, <3>3, FollowsIsTheProperty
    <3> QED
      BY <3>4, FollowsOn
  <2>3. done' = done \/ \E j \in Thread : Finish(j)
    BY DEF Next, Tick, Edit, Stop, Render, Start, Stat, Read, Truncate, Write, Utime,
           WriteFails, vars
  <2> QED
    BY <2>1, <2>2, <2>3
<1> QED
  BY <1>1, <1>2, <1>3, TypeCorrect, PTL DEF Spec

-----------------------------------------------------------------------------
(* The changes and their seconds. *)

\* What was rendered, and what is: a change with its second.
Rendered == done \union {job[j] : j \in Active}

\* A change has one second, a later one has none that is earlier, and the last one
\* has the modification time of umbrella.xml.
Dated ==
  /\ \A a \in Rendered : /\ a.change \in Nat /\ a.change <= changes
                         /\ a.time \in Time /\ a.time <= Modified
                         /\ a.change = changes => a.time = Modified
  /\ \A a, b \in Rendered : /\ a.change = b.change => a.time = b.time
                            /\ a.change < b.change => a.time <= b.time

LEMMA ModifiedType == ASSUME TypeOK, HasLastChange PROVE Modified \in Time /\ Modified <= now
<1>1. Modified \in 0..now
  BY ModifiedIsLast, Zenon DEF TypeOK
<1> QED
  BY <1>1, TimeAssumption DEF TypeOK, Time

\* A step that adds nothing but the last change with its time.
LEMMA DatedGrows ==
  ASSUME TypeOK, HasLastChange, Dated, changes' = changes, Modified' = Modified,
         \A a \in Rendered' :
           \/ \E b \in Rendered : a.change = b.change /\ a.time = b.time
           \/ a.change = changes /\ a.time = Modified
  PROVE  Dated'
<1>0. changes \in Nat /\ Modified \in Time /\ Time \subseteq Int
  BY ModifiedType, TimeAssumption DEF TypeOK, Time
<1>1. ASSUME NEW a \in Rendered'
      PROVE  /\ a.change \in Nat /\ a.change <= changes
             /\ a.time \in Time /\ a.time <= Modified
             /\ a.change = changes => a.time = Modified
  BY <1>0 DEF Dated
<1>2. ASSUME NEW a \in Rendered', NEW b \in Rendered'
      PROVE  /\ a.change = b.change => a.time = b.time
             /\ a.change < b.change => a.time <= b.time
  <2>1. CASE a.change = changes /\ a.time = Modified
    BY <1>0, <1>1, <2>1
  <2>2. CASE b.change = changes /\ b.time = Modified
    BY <1>0, <1>1, <2>2
  <2>3. CASE /\ \E c \in Rendered : a.change = c.change /\ a.time = c.time
             /\ \E c \in Rendered : b.change = c.change /\ b.time = c.time
    BY <2>3 DEF Dated
  <2> QED
    BY <2>1, <2>2, <2>3
<1> QED
  BY <1>1, <1>2 DEF Dated

\* A rendering stays at its change until it is done.
LEMMA ChangeKept ==
  ASSUME TypeOK, NEW j \in Thread, Moves(j)
  PROVE  job'[j].change = job[j].change
<1>0. job[j] \in JobType
  BY DEF TypeOK
<1>1. \A number, filetime : Decide(j, number, filetime).change = job[j].change
  BY <1>0, Zenon DEF Decide, JobType
<1>2. CASE Stat(j) \/ Read(j)
  BY <1>0, <1>1, <1>2 DEF Stat, Read, TypeOK, JobType
<1>3. CASE Truncate(j) \/ Write(j) \/ Utime(j) \/ WriteFails(j)
  BY <1>0, <1>3, WriteEffects DEF JobType
<1> QED
  BY <1>2, <1>3 DEF Moves

LEMMA DatedInductive ==
  TypeOK /\ HasLastChange /\ HasLastChange' /\ Dated /\ [Next]_vars => Dated'
<1> SUFFICES ASSUME TypeOK, HasLastChange, HasLastChange', Dated, [Next]_vars
             PROVE  Dated'
  OBVIOUS
<1>1. CASE Tick \/ UNCHANGED vars
  <2>1. UNCHANGED <<changes, edited, job, done>>
    BY <1>1 DEF Tick, vars
  <2> QED
    BY <2>1, DatedGrows DEF Rendered, Active, Modified
<1>2. CASE Edit
  <2>1. /\ changes' = changes + 1 /\ edited' = edited \union {now}
        /\ UNCHANGED <<job, done>>
    BY <1>2 DEF Edit
  <2>2. Rendered' = Rendered
    BY <2>1 DEF Rendered, Active
  <2>3. Modified \in Time /\ Modified <= now /\ now \in Int /\ Time \subseteq Int
        /\ changes \in Nat
    BY ModifiedType, TimeAssumption DEF TypeOK, Time
  <2>4. Modified' \in edited' /\ \A u \in edited' : u <= Modified'
    <3>1. (HasLastChange => Modified \in edited /\ \A u \in edited : u <= Modified)'
      BY ModifiedIsLast, PTL
    <3> QED
      BY <3>1
  <2>5. edited \subseteq Int /\ Modified \in edited /\ \A u \in edited : u <= Modified
    BY EditedType, ModifiedIsLast, <2>3
  <2>6. Modified' = now
    BY <2>1, <2>3, <2>4, <2>5
  <2>7. ASSUME NEW a \in Rendered
        PROVE  /\ a.change \in Nat /\ a.change <= changes /\ a.time \in Time
               /\ a.time <= Modified /\ a.time \in Int
    BY <2>3 DEF Dated
  <2>8. ASSUME NEW a \in Rendered
        PROVE  a.change <= changes' /\ a.change # changes' /\ a.time <= Modified'
    <3>1. Modified \in Int /\ Modified <= now
      BY <2>3
    <3>2. a.time <= now
      BY <2>3, <2>7, <3>1
    <3>3. changes' = changes + 1 /\ changes \in Nat /\ a.change <= changes /\ a.change \in Nat
      BY <2>1, <2>3, <2>7
    <3> QED
      BY <2>6, <3>2, <3>3
  <2> QED
    BY <2>2, <2>7, <2>8 DEF Dated
<1>3. CASE Stop
  <2>1. UNCHANGED <<changes, edited, done>> /\ \A j \in Thread : job'[j].pc = "idle"
    BY <1>3 DEF Stop, world, NotRunning
  <2> QED
    BY <2>1, DatedGrows DEF Rendered, Active, Modified
<1>4. ASSUME NEW j \in Thread, Render(j) PROVE Dated'
  <2>0. changes' = changes /\ Modified' = Modified
    BY <1>4
    DEF Render, Start, Stat, Read, Truncate, Write, Utime, WriteFails, Finish, world,
        Modified
  <2>1. \A i \in Thread \ {j} : job'[i] = job[i]
    BY <1>4, RenderingsApart
  <2>2. CASE Start(j)
    <3>1. job'[j].change = changes /\ job'[j].time = Modified /\ done' = done
      BY <2>2 DEF Start, TypeOK
    <3>2. \A a \in Rendered' : a \in Rendered \/ a = job'[j]
      BY <2>1, <3>1 DEF Rendered, Active
    <3> QED
      BY <2>0, <3>1, <3>2, DatedGrows
  <2>3. CASE Moves(j)
    <3>1. /\ j \in Active /\ Active' = Active /\ job'[j].time = job[j].time
          /\ done' = done
      BY <2>3, MovesPositions
      DEF Moves, Stat, Read, Truncate, Write, Utime, WriteFails
    <3>2. job'[j].change = job[j].change
      BY <2>3, ChangeKept
    <3>3. \A a \in Rendered' : a \in Rendered \/ a = job'[j]
      <4>1. ASSUME NEW a \in Rendered', a \notin done'
            PROVE  \E i \in Active : a = job'[i]
        BY <3>1, <4>1 DEF Rendered
      <4> QED
        BY <2>1, <3>1, <4>1 DEF Rendered, Active
    <3>4. job[j] \in Rendered
      BY <3>1 DEF Rendered
    <3> QED
      BY <2>0, <3>1, <3>2, <3>3, <3>4, DatedGrows
  <2>4. CASE Finish(j)
    <3> DEFINE e == [change |-> job[j].change, time |-> job[j].time,
                     serial |-> Serial(job[j].time, job[j].number)]
    <3>1. /\ j \in Active /\ Active' = Active \ {j} /\ done' = done \union {e}
      BY <2>4, FinishPositions DEF Finish
    <3>2. \A a \in Rendered' : a \in Rendered \/ a = e
      <4> HIDE DEF e
      <4>1. ASSUME NEW a \in Rendered', a \notin done'
            PROVE  \E i \in Active \ {j} : a = job'[i]
        BY <3>1, <4>1 DEF Rendered
      <4> QED
        BY <2>1, <3>1, <4>1 DEF Rendered, Active
    <3>3. job[j] \in Rendered /\ e.change = job[j].change /\ e.time = job[j].time
      BY <3>1 DEF Rendered
    <3> HIDE DEF e
    <3> QED
      BY <2>0, <3>2, <3>3, DatedGrows
  <2> QED
    BY <1>4, <2>2, <2>3, <2>4 DEF Render, Moves
<1> QED
  BY <1>1, <1>2, <1>3, <1>4 DEF Next

\* The serials follow the changes: what SerialsFollowTimes says of their seconds is
\* all that can be said, since of two changes the later may come in the same second
\* and gets the same serial then, and none that is less.
THEOREM SerialsFollowChangesCorrect == Spec => []SerialsFollowChanges
<1>1. Init => Dated
  <2> SUFFICES ASSUME Init PROVE Dated
    OBVIOUS
  <2>1. done = {} /\ Active = {}
    BY DEF Init, NotRunning, Active
  <2> QED
    BY <2>1 DEF Dated, Rendered
<1>2. TypeOK /\ Dated /\ SerialsFollowTimes => SerialsFollowChanges
  <2> SUFFICES ASSUME TypeOK, Dated, SerialsFollowTimes, NEW a \in done, NEW b \in done
               PROVE  \/ Day(b.time) \in disturbed
                      \/ a.change = b.change /\ a.serial = b.serial
                      \/ a.change < b.change /\ a.serial < b.serial
                      \/ a.change < b.change /\ a.serial = b.serial /\ a.time = b.time
                      \/ a.change < b.change /\ a.time < b.time
                         /\ Cardinality(ChangedOn(Day(b.time))) >= Wrap
                      \/ a.change > b.change
    BY DEF SerialsFollowChanges
  <2>1. /\ a.change \in Nat /\ b.change \in Nat
        /\ a.time \in Int /\ b.time \in Int
        /\ a.change = b.change => a.time = b.time
        /\ a.change < b.change => a.time <= b.time
    BY TimeAssumption DEF Dated, Rendered, Time
  <2>2. \/ Day(b.time) \in disturbed
        \/ a.time = b.time /\ a.serial = b.serial
        \/ a.time < b.time /\ a.serial < b.serial
        \/ a.time < b.time /\ Cardinality(ChangedOn(Day(b.time))) >= Wrap
        \/ a.time > b.time
    BY DEF SerialsFollowTimes
  <2> QED
    BY <2>1, <2>2
<1> QED
  BY <1>1, <1>2, TypeCorrect, DatedInductive, SerialsFollowTimesCorrect, PTL DEF Spec
=============================================================================
