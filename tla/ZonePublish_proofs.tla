-------------------------- MODULE ZonePublish_proofs --------------------------
(* The safety properties of ZonePublish for any hosts, addresses, networks and *)
(* views, and any number of runs, changes and faults, and what lasts while     *)
(* LDAP rests.                                                                 *)
EXTENDS ZonePublish, FiniteSetTheorems, FunctionTheorems, TLAPS

-----------------------------------------------------------------------------
(* The positions of a list in increasing order *)

\* A finite set of positions can be enumerated in increasing order: a position
\* comes at the place that tells how many positions are not after it.
LEMMA EnumerationExists ==
  ASSUME NEW positions \in SUBSET Nat, IsFiniteSet(positions)
  PROVE  \E f \in [1..Cardinality(positions) -> positions] : Increasing(f)
<1> DEFINE n == Cardinality(positions)
           UpTo(i) == {j \in positions : j <= i}
           rank == [i \in positions |-> Cardinality(UpTo(i))]
<1>1. n \in Nat
  BY FS_CardinalityType
<1>2. ASSUME NEW i \in positions
      PROVE  IsFiniteSet(UpTo(i)) /\ rank[i] \in 1..n
  <2>1. IsFiniteSet(UpTo(i)) /\ Cardinality(UpTo(i)) <= n
    BY FS_Subset
  <2>2. Cardinality(UpTo(i)) \in Nat
    BY <2>1, FS_CardinalityType
  <2>3. i \in UpTo(i)
    OBVIOUS
  <2>4. Cardinality(UpTo(i)) # 0
    BY <2>1, <2>3, FS_EmptySet
  <2> QED
    BY <1>1, <2>1, <2>2, <2>4
<1>3. ASSUME NEW i \in positions, NEW j \in positions, i < j
      PROVE  rank[i] < rank[j]
  <2>0. i \in Nat /\ j \in Nat /\ \A k \in positions : k \in Nat
    OBVIOUS
  <2>1. UpTo(i) \in SUBSET UpTo(j) /\ j \in UpTo(j) /\ j \notin UpTo(i)
    <3>1. \A k \in positions : k <= i => k <= j
      BY <1>3, <2>0
    <3>2. j <= j /\ ~(j <= i)
      BY <1>3, <2>0
    <3> QED
      BY <3>1, <3>2, Zenon
  <2>2. UpTo(i) # UpTo(j)
    BY <2>1
  <2>3. Cardinality(UpTo(i)) <= Cardinality(UpTo(j))
        /\ Cardinality(UpTo(i)) # Cardinality(UpTo(j))
    BY <1>2, <2>1, <2>2, FS_Subset
  <2>4. rank[i] \in Nat /\ rank[j] \in Nat
    BY <1>2
  <2> QED
    BY <2>3, <2>4
<1> HIDE DEF n, UpTo, rank
<1>4. rank \in [positions -> 1..n]
  BY <1>2 DEF rank
<1>5. rank \in Injection(positions, 1..n)
  <2>1. \A i, j \in positions : rank[i] = rank[j] => i = j
    <3> SUFFICES ASSUME NEW i \in positions, NEW j \in positions, i # j
                 PROVE  rank[i] # rank[j]
      OBVIOUS
    <3>1. i \in Nat /\ j \in Nat /\ rank[i] \in Nat /\ rank[j] \in Nat
      BY <1>1, <1>4
    <3> QED
      BY <1>3, <3>1
  <2> QED
    BY <1>4, <2>1, Fun_IsInj
<1>6. rank \in Surjection(positions, 1..n)
  <2>1. IsFiniteSet(1..n) /\ Cardinality(1..n) = n
    BY <1>1, FS_Interval
  <2> QED
    BY <1>5, <2>1, FS_Injection DEF n
<1>7. \A k \in 1..n : \E i \in positions : rank[i] = k
  BY <1>6 DEF Surjection
<1> DEFINE f == [k \in 1..n |-> CHOOSE i \in positions : rank[i] = k]
<1>8. ASSUME NEW k \in 1..n PROVE f[k] \in positions /\ rank[f[k]] = k
  BY <1>7
<1>9. f \in [1..n -> positions]
  BY <1>8
<1> HIDE DEF f
<1>10. Increasing(f)
  <2> SUFFICES ASSUME NEW j \in 1..n, NEW k \in 1..n, j < k PROVE f[j] < f[k]
    BY <1>9 DEF Increasing
  <2>0. j \in Nat /\ k \in Nat
    BY <1>1
  <2>1. f[j] \in Nat /\ f[k] \in Nat /\ j \in Nat /\ k \in Nat
    BY <1>8, <2>0
  <2>2. CASE f[k] < f[j]
    BY <1>1, <1>3, <1>8, <2>1, <2>2
  <2>3. CASE f[k] = f[j]
    BY <1>8, <2>1, <2>3
  <2> QED
    BY <2>1, <2>2, <2>3
<1> QED
  BY <1>9, <1>10 DEF n

\* InOrder enumerates all positions.
LEMMA InOrderIsOnto ==
  ASSUME NEW positions \in SUBSET Nat, IsFiniteSet(positions)
  PROVE  /\ InOrder(positions) \in [1..Cardinality(positions) -> positions]
         /\ \A i \in positions : \E k \in 1..Cardinality(positions) :
              InOrder(positions)[k] = i
<1> DEFINE n == Cardinality(positions)
           f == InOrder(positions)
<1>1. n \in Nat
  BY FS_CardinalityType
<1>2. f \in [1..n -> positions] /\ Increasing(f)
  BY EnumerationExists, Zenon DEF InOrder
<1> HIDE DEF n, f
<1>3. \A j, k \in 1..n : f[j] = f[k] => j = k
  <2> SUFFICES ASSUME NEW j \in 1..n, NEW k \in 1..n, j # k PROVE f[j] # f[k]
    OBVIOUS
  <2>0. j \in Nat /\ k \in Nat /\ f[j] \in positions /\ f[k] \in positions
    BY <1>1, <1>2
  <2>1. f[j] \in Nat /\ f[k] \in Nat /\ j \in Nat /\ k \in Nat
    BY <2>0
  <2>2. j < k \/ k < j
    BY <2>1
  <2>3. f[j] < f[k] \/ f[k] < f[j]
    BY <1>2, <2>2 DEF Increasing
  <2> QED
    BY <2>1, <2>3
<1>4. f \in Injection(1..n, positions)
  BY <1>2, <1>3, Fun_IsInj
<1>5. Cardinality(1..n) = n
  BY <1>1, FS_Interval
<1>6. f \in Surjection(1..n, positions)
  BY <1>4, <1>5, FS_Injection DEF n
<1>7. \A i \in positions : \E k \in 1..n : f[k] = i
  BY <1>6 DEF Surjection
<1> QED
  BY <1>2, <1>7 DEF f, n

-----------------------------------------------------------------------------
(* Lists of search results *)

\* The records that a list contains.
Listed(list) == UNION {list[i] : i \in DOMAIN list}

LEMMA BatchType ==
  ASSUME NEW records \in SUBSET Record
  PROVE  Batch(records) \in Batches /\ Listed(Batch(records)) = records
<1>1. CASE records = {}
  BY <1>1 DEF Batch, Batches, Listed
<1>2. CASE records # {}
  <2>1. Batch(records) = <<records>> /\ DOMAIN <<records>> = {1}
    BY <1>2 DEF Batch
  <2> QED
    BY <2>1 DEF Batches, Listed
<1> QED
  BY <1>1, <1>2

\* A search appends its result to the host list and removes nothing.
LEMMA AppendListed ==
  ASSUME NEW list \in Batches, NEW records \in SUBSET Record
  PROVE  /\ list \o Batch(records) \in Batches
         /\ Listed(list \o Batch(records)) = Listed(list) \union records
<1>1. CASE records = {}
  BY <1>1 DEF Batch, Batches
<1>2. CASE records # {}
  <2> DEFINE longer == list \o <<records>>
             n == Len(list)
  <2>1. Batch(records) = <<records>>
    BY <1>2 DEF Batch
  <2>2. /\ longer \in Batches /\ n \in Nat
        /\ DOMAIN longer = 1..(n + 1) /\ DOMAIN list = 1..n
        /\ longer[n + 1] = records /\ \A i \in 1..n : longer[i] = list[i]
    BY DEF Batches
  <2> HIDE DEF longer, n
  <2>3. \A i : i \in 1..(n + 1) <=> i \in 1..n \/ i = n + 1
    BY <2>2
  <2>4. Listed(longer) = Listed(list) \union records
    BY <2>2, <2>3, Zenon DEF Listed
  <2> QED
    BY <2>1, <2>2, <2>4 DEF longer
<1> QED
  BY <1>1, <1>2

\* Made from a host list with one search result, a reverse zone has one.
LEMMA OneBatchInZone ==
  ASSUME NEW z \in Zone, NEW records \in SUBSET Record
  PROVE  ListInZone(z, Batch(records)) = Batch(InZone(z, records))
<1> DEFINE list == Batch(records)
           filled == {i \in DOMAIN list : InZone(z, list[i]) # {}}
<1>1. ListInZone(z, list)
        = [k \in 1..Cardinality(filled) |-> InZone(z, list[InOrder(filled)[k]])]
  BY DEF ListInZone
<1>2. CASE InZone(z, records) = {}
  <2>1. filled = {}
    BY <1>2 DEF Batch
  <2>2. Cardinality(filled) = 0
    BY <2>1, FS_EmptySet
  <2>3. \A F : [k \in 1..0 |-> F[k]] = <<>>
    OBVIOUS
  <2>4. ListInZone(z, list) = <<>>
    BY <1>1, <2>2, <2>3
  <2> QED
    BY <1>2, <2>4 DEF Batch
<1>3. CASE InZone(z, records) # {}
  <2>1. list = <<records>>
    BY <1>3 DEF Batch, InZone
  <2>2. filled = {1} /\ list[1] = records
    BY <1>3, <2>1
  <2>3. Cardinality(filled) = 1 /\ IsFiniteSet(filled)
    BY <2>2, FS_Singleton
  <2> HIDE DEF filled
  <2>4. InOrder(filled) \in [1..1 -> {1}]
    BY <2>2, <2>3, InOrderIsOnto
  <2>5. ListInZone(z, list) = [k \in 1..1 |-> InZone(z, list[InOrder(filled)[k]])]
    BY <1>1, <2>3
  <2>6. \A k \in 1..1 : InZone(z, list[InOrder(filled)[k]]) = InZone(z, records)
    BY <2>2, <2>4
  <2>7. ListInZone(z, list) = [k \in 1..1 |-> InZone(z, records)]
    BY <2>5, <2>6
  <2>8. ListInZone(z, list) = <<InZone(z, records)>>
    BY <2>7
  <2> QED
    BY <1>3, <2>8 DEF Batch
<1> QED
  BY <1>2, <1>3

\* The lines of a reverse zone are the records of the host list that lie in its
\* network.
LEMMA ListInZoneListed ==
  ASSUME NEW z \in Zone, NEW list \in Batches
  PROVE  /\ ListInZone(z, list) \in Batches
         /\ Listed(ListInZone(z, list)) = InZone(z, Listed(list))
<1> DEFINE filled == {i \in DOMAIN list : InZone(z, list[i]) # {}}
           n == Cardinality(filled)
           result == [k \in 1..n |-> InZone(z, list[InOrder(filled)[k]])]
<1>0. ListInZone(z, list) = result
  BY DEF ListInZone
<1>1. DOMAIN list = 1..Len(list) /\ Len(list) \in Nat
      /\ \A i \in DOMAIN list : list[i] \in SUBSET Record
  BY DEF Batches
<1>2. filled \in SUBSET Nat /\ IsFiniteSet(filled)
  <2>1. IsFiniteSet(1..Len(list)) /\ filled \in SUBSET (1..Len(list))
    BY <1>1, FS_Interval
  <2>2. IsFiniteSet(filled)
    BY <2>1, FS_Subset
  <2> QED
    BY <2>1, <2>2
<1>3. n \in Nat
  BY <1>2, FS_CardinalityType
<1>4. /\ InOrder(filled) \in [1..n -> filled]
      /\ \A i \in filled : \E k \in 1..n : InOrder(filled)[k] = i
  BY <1>2, InOrderIsOnto
<1>5. \A records \in SUBSET Record : InZone(z, records) \in SUBSET Record
  BY DEF InZone
<1>6. ASSUME NEW k \in 1..n
      PROVE  /\ InOrder(filled)[k] \in filled
             /\ result[k] = InZone(z, list[InOrder(filled)[k]])
  BY <1>4
<1>7. ASSUME NEW i \in filled
      PROVE  i \in DOMAIN list /\ list[i] \in SUBSET Record
  BY <1>1
<1>8. DOMAIN result = 1..n
  OBVIOUS
<1> HIDE DEF filled, n, result
<1>9. result \in Batches
  <2>1. \A k \in 1..n : result[k] \in SUBSET Record
    BY <1>5, <1>6, <1>7
  <2> QED
    BY <1>3, <2>1 DEF Batches, result
<1>10. ASSUME NEW r \in Listed(result) PROVE r \in InZone(z, Listed(list))
  <2>1. PICK k \in 1..n : r \in result[k]
    BY <1>8, Zenon DEF Listed
  <2>2. PICK i \in DOMAIN list : r \in InZone(z, list[i])
    BY <1>6, <1>7, <2>1
  <2> QED
    BY <2>2, Zenon DEF InZone, Listed
<1>11. ASSUME NEW r \in InZone(z, Listed(list)) PROVE r \in Listed(result)
  <2>1. PICK i \in DOMAIN list : r \in list[i] /\ r \in InZone(z, list[i])
    BY Zenon DEF InZone, Listed
  <2>2. i \in filled
    BY <2>1 DEF filled
  <2>3. PICK k \in 1..n : InOrder(filled)[k] = i
    BY <1>4, <2>2
  <2>4. r \in result[k]
    BY <1>6, <2>1, <2>3
  <2> QED
    BY <1>8, <2>4, Zenon DEF Listed
<1> QED
  BY <1>0, <1>9, <1>10, <1>11

-----------------------------------------------------------------------------
(* Types *)

LEMMA ConstantTypes ==
  /\ Net \subseteq Zone /\ 0 \in Zone
  /\ \A z \in Zone : z \in Nat /\ (z < NumNets => z + 1 \in Zone)
  BY SizesAssumption DEF Net, Zone

\* grepcidr is there or not for good, and with it what a zone takes of a list.
LEMMA GrepcidrStays == [Next]_vars => UNCHANGED grepcidr
<1> SUFFICES ASSUME [Next]_vars PROVE UNCHANGED grepcidr
  OBVIOUS
<1>1. CASE UNCHANGED vars
  BY <1>1 DEF vars
<1>2. CASE Cron \/ Run \/ (Stop /\ UNCHANGED world) \/ Restarted
  BY <1>2, Zenon DEF Cron, Run, Restarted, world
<1>3. CASE \E h \in Host, a \in Addr \union {NoAddr} : SetAddress(h, a)
  BY <1>3 DEF SetAddress, Edit
<1>4. CASE (\E z \in Zone : ChangeHeader(z)) \/ RestartNamed \/ BoundReached
  BY <1>4 DEF ChangeHeader, RestartNamed, BoundReached, Edit, vars
<1> QED
  BY <1>1, <1>2, <1>3, <1>4 DEF Next

LEMMA RecordsType == TypeOK => Records \in SUBSET Record
  BY DEF TypeOK, Records, Record

LEMMA UpToDateType == ASSUME TypeOK, NEW z \in Zone PROVE UpToDate(z) \in ZoneFile
<1>1. InZone(z, Records) \in SUBSET Record
  BY RecordsType DEF InZone
<1> QED
  BY <1>1, BatchType DEF UpToDate, ZoneFile, TypeOK

LEMMA MadeType ==
  ASSUME TypeOK, run.pc = "install"
  PROVE  /\ run.zone \in Zone
         /\ Made \in ZoneFile
         /\ Made.hosts = IF run.zone = 0 THEN Batch(run.found)
                         ELSE ListInZone(run.zone, hostlist)
<1>1. run.zone \in Zone /\ run.found \in SUBSET Record /\ run.header \in {0, 1}
  BY DEF TypeOK, RunType
<1>2. hostlist \in Batches /\ header[run.zone] \in {0, 1}
  BY <1>1 DEF TypeOK
<1>3. Batch(run.found) \in Batches /\ ListInZone(run.zone, hostlist) \in Batches
  BY <1>1, <1>2, BatchType, ListInZoneListed
<1> QED
  BY <1>1, <1>2, <1>3 DEF Made, ZoneFile

\* After a zone the script goes on with the next one, or to its end.
LEMMA NextZoneType ==
  ASSUME TypeOK, NextZone
  PROVE  run' \in RunType /\ run'.pc \in {"install", "finish"}
<1>1. run \in RunType /\ run.zone \in Zone
  BY DEF TypeOK, RunType
<1> QED
  BY <1>1, ConstantTypes DEF NextZone, RunType

LEMMA NotRunningType == NotRunning \in RunType /\ NotRunning.pc = "idle"
  BY ConstantTypes DEF NotRunning, RunType

\* All variables keep their types.
THEOREM TypeCorrect == Spec => []TypeOK
<1>1. Init => TypeOK
  <2> SUFFICES ASSUME Init PROVE TypeOK
    OBVIOUS
  <2>1. ldap \in [Host -> Addr \union {NoAddr}] /\ header \in [Zone -> {0, 1}]
    BY LdapAssumption DEF Init
  <2>2. Records \in SUBSET Record
    BY <2>1 DEF Records, Record
  <2>3. ASSUME NEW z \in Zone PROVE UpToDate(z) \in ZoneFile
    <3>1. InZone(z, Records) \in SUBSET Record
      BY <2>2 DEF InZone
    <3> QED
      BY <2>1, <3>1, BatchType DEF UpToDate, ZoneFile
  <2>4. file \in [Zone -> ZoneFile]
    BY <2>3 DEF Init
  <2>5. loaded \in [View \X Zone -> ZoneFile]
    <3>1. \A vz \in View \X Zone : UpToDate(vz[2]) \in ZoneFile
      BY <2>3
    <3> QED
      BY <3>1 DEF Init
  <2>6. unfinished \in BOOLEAN
    BY Zenon DEF Init
  <2> QED
    BY <2>1, <2>4, <2>5, <2>6, NotRunningType, NetsAssumption, BoundsAssumption
    DEF Init, TypeOK, Batches
<1>2. TypeOK /\ [Next]_vars => TypeOK'
  <2> SUFFICES ASSUME TypeOK, [Next]_vars PROVE TypeOK'
    OBVIOUS
  <2> USE BoundsAssumption
  <2>0. CASE UNCHANGED vars
    BY <2>0 DEF TypeOK, vars
  <2>1. CASE Cron
    <3>1. run' \in RunType /\ run'.pc = "search"
      BY <2>1, ConstantTypes DEF Cron, Start, TypeOK, RunType
    <3>2. unfinished' \in BOOLEAN
      BY <2>1, Zenon DEF Cron, Start
    <3> QED
      BY <2>1, <3>1, <3>2 DEF Cron, Start, world, TypeOK
  <2>2. CASE Run
    <3>1. CASE Search
      <4>1. Records \in SUBSET Record /\ hostlist' \in Batches
        BY <3>1, RecordsType, AppendListed DEF Search, TypeOK
      <4>2. run' \in RunType /\ run'.pc = "install"
        BY <3>1, <4>1 DEF Search, TypeOK, RunType
      <4> QED
        BY <2>2, <3>1, <4>1, <4>2 DEF Run, Search, world, TypeOK
    <3>2. CASE SearchFails
      <4>1. hostlist' \in Batches
        BY <3>2, RecordsType, AppendListed DEF SearchFails, TypeOK
      <4> QED
        BY <2>2, <3>2, <4>1, NotRunningType
        DEF Run, SearchFails, Fault, Exit, world, TypeOK
    <3>3. CASE Install
      <4>1. file' \in [Zone -> ZoneFile]
        BY <3>3, MadeType DEF Install, TypeOK
      <4>2. run' \in RunType /\ (run'.pc = "reload" => run'.view \in View)
        <5>1. CASE file[run.zone] # Made /\ NumViews > 0
          <6>1. run' = [run EXCEPT !.pc = "reload", !.view = 1]
            BY <3>3, <5>1, Zenon DEF Install
          <6>2. 1 \in View
            BY <5>1, SizesAssumption DEF View
          <6> QED
            BY <6>1, <6>2 DEF TypeOK, RunType
        <5>2. CASE ~(file[run.zone] # Made /\ NumViews > 0)
          BY <3>3, <5>2, NextZoneType DEF Install
        <5> QED
          BY <5>1, <5>2
      <4> QED
        BY <2>2, <3>3, <4>1, <4>2 DEF Run, Install, world, TypeOK
    <3>4. CASE RefuseNetwork
      BY <2>2, <3>4, NotRunningType DEF Run, RefuseNetwork, Exit, world, TypeOK
    <3>5. CASE Reload
      <4>1. run.view \in View /\ run.zone \in Zone
        BY <3>5 DEF Reload, TypeOK, RunType
      <4>2. file[run.zone] \in ZoneFile
        BY <4>1 DEF TypeOK
      <4>3. loaded' \in [View \X Zone -> ZoneFile]
        BY <3>5, <4>1, <4>2 DEF Reload, TypeOK
      <4>4. missed' \in SUBSET (View \X Zone) /\ faults' \in 0..MaxFaults
        BY <3>5, <4>1 DEF Reload, Fault, TypeOK
      <4>5. run' \in RunType /\ (run'.pc = "reload" => run'.view \in View)
        <5>1. CASE run.view < NumViews
          BY <3>5, <4>1, <5>1, SizesAssumption
          DEF Reload, NextView, View, TypeOK, RunType
        <5>2. CASE ~(run.view < NumViews)
          BY <3>5, <5>2, NextZoneType DEF Reload, NextView
        <5> QED
          BY <5>1, <5>2
      <4> QED
        BY <2>2, <3>5, <4>3, <4>4, <4>5 DEF Run, Reload, world, TypeOK
    <3>6. CASE Finish
      <4>1. unfinished' \in BOOLEAN
        BY <3>6, Zenon DEF Finish
      <4> QED
        BY <2>2, <3>6, <4>1, NotRunningType
        DEF Run, Finish, Exit, Batches, world, TypeOK
    <3> QED
      BY <2>2, <3>1, <3>2, <3>3, <3>4, <3>5, <3>6 DEF Run
  <2>3. ASSUME Stopped
        PROVE  hostlist' \in Batches /\ faults' \in 0..MaxFaults
    BY <2>3, RecordsType, AppendListed DEF Stopped, Fault, TypeOK
  <2>4. CASE Stop /\ UNCHANGED world
    <3>1. Unreloaded \in SUBSET (View \X Zone)
      <4>1. CASE run.pc = "reload"
        <5>1. run.view \in View /\ run.zone \in Zone
          BY <4>1 DEF TypeOK, RunType
        <5>2. run.view..NumViews \subseteq View
          BY <5>1, SizesAssumption DEF View
        <5> QED
          BY <5>1, <5>2 DEF Unreloaded
      <4> QED
        BY <4>1 DEF Unreloaded
    <3> QED
      BY <2>3, <2>4, <3>1, NotRunningType DEF Stop, Stopped, world, TypeOK
  <2>5. ASSUME LoadAll PROVE loaded' \in [View \X Zone -> ZoneFile] /\ missed' = {}
    <3>1. \A vz \in View \X Zone : file[vz[2]] \in ZoneFile
      BY DEF TypeOK
    <3> QED
      BY <2>5, <3>1 DEF LoadAll
  <2>6. CASE Restarted
    <3>1. CASE Stopped
      BY <2>3, <2>5, <2>6, <3>1, NotRunningType
      DEF Restarted, Reboot, Stopped, world, TypeOK
    <3>2. CASE UNCHANGED <<run, hostlist, file, unfinished, faults>>
      BY <2>5, <2>6, <3>2 DEF Restarted, Reboot, world, TypeOK
    <3> QED
      BY <2>6, <3>1, <3>2 DEF Restarted, Reboot
  <2>7. ASSUME NEW h \in Host, NEW a \in Addr \union {NoAddr}, SetAddress(h, a)
        PROVE  TypeOK'
    <3>1. run' \in RunType /\ run'.pc = run.pc /\ run'.view = run.view
      BY <2>7 DEF SetAddress, TypeOK, RunType
    <3>2. ldap' \in [Host -> Addr \union {NoAddr}]
      BY <2>7 DEF SetAddress, TypeOK
    <3> QED
      BY <2>7, <3>1, <3>2 DEF SetAddress, Edit, TypeOK
  <2>8. ASSUME NEW z \in Zone, ChangeHeader(z) PROVE TypeOK'
    <3>1. header' \in [Zone -> {0, 1}]
      BY <2>8 DEF ChangeHeader, TypeOK
    <3> QED
      BY <2>8, <3>1 DEF ChangeHeader, Edit, TypeOK
  <2>9. CASE RestartNamed
    BY <2>5, <2>9 DEF RestartNamed, Edit, TypeOK
  <2>10. CASE BoundReached
    BY <2>10 DEF BoundReached, TypeOK, vars
  <2> QED
    BY <2>0, <2>1, <2>2, <2>4, <2>6, <2>7, <2>8, <2>9, <2>10 DEF Next
<1> QED
  BY <1>1, <1>2, PTL DEF Spec

-----------------------------------------------------------------------------
(* The forward zone *)

\* A run begins with the forward zone.
Fresh == run.pc \in {"idle", "search"} => run.zone = 0

\* The run has installed the forward zone.
ForwardInstalled ==
  run.pc \in {"reload", "finish"} \/ (run.pc = "install" /\ run.zone # 0)

Published == ForwardInstalled => file[0].hosts = Batch(run.found)

Of(h, records) == {r \in records : r[1] = h}

\* What the run has found is what LDAP still has for a host that has not changed.
InSync ==
  run.pc \notin {"idle", "search"} =>
    \A h \in Host \ run.changed : Of(h, run.found) = Of(h, Records)

ForwardInv == Fresh /\ Published /\ InSync

\* A change of one host leaves the records of the others.
LEMMA OthersKeepRecords ==
  ASSUME TypeOK, NEW h \in Host, NEW a \in Addr \union {NoAddr},
         ldap' = [ldap EXCEPT ![h] = a], NEW g \in Host, g # h
  PROVE  Of(g, Records)' = Of(g, Records)
<1>1. ldap'[g] = ldap[g]
  BY DEF TypeOK
<1>2. \A r : r \in Of(g, Records)' <=> r \in Of(g, Records)
  BY <1>1 DEF Of, Records
<1> QED
  BY <1>2

\* The script is idle after every step that ends a run.
LEMMA Ends ==
  ASSUME SearchFails \/ RefuseNetwork \/ Finish \/ Stop \/ Restarted, TypeOK
  PROVE  run' = NotRunning \/ UNCHANGED <<run, file, hostlist, unfinished>>
  BY DEF SearchFails, RefuseNetwork, Finish, Stop, Restarted, Reboot, Stopped, Exit

\* The steps of others than the script change neither its files nor its position.
LEMMA OthersKeepFiles ==
  ASSUME (\E z \in Zone : ChangeHeader(z)) \/ RestartNamed \/ BoundReached
         \/ UNCHANGED vars
  PROVE  UNCHANGED <<ldap, run, file, hostlist, unfinished>>
  BY DEF ChangeHeader, RestartNamed, BoundReached, vars

\* What Install leaves: the next zone, or a reload of the one that it installed.
LEMMA AfterInstall ==
  ASSUME TypeOK, Install
  PROVE  /\ \/ run' = [run EXCEPT !.pc = "reload", !.view = 1]
            \/ NextZone
         /\ file' = [file EXCEPT ![run.zone] = Made]
         /\ run.pc = "install"
  BY Zenon DEF Install

LEMMA AfterReload ==
  ASSUME TypeOK, Reload
  PROVE  /\ \/ run' = [run EXCEPT !.view = @ + 1]
            \/ NextZone
         /\ UNCHANGED file
         /\ run.pc = "reload"
  BY Zenon DEF Reload, NextView

LEMMA ForwardInductive == TypeOK /\ ForwardInv /\ [Next]_vars => ForwardInv'
<1> SUFFICES ASSUME TypeOK, ForwardInv, [Next]_vars PROVE ForwardInv'
  OBVIOUS
<1> USE DEF ForwardInv, Fresh, ForwardInstalled, Published
<1>0. run \in RunType /\ run.zone \in Nat
  BY ConstantTypes DEF TypeOK, RunType
<1>1. ASSUME UNCHANGED ldap PROVE UNCHANGED Records
  BY <1>1 DEF Records
<1>2. CASE run' = NotRunning
  BY <1>2 DEF NotRunning, InSync
<1>3. CASE UNCHANGED <<ldap, run, file>>
  BY <1>1, <1>3 DEF InSync
<1>4. CASE Cron
  BY <1>0, <1>4 DEF Cron, Start, world, InSync, RunType
<1>5. CASE Run
  <2>0. UNCHANGED Records
    BY <1>1, <1>5 DEF Run, world
  <2>1. CASE Search
    <3>1. run'.pc = "install" /\ run'.zone = 0 /\ run'.found = Records
      BY <1>0, <2>1 DEF Search, RunType
    <3> QED
      BY <2>0, <3>1 DEF InSync
  <2>2. CASE SearchFails \/ RefuseNetwork \/ Finish
    BY <1>2, <2>2 DEF SearchFails, RefuseNetwork, Finish, Exit
  <2>3. CASE Install
    <3>1. /\ run'.pc \in {"install", "reload", "finish"}
          /\ run'.found = run.found /\ run'.changed = run.changed
      BY <1>0, <2>3, AfterInstall DEF NextZone, RunType
    <3>2. file'[0].hosts = Batch(run.found)
      <4>1. file'[0] = IF run.zone = 0 THEN Made ELSE file[0]
        BY <2>3, AfterInstall, MadeType, ConstantTypes DEF TypeOK
      <4> QED
        BY <2>3, <4>1, AfterInstall, MadeType
    <3> QED
      BY <2>0, <2>3, <3>1, <3>2, AfterInstall DEF InSync
  <2>4. CASE Reload
    <3>1. /\ run'.pc \in {"install", "reload", "finish"}
          /\ run'.found = run.found /\ run'.changed = run.changed
      BY <1>0, <2>4, AfterReload DEF NextZone, RunType
    <3> QED
      BY <2>0, <2>4, <3>1, AfterReload DEF InSync
  <2> QED
    BY <1>5, <2>1, <2>2, <2>3, <2>4 DEF Run
<1>6. CASE (Stop /\ UNCHANGED world) \/ Restarted
  <2>1. UNCHANGED ldap
    BY <1>6 DEF Restarted, world
  <2> QED
    BY <1>2, <1>3, <1>6, <2>1, Ends
<1>7. ASSUME NEW h \in Host, NEW a \in Addr \union {NoAddr}, SetAddress(h, a)
      PROVE  ForwardInv'
  <2>1. CASE run.pc \in {"idle", "search"}
    BY <1>7, <2>1 DEF SetAddress, InSync
  <2>2. CASE run.pc \notin {"idle", "search"}
    <3>1. run' = [run EXCEPT !.changed = @ \union {h}] /\ UNCHANGED file
      BY <1>7, <2>2 DEF SetAddress
    <3>2. /\ run'.changed = run.changed \union {h} /\ run'.found = run.found
          /\ run'.pc = run.pc /\ run'.zone = run.zone
      BY <1>0, <3>1 DEF RunType
    <3>3. ASSUME NEW g \in Host \ run'.changed
          PROVE  Of(g, run'.found) = Of(g, Records)'
      <4>1. g # h /\ g \in Host \ run.changed
        BY <3>2
      <4>2. Of(g, Records)' = Of(g, Records)
        BY <1>7, <4>1, OthersKeepRecords DEF SetAddress
      <4> QED
        BY <2>2, <3>2, <4>1, <4>2 DEF InSync
    <3> QED
      BY <3>1, <3>2, <3>3 DEF InSync, Of
  <2> QED
    BY <2>1, <2>2
<1> QED
  BY <1>3, <1>4, <1>5, <1>6, <1>7, OthersKeepFiles DEF Next

\* The invariant behind ForwardIsCurrent: what a run has found is up to date for all
\* hosts that did not change since, and what it publishes is what it has found.
THEOREM ForwardInvCorrect == Spec => []ForwardInv
<1>1. Init => ForwardInv
  BY DEF Init, ForwardInv, Fresh, Published, ForwardInstalled, InSync, NotRunning
<1> QED
  BY <1>1, TypeCorrect, ForwardInductive, PTL DEF Spec

\* The lines of the forward zone are what the run has found.
LEMMA ForwardLines ==
  TypeOK /\ Published /\ ForwardInstalled => Lines(0) = run.found
<1> SUFFICES ASSUME TypeOK, Published, ForwardInstalled PROVE Lines(0) = run.found
  OBVIOUS
<1>1. Lines(0) = Listed(Batch(run.found))
  BY DEF Lines, Listed, Published
<1>2. run.found \in SUBSET Record
  BY DEF TypeOK, RunType
<1> QED
  BY <1>1, <1>2, BatchType

\* At the end of a run the forward zone has the present address of every host that
\* did not change in the meantime.
THEOREM ForwardIsCurrentCorrect == Spec => []ForwardIsCurrent
<1>1. TypeOK /\ ForwardInv => ForwardIsCurrent
  <2> SUFFICES ASSUME TypeOK, ForwardInv, run.pc = "finish",
                      NEW h \in Host \ run.changed
               PROVE  {r \in Lines(0) : r[1] = h} = {r \in Records : r[1] = h}
    BY DEF ForwardIsCurrent
  <2>1. Lines(0) = run.found
    BY ForwardLines DEF ForwardInv, ForwardInstalled
  <2> QED
    BY <2>1 DEF ForwardInv, InSync, Of
<1> QED
  BY <1>1, TypeCorrect, ForwardInvCorrect, PTL

-----------------------------------------------------------------------------
(* LdapMirror *)

\* A change of an address changes the records.
LEMMA RecordsChange ==
  ASSUME TypeOK, NEW h \in Host, NEW a \in Addr \union {NoAddr}, SetAddress(h, a)
  PROVE  Records' # Records
<1>1. ldap[h] # a /\ ldap'[h] = a
  BY DEF SetAddress, TypeOK
<1>2. CASE a # NoAddr
  <2>1. <<h, a>> \in Records'
    BY <1>1, <1>2 DEF Records
  <2>2. <<h, a>> \notin Records
    BY <1>1 DEF Records
  <2> QED
    BY <2>1, <2>2
<1>3. CASE a = NoAddr
  <2>1. <<h, ldap[h]>> \in Records
    BY <1>1, <1>3 DEF Records
  <2>2. <<h, ldap[h]>> \notin Records'
    BY <1>1 DEF Records
  <2> QED
    BY <2>1, <2>2
<1> QED
  BY <1>2, <1>3

\* A step that changes neither the records nor the forward zone, and that takes
\* nothing, stutters or abandons the update.
LEMMA NothingTaken ==
  ASSUME UNCHANGED <<ldap, file>>,
         UNCHANGED run \/ ~(run'.pc = "install" /\ run'.zone = 0)
  PROVE  [Mirror!Next]_(Mirror!vars)
<1>1. UNCHANGED <<Records, Lines(0)>>
  BY DEF Records, Lines
<1>2. CASE UNCHANGED run
  BY <1>1, <1>2 DEF Mirror!vars
<1>3. CASE ~(run'.pc = "install" /\ run'.zone = 0)
  BY <1>1, <1>3 DEF Mirror!Next, Mirror!Abandon
<1> QED
  BY <1>2, <1>3

\* As far as safety goes, the script implements LdapMirror: the forward zone is at
\* all times what LDAP contained at one moment.
THEOREM MirrorSafe == Spec => MirrorsLdap
<1>1. Init => Mirror!Init
  <2> SUFFICES ASSUME Init PROVE Mirror!Init
    OBVIOUS
  <2>1. Records \in SUBSET Record /\ 0 \in Zone
    BY LdapAssumption, ConstantTypes DEF Init, Records, Record
  <2>2. file[0].hosts = Batch(Records)
    BY <2>1 DEF Init, UpToDate, InZone
  <2>3. Lines(0) = Records
    BY <2>1, <2>2, BatchType DEF Lines, Listed
  <2> QED
    BY <2>3 DEF Init, NotRunning, Mirror!Init
<1>2. TypeOK /\ ForwardInv /\ ForwardInv' /\ TypeOK' /\ [Next]_vars
        => [Mirror!Next]_(Mirror!vars)
  <2> SUFFICES ASSUME TypeOK, ForwardInv, ForwardInv', TypeOK', [Next]_vars
               PROVE  [Mirror!Next]_(Mirror!vars)
    OBVIOUS
  <2>0. run \in RunType /\ run.zone \in Nat
    BY ConstantTypes DEF TypeOK, RunType
  <2>5. (TypeOK /\ Published /\ ForwardInstalled => Lines(0) = run.found)'
    BY ForwardLines, PTL
  <2>1. CASE Cron
    <3>1. run'.pc = "search"
      BY <2>0, <2>1 DEF Cron, Start, RunType
    <3> QED
      BY <2>1, <3>1, NothingTaken DEF Cron, Start, world
  <2>2. CASE Run
    <3>0. UNCHANGED Records
      BY <2>2 DEF Run, world, Records
    <3>1. CASE Search
      <4>1. run.pc = "search" /\ run'.pc = "install" /\ run'.zone = 0
            /\ run'.found = Records
        BY <2>0, <3>1 DEF Search, RunType, ForwardInv, Fresh
      <4>2. UNCHANGED Lines(0)
        BY <3>1 DEF Search, Lines
      <4> QED
        BY <3>0, <4>1, <4>2 DEF Mirror!Next, Mirror!Take
    <3>2. CASE SearchFails \/ RefuseNetwork \/ Finish
      BY <2>2, <3>2, NothingTaken
      DEF Run, SearchFails, RefuseNetwork, Finish, Exit, NotRunning, world
    <3>3. CASE Install
      <4>0. run.pc = "install" /\ run'.found = run.found
            /\ (run'.pc \in {"reload", "finish"} \/ run'.zone = run.zone + 1)
            /\ run'.pc \in {"install", "reload", "finish"}
        BY <2>0, <3>3, AfterInstall DEF NextZone, RunType
      <4>1. run.pc = "install" /\ run'.found = run.found /\ ForwardInstalled'
            /\ ~(run'.pc = "install" /\ run'.zone = 0)
        BY <2>0, <4>0 DEF ForwardInstalled
      <4>4. Lines(0)' = run.found
        BY <2>5, <4>1 DEF ForwardInv
      <4>2. CASE run.zone = 0
        BY <3>0, <4>1, <4>2, <4>4 DEF Mirror!Next, Mirror!Publish
      <4>3. CASE run.zone # 0
        <5>1. Lines(0) = run.found
          BY <4>1, <4>3, ForwardLines DEF ForwardInv, ForwardInstalled
        <5> QED
          BY <3>0, <4>1, <4>3, <4>4, <5>1 DEF Mirror!vars
      <4> QED
        BY <4>2, <4>3
    <3>4. CASE Reload
      <4>0. run'.pc \in {"reload", "finish"} \/ run'.zone = run.zone + 1
        BY <2>0, <3>4, AfterReload DEF NextZone, RunType
      <4>1. ~(run'.pc = "install" /\ run'.zone = 0)
        BY <2>0, <4>0
      <4> QED
        BY <2>2, <3>4, <4>1, NothingTaken, AfterReload DEF Run, world
    <3> QED
      BY <2>2, <3>1, <3>2, <3>3, <3>4 DEF Run
  <2>3. CASE (Stop /\ UNCHANGED world) \/ Restarted
    <3>1. UNCHANGED <<ldap, file>>
      BY <2>3 DEF Stop, Restarted, Reboot, Stopped, world
    <3>2. UNCHANGED run \/ run'.pc = "idle"
      BY <2>3, Ends DEF NotRunning
    <3> QED
      BY <3>1, <3>2, NothingTaken
  <2>4. ASSUME NEW h \in Host, NEW a \in Addr \union {NoAddr}, SetAddress(h, a)
        PROVE  [Mirror!Next]_(Mirror!vars)
    <3>1. Records' # Records
      BY <2>4, RecordsChange
    <3>2. UNCHANGED Lines(0)
      BY <2>4 DEF SetAddress, Lines
    <3>3. run'.pc = run.pc /\ run'.zone = run.zone /\ run'.found = run.found
      BY <2>0, <2>4 DEF SetAddress, RunType
    <3> QED
      BY <3>1, <3>2, <3>3 DEF Mirror!Next, Mirror!Change
  <2> QED
    BY <2>1, <2>2, <2>3, <2>4, OthersKeepFiles, NothingTaken DEF Next
<1> QED
  BY <1>1, <1>2, TypeCorrect, ForwardInvCorrect, PTL DEF Spec, MirrorsLdap, Mirror!Safety

-----------------------------------------------------------------------------
(* named *)

\* Outside of the reloads nothing waits for one.
LEMMA NothingUnreloaded ==
  ASSUME run.pc # "reload" PROVE Unreloaded = {}
  BY DEF Unreloaded

LEMMA NamedInductive ==
  TypeOK /\ NamedServesFiles /\ [Next]_vars => NamedServesFiles'
<1> SUFFICES ASSUME TypeOK, NamedServesFiles, [Next]_vars,
                    NEW v \in View, NEW z \in Zone
             PROVE  (loaded[v, z] = file[z] \/ <<v, z>> \in missed \union Unreloaded)'
  BY DEF NamedServesFiles
<1> DEFINE Served == loaded[v, z] = file[z] \/ <<v, z>> \in missed \union Unreloaded
<1>0. run \in RunType /\ run.zone \in Zone
  BY DEF TypeOK, RunType
<1>1. Served
  BY DEF NamedServesFiles
<1>2. CASE UNCHANGED <<loaded, file, missed>> /\ run.pc # "reload"
  BY <1>1, <1>2, NothingUnreloaded
<1>3. CASE UNCHANGED <<loaded, file, missed>> /\ UNCHANGED Unreloaded
  BY <1>1, <1>3
<1>4. CASE LoadAll /\ UNCHANGED file
  <2>1. loaded' = [vz \in View \X Zone |-> file[vz[2]]]
    BY <1>4 DEF LoadAll
  <2> QED
    BY <1>4, <2>1
<1>5. CASE Cron
  BY <1>2, <1>5 DEF Cron, Start
<1>6. CASE Run
  <2>1. CASE Search \/ SearchFails \/ RefuseNetwork \/ Finish
    BY <1>2, <2>1 DEF Search, SearchFails, RefuseNetwork, Finish
  <2>2. CASE Install
    <3>1. Unreloaded = {} /\ UNCHANGED <<loaded, missed>>
      BY <2>2, NothingUnreloaded DEF Install
    <3>2. CASE z # run.zone
      <4>1. file'[z] = file[z]
        BY <2>2, <3>2, AfterInstall DEF TypeOK
      <4> QED
        BY <1>1, <3>1, <4>1
    <3>3. CASE z = run.zone /\ file[run.zone] = Made
      <4>1. file'[z] = file[z]
        BY <2>2, <3>3, AfterInstall DEF TypeOK
      <4> QED
        BY <1>1, <3>1, <4>1
    <3>4. CASE z = run.zone /\ file[run.zone] # Made
      <4>1. v \in 1..NumViews /\ NumViews > 0
        BY SizesAssumption DEF View
      <4>2. run' = [run EXCEPT !.pc = "reload", !.view = 1]
        BY <2>2, <3>4, <4>1, Zenon DEF Install
      <4>3. run'.pc = "reload" /\ run'.view = 1 /\ run'.zone = z
        BY <1>0, <3>4, <4>2 DEF RunType
      <4>4. <<v, z>> \in Unreloaded'
        BY <4>1, <4>3 DEF Unreloaded
      <4> QED
        BY <4>4
    <3> QED
      BY <3>2, <3>3, <3>4
  <2>3. CASE Reload
    <3>0. run.pc = "reload" /\ run.view \in Nat /\ v \in Nat /\ v <= NumViews
          /\ run.view <= NumViews /\ NumViews \in Nat
      BY <2>3, SizesAssumption DEF Reload, TypeOK, RunType, View
    <3>1. CASE <<v, z>> = <<run.view, run.zone>>
      <4>1. CASE missed' = missed \union {<<run.view, run.zone>>}
        BY <3>1, <4>1
      <4>2. CASE loaded' = [loaded EXCEPT ![<<run.view, run.zone>>] = file[run.zone]]
        <5>1. loaded'[v, z] = file[z]
          BY <3>1, <4>2 DEF TypeOK
        <5> QED
          BY <2>3, <5>1, AfterReload
      <4> QED
        BY <2>3, <4>1, <4>2 DEF Reload
    <3>2. CASE <<v, z>> # <<run.view, run.zone>>
      <4>1. loaded'[v, z] = loaded[v, z] /\ file'[z] = file[z]
        BY <2>3, <3>2 DEF Reload, TypeOK
      <4>2. <<v, z>> \in missed => <<v, z>> \in missed'
        BY <2>3, <3>2 DEF Reload
      <4>3. ASSUME <<v, z>> \in Unreloaded PROVE <<v, z>> \in Unreloaded'
        <5>1. z = run.zone /\ v \in run.view..NumViews
          BY <3>0, <4>3 DEF Unreloaded
        <5>2. v > run.view
          BY <3>0, <3>2, <5>1
        <5>3. run' = [run EXCEPT !.view = @ + 1]
          BY <2>3, <3>0, <5>2 DEF Reload, NextView
        <5>4. run'.pc = "reload" /\ run'.zone = z /\ run'.view = run.view + 1
          BY <1>0, <3>0, <5>1, <5>3 DEF RunType
        <5>5. v \in run'.view..NumViews
          BY <3>0, <5>1, <5>2, <5>4
        <5> QED
          BY <5>4, <5>5 DEF Unreloaded
      <4> QED
        BY <1>1, <4>1, <4>2, <4>3
    <3> QED
      BY <3>1, <3>2
  <2> QED
    BY <1>6, <2>1, <2>2, <2>3 DEF Run
<1>7. CASE Stop
  BY <1>1, <1>7 DEF Stop, Stopped
<1>8. CASE Restarted
  BY <1>4, <1>8 DEF Restarted, Reboot, Stopped
<1>9. ASSUME NEW h \in Host, NEW a \in Addr \union {NoAddr}, SetAddress(h, a)
      PROVE  Served'
  <2>1. run'.pc = run.pc /\ run'.zone = run.zone /\ run'.view = run.view
    BY <1>0, <1>9 DEF SetAddress, RunType
  <2> QED
    BY <1>3, <1>9, <2>1 DEF SetAddress, Unreloaded
<1>10. CASE \E y \in Zone : ChangeHeader(y)
  BY <1>3, <1>10 DEF ChangeHeader, Unreloaded
<1>11. CASE RestartNamed
  BY <1>4, <1>11 DEF RestartNamed
<1>12. CASE BoundReached \/ UNCHANGED vars
  BY <1>3, <1>12 DEF BoundReached, vars, Unreloaded
<1> QED
  BY <1>5, <1>6, <1>7, <1>8, <1>9, <1>10, <1>11, <1>12 DEF Next

\* A view serves the zone files as they are, unless a reload of it failed, was
\* prevented or is about to happen.
THEOREM NamedServesFilesCorrect == Spec => []NamedServesFiles
<1>1. Init => NamedServesFiles
  BY DEF Init, NamedServesFiles
<1> QED
  BY <1>1, TypeCorrect, NamedInductive, PTL DEF Spec

-----------------------------------------------------------------------------
(* The reverse zones *)

\* The run has installed the reverse zone of a network.
Visited(n) ==
  \/ run.pc = "install" /\ n < run.zone
  \/ run.pc = "reload" /\ n <= run.zone
  \/ run.pc = "finish"

\* What the run has found is in the host list, and in the reverse zones that it has
\* installed.
HostsListed ==
  run.pc \in {"install", "reload", "finish"} => run.found \subseteq Listed(hostlist)

PtrsMade == \A n \in Net : Visited(n) => InZone(n, run.found) \subseteq Lines(n)

RunningIsUnfinished == run.pc # "idle" => unfinished

ReverseInv == RunningIsUnfinished /\ HostsListed /\ PtrsMade /\ PtrForEveryA

LEMMA ReverseInductive ==
  TypeOK /\ ForwardInv /\ ReverseInv /\ [Next]_vars => ReverseInv'
<1> SUFFICES ASSUME TypeOK, ForwardInv, ReverseInv, [Next]_vars PROVE ReverseInv'
  OBVIOUS
<1> USE DEF ReverseInv, RunningIsUnfinished
<1>0. /\ run \in RunType /\ run.zone \in Zone /\ run.zone \in Nat
      /\ run.found \in SUBSET Record /\ hostlist \in Batches
  BY ConstantTypes DEF TypeOK, RunType
<1>a. UNCHANGED grepcidr /\ \A n : \A r : InZone(n, r)' = InZone(n, r)
  BY GrepcidrStays DEF InZone
<1>1. ASSUME UNCHANGED file PROVE \A z : UNCHANGED Lines(z)
  BY <1>1 DEF Lines
<1>2. CASE run' = NotRunning /\ UNCHANGED <<file, unfinished>>
  BY <1>a, <1>1, <1>2 DEF NotRunning, HostsListed, PtrsMade, Visited, PtrForEveryA
<1>3. CASE /\ UNCHANGED <<file, hostlist, unfinished>>
           /\ run'.pc = run.pc /\ run'.zone = run.zone /\ run'.found = run.found
  BY <1>a, <1>1, <1>3 DEF HostsListed, PtrsMade, Visited, PtrForEveryA, InZone
<1>4. CASE Cron
  <2>1. run'.pc = "search"
    BY <1>0, <1>4 DEF Cron, Start, RunType
  <2> QED
    BY <1>a, <1>1, <1>4, <2>1
    DEF Cron, Start, HostsListed, PtrsMade, Visited, PtrForEveryA
<1>5. CASE Run
  <2>1. CASE Search
    <3>1. /\ run'.pc = "install" /\ run'.zone = 0 /\ run'.found = Records
          /\ UNCHANGED <<file, unfinished>> /\ unfinished
      BY <1>0, <2>1 DEF Search, RunType, ForwardInv, Fresh
    <3>2. Records \subseteq Listed(hostlist')
      BY <1>0, <2>1, RecordsType, AppendListed DEF Search
    <3>3. \A n \in Net : ~(n < 0)
      BY SizesAssumption DEF Net
    <3>4. HostsListed'
      BY <3>1, <3>2 DEF HostsListed, Listed
    <3> QED
      BY <1>a, <1>1, <3>1, <3>3, <3>4 DEF PtrsMade, Visited, PtrForEveryA
  <2>2. CASE SearchFails \/ RefuseNetwork
    BY <1>2, <2>2 DEF SearchFails, RefuseNetwork, Exit
  <2>3. CASE Install
    <3>1. /\ run.pc = "install" /\ UNCHANGED <<hostlist, unfinished>> /\ unfinished
      BY <2>3 DEF Install
    <3>2. /\ run'.found = run.found
          /\ \A n \in Net : Visited(n)' => n < run.zone \/ n = run.zone
      <4>1. CASE run' = [run EXCEPT !.pc = "reload", !.view = 1]
        <5>1. run'.pc = "reload" /\ run'.zone = run.zone /\ run'.found = run.found
          BY <1>0, <4>1 DEF RunType
        <5>2. \A n \in Net : n <= run.zone => n < run.zone \/ n = run.zone
          BY <1>0, SizesAssumption DEF Net
        <5> QED
          BY <5>1, <5>2 DEF Visited
      <4>2. CASE NextZone /\ run.zone < NumNets
        <5>1. run'.pc = "install" /\ run'.zone = run.zone + 1 /\ run'.found = run.found
          BY <1>0, <4>2 DEF NextZone, RunType
        <5>2. \A n \in Net : n < run.zone + 1 => n < run.zone \/ n = run.zone
          BY <1>0, SizesAssumption DEF Net
        <5> QED
          BY <5>1, <5>2 DEF Visited
      <4>3. CASE NextZone /\ ~(run.zone < NumNets)
        <5>1. run'.found = run.found
          BY <1>0, <4>3 DEF NextZone, RunType
        <5>2. \A n \in Net : n < run.zone \/ n = run.zone
          BY <1>0, <4>3, SizesAssumption DEF Net, Zone
        <5> QED
          BY <5>1, <5>2
      <4> QED
        BY <2>3, <4>1, <4>2, <4>3, AfterInstall
    <3>3. HostsListed'
      BY <3>1, <3>2 DEF HostsListed, Listed
    <3>4. ASSUME NEW n \in Net, Visited(n)'
          PROVE  InZone(n, run'.found) \subseteq Lines(n)'
      <4>0. n \in Zone /\ n # 0 /\ n \in Nat
        BY ConstantTypes, SizesAssumption DEF Net
      <4>1. CASE n = run.zone
        <5>1. Made.hosts = ListInZone(n, hostlist)
          BY <3>1, <4>0, <4>1, MadeType
        <5>2. file'[n] = Made
          BY <2>3, <4>0, <4>1, AfterInstall DEF TypeOK
        <5>3. Lines(n)' = InZone(n, Listed(hostlist))
          BY <1>0, <4>0, <5>1, <5>2, ListInZoneListed DEF Lines, Listed
        <5>4. run.found \subseteq Listed(hostlist)
          BY <3>1 DEF HostsListed
        <5> QED
          BY <3>2, <5>3, <5>4 DEF InZone
      <4>2. CASE n # run.zone
        <5>1. n < run.zone
          BY <3>2, <3>4, <4>2
        <5>2. UNCHANGED Lines(n)
          BY <2>3, <4>0, <4>2, AfterInstall DEF TypeOK, Lines
        <5> QED
          BY <3>1, <3>2, <5>1, <5>2 DEF PtrsMade, Visited
      <4> QED
        BY <4>1, <4>2
    <3> QED
      BY <1>a, <3>1, <3>3, <3>4 DEF PtrsMade, PtrForEveryA, InZone
  <2>4. CASE Reload
    <3>1. /\ run.pc = "reload" /\ UNCHANGED <<file, hostlist, unfinished>> /\ unfinished
      BY <2>4 DEF Reload
    <3>2. /\ run'.found = run.found
          /\ \A n \in Net : Visited(n)' => n <= run.zone
      <4>1. CASE run' = [run EXCEPT !.view = @ + 1]
        <5>1. run'.pc = "reload" /\ run'.zone = run.zone /\ run'.found = run.found
          BY <1>0, <3>1, <4>1 DEF RunType
        <5> QED
          BY <5>1 DEF Visited
      <4>2. CASE NextZone /\ run.zone < NumNets
        <5>1. run'.pc = "install" /\ run'.zone = run.zone + 1 /\ run'.found = run.found
          BY <1>0, <4>2 DEF NextZone, RunType
        <5>2. \A n \in Net : n < run.zone + 1 => n <= run.zone
          BY <1>0, SizesAssumption DEF Net
        <5> QED
          BY <5>1, <5>2 DEF Visited
      <4>3. CASE NextZone /\ ~(run.zone < NumNets)
        <5>1. run'.found = run.found
          BY <1>0, <4>3 DEF NextZone, RunType
        <5>2. \A n \in Net : n <= run.zone
          BY <1>0, <4>3, SizesAssumption DEF Net, Zone
        <5> QED
          BY <5>1, <5>2
      <4> QED
        BY <2>4, <4>1, <4>2, <4>3, AfterReload
    <3>3. HostsListed'
      BY <3>1, <3>2 DEF HostsListed, Listed
    <3>4. PtrsMade'
      BY <1>a, <1>1, <3>1, <3>2 DEF PtrsMade, Visited, InZone
    <3> QED
      BY <3>1, <3>3, <3>4 DEF PtrForEveryA
  <2>5. CASE Finish
    <3>1. run.pc = "finish" /\ run'.pc = "idle" /\ UNCHANGED file
      BY <2>5 DEF Finish, Exit, NotRunning
    <3>2. Lines(0) = run.found
      BY <3>1, ForwardLines DEF ForwardInv, ForwardInstalled
    <3>3. ASSUME grepcidr, NEW r \in Lines(0), NetOf[r[2]] # 0
          PROVE  r \in Lines(NetOf[r[2]])
      <4>1. r \in Record /\ NetOf[r[2]] \in Net
        BY <1>0, <3>2, <3>3, NetsAssumption, SizesAssumption DEF Record, Net, Zone
      <4>2. r \in InZone(NetOf[r[2]], run.found)
        BY <3>2, <3>3 DEF InZone
      <4> QED
        BY <3>1, <4>1, <4>2 DEF PtrsMade, Visited
    <3>4. PtrForEveryA'
      BY <1>a, <1>1, <3>1, <3>3 DEF PtrForEveryA
    <3> QED
      BY <3>1, <3>4 DEF HostsListed, PtrsMade, Visited
  <2> QED
    BY <1>5, <2>1, <2>2, <2>3, <2>4, <2>5 DEF Run
<1>6. CASE (Stop /\ UNCHANGED world) \/ Restarted
  <2>1. \/ run' = NotRunning /\ UNCHANGED <<file, unfinished>>
        \/ UNCHANGED <<run, file, hostlist, unfinished>>
    BY <1>6 DEF Stop, Restarted, Reboot, Stopped, Exit
  <2> QED
    BY <1>2, <1>3, <2>1
<1>7. ASSUME NEW h \in Host, NEW a \in Addr \union {NoAddr}, SetAddress(h, a)
      PROVE  ReverseInv'
  <2>1. run'.pc = run.pc /\ run'.zone = run.zone /\ run'.found = run.found
    BY <1>0, <1>7 DEF SetAddress, RunType
  <2> QED
    BY <1>3, <1>7, <2>1 DEF SetAddress
<1> QED
  BY <1>3, <1>4, <1>5, <1>6, <1>7, OthersKeepFiles DEF Next

\* Once a run went through to its end, every host of the forward zone has its line
\* in the reverse zone of its network.
THEOREM PtrForEveryACorrect == Spec => []PtrForEveryA
<1>1. Init => ReverseInv
  <2> SUFFICES ASSUME Init PROVE ReverseInv
    OBVIOUS
  <2>1. Records \in SUBSET Record
    BY LdapAssumption DEF Init, Records, Record
  <2>2. ASSUME NEW z \in Zone PROVE Lines(z) = InZone(z, Records)
    <3>1. InZone(z, Records) \in SUBSET Record
      BY <2>1 DEF InZone
    <3>2. file[z].hosts = Batch(InZone(z, Records))
      BY DEF Init, UpToDate
    <3> QED
      BY <3>1, <3>2, BatchType DEF Lines, Listed
  <2>3. \A r \in Record : NetOf[r[2]] \in Zone
    BY NetsAssumption DEF Record
  <2>4. PtrForEveryA
    BY <2>1, <2>2, <2>3, ConstantTypes DEF PtrForEveryA, InZone
  <2> QED
    BY <2>4
    DEF Init, NotRunning, ReverseInv, RunningIsUnfinished, HostsListed, PtrsMade,
        Visited
<1>2. ReverseInv => PtrForEveryA
  BY DEF ReverseInv
<1> QED
  BY <1>1, <1>2, TypeCorrect, ForwardInvCorrect, ReverseInductive, PTL DEF Spec

-----------------------------------------------------------------------------
(* What lasts while LDAP rests *)

\* The run has the search behind it.
HasFound == run.pc \in {"install", "reload", "finish"}

\* The zones have the lines that LDAP has for them and no other, and so has what
\* they are going to be made from.
Exact ==
  /\ \A z \in Zone : Lines(z) = InZone(z, Records)
  /\ Listed(hostlist) \subseteq Records
  /\ HasFound => run.found = Records /\ Records \subseteq Listed(hostlist)

\* How a run goes on from one zone or one view to the next.
LEMMA GoesOn ==
  ASSUME TypeOK, Install \/ Reload
  PROVE  /\ HasFound /\ HasFound' /\ run'.found = run.found
         /\ run'.header = run.header /\ UNCHANGED hostlist
<1>1. run \in RunType
  BY DEF TypeOK
<1>2. run.pc \in {"install", "reload"} /\ UNCHANGED hostlist
  BY DEF Install, Reload
<1>3. \/ run' = [run EXCEPT !.pc = "reload", !.view = 1]
      \/ run.pc = "reload" /\ run' = [run EXCEPT !.view = @ + 1]
      \/ NextZone
  BY AfterInstall, AfterReload
<1> QED
  BY <1>1, <1>2, <1>3 DEF NextZone, HasFound, RunType

\* A step that keeps LDAP and the files and ends the run, or is none of it.
LEMMA ExactKept ==
  ASSUME TypeOK, Exact, UNCHANGED <<ldap, file, grepcidr>>, ~HasFound',
         \/ UNCHANGED hostlist
         \/ hostlist' = <<>>
         \/ \E part \in SUBSET Records : hostlist' = hostlist \o Batch(part)
  PROVE  Exact'
<1>1. UNCHANGED Records /\ \A z : UNCHANGED Lines(z)
  BY DEF Records, Lines
<1>2. Listed(hostlist') \subseteq Records
  <2>1. CASE hostlist' = hostlist
    BY <2>1 DEF Exact
  <2>2. CASE hostlist' = <<>>
    BY <2>2 DEF Listed
  <2>3. CASE \E part \in SUBSET Records : hostlist' = hostlist \o Batch(part)
    <3>1. PICK part \in SUBSET Records : hostlist' = hostlist \o Batch(part)
      BY <2>3
    <3>2. part \in SUBSET Record /\ hostlist \in Batches
      BY RecordsType DEF TypeOK
    <3>3. Listed(hostlist') = Listed(hostlist) \union part
      BY <3>1, <3>2, AppendListed
    <3> QED
      BY <3>1, <3>3 DEF Exact
  <2> QED
    BY <2>1, <2>2, <2>3
<1> QED
  BY <1>1, <1>2 DEF Exact, InZone, Listed

LEMMA ExactStays == ASSUME TypeOK, Exact, [Next]_vars, UNCHANGED ldap PROVE Exact'
<1>0. /\ UNCHANGED Records /\ run \in RunType /\ hostlist \in Batches
      /\ Records \in SUBSET Record /\ UNCHANGED grepcidr
  BY RecordsType, GrepcidrStays DEF Records, TypeOK
<1>1. CASE Cron
  <2>1. ~HasFound' /\ UNCHANGED <<file, hostlist>>
    BY <1>0, <1>1 DEF Cron, Start, HasFound, RunType
  <2> QED
    BY <1>0, <2>1, ExactKept
<1>2. CASE Search
  <2>1. /\ run'.found = Records /\ UNCHANGED file
        /\ hostlist' = hostlist \o Batch(Records)
    BY <1>0, <1>2 DEF Search, RunType
  <2>2. Listed(hostlist') = Listed(hostlist) \union Records
    BY <1>0, <2>1, AppendListed
  <2>3. Listed(hostlist') = Records /\ \A z : UNCHANGED Lines(z)
    BY <2>1, <2>2 DEF Exact, Lines
  <2> QED
    BY <1>0, <2>1, <2>3 DEF Exact, InZone, Listed
<1>3. CASE SearchFails \/ RefuseNetwork \/ Finish
  <2>1. ~HasFound' /\ UNCHANGED file
    BY <1>3 DEF SearchFails, RefuseNetwork, Finish, Exit, NotRunning, HasFound
  <2> QED
    BY <1>0, <1>3, <2>1, ExactKept DEF SearchFails, RefuseNetwork, Finish
<1>4. CASE Install
  <2>1. run.found = Records /\ Listed(hostlist) = Records
    BY <1>4, GoesOn DEF Exact
  <2>2. ASSUME NEW z \in Zone PROVE Lines(z)' = InZone(z, Records)
    <3>1. CASE z # run.zone
      BY <1>4, <2>2, <3>1, AfterInstall DEF Lines, Exact, TypeOK
    <3>2. CASE z = run.zone
      <4>1. run.pc = "install" /\ file'[z] = Made
        BY <1>4, <3>2, AfterInstall DEF TypeOK
      <4>2. Lines(z)' = Listed(Made.hosts)
        BY <4>1 DEF Lines, Listed
      <4>3. CASE z = 0
        <5>1. Made.hosts = Batch(Records)
          BY <2>1, <3>2, <4>1, <4>3, MadeType
        <5> QED
          BY <1>0, <4>2, <4>3, <5>1, BatchType DEF InZone
      <4>4. CASE z # 0
        <5>1. Made.hosts = ListInZone(z, hostlist)
          BY <3>2, <4>1, <4>4, MadeType
        <5> QED
          BY <1>0, <2>1, <4>2, <5>1, ListInZoneListed
      <4> QED
        BY <4>3, <4>4
    <3> QED
      BY <3>1, <3>2
  <2> QED
    BY <1>0, <1>4, <2>1, <2>2, GoesOn DEF Exact, InZone, Listed
<1>5. CASE Reload
  <2>1. \A z : UNCHANGED Lines(z)
    BY <1>5, AfterReload DEF Lines
  <2> QED
    BY <1>0, <1>5, <2>1, GoesOn DEF Exact, InZone, Listed
<1>6. CASE Stopped
  BY <1>0, <1>6, ExactKept DEF Stopped, NotRunning, HasFound
<1>7. CASE Restarted /\ ~Stopped
  <2>1. ~HasFound' /\ UNCHANGED <<file, hostlist>>
    BY <1>7 DEF Restarted, Reboot, HasFound
  <2> QED
    BY <1>0, <2>1, ExactKept
<1>8. ASSUME UNCHANGED <<run, file, hostlist>> PROVE Exact'
  BY <1>0, <1>8 DEF Exact, Lines, InZone, Listed, HasFound
<1>9. ASSUME NEW h \in Host, NEW a \in Addr \union {NoAddr}, SetAddress(h, a)
      PROVE  FALSE
  BY <1>9 DEF SetAddress, TypeOK
<1> QED
  BY <1>1, <1>2, <1>3, <1>4, <1>5, <1>6, <1>7, <1>8, <1>9, OthersKeepFiles
  DEF Next, Run, Stop

\* Zones that have the lines of LDAP and no other keep them while LDAP rests,
\* wherever searches fail, networks are refused, reloads fail, scripts are stopped
\* and the router is rebooted: what such a run leaves in the host list is nothing
\* that LDAP has not.
THEOREM LinesStay == Spec => [][Exact /\ UNCHANGED ldap => Exact']_vars
<1>1. TypeOK /\ [Next]_vars => [Exact /\ UNCHANGED ldap => Exact']_vars
  BY ExactStays
<1> QED
  BY <1>1, TypeCorrect, PTL DEF Spec

\* The zone files are up to date, a running script has read nothing else, and the
\* host list holds the result of its search only.
Settled ==
  /\ \A z \in Zone : file[z] = UpToDate(z)
  /\ run.pc # "idle" => run.header = header[0]
  /\ hostlist = IF HasFound THEN Batch(Records) ELSE <<>>
  /\ HasFound => run.found = Records

LEMMA SettledStays ==
  ASSUME TypeOK, Settled, [Next]_vars, UNCHANGED <<ldap, header>>, refused = {},
         ~SearchFails, ~Stopped
  PROVE  Settled'
<1>0. /\ UNCHANGED Records /\ run \in RunType /\ hostlist \in Batches
      /\ Records \in SUBSET Record /\ UNCHANGED grepcidr
  BY RecordsType, GrepcidrStays DEF Records, TypeOK
<1>1. \A z : UNCHANGED UpToDate(z)
  BY <1>0 DEF UpToDate, InZone
<1>2. CASE Cron
  <2>1. /\ ~HasFound /\ ~HasFound' /\ UNCHANGED <<file, hostlist>>
        /\ run'.header = header[0]
    BY <1>0, <1>2 DEF Cron, Start, HasFound, RunType
  <2> QED
    BY <1>1, <2>1 DEF Settled
<1>3. CASE Search
  <2>1. /\ ~HasFound /\ HasFound' /\ UNCHANGED file
        /\ run'.header = run.header /\ run'.found = Records /\ run.pc # "idle"
        /\ hostlist' = hostlist \o Batch(Records)
    BY <1>0, <1>3 DEF Search, HasFound, RunType
  <2>2. Batch(Records) \in Batches
    BY <1>0, BatchType
  <2>3. hostlist' = Batch(Records)
    BY <2>1, <2>2 DEF Settled, Batches
  <2> QED
    BY <1>0, <1>1, <2>1, <2>3 DEF Settled, Batch
<1>4. CASE RefuseNetwork
  BY <1>4 DEF RefuseNetwork
<1>5. CASE Finish
  <2>1. run'.pc = "idle" /\ UNCHANGED file /\ hostlist' = <<>>
    BY <1>5 DEF Finish, Exit, NotRunning
  <2> QED
    BY <1>1, <2>1 DEF Settled, HasFound
<1>6. CASE Install
  <2>1. /\ run.pc = "install" /\ run.zone \in Zone /\ run.header = header[0]
        /\ hostlist = Batch(Records) /\ run.found = Records
    BY <1>0, <1>6 DEF Install, Settled, HasFound, RunType
  <2>2. Made = UpToDate(run.zone)
    BY <1>0, <2>1, OneBatchInZone DEF Made, UpToDate, InZone
  <2>3. UNCHANGED file
    BY <1>6, <2>1, <2>2, AfterInstall DEF Settled, TypeOK
  <2> QED
    BY <1>0, <1>1, <1>6, <2>1, <2>3, GoesOn DEF Settled, Batch
<1>7. CASE Reload
  <2>1. run.pc # "idle" /\ UNCHANGED file
    BY <1>7 DEF Reload
  <2> QED
    BY <1>0, <1>1, <1>7, <2>1, GoesOn DEF Settled, Batch
<1>8. ASSUME UNCHANGED <<run, file, hostlist>> PROVE Settled'
  BY <1>0, <1>1, <1>8 DEF Settled, Batch, HasFound
<1>9. CASE Restarted
  <2>1. run'.pc = "idle" /\ run.pc = "idle" /\ UNCHANGED <<file, hostlist>>
    BY <1>9 DEF Restarted, Reboot, Exit, NotRunning
  <2> QED
    BY <1>1, <2>1 DEF Settled, HasFound
<1>10. ASSUME NEW h \in Host, NEW a \in Addr \union {NoAddr}, SetAddress(h, a)
       PROVE  FALSE
  BY <1>10 DEF SetAddress, TypeOK
<1> QED
  BY <1>2, <1>3, <1>4, <1>5, <1>6, <1>7, <1>8, <1>9, <1>10, OthersKeepFiles
  DEF Next, Run, Stop

\* Zone files that are up to date are left as they are, batch by batch, while LDAP and
\* the headers rest, no network is refused, no search fails and no script is stopped.
\* (After such a failure a reverse zone may have a line twice.)
THEOREM FilesStay ==
  Spec => [][Settled /\ UNCHANGED <<ldap, header>> /\ refused = {}
               /\ ~SearchFails /\ ~Stopped => Settled']_vars
<1>1. TypeOK /\ [Next]_vars
        => [Settled /\ UNCHANGED <<ldap, header>> /\ refused = {}
              /\ ~SearchFails /\ ~Stopped => Settled']_vars
  BY SettledStays
<1> QED
  BY <1>1, TypeCorrect, PTL DEF Spec
=============================================================================
