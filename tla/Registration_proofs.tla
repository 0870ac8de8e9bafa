-------------------------- MODULE Registration_proofs --------------------------
(***************************************************************************)
(* Proofs about Registration, for any administrators, units, networks and   *)
(* requests, and any number of removals and failing LDAP commands.          *)
(***************************************************************************)
EXTENDS Registration, TLAPS, WellFoundedInduction

-----------------------------------------------------------------------------
(* What umbrella-hosts answers *)

\* The first free address is a free address of the network, if there is one.
LEMMA FirstFreeIsFree ==
  ASSUME NEW ou \in Ou, NEW taken, ~(Network[ou] \subseteq taken)
  PROVE  FirstFree(ou, taken) \in Network[ou] \ taken
<1> DEFINE free == Network[ou] \ taken
<1>1. free \in SUBSET Nat /\ free # {}
  BY AddrAssumption
<1>2. PICK a \in free : \A b \in free : <<b, a>> \notin OpToRel(<, Nat)
  <2> HIDE DEF free
  <2>1. QED
    BY <1>1, NatLessThanWellFounded, WFMin, Zenon
<1>3. ASSUME NEW b \in free PROVE a <= b
  <2>1. a \in Nat /\ b \in Nat
    BY <1>1
  <2>2. b < a => <<b, a>> \in OpToRel(<, Nat)
    BY <2>1 DEF OpToRel
  <2>3. <<b, a>> \notin OpToRel(<, Nat)
    BY <1>2
  <2>4. ~(b < a)
    BY <2>2, <2>3, Zenon
  <2>5. QED
    BY <2>1, <2>4
<1>4. QED
  BY <1>3 DEF FirstFree

\* Whatever umbrella-hosts answers is nothing, or an address of the network that
\* is not taken as far as it knows.
LEMMA ChosenIsFree ==
  ASSUME NEW ou \in Ou, NEW asked, NEW taken,
         Chosen(ou, asked, taken) # NoAddr
  PROVE  /\ Chosen(ou, asked, taken) \in Network[ou] \ taken
         /\ Chosen(ou, asked, taken) \in Addr
<1>1. Chosen(ou, asked, taken) \in Network[ou] \ taken
  BY FirstFreeIsFree DEF Chosen
<1>2. QED
  BY <1>1, AddrAssumption

\* The search and the answer, as far as addresses and stages are concerned.
LEMMA ChooseAddressCases ==
  ASSUME NEW p \in Proc, ChooseAddress(p)
  PROVE  /\ pc[p] = "address"
         /\ UNCHANGED <<nodes, host, doubtful, removals>>
         /\ \/ disturbed' = disturbed \/ disturbed' = disturbed \union {p}
         /\ \/ faults' = faults \/ Fault
         /\ \/ End(p, "refused")
            \/ \E a \in Network[Asked[p].ou] \ Server :
                 /\ a \in Addr
                 /\ p \notin disturbed' => a \notin InUse
                 /\ addr' = [addr EXCEPT ![p] = a]
                 /\ level' = [level EXCEPT ![p] = 1]
                 /\ Goto(p, "look")
                 /\ UNCHANGED outcome
<1> DEFINE a(seen) == Chosen(Asked[p].ou, Asked[p].addr, Server \union seen)
<1>1. PICK seen \in SUBSET InUse :
        /\ \/ seen = InUse /\ UNCHANGED <<disturbed, faults>>
           \/ seen # InUse /\ Fault /\ disturbed' = disturbed \union {p}
        /\ \/ End(p, "refused")
           \/ /\ a(seen) # NoAddr
              /\ addr' = [addr EXCEPT ![p] = a(seen)]
              /\ level' = [level EXCEPT ![p] = 1]
              /\ Goto(p, "look")
              /\ UNCHANGED outcome
  BY Zenon DEF ChooseAddress
<1>2. Asked[p].ou \in Ou
  BY AskedAssumption
<1>3. a(seen) # NoAddr =>
        /\ a(seen) \in Network[Asked[p].ou] \ (Server \union seen)
        /\ a(seen) \in Addr
  BY <1>2, ChosenIsFree
<1>4. /\ pc[p] = "address"
      /\ UNCHANGED <<nodes, host, doubtful, removals>>
  BY DEF ChooseAddress, ldap
<1>5. p \notin disturbed' => seen = InUse
  BY <1>1
<1> HIDE DEF a
<1>6. QED
  BY <1>1, <1>3, <1>4, <1>5

-----------------------------------------------------------------------------
(* Type correctness *)

\* What an administrator asks for is there to be asked for.
LEMMA AskedTypes ==
  ASSUME NEW p \in Proc
  PROVE  /\ Asked[p].ou \in Ou
         /\ Entry(p) \in Ou \X Name
         /\ Above(p) \in Seq(Node)
         /\ Len(Above(p)) \in Nat \ {0}
         /\ DOMAIN Above(p) = 1..Len(Above(p))
<1>1. Asked[p].ou \in Ou /\ Asked[p].name \in Name
  BY AskedAssumption
<1>2. Above(p) \in Seq(Node) /\ Len(Above(p)) > 0
  BY <1>1, TreeAssumption DEF Above
<1>3. QED
  BY <1>1, <1>2 DEF Entry

\* The step from one unit of the chain to the next stays in the chain.
LEMMA NextLevelTypes ==
  ASSUME TypeOK, NEW p \in Proc, pc[p] \in {"look", "make"}, NextLevel(p)
  PROVE  /\ pc' \in [Proc -> {"idle", "address", "verify"} \union Holding]
         /\ level' \in [Proc -> Nat]
         /\ \A q \in Proc : pc'[q] \in {"look", "make"}
                              => level'[q] \in DOMAIN Chain[Asked[q].ou]
         /\ \A q \in Proc : pc'[q] \in Holding => pc[q] \in Holding
<1> USE DEF TypeOK, Above, Goto, Holding
<1>1. CASE level[p] < Len(Above(p))
  <2>1. level[p] \in DOMAIN Chain[Asked[p].ou] /\ level[p] + 1 \in DOMAIN Chain[Asked[p].ou]
    BY <1>1, AskedTypes
  <2>2. level' = [level EXCEPT ![p] = level[p] + 1] /\ pc' = [pc EXCEPT ![p] = "look"]
    BY <1>1 DEF NextLevel
  <2>3. QED
    BY <2>1, <2>2
<1>2. CASE ~(level[p] < Len(Above(p)))
  BY <1>2 DEF NextLevel
<1>3. QED
  BY <1>1, <1>2

LEMMA TypeInductive == TypeOK /\ [Next]_vars => TypeOK'
<1> SUFFICES ASSUME TypeOK, [Next]_vars PROVE TypeOK'
  OBVIOUS
<1> USE BoundsAssumption DEF TypeOK, Outcomes, Goto, End, Fault, ldap, Holding
<1>1. ASSUME NEW p \in Proc, Begin(p) PROVE TypeOK'
  BY <1>1 DEF Begin, Running
<1>2. ASSUME NEW p \in Proc, ChooseAddress(p) PROVE TypeOK'
  <2>1. CASE End(p, "refused")
    <3>1. /\ UNCHANGED <<nodes, host, doubtful, removals>>
          /\ disturbed' \in SUBSET Proc /\ faults' \in 0..MaxFaults
      BY <1>2, ChooseAddressCases
    <3>2. QED
      BY <2>1, <3>1
  <2>2. CASE ~End(p, "refused")
    <3>1. PICK a \in Network[Asked[p].ou] \ Server :
            /\ a \in Addr
            /\ addr' = [addr EXCEPT ![p] = a]
            /\ level' = [level EXCEPT ![p] = 1]
            /\ Goto(p, "look")
            /\ UNCHANGED outcome
      BY <1>2, <2>2, ChooseAddressCases, Zenon
    <3>2. 1 \in DOMAIN Chain[Asked[p].ou]
      BY AskedTypes DEF Above
    <3>3. /\ UNCHANGED <<nodes, host, doubtful, removals>>
          /\ disturbed' \in SUBSET Proc /\ faults' \in 0..MaxFaults
      BY <1>2, ChooseAddressCases
    <3>4. QED
      BY <3>1, <3>2, <3>3
  <2>3. QED
    BY <2>1, <2>2
<1>3. ASSUME NEW p \in Proc, SearchError(p) PROVE TypeOK'
  BY <1>3 DEF SearchError
<1>4. ASSUME NEW p \in Proc, Look(p) PROVE TypeOK'
  <2>1. CASE NextLevel(p)
    BY <1>4, <2>1, NextLevelTypes DEF Look
  <2>2. CASE Goto(p, "make") /\ UNCHANGED level
    BY <1>4, <2>2 DEF Look
  <2>3. QED
    BY <1>4, <2>1, <2>2 DEF Look
<1>5. ASSUME NEW p \in Proc, Make(p) PROVE TypeOK'
  <2>1. NextLevel(p) /\ pc[p] = "make"
    BY <1>5 DEF Make
  <2>2. pc[p] = "make" => Above(p)[level[p]] \in Node
    BY AskedTypes DEF Above
  <2>3. nodes' \in SUBSET Node
    BY <1>5, <2>1, <2>2 DEF Make
  <2>4. QED
    BY <1>5, <2>1, <2>3, NextLevelTypes DEF Make
<1>6. ASSUME NEW p \in Proc, Attach(p) \/ Unique(p) PROVE TypeOK'
  BY <1>6 DEF Attach, Unique
<1>7. ASSUME NEW p \in Proc, Add(p) PROVE TypeOK'
  BY <1>7, AskedTypes DEF Add
<1>8. ASSUME NEW p \in Proc, Verify(p) PROVE TypeOK'
  BY <1>8 DEF Verify
<1>9. ASSUME NEW key \in Ou \X Name, Remove(key) PROVE TypeOK'
  BY <1>9 DEF Remove
<1>10. CASE UNCHANGED vars
  BY <1>10 DEF vars
<1>11. QED
  BY <1>1, <1>2, <1>3, <1>4, <1>5, <1>6, <1>7, <1>8, <1>9, <1>10
  DEF Next, Step, Done

\* Every step of the scripts and every removal keep the variables in their
\* types: in particular the loop over the units never leaves its chain, and
\* whatever is added has an address.
THEOREM TypeCorrect == Spec => []TypeOK
<1>1. Init => TypeOK
  BY TreeAssumption, BoundsAssumption DEF Init, TypeOK, Outcomes, Holding
<1>2. QED
  BY <1>1, TypeInductive, PTL DEF Spec

-----------------------------------------------------------------------------
(* What the steps do to entries, addresses and stages *)

\* The steps of a script between its choice of an address and its attempt to add
\* the host keep the address, or end the script.
LEMMA MiddleSteps ==
  ASSUME TypeOK, NEW p \in Proc,
         SearchError(p) \/ Look(p) \/ Make(p) \/ Attach(p) \/ Unique(p)
  PROVE  /\ UNCHANGED <<host, doubtful, disturbed>>
         /\ pc[p] \in Holding \union {"verify"}
         /\ \/ /\ UNCHANGED <<addr, outcome>>
               /\ \E stage \in Holding : Goto(p, stage)
               /\ pc[p] \in Holding
               /\ pc'[p] = "add" => Entry(p) \notin Registered
            \/ End(p, "failed") \/ End(p, "exists")
<1> USE DEF ldap, Holding
<1>1. CASE SearchError(p)
  BY <1>1 DEF SearchError
<1>2. CASE Look(p) \/ Make(p)
  <2>1. /\ UNCHANGED <<host, doubtful, disturbed, addr, outcome>>
        /\ pc[p] \in {"look", "make"}
    BY <1>2 DEF Look, Make
  <2>2. Goto(p, "look") \/ Goto(p, "attach") \/ Goto(p, "make")
    BY <1>2 DEF Look, Make, NextLevel
  <2>3. pc'[p] # "add"
    BY <2>2 DEF Goto, TypeOK
  <2>4. QED
    BY <2>1, <2>2, <2>3
<1>3. CASE Attach(p)
  <2>1. Goto(p, "unique") => pc'[p] # "add"
    BY DEF Goto, TypeOK
  <2>2. QED
    BY <1>3, <2>1 DEF Attach
<1>4. CASE Unique(p)
  BY <1>4 DEF Unique
<1>5. QED
  BY <1>1, <1>2, <1>3, <1>4

\* The last command adds the entry with the address, or changes nothing.
LEMMA AddCases ==
  ASSUME TypeOK, NEW p \in Proc, Add(p)
  PROVE  /\ pc[p] = "add" /\ Goto(p, "verify")
         /\ addr[p] \in Addr
         /\ UNCHANGED <<addr, outcome, disturbed>>
         /\ \/ UNCHANGED <<host, doubtful>>
            \/ /\ Entry(p) \notin Registered
               /\ Registered' = Registered \union {Entry(p)}
               /\ host'[Entry(p)] = addr[p]
               /\ \A key \in Registered : host'[key] = host[key]
               /\ doubtful' = IF p \in disturbed THEN doubtful \union {Entry(p)}
                                                ELSE doubtful
<1>1. /\ pc[p] = "add" /\ Goto(p, "verify")
      /\ UNCHANGED <<addr, outcome, disturbed>>
  BY DEF Add
<1>2. addr[p] \in Addr
  BY <1>1 DEF TypeOK, Holding
<1>3. CASE UNCHANGED <<host, doubtful>>
  BY <1>1, <1>2, <1>3, Zenon
<1>4. CASE ~UNCHANGED <<host, doubtful>>
  <2>1. /\ Entry(p) \notin Registered
        /\ host' = [host EXCEPT ![Entry(p)] = addr[p]]
        /\ doubtful' = IF p \in disturbed THEN doubtful \union {Entry(p)}
                                         ELSE doubtful
    BY <1>4 DEF Add
  <2>2. Entry(p) \in Ou \X Name
    BY AskedTypes
  <2>3. /\ host'[Entry(p)] = addr[p]
        /\ \A key \in Ou \X Name : key # Entry(p) => host'[key] = host[key]
    BY <2>1, <2>2, Zenon DEF TypeOK
  <2>4. addr[p] # NoAddr
    BY <1>2, AddrAssumption
  <2>5. Registered' = Registered \union {Entry(p)}
    BY <2>2, <2>3, <2>4 DEF Registered
  <2>6. \A key \in Registered : host'[key] = host[key]
    BY <2>1, <2>3, Zenon DEF Registered
  <2>7. QED
    BY <1>1, <1>2, <2>1, <2>3, <2>5, <2>6, Zenon
<1>5. QED
  BY <1>3, <1>4

-----------------------------------------------------------------------------
(* Addresses belong to the network of the unit *)

\* A script that holds an address holds one of its unit's network.
NetworkInv ==
  /\ InOwnNetwork
  /\ \A p \in Proc :
       pc[p] \in Holding => addr[p] \in Network[Asked[p].ou] \ Server

LEMMA NetworkInductive == TypeOK /\ NetworkInv /\ [Next]_vars => NetworkInv'
<1> SUFFICES ASSUME TypeOK, NetworkInv, [Next]_vars PROVE NetworkInv'
  OBVIOUS
<1> USE DEF TypeOK, NetworkInv, InOwnNetwork, Registered, Holding, Goto, End
<1>1. ASSUME NEW p \in Proc, Begin(p) PROVE NetworkInv'
  BY <1>1 DEF Begin, ldap
<1>2. ASSUME NEW p \in Proc, ChooseAddress(p) PROVE NetworkInv'
  <2>1. UNCHANGED host
    BY <1>2, ChooseAddressCases
  <2>2. CASE End(p, "refused")
    BY <2>1, <2>2
  <2>3. CASE ~End(p, "refused")
    <3>1. PICK a \in Network[Asked[p].ou] \ Server :
            addr' = [addr EXCEPT ![p] = a] /\ Goto(p, "look")
      BY <1>2, <2>3, ChooseAddressCases, Zenon
    <3>2. QED
      BY <2>1, <3>1
  <2>4. QED
    BY <2>2, <2>3
<1>3. ASSUME NEW p \in Proc,
             SearchError(p) \/ Look(p) \/ Make(p) \/ Attach(p) \/ Unique(p)
      PROVE  NetworkInv'
  BY <1>3, MiddleSteps
<1>4. ASSUME NEW p \in Proc, Add(p) PROVE NetworkInv'
  <2> DEFINE Own(r, h) == \A key \in r : h[key] \in Network[key[1]] \ Server
  <2>1. Own(Registered, host)
    OBVIOUS
  <2>2. Entry(p)[1] = Asked[p].ou
    BY DEF Entry
  <2>3. addr[p] \in Network[Asked[p].ou] \ Server
    BY <1>4, AddCases
  <2>4. Own(Registered', host')
    <3>1. CASE UNCHANGED host
      BY <2>1, <3>1
    <3>2. CASE ~UNCHANGED host
      <4>1. /\ Registered' = Registered \union {Entry(p)}
            /\ host'[Entry(p)] = addr[p]
            /\ \A key \in Registered : host'[key] = host[key]
        BY <1>4, <3>2, AddCases
      <4> HIDE DEF Registered
      <4>2. QED
        BY <2>1, <2>2, <2>3, <4>1, Zenon
    <3>3. QED
      BY <3>1, <3>2
  <2>5. \A q \in Proc :
          pc'[q] \in Holding => addr'[q] \in Network[Asked[q].ou] \ Server
    BY <1>4, AddCases
  <2>6. QED
    BY <2>4, <2>5
<1>5. ASSUME NEW p \in Proc, Verify(p) PROVE NetworkInv'
  BY <1>5 DEF Verify, ldap
<1>6. ASSUME NEW key \in Ou \X Name, Remove(key) PROVE NetworkInv'
  BY <1>6 DEF Remove
<1>7. CASE UNCHANGED vars
  BY <1>7 DEF vars
<1>8. QED
  BY <1>1, <1>2, <1>3, <1>4, <1>5, <1>6, <1>7 DEF Next, Step, Done

\* However many administrators register hosts at the same time, and whatever
\* searches fail, every host has an address of its unit's network that no server
\* has.
THEOREM AddressInNetwork == Spec => []InOwnNetwork
<1>1. Init => NetworkInv
  BY DEF Init, NetworkInv, InOwnNetwork, Registered, Holding
<1>2. NetworkInv => InOwnNetwork
  BY DEF NetworkInv
<1>3. QED
  BY <1>1, <1>2, TypeCorrect, NetworkInductive, PTL DEF Spec

-----------------------------------------------------------------------------
(* Undisturbed scripts *)

\* An undisturbed script runs alone, and the address it holds is free.
DuplicateInv ==
  /\ DuplicatesAreDoubtful
  /\ \A p \in Proc \ disturbed, q \in Proc :
       pc[p] # "idle" /\ pc[q] # "idle" => p = q
  /\ \A p \in Proc \ disturbed : pc[p] \in Holding =>
       \A key \in Registered : host[key] # addr[p]

LEMMA DuplicateInductive == TypeOK /\ DuplicateInv /\ [Next]_vars => DuplicateInv'
<1> SUFFICES ASSUME TypeOK, DuplicateInv, [Next]_vars PROVE DuplicateInv'
  OBVIOUS
<1> USE DEF TypeOK, DuplicateInv, DuplicatesAreDoubtful, Registered, Holding,
            Goto, End
<1>1. ASSUME NEW p \in Proc, Begin(p) PROVE DuplicateInv'
  BY <1>1 DEF Begin, Running, ldap
<1>2. ASSUME NEW p \in Proc, ChooseAddress(p) PROVE DuplicateInv'
  <2>1. /\ UNCHANGED <<host, doubtful>> /\ pc[p] = "address"
        /\ disturbed \subseteq disturbed'
    BY <1>2, ChooseAddressCases
  <2>2. CASE End(p, "refused")
    BY <2>1, <2>2
  <2>3. CASE ~End(p, "refused")
    <3>1. PICK a \in Network[Asked[p].ou] \ Server :
            /\ p \notin disturbed' => a \notin InUse
            /\ addr' = [addr EXCEPT ![p] = a]
            /\ Goto(p, "look")
      BY <1>2, <2>3, ChooseAddressCases, Zenon
    <3>2. QED
      BY <2>1, <3>1 DEF InUse
  <2>4. QED
    BY <2>2, <2>3
<1>3. ASSUME NEW p \in Proc,
             SearchError(p) \/ Look(p) \/ Make(p) \/ Attach(p) \/ Unique(p)
      PROVE  DuplicateInv'
  BY <1>3, MiddleSteps
<1>4. ASSUME NEW p \in Proc, Add(p) PROVE DuplicateInv'
  <2>1. /\ pc[p] = "add" /\ Goto(p, "verify")
        /\ UNCHANGED <<addr, disturbed>>
    BY <1>4, AddCases
  <2>2. CASE UNCHANGED <<host, doubtful>>
    BY <2>1, <2>2
  <2>3. CASE ~UNCHANGED <<host, doubtful>>
    <3>1. /\ Registered' = Registered \union {Entry(p)}
          /\ host'[Entry(p)] = addr[p]
          /\ \A key \in Registered : host'[key] = host[key]
          /\ doubtful' = IF p \in disturbed THEN doubtful \union {Entry(p)}
                                           ELSE doubtful
      BY <1>4, <2>3, AddCases
    <3>2. p \notin disturbed => \A key \in Registered : host[key] # addr[p]
      BY <2>1
    <3> HIDE DEF Registered
    <3>3. DuplicatesAreDoubtful'
      BY <3>1, <3>2
    <3>4. \A q \in Proc \ disturbed : pc[q] # "idle" => q = p
      BY <2>1
    <3>5. QED
      BY <2>1, <3>3, <3>4
  <2>4. QED
    BY <2>2, <2>3
<1>5. ASSUME NEW p \in Proc, Verify(p) PROVE DuplicateInv'
  BY <1>5 DEF Verify, ldap
<1>6. ASSUME NEW key \in Ou \X Name, Remove(key) PROVE DuplicateInv'
  BY <1>6 DEF Remove
<1>7. CASE UNCHANGED vars
  BY <1>7 DEF vars
<1>8. QED
  BY <1>1, <1>2, <1>3, <1>4, <1>5, <1>6, <1>7 DEF Next, Step, Done

\* Two hosts have the same address only if the script that added one of them ran
\* at the same time as another one or missed an address.
THEOREM NoOtherDuplicates == Spec => []DuplicatesAreDoubtful
<1>1. Init => DuplicateInv
  BY DEF Init, DuplicateInv, DuplicatesAreDoubtful, Registered, Holding
<1>2. DuplicateInv => DuplicatesAreDoubtful
  BY DEF DuplicateInv
<1>3. QED
  BY <1>1, <1>2, TypeCorrect, DuplicateInductive, PTL DEF Spec

\* An undisturbed script that is about to add its host has found no entry of that
\* name, and an entry it finds at its end, or has reported, is its own.
TruthInv ==
  \A p \in Proc \ disturbed :
    /\ pc[p] = "add" => Entry(p) \notin Registered
    /\ pc[p] = "verify" /\ Entry(p) \in Registered => host[Entry(p)] = addr[p]
    /\ pc[p] = "idle" /\ outcome[p] = "registered" =>
         Entry(p) \in Registered /\ host[Entry(p)] = addr[p]

LEMMA TruthInductive ==
  TypeOK /\ DuplicateInv /\ TruthInv /\ [Next]_vars => TruthInv'
<1> SUFFICES ASSUME TypeOK, DuplicateInv, TruthInv, [Next]_vars PROVE TruthInv'
  OBVIOUS
<1> USE DEF TypeOK, TruthInv, Registered, Holding, Goto, End
<1>1. ASSUME NEW p \in Proc, Begin(p) PROVE TruthInv'
  BY <1>1 DEF Begin, Running, ldap, Entry
<1>2. ASSUME NEW p \in Proc, ChooseAddress(p) PROVE TruthInv'
  <2>1. /\ UNCHANGED host /\ pc[p] = "address"
        /\ disturbed \subseteq disturbed'
    BY <1>2, ChooseAddressCases
  <2>2. CASE End(p, "refused")
    BY <2>1, <2>2 DEF Entry
  <2>3. CASE ~End(p, "refused")
    <3>1. PICK a \in Network[Asked[p].ou] \ Server :
            /\ addr' = [addr EXCEPT ![p] = a]
            /\ Goto(p, "look")
            /\ UNCHANGED outcome
      BY <1>2, <2>3, ChooseAddressCases, Zenon
    <3>2. QED
      BY <2>1, <3>1 DEF Entry
  <2>4. QED
    BY <2>2, <2>3
<1>3. ASSUME NEW p \in Proc,
             SearchError(p) \/ Look(p) \/ Make(p) \/ Attach(p) \/ Unique(p)
      PROVE  TruthInv'
  <2>1. /\ Registered' = Registered /\ UNCHANGED <<host, disturbed>>
        /\ \A q \in Proc : Entry(q)' = Entry(q)
        /\ pc[p] \in Holding \union {"verify"}
    BY <1>3, MiddleSteps DEF Entry
  <2> HIDE DEF Registered
  <2>2. CASE End(p, "failed") \/ End(p, "exists")
    BY <2>1, <2>2
  <2>3. CASE ~(End(p, "failed") \/ End(p, "exists"))
    <3>1. PICK stage \in Holding : Goto(p, stage)
      BY <1>3, <2>3, MiddleSteps, Zenon
    <3>2. /\ UNCHANGED <<addr, outcome>>
          /\ pc'[p] = "add" => Entry(p) \notin Registered
      BY <1>3, <2>3, MiddleSteps
    <3>3. QED
      BY <2>1, <3>1, <3>2
  <2>4. QED
    BY <2>2, <2>3
<1>4. ASSUME NEW p \in Proc, Add(p) PROVE TruthInv'
  <2>1. /\ pc[p] = "add" /\ Goto(p, "verify")
        /\ UNCHANGED <<addr, outcome, disturbed>>
        /\ \A q \in Proc : Entry(q)' = Entry(q)
    BY <1>4, AddCases DEF Entry
  <2>2. \A q \in Proc \ disturbed : pc[q] # "idle" => q = p
    BY <2>1 DEF DuplicateInv
  <2>3. CASE UNCHANGED host
    BY <2>1, <2>2, <2>3
  <2>4. CASE ~UNCHANGED host
    <3>1. /\ Registered' = Registered \union {Entry(p)}
          /\ host'[Entry(p)] = addr[p]
          /\ \A key \in Registered : host'[key] = host[key]
      BY <1>4, <2>4, AddCases
    <3> HIDE DEF Registered
    <3>2. QED
      BY <2>1, <2>2, <3>1
  <2>5. QED
    BY <2>3, <2>4
<1>5. ASSUME NEW p \in Proc, Verify(p) PROVE TruthInv'
  BY <1>5 DEF Verify, ldap, Entry
<1>6. ASSUME NEW key \in Ou \X Name, Remove(key) PROVE TruthInv'
  BY <1>6, AskedTypes DEF Remove, Entry
<1>7. CASE UNCHANGED vars
  BY <1>7 DEF vars, Entry
<1>8. QED
  BY <1>1, <1>2, <1>3, <1>4, <1>5, <1>6, <1>7 DEF Next, Step, Done

\* The final message of an undisturbed script is true, and stays true until the
\* host is removed.
THEOREM TruthfulReports == Spec => []UndisturbedReportsTruth
<1>1. Init => DuplicateInv /\ TruthInv
  BY DEF Init, DuplicateInv, DuplicatesAreDoubtful, TruthInv, Registered, Holding
<1>2. TruthInv => UndisturbedReportsTruth
  BY DEF TruthInv, UndisturbedReportsTruth
<1>3. QED
  BY <1>1, <1>2, TypeCorrect, DuplicateInductive, TruthInductive, PTL DEF Spec

-----------------------------------------------------------------------------
(* What an administrator is told lasts *)

\* Administrators whose script has ended with the host in LDAP.
Answered == {p \in Proc : outcome[p] \in {"registered", "exists"}}

AnswerInv == \A p \in Answered : pc[p] = "idle" /\ Entry(p) \in Registered

\* An answer is given only by a script that has just found the entry, and is
\* forgotten only when the entry is removed.
LEMMA AnswerSteps ==
  ASSUME TypeOK, AnswerInv, [Next]_vars
  PROVE  /\ AnswerInv'
         /\ \A p \in Answered :
              \/ /\ UNCHANGED <<outcome[p], host[Entry(p)]>>
                 /\ p \in Answered'
              \/ Remove(Entry(p))
<1> DEFINE Goal == /\ AnswerInv'
                   /\ \A p \in Answered :
                        \/ /\ UNCHANGED <<outcome[p], host[Entry(p)]>>
                           /\ p \in Answered'
                        \/ Remove(Entry(p))
<1> USE DEF TypeOK, AnswerInv, Answered, Goto, End
<1>0. \A q \in Proc : Entry(q)' = Entry(q) /\ Entry(q) \in Ou \X Name
  BY AskedTypes DEF Entry
<1>1. ASSUME NEW p \in Proc, Begin(p) PROVE Goal
  BY <1>0, <1>1 DEF Begin, ldap, Registered
<1>2. ASSUME NEW p \in Proc, ChooseAddress(p) PROVE Goal
  <2>1. UNCHANGED host /\ Registered' = Registered /\ pc[p] = "address"
    BY <1>2, ChooseAddressCases DEF Registered
  <2>2. CASE End(p, "refused")
    BY <1>0, <2>1, <2>2
  <2>3. CASE ~End(p, "refused")
    <3>1. Goto(p, "look") /\ UNCHANGED outcome
      BY <1>2, <2>3, ChooseAddressCases, Zenon
    <3>2. QED
      BY <1>0, <2>1, <3>1
  <2>4. QED
    BY <2>2, <2>3
<1>3. ASSUME NEW p \in Proc, SearchError(p) \/ Look(p) \/ Make(p) \/ Attach(p)
      PROVE  Goal
  <2>1. UNCHANGED host /\ Registered' = Registered /\ pc[p] # "idle"
    BY <1>3, MiddleSteps DEF Registered, Holding
  <2>2. CASE End(p, "failed")
    BY <1>0, <2>1, <2>2
  <2>3. CASE ~End(p, "failed")
    <3>1. \E stage \in Holding : Goto(p, stage) /\ UNCHANGED outcome
      <4>1. ~End(p, "exists")
        BY <1>3 DEF SearchError, Look, Make, Attach, NextLevel
      <4>2. QED
        BY <1>3, <2>3, <4>1, MiddleSteps, Zenon
    <3>2. QED
      BY <1>0, <2>1, <3>1 DEF Holding
  <2>4. QED
    BY <2>2, <2>3
<1>4. ASSUME NEW p \in Proc, Unique(p) PROVE Goal
  <2>1. UNCHANGED host /\ Registered' = Registered /\ pc[p] = "unique"
    BY <1>4 DEF Unique, ldap, Registered
  <2>2. CASE Entry(p) \in Registered
    BY <1>0, <1>4, <2>1, <2>2 DEF Unique
  <2>3. CASE Entry(p) \notin Registered
    BY <1>0, <1>4, <2>1, <2>3 DEF Unique
  <2>4. QED
    BY <2>2, <2>3
<1>5. ASSUME NEW p \in Proc, Add(p) PROVE Goal
  <2>1. pc[p] = "add" /\ Goto(p, "verify") /\ UNCHANGED outcome
    BY <1>5, AddCases
  <2>2. /\ Registered \subseteq Registered'
        /\ \A key \in Registered : host'[key] = host[key]
    BY <1>5, AddCases DEF Registered
  <2>3. QED
    BY <1>0, <2>1, <2>2
<1>6. ASSUME NEW p \in Proc, Verify(p) PROVE Goal
  <2>1. UNCHANGED host /\ Registered' = Registered /\ pc[p] = "verify"
    BY <1>6 DEF Verify, ldap, Registered
  <2>2. CASE Entry(p) \in Registered
    BY <1>0, <1>6, <2>1, <2>2 DEF Verify
  <2>3. CASE Entry(p) \notin Registered
    BY <1>0, <1>6, <2>1, <2>3 DEF Verify
  <2>4. QED
    BY <2>2, <2>3
<1>7. ASSUME NEW key \in Ou \X Name, Remove(key) PROVE Goal
  <2>1. /\ Registered' = Registered \ {key}
        /\ \A k \in Registered \ {key} : host'[k] = host[k]
    BY <1>7 DEF Remove, Registered
  <2>2. /\ UNCHANGED pc
        /\ \A q \in Proc : outcome'[q] = IF Entry(q) = key /\ pc[q] = "idle"
                                         THEN "none" ELSE outcome[q]
    BY <1>7 DEF Remove
  <2>3. QED
    BY <1>0, <1>7, <2>1, <2>2
<1>8. CASE UNCHANGED vars
  BY <1>0, <1>8 DEF vars, Registered
<1>9. QED
  BY <1>1, <1>2, <1>3, <1>4, <1>5, <1>6, <1>7, <1>8 DEF Next, Step, Done

\* "is registered" (line 236) and "already defined" (line 217) are told only of
\* a host that is in LDAP, however many scripts overlap and whatever fails, and
\* nothing but the removal of the host makes them false later.
THEOREM AnswersAreTrue ==
  Spec => [](\A p \in Proc : outcome[p] \in {"registered", "exists"}
                               => Entry(p) \in Registered)
<1>1. Init => AnswerInv
  BY DEF Init, AnswerInv, Answered
<1>2. AnswerInv => \A p \in Proc : outcome[p] \in {"registered", "exists"}
                                   => Entry(p) \in Registered
  BY DEF AnswerInv, Answered
<1>3. TypeOK /\ AnswerInv /\ [Next]_vars => AnswerInv'
  BY AnswerSteps
<1>4. QED
  BY <1>1, <1>2, <1>3, TypeCorrect, PTL DEF Spec

\* What RetrySucceeds reaches stays: the answer and the address of the host last
\* until the host is removed.
THEOREM RegisteredStays ==
  Spec => [][\A p \in Answered :
               \/ /\ UNCHANGED <<outcome[p], host[Entry(p)]>>
                  /\ p \in Answered'
               \/ Remove(Entry(p))]_vars
<1>1. Init => AnswerInv
  BY DEF Init, AnswerInv, Answered
<1>2. TypeOK /\ AnswerInv /\ [Next]_vars =>
        /\ AnswerInv'
        /\ [\A p \in Answered :
              \/ /\ UNCHANGED <<outcome[p], host[Entry(p)]>>
                 /\ p \in Answered'
              \/ Remove(Entry(p))]_vars
  BY AnswerSteps
<1>3. QED
  BY <1>1, <1>2, TypeCorrect, PTL DEF Spec
=============================================================================
