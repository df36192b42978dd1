---------------------------- MODULE PathsProofs -----------------------------
(***************************************************************************)
(* Theorems about Paths for any number of addresses, entries, buffers,     *)
(* ports and places in the queues: what the driver's two tables hold, and  *)
(* who holds a buffer.                                                     *)
(***************************************************************************)
EXTENDS Paths, FiniteSetTheorems, SequenceTheorems, WellFoundedInduction, TLAPS

-----------------------------------------------------------------------------
(* Least numbers *)

\* A set of numbers has a least one: what the searches from the first entry on
\* (dynamicTableLearn, MAC_AddAddressFilter, ll_get_item) find.
LEMMA LeastNumber ==
  ASSUME NEW T, T \subseteq Nat, T # {}
  PROVE  \E n \in T : \A m \in T : n <= m
  <1> DEFINE Less == OpToRel(<, Nat)
  <1>1. IsWellFoundedOn(Less, Nat)
    BY NatLessThanWellFounded
  <1>2. \A x \in Nat, y \in Nat : x < y => <<x, y>> \in Less
    BY DEF OpToRel
  <1> HIDE DEF Less
  <1>3. PICK x \in T : \A y \in T : ~(<<y, x>> \in Less)
    BY <1>1, WFMin
  <1>4. \A y \in T : y \in Nat /\ x \in Nat /\ ~(y < x)
    BY <1>2, <1>3
  <1>5. \A y \in T : x <= y
    BY <1>4
  <1> QED BY <1>5

-----------------------------------------------------------------------------
(* The forwarding table *)

\* The first entry of a set is in it, and the only one of a set is the first.
LEMMA ForwardLeast ==
  ASSUME NEW S, S \subseteq Nat
  PROVE  /\ S # {} => F!Least(S) \in S
         /\ \A i \in S : (\A j \in S : i = j) => F!Least(S) = i
  <1>1. S # {} => F!Least(S) \in S
    BY LeastNumber DEF F!Least
  <1> QED BY <1>1

\* AdinForward's own name for the number of elements.
LEMMA ForwardCount ==
  ASSUME NEW S
  PROVE  F!Cardinality(S) = Cardinality(S)
  BY DEF F!Cardinality, Cardinality

\* No two live entries are of one address, a live one has the port the address
\* was last heard on, and it is old by the ticks since, but for the mark that
\* waits for the next tick.
ForwardApart ==
    \A i, j \in F!Index :
        (dynamicTable[i].age # 0 /\ dynamicTable[j].age # 0
           /\ dynamicTable[i].mac = dynamicTable[j].mac) => i = j

EntryFine(e, ports, ticks) ==
    IF e.age = 0 THEN ~e.refresh
    ELSE /\ e.port = ports[e.mac]
         /\ e.refresh => ticks[e.mac] = 0
         /\ ~e.refresh => e.age + ticks[e.mac] <= MaxAge + 1

ForwardInv ==
    /\ F!TypeOK
    /\ ForwardApart
    /\ \A i \in F!Index : EntryFine(dynamicTable[i], lastPort, silent)

LEMMA ForwardInit ==
  ASSUME F!AdinForwardAssumption, F!Init
  PROVE  ForwardInv
  BY DEF F!AdinForwardAssumption, F!Init, ForwardInv, ForwardApart, EntryFine, F!TypeOK,
         F!Index, F!Port

\* What ForwardInv says is what the properties ask.
LEMMA ForwardTrue ==
  ASSUME F!AdinForwardAssumption, ForwardInv
  PROVE  F!TypeOK /\ F!OneEntryEach /\ F!SentWhereHeard /\ F!SilentIsForgotten
  <1>1. \A a \in Address : \A i, j \in F!Entries(a) : i = j
    BY DEF ForwardInv, ForwardApart, F!Entries, F!Live
  <1>2. \A a \in Address : F!Entries(a) \subseteq Nat /\ F!Entries(a) \subseteq F!Index
    BY DEF F!Entries, F!Live, F!Index, F!AdinForwardAssumption
  <1>3. ASSUME NEW a \in Address
        PROVE  Cardinality(F!Entries(a)) <= 1
    <2>1. CASE F!Entries(a) = {}
      BY <2>1, FS_EmptySet
    <2>2. CASE F!Entries(a) # {}
      <3>1. PICK i : F!Entries(a) = {i}
        BY <1>1, <2>2
      <3>2. Cardinality({i}) = 1
        BY FS_Singleton
      <3> QED BY <3>1, <3>2
    <2> QED BY <2>1, <2>2
  <1>4. ASSUME NEW a \in Address, F!Entries(a) # {}
        PROVE  /\ F!Least(F!Entries(a)) \in F!Index
               /\ dynamicTable[F!Least(F!Entries(a))].mac = a
               /\ dynamicTable[F!Least(F!Entries(a))].age # 0
    <2>1. F!Least(F!Entries(a)) \in F!Entries(a)
      BY <1>2, <1>4, ForwardLeast
    <2> QED BY <2>1 DEF F!Entries, F!Live
  <1>5. F!SentWhereHeard
    BY <1>4 DEF F!SentWhereHeard, F!dynamicTableLookup, ForwardInv, EntryFine
  <1>6. ASSUME NEW a \in Address, silent[a] > MaxAge, F!Entries(a) # {}
        PROVE  FALSE
    <2> DEFINE i == F!Least(F!Entries(a))
    <2>1. /\ i \in F!Index /\ dynamicTable[i].mac = a /\ dynamicTable[i].age # 0
      BY <1>4, <1>6
    <2> HIDE DEF i
    <2>2. dynamicTable[i].age \in 0..MaxAge /\ silent[a] \in Nat /\ MaxAge \in Nat \ {0}
      BY <2>1 DEF ForwardInv, F!TypeOK, F!AdinForwardAssumption
    <2>3. EntryFine(dynamicTable[i], lastPort, silent)
      BY <2>1 DEF ForwardInv
    <2> QED BY <1>6, <2>1, <2>2, <2>3 DEF EntryFine
  <1>7. F!SilentIsForgotten
    BY <1>6 DEF F!SilentIsForgotten, F!dynamicTableLookup
  <1> QED BY <1>3, <1>5, <1>7, ForwardCount DEF ForwardInv, F!OneEntryEach

\* A frame is received (cbRx).
LEMMA ForwardHears ==
  ASSUME F!AdinForwardAssumption, ForwardInv, NEW port \in F!Port, NEW mac \in Address,
         F!cbRx(port, mac)
  PROVE  ForwardInv'
  <1>1. /\ lastPort' = [lastPort EXCEPT ![mac] = port]
        /\ silent' = [silent EXCEPT ![mac] = 0]
        /\ lastPort' \in [Address -> F!Port \cup {0}]
        /\ silent' \in [Address -> 0..(MaxAge + 2)]
    BY DEF F!cbRx, ForwardInv, F!TypeOK, F!AdinForwardAssumption
  <1>2. CASE F!Entries(mac) # {}
    <2> DEFINE i == F!Least(F!Entries(mac))
    <2>1. i \in F!Entries(mac)
      BY <1>2, ForwardLeast DEF F!Entries, F!Live, F!Index, F!AdinForwardAssumption
    <2> HIDE DEF i
    <2>2. /\ i \in F!Index /\ dynamicTable[i].mac = mac /\ dynamicTable[i].age # 0
      BY <2>1 DEF F!Entries, F!Live
    <2>3. /\ dynamicTable' = [dynamicTable EXCEPT ![i].port = port, ![i].refresh = TRUE]
          /\ UNCHANGED replaceLoc
      BY <1>2 DEF F!cbRx, F!dynamicTableLearn, F!Known, i
    <2>4. F!TypeOK'
      <3>1. [dynamicTable[i] EXCEPT !.port = port, !.refresh = TRUE]
              \in [mac : Address, port : F!Port, age : 0..MaxAge, refresh : BOOLEAN]
        BY <2>2 DEF F!TypeOK, ForwardInv
      <3>2. dynamicTable' = [dynamicTable EXCEPT
                ![i] = [dynamicTable[i] EXCEPT !.port = port, !.refresh = TRUE]]
        BY <2>2, <2>3 DEF F!TypeOK, ForwardInv
      <3>3. dynamicTable' \in
              [F!Index -> [mac : Address, port : F!Port, age : 0..MaxAge, refresh : BOOLEAN]]
        BY <2>2, <3>1, <3>2 DEF F!TypeOK, ForwardInv
      <3> QED BY <1>1, <2>3, <3>3 DEF F!TypeOK, ForwardInv
    <2>5. \A j \in F!Index : /\ dynamicTable'[j].mac = dynamicTable[j].mac
                             /\ dynamicTable'[j].age = dynamicTable[j].age
      BY <2>2, <2>3 DEF F!TypeOK, ForwardInv
    <2>6. ForwardApart'
      BY <2>5 DEF ForwardApart, ForwardInv
    <2>7. ASSUME NEW j \in F!Index
          PROVE  EntryFine(dynamicTable'[j], lastPort', silent')
      <3>1. CASE j = i
        BY <1>1, <2>2, <2>3, <3>1 DEF EntryFine, ForwardInv, F!TypeOK
      <3>2. CASE j # i
        <4>1. dynamicTable'[j] = dynamicTable[j]
          BY <2>2, <2>3, <3>2 DEF ForwardInv, F!TypeOK
        <4>2. dynamicTable[j].age # 0 => dynamicTable[j].mac # mac
          BY <2>2, <3>2 DEF ForwardInv, ForwardApart
        <4>3. dynamicTable[j].mac \in Address
          BY DEF ForwardInv, F!TypeOK
        <4> QED BY <1>1, <4>1, <4>2, <4>3 DEF EntryFine, ForwardInv, F!TypeOK
      <3> QED BY <3>1, <3>2
    <2> QED BY <2>4, <2>6, <2>7 DEF ForwardInv
  <1>3. CASE F!Entries(mac) = {}
    <2>1. PICK i \in F!Index : /\ dynamicTable' = [dynamicTable EXCEPT ![i] = F!Entry(port, mac)]
                               /\ replaceLoc' \in F!Index
      <3>1. CASE F!Live # F!Index
        <4>1. F!Least(F!Index \ F!Live) \in F!Index
          <5>1. F!Index \ F!Live \subseteq Nat /\ F!Index \ F!Live # {}
            BY <3>1 DEF F!Index, F!Live
          <5>2. F!Least(F!Index \ F!Live) \in F!Index \ F!Live
            BY <5>1, ForwardLeast
          <5> QED BY <5>2
        <4> QED BY <1>3, <3>1, <4>1 DEF F!cbRx, F!dynamicTableLearn, F!New, ForwardInv, F!TypeOK
      <3>2. CASE F!Live = F!Index
        <4>1. (replaceLoc + 1) % Size \in F!Index /\ replaceLoc \in F!Index
          BY DEF F!Index, F!AdinForwardAssumption, ForwardInv, F!TypeOK
        <4> QED BY <1>3, <3>2, <4>1 DEF F!cbRx, F!dynamicTableLearn, F!New
      <3> QED BY <3>1, <3>2
    <2>2. \A j \in F!Index : dynamicTable[j].age # 0 => dynamicTable[j].mac # mac
      BY <1>3 DEF F!Entries, F!Live
    <2>3. /\ dynamicTable'[i] = F!Entry(port, mac)
          /\ \A j \in F!Index : j # i => dynamicTable'[j] = dynamicTable[j]
      BY <2>1 DEF ForwardInv, F!TypeOK
    <2>4. F!TypeOK'
      BY <1>1, <2>1 DEF F!TypeOK, ForwardInv, F!Entry, F!AdinForwardAssumption
    <2>5. ForwardApart'
      BY <2>2, <2>3 DEF ForwardApart, ForwardInv, F!Entry
    <2>6. ASSUME NEW j \in F!Index
          PROVE  EntryFine(dynamicTable'[j], lastPort', silent')
      <3>1. CASE j = i
        BY <1>1, <2>3, <3>1 DEF EntryFine, F!Entry, ForwardInv, F!TypeOK, F!AdinForwardAssumption
      <3>2. CASE j # i
        <4>1. dynamicTable[j].mac \in Address
          BY DEF ForwardInv, F!TypeOK
        <4> QED BY <1>1, <2>2, <2>3, <3>2, <4>1 DEF EntryFine, ForwardInv, F!TypeOK
      <3> QED BY <3>1, <3>2
    <2> QED BY <2>4, <2>5, <2>6 DEF ForwardInv
  <1> QED BY <1>2, <1>3

\* An entry with another age and another mark.
LEMMA EntryMade ==
  ASSUME NEW M, NEW P, NEW A, NEW B, NEW e \in [mac : M, port : P, age : A, refresh : B],
         NEW k \in A, NEW f \in B, NEW c, c = [e EXCEPT !.age = k, !.refresh = f]
  PROVE  /\ c \in [mac : M, port : P, age : A, refresh : B]
         /\ c.mac = e.mac /\ c.port = e.port /\ c.age = k /\ c.refresh = f
  OBVIOUS

\* The age tick and the clearing of the table.
LEMMA ForwardTicks ==
  ASSUME F!AdinForwardAssumption, ForwardInv, F!adin2111_AgeTick
  PROVE  ForwardInv'
  <1>1. /\ dynamicTable' = [i \in F!Index |-> F!Aged(dynamicTable[i])]
        /\ silent' = [a \in Address |-> IF silent[a] < MaxAge + 2 THEN silent[a] + 1 ELSE silent[a]]
        /\ UNCHANGED <<replaceLoc, lastPort>>
    BY DEF F!adin2111_AgeTick
  <1>2. silent' \in [Address -> 0..(MaxAge + 2)]
    BY <1>1 DEF ForwardInv, F!TypeOK, F!AdinForwardAssumption
  <1>3. ASSUME NEW i \in F!Index
        PROVE  /\ F!Aged(dynamicTable[i]) \in [mac : Address, port : F!Port, age : 0..MaxAge, refresh : BOOLEAN]
               /\ F!Aged(dynamicTable[i]).mac = dynamicTable[i].mac
               /\ F!Aged(dynamicTable[i]).age # 0 => dynamicTable[i].age # 0
               /\ EntryFine(F!Aged(dynamicTable[i]), lastPort, silent')
    <2> DEFINE e == dynamicTable[i]
    <2>1. /\ e \in [mac : Address, port : F!Port, age : 0..MaxAge, refresh : BOOLEAN]
          /\ MaxAge \in Nat \ {0}
      BY DEF ForwardInv, F!TypeOK, F!AdinForwardAssumption
    <2>2. EntryFine(e, lastPort, silent)
      BY DEF ForwardInv
    <2>3. silent[e.mac] \in 0..(MaxAge + 2)
      BY <2>1 DEF ForwardInv, F!TypeOK
    <2>4. silent'[e.mac] = IF silent[e.mac] < MaxAge + 2 THEN silent[e.mac] + 1 ELSE silent[e.mac]
      BY <1>1, <2>1
    <2> HIDE DEF e
    <2>5. CASE e.refresh
      <3>1. F!Aged(e) = [e EXCEPT !.age = MaxAge, !.refresh = FALSE]
        BY <2>5 DEF F!Aged
      <3>2. /\ F!Aged(e) \in [mac : Address, port : F!Port, age : 0..MaxAge, refresh : BOOLEAN]
            /\ F!Aged(e).mac = e.mac /\ F!Aged(e).port = e.port /\ F!Aged(e).age = MaxAge
            /\ ~F!Aged(e).refresh
        <4>1. MaxAge \in 0..MaxAge /\ FALSE \in BOOLEAN
          BY <2>1
        <4>2. F!Aged(e).refresh = FALSE /\ F!Aged(e).mac = e.mac /\ F!Aged(e).port = e.port
              /\ F!Aged(e).age = MaxAge
              /\ F!Aged(e) \in [mac : Address, port : F!Port, age : 0..MaxAge, refresh : BOOLEAN]
          BY <2>1, <3>1, <4>1, EntryMade, ZenonT(60)
        <4> QED BY <4>2
      <3>3. e.age # 0 /\ silent[e.mac] = 0 /\ e.port = lastPort[e.mac]
        BY <2>2, <2>5 DEF EntryFine
      <3>4. silent'[e.mac] = 1
        BY <2>1, <2>4, <3>3
      <3>5. EntryFine(F!Aged(e), lastPort, silent')
        BY <2>1, <3>2, <3>3, <3>4 DEF EntryFine
      <3> QED BY <3>2, <3>3, <3>5 DEF e
    <2>6. CASE ~e.refresh /\ e.age > 0
      <3>1. F!Aged(e) = [e EXCEPT !.age = e.age - 1]
        BY <2>6 DEF F!Aged
      <3> QED BY <2>1, <2>2, <2>3, <2>4, <2>6, <3>1 DEF EntryFine, e
    <2>7. CASE ~e.refresh /\ e.age = 0
      <3>1. F!Aged(e) = e
        BY <2>7 DEF F!Aged
      <3> QED BY <2>1, <2>7, <3>1 DEF EntryFine, e
    <2>8. e.age \in Nat /\ e.refresh \in BOOLEAN
      BY <2>1
    <2> QED BY <2>5, <2>6, <2>7, <2>8
  <1>4. F!TypeOK'
    BY <1>1, <1>2, <1>3 DEF F!TypeOK, ForwardInv
  <1>5. ForwardApart'
    BY <1>1, <1>3 DEF ForwardApart, ForwardInv
  <1>6. \A i \in F!Index : EntryFine(dynamicTable'[i], lastPort', silent')
    BY <1>1, <1>3
  <1> QED BY <1>4, <1>5, <1>6 DEF ForwardInv

LEMMA ForwardClears ==
  ASSUME F!AdinForwardAssumption, ForwardInv, F!adin2111_ClearDynamicTable
  PROVE  ForwardInv'
  <1>1. /\ dynamicTable' = [i \in F!Index |-> [dynamicTable[i] EXCEPT !.age = 0, !.refresh = FALSE]]
        /\ UNCHANGED <<replaceLoc, lastPort, silent>>
    BY DEF F!adin2111_ClearDynamicTable
  <1>2. ASSUME NEW i \in F!Index
        PROVE  /\ dynamicTable'[i] \in [mac : Address, port : F!Port, age : 0..MaxAge, refresh : BOOLEAN]
               /\ dynamicTable'[i].age = 0 /\ ~dynamicTable'[i].refresh
    <2>1. /\ dynamicTable[i] \in [mac : Address, port : F!Port, age : 0..MaxAge, refresh : BOOLEAN]
          /\ 0 \in 0..MaxAge
      BY DEF ForwardInv, F!TypeOK, F!AdinForwardAssumption
    <2>2. dynamicTable'[i] = [dynamicTable[i] EXCEPT !.age = 0, !.refresh = FALSE]
      BY <1>1
    <2>3. /\ dynamicTable'[i].refresh = FALSE /\ dynamicTable'[i].age = 0
          /\ dynamicTable'[i] \in [mac : Address, port : F!Port, age : 0..MaxAge, refresh : BOOLEAN]
      BY <2>1, <2>2, EntryMade, FALSE \in BOOLEAN, ZenonT(60)
    <2> QED BY <2>3
  <1> QED BY <1>1, <1>2 DEF ForwardInv, F!TypeOK, ForwardApart, EntryFine

LEMMA ForwardStep ==
  ASSUME F!AdinForwardAssumption, ForwardInv, [F!Next]_(F!vars)
  PROVE  ForwardInv'
  <1>1. CASE F!Next
    BY <1>1, ForwardHears, ForwardTicks, ForwardClears DEF F!Next
  <1>2. CASE UNCHANGED F!vars
    BY <1>2 DEF F!vars, ForwardInv, F!TypeOK, ForwardApart
  <1> QED BY <1>1, <1>2

-----------------------------------------------------------------------------
(* The filter table *)

\* Nothing but what was asked for is in the registers.
FilterInv == R!TypeOK /\ R!FiltersAsked

LEMMA FilterInit ==
  ASSUME R!AdinFilterAssumption, R!Init
  PROVE  FilterInv
  <1>1. \A i \in R!Entry : 2 * i \in 0..R!Top
    BY DEF R!Entry, R!Top, R!MskBase, R!AdinFilterAssumption
  <1> QED BY <1>1 DEF R!Init, FilterInv, R!TypeOK, R!FiltersAsked, R!Unset, R!NoRule

\* The registers of an entry, after the four writes for it.
LEMMA FilterWrites ==
  ASSUME R!AdinFilterAssumption, NEW i \in R!Entry, NEW rule, NEW mask, NEW a \in 0..R!Top
  PROVE  R!After(R!Writes(i, rule, mask), 4)[a] =
            IF a \in {2 * i, 2 * i + 1} THEN rule
            ELSE IF a \in {R!MskBase + 2 * i, R!MskBase + 2 * i + 1} THEN mask ELSE reg[a]
  <1> DEFINE w == R!Writes(i, rule, mask)
  <1>1. /\ w[1][1] = 2 * i /\ w[2][1] = 2 * i + 1
        /\ w[3][1] = R!MskBase + 2 * i /\ w[4][1] = R!MskBase + 2 * i + 1
        /\ w[1][2] = rule /\ w[2][2] = rule /\ w[3][2] = mask /\ w[4][2] = mask
    BY DEF R!Writes
  <1>2. /\ i \in Nat /\ NumEntries \in Nat /\ R!MskBase = 2 * NumEntries
        /\ R!MskBase \in Nat /\ i < NumEntries
    BY DEF R!Entry, R!MskBase, R!AdinFilterAssumption
  <1> HIDE DEF w
  <1>3. R!After(w, 4)[a] = IF \E k \in 1..4 : w[k][1] = a
                           THEN w[CHOOSE k \in 1..4 : w[k][1] = a][2] ELSE reg[a]
    BY DEF R!After
  <1>4. 1..4 = {1, 2, 3, 4}
    OBVIOUS
  <1>5. a \in Nat
    BY DEF R!Top, R!MskBase, R!AdinFilterAssumption
  <1>6. CASE \E k \in 1..4 : w[k][1] = a
    <2> DEFINE k == CHOOSE k \in 1..4 : w[k][1] = a
    <2>1. k \in 1..4 /\ w[k][1] = a
      BY <1>6
    <2>2. R!After(w, 4)[a] = w[k][2]
      BY <1>3, <1>6
    <2> HIDE DEF k
    <2>3. CASE k \in {1, 2}
      BY <1>1, <2>1, <2>2, <2>3 DEF w
    <2>4. CASE k \in {3, 4}
      <3>1. a \in {R!MskBase + 2 * i, R!MskBase + 2 * i + 1} /\ w[k][2] = mask
        BY <1>1, <2>1, <2>4
      <3>2. a \notin {2 * i, 2 * i + 1}
        BY <1>2, <3>1
      <3> QED BY <2>2, <3>1, <3>2 DEF w
    <2> QED BY <1>4, <2>1, <2>3, <2>4
  <1>7. CASE ~\E k \in 1..4 : w[k][1] = a
    <2>1. a \notin {2 * i, 2 * i + 1, R!MskBase + 2 * i, R!MskBase + 2 * i + 1}
      BY <1>1, <1>4, <1>7
    <2> QED BY <1>3, <1>7, <2>1 DEF w
  <1> QED BY <1>6, <1>7

\* The entry a rule takes is a free one, with a mask where it asks for one.
LEMMA FilterFree ==
  ASSUME R!AdinFilterAssumption, R!TypeOK, Careful, NEW rule \in Rule,
         NEW mask \in Mask \cup {"ones"},
         R!MAC_AddAddressFilter(rule, mask), ~R!TableFull(mask)
  PROVE  /\ R!AddrIndex(mask) \in R!Entry /\ R!AddrIndex(mask) \notin active
         /\ mask # "ones" => R!AddrIndex(mask) < MaskMax
  <1>1. R!FreeEntries(mask) # {}
    BY DEF R!MAC_AddAddressFilter, R!TableFull, R!AddrIndex, R!MaxIndex
  <1>2. R!FreeEntries(mask) \subseteq Nat
    BY DEF R!FreeEntries
  <1>3. R!AddrIndex(mask) \in R!FreeEntries(mask)
    BY <1>1, <1>2, LeastNumber DEF R!AddrIndex
  <1> QED BY <1>3 DEF R!FreeEntries, R!MaxIndex, R!Entry, R!AdinFilterAssumption

LEMMA FilterAdds ==
  ASSUME R!AdinFilterAssumption, Careful, ~MayFail, FilterInv,
         R!adin2111_AddAddressFilter
  PROVE  FilterInv'
  <1>1. PICK rule \in Rule, mask \in Mask \cup {"ones"} : R!MAC_AddAddressFilter(rule, mask)
    BY DEF R!adin2111_AddAddressFilter
  <1>2. CASE R!TableFull(mask)
    BY <1>1, <1>2 DEF R!MAC_AddAddressFilter, R!Added, R!AddFails, FilterInv, R!TypeOK, R!FiltersAsked
  <1>3. CASE ~R!TableFull(mask)
    <2> DEFINE i == R!AddrIndex(mask)
    <2>1. i \in R!Entry /\ i \notin active /\ (mask # "ones" => i < MaskMax)
      BY <1>1, <1>3, FilterFree DEF FilterInv
    <2>2. /\ reg' = R!After(R!Writes(i, rule, mask), 4)
          /\ active' = active \cup {i}
          /\ rules' = [rules EXCEPT ![i] = [rule |-> rule, mask |-> mask]]
          /\ result' = "success"
      BY <1>1, <1>3, <2>1 DEF R!MAC_AddAddressFilter, R!Added, R!AddFails, FilterInv, R!TypeOK
    <2> HIDE DEF i
    <2>3. \A a \in 0..R!Top :
            reg'[a] = IF a \in {2 * i, 2 * i + 1} THEN rule
                      ELSE IF a \in {R!MskBase + 2 * i, R!MskBase + 2 * i + 1} THEN mask ELSE reg[a]
      BY <2>1, <2>2, FilterWrites
    <2>4. reg' = [a \in 0..R!Top |-> reg'[a]]
      BY <2>2 DEF R!After
    <2>5. R!TypeOK'
      BY <2>1, <2>2, <2>3, <2>4 DEF FilterInv, R!TypeOK
    <2>6. ASSUME NEW j \in R!Entry
          PROVE  /\ {2 * j, 2 * j + 1, R!MskBase + 2 * j, R!MskBase + 2 * j + 1} \subseteq 0..R!Top
                 /\ j # i => {2 * j, 2 * j + 1, R!MskBase + 2 * j, R!MskBase + 2 * j + 1}
                      \cap {2 * i, 2 * i + 1, R!MskBase + 2 * i, R!MskBase + 2 * i + 1} = {}
                 /\ {R!MskBase + 2 * j, R!MskBase + 2 * j + 1} \cap {2 * j, 2 * j + 1} = {}
      BY <2>1 DEF R!Entry, R!Top, R!MskBase, R!AdinFilterAssumption
    <2>7. ASSUME NEW j \in R!Entry
          PROVE  IF j \in active'
                 THEN /\ reg'[2 * j] = rules'[j].rule /\ reg'[2 * j + 1] = rules'[j].rule
                      /\ j < MaskMax => /\ reg'[R!MskBase + 2 * j] = rules'[j].mask
                                        /\ reg'[R!MskBase + 2 * j + 1] = rules'[j].mask
                 ELSE reg'[2 * j] = R!Unset
      <3>1. CASE j = i
        <4>1. rules'[j].rule = rule /\ rules'[j].mask = mask /\ j \in active'
          BY <2>1, <2>2, <3>1 DEF FilterInv, R!TypeOK
        <4> QED BY <2>3, <2>6, <3>1, <4>1
      <3>2. CASE j # i
        <4>1. rules'[j] = rules[j] /\ (j \in active' <=> j \in active)
          BY <2>1, <2>2, <3>2 DEF FilterInv, R!TypeOK
        <4>2. \A a \in {2 * j, 2 * j + 1, R!MskBase + 2 * j, R!MskBase + 2 * j + 1} : reg'[a] = reg[a]
          BY <2>3, <2>6, <3>2
        <4> QED BY <4>1, <4>2 DEF FilterInv, R!FiltersAsked
      <3> QED BY <3>1, <3>2
    <2> QED BY <2>5, <2>7 DEF FilterInv, R!FiltersAsked
  <1> QED BY <1>2, <1>3

LEMMA FilterClears ==
  ASSUME R!AdinFilterAssumption, ~MayFail, FilterInv, R!adin2111_ClearAddressFilter
  PROVE  FilterInv'
  <1>1. PICK i \in R!Entry : R!MAC_ClearAddressFilter(i)
    BY DEF R!adin2111_ClearAddressFilter
  <1>2. /\ reg' = [reg EXCEPT ![2 * i] = R!Unset]
        /\ active' = active \ {i}
        /\ rules' = [rules EXCEPT ![i] = R!NoRule]
        /\ result' = "success"
    BY <1>1 DEF R!MAC_ClearAddressFilter
  <1>3. R!TypeOK'
    BY <1>2 DEF FilterInv, R!TypeOK, R!NoRule, R!Unset
  <1>4. ASSUME NEW j \in R!Entry
        PROVE  /\ {2 * j, 2 * j + 1, R!MskBase + 2 * j, R!MskBase + 2 * j + 1} \subseteq 0..R!Top
               /\ j # i => 2 * i \notin {2 * j, 2 * j + 1, R!MskBase + 2 * j, R!MskBase + 2 * j + 1}
    BY DEF R!Entry, R!Top, R!MskBase, R!AdinFilterAssumption
  <1>5. ASSUME NEW j \in R!Entry, j # i
        PROVE  /\ rules'[j] = rules[j] /\ (j \in active' <=> j \in active)
               /\ \A a \in {2 * j, 2 * j + 1, R!MskBase + 2 * j, R!MskBase + 2 * j + 1} :
                    reg'[a] = reg[a]
    BY <1>2, <1>4, <1>5 DEF FilterInv, R!TypeOK
  <1>6. i \notin active' /\ reg'[2 * i] = R!Unset
    BY <1>2, <1>4 DEF FilterInv, R!TypeOK
  <1>7. R!FiltersAsked'
    BY <1>5, <1>6 DEF FilterInv, R!FiltersAsked
  <1> QED BY <1>3, <1>7 DEF FilterInv

LEMMA FilterStep ==
  ASSUME R!AdinFilterAssumption, Careful, ~MayFail, FilterInv, [R!Next]_(R!vars)
  PROVE  FilterInv'
  <1>1. CASE R!Next
    BY <1>1, FilterAdds, FilterClears DEF R!Next
  <1>2. CASE UNCHANGED R!vars
    BY <1>2 DEF R!vars, FilterInv, R!TypeOK, R!FiltersAsked
  <1> QED BY <1>1, <1>2

\* The two address tables of the driver (adin2111.c and adi_mac.c), for any
\* numbers of addresses, entries, rules and masks and any age: learning, aging
\* and clearing leave one live entry an address at most, with the port it was
\* last heard on, and the filter's registers hold what was asked for, when
\* nobody asks for a masked rule that there is no entry for (MAC_AddAddressFilter
\* does not notice) and register writes succeed.
THEOREM AddressesTrue ==
  ASSUME F!AdinForwardAssumption, R!AdinFilterAssumption, Careful, ~MayFail
  PROVE  F!Spec /\ R!Spec => []AddressesAreTrue
  <1>1. F!Init /\ R!Init => ForwardInv /\ FilterInv
    BY ForwardInit, FilterInit
  <1>2. ForwardInv /\ FilterInv /\ [F!Next]_(F!vars) /\ [R!Next]_(R!vars)
          => ForwardInv' /\ FilterInv'
    BY ForwardStep, FilterStep
  <1>3. ForwardInv /\ FilterInv => AddressesAreTrue
    BY ForwardTrue DEF AddressesAreTrue, FilterInv
  <1> QED BY <1>1, <1>2, <1>3, PTL DEF F!Spec, R!Spec


-----------------------------------------------------------------------------
(* Datagrams: who holds a buffer *)

One(p) == IF p THEN 1 ELSE 0

UdpItem   == [buf : UdpBuffer, port : D!Port]
UdpTask   == [pc : {"wait", "found", "clean"},
              item : [buf : UdpBuffer \cup {0}, port : D!Port \cup {"none"}]]
UdpSender == [pc : {"idle", "local", "unlocal", "send", "clean"}, port : D!Port \cup {"none"},
              buf : UdpBuffer \cup {0}, copy : UdpBuffer \cup {0}]

BuffersTyped ==
    /\ udp_ref \in [UdpBuffer -> Nat] /\ data \in [UdpBuffer -> D!Port \cup {"none"}]
    /\ net_queue \in Seq(UdpItem) /\ Len(net_queue) <= NetQueueLen
    /\ task \in UdpTask /\ sender \in [D!Thread -> UdpSender]
    /\ cb_queue \in 0..HandlerLen

\* Who has buffer b: a sender as what it sends, a sender as its copy, the queue,
\* the middleware thread.
Sends(s, b)  == \E t \in D!Thread : s[t].buf = b
Copies(s, b) == \E t \in D!Thread : s[t].copy = b
InQueue(q, b) == \E i \in 1..Len(q) : q[i].buf = b

\* A buffer is in the queue once at most, and nobody else has what a sender sends.
QueueApart(q) == \A i, j \in 1..Len(q) : q[i].buf = q[j].buf => i = j
SendersApart(s) ==
    \A t, u \in D!Thread : t # u =>
        /\ s[t].buf = s[u].buf => s[t].buf = 0
        /\ s[t].copy = s[u].copy => s[t].copy = 0

HeldOnce(q, k, s) ==
    \A b \in UdpBuffer :
        /\ Sends(s, b) => ~Copies(s, b) /\ ~InQueue(q, b) /\ k.item.buf # b
        /\ InQueue(q, b) => k.item.buf # b

Referred(r, q, k, s) ==
    \A b \in UdpBuffer : r[b] = One(Sends(s, b)) + One(Copies(s, b)) + One(InQueue(q, b))
                                  + One(k.item.buf = b)

\* Where a thread is says what it has.
SenderAt(e) ==
    /\ e.pc = "idle" => e.buf = 0
    /\ e.pc # "idle" => e.buf \in UdpBuffer
    /\ e.copy # 0 <=> e.pc = "unlocal"
TaskAt(k) == (k.pc = "wait" <=> k.item.buf = 0)

\* A datagram keeps the port it was sent to.
QueueRight(d, q) == \A i \in 1..Len(q) : q[i].port = d[q[i].buf]
TaskRight(d, k) == k.pc # "wait" => k.item.port = d[k.item.buf]
SendersRight(d, s) == \A t \in D!Thread : s[t].pc = "local" => d[s[t].buf] = "resource"

BuffersInv ==
    /\ BuffersTyped
    /\ QueueApart(net_queue) /\ SendersApart(sender)
    /\ HeldOnce(net_queue, task, sender)
    /\ Referred(udp_ref, net_queue, task, sender)
    /\ TaskAt(task) /\ \A t \in D!Thread : SenderAt(sender[t])
    /\ QueueRight(data, net_queue) /\ TaskRight(data, task) /\ SendersRight(data, sender)

LEMMA QueueAdds ==
  ASSUME NEW q \in Seq(UdpItem), NEW e \in UdpItem, NEW r, r = Append(q, e)
  PROVE  /\ r \in Seq(UdpItem) /\ Len(r) = Len(q) + 1
         /\ \A b : InQueue(r, b) <=> (InQueue(q, b) \/ e.buf = b)
         /\ QueueApart(q) /\ ~InQueue(q, e.buf) => QueueApart(r)
         /\ \A d : QueueRight(d, q) /\ d[e.buf] = e.port => QueueRight(d, r)
  <1>1. /\ r \in Seq(UdpItem) /\ Len(r) = Len(q) + 1 /\ Len(q) \in Nat /\ r[Len(q) + 1] = e
        /\ \A i \in 1..Len(q) : r[i] = q[i]
    BY AppendProperties, LenProperties
  <1>2. /\ \A i \in 1..Len(r) : i \in 1..Len(q) \/ i = Len(q) + 1
        /\ \A i \in 1..Len(q) : i \in 1..Len(r)
        /\ Len(q) + 1 \in 1..Len(r)
    BY <1>1
  <1>3. \A b : InQueue(r, b) <=> (InQueue(q, b) \/ e.buf = b)
    BY <1>1, <1>2 DEF InQueue
  <1>4. ASSUME QueueApart(q), ~InQueue(q, e.buf)
        PROVE  QueueApart(r)
    BY <1>1, <1>2, <1>4 DEF QueueApart, InQueue
  <1>5. \A d : QueueRight(d, q) /\ d[e.buf] = e.port => QueueRight(d, r)
    BY <1>1, <1>2 DEF QueueRight
  <1> QED BY <1>1, <1>3, <1>4, <1>5

LEMMA QueueGives ==
  ASSUME NEW q \in Seq(UdpItem), q # <<>>, QueueApart(q)
  PROVE  /\ Tail(q) \in Seq(UdpItem) /\ Head(q) \in UdpItem /\ Len(Tail(q)) = Len(q) - 1
         /\ Len(q) \in Nat
         /\ \A b : InQueue(q, b) <=> (InQueue(Tail(q), b) \/ Head(q).buf = b)
         /\ ~InQueue(Tail(q), Head(q).buf)
         /\ QueueApart(Tail(q))
         /\ \A d : QueueRight(d, q) => QueueRight(d, Tail(q)) /\ Head(q).port = d[Head(q).buf]
  <1> DEFINE r == Tail(q)
             h == Head(q)
  <1>1. /\ r \in Seq(UdpItem) /\ Len(r) = Len(q) - 1 /\ Len(q) \in Nat /\ Len(q) > 0
        /\ h = q[1] /\ h \in UdpItem
        /\ \A i \in 1..Len(r) : r[i] = q[i + 1]
    BY HeadTailProperties, LenProperties, EmptySeq
  <1> HIDE DEF r, h
  <1>2. /\ \A i \in 1..Len(q) : i = 1 \/ (i - 1 \in 1..Len(r) /\ q[i] = r[i - 1])
        /\ \A i \in 1..Len(r) : i + 1 \in 1..Len(q) /\ i + 1 # 1
        /\ \A i, j \in 1..Len(r) : i + 1 = j + 1 => i = j
        /\ 1 \in 1..Len(q)
    BY <1>1
  <1>3. \A b : InQueue(q, b) <=> (InQueue(r, b) \/ h.buf = b)
    BY <1>1, <1>2 DEF InQueue
  <1>4. ~InQueue(r, h.buf) /\ QueueApart(r)
    BY <1>1, <1>2 DEF InQueue, QueueApart
  <1>5. \A d : QueueRight(d, q) => QueueRight(d, r) /\ h.port = d[h.buf]
    BY <1>1, <1>2 DEF QueueRight
  <1> QED BY <1>1, <1>3, <1>4, <1>5 DEF r, h

\* A buffer without references is nobody's.
LEMMA UnusedIsFree ==
  ASSUME D!DatagramsAssumption, BuffersInv, D!Unused # {}
  PROVE  /\ D!Least(D!Unused) \in UdpBuffer
         /\ udp_ref[D!Least(D!Unused)] = 0
         /\ ~Sends(sender, D!Least(D!Unused)) /\ ~Copies(sender, D!Least(D!Unused))
         /\ ~InQueue(net_queue, D!Least(D!Unused)) /\ task.item.buf # D!Least(D!Unused)
  <1> DEFINE b == D!Least(D!Unused)
  <1>1. D!Unused \subseteq Nat
    BY DEF D!Unused, D!DatagramsAssumption
  <1>2. b \in D!Unused
    BY <1>1, LeastNumber DEF D!Least
  <1> HIDE DEF b
  <1>3. b \in UdpBuffer /\ udp_ref[b] = 0
    BY <1>2 DEF D!Unused
  <1>4. 0 = One(Sends(sender, b)) + One(Copies(sender, b)) + One(InQueue(net_queue, b))
              + One(task.item.buf = b)
    BY <1>3 DEF BuffersInv, Referred
  <1>5. ~Sends(sender, b) /\ ~Copies(sender, b) /\ ~InQueue(net_queue, b) /\ task.item.buf # b
    BY <1>4 DEF One
  <1> QED BY <1>3, <1>5 DEF b

\* What the middleware's queue takes (bm_middleware_rx) it has a reference for,
\* beside the one the caller may keep.
LEMMA RxReferred ==
  ASSUME D!DatagramsAssumption, BuffersInv, NEW b \in UdpBuffer, NEW port \in D!Port, NEW held \in {0, 1},
         NEW what \in D!Port, D!bm_middleware_rx(b, port, held, what),
         ~InQueue(net_queue, b)
  PROVE  /\ udp_ref' \in [UdpBuffer -> Nat] /\ data' \in [UdpBuffer -> D!Port \cup {"none"}]
         /\ net_queue' \in Seq(UdpItem) /\ Len(net_queue') <= NetQueueLen
         /\ QueueApart(net_queue')
         /\ \A c \in UdpBuffer : c # b =>
              /\ udp_ref'[c] = udp_ref[c] /\ data'[c] = data[c]
              /\ InQueue(net_queue', c) <=> InQueue(net_queue, c)
         /\ udp_ref'[b] = held + One(InQueue(net_queue', b))
         /\ InQueue(net_queue', b) \/ held = 1 => data'[b] = what
         /\ port = what => QueueRight(data', net_queue')
  <1>1. /\ udp_ref \in [UdpBuffer -> Nat] /\ data \in [UdpBuffer -> D!Port \cup {"none"}]
        /\ net_queue \in Seq(UdpItem) /\ Len(net_queue) <= NetQueueLen /\ Len(net_queue) \in Nat
        /\ QueueApart(net_queue) /\ QueueRight(data, net_queue)
    BY LenProperties DEF BuffersInv, BuffersTyped
  <1>2. CASE D!QueueTakes
    <2> DEFINE e == [buf |-> b, port |-> port]
    <2>1. e \in UdpItem /\ e.buf = b /\ e.port = port
      BY DEF UdpItem
    <2>2. net_queue' = Append(net_queue, e) /\ udp_ref' = [udp_ref EXCEPT ![b] = held + 1]
      BY <1>2 DEF D!bm_middleware_rx
    <2> HIDE DEF e
    <2>3. udp_ref'[b] = held + 1 /\ udp_ref'[b] # 0 /\ udp_ref' \in [UdpBuffer -> Nat]
          /\ \A c \in UdpBuffer : c # b => udp_ref'[c] = udp_ref[c]
      BY <1>1, <2>2
    <2>4. data' = [data EXCEPT ![b] = what]
      BY <2>3 DEF D!bm_middleware_rx
    <2>5. /\ net_queue' \in Seq(UdpItem) /\ Len(net_queue') = Len(net_queue) + 1
          /\ \A c : InQueue(net_queue', c) <=> (InQueue(net_queue, c) \/ b = c)
          /\ QueueApart(net_queue')
      BY <1>1, <2>1, <2>2, QueueAdds
    <2>6. Len(net_queue') <= NetQueueLen
      BY <1>1, <1>2, <2>5 DEF D!QueueTakes, D!DatagramsAssumption
    <2>7. QueueRight(data', net_queue)
      BY <1>1, <2>4 DEF QueueRight, InQueue, UdpItem
    <2>8. port = what => QueueRight(data', net_queue')
      BY <1>1, <2>1, <2>2, <2>4, <2>7, QueueAdds
    <2> QED BY <1>1, <2>2, <2>3, <2>4, <2>5, <2>6, <2>8 DEF One
  <1>3. CASE ~D!QueueTakes
    <2>1. net_queue' = net_queue /\ udp_ref' = [udp_ref EXCEPT ![b] = held]
      BY <1>3 DEF D!bm_middleware_rx
    <2>2. udp_ref'[b] = held /\ udp_ref' \in [UdpBuffer -> Nat]
          /\ \A c \in UdpBuffer : c # b => udp_ref'[c] = udp_ref[c]
      BY <1>1, <2>1
    <2>3. data' = [data EXCEPT ![b] = IF udp_ref'[b] = 0 THEN "none" ELSE what]
      BY DEF D!bm_middleware_rx
    <2>4. QueueRight(data', net_queue)
      BY <1>1, <2>3 DEF QueueRight, InQueue, UdpItem
    <2> QED BY <1>1, <2>1, <2>2, <2>3, <2>4 DEF One
  <1> QED BY <1>2, <1>3

LEMMA UdpReceives ==
  ASSUME D!DatagramsAssumption, SamePort, BuffersInv, NEW to \in D!Port, NEW from \in D!Port,
         D!udp_recv_cb(to, from)
  PROVE  BuffersInv'
  <1> DEFINE b == D!Least(D!Unused)
  <1>1. D!Unused # {} /\ from = to /\ D!bm_middleware_rx(b, to, 0, to)
        /\ UNCHANGED <<task, sender, cb_queue>>
    BY DEF D!udp_recv_cb
  <1>2. /\ b \in UdpBuffer /\ ~Sends(sender, b) /\ ~Copies(sender, b)
        /\ ~InQueue(net_queue, b) /\ task.item.buf # b
    BY <1>1, UnusedIsFree
  <1> HIDE DEF b
  <1>3. /\ udp_ref' \in [UdpBuffer -> Nat] /\ data' \in [UdpBuffer -> D!Port \cup {"none"}]
        /\ net_queue' \in Seq(UdpItem) /\ Len(net_queue') <= NetQueueLen
        /\ QueueApart(net_queue')
        /\ \A c \in UdpBuffer : c # b =>
              /\ udp_ref'[c] = udp_ref[c] /\ data'[c] = data[c]
              /\ InQueue(net_queue', c) <=> InQueue(net_queue, c)
        /\ udp_ref'[b] = One(InQueue(net_queue', b))
        /\ QueueRight(data', net_queue')
    BY <1>1, <1>2, RxReferred DEF One
  <1>4. BuffersTyped'
    BY <1>1, <1>3 DEF BuffersInv, BuffersTyped
  <1>0. /\ HeldOnce(net_queue, task, sender) /\ Referred(udp_ref, net_queue, task, sender)
        /\ TaskAt(task) /\ \A t \in D!Thread : SenderAt(sender[t])
        /\ TaskRight(data, task) /\ SendersRight(data, sender)
        /\ task \in UdpTask
    BY DEF BuffersInv, BuffersTyped
  <1>5. ASSUME NEW c \in UdpBuffer
        PROVE  /\ Sends(sender, c) => ~Copies(sender, c) /\ ~InQueue(net_queue', c) /\ task.item.buf # c
               /\ InQueue(net_queue', c) => task.item.buf # c
    <2>1. CASE c = b
      BY <1>2, <2>1
    <2>2. CASE c # b
      BY <1>0, <1>3, <2>2 DEF HeldOnce
    <2> QED BY <2>1, <2>2
  <1>6. ASSUME NEW c \in UdpBuffer
        PROVE  udp_ref'[c] = One(Sends(sender, c)) + One(Copies(sender, c))
                               + One(InQueue(net_queue', c)) + One(task.item.buf = c)
    <2>1. CASE c = b
      BY <1>2, <1>3, <2>1 DEF One
    <2>2. CASE c # b
      BY <1>0, <1>3, <2>2 DEF Referred, One
    <2> QED BY <2>1, <2>2
  <1>7. TaskRight(data', task)
    <2>1. task.pc # "wait" => task.item.buf \in UdpBuffer
      BY <1>0 DEF TaskAt, UdpTask
    <2> QED BY <1>0, <1>2, <1>3, <2>1 DEF TaskRight
  <1>8. SendersRight(data', sender)
    <2>1. \A t \in D!Thread : sender[t].pc = "local" => sender[t].buf \in UdpBuffer /\ sender[t].buf # b
      BY <1>0, <1>2 DEF SenderAt, Sends
    <2> QED BY <1>0, <1>3, <2>1 DEF SendersRight
  <1> QED BY <1>1, <1>3, <1>4, <1>5, <1>6, <1>7, <1>8 DEF BuffersInv, Referred, HeldOnce

\* One sender goes on.
WentOn(s, z, t, r) ==
    /\ z \in [D!Thread -> UdpSender] /\ SendersApart(z)
    /\ z[t] = r /\ \A u \in D!Thread : u # t => z[u] = s[u]
    /\ \A b : b # 0 => (Sends(z, b) <=> (r.buf = b \/ (Sends(s, b) /\ s[t].buf # b)))
    /\ \A b : b # 0 => (Copies(z, b) <=> (r.copy = b \/ (Copies(s, b) /\ s[t].copy # b)))

LEMMA SenderGoesOn ==
  ASSUME NEW s \in [D!Thread -> UdpSender], NEW t \in D!Thread, NEW r \in UdpSender,
         SendersApart(s), NEW z, z = [s EXCEPT ![t] = r],
         r.buf = 0 \/ r.buf = s[t].buf \/ ~Sends(s, r.buf),
         r.copy = 0 \/ r.copy = s[t].copy \/ ~Copies(s, r.copy)
  PROVE  WentOn(s, z, t, r)
  <1>1. /\ z \in [D!Thread -> UdpSender] /\ z[t] = r
        /\ \A u \in D!Thread : u # t => z[u] = s[u]
    OBVIOUS
  <1>2. SendersApart(z)
    <2>1. \A u \in D!Thread : u # t =>
            /\ r.buf = s[u].buf => r.buf = 0
            /\ r.copy = s[u].copy => r.copy = 0
      BY DEF SendersApart, Sends, Copies
    <2> QED BY <1>1, <2>1 DEF SendersApart
  <1>3. \A b : b # 0 => (Sends(z, b) <=> (r.buf = b \/ (Sends(s, b) /\ s[t].buf # b)))
    BY <1>1 DEF Sends, SendersApart
  <1>4. \A b : b # 0 => (Copies(z, b) <=> (r.copy = b \/ (Copies(s, b) /\ s[t].copy # b)))
    BY <1>1 DEF Copies, SendersApart
  <1> QED BY <1>1, <1>2, <1>3, <1>4 DEF WentOn

\* A reference given back (bm_udp_cleanup).
LEMMA GivenBack ==
  ASSUME BuffersTyped, NEW b \in UdpBuffer, udp_ref[b] > 0, D!Back(b)
  PROVE  /\ udp_ref' \in [UdpBuffer -> Nat] /\ data' \in [UdpBuffer -> D!Port \cup {"none"}]
         /\ udp_ref'[b] = udp_ref[b] - 1
         /\ udp_ref'[b] # 0 => data'[b] = data[b]
         /\ \A c \in UdpBuffer : c # b => udp_ref'[c] = udp_ref[c] /\ data'[c] = data[c]
  BY DEF BuffersTyped, D!Back

\* The parts of the invariant, apart.
LEMMA BuffersParts ==
  ASSUME D!DatagramsAssumption, BuffersInv
  PROVE  /\ BuffersTyped
         /\ QueueApart(net_queue) /\ SendersApart(sender)
         /\ HeldOnce(net_queue, task, sender)
         /\ Referred(udp_ref, net_queue, task, sender)
         /\ TaskAt(task) /\ \A t \in D!Thread : SenderAt(sender[t])
         /\ QueueRight(data, net_queue) /\ TaskRight(data, task) /\ SendersRight(data, sender)
         /\ task \in UdpTask /\ sender \in [D!Thread -> UdpSender]
         /\ net_queue \in Seq(UdpItem)
         /\ 0 \notin UdpBuffer
         /\ \A t \in D!Thread : sender[t].pc # "idle" => sender[t].buf \in UdpBuffer
         /\ task.pc # "wait" => task.item.buf \in UdpBuffer
         /\ \A i \in 1..Len(net_queue) : net_queue[i].buf \in UdpBuffer
  <1>1. task.pc # "wait" => task.item.buf \in UdpBuffer
    BY DEF BuffersInv, BuffersTyped, UdpTask, TaskAt
  <1>2. \A i \in 1..Len(net_queue) : net_queue[i].buf \in UdpBuffer
    <2>1. net_queue \in Seq(UdpItem)
      BY DEF BuffersInv, BuffersTyped
    <2>2. \A i \in 1..Len(net_queue) : net_queue[i] \in UdpItem
      BY <2>1, ElementOfSeq
    <2> QED BY <2>2 DEF UdpItem
  <1> QED BY <1>1, <1>2 DEF BuffersInv, BuffersTyped, SenderAt, D!DatagramsAssumption

\* The middleware thread: Take, Given and CleanUp.
LEMMA TakeKeeps ==
  ASSUME D!DatagramsAssumption, BuffersInv, D!Take
  PROVE  BuffersInv'
  <1>0. USE BuffersParts
  <1>1. /\ task.pc = "wait" /\ net_queue # <<>> /\ net_queue' = Tail(net_queue)
        /\ task'.item = Head(net_queue) /\ task'.pc \in {"found", "clean"}
        /\ task' = [pc |-> task'.pc, item |-> Head(net_queue)]
        /\ UNCHANGED <<udp_ref, data, sender, cb_queue>>
    BY DEF D!Take, D!buffers
  <1>2. /\ Tail(net_queue) \in Seq(UdpItem) /\ Head(net_queue) \in UdpItem
        /\ Len(Tail(net_queue)) = Len(net_queue) - 1 /\ Len(net_queue) \in Nat
        /\ \A b : InQueue(net_queue, b) <=> (InQueue(Tail(net_queue), b) \/ Head(net_queue).buf = b)
        /\ ~InQueue(Tail(net_queue), Head(net_queue).buf)
        /\ QueueApart(Tail(net_queue))
        /\ QueueRight(data, Tail(net_queue)) /\ Head(net_queue).port = data[Head(net_queue).buf]
    BY <1>1, QueueGives
  <1> DEFINE h == Head(net_queue)
             q == Tail(net_queue)
  <1> HIDE DEF h, q
  <1>3. /\ net_queue' = q /\ task'.item.buf = h.buf /\ h.buf \in UdpBuffer /\ h \in UdpItem
        /\ \A b : InQueue(net_queue, b) <=> (InQueue(q, b) \/ h.buf = b)
        /\ ~InQueue(q, h.buf)
    BY <1>1, <1>2 DEF h, q, UdpItem
  <1>4. task.item.buf = 0
    BY <1>1 DEF TaskAt
  <1>5. task' \in UdpTask
    BY <1>1, <1>2 DEF UdpTask, UdpItem
  <1>6. BuffersTyped'
    BY <1>1, <1>2, <1>5 DEF BuffersTyped, D!DatagramsAssumption
  <1>7. ASSUME NEW c \in UdpBuffer
        PROVE  /\ Sends(sender, c) => ~Copies(sender, c) /\ ~InQueue(q, c) /\ h.buf # c
               /\ InQueue(q, c) => h.buf # c
    BY <1>3 DEF HeldOnce
  <1>8. ASSUME NEW c \in UdpBuffer
        PROVE  udp_ref[c] = One(Sends(sender, c)) + One(Copies(sender, c))
                              + One(InQueue(q, c)) + One(h.buf = c)
    <2>1. udp_ref[c] = One(Sends(sender, c)) + One(Copies(sender, c))
                              + One(InQueue(net_queue, c)) + One(task.item.buf = c)
      BY DEF Referred
    <2>2. task.item.buf # c
      BY <1>4
    <2>3. InQueue(net_queue, c) <=> (InQueue(q, c) \/ h.buf = c)
      BY <1>3
    <2>4. ~(InQueue(q, c) /\ h.buf = c)
      BY <1>3
    <2> QED BY <2>1, <2>2, <2>3, <2>4 DEF One
  <1>9. TaskAt(task') /\ TaskRight(data', task')
    BY <1>1, <1>2, <1>3 DEF TaskAt, TaskRight
  <1>10. HeldOnce(net_queue', task', sender') /\ Referred(udp_ref', net_queue', task', sender')
    <2>1. net_queue' = q /\ task'.item.buf = h.buf /\ sender' = sender /\ udp_ref' = udp_ref
      BY <1>1, <1>3
    <2>2. HeldOnce(net_queue', task', sender')
      BY ONLY <1>7, <2>1 DEF HeldOnce
    <2>3. Referred(udp_ref', net_queue', task', sender')
      BY ONLY <1>8, <2>1 DEF Referred
    <2> QED BY <2>2, <2>3
  <1>11. QueueApart(net_queue') /\ QueueRight(data', net_queue')
    BY <1>1, <1>2
  <1> QED BY <1>1, <1>6, <1>9, <1>10, <1>11 DEF BuffersInv

LEMMA GivenKeeps ==
  ASSUME D!DatagramsAssumption, BuffersInv, D!Given
  PROVE  BuffersInv'
  <1>0. USE BuffersParts
  <1>1. /\ task.pc = "found" /\ task' = [task EXCEPT !.pc = "clean"]
        /\ UNCHANGED <<udp_ref, data, net_queue, sender, cb_queue>>
    BY DEF D!Given, D!buffers
  <1>2. task' \in UdpTask /\ task'.pc = "clean" /\ task'.item = task.item
    BY <1>1 DEF UdpTask
  <1>3. BuffersTyped' /\ TaskAt(task') /\ TaskRight(data', task')
    BY <1>1, <1>2 DEF BuffersTyped, TaskAt, TaskRight
  <1> QED BY <1>1, <1>2, <1>3 DEF BuffersInv, HeldOnce, Referred

LEMMA CleanUpKeeps ==
  ASSUME D!DatagramsAssumption, BuffersInv, D!CleanUp
  PROVE  BuffersInv'
  <1>0. USE BuffersParts
  <1> DEFINE b == task.item.buf
  <1>1. /\ task.pc = "clean" /\ D!Back(b) /\ task' = [pc |-> "wait", item |-> D!NoItem]
        /\ UNCHANGED <<net_queue, sender, cb_queue>>
    BY DEF D!CleanUp
  <1>2. /\ b \in UdpBuffer /\ ~Sends(sender, b) /\ ~InQueue(net_queue, b)
        /\ udp_ref[b] = One(Copies(sender, b)) + 1
    <2>1. b \in UdpBuffer /\ ~Sends(sender, b) /\ ~InQueue(net_queue, b)
      BY <1>1 DEF HeldOnce
    <2> QED BY <2>1 DEF Referred, One
  <1> HIDE DEF b
  <1>3. task' \in UdpTask /\ task'.pc = "wait" /\ task'.item.buf = 0
    BY <1>1 DEF UdpTask, D!NoItem
  <1>4. udp_ref[b] > 0
    BY <1>2 DEF One
  <1>5. /\ udp_ref' \in [UdpBuffer -> Nat] /\ data' \in [UdpBuffer -> D!Port \cup {"none"}]
        /\ udp_ref'[b] = udp_ref[b] - 1
        /\ \A c \in UdpBuffer : c # b => udp_ref'[c] = udp_ref[c] /\ data'[c] = data[c]
    BY <1>1, <1>2, <1>4, GivenBack
  <1>6. BuffersTyped'
    BY <1>1, <1>3, <1>5 DEF BuffersTyped
  <1>7. HeldOnce(net_queue', task', sender')
    BY <1>1, <1>3 DEF HeldOnce
  <1>8. ASSUME NEW c \in UdpBuffer
        PROVE  udp_ref'[c] = One(Sends(sender, c)) + One(Copies(sender, c))
                               + One(InQueue(net_queue, c)) + One(task'.item.buf = c)
    <2>1. CASE c = b
      BY <1>2, <1>3, <1>5, <2>1 DEF One
    <2>2. CASE c # b
      <3>1. task.item.buf # c /\ task'.item.buf # c
        BY <1>3, <2>2 DEF b
      <3> QED BY <1>5, <2>2, <3>1 DEF Referred, One
    <2> QED BY <2>1, <2>2
  <1>9. QueueRight(data', net_queue)
    BY <1>2, <1>5 DEF QueueRight, InQueue
  <1>10. SendersRight(data', sender)
    BY <1>2, <1>5 DEF SendersRight, Sends
  <1>11. TaskAt(task') /\ TaskRight(data', task')
    BY <1>3 DEF TaskAt, TaskRight
  <1> QED BY <1>1, <1>6, <1>7, <1>8, <1>9, <1>10, <1>11 DEF BuffersInv, Referred

\* A sender takes a buffer for its message (Begin).
LEMMA BeginKeeps ==
  ASSUME D!DatagramsAssumption, BuffersInv, NEW t \in D!Thread, NEW port \in D!Port,
         NEW pc \in {"local", "send"}, pc = "local" => port = "resource",
         sender[t].pc = "idle", D!Begin(t, port, pc), UNCHANGED <<net_queue, task>>,
         cb_queue' \in 0..HandlerLen
  PROVE  BuffersInv'
  <1>0. USE BuffersParts
  <1> DEFINE b == D!Least(D!Unused)
             r == [pc |-> pc, port |-> port, buf |-> b, copy |-> 0]
  <1>1. /\ D!Unused # {} /\ sender' = [sender EXCEPT ![t] = r]
        /\ udp_ref' = [udp_ref EXCEPT ![b] = 1] /\ data' = [data EXCEPT ![b] = port]
    BY DEF D!Begin
  <1>2. /\ b \in UdpBuffer /\ udp_ref[b] = 0 /\ ~Sends(sender, b) /\ ~Copies(sender, b)
        /\ ~InQueue(net_queue, b) /\ task.item.buf # b
    BY <1>1, UnusedIsFree
  <1> HIDE DEF b
  <1>3. r \in UdpSender /\ r.buf = b /\ r.copy = 0 /\ r.pc = pc /\ b # 0
    BY <1>2 DEF UdpSender
  <1> HIDE DEF r
  <1>4. sender[t].buf = 0 /\ sender[t].copy = 0
    BY DEF SenderAt
  <1>5. /\ sender' \in [D!Thread -> UdpSender] /\ SendersApart(sender')
        /\ sender'[t] = r /\ \A u \in D!Thread : u # t => sender'[u] = sender[u]
        /\ \A c \in UdpBuffer : Sends(sender', c) <=> (b = c \/ Sends(sender, c))
        /\ \A c \in UdpBuffer : Copies(sender', c) <=> Copies(sender, c)
    <2>1. /\ sender' \in [D!Thread -> UdpSender] /\ SendersApart(sender')
          /\ sender'[t] = r /\ \A u \in D!Thread : u # t => sender'[u] = sender[u]
          /\ \A c : c # 0 => (Sends(sender', c) <=> (r.buf = c \/ (Sends(sender, c) /\ sender[t].buf # c)))
          /\ \A c : c # 0 => (Copies(sender', c) <=> (r.copy = c \/ (Copies(sender, c) /\ sender[t].copy # c)))
      <3>1. /\ ~Sends(sender, r.buf) /\ r.copy = 0 /\ sender' = [sender EXCEPT ![t] = r]
            /\ r \in UdpSender /\ sender \in [D!Thread -> UdpSender] /\ SendersApart(sender)
        BY <1>1, <1>2, <1>3
      <3>2. WentOn(sender, sender', t, r)
        BY ONLY <3>1, t \in D!Thread, SenderGoesOn
      <3> QED BY ONLY <3>2 DEF WentOn
    <2>2. \A c \in UdpBuffer : c # 0
      OBVIOUS
    <2> QED BY <1>3, <1>4, <2>1, <2>2
  <1>6. /\ udp_ref' \in [UdpBuffer -> Nat] /\ data' \in [UdpBuffer -> D!Port \cup {"none"}]
        /\ udp_ref'[b] = 1 /\ data'[b] = port
        /\ \A c \in UdpBuffer : c # b => udp_ref'[c] = udp_ref[c] /\ data'[c] = data[c]
    BY <1>1, <1>2 DEF BuffersTyped
  <1>7. BuffersTyped'
    BY <1>5, <1>6 DEF BuffersTyped
  <1>8. HeldOnce(net_queue', task', sender')
    BY <1>2, <1>5 DEF HeldOnce
  <1>9. ASSUME NEW c \in UdpBuffer
        PROVE  udp_ref'[c] = One(Sends(sender', c)) + One(Copies(sender', c))
                               + One(InQueue(net_queue, c)) + One(task.item.buf = c)
    <2>1. CASE c = b
      BY <1>2, <1>5, <1>6, <2>1 DEF One
    <2>2. CASE c # b
      BY <1>5, <1>6, <2>2 DEF Referred, One
    <2> QED BY <2>1, <2>2
  <1>10. QueueRight(data', net_queue)
    BY <1>2, <1>6 DEF QueueRight, InQueue
  <1>11. TaskRight(data', task)
    BY <1>2, <1>6 DEF TaskRight
  <1>12. \A u \in D!Thread : SenderAt(sender'[u])
    BY <1>2, <1>3, <1>5 DEF SenderAt
  <1>13. SendersRight(data', sender')
    <2>1. \A u \in D!Thread : u # t /\ sender[u].pc = "local" => sender[u].buf \in UdpBuffer /\ sender[u].buf # b
      BY <1>2 DEF Sends
    <2>2. sender'[t].buf = b /\ sender'[t].pc = pc
      BY <1>3, <1>5
    <2> QED BY <1>5, <1>6, <2>1, <2>2 DEF SendersRight
  <1> QED BY <1>5, <1>7, <1>8, <1>9, <1>10, <1>11, <1>12, <1>13 DEF BuffersInv, Referred

\* A sender goes on without a change of what it has.
LEMMA PcKeeps ==
  ASSUME D!DatagramsAssumption, BuffersInv, NEW t \in D!Thread, NEW pc \in {"send", "clean"},
         sender[t].pc \in {"local", "send"}, sender' = [sender EXCEPT ![t].pc = pc],
         UNCHANGED <<udp_ref, data, net_queue, task, cb_queue>>
  PROVE  BuffersInv'
  <1>0. USE BuffersParts
  <1> DEFINE r == [sender[t] EXCEPT !.pc = pc]
  <1>1. sender[t] \in UdpSender
    OBVIOUS
  <1>2. r \in UdpSender /\ r.buf = sender[t].buf /\ r.copy = sender[t].copy /\ r.pc = pc
        /\ sender' = [sender EXCEPT ![t] = r]
    BY <1>1 DEF UdpSender
  <1> HIDE DEF r
  <1>3. /\ sender' \in [D!Thread -> UdpSender] /\ SendersApart(sender')
        /\ sender'[t] = r /\ \A u \in D!Thread : u # t => sender'[u] = sender[u]
    <2>1. /\ r.buf = sender[t].buf /\ r.copy = sender[t].copy /\ sender' = [sender EXCEPT ![t] = r]
          /\ r \in UdpSender /\ sender \in [D!Thread -> UdpSender] /\ SendersApart(sender)
      BY <1>2
    <2>2. WentOn(sender, sender', t, r)
      BY ONLY <2>1, t \in D!Thread, SenderGoesOn
    <2> QED BY ONLY <2>2 DEF WentOn
  <1>4. \A u \in D!Thread : sender'[u].buf = sender[u].buf /\ sender'[u].copy = sender[u].copy
    BY <1>2, <1>3
  <1>5. \A c : (Sends(sender', c) <=> Sends(sender, c)) /\ (Copies(sender', c) <=> Copies(sender, c))
    BY <1>4 DEF Sends, Copies
  <1>6. BuffersTyped'
    BY <1>3 DEF BuffersTyped
  <1>7. HeldOnce(net_queue', task', sender')
    BY <1>5 DEF HeldOnce
  <1>8. Referred(udp_ref', net_queue', task', sender')
    BY <1>5 DEF Referred, One
  <1>9. \A u \in D!Thread : SenderAt(sender'[u])
    BY <1>2, <1>3 DEF SenderAt
  <1>10. SendersRight(data', sender')
    BY <1>2, <1>3 DEF SendersRight
  <1> QED BY <1>3, <1>6, <1>7, <1>8, <1>9, <1>10 DEF BuffersInv

\* A copy is given to this node's subscribers (publish_data_locally).
LEMMA LocalKeeps ==
  ASSUME D!DatagramsAssumption, BuffersInv, NEW t \in D!Thread, D!publish_data_locally(t)
  PROVE  BuffersInv'
  <1>0. USE BuffersParts
  <1>1. sender[t].pc = "local" /\ UNCHANGED <<task, cb_queue>>
    BY DEF D!publish_data_locally
  <1>2. CASE sender' = [sender EXCEPT ![t].pc = "send"] /\ UNCHANGED <<udp_ref, data, net_queue>>
    BY <1>1, <1>2, PcKeeps
  <1>3. CASE /\ D!Unused # {}
             /\ D!bm_middleware_rx(D!Least(D!Unused), "resource", 1, data[sender[t].buf])
             /\ sender' = [sender EXCEPT ![t].pc = "unlocal", ![t].copy = D!Least(D!Unused)]
    <2> DEFINE b == D!Least(D!Unused)
               r == [sender[t] EXCEPT !.pc = "unlocal", !.copy = b]
    <2>1. /\ b \in UdpBuffer /\ ~Sends(sender, b) /\ ~Copies(sender, b)
          /\ ~InQueue(net_queue, b) /\ task.item.buf # b
      BY <1>3, UnusedIsFree
    <2>2. /\ D!bm_middleware_rx(b, "resource", 1, data[sender[t].buf])
          /\ sender' = [sender EXCEPT ![t].pc = "unlocal", ![t].copy = b]
      BY <1>3
    <2> HIDE DEF b
    <2>3. data[sender[t].buf] = "resource" /\ "resource" \in D!Port
      BY <1>1 DEF SendersRight, D!Port
    <2>4. /\ udp_ref' \in [UdpBuffer -> Nat] /\ data' \in [UdpBuffer -> D!Port \cup {"none"}]
          /\ net_queue' \in Seq(UdpItem) /\ Len(net_queue') <= NetQueueLen
          /\ QueueApart(net_queue')
          /\ \A c \in UdpBuffer : c # b =>
                /\ udp_ref'[c] = udp_ref[c] /\ data'[c] = data[c]
                /\ InQueue(net_queue', c) <=> InQueue(net_queue, c)
          /\ udp_ref'[b] = 1 + One(InQueue(net_queue', b))
          /\ QueueRight(data', net_queue')
      BY <2>1, <2>2, <2>3, RxReferred
    <2>5. sender[t] \in UdpSender /\ sender[t].copy = 0 /\ sender[t].buf \in UdpBuffer
      BY <1>1 DEF SenderAt
    <2>6. /\ r \in UdpSender /\ r.buf = sender[t].buf /\ r.copy = b /\ r.pc = "unlocal"
          /\ sender' = [sender EXCEPT ![t] = r] /\ b # 0
      BY <2>1, <2>2, <2>5 DEF UdpSender
    <2> HIDE DEF r
    <2>7. /\ sender' \in [D!Thread -> UdpSender] /\ SendersApart(sender')
          /\ sender'[t] = r /\ \A u \in D!Thread : u # t => sender'[u] = sender[u]
          /\ \A c : c # 0 => (Copies(sender', c) <=> (r.copy = c \/ (Copies(sender, c) /\ sender[t].copy # c)))
      <3>1. /\ r.buf = sender[t].buf /\ ~Copies(sender, r.copy) /\ sender' = [sender EXCEPT ![t] = r]
            /\ r \in UdpSender /\ sender \in [D!Thread -> UdpSender] /\ SendersApart(sender)
        BY <2>1, <2>6
      <3>2. WentOn(sender, sender', t, r)
        BY ONLY <3>1, t \in D!Thread, SenderGoesOn
      <3> QED BY ONLY <3>2 DEF WentOn
    <2>8. \A u \in D!Thread : sender'[u].buf = sender[u].buf
      BY <2>6, <2>7
    <2>9. /\ \A c \in UdpBuffer : Sends(sender', c) <=> Sends(sender, c)
          /\ \A c \in UdpBuffer : Copies(sender', c) <=> (b = c \/ Copies(sender, c))
      <3>1. \A c \in UdpBuffer : c # 0
        OBVIOUS
      <3> QED BY <2>5, <2>6, <2>7, <2>8, <3>1 DEF Sends
    <2>10. BuffersTyped'
      BY <1>1, <2>4, <2>7 DEF BuffersTyped
    <2>11. ASSUME NEW c \in UdpBuffer
           PROVE  /\ Sends(sender', c) => ~Copies(sender', c) /\ ~InQueue(net_queue', c) /\ task.item.buf # c
                  /\ InQueue(net_queue', c) => task.item.buf # c
      <3>1. CASE c = b
        BY <2>1, <2>9, <3>1
      <3>2. CASE c # b
        BY <2>4, <2>9, <3>2 DEF HeldOnce
      <3> QED BY <3>1, <3>2
    <2>12. ASSUME NEW c \in UdpBuffer
           PROVE  udp_ref'[c] = One(Sends(sender', c)) + One(Copies(sender', c))
                                  + One(InQueue(net_queue', c)) + One(task.item.buf = c)
      <3>1. CASE c = b
        BY <2>1, <2>4, <2>9, <3>1 DEF One
      <3>2. CASE c # b
        BY <2>4, <2>9, <3>2 DEF Referred, One
      <3> QED BY <3>1, <3>2
    <2>13. TaskRight(data', task)
      BY <2>1, <2>4 DEF TaskRight
    <2>14. \A u \in D!Thread : SenderAt(sender'[u])
      BY <2>5, <2>6, <2>7 DEF SenderAt
    <2>15. SendersRight(data', sender')
      <3>1. \A u \in D!Thread : u # t /\ sender[u].pc = "local" => sender[u].buf \in UdpBuffer /\ sender[u].buf # b
        BY <2>1 DEF Sends
      <3> QED BY <2>4, <2>6, <2>7, <3>1 DEF SendersRight
    <2> QED BY <1>1, <2>4, <2>7, <2>10, <2>11, <2>12, <2>13, <2>14, <2>15 DEF BuffersInv, Referred, HeldOnce
  <1> QED BY <1>2, <1>3 DEF D!publish_data_locally, D!buffers

\* The copy is given back, and what was sent.
LEMMA CopyBackKeeps ==
  ASSUME D!DatagramsAssumption, BuffersInv, NEW t \in D!Thread, D!CopyBack(t)
  PROVE  BuffersInv'
  <1>0. USE BuffersParts
  <1> DEFINE b == sender[t].copy
             r == [sender[t] EXCEPT !.pc = "send", !.copy = 0]
  <1>1. /\ sender[t].pc = "unlocal" /\ D!Back(b)
        /\ sender' = [sender EXCEPT ![t].pc = "send", ![t].copy = 0]
        /\ UNCHANGED <<net_queue, task, cb_queue>>
    BY DEF D!CopyBack
  <1>2. sender[t] \in UdpSender /\ b \in UdpBuffer /\ sender[t].buf \in UdpBuffer
    BY <1>1 DEF SenderAt, UdpSender
  <1>3. /\ r \in UdpSender /\ r.buf = sender[t].buf /\ r.copy = 0 /\ r.pc = "send"
        /\ sender' = [sender EXCEPT ![t] = r]
    BY <1>1, <1>2 DEF UdpSender
  <1> HIDE DEF r
  <1>4. Copies(sender, b) /\ ~Sends(sender, b)
    BY <1>2 DEF Copies, HeldOnce
  <1>5. udp_ref[b] = 1 + One(InQueue(net_queue, b)) + One(task.item.buf = b)
    BY <1>2, <1>4 DEF Referred, One
  <1>6. udp_ref[b] > 0
    BY <1>5 DEF One
  <1>7. /\ udp_ref' \in [UdpBuffer -> Nat] /\ data' \in [UdpBuffer -> D!Port \cup {"none"}]
        /\ udp_ref'[b] = udp_ref[b] - 1
        /\ udp_ref'[b] # 0 => data'[b] = data[b]
        /\ \A c \in UdpBuffer : c # b => udp_ref'[c] = udp_ref[c] /\ data'[c] = data[c]
    BY <1>1, <1>2, <1>6, GivenBack
  <1>8. /\ sender' \in [D!Thread -> UdpSender] /\ SendersApart(sender')
        /\ sender'[t] = r /\ \A u \in D!Thread : u # t => sender'[u] = sender[u]
        /\ \A c : c # 0 => (Copies(sender', c) <=> (r.copy = c \/ (Copies(sender, c) /\ b # c)))
    <2>1. /\ r.buf = sender[t].buf /\ r.copy = 0 /\ sender' = [sender EXCEPT ![t] = r]
          /\ r \in UdpSender /\ sender \in [D!Thread -> UdpSender] /\ SendersApart(sender)
      BY <1>3
    <2>2. WentOn(sender, sender', t, r)
      BY ONLY <2>1, t \in D!Thread, SenderGoesOn
    <2> QED BY ONLY <2>2 DEF WentOn
  <1> HIDE DEF b
  <1>9. /\ \A c \in UdpBuffer : Sends(sender', c) <=> Sends(sender, c)
        /\ \A c \in UdpBuffer : Copies(sender', c) <=> (Copies(sender, c) /\ b # c)
    <2>1. \A u \in D!Thread : sender'[u].buf = sender[u].buf
      BY <1>3, <1>8
    <2>2. \A c \in UdpBuffer : c # 0
      OBVIOUS
    <2> QED BY <1>3, <1>8, <2>1, <2>2 DEF Sends
  <1>10. BuffersTyped'
    BY <1>1, <1>7, <1>8 DEF BuffersTyped
  <1>11. HeldOnce(net_queue', task', sender')
    BY <1>1, <1>9 DEF HeldOnce
  <1>12. ASSUME NEW c \in UdpBuffer
         PROVE  udp_ref'[c] = One(Sends(sender', c)) + One(Copies(sender', c))
                                + One(InQueue(net_queue, c)) + One(task.item.buf = c)
    <2>1. CASE c = b
      BY <1>4, <1>5, <1>7, <1>9, <2>1 DEF One
    <2>2. CASE c # b
      BY <1>7, <1>9, <2>2 DEF Referred, One
    <2> QED BY <2>1, <2>2
  <1>13. InQueue(net_queue, b) \/ task.item.buf = b => data'[b] = data[b]
    BY <1>5, <1>7 DEF One
  <1>14. QueueRight(data', net_queue)
    BY <1>7, <1>13 DEF QueueRight, InQueue
  <1>15. TaskRight(data', task)
    BY <1>7, <1>13 DEF TaskRight
  <1>16. \A u \in D!Thread : SenderAt(sender'[u])
    BY <1>2, <1>3, <1>8 DEF SenderAt
  <1>17. SendersRight(data', sender')
    <2>1. \A u \in D!Thread : sender[u].pc = "local" => sender[u].buf \in UdpBuffer /\ sender[u].buf # b
      BY <1>4 DEF Sends
    <2> QED BY <1>3, <1>7, <1>8, <2>1 DEF SendersRight
  <1> QED BY <1>1, <1>8, <1>10, <1>11, <1>12, <1>14, <1>15, <1>16, <1>17 DEF BuffersInv, Referred

LEMMA SentBackKeeps ==
  ASSUME D!DatagramsAssumption, BuffersInv, NEW t \in D!Thread, D!SentBack(t)
  PROVE  BuffersInv'
  <1>0. USE BuffersParts
  <1> DEFINE b == sender[t].buf
             r == D!NoSender
  <1>1. /\ sender[t].pc = "clean" /\ D!Back(b) /\ sender' = [sender EXCEPT ![t] = r]
        /\ UNCHANGED <<net_queue, task, cb_queue>>
    BY DEF D!SentBack
  <1>2. b \in UdpBuffer /\ sender[t].copy = 0
    BY <1>1 DEF SenderAt
  <1>3. r \in UdpSender /\ r.buf = 0 /\ r.copy = 0 /\ r.pc = "idle"
    BY DEF UdpSender, D!NoSender
  <1> HIDE DEF r
  <1>4. /\ Sends(sender, b) /\ ~Copies(sender, b) /\ ~InQueue(net_queue, b) /\ task.item.buf # b
    BY <1>2 DEF Sends, HeldOnce
  <1>5. udp_ref[b] = 1
    BY <1>2, <1>4 DEF Referred, One
  <1>6. /\ udp_ref' \in [UdpBuffer -> Nat] /\ data' \in [UdpBuffer -> D!Port \cup {"none"}]
        /\ udp_ref'[b] = 0
        /\ \A c \in UdpBuffer : c # b => udp_ref'[c] = udp_ref[c] /\ data'[c] = data[c]
    BY <1>1, <1>2, <1>5, GivenBack
  <1>7. /\ sender' \in [D!Thread -> UdpSender] /\ SendersApart(sender')
        /\ sender'[t] = r /\ \A u \in D!Thread : u # t => sender'[u] = sender[u]
        /\ \A c : c # 0 => (Sends(sender', c) <=> (r.buf = c \/ (Sends(sender, c) /\ b # c)))
        /\ \A c : c # 0 => (Copies(sender', c) <=> (r.copy = c \/ (Copies(sender, c) /\ sender[t].copy # c)))
    <2>1. /\ r.buf = 0 /\ r.copy = 0 /\ sender' = [sender EXCEPT ![t] = r]
          /\ r \in UdpSender /\ sender \in [D!Thread -> UdpSender] /\ SendersApart(sender)
      BY <1>1, <1>3
    <2>2. WentOn(sender, sender', t, r)
      BY ONLY <2>1, t \in D!Thread, SenderGoesOn
    <2> QED BY ONLY <2>2 DEF WentOn
  <1> HIDE DEF b
  <1>8. /\ \A c \in UdpBuffer : Sends(sender', c) <=> (Sends(sender, c) /\ b # c)
        /\ \A c \in UdpBuffer : Copies(sender', c) <=> Copies(sender, c)
    <2>1. \A c \in UdpBuffer : c # 0
      OBVIOUS
    <2> QED BY <1>2, <1>3, <1>7, <2>1
  <1>9. BuffersTyped'
    BY <1>1, <1>6, <1>7 DEF BuffersTyped
  <1>10. HeldOnce(net_queue', task', sender')
    BY <1>1, <1>8 DEF HeldOnce
  <1>11. ASSUME NEW c \in UdpBuffer
         PROVE  udp_ref'[c] = One(Sends(sender', c)) + One(Copies(sender', c))
                                + One(InQueue(net_queue, c)) + One(task.item.buf = c)
    <2>1. CASE c = b
      BY <1>4, <1>6, <1>8, <2>1 DEF One
    <2>2. CASE c # b
      BY <1>6, <1>8, <2>2 DEF Referred, One
    <2> QED BY <2>1, <2>2
  <1>12. QueueRight(data', net_queue)
    BY <1>4, <1>6 DEF QueueRight, InQueue
  <1>13. TaskRight(data', task)
    BY <1>4, <1>6 DEF TaskRight
  <1>14. \A u \in D!Thread : SenderAt(sender'[u])
    BY <1>3, <1>7 DEF SenderAt
  <1>15. SendersRight(data', sender')
    <2>1. \A u \in D!Thread : u # t /\ sender[u].pc = "local" => sender[u].buf \in UdpBuffer /\ sender[u].buf # b
      BY <1>2 DEF SendersApart, b
    <2> QED BY <1>3, <1>6, <1>7, <2>1 DEF SendersRight
  <1> QED BY <1>1, <1>7, <1>9, <1>10, <1>11, <1>12, <1>13, <1>14, <1>15 DEF BuffersInv, Referred

\* Steps that leave the buffers alone, but for the queue of the timers.
LEMMA BuffersAlone ==
  ASSUME D!DatagramsAssumption, BuffersInv,
         UNCHANGED <<udp_ref, data, net_queue, task, sender>>, cb_queue' \in 0..HandlerLen
  PROVE  BuffersInv'
  <1>1. BuffersTyped'
    BY DEF BuffersInv, BuffersTyped
  <1> QED BY <1>1, BuffersParts DEF BuffersInv

LEMMA SendsKeeps ==
  ASSUME D!DatagramsAssumption, BuffersInv, NEW t \in D!Thread, D!Sends(t)
  PROVE  BuffersInv'
  <1>0. cb_queue \in 0..HandlerLen
    BY DEF BuffersInv, BuffersTyped
  <1>1. CASE D!bm_pub_wl(t)
    <2>1. PICK pc \in {"local", "send"} : D!Begin(t, "resource", pc)
      BY <1>1 DEF D!bm_pub_wl
    <2>2. sender[t].pc = "idle" /\ UNCHANGED <<net_queue, task, cb_queue>> /\ "resource" \in D!Port
      BY <1>1 DEF D!bm_pub_wl, D!Port
    <2> QED BY <1>0, <2>1, <2>2, BeginKeeps
  <1>2. CASE D!bm_mavlink_transmit(t)
    <2>1. /\ D!Begin(t, "mavlink", "send") /\ sender[t].pc = "idle"
          /\ UNCHANGED <<net_queue, task, cb_queue>> /\ "mavlink" \in D!Port
          /\ "send" \in {"local", "send"} /\ "send" # "local"
      BY <1>2 DEF D!bm_mavlink_transmit, D!Port
    <2> QED BY <1>0, <2>1, BeginKeeps
  <1>3. CASE D!bm_middleware_net_tx(t)
    <2>1. /\ sender[t].pc = "send" /\ sender' = [sender EXCEPT ![t].pc = "clean"]
          /\ UNCHANGED <<udp_ref, data, net_queue, task, cb_queue>>
      BY <1>3 DEF D!bm_middleware_net_tx, D!buffers
    <2> QED BY <2>1, PcKeeps
  <1> QED BY <1>1, <1>2, <1>3, LocalKeeps, CopyBackKeeps, SentBackKeeps DEF D!Sends

LEMMA HeartbeatKeeps ==
  ASSUME D!DatagramsAssumption, BuffersInv, D!mavlink_heartbeat_cb \/ D!mavlink_send_heartbeat
  PROVE  BuffersInv'
  <1>0. cb_queue \in 0..HandlerLen /\ HandlerLen \in Nat
    BY DEF BuffersInv, BuffersTyped, D!DatagramsAssumption
  <1>1. CASE D!mavlink_heartbeat_cb
    <2>1. UNCHANGED <<udp_ref, data, net_queue, task, sender>> /\ cb_queue' \in 0..HandlerLen
      BY <1>0, <1>1 DEF D!mavlink_heartbeat_cb, D!buffers
    <2> QED BY <2>1, BuffersAlone
  <1>2. CASE D!mavlink_send_heartbeat
    <2>1. /\ sender["handler"].pc = "idle" /\ cb_queue' \in 0..HandlerLen
          /\ UNCHANGED <<net_queue, task>>
      BY <1>0, <1>2 DEF D!mavlink_send_heartbeat
    <2>2. CASE D!Begin("handler", "mavlink", "send")
      <3>1. "handler" \in D!Thread /\ "mavlink" \in D!Port /\ "send" \in {"local", "send"}
            /\ "send" # "local"
        BY DEF D!Thread, D!Port
      <3> QED BY <2>1, <2>2, <3>1, BeginKeeps
    <2>3. CASE UNCHANGED <<udp_ref, data, sender>>
      BY <2>1, <2>3, BuffersAlone
    <2> QED BY <1>2, <2>2, <2>3 DEF D!mavlink_send_heartbeat, D!buffers
  <1> QED BY <1>1, <1>2

-----------------------------------------------------------------------------
(* Datagrams: applications and ports *)

UdpPcb == [port : D!Port, local : D!Port \cup {"none"}]
UdpApp == [port : D!Port, pcb : Nat]

\* An application is bound to its port, the first pcb is the one of pubsub, and
\* no pcb has MAVLink's port before bm_mavlink_init.
SetupInv ==
    /\ started \in {"no", "pubsub", "queue", "task", "failed"}
    /\ pcbs \in Seq(UdpPcb) /\ apps \in Seq(UdpApp)
    /\ \A i \in 1..Len(apps) :
          apps[i].pcb \in 1..Len(pcbs) /\ pcbs[apps[i].pcb].local = apps[i].port
    /\ started = "no" => Len(pcbs) = 0 /\ mavlink = "no"
    /\ mavlink = "no" => \A i \in 1..Len(pcbs) : pcbs[i].local # "mavlink"

\* bm_middleware_add_application for a port that no pcb has.
LEMMA ApplicationAdded ==
  ASSUME SetupInv, NEW port \in D!Port, NEW r, D!bm_middleware_add_application(port, r),
         \A i \in 1..Len(pcbs) : pcbs[i].local # port
  PROVE  /\ pcbs' \in Seq(UdpPcb) /\ apps' \in Seq(UdpApp)
         /\ \A i \in 1..Len(apps') :
              apps'[i].pcb \in 1..Len(pcbs') /\ pcbs'[apps'[i].pcb].local = apps'[i].port
         /\ \A i \in 1..Len(pcbs') : (i \in 1..Len(pcbs) /\ pcbs'[i] = pcbs[i]) \/ pcbs'[i].local = port
  <1> DEFINE p == [port |-> port, local |-> port]
             a == [port |-> port, pcb |-> Len(pcbs')]
  <1>0. /\ pcbs \in Seq(UdpPcb) /\ apps \in Seq(UdpApp) /\ Len(pcbs) \in Nat /\ Len(apps) \in Nat
        /\ DOMAIN pcbs = 1..Len(pcbs)
        /\ \A i \in 1..Len(apps) :
              apps[i].pcb \in 1..Len(pcbs) /\ pcbs[apps[i].pcb].local = apps[i].port
    BY LenProperties DEF SetupInv
  <1>1. D!LocalPort(port) = port
    BY <1>0 DEF D!LocalPort
  <1>2. p \in UdpPcb /\ p.local = port
    BY DEF UdpPcb
  <1>3. CASE r \in {"pcb", "list"}
    <2>1. UNCHANGED <<pcbs, apps>>
      BY <1>3 DEF D!bm_middleware_add_application, D!bm_udp_bind_port
    <2> QED BY <1>0, <2>1
  <1>4. CASE r \notin {"pcb", "list"}
    <2>1. pcbs' = Append(pcbs, p)
      BY <1>1, <1>4 DEF D!bm_middleware_add_application, D!bm_udp_bind_port
    <2> HIDE DEF p
    <2>2. /\ pcbs' \in Seq(UdpPcb) /\ Len(pcbs') = Len(pcbs) + 1 /\ pcbs'[Len(pcbs) + 1] = p
          /\ \A i \in 1..Len(pcbs) : pcbs'[i] = pcbs[i]
      BY <1>0, <1>2, <2>1, AppendProperties
    <2>3. /\ \A i \in 1..Len(pcbs') : i \in 1..Len(pcbs) \/ i = Len(pcbs) + 1
          /\ \A i \in 1..Len(pcbs) : i \in 1..Len(pcbs')
          /\ Len(pcbs') \in 1..Len(pcbs')
      BY <1>0, <2>2
    <2>4. \A i \in 1..Len(pcbs') : (i \in 1..Len(pcbs) /\ pcbs'[i] = pcbs[i]) \/ pcbs'[i].local = port
      BY <1>2, <2>2, <2>3
    <2>5. CASE r = "ok"
      <3>1. apps' = Append(apps, a) /\ a \in UdpApp /\ a.port = port /\ a.pcb = Len(pcbs')
        BY <1>0, <2>2, <2>5 DEF D!bm_middleware_add_application, UdpApp
      <3> HIDE DEF a
      <3>2. /\ apps' \in Seq(UdpApp) /\ Len(apps') = Len(apps) + 1 /\ apps'[Len(apps) + 1] = a
            /\ \A i \in 1..Len(apps) : apps'[i] = apps[i]
        BY <1>0, <3>1, AppendProperties
      <3>3. \A i \in 1..Len(apps') : i \in 1..Len(apps) \/ i = Len(apps) + 1
        BY <1>0, <3>2
      <3>4. a.pcb \in 1..Len(pcbs') /\ pcbs'[a.pcb].local = a.port
        BY <1>2, <2>2, <2>3, <3>1
      <3>5. \A i \in 1..Len(apps) :
               apps[i].pcb \in 1..Len(pcbs') /\ pcbs'[apps[i].pcb].local = apps[i].port
        BY <1>0, <2>2, <2>3
      <3> QED BY <2>2, <2>4, <3>2, <3>3, <3>4, <3>5
    <2>6. CASE r # "ok"
      <3>1. apps' = apps
        BY <2>6 DEF D!bm_middleware_add_application
      <3> QED BY <1>0, <2>2, <2>3, <2>4, <3>1
    <2> QED BY <2>5, <2>6
  <1> QED BY <1>3, <1>4

LEMMA SetupKeeps ==
  ASSUME D!DatagramsAssumption, ~Retries, SetupInv, D!Next
  PROVE  SetupInv'
  <1>0. Len(pcbs) \in Nat
    BY LenProperties DEF SetupInv
  <1>1. CASE D!bm_pubsub_init
    <2>1. PICK r : D!bm_middleware_add_application("resource", r)
      BY <1>1 DEF D!bm_pubsub_init
    <2>2. /\ started = "no" /\ started' \in {"pubsub", "failed"} /\ UNCHANGED mavlink
          /\ "resource" \in D!Port /\ "resource" # "mavlink"
      BY <1>1 DEF D!bm_pubsub_init, D!Port
    <2>3. \A i \in 1..Len(pcbs) : pcbs[i].local # "resource"
      BY <1>0, <2>2 DEF SetupInv
    <2>4. /\ pcbs' \in Seq(UdpPcb) /\ apps' \in Seq(UdpApp)
          /\ \A i \in 1..Len(apps') :
              apps'[i].pcb \in 1..Len(pcbs') /\ pcbs'[apps'[i].pcb].local = apps'[i].port
          /\ \A i \in 1..Len(pcbs') : (i \in 1..Len(pcbs) /\ pcbs'[i] = pcbs[i]) \/ pcbs'[i].local = "resource"
      BY <2>1, <2>2, <2>3, ApplicationAdded
    <2>5. mavlink' = "no" => \A i \in 1..Len(pcbs') : pcbs'[i].local # "mavlink"
      BY <2>2, <2>4 DEF SetupInv
    <2> QED BY <2>2, <2>4, <2>5 DEF SetupInv
  <1>2. CASE D!bm_middleware_init
    <2>1. /\ started' \in {"task", "failed", "queue"} /\ UNCHANGED <<pcbs, apps, mavlink>>
      BY <1>2 DEF D!bm_middleware_init, D!Outcomes
    <2> QED BY <2>1 DEF SetupInv
  <1>3. CASE D!bm_mavlink_init
    <2>1. /\ mavlink = "no" /\ mavlink' \in {"ok", "failed"} /\ started = "task" /\ UNCHANGED started
          /\ "mavlink" \in D!Port
      BY <1>3 DEF D!bm_mavlink_init, D!Port
    <2>2. CASE UNCHANGED <<pcbs, apps>>
      BY <2>1, <2>2 DEF SetupInv
    <2>3. CASE \E r : D!bm_middleware_add_application("mavlink", r)
      <3>1. PICK r : D!bm_middleware_add_application("mavlink", r)
        BY <2>3
      <3>2. \A i \in 1..Len(pcbs) : pcbs[i].local # "mavlink"
        BY <2>1 DEF SetupInv
      <3>3. /\ pcbs' \in Seq(UdpPcb) /\ apps' \in Seq(UdpApp)
            /\ \A i \in 1..Len(apps') :
                apps'[i].pcb \in 1..Len(pcbs') /\ pcbs'[apps'[i].pcb].local = apps'[i].port
        BY <2>1, <3>1, <3>2, ApplicationAdded
      <3> QED BY <2>1, <3>3 DEF SetupInv
    <2> QED BY <1>3, <2>2, <2>3 DEF D!bm_mavlink_init
  <1>4. CASE UNCHANGED <<started, pcbs, apps, mavlink, ticking>>
    BY <1>4 DEF SetupInv
  <1>5. ASSUME NEW t \in D!Thread, D!Sends(t)
        PROVE  UNCHANGED <<started, pcbs, apps, mavlink, ticking>>
    BY <1>5 DEF D!Sends, D!bm_pub_wl, D!publish_data_locally, D!CopyBack, D!bm_mavlink_transmit,
             D!bm_middleware_net_tx, D!SentBack, D!setup
  <1>6. ASSUME \/ \E to, from \in D!Port : D!udp_recv_cb(to, from)
               \/ D!Take \/ D!Given \/ D!CleanUp
               \/ D!mavlink_heartbeat_cb \/ D!mavlink_send_heartbeat
        PROVE  UNCHANGED <<started, pcbs, apps, mavlink, ticking>>
    BY <1>6 DEF D!udp_recv_cb, D!Take, D!Given, D!CleanUp, D!mavlink_heartbeat_cb,
             D!mavlink_send_heartbeat, D!setup
  <1> QED BY <1>1, <1>2, <1>3, <1>4, <1>5, <1>6 DEF D!Next

DatagramsInv == BuffersInv /\ SetupInv

LEMMA DatagramsInit ==
  ASSUME D!DatagramsAssumption, D!Init
  PROVE  DatagramsInv
  <1>1. 0 \notin UdpBuffer /\ HandlerLen \in Nat /\ NetQueueLen \in Nat
    BY DEF D!DatagramsAssumption
  <1>2. /\ net_queue = <<>> /\ task.pc = "wait" /\ task.item.buf = 0 /\ task \in UdpTask
        /\ cb_queue = 0 /\ started = "no" /\ pcbs = <<>> /\ apps = <<>> /\ mavlink = "no"
    BY DEF D!Init, D!NoItem, UdpTask
  <1>3. /\ \A t \in D!Thread : sender[t].pc = "idle" /\ sender[t].buf = 0 /\ sender[t].copy = 0
        /\ sender \in [D!Thread -> UdpSender]
    BY DEF D!Init, D!NoSender, UdpSender
  <1>4. /\ udp_ref \in [UdpBuffer -> Nat] /\ data \in [UdpBuffer -> D!Port \cup {"none"}]
        /\ \A b \in UdpBuffer : udp_ref[b] = 0
    BY DEF D!Init
  <1>5. Len(net_queue) = 0 /\ net_queue \in Seq(UdpItem) /\ Len(pcbs) = 0 /\ Len(apps) = 0
        /\ pcbs \in Seq(UdpPcb) /\ apps \in Seq(UdpApp)
    BY <1>2, EmptySeq
  <1>6. BuffersTyped
    BY <1>1, <1>2, <1>3, <1>4, <1>5 DEF BuffersTyped
  <1>7. 1..0 = {}
    OBVIOUS
  <1>8. \A b \in UdpBuffer : ~Sends(sender, b) /\ ~Copies(sender, b) /\ ~InQueue(net_queue, b)
                               /\ task.item.buf # b
    BY <1>1, <1>2, <1>3, <1>5, <1>7 DEF Sends, Copies, InQueue
  <1>9. HeldOnce(net_queue, task, sender) /\ Referred(udp_ref, net_queue, task, sender)
    BY <1>4, <1>8 DEF HeldOnce, Referred, One
  <1>10. QueueApart(net_queue) /\ SendersApart(sender) /\ TaskAt(task)
         /\ \A t \in D!Thread : SenderAt(sender[t])
    BY <1>2, <1>3, <1>5, <1>7 DEF QueueApart, SendersApart, TaskAt, SenderAt
  <1>11. QueueRight(data, net_queue) /\ TaskRight(data, task) /\ SendersRight(data, sender)
    BY <1>2, <1>3, <1>5, <1>7 DEF QueueRight, TaskRight, SendersRight
  <1>12. SetupInv
    BY <1>2, <1>5, <1>7 DEF SetupInv
  <1> QED BY <1>6, <1>9, <1>10, <1>11, <1>12 DEF DatagramsInv, BuffersInv

LEMMA DatagramsStep ==
  ASSUME D!DatagramsAssumption, SamePort, ~Retries, DatagramsInv, [D!Next]_(D!vars)
  PROVE  DatagramsInv'
  <1>0. BuffersInv /\ SetupInv /\ cb_queue \in 0..HandlerLen
    BY DEF DatagramsInv, BuffersInv, BuffersTyped
  <1>1. CASE D!Next
    <2>1. SetupInv'
      BY <1>0, <1>1, SetupKeeps
    <2>2. CASE D!bm_pubsub_init \/ D!bm_middleware_init \/ D!bm_mavlink_init
      <3>1. UNCHANGED <<udp_ref, data, net_queue, task, sender, cb_queue>>
        BY <2>2 DEF D!bm_pubsub_init, D!bm_middleware_init, D!bm_mavlink_init, D!buffers
      <3>2. BuffersInv'
        BY <1>0, <3>1, BuffersAlone
      <3> QED BY <2>1, <3>2 DEF DatagramsInv
    <2>3. CASE \E to, from \in D!Port : D!udp_recv_cb(to, from)
      BY <1>0, <2>1, <2>3, UdpReceives DEF DatagramsInv
    <2>4. CASE D!Take \/ D!Given \/ D!CleanUp
      BY <1>0, <2>1, <2>4, TakeKeeps, GivenKeeps, CleanUpKeeps DEF DatagramsInv
    <2>5. CASE \E t \in D!Thread : D!Sends(t)
      BY <1>0, <2>1, <2>5, SendsKeeps DEF DatagramsInv
    <2>6. CASE D!mavlink_heartbeat_cb \/ D!mavlink_send_heartbeat
      BY <1>0, <2>1, <2>6, HeartbeatKeeps DEF DatagramsInv
    <2> QED BY <1>1, <2>2, <2>3, <2>4, <2>5, <2>6 DEF D!Next
  <1>2. CASE UNCHANGED D!vars
    <2>1. /\ UNCHANGED <<udp_ref, data, net_queue, task, sender, cb_queue>>
          /\ UNCHANGED <<started, pcbs, apps, mavlink, ticking>>
      BY <1>2 DEF D!vars, D!setup, D!buffers
    <2>2. BuffersInv'
      BY <1>0, <2>1, BuffersAlone
    <2>3. SetupInv'
      BY <1>0, <2>1 DEF SetupInv
    <2> QED BY <2>2, <2>3 DEF DatagramsInv
  <1> QED BY <1>1, <1>2

\* Datagrams' own names for the size of a set.
LEMMA UdpCount ==
  ASSUME NEW S
  PROVE  D!Cardinality(S) = Cardinality(S) /\ D!IsFiniteSet(S) = IsFiniteSet(S)
  BY DEF D!Cardinality, Cardinality, D!IsFiniteSet, IsFiniteSet

\* A set of one element at most has as many as it has any.
LEMMA CountOfOne ==
  ASSUME NEW S, \A x, y \in S : x = y
  PROVE  D!Cardinality(S) = One(S # {})
  <1>1. CASE S = {}
    BY <1>1, FS_EmptySet, UdpCount DEF One
  <1>2. CASE S # {}
    <2>1. PICK x : S = {x}
      BY <1>2
    <2>2. Cardinality({x}) = 1
      BY FS_Singleton
    <2> QED BY <1>2, <2>1, <2>2, UdpCount DEF One
  <1> QED BY <1>1, <1>2

\* Holders counts what Referred says.
LEMMA RefsCounted ==
  ASSUME D!DatagramsAssumption, BuffersInv
  PROVE  D!RefsMatch
  <1>0. USE BuffersParts
  <1> SUFFICES ASSUME NEW b \in UdpBuffer
               PROVE  udp_ref[b] = D!Holders(b)
    BY DEF D!RefsMatch
  <1> DEFINE S == {t \in D!Thread : sender[t].buf = b}
             C == {t \in D!Thread : sender[t].copy = b}
             Q == {i \in DOMAIN net_queue : net_queue[i].buf = b}
  <1>1. DOMAIN net_queue = 1..Len(net_queue)
    BY LenProperties
  <1>2. /\ \A x, y \in S : x = y
        /\ \A x, y \in C : x = y
    BY DEF SendersApart
  <1>3. \A x, y \in Q : x = y
    BY <1>1 DEF QueueApart
  <1>4. (S # {}) = Sends(sender, b) /\ (C # {}) = Copies(sender, b)
    BY DEF Sends, Copies
  <1>5. (Q # {}) = InQueue(net_queue, b)
    BY <1>1 DEF InQueue
  <1>6. D!Holders(b) = D!Cardinality(S) + D!Cardinality(C) + D!Cardinality(Q)
                         + (IF task.item.buf = b THEN 1 ELSE 0)
    BY DEF D!Holders
  <1>7. D!Cardinality(S) = One(S # {}) /\ D!Cardinality(C) = One(C # {})
        /\ D!Cardinality(Q) = One(Q # {})
    BY <1>2, <1>3, CountOfOne
  <1> HIDE DEF S, C, Q
  <1> QED BY <1>4, <1>5, <1>6, <1>7 DEF Referred, One

\* The bits of mavlink_routing_cb are those of the ports that are up.
LEMMA RoutesRight ==
  ASSUME D!DatagramsAssumption
  PROVE  D!RoutedOn
  <1> DEFINE N == Cardinality(L2Port)
  <1>1. N \in Nat /\ L2Port = 1..N /\ D!Cardinality(L2Port) = N
    <2>1. IsFiniteSet(L2Port) /\ L2Port = 1..D!Cardinality(L2Port)
      BY UdpCount DEF D!DatagramsAssumption
    <2>2. N \in Nat
      BY <2>1, FS_CardinalityType
    <2> QED BY <2>1, <2>2, UdpCount
  <1> HIDE DEF N
  <1>2. ASSUME NEW ingress \in L2Port, NEW up \in SUBSET L2Port
        PROVE  {i \in 0..(N - 1) : i + 1 \in up /\ i # ingress - 1} = {p - 1 : p \in up \ {ingress}}
    <2>1. ingress \in Nat /\ \A p \in up : p \in Nat /\ p - 1 \in 0..(N - 1) /\ (p - 1) + 1 = p
      BY <1>1
    <2>2. \A i \in 0..(N - 1) : (i + 1) - 1 = i /\ i \in Nat
      BY <1>1
    <2>3. \A i \in 0..(N - 1) : i + 1 \in up /\ i # ingress - 1 => i + 1 \in up \ {ingress}
      BY <2>1, <2>2
    <2>4. \A p \in up \ {ingress} : p - 1 # ingress - 1
      BY <2>1
    <2> QED BY <2>1, <2>2, <2>3, <2>4
  <1> QED BY <1>1, <1>2 DEF D!RoutedOn, D!handle_middleware_routing, D!mavlink_routing_cb

LEMMA DatagramsRight ==
  ASSUME D!DatagramsAssumption, DatagramsInv
  PROVE  DatagramsAreRight
  <1>0. /\ BuffersInv /\ SetupInv /\ BuffersTyped /\ task \in UdpTask
        /\ sender \in [D!Thread -> UdpSender] /\ HeldOnce(net_queue, task, sender)
        /\ Referred(udp_ref, net_queue, task, sender) /\ TaskRight(data, task)
        /\ \A t \in D!Thread : sender[t].pc # "idle" => sender[t].buf \in UdpBuffer
    BY BuffersParts DEF DatagramsInv
  <1>1. D!TypeOK
    <2>1. apps \in Seq(UdpApp) /\ pcbs \in Seq(UdpPcb)
      BY <1>0 DEF SetupInv
    <2>2. DOMAIN apps = 1..Len(apps) /\ DOMAIN pcbs = 1..Len(pcbs)
      BY <2>1, LenProperties
    <2>3. \A i \in DOMAIN apps : apps[i].pcb \in DOMAIN pcbs
      BY <1>0, <2>2 DEF SetupInv
    <2>4. started \in {"no", "pubsub", "queue", "task", "failed"}
      BY <1>0 DEF SetupInv
    <2>5. task.pc \in {"wait", "found", "clean"} /\ task.item.buf \in UdpBuffer \cup {0}
      BY <1>0 DEF UdpTask
    <2>6. \A t \in D!Thread : sender[t].pc \in {"idle", "local", "unlocal", "send", "clean"}
      BY <1>0 DEF UdpSender
    <2> QED BY <1>0, <2>3, <2>4, <2>5, <2>6 DEF D!TypeOK, BuffersTyped
  <1>2. D!SentAlone
    <2>1. ASSUME NEW t \in D!Thread, sender[t].pc = "send"
          PROVE  udp_ref[sender[t].buf] = 1
      <3> DEFINE b == sender[t].buf
      <3>1. b \in UdpBuffer /\ Sends(sender, b)
        BY <1>0, <2>1 DEF Sends
      <3>2. ~Copies(sender, b) /\ ~InQueue(net_queue, b) /\ task.item.buf # b
        BY <1>0, <3>1 DEF HeldOnce
      <3> HIDE DEF b
      <3>3. udp_ref[b] = 1
        BY <1>0, <3>1, <3>2 DEF Referred, One
      <3> QED BY <3>3 DEF b
    <2> QED BY <2>1 DEF D!SentAlone
  <1>3. D!GivenToAddressed
    BY <1>0 DEF D!GivenToAddressed, TaskRight
  <1>4. D!AddedIsBound
    <2>1. apps \in Seq(UdpApp) /\ DOMAIN apps = 1..Len(apps) /\ Len(apps) \in Nat
      BY <1>0, LenProperties DEF SetupInv
    <2>2. ASSUME NEW port \in D!Port, D!Added(port)
          PROVE  pcbs[D!AppOf(port).pcb].local = port
      <3> DEFINE I == {i \in DOMAIN apps : apps[i].port = port}
      <3>1. I \subseteq Nat /\ I # {}
        BY <2>1, <2>2 DEF D!Added
      <3>2. D!Least(I) \in I
        BY <3>1, LeastNumber DEF D!Least
      <3>3. D!AppOf(port) = apps[D!Least(I)]
        BY DEF D!AppOf
      <3> QED BY <1>0, <2>1, <3>2, <3>3 DEF SetupInv
    <2> QED BY <2>2 DEF D!AddedIsBound
  <1> QED BY <1>0, <1>1, <1>2, <1>3, <1>4, RefsCounted, RoutesRight DEF DatagramsAreRight

\* The datagrams of the middleware (middleware.c, bm_lwip.c, bm_linux.c, pubsub.c,
\* bm_mavlink.c), over either stack and for any number of buffers, of places in the
\* queues and of ports, whatever fails: no reference is lost or given back twice, a
\* buffer goes to the stack with one, a datagram goes to the application it was sent
\* to (nodes send from the port they send to), an application is bound to its port
\* (bm_mavlink_init is called once) and MAVLink is routed by the ports that are up.
THEOREM DatagramsSound ==
  ASSUME D!DatagramsAssumption, SamePort, ~Retries
  PROVE  D!Spec => []DatagramsAreRight
  <1>1. D!Init => DatagramsInv
    BY DatagramsInit
  <1>2. DatagramsInv /\ [D!Next]_(D!vars) => DatagramsInv'
    BY DatagramsStep
  <1>3. DatagramsInv => DatagramsAreRight
    BY DatagramsRight
  <1> QED BY <1>1, <1>2, <1>3, PTL DEF D!Spec

=============================================================================
