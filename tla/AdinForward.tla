----------------------------- MODULE AdinForward -----------------------------
(***************************************************************************)
(* The dynamic forwarding table of the ADIN2111 driver (adin2111.c): which  *)
(* of the two ports a MAC address was heard on, learned from the frames     *)
(* received, aged by adin2111_AgeTick, looked up for a frame submitted with *)
(* ADIN2111_TX_PORT_AUTO.                                                   *)
(***************************************************************************)
EXTENDS Naturals, FiniteSets

CONSTANTS
    Address,        \* MAC addresses
    Size,           \* ADIN2111_DYNAMIC_TABLE_SIZE
    MaxAge          \* ADIN2111_DYNAMIC_TABLE_MAX_AGE

AdinForwardAssumption ==
    IsFiniteSet(Address) /\ {Size, MaxAge} \subseteq Nat \ {0}

Port == {1, 2}
Index == 0..(Size - 1)

VARIABLES
    table,          \* dynamicTable
    replaceLoc,     \* dynamicTableReplaceLoc
    lastPort,       \* the port each address was last heard on (0: never)
    silent          \* the ticks since

vars == <<table, replaceLoc, lastPort, silent>>

TypeOK ==
    /\ table \in [Index -> [mac : Address, port : Port, age : 0..MaxAge, refresh : BOOLEAN]]
    /\ replaceLoc \in Index
    /\ lastPort \in [Address -> Port \cup {0}]
    /\ silent \in [Address -> 0..(MaxAge + 2)]

\* adin2111_Init clears the table; what its entries hold besides is never read.
Init ==
    /\ \E a \in Address :
        table = [i \in Index |-> [mac |-> a, port |-> 1, age |-> 0, refresh |-> FALSE]]
    /\ replaceLoc = 0
    /\ lastPort = [a \in Address |-> 0]
    /\ silent = [a \in Address |-> 0]

(***************************************************************************)
(* The table.                                                              *)
(***************************************************************************)

Live == {i \in Index : table[i].age # 0}
Least(S) == CHOOSE i \in S : \A j \in S : i <= j

\* The live entries of an address, and the port dynamicTableLookup returns: the
\* first one's, or 0 for ADIN2111_TX_PORT_FLOOD.
Entries(mac) == {i \in Live : table[i].mac = mac}
dynamicTableLookup(mac) ==
    IF Entries(mac) = {} THEN 0 ELSE table[Least(Entries(mac))].port

Known(port, mac) ==
    /\ table' = [table EXCEPT ![Least(Entries(mac))].port = port,
                              ![Least(Entries(mac))].refresh = TRUE]
    /\ UNCHANGED replaceLoc

Entry(port, mac) == [mac |-> mac, port |-> port, age |-> MaxAge, refresh |-> FALSE]

\* A new address takes the first entry that is free, or the next one in turn.
New(port, mac) ==
    IF Live # Index
    THEN /\ table' = [table EXCEPT ![Least(Index \ Live)] = Entry(port, mac)]
         /\ UNCHANGED replaceLoc
    ELSE /\ table' = [table EXCEPT ![replaceLoc] = Entry(port, mac)]
         /\ replaceLoc' = (replaceLoc + 1) % Size

\* Mutant: the search ends at the first entry that is free.
LearnAtEmpty(port, mac) ==
    LET known == {i \in Entries(mac) : \A j \in Index : j < i => j \in Live}
    IN IF known # {} THEN Known(port, mac) ELSE New(port, mac)

dynamicTableLearn(port, mac) ==
    IF Entries(mac) # {} THEN Known(port, mac) ELSE New(port, mac)

\* A frame from an address is received on a port.
cbRx(port, mac) ==
    /\ dynamicTableLearn(port, mac)
    /\ lastPort' = [lastPort EXCEPT ![mac] = port]
    /\ silent' = [silent EXCEPT ![mac] = 0]

Aged(e) ==
    IF e.refresh THEN [e EXCEPT !.age = MaxAge, !.refresh = FALSE]
    ELSE IF e.age > 0 THEN [e EXCEPT !.age = @ - 1] ELSE e

adin2111_AgeTick ==
    /\ table' = [i \in Index |-> Aged(table[i])]
    /\ silent' = [a \in Address |-> IF silent[a] < MaxAge + 2 THEN silent[a] + 1 ELSE silent[a]]
    /\ UNCHANGED <<replaceLoc, lastPort>>

adin2111_ClearDynamicTable ==
    /\ table' = [i \in Index |-> [table[i] EXCEPT !.age = 0, !.refresh = FALSE]]
    /\ UNCHANGED <<replaceLoc, lastPort, silent>>

Next ==
    \/ \E port \in Port, mac \in Address : cbRx(port, mac)
    \/ adin2111_AgeTick
    \/ adin2111_ClearDynamicTable

Spec == Init /\ [][Next]_vars

(***************************************************************************)
(* Properties.                                                             *)
(***************************************************************************)

\* An address has one live entry at most: learning goes past the free entries
\* before it concludes that an address is new.
OneEntryEach == \A a \in Address : Cardinality(Entries(a)) <= 1

\* A frame is sent to the port its destination was last heard on, or to both.
SentWhereHeard == \A a \in Address : dynamicTableLookup(a) \in {0, lastPort[a]}

\* An address that is silent for the table's age and one tick (the mark set
\* while it was heard lasts to the next tick) is forgotten.
SilentIsForgotten == \A a \in Address : silent[a] > MaxAge => dynamicTableLookup(a) = 0
=============================================================================
