----------------------------- MODULE AdinFilter -----------------------------
(***************************************************************************)
(* The address filter table of the ADIN2111 (MAC_AddAddressFilter and       *)
(* MAC_ClearAddressFilter in adi_mac.c): NumEntries rules, of which the     *)
(* first MaskMax can have an address mask, in registers that stand next to  *)
(* one another, and the bits that say which entries are used.               *)
(*                                                                          *)
(* Registers are numbered from MAC_ADDR_FILT_UPR_0 on: two for each rule,    *)
(* two for each mask, and from TsBase on those of the timestamp unit.        *)
(***************************************************************************)
EXTENDS Naturals, Sequences

CONSTANTS
    NumEntries,     \* ADI_MAC_ADDR_NUM_ENTRIES
    MaskMax,        \* ADI_MAC_ADDR_MASK_MAX
    TsBase,         \* where the timestamp registers begin
    Rule,           \* MAC addresses with their rules
    Mask,           \* the masks asked for; "ones" stands for no mask
    Careful,        \* nobody asks for a masked rule when no entry for one is free
    MayFail         \* a register write may fail

AdinFilterAssumption ==
    /\ {NumEntries, MaskMax} \subseteq Nat \ {0} /\ MaskMax < NumEntries
    /\ TsBase \in Nat /\ TsBase >= 2 * (NumEntries + MaskMax)
    /\ "none" \notin Rule \cup Mask /\ "ones" \notin Mask
    /\ {Careful, MayFail} \subseteq BOOLEAN

Entry == 0..(NumEntries - 1)
MskBase == 2 * NumEntries
Top == MskBase + 2 * NumEntries + 1

VARIABLES
    reg,        \* the registers
    active,     \* addrFilterActive, as a set of entries
    asked,      \* what was asked for and accepted, by entry
    result      \* what the last call returned

vars == <<reg, active, asked, result>>

Unset == "none"
NoRule == [rule |-> Unset, mask |-> Unset]

TypeOK ==
    /\ reg \in [0..Top -> Rule \cup Mask \cup {"ones", Unset}]
    /\ active \subseteq Entry
    /\ asked \in [Entry -> [rule : Rule \cup {Unset}, mask : Mask \cup {"ones", Unset}]]
    /\ result \in {"success", "full", "error"}

Init ==
    /\ reg = [a \in 0..Top |-> Unset]
    /\ active = {}
    /\ asked = [i \in Entry |-> NoRule]
    /\ result = "success"

(***************************************************************************)
(* Adding and clearing.                                                    *)
(***************************************************************************)

\* The entries a rule may take.
MaxIndex(mask) == IF mask = "ones" THEN NumEntries ELSE MaskMax
FreeEntries(mask) == {i \in 0..(MaxIndex(mask) - 1) : i \notin active}

\* addrIndex: the first free entry, and NumEntries, whatever the number of
\* entries looked at, when there is none.
AddrIndex(mask) ==
    IF FreeEntries(mask) = {} THEN NumEntries
    ELSE CHOOSE i \in FreeEntries(mask) : \A j \in FreeEntries(mask) : i <= j

\* The table is full if the index is the one the search ended at.
TableFull(mask) == AddrIndex(mask) = MaxIndex(mask)

\* The registers written for a rule, in order.
Writes(i, rule, mask) ==
    <<<<2 * i, rule>>, <<2 * i + 1, rule>>,
      <<MskBase + 2 * i, mask>>, <<MskBase + 2 * i + 1, mask>>>>

\* The registers after the first n of the writes.
After(writes, n) ==
    [a \in 0..Top |->
        IF \E k \in 1..n : writes[k][1] = a
        THEN writes[CHOOSE k \in 1..n : writes[k][1] = a][2] ELSE reg[a]]

\* A bit beyond the 16 of addrFilterActive is lost.
Added(rule, mask) ==
    LET i == AddrIndex(mask)
    IN /\ reg' = After(Writes(i, rule, mask), 4)
       /\ active' = (active \cup {i}) \cap Entry
       /\ asked' = IF i \in Entry THEN [asked EXCEPT ![i] = [rule |-> rule, mask |-> mask]]
                   ELSE asked
       /\ result' = "success"

\* A write fails after n were done: the entry is not marked as used.
AddFails(rule, mask) ==
    /\ MayFail
    /\ \E n \in 0..3 : reg' = After(Writes(AddrIndex(mask), rule, mask), n)
    /\ result' = "error"
    /\ UNCHANGED <<active, asked>>

MAC_AddAddressFilter(rule, mask) ==
    /\ Careful /\ mask # "ones" => FreeEntries(mask) # {}
    /\ \/ /\ TableFull(mask)
          /\ result' = "full" /\ UNCHANGED <<reg, active, asked>>
       \/ ~TableFull(mask) /\ (Added(rule, mask) \/ AddFails(rule, mask))

MAC_ClearAddressFilter(i) ==
    \/ /\ reg' = [reg EXCEPT ![2 * i] = Unset]
       /\ active' = active \ {i}
       /\ asked' = [asked EXCEPT ![i] = NoRule]
       /\ result' = "success"
    \/ /\ MayFail
       /\ result' = "error"
       /\ UNCHANGED <<reg, active, asked>>

adin2111_AddAddressFilter ==
    \E rule \in Rule, mask \in Mask \cup {"ones"} : MAC_AddAddressFilter(rule, mask)
adin2111_ClearAddressFilter == \E i \in Entry : MAC_ClearAddressFilter(i)

Next == adin2111_AddAddressFilter \/ adin2111_ClearAddressFilter

Spec == Init /\ [][Next]_vars

(***************************************************************************)
(* Properties.                                                             *)
(***************************************************************************)

\* The hardware filters what was asked for: the registers of an entry in use
\* hold its rule, and its mask where the entry has one, and an entry that is
\* not in use has no rule in force.
FiltersAsked ==
    \A i \in Entry :
        IF i \in active
        THEN /\ reg[2 * i] = asked[i].rule /\ reg[2 * i + 1] = asked[i].rule
             /\ i < MaskMax => /\ reg[MskBase + 2 * i] = asked[i].mask
                               /\ reg[MskBase + 2 * i + 1] = asked[i].mask
        ELSE reg[2 * i] = Unset

\* Nothing but the registers of the address filter is written.
OthersUntouched == \A a \in TsBase..Top : reg[a] = Unset

\* "If no available entry is found, it returns ADI_ETH_ADDRESS_FILTER_TABLE_FULL"
\* (adin2111_AddAddressFilter).
FullIsSaid ==
    [][\A rule \in Rule, mask \in Mask \cup {"ones"} :
        FreeEntries(mask) = {} /\ MAC_AddAddressFilter(rule, mask) => result' = "full"]_vars
=============================================================================
