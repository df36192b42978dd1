--------------------------- MODULE Configuration ---------------------------
(***************************************************************************)
(* The configuration store of bcmp/configuration.c: partitions of keys and *)
(* CBOR-encoded values in RAM, saved to non-volatile memory under a CRC    *)
(* and loaded from there at every start.  The file has no lock: the BCMP  *)
(* thread, which serves the configuration messages, and the application    *)
(* both call it.                                                           *)
(***************************************************************************)
EXTENDS Naturals, Sequences, SequencesExt, Functions

CONSTANTS
    Partition, Key, Value,
    CborType,        \* CborType[v]: the type of the CBOR encoding of v
    LongKey,         \* keys of MAX_KEY_LEN_BYTES, the longest that are taken
    TooBig,          \* values whose encoding does not fit into a slot
    MAX_NUM_KV,
    Concurrent,      \* may another thread make changes while a save is under way?
    WriteTears       \* may a write that fails leave the memory half written?

Type == {"UINT32", "INT32", "FLOAT", "STR", "BYTES", "ARRAY"}

ConfigurationAssumption ==
    /\ CborType \in [Value -> Type] /\ "broken" \notin Value /\ MAX_NUM_KV \in Nat
    /\ LongKey \subseteq Key /\ TooBig \subseteq Value
    /\ Concurrent \in BOOLEAN /\ WriteTears \in BOOLEAN

VARIABLES
    slots,           \* slots[p]: the first numKeys keys and values of the RAM buffer
    needs_commit,
    nvm,             \* nvm[p]: what is in memory, Intact slots or Torn
    saving,          \* the save_config under way, or NoSave
    unread           \* ghost: partitions whose memory could not be read at the last
                     \* start, and that have not been saved since

vars == <<slots, needs_commit, nvm, saving, unread>>

Torn      == [good |-> FALSE]   \* memory whose CRC does not fit its contents
Intact(s) == [good |-> TRUE, slots |-> s]
Broken    == "broken"           \* a value buffer no parser accepts
NoSave    == [stage |-> "none"]

Slot == [key : Key, type : Type, val : Value \cup {Broken}]

\* find_key_idx.  snprintf has cut a long key to make room for its terminator,
\* so that comparing all of it finds nothing.
Places(p, k) == {i \in DOMAIN slots[p] : slots[p][i].key = k /\ k \notin LongKey}
Stored(p, k) == Places(p, k) # {}
KeyIdx(p, k) == IF Stored(p, k) THEN CHOOSE i \in Places(p, k) : \A j \in Places(p, k) : i <= j
                                ELSE Len(slots[p]) + 1

\* What config_init makes of the memory of a partition.
Loaded(m) == IF m.good THEN m.slots ELSE <<>>

Init ==
    /\ nvm \in [Partition -> {Torn}]
    /\ slots = [p \in Partition |-> Loaded(nvm[p])]
    /\ needs_commit = [p \in Partition |-> FALSE]
    /\ saving = NoSave /\ unread = {}

\* Nothing but luck keeps another caller out of a partition being saved.
Free(p) == Concurrent \/ saving = NoSave

-----------------------------------------------------------------------------
(* Setting and reading *)

\* The typed setters: the type they note and the encodings they produce.
\* cbor_encode_int encodes what is not negative as an unsigned integer.
set_config_uint   == [type |-> "UINT32", takes |-> {"UINT32"}]
set_config_int    == [type |-> "INT32",  takes |-> {"UINT32", "INT32"}]
set_config_float  == [type |-> "FLOAT",  takes |-> {"FLOAT"}]
set_config_string == [type |-> "STR",    takes |-> {"STR"}]
set_config_buffer == [type |-> "BYTES",  takes |-> {"BYTES"}]

Setters == {set_config_uint, set_config_int, set_config_float, set_config_string,
            set_config_buffer}

\* The getters, with the encodings they accept.
get_config_uint   == [type |-> "UINT32", takes |-> {"UINT32"}]
get_config_int    == [type |-> "INT32",  takes |-> {"UINT32", "INT32"}]
get_config_float  == [type |-> "FLOAT",  takes |-> {"FLOAT"}]
get_config_string == [type |-> "STR",    takes |-> {"STR"}]
get_config_buffer == [type |-> "BYTES",  takes |-> {"BYTES"}]
get_config_cbor   == [type |-> "ARRAY",  takes |-> Type]

Getters == {get_config_uint, get_config_int, get_config_float, get_config_string,
            get_config_buffer, get_config_cbor}

\* Does the getter g read the value of k?  (prepare_cbor_parser and the check
\* of the type)
Reads(g, p, k) ==
    /\ Stored(p, k)
    /\ LET v == slots[p][KeyIdx(p, k)].val IN v # Broken /\ CborType[v] \in g.takes

\* The slot of k holds v; a new key is added behind the others.
Write(p, k, slot) ==
    /\ slots' = [slots EXCEPT ![p] =
                    IF Stored(p, k) THEN [@ EXCEPT ![KeyIdx(p, k)] = slot] ELSE Append(@, slot)]
    /\ needs_commit' = [needs_commit EXCEPT ![p] = TRUE]

\* A typed setter.  A full partition takes nothing, not even a new value for a
\* key it has.  The encoder writes the head of an item before it finds that
\* the item does not fit: the old value is lost then, and false returned.
SetTyped(f, p, k, v) ==
    /\ Free(p) /\ CborType[v] \in f.takes
    /\ Len(slots[p]) < MAX_NUM_KV
    /\ IF v \in TooBig
       THEN /\ Stored(p, k)
            /\ slots' = [slots EXCEPT ![p][KeyIdx(p, k)].val = Broken]
            /\ UNCHANGED needs_commit
       ELSE Write(p, k, [key |-> k, type |-> f.type, val |-> v])
    /\ UNCHANGED <<nvm, saving, unread>>

set_config_cbor(p, k, v) ==
    /\ Free(p) /\ v \notin TooBig
    /\ Stored(p, k) \/ Len(slots[p]) < MAX_NUM_KV
    /\ Write(p, k, [key |-> k, type |-> CborType[v], val |-> v])
    /\ UNCHANGED <<nvm, saving, unread>>

\* Mutation of remove_key: the names move up, the types and values stay.
RemoveKeyOnly(p, k) ==
    LET i == KeyIdx(p, k)  s == slots[p]
    IN  /\ Free(p) /\ Stored(p, k)
        /\ slots' = [slots EXCEPT ![p] = [j \in 1..(Len(s) - 1) |->
               IF j < i THEN s[j] ELSE [s[j] EXCEPT !.key = s[j + 1].key]]]
        /\ needs_commit' = [needs_commit EXCEPT ![p] = TRUE]
        /\ UNCHANGED <<nvm, saving, unread>>

remove_key(p, k) ==
    /\ Free(p) /\ Stored(p, k)
    /\ slots' = [slots EXCEPT ![p] = RemoveAt(@, KeyIdx(p, k))]
    /\ needs_commit' = [needs_commit EXCEPT ![p] = TRUE]
    /\ UNCHANGED <<nvm, saving, unread>>

clear_partition(p) ==
    /\ Free(p)
    /\ slots' = [slots EXCEPT ![p] = <<>>]
    /\ needs_commit' = [needs_commit EXCEPT ![p] = TRUE]
    /\ UNCHANGED <<nvm, saving, unread>>

-----------------------------------------------------------------------------
(* Saving and loading *)

\* save_config computes the CRC of the buffer, ...
SaveStart(p, restart) ==
    /\ saving = NoSave
    /\ saving' = [part |-> p, stage |-> "crc", crc |-> slots[p], restart |-> restart]
    /\ UNCHANGED <<slots, needs_commit, nvm, unread>>

\* What arrives in memory: the buffer as it is when it is written, which the
\* CRC fits if nobody has changed it since.
Image == IF saving.crc = slots[saving.part] THEN Intact(saving.crc) ELSE Torn

\* ... writes the buffer, ...
SaveWrite ==
    /\ saving # NoSave /\ saving.stage = "crc"
    /\ nvm' = [nvm EXCEPT ![saving.part] = Image]
    /\ saving' = [saving EXCEPT !.stage = "written"]
    /\ UNCHANGED <<slots, needs_commit, unread>>

\* ... which may fail ...
SaveFails ==
    /\ saving # NoSave /\ saving.stage = "crc"
    /\ nvm' \in {nvm} \cup IF WriteTears THEN {[nvm EXCEPT ![saving.part] = Torn]} ELSE {}
    /\ saving' = NoSave
    /\ UNCHANGED <<slots, needs_commit, unread>>

\* Every partition is loaded from memory: config_init.  One whose memory
\* cannot be read (bm_config_read) is empty, as one whose CRC is wrong, though
\* the memory may be whole.
config_init(m) ==
    \E failed \in SUBSET Partition :
        /\ slots' = [p \in Partition |-> IF p \in failed THEN <<>> ELSE Loaded(m[p])]
        /\ needs_commit' = [p \in Partition |-> FALSE]
        /\ saving' = NoSave /\ unread' = failed

\* Mutation of SaveEnd: the flag is cleared before the write.
SaveEndEarly ==
    /\ saving # NoSave
    /\ needs_commit' = [needs_commit EXCEPT ![saving.part] = FALSE]
    /\ saving' = IF saving.stage = "written" THEN NoSave ELSE saving
    /\ UNCHANGED <<slots, nvm, unread>>

\* ... and resets the node if it was asked to, or notes that all is saved.
SaveEnd ==
    /\ saving # NoSave /\ saving.stage = "written"
    /\ IF saving.restart
       THEN config_init(nvm)
       ELSE /\ needs_commit' = [needs_commit EXCEPT ![saving.part] = FALSE]
            /\ saving' = NoSave /\ unread' = unread \ {saving.part}
            /\ UNCHANGED slots
    /\ UNCHANGED nvm

\* The power goes at any time.  A write under way has not begun, is done, or
\* leaves what fits no CRC.
PowerLoss ==
    /\ nvm' \in IF saving # NoSave /\ saving.stage = "crc"
                THEN {[nvm EXCEPT ![saving.part] = m] : m \in {nvm[saving.part], Image, Torn}}
                ELSE {nvm}
    /\ config_init(nvm')

Next ==
    \/ \E p \in Partition, k \in Key :
         \/ \E v \in Value : (\E f \in Setters : SetTyped(f, p, k, v)) \/ set_config_cbor(p, k, v)
         \/ remove_key(p, k)
    \/ \E p \in Partition : clear_partition(p) \/ \E r \in BOOLEAN : SaveStart(p, r)
    \/ SaveWrite \/ SaveFails \/ SaveEnd
    \/ PowerLoss

Spec == Init /\ [][Next]_vars

-----------------------------------------------------------------------------
(* Properties *)

TypeOK ==
    /\ \A p \in Partition : /\ slots[p] \in Seq(Slot) /\ Len(slots[p]) <= MAX_NUM_KV
                            /\ Loaded(nvm[p]) \in Seq(Slot)
    /\ needs_commit \in [Partition -> BOOLEAN]
    /\ saving = NoSave \/ saving.part \in Partition
    /\ unread \subseteq Partition

\* What the memory of p should hold while there is nothing to commit: what p
\* holds.  A partition that could not be read is empty until it is set.
InStep(p) == IF p \in unread THEN slots[p] = <<>> ELSE Loaded(nvm[p]) = slots[p]

\* What needs_commit tells the operator: when it is false, a restart brings
\* back what the partition holds now, or, if the memory could not be read at
\* this start, the partition is empty.
NeedsCommitTells ==
    \A p \in Partition :
        (saving = NoSave \/ saving.part # p) /\ ~needs_commit[p] => InStep(p)

\* The type that is noted for a key (and reported by get_stored_keys) is the
\* one its value can be read as.
NotedTypeReads ==
    \A p \in Partition : \A i \in DOMAIN slots[p] :
        \E g \in Getters : g.type = slots[p][i].type /\ Reads(g, p, slots[p][i].key)

\* The cached configuration: while needs_commit is false a restart brings
\* back what the partition holds now, unless its memory could not be read at
\* this start and it holds nothing; and the type noted for a key is one its
\* value can be read as.
StoreIsSound == TypeOK /\ NeedsCommitTells /\ NotedTypeReads

\* What makes that, and the refinement below, inductive.  A key that can be
\* found is in one slot only, and its value is of a type some getter for the
\* noted type takes; so it is in the memory and in the buffer being saved,
\* which nobody changes meanwhile.
KeysOnce(s) == \A i, j \in DOMAIN s :
                  s[i].key = s[j].key /\ s[i].key \notin LongKey => i = j
Readable(s) == \A i \in DOMAIN s :
                  /\ s[i].val \in Value
                  /\ \E g \in Getters : g.type = s[i].type /\ CborType[s[i].val] \in g.takes
Sound(s) == s \in Seq(Slot) /\ Len(s) <= MAX_NUM_KV /\ KeysOnce(s) /\ Readable(s)

Memory == {Torn} \cup [good : {TRUE}, slots : Seq(Slot)]
Save == [part : Partition, stage : {"crc", "written"}, crc : Seq(Slot), restart : BOOLEAN]

StoreInv ==
    /\ slots \in [Partition -> Seq(Slot)] /\ nvm \in [Partition -> Memory]
    /\ needs_commit \in [Partition -> BOOLEAN]
    /\ \A p \in Partition : Sound(slots[p]) /\ Sound(Loaded(nvm[p]))
    /\ saving \in Save \cup {NoSave}
    /\ saving # NoSave => saving.crc = slots[saving.part]
    /\ unread \subseteq Partition
    /\ \A p \in Partition : ~needs_commit[p] => InStep(p)
    /\ saving # NoSave /\ saving.stage = "written" =>
          Loaded(nvm[saving.part]) = slots[saving.part]

\* The store as its users see it.
AsMap(s) == [k \in {s[i].key : i \in DOMAIN s} |->
                s[CHOOSE i \in DOMAIN s : s[i].key = k /\ \A j \in DOMAIN s : s[j].key = k => i <= j].val]

Abstract == INSTANCE ConfigStore WITH
    work  <- [p \in Partition |-> AsMap(slots[p])],
    saved <- [p \in Partition |-> AsMap(Loaded(nvm[p]))]

\* The slots, the CRC and the memory together are a store of the kind
\* ConfigStore describes: also when the power goes in the middle of a save.
IsAStore == Abstract!Spec

=============================================================================
