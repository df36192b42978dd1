----------------------- MODULE ConfigurationProofs -----------------------
(***************************************************************************)
(* Proofs about the configuration store: what it promises while the calls  *)
(* of one thread do not interrupt a save of another, a failed write leaves *)
(* the memory as it was, and every value fits into its slot.               *)
(***************************************************************************)
EXTENDS Configuration, SequenceTheorems, WellFoundedInduction, TLAPS

-----------------------------------------------------------------------------
(* Sequences of slots *)

LEMMA LeastExists ==
  ASSUME NEW K \in SUBSET Nat, K # {}
  PROVE  \E k \in K : \A j \in K : k <= j
  <1>1. PICK k \in K : \A j \in K : ~(<<j, k>> \in OpToRel(<, Nat))
    BY NatLessThanWellFounded, WFMin
  <1>2. ASSUME NEW j \in K PROVE k <= j
    <2>1. j \in Nat /\ k \in Nat
      OBVIOUS
    <2>2. j < k => <<j, k>> \in OpToRel(<, Nat)
      BY <2>1 DEF OpToRel
    <2>3. ~(j < k)
      BY <1>1, <2>2, Zenon
    <2> QED BY <2>1, <2>3
  <1> QED BY <1>2

\* The slots of a buffer without its i-th.
LEMMA RemoveAtSlots ==
  ASSUME NEW S, NEW q \in Seq(S), NEW i \in 1..Len(q)
  PROVE  /\ RemoveAt(q, i) \in Seq(S)
         /\ Len(RemoveAt(q, i)) = Len(q) - 1
         /\ \A j \in 1..Len(q) - 1 : RemoveAt(q, i)[j] = IF j < i THEN q[j] ELSE q[j + 1]
  <1> DEFINE a == SubSeq(q, 1, i - 1)
             b == SubSeq(q, i + 1, Len(q))
  <1>1. a \in Seq(S) /\ Len(a) = i - 1 /\ \A j \in 1..i - 1 : a[j] = q[j]
    OBVIOUS
  <1>2. b \in Seq(S) /\ Len(b) = Len(q) - i /\ \A j \in 1..Len(q) - i : b[j] = q[i + j]
    OBVIOUS
  <1>3. RemoveAt(q, i) = a \o b
    BY DEF RemoveAt
  <1> HIDE DEF a, b
  <1>4. a \o b \in Seq(S) /\ Len(a \o b) = Len(q) - 1
    <2>1. a \o b \in Seq(S)
      BY <1>1, <1>2
    <2>2. Len(a \o b) = Len(a) + Len(b)
      BY <1>1, <1>2, ConcatProperties
    <2> QED BY <1>1, <1>2, <2>1, <2>2
  <1>5. ASSUME NEW j \in 1..Len(q) - 1
        PROVE  (a \o b)[j] = IF j < i THEN q[j] ELSE q[j + 1]
    <2>1. CASE j < i
      BY <1>1, <1>2, <2>1
    <2>2. CASE ~(j < i)
      <3>1. (a \o b)[j] = b[j - (i - 1)] /\ j - (i - 1) \in 1..Len(q) - i
        BY <1>1, <1>2, <2>2
      <3> QED BY <1>2, <2>2, <3>1
    <2> QED BY <2>1, <2>2
  <1> QED BY <1>3, <1>4, <1>5

-----------------------------------------------------------------------------
(* The keys and values a buffer stands for *)

Keys(s) == {s[i].key : i \in DOMAIN s}
IsFirst(s, i, k) ==
  i \in DOMAIN s /\ s[i].key = k /\ \A j \in DOMAIN s : s[j].key = k => i <= j

LEMMA FirstExists ==
  ASSUME NEW s \in Seq(Slot), NEW k \in Keys(s)
  PROVE  \E i : IsFirst(s, i, k)
  <1> DEFINE K == {i \in DOMAIN s : s[i].key = k}
  <1>1. K \in SUBSET Nat /\ K # {}
    BY DEF Keys
  <1>2. PICK i \in K : \A j \in K : i <= j
    BY <1>1, LeastExists
  <1> QED BY <1>2 DEF IsFirst

LEMMA FirstOnce ==
  ASSUME NEW s \in Seq(Slot), NEW k, NEW i, NEW j, IsFirst(s, i, k), IsFirst(s, j, k)
  PROVE  i = j
  BY DEF IsFirst

LEMMA MapAt ==
  ASSUME NEW s \in Seq(Slot), NEW k, NEW i, IsFirst(s, i, k)
  PROVE  AsMap(s)[k] = s[i].val
  <1> DEFINE c == CHOOSE x \in DOMAIN s : s[x].key = k /\ \A j \in DOMAIN s : s[j].key = k => x <= j
  <1>1. IsFirst(s, c, k)
    BY DEF IsFirst
  <1>2. c = i
    BY <1>1, FirstOnce
  <1>3. k \in {s[x].key : x \in DOMAIN s}
    BY DEF IsFirst
  <1>4. AsMap(s)[k] = s[c].val
    BY <1>3 DEF AsMap
  <1> QED BY <1>2, <1>4

LEMMA MapDomain ==
  ASSUME NEW s
  PROVE  DOMAIN AsMap(s) = Keys(s) /\ AsMap(s) = [k \in Keys(s) |-> AsMap(s)[k]]
  BY DEF AsMap, Keys

\* When two buffers, or a buffer and a map, are the same to the users.
LEMMA MapIs ==
  ASSUME NEW s \in Seq(Slot), NEW m, m = [k \in Keys(s) |-> m[k]],
         \A k \in Keys(s) : \E i : IsFirst(s, i, k) /\ s[i].val = m[k]
  PROVE  AsMap(s) = m
  <1>1. \A k \in Keys(s) : AsMap(s)[k] = m[k]
    BY MapAt
  <1> QED BY <1>1, MapDomain

\* Write, where the key has a slot: the map changes at that key only.
LEMMA MapReplaced ==
  ASSUME NEW s \in Seq(Slot), NEW k, NEW x \in Slot, x.key = k, NEW f, IsFirst(s, f, k)
  PROVE  AsMap([s EXCEPT ![f] = x]) = Abstract!With(AsMap(s), k, x.val)
  <1> DEFINE t == [s EXCEPT ![f] = x]
             F(j) == IF j = k THEN x.val ELSE AsMap(s)[j]
  <1>1. /\ t \in Seq(Slot) /\ DOMAIN t = DOMAIN s /\ f \in DOMAIN s /\ s[f].key = k
        /\ \A i \in DOMAIN s : t[i] = IF i = f THEN x ELSE s[i]
    BY DEF IsFirst
  <1> HIDE DEF t
  <1>2. \A i \in DOMAIN s : t[i].key = s[i].key
    BY <1>1
  <1>3. Keys(t) = Keys(s) \cup {k}
    BY <1>1, <1>2 DEF Keys
  <1>4. \A i, j : IsFirst(s, i, j) => IsFirst(t, i, j)
    BY <1>1, <1>2 DEF IsFirst
  <1>5. ASSUME NEW j \in Keys(t) PROVE \E i : IsFirst(t, i, j) /\ t[i].val = F(j)
    <2>1. PICK i : IsFirst(s, i, j)
      BY <1>1, <1>2, FirstExists DEF Keys
    <2>2. CASE j = k
      <3>1. i = f
        BY <2>1, <2>2, FirstOnce
      <3> QED BY <1>1, <1>4, <2>1, <2>2, <3>1
    <2>3. CASE j # k
      <3>1. i # f /\ i \in DOMAIN s
        BY <1>1, <2>1, <2>3 DEF IsFirst
      <3>2. AsMap(s)[j] = s[i].val
        BY <2>1, MapAt
      <3> QED BY <1>1, <1>4, <2>1, <2>3, <3>1, <3>2
    <2> QED BY <2>2, <2>3
  <1>6. AsMap(t) = [j \in Keys(t) |-> F(j)]
    <2> DEFINE m == [j \in Keys(t) |-> F(j)]
    <2>1. m = [j \in Keys(t) |-> m[j]] /\ \A j \in Keys(t) : m[j] = F(j)
      OBVIOUS
    <2> HIDE DEF F, m
    <2>2. \A j \in Keys(t) : \E i : IsFirst(t, i, j) /\ t[i].val = m[j]
      BY <1>5, <2>1
    <2>3. AsMap(t) = m
      BY <1>1, <2>1, <2>2, MapIs, SMTT(30)
    <2> QED BY <2>3 DEF m
  <1>7. AsMap(t) = [j \in Keys(s) \cup {k} |-> F(j)]
    BY <1>3, <1>6
  <1> QED BY <1>7, MapDomain DEF Abstract!With, t

\* ... and where it has none: behind the others.  A key too long to be found
\* may have one all the same, and then nobody sees the new one.
LEMMA MapAppended ==
  ASSUME NEW s \in Seq(Slot), NEW x \in Slot
  PROVE  AsMap(Append(s, x)) = IF x.key \in Keys(s) THEN AsMap(s)
                               ELSE Abstract!With(AsMap(s), x.key, x.val)
  <1> DEFINE t == Append(s, x)
             F(j) == IF j \in Keys(s) THEN AsMap(s)[j] ELSE x.val
  <1>1. /\ t \in Seq(Slot) /\ DOMAIN t = DOMAIN s \cup {Len(s) + 1}
        /\ t[Len(s) + 1] = x /\ \A i \in DOMAIN s : t[i] = s[i]
    OBVIOUS
  <1>2. DOMAIN s = 1..Len(s) /\ Len(s) \in Nat
    OBVIOUS
  <1> HIDE DEF t
  <1>3. Keys(t) = Keys(s) \cup {x.key}
    BY <1>1 DEF Keys
  <1>4. ASSUME NEW j \in Keys(t) PROVE \E i : IsFirst(t, i, j) /\ t[i].val = F(j)
    <2>1. CASE j \in Keys(s)
      <3>1. PICK i : IsFirst(s, i, j)
        BY <2>1, FirstExists
      <3>2. IsFirst(t, i, j) /\ t[i] = s[i]
        BY <1>1, <1>2, <3>1 DEF IsFirst
      <3> QED BY <2>1, <3>1, <3>2, MapAt
    <2>2. CASE j \notin Keys(s)
      <3>1. j = x.key /\ IsFirst(t, Len(s) + 1, j)
        BY <1>1, <1>3, <2>2 DEF IsFirst, Keys
      <3> QED BY <1>1, <2>2, <3>1
    <2> QED BY <2>1, <2>2
  <1>5. AsMap(t) = [j \in Keys(t) |-> F(j)]
    <2> DEFINE m == [j \in Keys(t) |-> F(j)]
    <2>1. m = [j \in Keys(t) |-> m[j]] /\ \A j \in Keys(t) : m[j] = F(j)
      OBVIOUS
    <2> HIDE DEF F, m
    <2>2. \A j \in Keys(t) : \E i : IsFirst(t, i, j) /\ t[i].val = m[j]
      BY <1>4, <2>1
    <2>3. AsMap(t) = m
      BY <1>1, <2>1, <2>2, MapIs
    <2> QED BY <2>3 DEF m
  <1>6. CASE x.key \in Keys(s)
    <2>1. AsMap(t) = [j \in Keys(s) |-> AsMap(s)[j]]
      BY <1>3, <1>5, <1>6
    <2> QED BY <1>6, <2>1, MapDomain DEF t
  <1>7. CASE x.key \notin Keys(s)
    <2>1. AsMap(t) = [j \in Keys(s) \cup {x.key} |-> IF j = x.key THEN x.val ELSE AsMap(s)[j]]
      BY <1>3, <1>5, <1>7
    <2> QED BY <1>7, <2>1, MapDomain DEF Abstract!With, t
  <1> QED BY <1>6, <1>7

\* remove_key: the slots behind move up, and the map loses that key.
LEMMA MapRemoved ==
  ASSUME NEW s \in Seq(Slot), NEW k, NEW f \in DOMAIN s,
         \A i \in DOMAIN s : s[i].key = k <=> i = f
  PROVE  AsMap(RemoveAt(s, f)) = Restrict(AsMap(s), Keys(s) \ {k})
  <1> DEFINE t == RemoveAt(s, f)
             F(j) == AsMap(s)[j]
  <1>1. DOMAIN s = 1..Len(s) /\ Len(s) \in Nat /\ f \in 1..Len(s)
    OBVIOUS
  <1>2. /\ t \in Seq(Slot) /\ Len(t) = Len(s) - 1
        /\ \A j \in 1..Len(s) - 1 : t[j] = IF j < f THEN s[j] ELSE s[j + 1]
    BY <1>1, RemoveAtSlots
  <1>3. DOMAIN t = 1..Len(s) - 1
    BY <1>2
  <1> HIDE DEF t
  <1>4. ASSUME NEW j \in Keys(s) \ {k}
        PROVE  j \in Keys(t) /\ \E i : IsFirst(t, i, j) /\ t[i].val = F(j)
    <2>1. PICK i : IsFirst(s, i, j)
      BY FirstExists
    <2>2. i \in 1..Len(s) /\ i # f /\ s[i].key = j
      BY <1>1, <2>1 DEF IsFirst
    <2> DEFINE n == IF i < f THEN i ELSE i - 1
    <2>3. n \in 1..Len(s) - 1 /\ t[n] = s[i]
      BY <1>1, <1>2, <2>2
    <2>4. IsFirst(t, n, j)
      <3>1. ASSUME NEW m \in DOMAIN t, t[m].key = j PROVE n <= m
        <4>1. m \in 1..Len(s) - 1
          BY <1>3, <3>1
        <4>2. CASE m < f
          <5>1. s[m].key = j /\ m \in DOMAIN s
            BY <1>1, <1>2, <3>1, <4>1, <4>2
          <5>2. i <= m
            BY <2>1, <5>1 DEF IsFirst
          <5> QED BY <1>1, <2>2, <4>1, <4>2, <5>2
        <4>3. CASE ~(m < f)
          <5>1. s[m + 1].key = j /\ m + 1 \in DOMAIN s
            BY <1>1, <1>2, <3>1, <4>1, <4>3
          <5>2. i <= m + 1
            BY <2>1, <5>1 DEF IsFirst
          <5> QED BY <1>1, <2>2, <4>1, <4>3, <5>2
        <4> QED BY <4>2, <4>3
      <3> QED BY <1>3, <2>2, <2>3, <3>1 DEF IsFirst
    <2>5. t[n].val = F(j)
      BY <2>1, <2>3, MapAt
    <2>6. j \in Keys(t)
      BY <1>3, <2>2, <2>3 DEF Keys
    <2> QED BY <2>4, <2>5, <2>6
  <1>5. Keys(t) = Keys(s) \ {k}
    <2>1. ASSUME NEW m \in DOMAIN t PROVE t[m].key \in Keys(s) \ {k}
      <3>1. PICK i \in DOMAIN s : i # f /\ t[m] = s[i]
        BY <1>1, <1>2, <1>3
      <3> QED BY <3>1 DEF Keys
    <2>2. Keys(t) \subseteq Keys(s) \ {k}
      BY <2>1 DEF Keys
    <2> QED BY <1>4, <2>2
  <1>6. AsMap(t) = [j \in Keys(t) |-> F(j)]
    <2> DEFINE m == [j \in Keys(t) |-> F(j)]
    <2>1. m = [j \in Keys(t) |-> m[j]] /\ \A j \in Keys(t) : m[j] = F(j)
      OBVIOUS
    <2> HIDE DEF F, m
    <2>2. \A j \in Keys(t) : \E i : IsFirst(t, i, j) /\ t[i].val = m[j]
      BY <1>4, <1>5, <2>1
    <2>3. AsMap(t) = m
      BY <1>2, <2>1, <2>2, MapIs
    <2> QED BY <2>3 DEF m
  <1> QED BY <1>5, <1>6 DEF t, Restrict

-----------------------------------------------------------------------------
(* Sound buffers *)

GoodSlot(x) ==
  /\ x \in Slot /\ x.val \in Value
  /\ \E g \in Getters : g.type = x.type /\ CborType[x.val] \in g.takes

LEMMA SoundEmpty ==
  ASSUME ConfigurationAssumption PROVE Sound(<<>>)
  BY DEF ConfigurationAssumption, Sound, KeysOnce, Readable

LEMMA SoundReplaced ==
  ASSUME NEW s, Sound(s), NEW x, GoodSlot(x), NEW f \in DOMAIN s, s[f].key = x.key
  PROVE  Sound([s EXCEPT ![f] = x])
  <1> DEFINE t == [s EXCEPT ![f] = x]
  <1>1. /\ t \in Seq(Slot) /\ DOMAIN t = DOMAIN s /\ Len(t) = Len(s)
        /\ \A i \in DOMAIN s : t[i] = IF i = f THEN x ELSE s[i]
    BY DEF Sound, GoodSlot
  <1> HIDE DEF t
  <1>2. KeysOnce(t)
    BY <1>1 DEF Sound, KeysOnce
  <1>3. Readable(t)
    BY <1>1 DEF Sound, Readable, GoodSlot
  <1> QED BY <1>1, <1>2, <1>3 DEF Sound, t

LEMMA SoundAppended ==
  ASSUME ConfigurationAssumption, NEW s, Sound(s), NEW x, GoodSlot(x),
         Len(s) < MAX_NUM_KV, x.key \in Keys(s) => x.key \in LongKey
  PROVE  Sound(Append(s, x))
  <1> DEFINE t == Append(s, x)
  <1>1. /\ t \in Seq(Slot) /\ DOMAIN t = DOMAIN s \cup {Len(s) + 1}
        /\ t[Len(s) + 1] = x /\ Len(t) = Len(s) + 1 /\ \A i \in DOMAIN s : t[i] = s[i]
    BY DEF Sound, GoodSlot
  <1>2. Len(t) <= MAX_NUM_KV
    BY <1>1 DEF Sound, ConfigurationAssumption
  <1> HIDE DEF t
  <1>3. KeysOnce(t)
    BY <1>1 DEF Sound, KeysOnce, Keys
  <1>4. Readable(t)
    BY <1>1 DEF Sound, Readable, GoodSlot
  <1> QED BY <1>1, <1>2, <1>3, <1>4 DEF Sound, t

LEMMA SoundRemoved ==
  ASSUME ConfigurationAssumption, NEW s, Sound(s), NEW f \in DOMAIN s
  PROVE  Sound(RemoveAt(s, f))
  <1> DEFINE t == RemoveAt(s, f)
  <1>1. s \in Seq(Slot) /\ DOMAIN s = 1..Len(s) /\ Len(s) \in Nat /\ f \in 1..Len(s)
    BY DEF Sound
  <1>2. /\ t \in Seq(Slot) /\ Len(t) = Len(s) - 1
        /\ \A j \in 1..Len(s) - 1 : t[j] = IF j < f THEN s[j] ELSE s[j + 1]
    BY <1>1, RemoveAtSlots
  <1>3. DOMAIN t = 1..Len(s) - 1
    BY <1>2
  <1> HIDE DEF t
  <1>4. KeysOnce(t)
    <2> SUFFICES ASSUME NEW i \in DOMAIN t, NEW j \in DOMAIN t,
                        t[i].key = t[j].key, t[i].key \notin LongKey
                 PROVE  i = j
      BY DEF KeysOnce
    <2> DEFINE o(m) == IF m < f THEN m ELSE m + 1
    <2>1. i \in 1..Len(s) - 1 /\ j \in 1..Len(s) - 1
      BY <1>3
    <2>2. ASSUME NEW m \in 1..Len(s) - 1 PROVE o(m) \in DOMAIN s /\ t[m] = s[o(m)]
      <3>1. CASE m < f
        BY <1>1, <1>2, <3>1, SMTT(60)
      <3>2. CASE ~(m < f)
        BY <1>1, <1>2, <3>2, SMTT(60)
      <3> QED BY <3>1, <3>2
    <2>3. o(i) = o(j)
      <3> HIDE DEF o
      <3> QED BY <2>1, <2>2 DEF Sound, KeysOnce
    <2> QED BY <1>1, <2>1, <2>3
  <1>5. Readable(t)
    <2>1. \A i \in DOMAIN t : \E j \in DOMAIN s : t[i] = s[j]
      BY <1>1, <1>2, <1>3, SMTT(30)
    <2> QED BY <2>1 DEF Sound, Readable
  <1> QED BY <1>1, <1>2, <1>4, <1>5 DEF Sound, t, ConfigurationAssumption

-----------------------------------------------------------------------------
(* The calls *)

\* find_key_idx finds the one slot of a key.
LEMMA IdxFound ==
  ASSUME StoreInv, NEW p \in Partition, NEW k, Stored(p, k)
  PROVE  /\ k \notin LongKey /\ KeyIdx(p, k) \in DOMAIN slots[p]
         /\ \A i \in DOMAIN slots[p] : slots[p][i].key = k <=> i = KeyIdx(p, k)
         /\ IsFirst(slots[p], KeyIdx(p, k), k)
  <1> DEFINE s == slots[p]
  <1>1. s \in Seq(Slot) /\ KeysOnce(s)
    BY DEF StoreInv, Sound
  <1>2. Places(p, k) \in SUBSET Nat /\ Places(p, k) # {}
    BY <1>1 DEF Places, Stored
  <1>3. KeyIdx(p, k) \in Places(p, k)
    BY <1>2, LeastExists DEF KeyIdx
  <1>4. k \notin LongKey /\ KeyIdx(p, k) \in DOMAIN s /\ s[KeyIdx(p, k)].key = k
    BY <1>3 DEF Places
  <1>5. \A i \in DOMAIN s : s[i].key = k <=> i = KeyIdx(p, k)
    BY <1>1, <1>4 DEF KeysOnce
  <1>6. KeyIdx(p, k) <= KeyIdx(p, k)
    BY <1>1, <1>4
  <1> QED BY <1>4, <1>5, <1>6 DEF IsFirst

LEMMA NotFound ==
  ASSUME NEW p, NEW k, ~Stored(p, k), k \in Keys(slots[p])
  PROVE  k \in LongKey
  BY DEF Stored, Places, Keys

\* Write, as the users of the store see it.
LEMMA WriteSound ==
  ASSUME ConfigurationAssumption, StoreInv, NEW p \in Partition, NEW x, GoodSlot(x),
         Stored(p, x.key) \/ Len(slots[p]) < MAX_NUM_KV, Write(p, x.key, x)
  PROVE  \E t : /\ slots' = [slots EXCEPT ![p] = t] /\ Sound(t)
                /\ AsMap(t) \in {AsMap(slots[p]),
                                 Abstract!With(AsMap(slots[p]), x.key, x.val)}
  <1>0. Sound(slots[p]) /\ slots[p] \in Seq(Slot) /\ x \in Slot
    BY DEF StoreInv, Sound, GoodSlot
  <1>1. CASE Stored(p, x.key)
    <2> DEFINE f == KeyIdx(p, x.key)
               t == [slots[p] EXCEPT ![f] = x]
    <2>1. f \in DOMAIN slots[p] /\ slots[p][f].key = x.key /\ IsFirst(slots[p], f, x.key)
      BY <1>1, IdxFound
    <2>2. slots' = [slots EXCEPT ![p] = t]
      BY <1>1 DEF Write
    <2> HIDE DEF f
    <2>3. Sound(t)
      BY <1>0, <2>1, SoundReplaced
    <2>4. AsMap(t) = Abstract!With(AsMap(slots[p]), x.key, x.val)
      BY <1>0, <2>1, MapReplaced
    <2> QED BY <2>2, <2>3, <2>4
  <1>2. CASE ~Stored(p, x.key)
    <2> DEFINE t == Append(slots[p], x)
    <2>1. slots' = [slots EXCEPT ![p] = t]
      BY <1>2 DEF Write
    <2>2. Sound(t)
      BY <1>0, <1>2, NotFound, SoundAppended
    <2>3. AsMap(t) \in {AsMap(slots[p]), Abstract!With(AsMap(slots[p]), x.key, x.val)}
      BY <1>0, MapAppended
    <2> QED BY <2>1, <2>2, <2>3
  <1> QED BY <1>1, <1>2

\* A setter notes a type whose getter takes the value's encoding.
LEMMA SetterGood ==
  ASSUME ConfigurationAssumption, NEW k \in Key, NEW v \in Value
  PROVE  /\ \A f \in Setters : CborType[v] \in f.takes =>
               GoodSlot([key |-> k, type |-> f.type, val |-> v])
         /\ GoodSlot([key |-> k, type |-> CborType[v], val |-> v])
  <1>1. CborType[v] \in Type
    BY DEF ConfigurationAssumption
  <1>2. ASSUME NEW y \in Type, \E g \in Getters : g.type = y /\ CborType[v] \in g.takes
        PROVE  GoodSlot([key |-> k, type |-> y, val |-> v])
    BY <1>2 DEF GoodSlot, Slot
  <1>3. ASSUME NEW f \in Setters, CborType[v] \in f.takes
        PROVE  f.type \in Type /\ \E g \in Getters : g.type = f.type /\ CborType[v] \in g.takes
    BY <1>3 DEF Setters, Getters, set_config_uint, set_config_int, set_config_float,
         set_config_string, set_config_buffer, get_config_uint, get_config_int,
         get_config_float, get_config_string, get_config_buffer, Type
  <1>4. \E g \in Getters : g.type = CborType[v] /\ CborType[v] \in g.takes
    BY <1>1 DEF Getters, get_config_uint, get_config_int,
         get_config_float, get_config_string, get_config_buffer, get_config_cbor, Type
  <1> QED BY <1>1, <1>2, <1>3, <1>4

\* What the calls that change a partition do, all at once.
Changes(p, t) ==
  /\ slots' = [slots EXCEPT ![p] = t] /\ Sound(t)
  /\ needs_commit' = [needs_commit EXCEPT ![p] = TRUE]
  /\ UNCHANGED <<nvm, saving, unread>>

LEMMA ChangesInv ==
  ASSUME StoreInv, NEW p \in Partition, NEW t, Changes(p, t), saving = NoSave
  PROVE  StoreInv'
  <1>1. /\ slots' \in [Partition -> Seq(Slot)]
        /\ \A q \in Partition : slots'[q] = IF q = p THEN t ELSE slots[q]
    BY DEF StoreInv, Changes, Sound
  <1>2. /\ needs_commit' \in [Partition -> BOOLEAN]
        /\ \A q \in Partition : needs_commit'[q] = IF q = p THEN TRUE ELSE needs_commit[q]
    BY DEF StoreInv, Changes
  <1>3. nvm' = nvm /\ saving' = NoSave /\ unread' = unread /\ Sound(t)
    BY DEF Changes
  <1> QED BY <1>1, <1>2, <1>3 DEF StoreInv, InStep

\* Without an interleaved caller the calls find no save under way.
LEMMA CallChanges ==
  ASSUME ConfigurationAssumption, TooBig = {}, ~Concurrent, StoreInv,
         NEW p \in Partition, NEW k \in Key, NEW v \in Value,
         (\E f \in Setters : SetTyped(f, p, k, v)) \/ set_config_cbor(p, k, v)
  PROVE  /\ saving = NoSave
         /\ \E t : /\ Changes(p, t)
                   /\ AsMap(t) \in {AsMap(slots[p]), Abstract!With(AsMap(slots[p]), k, v)}
  <1>1. PICK y : /\ GoodSlot([key |-> k, type |-> y, val |-> v])
                 /\ Write(p, k, [key |-> k, type |-> y, val |-> v])
                 /\ Stored(p, k) \/ Len(slots[p]) < MAX_NUM_KV
    BY SetterGood DEF SetTyped, set_config_cbor
  <1> DEFINE x == [key |-> k, type |-> y, val |-> v]
  <1>2. x.key = k /\ x.val = v
    OBVIOUS
  <1>3. saving = NoSave /\ UNCHANGED <<nvm, saving, unread>>
    BY DEF SetTyped, set_config_cbor, Free
  <1>4. GoodSlot(x) /\ Write(p, k, x)
    BY <1>1
  <1> HIDE DEF x
  <1>5. \E t : /\ slots' = [slots EXCEPT ![p] = t] /\ Sound(t)
               /\ AsMap(t) \in {AsMap(slots[p]),
                                Abstract!With(AsMap(slots[p]), x.key, x.val)}
    BY <1>1, <1>2, <1>4, WriteSound
  <1>6. needs_commit' = [needs_commit EXCEPT ![p] = TRUE]
    BY <1>4 DEF Write
  <1> QED BY <1>2, <1>3, <1>5, <1>6 DEF Changes

LEMMA RemoveChanges ==
  ASSUME ConfigurationAssumption, ~Concurrent, StoreInv,
         NEW p \in Partition, NEW k \in Key, remove_key(p, k)
  PROVE  /\ saving = NoSave
         /\ \E t : /\ Changes(p, t)
                   /\ AsMap(t) = Restrict(AsMap(slots[p]), DOMAIN AsMap(slots[p]) \ {k})
  <1>1. Stored(p, k) /\ saving = NoSave
    BY DEF remove_key, Free
  <1>2. /\ KeyIdx(p, k) \in DOMAIN slots[p]
        /\ \A i \in DOMAIN slots[p] : slots[p][i].key = k <=> i = KeyIdx(p, k)
    BY <1>1, IdxFound
  <1>3. Sound(slots[p]) /\ slots[p] \in Seq(Slot)
    BY DEF StoreInv, Sound
  <1> DEFINE t == RemoveAt(slots[p], KeyIdx(p, k))
  <1>4. Sound(t)
    BY <1>2, <1>3, SoundRemoved
  <1>5. AsMap(t) = Restrict(AsMap(slots[p]), Keys(slots[p]) \ {k})
    BY <1>2, <1>3, MapRemoved
  <1>6. Changes(p, t)
    BY <1>4 DEF remove_key, Changes
  <1> QED BY <1>1, <1>5, <1>6, MapDomain

LEMMA ClearChanges ==
  ASSUME ConfigurationAssumption, ~Concurrent, NEW p \in Partition, clear_partition(p)
  PROVE  saving = NoSave /\ Changes(p, <<>>)
  BY SoundEmpty DEF clear_partition, Free, Changes

\* The buffer that is written is the one the CRC was computed of.
LEMMA ImageIntact ==
  ASSUME StoreInv, saving # NoSave
  PROVE  /\ saving \in Save /\ saving.part \in Partition
         /\ Image = Intact(slots[saving.part]) /\ Loaded(Image) = slots[saving.part]
         /\ Image \in Memory
  <1>1. /\ saving \in Save /\ saving.part \in Partition
        /\ saving.crc = slots[saving.part] /\ slots[saving.part] \in Seq(Slot)
    BY DEF StoreInv, Save
  <1>2. Image = Intact(slots[saving.part])
    BY <1>1 DEF Image
  <1> QED BY <1>1, <1>2 DEF Loaded, Intact, Memory

\* A restart.
LEMMA RestartInv ==
  ASSUME ConfigurationAssumption, StoreInv, config_init(nvm'),
         nvm' \in [Partition -> Memory], \A p \in Partition : Sound(Loaded(nvm'[p]))
  PROVE  StoreInv'
  <1>1. PICK failed \in SUBSET Partition :
           /\ slots' = [p \in Partition |-> IF p \in failed THEN <<>> ELSE Loaded(nvm'[p])]
           /\ needs_commit' = [p \in Partition |-> FALSE]
           /\ saving' = NoSave /\ unread' = failed
    BY DEF config_init
  <1>2. \A p \in Partition : slots'[p] = IF p \in unread' THEN <<>> ELSE Loaded(nvm'[p])
    BY <1>1
  <1>3. \A p \in Partition : Sound(slots'[p])
    BY <1>2, SoundEmpty
  <1>4. slots' \in [Partition -> Seq(Slot)]
    BY <1>1, <1>3 DEF Sound
  <1>5. \A p \in Partition : InStep(p)'
    BY <1>2 DEF InStep
  <1> QED BY <1>1, <1>3, <1>4, <1>5 DEF StoreInv

LEMMA InitSound == ConfigurationAssumption /\ Init => StoreInv
  <1> SUFFICES ASSUME ConfigurationAssumption, Init PROVE StoreInv
    OBVIOUS
  <1>1. \A p \in Partition : nvm[p] = Torn /\ Loaded(nvm[p]) = <<>>
    BY DEF Init, Loaded, Torn
  <1>2. nvm \in [Partition -> Memory]
    BY DEF Init, Memory
  <1>3. slots \in [Partition -> Seq(Slot)] /\ \A p \in Partition : slots[p] = <<>>
    <2>1. <<>> \in Seq(Slot)
      OBVIOUS
    <2>2. slots = [p \in Partition |-> Loaded(nvm[p])]
      BY DEF Init
    <2>3. \A p \in Partition : slots[p] = <<>>
      BY <1>1, <2>2
    <2> QED BY <2>1, <2>2, <2>3
  <1> QED BY <1>1, <1>2, <1>3, SoundEmpty DEF Init, StoreInv, InStep

\* Every step keeps the invariant.
LEMMA NextSound ==
  ASSUME ConfigurationAssumption, TooBig = {}, ~Concurrent, ~WriteTears
  PROVE  StoreInv /\ [Next]_vars => StoreInv'
  <1> SUFFICES ASSUME StoreInv, [Next]_vars PROVE StoreInv'
    OBVIOUS
  <1>0. nvm \in [Partition -> Memory] /\ needs_commit \in [Partition -> BOOLEAN]
    BY DEF StoreInv
  <1>1. ASSUME NEW p \in Partition, NEW k \in Key, NEW v \in Value,
               (\E f \in Setters : SetTyped(f, p, k, v)) \/ set_config_cbor(p, k, v)
        PROVE  StoreInv'
    BY <1>1, CallChanges, ChangesInv
  <1>2. ASSUME NEW p \in Partition, NEW k \in Key, remove_key(p, k) PROVE StoreInv'
    BY <1>2, RemoveChanges, ChangesInv
  <1>3. ASSUME NEW p \in Partition, clear_partition(p) PROVE StoreInv'
    BY <1>3, ClearChanges, ChangesInv
  <1>4. ASSUME NEW p \in Partition, NEW r \in BOOLEAN, SaveStart(p, r) PROVE StoreInv'
    <2> DEFINE w == [part |-> p, stage |-> "crc", crc |-> slots[p], restart |-> r]
    <2>1. saving' = w /\ UNCHANGED <<slots, needs_commit, nvm, unread>> /\ saving = NoSave
      BY <1>4 DEF SaveStart
    <2>2. slots[p] \in Seq(Slot)
      BY DEF StoreInv
    <2>3. w \in Save /\ w.crc = slots[p] /\ w.part = p /\ w.stage = "crc"
      BY <2>2 DEF Save
    <2> HIDE DEF w
    <2> QED BY <2>1, <2>3 DEF StoreInv, InStep
  <1>5. CASE SaveWrite
    <2>1. /\ saving # NoSave /\ nvm' = [nvm EXCEPT ![saving.part] = Image]
          /\ saving' = [saving EXCEPT !.stage = "written"]
          /\ UNCHANGED <<slots, needs_commit, unread>>
      BY <1>5 DEF SaveWrite
    <2>2. /\ saving \in Save /\ saving.part \in Partition
          /\ Loaded(Image) = slots[saving.part] /\ Image \in Memory
          /\ saving.crc = slots[saving.part]
      BY <2>1, ImageIntact DEF StoreInv
    <2>3. /\ saving' \in Save /\ saving'.part = saving.part /\ saving'.crc = saving.crc
      BY <2>1, <2>2 DEF Save
    <2> DEFINE i == Image
    <2>4. nvm' = [nvm EXCEPT ![saving.part] = i] /\ i \in Memory
          /\ Loaded(i) = slots[saving.part]
      BY <2>1, <2>2
    <2> HIDE DEF i
    <2>5. /\ nvm' \in [Partition -> Memory]
          /\ \A p \in Partition : nvm'[p] = IF p = saving.part THEN i ELSE nvm[p]
      BY <1>0, <2>2, <2>4
    <2>6. \A p \in Partition : Sound(Loaded(nvm'[p]))
      BY <2>2, <2>4, <2>5 DEF StoreInv
    <2>7. /\ \A p \in Partition : ~needs_commit[p] => InStep(p)'
          /\ Loaded(nvm'[saving.part]) = slots[saving.part]
      BY <2>1, <2>2, <2>4, <2>5 DEF StoreInv, InStep
    <2> QED BY <2>1, <2>2, <2>3, <2>5, <2>6, <2>7 DEF StoreInv
  <1>6. CASE SaveFails
    <2>1. saving' = NoSave /\ UNCHANGED <<slots, needs_commit, nvm, unread>>
      BY <1>6 DEF SaveFails
    <2> QED BY <2>1 DEF StoreInv, InStep
  <1>7. CASE SaveEnd
    <2>1. UNCHANGED nvm /\ saving # NoSave /\ saving.stage = "written"
      BY <1>7 DEF SaveEnd
    <2>2. CASE saving.restart
      <3>1. config_init(nvm')
        BY <1>7, <2>1, <2>2 DEF SaveEnd, config_init
      <3> QED BY <1>0, <2>1, <3>1, RestartInv DEF StoreInv
    <2>3. CASE ~saving.restart
      <3>1. /\ needs_commit' = [needs_commit EXCEPT ![saving.part] = FALSE]
            /\ saving' = NoSave /\ unread' = unread \ {saving.part} /\ UNCHANGED slots
        BY <1>7, <2>3 DEF SaveEnd
      <3>2. saving.part \in Partition /\ Loaded(nvm[saving.part]) = slots[saving.part]
        BY <2>1, ImageIntact DEF StoreInv
      <3>3. /\ needs_commit' \in [Partition -> BOOLEAN]
            /\ \A p \in Partition : needs_commit'[p] = IF p = saving.part THEN FALSE
                                                       ELSE needs_commit[p]
        BY <1>0, <3>1, <3>2
      <3>4. \A p \in Partition : ~needs_commit'[p] => InStep(p)'
        BY <2>1, <3>1, <3>2, <3>3 DEF StoreInv, InStep
      <3> QED BY <2>1, <3>1, <3>2, <3>3, <3>4 DEF StoreInv
    <2> QED BY <2>2, <2>3
  <1>8. CASE PowerLoss
    <2>1. config_init(nvm')
      BY <1>8 DEF PowerLoss
    <2>2. CASE UNCHANGED nvm
      BY <1>0, <2>1, <2>2, RestartInv DEF StoreInv
    <2>3. CASE nvm' # nvm
      <3>1. /\ saving # NoSave
            /\ \E m \in {nvm[saving.part], Image, Torn} :
                  nvm' = [nvm EXCEPT ![saving.part] = m]
        BY <1>8, <2>3 DEF PowerLoss
      <3>2. /\ saving.part \in Partition /\ Loaded(Image) = slots[saving.part]
            /\ Image \in Memory
        BY <3>1, ImageIntact
      <3>3. PICK m : nvm' = [nvm EXCEPT ![saving.part] = m]
                     /\ m \in {nvm[saving.part], Image, Torn}
        BY <3>1
      <3>4. m \in Memory /\ Sound(Loaded(m))
        <4>1. Torn \in Memory /\ Loaded(Torn) = <<>>
          BY DEF Memory, Torn, Loaded
        <4> QED BY <1>0, <3>2, <3>3, <4>1, SoundEmpty DEF StoreInv
      <3>5. /\ nvm' \in [Partition -> Memory]
            /\ \A p \in Partition : nvm'[p] = IF p = saving.part THEN m ELSE nvm[p]
        BY <1>0, <3>2, <3>3, <3>4
      <3>6. \A p \in Partition : Sound(Loaded(nvm'[p]))
        BY <3>4, <3>5 DEF StoreInv
      <3> QED BY <2>1, <3>5, <3>6, RestartInv
    <2> QED BY <2>2, <2>3
  <1>9. CASE UNCHANGED vars
    BY <1>9 DEF vars, StoreInv, InStep
  <1> QED BY <1>1, <1>2, <1>3, <1>4, <1>5, <1>6, <1>7, <1>8, <1>9 DEF Next

\* What the users of the store rely on.
LEMMA SoundTells ==
  ASSUME ConfigurationAssumption, LongKey = {}, StoreInv
  PROVE  StoreIsSound
  <1>1. TypeOK
    BY DEF StoreInv, Sound, Save, TypeOK
  <1>2. NeedsCommitTells
    BY DEF StoreInv, NeedsCommitTells
  <1>3. ASSUME NEW p \in Partition, NEW i \in DOMAIN slots[p]
        PROVE  \E g \in Getters : g.type = slots[p][i].type /\ Reads(g, p, slots[p][i].key)
    <2>1. Sound(slots[p])
      BY DEF StoreInv
    <2>2. Stored(p, slots[p][i].key)
      BY DEF Stored, Places
    <2>3. KeyIdx(p, slots[p][i].key) = i
      BY <2>2, IdxFound
    <2>4. PICK g \in Getters : g.type = slots[p][i].type /\ CborType[slots[p][i].val] \in g.takes
      BY <2>1 DEF Sound, Readable
    <2>5. slots[p][i].val # Broken
      BY <2>1 DEF Sound, Readable, ConfigurationAssumption, Broken
    <2> QED BY <2>2, <2>3, <2>4, <2>5 DEF Reads
  <1> QED BY <1>1, <1>2, <1>3 DEF NotedTypeReads, StoreIsSound

-----------------------------------------------------------------------------
(* The theorems *)

\* While needs_commit is false a restart brings back what the partition holds,
\* whatever save, failed write or loss of power came before, or the partition
\* is empty because its memory could not be read at this start; and the type
\* noted for a key is one its value reads as (set_config_*, remove_key,
\* save_config, config_init).
THEOREM SoundStore ==
  ASSUME ConfigurationAssumption, TooBig = {}, LongKey = {}, ~Concurrent, ~WriteTears
  PROVE  Spec => []StoreIsSound
  <1>1. Init => StoreInv
    BY InitSound
  <1>2. StoreInv /\ [Next]_vars => StoreInv'
    BY NextSound
  <1>3. StoreInv => StoreIsSound
    BY SoundTells
  <1> QED BY <1>1, <1>2, <1>3, PTL DEF Spec

\* The maps of ConfigStore that slots and memory stand for.
Work  == [p \in Partition |-> AsMap(slots[p])]
Saved == [p \in Partition |-> AsMap(Loaded(nvm[p]))]

LEMMA NothingStored == AsMap(<<>>) = Abstract!Nothing
  <1>1. DOMAIN <<>> = {}
    OBVIOUS
  <1> QED BY <1>1 DEF AsMap, Abstract!Nothing

LEMMA InitImplements == Init => Abstract!Init
  <1> SUFFICES ASSUME Init PROVE Abstract!Init
    OBVIOUS
  <1>1. \A p \in Partition : Loaded(nvm[p]) = <<>>
    BY DEF Init, Loaded, Torn
  <1>2. Saved \in [Partition -> {Abstract!Nothing}]
    BY <1>1, NothingStored DEF Saved
  <1>3. \A p \in Partition : slots[p] = Loaded(nvm[p])
    BY DEF Init
  <1>4. Work = Saved
    BY <1>3 DEF Work, Saved
  <1> QED BY <1>2, <1>4 DEF Abstract!Init, Work, Saved

\* A call that changes one partition in RAM.
LEMMA ChangesWork ==
  ASSUME StoreInv, NEW p \in Partition, NEW t, Changes(p, t)
  PROVE  Work' = [Work EXCEPT ![p] = AsMap(t)] /\ Saved' = Saved
  <1>1. \A q \in Partition : slots'[q] = IF q = p THEN t ELSE slots[q]
    BY DEF StoreInv, Changes
  <1>2. nvm' = nvm
    BY DEF Changes
  <1> QED BY <1>1, <1>2 DEF Work, Saved

\* A write to the memory of one partition, and a restart.
LEMMA WritesSaved ==
  ASSUME StoreInv, NEW p \in Partition, NEW m, nvm' = [nvm EXCEPT ![p] = m]
  PROVE  Saved' = [Saved EXCEPT ![p] = AsMap(Loaded(m))]
  <1>1. \A q \in Partition : nvm'[q] = IF q = p THEN m ELSE nvm[q]
    BY DEF StoreInv
  <1>2. ASSUME NEW q \in Partition
        PROVE  AsMap(Loaded(nvm'[q])) = IF q = p THEN AsMap(Loaded(m))
                                                 ELSE AsMap(Loaded(nvm[q]))
    BY <1>1
  <1>3. Saved' = [q \in Partition |-> AsMap(Loaded(nvm'[q]))]
    BY DEF Saved
  <1>4. [Saved EXCEPT ![p] = AsMap(Loaded(m))] =
           [q \in Partition |-> IF q = p THEN AsMap(Loaded(m)) ELSE AsMap(Loaded(nvm[q]))]
    BY DEF Saved
  <1> QED BY <1>2, <1>3, <1>4

LEMMA RestartWork ==
  ASSUME config_init(nvm')
  PROVE  Abstract!Starts(Saved')
  <1>1. PICK failed \in SUBSET Partition :
           slots' = [p \in Partition |-> IF p \in failed THEN <<>> ELSE Loaded(nvm'[p])]
    BY DEF config_init
  <1>2. \A p \in Partition :
           AsMap(slots'[p]) = IF p \in failed THEN Abstract!Nothing ELSE AsMap(Loaded(nvm'[p]))
    BY <1>1, NothingStored
  <1>3. Work' = [p \in Partition |-> IF p \in failed THEN Abstract!Nothing ELSE Saved'[p]]
    BY <1>2 DEF Work, Saved
  <1> QED BY <1>3 DEF Abstract!Starts, Work, Saved

LEMMA NextImplements ==
  ASSUME ConfigurationAssumption, TooBig = {}, ~Concurrent, ~WriteTears
  PROVE  StoreInv /\ [Next]_vars => [Abstract!Next]_<<Work, Saved>>
  <1> SUFFICES ASSUME StoreInv, [Next]_vars PROVE [Abstract!Next]_<<Work, Saved>>
    OBVIOUS
  <1>0. \A p \in Partition : Work[p] = AsMap(slots[p]) /\ Saved[p] = AsMap(Loaded(nvm[p]))
    BY DEF Work, Saved
  <1>1. ASSUME NEW p \in Partition, NEW k \in Key, NEW v \in Value,
               (\E f \in Setters : SetTyped(f, p, k, v)) \/ set_config_cbor(p, k, v)
        PROVE  Abstract!Put(p, k, v) \/ UNCHANGED <<Work, Saved>>
    <2>1. PICK t : /\ Changes(p, t)
                   /\ AsMap(t) \in {AsMap(slots[p]), Abstract!With(AsMap(slots[p]), k, v)}
      BY <1>1, CallChanges
    <2>2. Work' = [Work EXCEPT ![p] = AsMap(t)] /\ Saved' = Saved
      BY <2>1, ChangesWork
    <2>3. CASE AsMap(t) = AsMap(slots[p])
      <3>1. Work' = Work
        BY <1>0, <2>2, <2>3 DEF Work
      <3> QED BY <2>2, <3>1
    <2>4. CASE AsMap(t) = Abstract!With(AsMap(slots[p]), k, v)
      <3>1. Work' = [Work EXCEPT ![p] = Abstract!With(Work[p], k, v)]
        BY <1>0, <2>2, <2>4
      <3> QED BY <2>2, <3>1 DEF Abstract!Put, Work, Saved
    <2> QED BY <2>1, <2>3, <2>4
  <1>2. ASSUME NEW p \in Partition, NEW k \in Key, remove_key(p, k)
        PROVE  Abstract!Drop(p, k)
    <2>1. PICK t : /\ Changes(p, t)
                   /\ AsMap(t) = Restrict(AsMap(slots[p]), DOMAIN AsMap(slots[p]) \ {k})
      BY <1>2, RemoveChanges
    <2>2. Work' = [Work EXCEPT ![p] = AsMap(t)] /\ Saved' = Saved
      BY <2>1, ChangesWork
    <2>3. Work' = [Work EXCEPT ![p] = Restrict(Work[p], DOMAIN Work[p] \ {k})]
      BY <1>0, <2>1, <2>2
    <2> QED BY <2>2, <2>3 DEF Abstract!Drop, Work, Saved, Restrict, Abstract!Restrict
  <1>3. ASSUME NEW p \in Partition, clear_partition(p) PROVE Abstract!Empty(p)
    <2>1. Changes(p, <<>>)
      BY <1>3, ClearChanges
    <2>2. Work' = [Work EXCEPT ![p] = Abstract!Nothing] /\ Saved' = Saved
      BY <2>1, ChangesWork, NothingStored
    <2> QED BY <2>2 DEF Abstract!Empty, Work, Saved
  <1>4. ASSUME NEW p \in Partition, NEW r \in BOOLEAN, SaveStart(p, r)
        PROVE  UNCHANGED <<Work, Saved>>
    BY <1>4 DEF SaveStart, Work, Saved
  <1>5. ASSUME SaveWrite PROVE \E p \in Partition : Abstract!Save(p)
    <2>1. saving # NoSave /\ nvm' = [nvm EXCEPT ![saving.part] = Image] /\ slots' = slots
      BY <1>5 DEF SaveWrite
    <2>2. PICK p \in Partition : saving.part = p /\ Loaded(Image) = slots[p]
      BY <2>1, ImageIntact
    <2>3. PICK i : i = Image
      OBVIOUS
    <2>4. Saved' = [Saved EXCEPT ![p] = AsMap(Loaded(i))]
      BY <2>1, <2>2, <2>3, WritesSaved
    <2>5. Saved' = [Saved EXCEPT ![p] = Work[p]] /\ Work' = Work
      BY <1>0, <2>1, <2>2, <2>3, <2>4 DEF Work
    <2> QED BY <2>5 DEF Abstract!Save, Work, Saved
  <1>6. ASSUME SaveFails PROVE UNCHANGED <<Work, Saved>>
    BY <1>6 DEF SaveFails, Work, Saved
  <1>7. ASSUME SaveEnd PROVE Abstract!Restart \/ UNCHANGED <<Work, Saved>>
    <2>1. nvm' = nvm /\ Saved' = Saved
      BY <1>7 DEF SaveEnd, Saved
    <2>2. CASE saving.restart
      <3>1. config_init(nvm')
        BY <1>7, <2>1, <2>2 DEF SaveEnd, config_init
      <3> QED BY <2>1, <3>1, RestartWork DEF Abstract!Restart, Work, Saved
    <2>3. CASE ~saving.restart
      BY <1>7, <2>1, <2>3 DEF SaveEnd, Work
    <2> QED BY <2>2, <2>3
  <1>8. ASSUME PowerLoss
        PROVE  Abstract!Restart \/ \E p \in Partition : Abstract!SaveThenRestart(p)
    <2>1. config_init(nvm') /\ Abstract!Starts(Saved')
      BY <1>8, RestartWork DEF PowerLoss
    <2>2. CASE UNCHANGED nvm
      <3>1. Saved' = Saved
        BY <2>2 DEF Saved
      <3> QED BY <2>1, <3>1 DEF Abstract!Restart, Work, Saved
    <2>3. CASE nvm' # nvm
      <3>1. /\ saving # NoSave
            /\ \E m \in {nvm[saving.part], Image, Torn} :
                  nvm' = [nvm EXCEPT ![saving.part] = m]
        BY <1>8, <2>3 DEF PowerLoss
      <3>2. PICK p \in Partition : saving.part = p /\ Loaded(Image) = slots[p]
        BY <3>1, ImageIntact
      <3>3. PICK m : nvm' = [nvm EXCEPT ![p] = m] /\ m \in {nvm[p], Image, Torn}
        BY <3>1, <3>2
      <3>4. m # nvm[p]
        BY <2>3, <3>3 DEF StoreInv
      <3>5. AsMap(Loaded(m)) \in {Work[p], Abstract!Nothing}
        <4>1. Loaded(Torn) = <<>>
          BY DEF Loaded, Torn
        <4> QED BY <1>0, <3>2, <3>3, <3>4, <4>1, NothingStored
      <3>6. Saved' = [Saved EXCEPT ![p] = AsMap(Loaded(m))]
        BY <3>3, WritesSaved
      <3>7. Saved' \in {[Saved EXCEPT ![p] = x] : x \in {Work[p], Abstract!Nothing}}
        BY <3>5, <3>6
      <3> QED BY <2>1, <3>7 DEF Abstract!SaveThenRestart, Work, Saved
    <2> QED BY <2>2, <2>3
  <1>9. ASSUME UNCHANGED vars PROVE UNCHANGED <<Work, Saved>>
    BY <1>9 DEF vars, Work, Saved
  <1> QED BY <1>1, <1>2, <1>3, <1>4, <1>5, <1>6, <1>7, <1>8, <1>9 DEF Next, Abstract!Next

\* The slots, the CRC and the memory together are the store ConfigStore
\* describes, with any number of partitions, keys and values and any key too
\* long to be found: a call changes one key, a save takes all of a partition
\* or, cut off by a restart, nothing of it, a restart brings back all of a
\* partition or, where it cannot be read, nothing, and old and new are never
\* mixed.
THEOREM ImplementsStore ==
  ASSUME ConfigurationAssumption, TooBig = {}, ~Concurrent, ~WriteTears
  PROVE  Spec => IsAStore
  <1>1. Init => StoreInv /\ Abstract!Init
    BY InitSound, InitImplements
  <1>2. StoreInv /\ [Next]_vars => StoreInv'
    BY NextSound
  <1>3. StoreInv /\ [Next]_vars => [Abstract!Next]_<<Work, Saved>>
    BY NextImplements
  <1> QED BY <1>1, <1>2, <1>3, PTL DEF Spec, IsAStore, Abstract!Spec, Work, Saved

=============================================================================
