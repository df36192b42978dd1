-------------------------- MODULE StructuresProofs --------------------------
(***************************************************************************)
(* Proofs about what the threads of a node meet in (module Structures).     *)
(*                                                                          *)
(* The ring of the POSIX queue, whatever its capacity and however its       *)
(* threads wait: it is a FIFO (PosixQueue's refinement of Fifo), and while  *)
(* a receiver sleeps beside items there are as many receivers that were     *)
(* told.  The semaphore has one holder and is offered when it is free; the  *)
(* stream buffer's bytes, with those received, are those stored.  The       *)
(* callback queue of the power information service lines up with the        *)
(* requests it stands for.                                                  *)
(***************************************************************************)
EXTENDS Structures, FiniteSetTheorems, SequenceTheorems, TLAPS

-----------------------------------------------------------------------------
(* The ring *)

\* Places of the ring, counted from any of them.
LEMMA Around ==
  ASSUME NEW C \in Nat \ {0}, NEW a \in Nat, a < 2 * C
  PROVE  a % C = IF a < C THEN a ELSE a - C
  <1>1. CASE a < C
    BY <1>1
  <1>2. CASE ~(a < C)
    <2>1. a \in C..(2 * C - 1)
      BY <1>2
    <2> QED BY <1>2, <2>1
  <1> QED BY <1>1, <1>2

LEMMA AroundSum ==
  ASSUME NEW C \in Nat \ {0}, NEW h \in Nat, h < C, NEW n \in Nat, n <= C
  PROVE  (h + n) % C = IF h + n < C THEN h + n ELSE h + n - C
  <1> DEFINE a == h + n
  <1>1. a \in Nat /\ a < 2 * C
    OBVIOUS
  <1> HIDE DEF a
  <1>2. a % C = IF a < C THEN a ELSE a - C
    BY <1>1, Around
  <1> QED BY <1>2 DEF a

\* The place of item n, for a head h.
LEMMA Place ==
  ASSUME NEW C \in Nat \ {0}, NEW h \in Nat, h < C, NEW n \in Nat \ {0}, n <= C + 1
  PROVE  /\ (h + n - 1) % C = IF h + n - 1 < C THEN h + n - 1 ELSE h + n - 1 - C
         /\ (h + n - 1) % C \in 0..(C - 1)
  <1>1. h + n - 1 \in Nat /\ h + n - 1 < 2 * C
    OBVIOUS
  <1> DEFINE a == h + n - 1
  <1> HIDE DEF a
  <1>2. a % C = IF a < C THEN a ELSE a - C
    BY <1>1, Around DEF a
  <1> QED BY <1>1, <1>2 DEF a

Value == U!Item \cup {0}
Storage == [0..(Capacity - 1) -> Value]

\* The items of a storage s: c of them, from h on.
Ring(s, h, c) == [n \in 1..c |-> s[(h + n - 1) % Capacity]]

LEMMA RingIs ==
  ASSUME Capacity \in Nat \ {0}, NEW s \in Storage, NEW h \in Nat, h < Capacity,
         NEW c \in Nat, c <= Capacity
  PROVE  /\ Ring(s, h, c) \in Seq(Value) /\ Len(Ring(s, h, c)) = c
         /\ \A n \in 1..c : Ring(s, h, c)[n] = s[(h + n - 1) % Capacity]
  <1>1. \A n \in 1..c : (h + n - 1) % Capacity \in 0..(Capacity - 1)
    BY Place
  <1> DEFINE r == Ring(s, h, c)
  <1>2. r \in [1..c -> Value] /\ \A n \in 1..c : r[n] = s[(h + n - 1) % Capacity]
    BY <1>1 DEF Ring, Storage
  <1> HIDE DEF r
  <1>3. r \in Seq(Value) /\ DOMAIN r = 1..c
    BY <1>2
  <1>4. Len(r) = c
    BY <1>3
  <1> QED BY <1>2, <1>3, <1>4 DEF r

\* The first item goes.
LEMMA RingTake ==
  ASSUME Capacity \in Nat \ {0}, NEW s \in Storage, NEW h \in Nat, h < Capacity,
         NEW c \in Nat, c <= Capacity, c # 0, NEW k, k = (h + 1) % Capacity
  PROVE  /\ k \in 0..(Capacity - 1) /\ (h + c) % Capacity = (k + (c - 1)) % Capacity
         /\ Ring(s, h, c) # <<>> /\ Head(Ring(s, h, c)) = s[h]
         /\ Ring(s, k, c - 1) = Tail(Ring(s, h, c))
  <1>1. k = IF h + 1 < Capacity THEN h + 1 ELSE 0
    <2>1. 1 \in Nat /\ 1 <= Capacity
      OBVIOUS
    <2>2. (h + 1) % Capacity = IF h + 1 < Capacity THEN h + 1 ELSE h + 1 - Capacity
      BY <2>1, AroundSum
    <2> QED BY <2>2
  <1>2. k \in Nat /\ k < Capacity /\ c - 1 \in Nat /\ c - 1 <= Capacity
    BY <1>1
  <1>3. (h + c) % Capacity = (k + (c - 1)) % Capacity
    <2>1. (h + c) % Capacity = IF h + c < Capacity THEN h + c ELSE h + c - Capacity
      BY AroundSum
    <2>2. (k + (c - 1)) % Capacity = IF k + (c - 1) < Capacity THEN k + (c - 1)
                                     ELSE k + (c - 1) - Capacity
      BY <1>2, AroundSum
    <2> QED BY <1>1, <2>1, <2>2
  <1>4. \A n \in 1..(c - 1) : (k + n - 1) % Capacity = (h + (n + 1) - 1) % Capacity
    <2> TAKE n \in 1..(c - 1)
    <2>1. n \in Nat \ {0} /\ n + 1 \in Nat \ {0} /\ n + 1 <= Capacity + 1 /\ n <= Capacity + 1
      OBVIOUS
    <2>2. (k + n - 1) % Capacity = IF k + n - 1 < Capacity THEN k + n - 1
                                   ELSE k + n - 1 - Capacity
      BY <1>2, <2>1, Place
    <2>3. (h + (n + 1) - 1) % Capacity = IF h + (n + 1) - 1 < Capacity THEN h + (n + 1) - 1
                                         ELSE h + (n + 1) - 1 - Capacity
      BY <2>1, Place
    <2> QED BY <1>1, <2>1, <2>2, <2>3
  <1> DEFINE r == Ring(s, h, c)
             q == Ring(s, k, c - 1)
  <1>5. r \in Seq(Value) /\ Len(r) = c /\ \A n \in 1..c : r[n] = s[(h + n - 1) % Capacity]
    BY RingIs
  <1>6. /\ q \in Seq(Value) /\ Len(q) = c - 1
        /\ \A n \in 1..(c - 1) : q[n] = s[(k + n - 1) % Capacity]
    BY <1>2, RingIs
  <1>7. (h + 1 - 1) % Capacity = h
    BY Place
  <1> HIDE DEF r, q
  <1>8. r # <<>> /\ Head(r) = s[h]
    BY <1>5, <1>7
  <1>9. q = Tail(r)
    <2>1. Tail(r) \in Seq(Value) /\ Len(Tail(r)) = c - 1
      BY <1>5, <1>8
    <2>2. ASSUME NEW n \in 1..(c - 1) PROVE q[n] = Tail(r)[n]
      <3>1. n + 1 \in 1..c /\ Tail(r)[n] = r[n + 1]
        BY <1>5, <1>8
      <3> QED BY <1>4, <1>5, <1>6, <3>1
    <2> QED BY <1>6, <2>1, <2>2
  <1> QED BY <1>2, <1>3, <1>8, <1>9 DEF r, q

\* An item is put where the others end.
LEMMA RingPut ==
  ASSUME Capacity \in Nat \ {0}, storage \in Storage, queue_head \in Nat, queue_head < Capacity,
         count \in Nat, count < Capacity, NEW x \in Value,
         queue_tail = (queue_head + count) % Capacity,
         storage' = [storage EXCEPT ![queue_tail] = x]
  PROVE  /\ queue_tail \in 0..(Capacity - 1)
         /\ (queue_tail + 1) % Capacity = (queue_head + (count + 1)) % Capacity
         /\ (queue_tail + 1) % Capacity \in 0..(Capacity - 1)
         /\ storage' \in Storage
         /\ Len(Ring(storage', queue_head, count + 1)) = Len(Ring(storage, queue_head, count)) + 1
         /\ Ring(storage, queue_head, count)
              = SubSeq(Ring(storage', queue_head, count + 1), 1, Len(Ring(storage, queue_head, count)))
  <1> DEFINE r == Ring(storage, queue_head, count)
             q == Ring(storage', queue_head, count + 1)
  <1>0. count <= Capacity
    OBVIOUS
  <1>1. queue_tail = IF queue_head + count < Capacity THEN queue_head + count ELSE queue_head + count - Capacity
    BY <1>0, AroundSum
  <1>2. queue_tail \in Nat /\ queue_tail < Capacity /\ count + 1 \in Nat /\ count + 1 <= Capacity
    BY <1>1
  <1>3. /\ (queue_tail + 1) % Capacity = (queue_head + (count + 1)) % Capacity
        /\ (queue_tail + 1) % Capacity \in 0..(Capacity - 1)
    <2>1. 1 \in Nat /\ 1 <= Capacity
      OBVIOUS
    <2>2. (queue_tail + 1) % Capacity = IF queue_tail + 1 < Capacity THEN queue_tail + 1 ELSE queue_tail + 1 - Capacity
      BY <1>2, <2>1, AroundSum
    <2>3. (queue_head + (count + 1)) % Capacity
            = IF queue_head + (count + 1) < Capacity THEN queue_head + (count + 1)
              ELSE queue_head + (count + 1) - Capacity
      BY <1>2, AroundSum
    <2> QED BY <1>1, <1>2, <2>2, <2>3
  <1>4. /\ storage' \in Storage
        /\ \A i \in 0..(Capacity - 1) : i # queue_tail => storage'[i] = storage[i]
    BY <1>2 DEF Storage
  <1>5. \A n \in 1..count : (queue_head + n - 1) % Capacity \in 0..(Capacity - 1) \ {queue_tail}
    <2> TAKE n \in 1..count
    <2>1. n \in Nat \ {0} /\ n <= Capacity + 1 /\ n <= count
      OBVIOUS
    <2>2. (queue_head + n - 1) % Capacity = IF queue_head + n - 1 < Capacity THEN queue_head + n - 1
                                      ELSE queue_head + n - 1 - Capacity
      BY <2>1, Place
    <2> QED BY <1>1, <2>1, <2>2
  <1>6. /\ r \in Seq(Value) /\ Len(r) = count
        /\ \A n \in 1..count : r[n] = storage[(queue_head + n - 1) % Capacity]
    BY <1>0, RingIs
  <1>7. /\ q \in Seq(Value) /\ Len(q) = count + 1
        /\ \A n \in 1..(count + 1) : q[n] = storage'[(queue_head + n - 1) % Capacity]
    <2> DEFINE d == count + 1
    <2>1. d \in Nat /\ d <= Capacity
      BY <1>2
    <2> HIDE DEF d
    <2>2. /\ Ring(storage', queue_head, d) \in Seq(Value) /\ Len(Ring(storage', queue_head, d)) = d
          /\ \A n \in 1..d : Ring(storage', queue_head, d)[n] = storage'[(queue_head + n - 1) % Capacity]
      BY <1>4, <2>1, RingIs, ZenonT(30)
    <2> QED BY <2>2 DEF d
  <1> HIDE DEF r, q
  <1>8. r = SubSeq(q, 1, count)
    <2>1. SubSeq(q, 1, count) \in Seq(Value) /\ Len(SubSeq(q, 1, count)) = count
      BY <1>7
    <2>2. ASSUME NEW n \in 1..count PROVE r[n] = SubSeq(q, 1, count)[n]
      <3>1. SubSeq(q, 1, count)[n] = q[n] /\ n \in 1..(count + 1)
        BY <1>7
      <3> QED BY <1>4, <1>5, <1>6, <1>7, <3>1
    <2> QED BY <1>6, <2>1, <2>2
  <1> QED BY <1>2, <1>3, <1>4, <1>6, <1>7, <1>8 DEF r, q

\* An item is put before the others.
LEMMA RingPutFront ==
  ASSUME Capacity \in Nat \ {0}, storage \in Storage, queue_head \in Nat, queue_head < Capacity,
         count \in Nat, count < Capacity, NEW x \in Value,
         queue_head' = IF queue_head = 0 THEN Capacity - 1 ELSE queue_head - 1,
         storage' = [storage EXCEPT ![queue_head'] = x]
  PROVE  /\ queue_head' \in 0..(Capacity - 1)
         /\ (queue_head + count) % Capacity = (queue_head' + (count + 1)) % Capacity
         /\ storage' \in Storage /\ Ring(storage', queue_head', count + 1) # <<>>
         /\ Ring(storage, queue_head, count) = Tail(Ring(storage', queue_head', count + 1))
  <1> DEFINE r == Ring(storage, queue_head, count)
             q == Ring(storage', queue_head', count + 1)
  <1>0. count <= Capacity
    OBVIOUS
  <1>1. queue_head' \in Nat /\ queue_head' < Capacity /\ count + 1 \in Nat /\ count + 1 <= Capacity
    OBVIOUS
  <1>2. (queue_head + count) % Capacity = (queue_head' + (count + 1)) % Capacity
    <2>1. (queue_head + count) % Capacity = IF queue_head + count < Capacity THEN queue_head + count
                                      ELSE queue_head + count - Capacity
      BY <1>0, AroundSum
    <2>2. (queue_head' + (count + 1)) % Capacity
            = IF queue_head' + (count + 1) < Capacity THEN queue_head' + (count + 1)
              ELSE queue_head' + (count + 1) - Capacity
      BY <1>1, AroundSum
    <2> QED BY <1>1, <2>1, <2>2
  <1>3. /\ storage' \in Storage
        /\ \A i \in 0..(Capacity - 1) : i # queue_head' => storage'[i] = storage[i]
    BY <1>1 DEF Storage
  <1>4. \A n \in 1..count : /\ (queue_head + n - 1) % Capacity \in 0..(Capacity - 1) \ {queue_head'}
                            /\ (queue_head' + (n + 1) - 1) % Capacity = (queue_head + n - 1) % Capacity
    <2> TAKE n \in 1..count
    <2>1. n \in Nat \ {0} /\ n <= Capacity + 1 /\ n <= count
          /\ n + 1 \in Nat \ {0} /\ n + 1 <= Capacity + 1
      OBVIOUS
    <2>2. (queue_head + n - 1) % Capacity = IF queue_head + n - 1 < Capacity THEN queue_head + n - 1
                                      ELSE queue_head + n - 1 - Capacity
      BY <2>1, Place
    <2>3. (queue_head' + (n + 1) - 1) % Capacity
            = IF queue_head' + (n + 1) - 1 < Capacity THEN queue_head' + (n + 1) - 1
              ELSE queue_head' + (n + 1) - 1 - Capacity
      BY <1>1, <2>1, Place
    <2> QED BY <2>1, <2>2, <2>3
  <1>5. /\ r \in Seq(Value) /\ Len(r) = count
        /\ \A n \in 1..count : r[n] = storage[(queue_head + n - 1) % Capacity]
    BY <1>0, RingIs
  <1>6. /\ q \in Seq(Value) /\ Len(q) = count + 1
        /\ \A n \in 1..(count + 1) : q[n] = storage'[(queue_head' + n - 1) % Capacity]
    <2>1. \A s \in Storage : \A h, c \in Nat : h < Capacity /\ c <= Capacity
            => /\ Ring(s, h, c) \in Seq(Value) /\ Len(Ring(s, h, c)) = c
               /\ \A n \in 1..c : Ring(s, h, c)[n] = s[(h + n - 1) % Capacity]
      BY RingIs
    <2>2. storage' \in Storage /\ queue_head' \in Nat /\ count + 1 \in Nat
          /\ queue_head' < Capacity /\ count + 1 <= Capacity
      BY <1>1, <1>3, Zenon
    <2>3. /\ Ring(storage', queue_head', count + 1) \in Seq(Value)
          /\ Len(Ring(storage', queue_head', count + 1)) = count + 1
          /\ \A n \in 1..(count + 1) : Ring(storage', queue_head', count + 1)[n]
                                        = storage'[(queue_head' + n - 1) % Capacity]
      BY ONLY <2>1, <2>2, Zenon
    <2> QED BY <2>3, Zenon
  <1> HIDE DEF r, q
  <1>7. q # <<>> /\ r = Tail(q)
    <2>1. q # <<>> /\ Tail(q) \in Seq(Value) /\ Len(Tail(q)) = count
      BY <1>6
    <2>2. ASSUME NEW n \in 1..count PROVE r[n] = Tail(q)[n]
      <3>1. Tail(q)[n] = q[n + 1] /\ n + 1 \in 1..(count + 1)
        BY <1>6, <2>1
      <3>2. Tail(q)[n] = storage'[(queue_head + n - 1) % Capacity]
        BY <1>4, <1>6, <3>1
      <3> QED BY <1>3, <1>4, <1>5, <3>2
    <2> QED BY <1>5, <2>1, <2>2
  <1> QED BY <1>1, <1>2, <1>3, <1>7 DEF r, q

-----------------------------------------------------------------------------
(* Threads *)

At == {"idle", "asleep", "woken"}
Limit == {"none", "timed", "forever"}
ThreadType == [at : At, limit : Limit, item : Value]

LEMMA TypeParts ==
  U!TypeOK <=> /\ storage \in Storage
             /\ queue_head \in 0..(Capacity - 1) /\ queue_tail \in 0..(Capacity - 1)
             /\ count \in 0..Capacity
             /\ thread \in [U!Thread -> ThreadType]
             /\ offered \in 0..MaxSends /\ got \in Value
  BY DEF U!TypeOK, Storage, Value, ThreadType, At, Limit

LEMMA IdleTyped == U!Idle \in ThreadType /\ U!Idle.at = "idle" /\ U!Idle.limit = "none"
  BY DEF U!Idle, ThreadType, At, Limit, Value

\* What a signal to the threads of S by t, which is done, may have made of the threads.
Signalled(S, t, z) ==
  /\ z \in [U!Thread -> ThreadType] /\ z[t] = U!Idle
  /\ \/ U!Asleep(S) = {} /\ \A u \in U!Thread \ {t} : z[u] = thread[u]
     \/ \E w \in S :
          /\ thread[w].at = "asleep" /\ z[w].at = "woken" /\ z[w].limit = thread[w].limit
          /\ \A u \in U!Thread \ {t, w} : z[u] = thread[u]

LEMMA SignalIs ==
  ASSUME U!TypeOK, NEW S \in SUBSET U!Thread, NEW t \in U!Thread \ S, NEW z \in U!Signal(S, t)
  PROVE  Signalled(S, t, z)
  <1> DEFINE after == [thread EXCEPT ![t] = U!Idle]
  <1>1. thread \in [U!Thread -> ThreadType]
    BY TypeParts
  <1>2. /\ after \in [U!Thread -> ThreadType] /\ after[t] = U!Idle
        /\ \A u \in U!Thread \ {t} : after[u] = thread[u]
    BY <1>1, IdleTyped
  <1>3. \/ U!Asleep(S) = {} /\ z = after
        \/ \E w \in U!Asleep(S) : z = [after EXCEPT ![w].at = "woken"]
    BY DEF U!Signal
  <1> HIDE DEF after
  <1>4. ASSUME NEW w \in U!Asleep(S), z = [after EXCEPT ![w].at = "woken"]
        PROVE  Signalled(S, t, z)
    <2>1. /\ w \in S /\ w \in U!Thread /\ w # t
          /\ thread[w].at = "asleep" /\ thread[w] \in ThreadType
      BY <1>1 DEF U!Asleep
    <2>2. after[w] = thread[w]
      BY <1>2, <2>1
    <2>3. /\ [thread[w] EXCEPT !.at = "woken"] \in ThreadType
          /\ [thread[w] EXCEPT !.at = "woken"].at = "woken"
          /\ [thread[w] EXCEPT !.at = "woken"].limit = thread[w].limit
      BY <2>1 DEF ThreadType, At
    <2>4. z = [after EXCEPT ![w] = [thread[w] EXCEPT !.at = "woken"]]
      BY <1>4, <2>2
    <2>5. /\ z \in [U!Thread -> ThreadType] /\ z[w] = [thread[w] EXCEPT !.at = "woken"]
          /\ \A u \in U!Thread \ {w} : z[u] = after[u]
      BY <1>2, <2>1, <2>3, <2>4
    <2>6. z[t] = U!Idle /\ \A u \in U!Thread \ {t, w} : z[u] = thread[u]
      BY <1>2, <2>1, <2>5
    <2>7. z[w].at = "woken" /\ z[w].limit = thread[w].limit
      BY <2>3, <2>5
    <2> QED BY <2>1, <2>5, <2>6, <2>7, Zenon DEF Signalled
  <1>5. CASE U!Asleep(S) = {} /\ z = after
    BY <1>2, <1>5 DEF Signalled
  <1> QED BY <1>3, <1>4, <1>5

-----------------------------------------------------------------------------
(* The steps, by what they do to the ring *)

Took(t) ==
  /\ t \in Receiver /\ thread[t].at # "asleep"
  /\ count # 0 /\ got' = storage[queue_head] /\ queue_head' = (queue_head + 1) % Capacity /\ count' = count - 1
  /\ UNCHANGED <<storage, queue_tail, offered>> /\ thread' \in U!Signal(Sender, t)
Added(t, x) ==
  /\ t \in Sender /\ count # Capacity /\ storage' = [storage EXCEPT ![queue_tail] = x]
  /\ queue_tail' = (queue_tail + 1) % Capacity /\ count' = count + 1
  /\ UNCHANGED <<queue_head, got>> /\ offered' \in 0..MaxSends
  /\ thread' \in U!Signal(Receiver, t)
AddedFirst(t, x) ==
  /\ t \in Sender /\ count # Capacity /\ queue_head' = IF queue_head = 0 THEN Capacity - 1 ELSE queue_head - 1
  /\ storage' = [storage EXCEPT ![queue_head'] = x] /\ count' = count + 1
  /\ UNCHANGED <<queue_tail, got>> /\ offered' \in 0..MaxSends
  /\ thread' \in U!Signal(Receiver, t)
\* A thread waits, is woken or gives up: the ring is left alone.
Moved(t) ==
  /\ UNCHANGED <<storage, queue_head, queue_tail, count, got>> /\ offered' \in 0..MaxSends
  /\ \E r \in ThreadType :
       /\ thread' = [thread EXCEPT ![t] = r]
       /\ \/ r.at = "asleep" /\ count = 0 /\ r.limit \in ReceiveLimits \cup {thread[t].limit}
          \/ t \in Sender
          \/ r.at = "woken" /\ r.limit = thread[t].limit
          \/ r = U!Idle /\ thread[t].limit = "timed"

LEMMA Steps ==
  ASSUME U!PosixQueueAssumption, U!TypeOK, U!Next
  PROVE  \/ \E t \in Receiver : Took(t)
         \/ \E t \in Sender, x \in Value : Added(t, x) \/ AddedFirst(t, x)
         \/ \E t \in U!Thread : Moved(t)
  <1>1. /\ thread \in [U!Thread -> ThreadType] /\ offered \in 0..MaxSends /\ MaxSends \in Nat
        /\ ReceiveLimits \subseteq Limit /\ SendLimits \subseteq Limit
        /\ Receiver \subseteq U!Thread /\ Sender \subseteq U!Thread
    BY TypeParts DEF U!PosixQueueAssumption, Limit, U!Thread
  <1>2. \A t \in U!Thread : thread[t] \in ThreadType /\ thread[t].limit \in Limit
                          /\ thread[t].item \in Value
    BY <1>1 DEF ThreadType
  <1>3. ASSUME NEW t \in U!Thread, NEW limit \in Limit, NEW x \in Value,
               U!Waits(t, limit, x), offered' \in 0..MaxSends,
               t \in Sender \/ (count = 0 /\ limit \in ReceiveLimits \cup {thread[t].limit})
        PROVE  Moved(t)
    <2> DEFINE r == [at |-> "asleep", limit |-> limit, item |-> x]
    <2>1. r \in ThreadType /\ r.at = "asleep" /\ r.limit = limit
      BY DEF ThreadType, At
    <2>2. thread' = [thread EXCEPT ![t] = r] /\ UNCHANGED <<storage, queue_head, queue_tail, count, got>>
      BY <1>3 DEF U!Waits
    <2> HIDE DEF r
    <2> QED BY <1>3, <2>1, <2>2 DEF Moved
  <1>4. ASSUME NEW t \in Receiver, NEW limit \in Limit, U!bm_queue_receive(t, limit),
               UNCHANGED offered, thread[t].at # "asleep",
               limit \in ReceiveLimits \cup {thread[t].limit}
        PROVE  Took(t) \/ Moved(t)
    <2>1. 0 \in Value /\ offered' \in 0..MaxSends /\ t \in U!Thread
      BY <1>1, <1>4 DEF Value
    <2>2. CASE count = 0 /\ U!Waits(t, limit, 0)
      BY <1>3, <1>4, <2>1, <2>2
    <2>3. CASE ~(count = 0 /\ U!Waits(t, limit, 0))
      BY <1>4, <2>3 DEF U!bm_queue_receive, Took
    <2> QED BY <2>2, <2>3
  <1>5. ASSUME NEW t \in Sender, NEW limit \in Limit, NEW x \in Value,
               U!bm_queue_send(t, limit, x), offered' \in 0..MaxSends
        PROVE  Added(t, x) \/ Moved(t)
    <2>1. CASE count = Capacity /\ U!Waits(t, limit, x)
      BY <1>1, <1>3, <1>5, <2>1
    <2>2. CASE ~(count = Capacity /\ U!Waits(t, limit, x))
      BY <1>5, <2>2 DEF U!bm_queue_send, Added
    <2> QED BY <2>1, <2>2
  <1>6. ASSUME NEW t \in Receiver, U!Receive(t) \/ U!ReceiverResumes(t)
        PROVE  Took(t) \/ Moved(t)
    <2>1. CASE U!Receive(t)
      BY <1>1, <1>4, <2>1 DEF U!Receive
    <2>2. CASE U!ReceiverResumes(t)
      BY <1>1, <1>2, <1>4, <2>2 DEF U!ReceiverResumes
    <2> QED BY <1>6, <2>1, <2>2
  <1>7. ASSUME NEW t \in Sender, U!Send(t) \/ U!SenderResumes(t)
        PROVE  (\E x \in Value : Added(t, x) \/ AddedFirst(t, x)) \/ Moved(t)
    <2>1. CASE U!Send(t)
      <3>1. offered' \in 0..MaxSends /\ offered' \in Value
        BY <1>1, <2>1 DEF U!Send, Value, U!Item
      <3>2. CASE \E limit \in SendLimits : U!bm_queue_send(t, limit, offered')
        BY <1>1, <1>5, <3>1, <3>2
      <3>3. CASE U!bm_queue_send_to_front_from_isr(t, offered')
        BY <3>1, <3>3 DEF U!bm_queue_send_to_front_from_isr, AddedFirst
      <3> QED BY <2>1, <3>2, <3>3 DEF U!Send
    <2>2. CASE U!SenderResumes(t)
      BY <1>1, <1>2, <1>5, <2>2 DEF U!SenderResumes
    <2> QED BY <1>7, <2>1, <2>2
  <1>8. ASSUME NEW t \in U!Thread, U!Spurious(t) PROVE Moved(t)
    <2> DEFINE r == [thread[t] EXCEPT !.at = "woken"]
    <2>1. r \in ThreadType /\ r.at = "woken" /\ r.limit = thread[t].limit
      BY <1>2 DEF ThreadType, At
    <2>2. thread' = [thread EXCEPT ![t] = r]
          /\ UNCHANGED <<storage, queue_head, queue_tail, count, offered, got>>
      BY <1>8 DEF U!Spurious
    <2> HIDE DEF r
    <2> QED BY <1>1, <2>1, <2>2 DEF Moved
  <1>9. ASSUME NEW t \in U!Thread, U!TimesOut(t) PROVE Moved(t)
    BY <1>1, <1>9, IdleTyped DEF U!TimesOut, Moved
  <1> QED BY <1>1, <1>6, <1>7, <1>8, <1>9 DEF U!Next

-----------------------------------------------------------------------------
(* The ring is a queue *)

LEMMA RingNumbers ==
  ASSUME U!PosixQueueAssumption, U!TypeOK
  PROVE  /\ Capacity \in Nat \ {0} /\ storage \in Storage /\ queue_head \in Nat /\ queue_head < Capacity
         /\ count \in Nat /\ count <= Capacity /\ queue_tail \in 0..(Capacity - 1)
         /\ thread \in [U!Thread -> ThreadType] /\ offered \in 0..MaxSends /\ got \in Value
         /\ Receiver \subseteq U!Thread /\ Sender \subseteq U!Thread /\ Receiver \cap Sender = {}
  <1>1. Capacity \in Nat \ {0} /\ Receiver \cap Sender = {}
    BY DEF U!PosixQueueAssumption
  <1> QED BY <1>1, TypeParts DEF U!Thread

LEMMA TookRing ==
  ASSUME U!PosixQueueAssumption, U!RingInv, NEW t \in Receiver, Took(t)
  PROVE  U!RingInv' /\ U!F!Take
  <1>1. U!TypeOK /\ queue_tail = (queue_head + count) % Capacity
    BY DEF U!RingInv
  <1>2. /\ Capacity \in Nat \ {0} /\ storage \in Storage /\ queue_head \in Nat /\ queue_head < Capacity
        /\ count \in Nat /\ count <= Capacity /\ queue_tail \in 0..(Capacity - 1)
        /\ offered \in 0..MaxSends /\ got \in Value /\ t \in U!Thread
        /\ Sender \in SUBSET U!Thread /\ t \in U!Thread \ Sender
    BY <1>1, RingNumbers
  <1>3. /\ count # 0 /\ got' = storage[queue_head] /\ queue_head' = (queue_head + 1) % Capacity
        /\ count' = count - 1 /\ storage' = storage /\ queue_tail' = queue_tail /\ offered' = offered
        /\ thread' \in U!Signal(Sender, t)
    BY DEF Took
  <1>4. /\ queue_head' \in 0..(Capacity - 1)
        /\ (queue_head + count) % Capacity = (queue_head' + (count - 1)) % Capacity
        /\ Ring(storage, queue_head, count) # <<>> /\ Head(Ring(storage, queue_head, count)) = storage[queue_head]
        /\ Ring(storage, queue_head', count - 1) = Tail(Ring(storage, queue_head, count))
    <2>1. \A s \in Storage : \A h, c \in Nat : h < Capacity /\ c <= Capacity /\ c # 0
            => \A k : k = (h + 1) % Capacity
               => /\ k \in 0..(Capacity - 1) /\ (h + c) % Capacity = (k + (c - 1)) % Capacity
                  /\ Ring(s, h, c) # <<>> /\ Head(Ring(s, h, c)) = s[h]
                  /\ Ring(s, k, c - 1) = Tail(Ring(s, h, c))
      BY <1>2, RingTake, Zenon
    <2>2. /\ storage \in Storage /\ queue_head \in Nat /\ count \in Nat /\ queue_head < Capacity
          /\ count <= Capacity /\ count # 0 /\ queue_head' = (queue_head + 1) % Capacity
      BY <1>2, <1>3, Zenon
    <2> QED BY ONLY <2>1, <2>2, Zenon
  <1>5. Signalled(Sender, t, thread')
    BY <1>1, <1>2, <1>3, SignalIs
  <1>6. thread' \in [U!Thread -> ThreadType]
    BY <1>5 DEF Signalled
  <1>7. got' \in Value /\ count' \in 0..Capacity
    BY <1>2, <1>3 DEF Storage
  <1>8. U!TypeOK'
    BY <1>2, <1>3, <1>4, <1>6, <1>7 DEF U!TypeOK, Storage, ThreadType, Value, At, Limit
  <1>9. U!RingInv'
    BY <1>1, <1>3, <1>4, <1>8 DEF U!RingInv
  <1>10. U!F!Take
    BY <1>3, <1>4 DEF U!F!Take, Ring
  <1> QED BY <1>9, <1>10

LEMMA AddedRing ==
  ASSUME U!PosixQueueAssumption, U!RingInv, NEW t \in Sender, NEW x \in Value, Added(t, x)
  PROVE  U!RingInv' /\ U!F!Put
  <1>1. U!TypeOK /\ queue_tail = (queue_head + count) % Capacity
    BY DEF U!RingInv
  <1>2. /\ Capacity \in Nat \ {0} /\ storage \in Storage /\ queue_head \in Nat /\ queue_head < Capacity
        /\ count \in Nat /\ count <= Capacity /\ queue_head \in 0..(Capacity - 1)
        /\ got \in Value /\ t \in U!Thread
        /\ Receiver \in SUBSET U!Thread /\ t \in U!Thread \ Receiver
    BY <1>1, RingNumbers
  <1>3. /\ count < Capacity /\ storage' = [storage EXCEPT ![queue_tail] = x]
        /\ queue_tail' = (queue_tail + 1) % Capacity /\ count' = count + 1 /\ queue_head' = queue_head /\ got' = got
        /\ offered' \in 0..MaxSends /\ thread' \in U!Signal(Receiver, t)
    BY <1>2 DEF Added
  <1>4. /\ (queue_tail + 1) % Capacity = (queue_head + (count + 1)) % Capacity
        /\ (queue_tail + 1) % Capacity \in 0..(Capacity - 1)
        /\ storage' \in Storage
        /\ Len(Ring(storage', queue_head, count + 1)) = Len(Ring(storage, queue_head, count)) + 1
        /\ Ring(storage, queue_head, count)
             = SubSeq(Ring(storage', queue_head, count + 1), 1, Len(Ring(storage, queue_head, count)))
    BY <1>1, <1>2, <1>3, RingPut
  <1>5. Signalled(Receiver, t, thread')
    BY <1>1, <1>2, <1>3, SignalIs
  <1>6. thread' \in [U!Thread -> ThreadType]
    BY <1>5 DEF Signalled
  <1>7. count' \in 0..Capacity
    BY <1>2, <1>3
  <1>8. U!TypeOK'
    BY <1>2, <1>3, <1>4, <1>6, <1>7 DEF U!TypeOK, Storage, ThreadType, Value, At, Limit
  <1>9. U!RingInv'
    BY <1>3, <1>4, <1>8 DEF U!RingInv
  <1>10. U!F!Put
    <2>1. [n \in 1..count |-> storage[(queue_head + n - 1) % Capacity]] = Ring(storage, queue_head, count)
      BY DEF Ring
    <2>2. [n \in 1..count' |-> storage'[(queue_head' + n - 1) % Capacity]]
            = Ring(storage', queue_head, count + 1)
      BY <1>3 DEF Ring
    <2> QED BY <1>3, <1>4, <2>1, <2>2 DEF U!F!Put
  <1> QED BY <1>9, <1>10

LEMMA AddedFirstRing ==
  ASSUME U!PosixQueueAssumption, U!RingInv, NEW t \in Sender, NEW x \in Value, AddedFirst(t, x)
  PROVE  U!RingInv' /\ U!F!PutFront
  <1>1. U!TypeOK /\ queue_tail = (queue_head + count) % Capacity
    BY DEF U!RingInv
  <1>2. /\ Capacity \in Nat \ {0} /\ storage \in Storage /\ queue_head \in Nat /\ queue_head < Capacity
        /\ count \in Nat /\ count <= Capacity /\ queue_tail \in 0..(Capacity - 1)
        /\ got \in Value /\ t \in U!Thread
        /\ Receiver \in SUBSET U!Thread /\ t \in U!Thread \ Receiver
    BY <1>1, RingNumbers
  <1>3. /\ count < Capacity /\ queue_head' = IF queue_head = 0 THEN Capacity - 1 ELSE queue_head - 1
        /\ storage' = [storage EXCEPT ![queue_head'] = x] /\ count' = count + 1
        /\ queue_tail' = queue_tail /\ got' = got
        /\ offered' \in 0..MaxSends /\ thread' \in U!Signal(Receiver, t)
    BY <1>2 DEF AddedFirst
  <1>4. /\ queue_head' \in 0..(Capacity - 1)
        /\ (queue_head + count) % Capacity = (queue_head' + (count + 1)) % Capacity
        /\ storage' \in Storage
        /\ Ring(storage', queue_head', count + 1) # <<>>
        /\ Ring(storage, queue_head, count) = Tail(Ring(storage', queue_head', count + 1))
    BY <1>2, <1>3, RingPutFront
  <1>5. Signalled(Receiver, t, thread')
    BY <1>1, <1>2, <1>3, SignalIs
  <1>6. thread' \in [U!Thread -> ThreadType]
    BY <1>5 DEF Signalled
  <1>7. count' \in 0..Capacity
    BY <1>2, <1>3
  <1>8. U!TypeOK'
    BY <1>2, <1>3, <1>4, <1>6, <1>7 DEF U!TypeOK, Storage, ThreadType, Value, At, Limit
  <1>9. U!RingInv'
    BY <1>1, <1>3, <1>4, <1>8 DEF U!RingInv
  <1>10. U!F!PutFront
    BY <1>3, <1>4 DEF U!F!PutFront, Ring
  <1> QED BY <1>9, <1>10

LEMMA MovedRing ==
  ASSUME U!PosixQueueAssumption, U!RingInv, NEW t \in U!Thread, Moved(t)
  PROVE  U!RingInv' /\ UNCHANGED <<storage, queue_head, count, got>>
  <1>1. U!TypeOK /\ queue_tail = (queue_head + count) % Capacity
    BY DEF U!RingInv
  <1>2. UNCHANGED <<storage, queue_head, queue_tail, count, got>> /\ offered' \in 0..MaxSends
    BY DEF Moved
  <1>3. thread' \in [U!Thread -> ThreadType]
    BY <1>1, TypeParts DEF Moved
  <1>4. U!TypeOK'
    BY <1>1, <1>2, <1>3 DEF U!TypeOK, ThreadType, Value, At, Limit
  <1> QED BY <1>1, <1>2, <1>4 DEF U!RingInv

\* Every step of the ring is a step of a queue, or leaves the queue alone.
LEMMA NextRing ==
  ASSUME U!PosixQueueAssumption, U!RingInv, [U!Next]_U!vars
  PROVE  /\ U!RingInv'
         /\ U!F!Next \/ UNCHANGED <<storage, queue_head, count, got>>
  <1>1. U!TypeOK
    BY DEF U!RingInv
  <1>2. CASE UNCHANGED U!vars
    BY <1>2 DEF U!vars, U!RingInv, U!TypeOK
  <1>3. CASE U!Next
    <2>1. \/ \E t \in Receiver : Took(t)
          \/ \E t \in Sender, x \in Value : Added(t, x) \/ AddedFirst(t, x)
          \/ \E t \in U!Thread : Moved(t)
      BY <1>1, <1>3, Steps
    <2>2. ASSUME NEW t \in Receiver, Took(t) PROVE U!RingInv' /\ U!F!Next
      BY <2>2, TookRing DEF U!F!Next
    <2>3. ASSUME NEW t \in Sender, NEW x \in Value, Added(t, x) PROVE U!RingInv' /\ U!F!Next
      BY <2>3, AddedRing DEF U!F!Next
    <2>4. ASSUME NEW t \in Sender, NEW x \in Value, AddedFirst(t, x) PROVE U!RingInv' /\ U!F!Next
      BY <2>4, AddedFirstRing DEF U!F!Next
    <2>5. ASSUME NEW t \in U!Thread, Moved(t)
          PROVE  U!RingInv' /\ UNCHANGED <<storage, queue_head, count, got>>
      BY <2>5, MovedRing
    <2> QED BY <2>1, <2>2, <2>3, <2>4, <2>5
  <1> QED BY <1>2, <1>3

LEMMA InitRing ==
  ASSUME U!PosixQueueAssumption, U!Init
  PROVE  U!RingInv /\ U!F!Init
  <1>1. Capacity \in Nat \ {0} /\ MaxSends \in Nat
    BY DEF U!PosixQueueAssumption
  <1>2. /\ storage = [i \in 0..(Capacity - 1) |-> 0] /\ queue_head = 0 /\ queue_tail = 0 /\ count = 0
        /\ thread = [t \in U!Thread |-> U!Idle] /\ offered = 0 /\ got = 0
    BY DEF U!Init, U!bm_queue_create
  <1>3. U!TypeOK
    BY <1>1, <1>2, IdleTyped DEF U!TypeOK, ThreadType, Value, At, Limit
  <1>4. (queue_head + count) % Capacity = 0
    BY <1>1, <1>2
  <1>5. U!F!Init
    BY <1>2 DEF U!F!Init
  <1> QED BY <1>2, <1>3, <1>4, <1>5 DEF U!RingInv

LEMMA RingIsAFifo ==
  ASSUME U!PosixQueueAssumption, U!RingInv, [U!Next]_U!vars
  PROVE  [U!F!Next]_<<[n \in 1..count |-> storage[(queue_head + n - 1) % Capacity]], got>>
  <1>1. CASE U!F!Next
    BY <1>1
  <1>2. CASE UNCHANGED <<storage, queue_head, count, got>>
    BY <1>2
  <1> QED BY <1>1, <1>2, NextRing

\* For any capacity, any number of threads that send and receive with any
\* timeouts, and items that interrupt handlers put first: the ring of
\* bm_queue_receive, bm_queue_send and bm_queue_send_to_front_from_isr hands
\* out what was put in, once each, from the front, in the order in which it
\* stands there.
THEOREM ImplementsFifo ==
  ASSUME U!PosixQueueAssumption PROVE U!Spec => U!IsAFifo
  <1>1. U!Init => U!RingInv /\ U!F!Init
    BY InitRing
  <1>2. U!RingInv /\ [U!Next]_U!vars => U!RingInv'
    BY NextRing
  <1>3. U!RingInv /\ [U!Next]_U!vars
          => [U!F!Next]_<<[n \in 1..count |-> storage[(queue_head + n - 1) % Capacity]], got>>
    BY RingIsAFifo
  <1> QED BY <1>1, <1>2, <1>3, PTL DEF U!Spec, U!IsAFifo, U!F!Spec

-----------------------------------------------------------------------------
(* A receiver that waits is told *)

\* Where a wait that is over cannot have used up the signal for another
\* receiver: none has a limit, or there is no other.
NoTheft == "timed" \notin ReceiveLimits \/ \E r : Receiver = {r}

\* Beside a receiver that sleeps there are no more items than receivers that
\* were told.
Woken == {t \in Receiver : thread[t].at = "woken"}
ToldInv ==
    /\ U!Asleep(Receiver) # {} => count <= Cardinality(Woken)
    /\ "timed" \notin ReceiveLimits => \A t \in Receiver : thread[t].limit # "timed"

LEMMA WokenFinite ==
  ASSUME IsFiniteSet(Receiver)
  PROVE  IsFiniteSet(Woken) /\ Cardinality(Woken) \in Nat
  BY FS_Subset, FS_CardinalityType DEF Woken

\* The receivers but t are as they were, and so are those that sleep.
LEMMA TookTold ==
  ASSUME U!PosixQueueAssumption, IsFiniteSet(Receiver), U!RingInv, ToldInv,
         NEW t \in Receiver, Took(t)
  PROVE  ToldInv'
  <1>1. U!TypeOK /\ t \in U!Thread \ Sender /\ Sender \in SUBSET U!Thread
        /\ Receiver \subseteq U!Thread /\ Receiver \cap Sender = {} /\ count \in Nat
    BY RingNumbers DEF U!RingInv
  <1>2. /\ thread[t].at # "asleep" /\ count # 0 /\ count' = count - 1
        /\ thread' \in U!Signal(Sender, t)
    BY DEF Took
  <1>3. Signalled(Sender, t, thread')
    BY <1>1, <1>2, SignalIs
  <1>4. thread'[t] = U!Idle /\ \A u \in Receiver \ {t} : thread'[u] = thread[u]
    BY <1>1, <1>3 DEF Signalled
  <1>5. U!Asleep(Receiver)' = U!Asleep(Receiver)
    BY <1>2, <1>4, IdleTyped DEF U!Asleep
  <1>6. Woken' = Woken \ {t}
    BY <1>4, IdleTyped DEF Woken
  <1>7. Cardinality(Woken \ {t}) >= Cardinality(Woken) - 1
    <2>1. IsFiniteSet(Woken) /\ Cardinality(Woken) \in Nat
      BY WokenFinite
    <2>2. CASE t \in Woken
      <3>1. Cardinality(Woken \ {t}) = Cardinality(Woken) - 1
        BY <2>1, <2>2, FS_RemoveElement
      <3> QED BY <2>1, <3>1
    <2>3. CASE t \notin Woken
      <3>1. Woken \ {t} = Woken
        BY <2>3
      <3> QED BY <2>1, <3>1
    <2> QED BY <2>2, <2>3
  <1>8. Cardinality(Woken) \in Nat /\ Cardinality(Woken \ {t}) \in Nat
    <2>1. IsFiniteSet(Woken)
      BY WokenFinite
    <2> QED BY <2>1, FS_RemoveElement, FS_CardinalityType, WokenFinite
  <1>9. U!Asleep(Receiver)' # {} => count' <= Cardinality(Woken')
    BY <1>1, <1>2, <1>5, <1>6, <1>7, <1>8 DEF ToldInv
  <1>10. "timed" \notin ReceiveLimits => \A u \in Receiver : thread'[u].limit # "timed"
    BY <1>4, IdleTyped DEF ToldInv
  <1> QED BY <1>9, <1>10 DEF ToldInv

\* One item more, and one receiver more that was told, or none that sleeps.
LEMMA AddedTold ==
  ASSUME U!PosixQueueAssumption, IsFiniteSet(Receiver), U!RingInv, ToldInv,
         NEW t \in Sender, count' = count + 1, thread' \in U!Signal(Receiver, t)
  PROVE  ToldInv'
  <1>1. U!TypeOK /\ t \in U!Thread \ Receiver /\ Receiver \in SUBSET U!Thread /\ count \in Nat
    BY RingNumbers DEF U!RingInv
  <1>2. Signalled(Receiver, t, thread')
    BY <1>1, SignalIs
  <1>3. CASE U!Asleep(Receiver) = {} /\ \A u \in U!Thread \ {t} : thread'[u] = thread[u]
    <2>1. \A u \in Receiver : thread'[u] = thread[u]
      BY <1>1, <1>3
    <2>2. U!Asleep(Receiver)' = {}
      BY <1>3, <2>1 DEF U!Asleep
    <2> QED BY <2>1, <2>2 DEF ToldInv
  <1>4. ASSUME NEW w \in Receiver, thread[w].at = "asleep", thread'[w].at = "woken",
               thread'[w].limit = thread[w].limit,
               \A u \in U!Thread \ {t, w} : thread'[u] = thread[u]
        PROVE  ToldInv'
    <2>1. \A u \in Receiver \ {w} : thread'[u] = thread[u]
      BY <1>1, <1>4
    <2>2. w \in U!Asleep(Receiver) /\ w \notin Woken
      BY <1>4 DEF U!Asleep, Woken
    <2>3. Woken' = Woken \cup {w}
      BY <1>4, <2>1 DEF Woken
    <2>4. Cardinality(Woken \cup {w}) = Cardinality(Woken) + 1 /\ Cardinality(Woken) \in Nat
      BY <2>2, WokenFinite, FS_AddElement
    <2>5. count <= Cardinality(Woken)
      BY <2>2 DEF ToldInv
    <2>6. count' <= Cardinality(Woken')
      BY <1>1, <2>3, <2>4, <2>5
    <2> QED BY <1>4, <2>1, <2>6 DEF ToldInv
  <1> QED BY <1>2, <1>3, <1>4 DEF Signalled

LEMMA MovedTold ==
  ASSUME U!PosixQueueAssumption, IsFiniteSet(Receiver), NoTheft, U!RingInv, ToldInv,
         NEW t \in U!Thread, Moved(t)
  PROVE  ToldInv'
  <1>1. /\ thread \in [U!Thread -> ThreadType] /\ Receiver \subseteq U!Thread
        /\ Receiver \cap Sender = {} /\ count \in Nat
    BY RingNumbers DEF U!RingInv
  <1>2. PICK r \in ThreadType :
          /\ thread' = [thread EXCEPT ![t] = r] /\ count' = count
          /\ \/ r.at = "asleep" /\ count = 0 /\ r.limit \in ReceiveLimits \cup {thread[t].limit}
             \/ t \in Sender
             \/ r.at = "woken" /\ r.limit = thread[t].limit
             \/ r = U!Idle /\ thread[t].limit = "timed"
    BY DEF Moved
  <1>3. thread'[t] = r /\ \A u \in U!Thread \ {t} : thread'[u] = thread[u]
    BY <1>1, <1>2
  <1>4. Cardinality(Woken) \in Nat /\ IsFiniteSet(Woken) /\ IsFiniteSet(Woken')
        /\ Cardinality(Woken') \in Nat
    <2>1. IsFiniteSet(Woken')
      BY FS_Subset DEF Woken
    <2> QED BY <2>1, WokenFinite, FS_CardinalityType
  <1>5. CASE t \notin Receiver
    <2>1. \A u \in Receiver : thread'[u] = thread[u]
      BY <1>1, <1>3, <1>5
    <2>2. U!Asleep(Receiver)' = U!Asleep(Receiver) /\ Woken' = Woken
      BY <2>1 DEF U!Asleep, Woken
    <2> QED BY <1>2, <2>1, <2>2 DEF ToldInv
  <1>6. CASE t \in Receiver /\ r.at = "asleep" /\ count = 0
             /\ r.limit \in ReceiveLimits \cup {thread[t].limit}
    <2>1. count' <= Cardinality(Woken')
      BY <1>2, <1>4, <1>6
    <2>2. "timed" \notin ReceiveLimits => \A u \in Receiver : thread'[u].limit # "timed"
      BY <1>1, <1>3, <1>6 DEF ToldInv
    <2> QED BY <2>1, <2>2 DEF ToldInv
  <1>7. CASE t \in Receiver /\ r.at = "woken" /\ r.limit = thread[t].limit
    <2>1. U!Asleep(Receiver)' \subseteq U!Asleep(Receiver) /\ Woken \subseteq Woken'
      BY <1>1, <1>3, <1>7 DEF U!Asleep, Woken
    <2>2. Cardinality(Woken) <= Cardinality(Woken')
      BY <1>4, <2>1, FS_Subset
    <2>3. U!Asleep(Receiver)' # {} => count' <= Cardinality(Woken')
      BY <1>1, <1>2, <1>4, <2>1, <2>2 DEF ToldInv
    <2>4. "timed" \notin ReceiveLimits => \A u \in Receiver : thread'[u].limit # "timed"
      BY <1>1, <1>3, <1>7 DEF ToldInv
    <2> QED BY <2>3, <2>4 DEF ToldInv
  <1>8. CASE t \in Receiver /\ r = U!Idle /\ thread[t].limit = "timed"
    <2>1. "timed" \in ReceiveLimits /\ Receiver = {t}
      BY <1>8 DEF NoTheft, ToldInv
    <2>2. U!Asleep(Receiver)' = {}
      BY <1>3, <1>8, <2>1, IdleTyped DEF U!Asleep
    <2> QED BY <2>1, <2>2 DEF ToldInv
  <1> QED BY <1>1, <1>2, <1>5, <1>6, <1>7, <1>8

LEMMA NextTold ==
  ASSUME U!PosixQueueAssumption, IsFiniteSet(Receiver), NoTheft, U!RingInv, ToldInv, [U!Next]_U!vars
  PROVE  ToldInv'
  <1>1. CASE UNCHANGED U!vars
    BY <1>1 DEF U!vars, ToldInv, U!Asleep, Woken
  <1>2. CASE U!Next
    <2>1. \/ \E t \in Receiver : Took(t)
          \/ \E t \in Sender, x \in Value : Added(t, x) \/ AddedFirst(t, x)
          \/ \E t \in U!Thread : Moved(t)
      BY <1>2, Steps DEF U!RingInv
    <2>2. ASSUME NEW t \in Receiver, Took(t) PROVE ToldInv'
      BY <2>2, TookTold
    <2>3. ASSUME NEW t \in Sender, NEW x \in Value, Added(t, x) \/ AddedFirst(t, x)
          PROVE  ToldInv'
      BY <2>3, AddedTold DEF Added, AddedFirst
    <2>4. ASSUME NEW t \in U!Thread, Moved(t) PROVE ToldInv'
      BY <2>4, MovedTold
    <2> QED BY <2>1, <2>2, <2>3, <2>4
  <1> QED BY <1>1, <1>2

LEMMA InitTold ==
  ASSUME U!PosixQueueAssumption, U!Init PROVE ToldInv
  <1>1. \A t \in Receiver : thread[t] = U!Idle
    BY DEF U!Init, U!bm_queue_create, U!Thread
  <1>2. U!Asleep(Receiver) = {}
    BY <1>1, IdleTyped DEF U!Asleep
  <1> QED BY <1>1, <1>2, IdleTyped DEF ToldInv

\* Among any number of receivers that wait without a limit, or for one that
\* waits with one, no wake-up is lost: while there is an item and a receiver
\* sleeps, some receiver was woken and has yet to look (the loops around
\* pthread_cond_wait in bm_queue_receive, the signals of the senders), though
\* waits may end for no reason and others take the item first.
THEOREM ReceiversTold ==
  ASSUME U!PosixQueueAssumption, IsFiniteSet(Receiver), NoTheft
  PROVE  U!Spec => []U!ReceiverIsTold
  <1>1. U!Init => U!RingInv /\ ToldInv
    BY InitRing, InitTold
  <1>2. U!RingInv /\ ToldInv /\ [U!Next]_U!vars => U!RingInv' /\ ToldInv'
    BY NextRing, NextTold
  <1>3. U!RingInv /\ ToldInv => U!ReceiverIsTold
    <2> SUFFICES ASSUME U!RingInv, ToldInv, count # 0, U!Asleep(Receiver) # {}
                 PROVE  \E t \in Receiver : thread[t].at = "woken"
      BY DEF U!ReceiverIsTold
    <2>1. count \in Nat /\ count <= Cardinality(Woken)
      BY RingNumbers DEF U!RingInv, ToldInv
    <2>2. Woken # {}
      BY <2>1, FS_EmptySet
    <2> QED BY <2>2 DEF Woken
  <1> QED BY <1>1, <1>2, <1>3, PTL DEF U!Spec

-----------------------------------------------------------------------------
(* The semaphore *)

\* Nobody holds a semaphore that is free, and one task one that is not.
HeldBy(t2, f) ==
    \/ f = 1 /\ \A t \in Task : t2[t] # "in"
    \/ f = 0 /\ \E h \in Task : \A t \in Task : t2[t] = "in" <=> t = h

SemaphoreInv == Sem!TypeOK /\ Sem!FreeIsOffered /\ HeldBy(task, free)

LEMMA SemaphoreInit ==
  ASSUME Sem!Init PROVE SemaphoreInv
  BY DEF Sem!Init, SemaphoreInv, Sem!TypeOK, Sem!FreeIsOffered, HeldBy

LEMMA TakeKeeps ==
  ASSUME SemaphoreInv, ~Consumes, NEW t \in Task, Sem!bm_semaphore_take(t)
  PROVE  SemaphoreInv'
  <1>1. free \in 0..1 /\ task \in [Task -> {"out", "asleep", "woken", "in"}]
    BY DEF SemaphoreInv, Sem!TypeOK
  <1>2. CASE Sem!Take(t) /\ free = 0
    <2>1. task[t] # "in" /\ task' = [task EXCEPT ![t] = "asleep"] /\ free' = free
      BY <1>2 DEF Sem!Take
    <2>2. task' \in [Task -> {"out", "asleep", "woken", "in"}]
          /\ \A x \in Task : task'[x] = "in" <=> task[x] = "in"
      BY <1>1, <2>1
    <2>3. HeldBy(task', free')
      BY <2>1, <2>2 DEF HeldBy, SemaphoreInv
    <2> QED BY <1>1, <1>2, <2>1, <2>2, <2>3 DEF SemaphoreInv, Sem!TypeOK, Sem!FreeIsOffered
  <1>3. CASE Sem!Take(t) /\ free # 0
    <2>1. free' = 0 /\ task' = [task EXCEPT ![t] = "in"]
      BY <1>3 DEF Sem!Take
    <2>2. \A x \in Task : task[x] # "in"
      BY <1>3 DEF HeldBy, SemaphoreInv
    <2>3. task' \in [Task -> {"out", "asleep", "woken", "in"}]
          /\ \A x \in Task : task'[x] = "in" <=> x = t
      BY <1>1, <2>1, <2>2
    <2> QED BY <2>1, <2>3 DEF SemaphoreInv, Sem!TypeOK, Sem!FreeIsOffered, HeldBy
  <1>4. CASE Sem!TakeTimesOut(t)
    <2>1. task[t] = "asleep" /\ task' = [task EXCEPT ![t] = "out"] /\ free' = free
      BY <1>4 DEF Sem!TakeTimesOut
    <2>2. task' \in [Task -> {"out", "asleep", "woken", "in"}]
          /\ \A x \in Task : task'[x] = "in" <=> task[x] = "in"
      BY <1>1, <2>1
    <2>3. \A x \in Task : (task'[x] = "asleep" => task[x] = "asleep")
                          /\ (task[x] = "woken" => task'[x] = "woken")
      BY <1>1, <2>1
    <2>4. HeldBy(task', free')
      BY <2>1, <2>2 DEF HeldBy, SemaphoreInv
    <2>5. Sem!FreeIsOffered'
      BY <2>1, <2>3 DEF SemaphoreInv, Sem!FreeIsOffered
    <2> QED BY <1>1, <2>1, <2>2, <2>4, <2>5 DEF SemaphoreInv, Sem!TypeOK
  <1>5. CASE Sem!Spurious(t)
    <2>1. task[t] = "asleep" /\ task' = [task EXCEPT ![t] = "woken"] /\ free' = free
      BY <1>5 DEF Sem!Spurious
    <2>2. task' \in [Task -> {"out", "asleep", "woken", "in"}] /\ task'[t] = "woken"
          /\ \A x \in Task : task'[x] = "in" <=> task[x] = "in"
      BY <1>1, <2>1
    <2>3. HeldBy(task', free')
      BY <2>1, <2>2 DEF HeldBy, SemaphoreInv
    <2> QED BY <1>1, <2>1, <2>2, <2>3 DEF SemaphoreInv, Sem!TypeOK, Sem!FreeIsOffered
  <1> QED BY <1>2, <1>3, <1>4, <1>5 DEF Sem!bm_semaphore_take, Sem!Take

LEMMA GiveKeeps ==
  ASSUME SemaphoreInv, NEW t \in Task, Sem!bm_semaphore_give(t)
  PROVE  SemaphoreInv'
  <1> DEFINE after == [task EXCEPT ![t] = "out"]
             sleepers == {w \in Task : task[w] = "asleep"}
  <1>1. free \in 0..1 /\ task \in [Task -> {"out", "asleep", "woken", "in"}]
        /\ task[t] = "in" /\ free' = 1
    BY DEF SemaphoreInv, Sem!TypeOK, Sem!bm_semaphore_give
  <1>2. free = 0 /\ \A x \in Task : task[x] = "in" <=> x = t
    BY <1>1 DEF SemaphoreInv, HeldBy
  <1>3. /\ after \in [Task -> {"out", "asleep", "woken", "in"}]
        /\ \A x \in Task : after[x] # "in" /\ (after[x] = "asleep" <=> x \in sleepers)
    BY <1>1, <1>2
  <1>4. task' \in IF sleepers = {} THEN {after} ELSE {[after EXCEPT ![w] = "woken"] : w \in sleepers}
    BY <1>2 DEF Sem!bm_semaphore_give
  <1>5. sleepers \subseteq Task
    OBVIOUS
  <1> HIDE DEF after, sleepers
  <1>6. /\ task' \in [Task -> {"out", "asleep", "woken", "in"}] /\ \A x \in Task : task'[x] # "in"
        /\ (\E x \in Task : task'[x] = "asleep") => \E x \in Task : task'[x] = "woken"
    <2>1. CASE sleepers = {}
      <3>1. task' = after
        BY <1>4, <2>1
      <3> QED BY <1>3, <2>1, <3>1
    <2>2. CASE sleepers # {}
      <3>1. PICK w \in sleepers : task' = [after EXCEPT ![w] = "woken"]
        BY <1>4, <2>2
      <3>2. w \in Task /\ task'[w] = "woken"
        BY <1>3, <1>5, <3>1
      <3> QED BY <1>3, <3>1, <3>2
    <2> QED BY <2>1, <2>2
  <1> QED BY <1>1, <1>6 DEF SemaphoreInv, Sem!TypeOK, Sem!FreeIsOffered, HeldBy

LEMMA SemaphoreStep ==
  ASSUME SemaphoreInv, ~Consumes, [Sem!Next]_Sem!vars
  PROVE  SemaphoreInv'
  <1>1. CASE UNCHANGED Sem!vars
    BY <1>1 DEF Sem!vars, SemaphoreInv, Sem!TypeOK, Sem!FreeIsOffered, HeldBy
  <1> QED BY <1>1, TakeKeeps, GiveKeeps DEF Sem!Next

LEMMA SemaphoreImplies ==
  ASSUME SemaphoreInv
  PROVE  Sem!TypeOK /\ Sem!OneHolder /\ Sem!FreeIsOffered
  <1> DEFINE held == {t \in Task : task[t] = "in"}
  <1>1. Sem!Cardinality(held) = Cardinality(held)
    BY DEF Sem!Cardinality, Cardinality
  <1>2. CASE free = 1 /\ \A t \in Task : task[t] # "in"
    <2>1. held = {}
      BY <1>2
    <2>2. Cardinality(held) = 0
      BY <2>1, FS_EmptySet
    <2> QED BY <1>1, <1>2, <2>2 DEF Sem!OneHolder, SemaphoreInv
  <1>3. CASE free = 0 /\ \E h \in Task : \A t \in Task : task[t] = "in" <=> t = h
    <2>1. PICK h \in Task : \A t \in Task : task[t] = "in" <=> t = h
      BY <1>3
    <2>2. held = {h}
      BY <2>1
    <2>3. Cardinality(held) = 1
      BY <2>2, FS_Singleton
    <2> QED BY <1>1, <1>3, <2>3 DEF Sem!OneHolder, SemaphoreInv
  <1> QED BY <1>2, <1>3 DEF SemaphoreInv, HeldBy

-----------------------------------------------------------------------------
(* The stream *)

\* A byte, as the model knows it; the buffers; a place counted past the end.
Byte == Nat \X Nat
Buffers == [0..(StreamSize - 1) -> Byte]
Wrap(a) == a % StreamSize

LEMMA WrapSum ==
  ASSUME StreamSize \in Nat \ {0}, NEW h \in Nat, h < StreamSize, NEW n \in Nat, n <= StreamSize
  PROVE  Wrap(h + n) = IF h + n < StreamSize THEN h + n ELSE h + n - StreamSize
  BY AroundSum, Zenon DEF Wrap

LEMMA WrapPlace ==
  ASSUME StreamSize \in Nat \ {0}, NEW h \in Nat, h < StreamSize,
         NEW n \in Nat \ {0}, n <= StreamSize + 1
  PROVE  /\ Wrap(h + n - 1) = IF h + n - 1 < StreamSize THEN h + n - 1 ELSE h + n - 1 - StreamSize
         /\ Wrap(h + n - 1) \in 0..(StreamSize - 1)
  BY Place, Zenon DEF Wrap

\* How far place n of the c bytes from h on is from their end.
LEMMA Distance ==
  ASSUME StreamSize \in Nat \ {0}, NEW h \in Nat, h < StreamSize, NEW c \in Nat, c <= StreamSize,
         NEW n \in Nat \ {0}, n <= StreamSize
  PROVE  Wrap((Wrap(h + n - 1) + StreamSize) - Wrap(h + c))
           = IF n <= c THEN StreamSize + n - 1 - c ELSE n - 1 - c
  <1> DEFINE t == Wrap(h + c)
             k == Wrap(h + n - 1)
  <1>0. n <= StreamSize + 1
    OBVIOUS
  <1>1. t = IF h + c < StreamSize THEN h + c ELSE h + c - StreamSize
    BY WrapSum, Zenon
  <1>2. k = IF h + n - 1 < StreamSize THEN h + n - 1 ELSE h + n - 1 - StreamSize
    BY <1>0, WrapPlace, Zenon
  <1> HIDE DEF t, k
  <1>3. t \in Nat /\ t < StreamSize /\ k \in Nat /\ k < StreamSize
    BY <1>1, <1>2
  <1> DEFINE a == (k + StreamSize) - t
  <1>4. a \in Nat /\ a < 2 * StreamSize
    BY <1>3
  <1>5. Wrap(a) = IF a < StreamSize THEN a ELSE a - StreamSize
    <2> HIDE DEF a
    <2> QED BY <1>4, Around DEF Wrap
  <1>6. CASE n <= c
    <2>1. a = StreamSize + n - 1 - c \/ a = StreamSize + n - 1 - c + StreamSize
      BY <1>1, <1>2, <1>6
    <2> HIDE DEF a
    <2>2. (IF a < StreamSize THEN a ELSE a - StreamSize) = StreamSize + n - 1 - c
      BY <1>4, <1>6, <2>1
    <2> QED BY <1>5, <1>6, <2>2 DEF a, t, k
  <1>7. CASE ~(n <= c)
    <2>1. a = n - 1 - c \/ a = n - 1 - c + StreamSize
      BY <1>1, <1>2, <1>7
    <2> HIDE DEF a
    <2>2. (IF a < StreamSize THEN a ELSE a - StreamSize) = n - 1 - c
      BY <1>4, <1>7, <2>1
    <2> QED BY <1>5, <1>7, <2>2 DEF a, t, k
  <1> QED BY <1>6, <1>7 DEF t, k

\* The c bytes from h on.
Segment(s, h, c) == [n \in 1..c |-> s[Wrap(h + n - 1)]]

LEMMA SegmentIs ==
  ASSUME StreamSize \in Nat \ {0}, NEW s \in Buffers, NEW h \in Nat, h < StreamSize,
         NEW c \in Nat, c <= StreamSize
  PROVE  /\ Segment(s, h, c) \in Seq(Byte) /\ Len(Segment(s, h, c)) = c
         /\ \A n \in 1..c : Segment(s, h, c)[n] = s[Wrap(h + n - 1)]
  <1>1. \A n \in 1..c : Wrap(h + n - 1) \in 0..(StreamSize - 1)
    <2> TAKE n \in 1..c
    <2>1. n \in Nat \ {0} /\ n <= StreamSize + 1
      OBVIOUS
    <2> QED BY <2>1, WrapPlace, Zenon
  <1> DEFINE r == Segment(s, h, c)
  <1>2. r \in [1..c -> Byte] /\ \A n \in 1..c : r[n] = s[Wrap(h + n - 1)]
    BY <1>1 DEF Segment, Buffers
  <1> HIDE DEF r
  <1>3. r \in Seq(Byte) /\ DOMAIN r = 1..c
    BY <1>2
  <1>4. Len(r) = c
    BY <1>3
  <1> QED BY <1>2, <1>3, <1>4 DEF r

LEMMA Joined ==
  ASSUME NEW a \in Seq(Byte), NEW b \in Seq(Byte)
  PROVE  /\ a \o b \in Seq(Byte) /\ Len(a \o b) = Len(a) + Len(b)
         /\ \A n \in 1..(Len(a) + Len(b)) :
                (a \o b)[n] = IF n <= Len(a) THEN a[n] ELSE b[n - Len(a)]
  OBVIOUS

LEMMA Associates ==
  ASSUME NEW a \in Seq(Byte), NEW b \in Seq(Byte), NEW c \in Seq(Byte)
  PROVE  (a \o b) \o c = a \o (b \o c)
  BY ConcatAssociative

LEMMA SameSeq ==
  ASSUME NEW V, NEW a \in Seq(V), NEW b \in Seq(V), NEW d \in Nat, Len(a) = d, Len(b) = d,
         \A n \in 1..d : a[n] = b[n]
  PROVE  a = b
  OBVIOUS

\* The bytes x are written where the others end.
PutAt(s, t, x) ==
    [k \in 0..(StreamSize - 1) |->
        LET d == Wrap((k + StreamSize) - t) IN IF d < Len(x) THEN x[d + 1] ELSE s[k]]

LEMMA PutPlaces ==
  ASSUME StreamSize \in Nat \ {0}, NEW h \in Nat, h < StreamSize, NEW c \in Nat, c <= StreamSize,
         NEW w \in Nat, w <= StreamSize - c
  PROVE  /\ Wrap(h + c) \in Nat /\ Wrap(h + c) < StreamSize
         /\ Wrap(Wrap(h + c) + w) = Wrap(h + (c + w))
         /\ Wrap(Wrap(h + c) + w) \in 0..(StreamSize - 1)
  <1> DEFINE d == c + w
             t == Wrap(h + c)
  <1>1. t = IF h + c < StreamSize THEN h + c ELSE h + c - StreamSize
    BY WrapSum, Zenon
  <1> HIDE DEF t
  <1>2. t \in Nat /\ t < StreamSize /\ d \in Nat /\ d <= StreamSize /\ w <= StreamSize
    BY <1>1
  <1>3. Wrap(t + w) = IF t + w < StreamSize THEN t + w ELSE t + w - StreamSize
    BY <1>2, WrapSum, Zenon
  <1>4. Wrap(h + d) = IF h + d < StreamSize THEN h + d ELSE h + d - StreamSize
    <2> HIDE DEF d
    <2> QED BY <1>2, WrapSum, Zenon
  <1> QED BY <1>1, <1>2, <1>3, <1>4 DEF t

LEMMA PutTyped ==
  ASSUME StreamSize \in Nat \ {0}, NEW s \in Buffers, NEW t \in Nat, t < StreamSize,
         NEW x \in Seq(Byte)
  PROVE  PutAt(s, t, x) \in Buffers
  <1>1. ASSUME NEW k \in 0..(StreamSize - 1)
        PROVE  (LET d == Wrap((k + StreamSize) - t) IN IF d < Len(x) THEN x[d + 1] ELSE s[k]) \in Byte
    <2> DEFINE a == (k + StreamSize) - t
               d == Wrap(a)
    <2>1. a \in Nat /\ a < 2 * StreamSize
      OBVIOUS
    <2>2. d \in Nat
      <3> HIDE DEF a
      <3> QED BY <2>1, Around DEF Wrap
    <2> HIDE DEF d
    <2>3. d < Len(x) => x[d + 1] \in Byte
      BY <2>2
    <2>4. s[k] \in Byte
      BY DEF Buffers
    <2> QED BY <2>3, <2>4 DEF d
  <1> QED BY <1>1 DEF PutAt, Buffers

LEMMA SegmentPut ==
  ASSUME StreamSize \in Nat \ {0}, NEW s \in Buffers, NEW h \in Nat, h < StreamSize,
         NEW c \in Nat, c <= StreamSize, NEW x \in Seq(Byte), Len(x) <= StreamSize - c
  PROVE  /\ PutAt(s, Wrap(h + c), x) \in Buffers
         /\ Segment(PutAt(s, Wrap(h + c), x), h, c + Len(x)) = Segment(s, h, c) \o x
  <1> DEFINE w == Len(x)
             t == Wrap(h + c)
             d == c + w
             s2 == PutAt(s, t, x)
             old == Segment(s, h, c)
             both == Segment(s2, h, d)
  <1>1. w \in Nat /\ d \in Nat /\ d <= StreamSize /\ d = Len(x) + c
        /\ w <= StreamSize - c
    OBVIOUS
  <1>2. t \in Nat /\ t < StreamSize
    BY <1>1, PutPlaces, Zenon
  <1>3. s2 \in Buffers
    <2> HIDE DEF t
    <2> QED BY <1>2, PutTyped, Zenon
  <1>4. old \in Seq(Byte) /\ Len(old) = c /\ \A n \in 1..c : old[n] = s[Wrap(h + n - 1)]
    BY SegmentIs, Zenon
  <1>5. both \in Seq(Byte) /\ Len(both) = d /\ \A n \in 1..d : both[n] = s2[Wrap(h + n - 1)]
    <2>1. d \in Nat /\ d <= StreamSize
      BY <1>1
    <2> HIDE DEF s2, d
    <2> QED BY <1>3, <2>1, SegmentIs, ZenonT(40)
  <1>6. ASSUME NEW n \in 1..d PROVE both[n] = IF n <= c THEN old[n] ELSE x[n - c]
    <2> DEFINE k == Wrap(h + n - 1)
               e == Wrap((k + StreamSize) - t)
    <2>1. n \in Nat \ {0} /\ n <= StreamSize /\ n <= StreamSize + 1
      BY <1>1
    <2>2. k \in 0..(StreamSize - 1)
      BY <2>1, WrapPlace, Zenon
    <2>3. e = IF n <= c THEN StreamSize + n - 1 - c ELSE n - 1 - c
      <3>1. Wrap((Wrap(h + n - 1) + StreamSize) - Wrap(h + c))
              = IF n <= c THEN StreamSize + n - 1 - c ELSE n - 1 - c
        BY <2>1, Distance, Zenon
      <3> QED BY <3>1, Zenon
    <2>4. s2[k] = IF e < w THEN x[e + 1] ELSE s[k]
      <3> HIDE DEF k, t
      <3> QED BY <2>2 DEF PutAt
    <2>5. both[n] = s2[k]
      BY <1>5
    <2>6. n <= c => old[n] = s[k]
      BY <1>4, <2>1
    <2> HIDE DEF s2, both, old, k, e, w, t
    <2>7. CASE n <= c
      <3>1. ~(e < w)
        BY <1>1, <2>1, <2>3, <2>7
      <3> QED BY <2>4, <2>5, <2>6, <2>7, <3>1
    <2>8. CASE ~(n <= c)
      <3>1. e < w /\ e + 1 = n - c
        BY <1>1, <2>1, <2>3, <2>8
      <3> QED BY <2>4, <2>5, <2>8, <3>1
    <2> QED BY <2>7, <2>8
  <1> HIDE DEF s2, both, old, t
  <1>7. d = Len(old) + Len(x)
    BY <1>1, <1>4
  <1> HIDE DEF d
  <1>8. /\ old \o x \in Seq(Byte) /\ Len(old \o x) = d
        /\ \A n \in 1..d : (old \o x)[n] = IF n <= c THEN old[n] ELSE x[n - c]
    <2>1. /\ old \o x \in Seq(Byte) /\ Len(old \o x) = Len(old) + Len(x)
          /\ \A n \in 1..(Len(old) + Len(x)) :
                (old \o x)[n] = IF n <= Len(old) THEN old[n] ELSE x[n - Len(old)]
      BY <1>4, Joined, Zenon
    <2> QED BY <1>4, <1>7, <2>1, Zenon
  <1>9. \A n \in 1..d : both[n] = (old \o x)[n]
    BY <1>6, <1>8, Zenon
  <1>10. both = old \o x
    BY <1>1, <1>5, <1>8, <1>9, SameSeq, Zenon
  <1> QED BY <1>3, <1>10 DEF d, s2, old, both, t

\* The c bytes from h on are the first w of them and the others.
SplitsAt(s, h, c, w) ==
    Segment(s, h, c) = Segment(s, h, w) \o Segment(s, Wrap(h + w), c - w)

\* The first w bytes are taken.
LEMMA SegmentTake ==
  ASSUME StreamSize \in Nat \ {0}, NEW s \in Buffers, NEW h \in Nat, h < StreamSize,
         NEW c \in Nat, c <= StreamSize, NEW w \in Nat, w <= c
  PROVE  /\ Wrap(h + w) \in 0..(StreamSize - 1)
         /\ Wrap(Wrap(h + w) + (c - w)) = Wrap(h + c)
         /\ Segment(s, h, w) \in Seq(Byte) /\ Segment(s, Wrap(h + w), c - w) \in Seq(Byte)
         /\ SplitsAt(s, h, c, w)
  <1> DEFINE g == Wrap(h + w)
             l == c - w
             all == Segment(s, h, c)
             first == Segment(s, h, w)
             rest == Segment(s, g, l)
  <1>0. w <= StreamSize /\ l \in Nat /\ l <= StreamSize /\ c = w + l
    OBVIOUS
  <1>1. g = IF h + w < StreamSize THEN h + w ELSE h + w - StreamSize
    BY <1>0, WrapSum, Zenon
  <1> HIDE DEF g
  <1>2. g \in Nat /\ g < StreamSize
    BY <1>0, <1>1
  <1>3. Wrap(g + l) = Wrap(h + c)
    <2>1. Wrap(g + l) = IF g + l < StreamSize THEN g + l ELSE g + l - StreamSize
      <3> HIDE DEF l
      <3> QED BY <1>0, <1>2, WrapSum, Zenon
    <2>2. Wrap(h + c) = IF h + c < StreamSize THEN h + c ELSE h + c - StreamSize
      BY WrapSum, Zenon
    <2> QED BY <1>1, <2>1, <2>2
  <1> HIDE DEF l
  <1>4. all \in Seq(Byte) /\ Len(all) = c /\ \A n \in 1..c : all[n] = s[Wrap(h + n - 1)]
    BY SegmentIs, Zenon
  <1>5. first \in Seq(Byte) /\ Len(first) = w /\ \A n \in 1..w : first[n] = s[Wrap(h + n - 1)]
    BY <1>0, SegmentIs, Zenon
  <1>6. rest \in Seq(Byte) /\ Len(rest) = l /\ \A n \in 1..l : rest[n] = s[Wrap(g + n - 1)]
    BY <1>0, <1>2, SegmentIs, Zenon
  <1> HIDE DEF all, first, rest
  <1>7. ASSUME NEW n \in 1..c PROVE all[n] = IF n <= w THEN first[n] ELSE rest[n - w]
    <2>1. CASE n <= w
      BY <1>4, <1>5, <2>1
    <2>2. CASE ~(n <= w)
      <3> DEFINE m == n - w
      <3>1. /\ m \in 1..l /\ n \in Nat \ {0} /\ n <= StreamSize + 1
            /\ m \in Nat \ {0} /\ m <= StreamSize + 1 /\ n = m + w
        BY <1>0, <2>2
      <3> HIDE DEF m
      <3>2. Wrap(g + m - 1) = IF g + m - 1 < StreamSize THEN g + m - 1
                              ELSE g + m - 1 - StreamSize
        BY <1>2, <3>1, WrapPlace, Zenon
      <3>3. Wrap(h + n - 1) = IF h + n - 1 < StreamSize THEN h + n - 1
                              ELSE h + n - 1 - StreamSize
        BY <3>1, WrapPlace, Zenon
      <3>4. Wrap(g + m - 1) = Wrap(h + n - 1)
        BY <1>0, <1>1, <3>1, <3>2, <3>3
      <3>5. rest[m] = s[Wrap(g + m - 1)] /\ all[n] = s[Wrap(h + n - 1)]
        BY <1>4, <1>6, <3>1, Zenon
      <3> QED BY <2>2, <3>4, <3>5 DEF m
    <2> QED BY <2>1, <2>2
  <1>8. c = Len(first) + Len(rest)
    BY <1>0, <1>5, <1>6
  <1>9. /\ first \o rest \in Seq(Byte) /\ Len(first \o rest) = c
        /\ \A n \in 1..c : (first \o rest)[n] = IF n <= w THEN first[n] ELSE rest[n - w]
    <2>1. /\ first \o rest \in Seq(Byte) /\ Len(first \o rest) = Len(first) + Len(rest)
          /\ \A n \in 1..(Len(first) + Len(rest)) :
                (first \o rest)[n] = IF n <= Len(first) THEN first[n] ELSE rest[n - Len(first)]
      BY <1>5, <1>6, Joined, Zenon
    <2> QED BY <1>5, <1>8, <2>1, Zenon
  <1>10. \A n \in 1..c : all[n] = (first \o rest)[n]
    BY <1>7, <1>9, Zenon
  <1>11. all = first \o rest
    BY <1>4, <1>9, <1>10, SameSeq, Zenon
  <1> QED BY <1>2, <1>3, <1>5, <1>6, <1>11 DEF SplitsAt, g, l, all, first, rest

\* The buffer is typed, its tail is where its bytes end, a sender that waits
\* has a part of its chunk left, and what was stored is what was received with
\* what the buffer holds.
StreamInv ==
    /\ bytes \in Buffers
    /\ stream_head \in Nat /\ stream_head < StreamSize
    /\ stream_count \in Nat /\ stream_count <= StreamSize
    /\ stream_tail = Wrap(stream_head + stream_count)
    /\ sender \in {"out", "asleep", "woken"} /\ receiver \in {"out", "asleep", "woken"}
    /\ sent \in 0..Len(Chunks)
    /\ sender # "out" => sent # 0 /\ written \in Nat /\ written < Chunks[sent]
    /\ received \in Seq(Byte)
    /\ stored = received \o Segment(bytes, stream_head, stream_count)

\* The same of the stream itself.
LEMMA StreamPut ==
  ASSUME StreamSize \in Nat \ {0}, StreamInv, NEW x \in Seq(Byte), Len(x) <= StreamSize - stream_count
  PROVE  /\ Wrap(stream_tail + Len(x)) = Wrap(stream_head + (stream_count + Len(x)))
         /\ PutAt(bytes, stream_tail, x) \in Buffers
         /\ Segment(PutAt(bytes, stream_tail, x), stream_head, stream_count + Len(x))
              = Segment(bytes, stream_head, stream_count) \o x
  <1> DEFINE w == Len(x)
  <1>1. /\ stream_count \in Nat /\ stream_count <= StreamSize /\ stream_head \in Nat
        /\ stream_head < StreamSize /\ stream_tail = Wrap(stream_head + stream_count)
        /\ bytes \in Buffers /\ w \in Nat /\ w <= StreamSize - stream_count /\ w = Len(x)
    BY DEF StreamInv
  <1> HIDE DEF w
  <1>2. Wrap(Wrap(stream_head + stream_count) + w) = Wrap(stream_head + (stream_count + w))
    <2>1. /\ stream_count \in Nat /\ stream_count <= StreamSize /\ stream_head \in Nat
          /\ stream_head < StreamSize /\ w \in Nat /\ w <= StreamSize - stream_count
      BY <1>1, Zenon
    <2>2. \A h, c, v \in Nat : h < StreamSize /\ c <= StreamSize /\ v <= StreamSize - c
                => Wrap(Wrap(h + c) + v) = Wrap(h + (c + v))
      BY ONLY StreamSize \in Nat \ {0}, PutPlaces, ZenonT(60)
    <2> QED BY ONLY <2>1, <2>2, Zenon
  <1>3. /\ PutAt(bytes, Wrap(stream_head + stream_count), x) \in Buffers
        /\ Segment(PutAt(bytes, Wrap(stream_head + stream_count), x), stream_head, stream_count + Len(x))
             = Segment(bytes, stream_head, stream_count) \o x
    BY <1>1, SegmentPut, ZenonT(60)
  <1> QED BY <1>1, <1>2, <1>3, Zenon

LEMMA StreamInit ==
  ASSUME Str!PosixStreamAssumption, Str!Init PROVE StreamInv
  <1>1. StreamSize \in Nat \ {0} /\ Len(Chunks) \in Nat
    BY DEF Str!PosixStreamAssumption
  <1>2. bytes \in Buffers
    BY DEF Str!Init, Buffers, Byte
  <1>3. Wrap(0 + 0) = 0
    <2>1. 0 \in Nat /\ 0 < StreamSize /\ 0 <= StreamSize
      BY <1>1
    <2>2. Wrap(0 + 0) = IF 0 + 0 < StreamSize THEN 0 + 0 ELSE 0 + 0 - StreamSize
      BY <1>1, <2>1, WrapSum, Zenon
    <2> QED BY <1>1, <2>2
  <1>4. Segment(bytes, 0, 0) = <<>>
    BY DEF Segment
  <1> QED BY <1>1, <1>2, <1>3, <1>4 DEF Str!Init, StreamInv

\* A part of chunk n goes into the room there is.
LEMMA StoreKeeps ==
  ASSUME Str!PosixStreamAssumption, StreamInv, NEW n \in 1..Len(Chunks), NEW done \in Nat,
         done < Chunks[n], Str!StoreSome(n, done), sent' = n, UNCHANGED <<stream_head, received>>
  PROVE  StreamInv'
  <1> DEFINE left == Chunks[n] - done
             w == Str!LeastOf(left, StreamSize - stream_count)
             new == [i \in 1..w |-> <<n, done + i>>]
  <1>1. StreamSize \in Nat \ {0} /\ Chunks[n] \in Nat /\ n \in Nat /\ n # 0 /\ Len(Chunks) \in Nat
    BY DEF Str!PosixStreamAssumption
  <1>2. stream_count \in Nat /\ stream_count <= StreamSize /\ stream_head \in Nat
        /\ stream_head < StreamSize /\ stream_tail = Wrap(stream_head + stream_count)
        /\ bytes \in Buffers /\ received \in Seq(Byte)
        /\ stored = received \o Segment(bytes, stream_head, stream_count)
    BY DEF StreamInv
  <1>3. left \in Nat /\ w \in Nat /\ w <= StreamSize - stream_count /\ w <= left
    BY <1>1, <1>2 DEF Str!LeastOf
  <1>4. /\ bytes' = [k \in 0..(StreamSize - 1) |->
                        LET d == ((k + StreamSize) - stream_tail) % StreamSize
                        IN IF d < w THEN new[d + 1] ELSE bytes[k]]
        /\ stream_tail' = (stream_tail + w) % StreamSize
        /\ stream_count' = stream_count + w
        /\ stored' = stored \o new
        /\ written' = IF w = left THEN 0 ELSE done + w
        /\ sender' = IF w = left THEN "out" ELSE "asleep"
        /\ receiver' = IF w = 0 THEN receiver ELSE Str!Woken(receiver)
    BY DEF Str!StoreSome
  <1> HIDE DEF w
  <1>5. new \in Seq(Byte) /\ Len(new) = w
    <2>1. new \in [1..w -> Byte]
      BY <1>1, <1>3 DEF Byte
    <2> HIDE DEF new
    <2> QED BY <1>3, <2>1
  <1> HIDE DEF new
  <1>6. bytes' = PutAt(bytes, stream_tail, new)
    BY <1>4, <1>5, Zenon DEF PutAt, Wrap
  <1>7. stream_tail' = Wrap(stream_head + (stream_count + w))
    <2>1. Wrap(stream_tail + w) = Wrap(stream_head + (stream_count + w))
      BY <1>1, <1>3, <1>5, StreamPut
    <2> QED BY <1>4, <2>1 DEF Wrap
  <1>8. /\ PutAt(bytes, stream_tail, new) \in Buffers
        /\ Segment(PutAt(bytes, stream_tail, new), stream_head, stream_count + w)
             = Segment(bytes, stream_head, stream_count) \o new
    BY <1>1, <1>3, <1>5, StreamPut
  <1>9. Segment(bytes, stream_head, stream_count) \in Seq(Byte)
    BY <1>1, <1>2, SegmentIs, Zenon
  <1>10. stored' = received' \o Segment(bytes', stream_head', stream_count')
    <2> DEFINE old == Segment(bytes, stream_head, stream_count)
    <2> HIDE DEF old
    <2>1. old \in Seq(Byte) /\ stored = received \o old
      BY <1>2, <1>9 DEF old
    <2>2. (received \o old) \o new = received \o (old \o new)
      BY <1>2, <1>5, <2>1, Associates, Zenon
    <2>3. Segment(bytes', stream_head', stream_count') = old \o new
      BY <1>4, <1>6, <1>8 DEF old
    <2> QED BY <1>4, <2>1, <2>2, <2>3
  <1>11. sender' # "out" => written' \in Nat /\ written' < Chunks[sent']
    BY <1>1, <1>3, <1>4
  <1>12. receiver' \in {"out", "asleep", "woken"}
    BY <1>4 DEF StreamInv, Str!Woken
  <1>13. stream_tail' = Wrap(stream_head' + stream_count')
    BY <1>4, <1>7
  <1>14. stream_count' \in Nat /\ stream_count' <= StreamSize
    BY <1>1, <1>2, <1>3, <1>4
  <1>15. sent' \in 0..Len(Chunks) /\ sent' # 0 /\ sender' \in {"out", "asleep", "woken"}
    BY <1>1, <1>4
  <1> QED BY <1>2, <1>6, <1>8, <1>10, <1>11, <1>12, <1>13, <1>14, <1>15 DEF StreamInv

LEMMA SendKeeps ==
  ASSUME Str!PosixStreamAssumption, StreamInv, Str!bm_stream_buffer_send
  PROVE  StreamInv'
  <1>1. Chunks \in Seq(Nat \ {0}) /\ sent \in 0..Len(Chunks) /\ Len(Chunks) \in Nat
    BY DEF Str!PosixStreamAssumption, StreamInv
  <1>2. UNCHANGED <<stream_head, received>>
    BY DEF Str!bm_stream_buffer_send
  <1>3. CASE sender = "out" /\ sent < Len(Chunks) /\ sent' = sent + 1 /\ Str!StoreSome(sent', 0)
    <2>1. sent' \in 1..Len(Chunks)
      BY <1>1, <1>3
    <2>2. 0 \in Nat /\ 0 < Chunks[sent']
      BY <1>1, <2>1
    <2>3. PICK n \in 1..Len(Chunks) : n = sent'
      BY <2>1, Zenon
    <2>4. Str!StoreSome(n, 0) /\ sent' = n /\ 0 < Chunks[n]
      BY <1>3, <2>2, <2>3
    <2> QED BY <1>2, <2>2, <2>4, StoreKeeps, Zenon
  <1>4. CASE sender = "woken" /\ UNCHANGED sent /\ Str!StoreSome(sent, written)
    <2>1. sent # 0 /\ written \in Nat /\ written < Chunks[sent]
      BY <1>4 DEF StreamInv
    <2>2. sent \in 1..Len(Chunks)
      BY <1>1, <2>1
    <2> QED BY <1>2, <1>4, <2>1, <2>2, StoreKeeps
  <1> QED BY <1>3, <1>4 DEF Str!bm_stream_buffer_send

LEMMA ReceiveKeeps ==
  ASSUME Str!PosixStreamAssumption, StreamInv, NEW max_read \in 1..StreamSize,
         Str!bm_stream_buffer_receive(max_read)
  PROVE  StreamInv'
  <1> DEFINE w == Str!LeastOf(stream_count, max_read)
             taken == Segment(bytes, stream_head, w)
             rest == Segment(bytes, Wrap(stream_head + w), stream_count - w)
  <1>1. StreamSize \in Nat \ {0} /\ max_read \in Nat
    BY DEF Str!PosixStreamAssumption
  <1>2. /\ stream_count \in Nat /\ stream_count <= StreamSize /\ stream_head \in Nat
        /\ stream_head < StreamSize /\ stream_tail = Wrap(stream_head + stream_count)
        /\ bytes \in Buffers /\ received \in Seq(Byte)
        /\ stored = received \o Segment(bytes, stream_head, stream_count)
        /\ sender \in {"out", "asleep", "woken"}
    BY DEF StreamInv
  <1>3. CASE stream_count = 0 /\ receiver' = "asleep"
             /\ UNCHANGED <<stream_head, stream_count, sender, received>>
    <2>1. UNCHANGED <<bytes, stream_tail, written, sent, stored>>
      BY DEF Str!bm_stream_buffer_receive
    <2> QED BY <1>3, <2>1 DEF StreamInv
  <1>4. CASE ~(stream_count = 0 /\ receiver' = "asleep"
             /\ UNCHANGED <<stream_head, stream_count, sender, received>>)
    <2>1. /\ received' = received \o [i \in 1..w |-> bytes[(stream_head + i - 1) % StreamSize]]
          /\ stream_head' = (stream_head + w) % StreamSize /\ stream_count' = stream_count - w
          /\ receiver' = "out" /\ sender' = Str!Woken(sender)
          /\ UNCHANGED <<bytes, stream_tail, written, sent, stored>>
      BY <1>4 DEF Str!bm_stream_buffer_receive
    <2>2. received' = received \o taken /\ stream_head' = Wrap(stream_head + w)
      BY <2>1, Zenon DEF Segment, Wrap
    <2>3. w \in Nat /\ w <= stream_count
      BY <1>1, <1>2 DEF Str!LeastOf
    <2> HIDE DEF w
    <2>4. /\ Wrap(stream_head + w) \in 0..(StreamSize - 1)
          /\ Wrap(Wrap(stream_head + w) + (stream_count - w)) = Wrap(stream_head + stream_count)
          /\ taken \in Seq(Byte) /\ rest \in Seq(Byte)
          /\ Segment(bytes, stream_head, stream_count) = taken \o rest
      <3>1. /\ stream_count \in Nat /\ stream_count <= StreamSize /\ stream_head \in Nat
            /\ stream_head < StreamSize /\ bytes \in Buffers
        BY <1>2
      <3>2. Wrap(stream_head + w) \in 0..(StreamSize - 1)
        BY <1>1, <2>3, <3>1, SegmentTake, Zenon
      <3>3. Wrap(Wrap(stream_head + w) + (stream_count - w)) = Wrap(stream_head + stream_count)
        BY <1>1, <2>3, <3>1, SegmentTake, Zenon
      <3>4. taken \in Seq(Byte) /\ rest \in Seq(Byte)
        BY <1>1, <2>3, <3>1, SegmentTake, Zenon
      <3>5. SplitsAt(bytes, stream_head, stream_count, w)
        BY <1>1, <2>3, <3>1, SegmentTake, Zenon
      <3> QED BY <3>2, <3>3, <3>4, <3>5, Zenon DEF SplitsAt
    <2> HIDE DEF taken
    <2>5. rest = Segment(bytes', stream_head', stream_count')
      BY <2>1, <2>2, Zenon
    <2> HIDE DEF rest
    <2>6. stored' = received' \o rest
      <3>1. (received \o taken) \o rest = received \o (taken \o rest)
        BY <1>2, <2>4, Associates, Zenon
      <3> QED BY <1>2, <2>1, <2>2, <2>4, <3>1, Zenon
    <2>7. received' \in Seq(Byte)
      BY <1>2, <2>2, <2>4, Joined, Zenon
    <2>8. /\ stream_head' \in Nat /\ stream_head' < StreamSize
          /\ stream_count' \in Nat /\ stream_count' <= StreamSize
      <3> DEFINE g == Wrap(stream_head + w)
      <3>1. g \in 0..(StreamSize - 1) /\ stream_head' = g
        BY <2>2, <2>4
      <3> HIDE DEF g
      <3> QED BY <1>1, <1>2, <2>1, <2>3, <3>1
    <2>9. stream_tail' = Wrap(stream_head' + stream_count')
      BY <1>2, <2>1, <2>2, <2>4, Zenon
    <2>10. /\ sender' \in {"out", "asleep", "woken"} /\ receiver' \in {"out", "asleep", "woken"}
           /\ sender' # "out" => sender # "out"
      BY <1>2, <2>1 DEF Str!Woken
    <2>11. /\ bytes' \in Buffers /\ sent' \in 0..Len(Chunks)
           /\ sender' # "out" => sent' # 0 /\ written' \in Nat /\ written' < Chunks[sent']
      BY <2>1, <2>10 DEF StreamInv
    <2> QED BY <2>5, <2>6, <2>7, <2>8, <2>9, <2>10, <2>11 DEF StreamInv
  <1> QED BY <1>3, <1>4

LEMMA StreamStep ==
  ASSUME Str!PosixStreamAssumption, StreamInv, [Str!Next]_Str!vars
  PROVE  StreamInv'
  <1>1. CASE Str!SendTimesOut
    BY <1>1 DEF Str!SendTimesOut, StreamInv
  <1>2. CASE Str!ReceiveTimesOut
    BY <1>2 DEF Str!ReceiveTimesOut, StreamInv
  <1>3. CASE Str!Wakes
    BY <1>3 DEF Str!Wakes, StreamInv
  <1>4. CASE UNCHANGED Str!vars
    BY <1>4 DEF Str!vars, StreamInv
  <1> QED BY <1>1, <1>2, <1>3, <1>4, SendKeeps, ReceiveKeeps DEF Str!Next

LEMMA StreamImplies ==
  ASSUME Str!PosixStreamAssumption, StreamInv
  PROVE  Str!TypeOK /\ Str!StreamInOrder
  <1>1. StreamSize \in Nat \ {0}
    BY DEF Str!PosixStreamAssumption
  <1>2. stream_tail \in 0..(StreamSize - 1)
    <2>1. 0 \in Nat /\ 0 <= StreamSize - stream_count
      BY <1>1 DEF StreamInv
    <2>2. /\ stream_count \in Nat /\ stream_count <= StreamSize /\ stream_head \in Nat
          /\ stream_head < StreamSize /\ stream_tail = Wrap(stream_head + stream_count)
      BY DEF StreamInv
    <2>3. Wrap(stream_head + stream_count) \in Nat /\ Wrap(stream_head + stream_count) < StreamSize
      BY <1>1, <2>1, <2>2, PutPlaces, Zenon
    <2>4. stream_tail \in Nat /\ stream_tail < StreamSize
      BY <2>2, <2>3, Zenon
    <2> QED BY <1>1, <2>4
  <1>3. DOMAIN bytes = 0..(StreamSize - 1)
    BY DEF StreamInv, Buffers
  <1>4. /\ stream_head \in 0..(StreamSize - 1) /\ stream_count \in 0..StreamSize
        /\ {sender, receiver} \subseteq {"out", "asleep", "woken"}
        /\ sent \in 0..Len(Chunks) /\ (sender # "out" => written < Chunks[sent])
    BY <1>1 DEF StreamInv
  <1>5. Str!StreamInOrder
    BY Zenon DEF StreamInv, Str!StreamInOrder, Segment, Wrap
  <1> QED BY <1>2, <1>3, <1>4, <1>5 DEF Str!TypeOK

-----------------------------------------------------------------------------
(* What threads meet in *)

\* The queue, the semaphore and the stream buffer of the POSIX port together,
\* for any capacity, any chunks and any number of tasks, where a wait whose
\* time is over cannot have used up a signal meant for another: no receiver
\* sleeps beside an item, and no task beside a free semaphore, without one
\* being told; a semaphore has one holder; and a stream gives the bytes in the
\* order in which bm_stream_buffer_send stored them, around the end of its
\* storage, however sends and receives divide them and time out.
THEOREM WaitersTold ==
  ASSUME U!PosixQueueAssumption, Str!PosixStreamAssumption, IsFiniteSet(Receiver), NoTheft,
         ~Consumes
  PROVE  U!Spec /\ Sem!Spec /\ Str!Spec => []WaitersAreTold
  <1>1. U!Init => U!RingInv
    BY InitRing
  <1>2. U!RingInv /\ [U!Next]_U!vars => U!RingInv'
    BY NextRing
  <1>3. U!Spec => []U!ReceiverIsTold
    BY ReceiversTold
  <1>4. Sem!Init => SemaphoreInv
    BY SemaphoreInit
  <1>5. SemaphoreInv /\ [Sem!Next]_Sem!vars => SemaphoreInv'
    BY SemaphoreStep
  <1>6. Str!Init => StreamInv
    BY StreamInit
  <1>7. StreamInv /\ [Str!Next]_Str!vars => StreamInv'
    BY StreamStep
  <1>8. U!RingInv /\ U!ReceiverIsTold /\ SemaphoreInv /\ StreamInv => WaitersAreTold
    BY SemaphoreImplies, StreamImplies DEF WaitersAreTold, U!RingInv
  <1> QED BY <1>1, <1>2, <1>3, <1>4, <1>5, <1>6, <1>7, <1>8, PTL
       DEF U!Spec, Sem!Spec, Str!Spec

-----------------------------------------------------------------------------
(* The callback queue of the power information service *)

Entry == [id : Nat, cb : Pow!Request]

\* The requests are made in the order of their numbers.
MadeUpTo == \E m \in 0..MaxRequests :
    add_id <= m /\ \A r \in Pow!Request : state[r] = "free" <=> r > m

\* The entries of the callback queue c have the ids from g to a and are in the
\* order of their requests; none of them was invoked.
Lined(c, a, g, st, ca) ==
    /\ a = g + Len(c)
    /\ \A n \in 1..Len(c) : c[n].id = g + n - 1
    /\ \A n \in 1..Len(c) : st[c[n].cb] # "free" /\ ca[c[n].cb] = <<>>
    /\ \A m, n \in 1..Len(c) : m < n => c[m].cb < c[n].cb

\* No request that may be answered finds the queue empty.
Enough == Cardinality(Pow!UnderWay) <= Len(cb_list)

Fresh == \A r \in Pow!Request : state[r] = "free" => called[r] = <<>>

PowerInv ==
    /\ Pow!TypeOK
    /\ MadeUpTo
    /\ Lined(cb_list, add_id, get_id, state, called)
    /\ Enough
    /\ Fresh
    /\ Pow!OneCallbackEach
    /\ ~mixed => Pow!RepliedIsCalled /\ Pow!QueuedIsUnderWay

LEMMA PowerTypes ==
  ASSUME Pow!PowerInfoAssumption, PowerInv
  PROVE  /\ MaxRequests \in Nat /\ cb_list \in Seq(Entry)
         /\ add_id \in Nat /\ get_id \in Nat /\ get_id <= add_id /\ add_id <= MaxRequests
         /\ served \in BOOLEAN /\ mixed \in BOOLEAN /\ state \in [Pow!Request -> Pow!Stages]
         /\ called \in [Pow!Request -> Seq(Pow!Request)]
         /\ Len(cb_list) \in Nat
         /\ \A r \in Pow!Request : r \in Nat
         /\ \A n \in 1..Len(cb_list) : cb_list[n] \in Entry /\ cb_list[n].cb \in Pow!Request
  <1>1. /\ MaxRequests \in Nat /\ cb_list \in Seq(Entry)
        /\ add_id \in 0..MaxRequests /\ get_id \in 0..add_id
        /\ served \in BOOLEAN /\ mixed \in BOOLEAN /\ state \in [Pow!Request -> Pow!Stages]
        /\ called \in [Pow!Request -> Seq(Pow!Request)]
    BY DEF PowerInv, Pow!TypeOK, Pow!PowerInfoAssumption, Entry
  <1>2. \A r \in Pow!Request : r \in Nat
    BY <1>1 DEF Pow!Request
  <1>3. /\ Len(cb_list) \in Nat
        /\ \A n \in 1..Len(cb_list) : cb_list[n] \in Entry
    BY <1>1
  <1>4. \A e \in Entry : e.cb \in Pow!Request
    BY DEF Entry
  <1>5. add_id \in Nat /\ get_id \in Nat /\ get_id <= add_id /\ add_id <= MaxRequests
    BY <1>1
  <1> QED BY <1>1, <1>2, <1>3, <1>4, <1>5, Zenon

LEMMA UnderWayFinite ==
  ASSUME Pow!PowerInfoAssumption
  PROVE  IsFiniteSet(Pow!UnderWay) /\ Cardinality(Pow!UnderWay) \in Nat
  <1>1. IsFiniteSet(Pow!Request)
    BY FS_Interval DEF Pow!PowerInfoAssumption, Pow!Request
  <1>2. Pow!UnderWay \subseteq Pow!Request
    BY DEF Pow!UnderWay
  <1> QED BY <1>1, <1>2, FS_Subset, FS_CardinalityType

LEMMA PowerInit ==
  ASSUME Pow!PowerInfoAssumption, Pow!Init PROVE PowerInv
  <1>1. MaxRequests \in Nat
    BY DEF Pow!PowerInfoAssumption
  <1>2. Pow!TypeOK
    <2>1. /\ cb_list \in Seq([id : Nat, cb : Pow!Request])
          /\ add_id \in 0..MaxRequests /\ get_id \in 0..add_id
      BY <1>1 DEF Pow!Init
    <2>2. served \in BOOLEAN /\ mixed \in BOOLEAN /\ state \in [Pow!Request -> Pow!Stages]
      BY DEF Pow!Init, Pow!Stages
    <2>3. called \in [Pow!Request -> Seq(Pow!Request)]
      BY DEF Pow!Init
    <2> QED BY <2>1, <2>2, <2>3 DEF Pow!TypeOK
  <1>3. MadeUpTo
    <2>1. 0 \in 0..MaxRequests /\ add_id <= 0 /\ \A r \in Pow!Request : state[r] = "free" <=> r > 0
      BY <1>1 DEF Pow!Init, Pow!Request
    <2> QED BY <2>1 DEF MadeUpTo
  <1>4. Lined(cb_list, add_id, get_id, state, called) /\ Fresh
    BY DEF Pow!Init, Lined, Fresh
  <1>5. Pow!UnderWay = {} /\ Len(cb_list) = 0
    BY DEF Pow!Init, Pow!UnderWay
  <1>6. Enough
    BY <1>5, FS_EmptySet DEF Enough
  <1>7. Pow!OneCallbackEach
    <2>1. ASSUME NEW r PROVE <<>> # <<r>>
      OBVIOUS
    <2> QED BY <2>1 DEF Pow!Init, Pow!OneCallbackEach
  <1>8. Pow!RepliedIsCalled /\ Pow!QueuedIsUnderWay
    BY <1>5 DEF Pow!Init, Pow!RepliedIsCalled, Pow!QueuedIsUnderWay
  <1> QED BY <1>2, <1>3, <1>4, <1>6, <1>7, <1>8 DEF PowerInv

\* The next request is made.
LEMMA MadeNext ==
  ASSUME Pow!PowerInfoAssumption, PowerInv, NEW r \in Pow!Request, Pow!queue_cb_enqueue(r),
         NEW stage, stage # "free",
         \A s \in Pow!Request : state'[s] = IF s = r THEN stage ELSE state[s],
         add_id' = add_id \/ add_id' = add_id + 1
  PROVE  MadeUpTo' /\ \A s \in Pow!Request : state[s] # "free" => s < r
  <1>1. PICK m \in 0..MaxRequests :
            add_id <= m /\ \A s \in Pow!Request : state[s] = "free" <=> s > m
    BY DEF PowerInv, MadeUpTo
  <1>2. /\ state[r] = "free" /\ \A s \in Pow!Request : s < r => state[s] # "free"
        /\ r \in Nat /\ r <= MaxRequests /\ MaxRequests \in Nat /\ add_id \in Nat
    BY PowerTypes DEF Pow!queue_cb_enqueue, Pow!Request
  <1>3. r > m
    BY <1>1, <1>2
  <1>4. r = m + 1
    <2>1. CASE r > m + 1
      <3>1. m + 1 \in Pow!Request /\ m + 1 < r /\ m + 1 > m
        BY <1>2, <2>1 DEF Pow!Request
      <3> QED BY <1>1, <1>2, <3>1
    <2> QED BY <1>2, <1>3, <2>1
  <1>5. r \in 0..MaxRequests /\ add_id' <= r
    BY <1>1, <1>2, <1>4
  <1>6. \A s \in Pow!Request : state'[s] = "free" <=> s > r
    <2> TAKE s \in Pow!Request
    <2>1. s \in Nat
      BY PowerTypes
    <2> QED BY <1>1, <1>2, <1>4, <2>1
  <1>7. \A s \in Pow!Request : state[s] # "free" => s < r
    <2> TAKE s \in Pow!Request
    <2>1. s \in Nat
      BY PowerTypes
    <2> QED BY <1>1, <1>2, <1>3, <2>1
  <1> QED BY <1>5, <1>6, <1>7 DEF MadeUpTo

\* A request whose stage moves, from and to one at which no reply came.
LEMMA StageMoves ==
  ASSUME Pow!PowerInfoAssumption, PowerInv, NEW r \in Pow!Request, NEW stage \in Pow!Stages,
         stage # "replied", state[r] # "replied", stage # "free",
         state' = [state EXCEPT ![r] = stage], called' = called
  PROVE  /\ state' \in [Pow!Request -> Pow!Stages]
         /\ \A s \in Pow!Request : state'[s] = IF s = r THEN stage ELSE state[s]
         /\ Fresh' /\ Pow!OneCallbackEach'
         /\ Pow!RepliedIsCalled => Pow!RepliedIsCalled'
  <1>1. state' \in [Pow!Request -> Pow!Stages]
        /\ \A s \in Pow!Request : state'[s] = IF s = r THEN stage ELSE state[s]
    BY PowerTypes
  <1>2. Fresh'
    BY <1>1 DEF PowerInv, Fresh
  <1>3. \A s \in Pow!Request : state'[s] = "replied" <=> state[s] = "replied"
    BY <1>1
  <1>4. Pow!OneCallbackEach' /\ (Pow!RepliedIsCalled => Pow!RepliedIsCalled')
    BY <1>3 DEF PowerInv, Pow!OneCallbackEach, Pow!RepliedIsCalled
  <1> QED BY <1>1, <1>2, <1>4

\* A request that malloc refuses changes its state only.
LEMMA RefusedKeeps ==
  ASSUME Pow!PowerInfoAssumption, PowerInv, NEW r \in Pow!Request,
         Pow!queue_cb_enqueue(r), state' = [state EXCEPT ![r] = "refused"],
         UNCHANGED <<cb_list, add_id, get_id, served, called, mixed>>
  PROVE  PowerInv'
  <1>1. state[r] = "free" /\ "refused" \in Pow!Stages
    BY DEF Pow!queue_cb_enqueue, Pow!Stages
  <1>2. /\ state' \in [Pow!Request -> Pow!Stages]
        /\ \A s \in Pow!Request : state'[s] = IF s = r THEN "refused" ELSE state[s]
        /\ Fresh' /\ Pow!OneCallbackEach'
        /\ Pow!RepliedIsCalled => Pow!RepliedIsCalled'
    BY <1>1, StageMoves
  <1>3. Pow!TypeOK'
    BY <1>2 DEF PowerInv, Pow!TypeOK
  <1>4. MadeUpTo'
    BY <1>2, MadeNext
  <1>5. Lined(cb_list, add_id, get_id, state', called)
    <2>1. Lined(cb_list, add_id, get_id, state, called)
      BY DEF PowerInv
    <2>2. \A n \in 1..Len(cb_list) : cb_list[n].cb \in Pow!Request
      BY PowerTypes
    <2> QED BY <1>2, <2>1, <2>2 DEF Lined
  <1>6. Pow!UnderWay' = Pow!UnderWay
    BY <1>1, <1>2 DEF Pow!UnderWay
  <1>7. Enough' /\ (Pow!QueuedIsUnderWay => Pow!QueuedIsUnderWay')
    BY <1>6 DEF PowerInv, Enough, Pow!QueuedIsUnderWay
  <1> QED BY <1>2, <1>3, <1>4, <1>5, <1>7 DEF PowerInv

\* A request that is accepted is queued last.
LEMMA EnqueuedKeeps ==
  ASSUME Pow!PowerInfoAssumption, PowerInv, NEW r \in Pow!Request,
         Pow!queue_cb_enqueue(r), state' = [state EXCEPT ![r] = "queued"],
         cb_list' = Append(cb_list, [id |-> add_id, cb |-> r]), add_id' = add_id + 1,
         UNCHANGED <<get_id, served, called, mixed>>
  PROVE  PowerInv'
  <1> DEFINE e == [id |-> add_id, cb |-> r]
             c == Len(cb_list)
  <1>1. state[r] = "free" /\ "queued" \in Pow!Stages
    BY DEF Pow!queue_cb_enqueue, Pow!Stages
  <1>2. /\ cb_list \in Seq(Entry) /\ add_id \in Nat /\ r \in Nat
        /\ get_id \in Nat /\ get_id <= add_id /\ c \in Nat /\ MaxRequests \in Nat
        /\ \A n \in 1..c : cb_list[n].cb \in Pow!Request /\ cb_list[n].cb \in Nat
    BY PowerTypes
  <1>3. /\ state' \in [Pow!Request -> Pow!Stages]
        /\ \A s \in Pow!Request : state'[s] = IF s = r THEN "queued" ELSE state[s]
        /\ Fresh' /\ Pow!OneCallbackEach'
        /\ Pow!RepliedIsCalled => Pow!RepliedIsCalled'
    BY <1>1, StageMoves
  <1>4. e \in Entry /\ e.id = add_id /\ e.cb = r
    BY <1>2 DEF Entry
  <1> HIDE DEF e
  <1>5. /\ cb_list' \in Seq(Entry) /\ Len(cb_list') = c + 1
        /\ \A n \in 1..(c + 1) : cb_list'[n] = IF n <= c THEN cb_list[n] ELSE e
    BY <1>2, <1>4 DEF e
  <1> HIDE DEF c
  <1>6. MadeUpTo' /\ \A s \in Pow!Request : state[s] # "free" => s < r
    BY <1>3, MadeNext
  <1>7. add_id' \in 0..MaxRequests /\ get_id' \in 0..add_id'
    <2>1. PICK m \in 0..MaxRequests : add_id' <= m
      BY <1>6 DEF MadeUpTo
    <2> QED BY <1>2, <2>1
  <1>8. Pow!TypeOK'
    BY <1>3, <1>5, <1>7 DEF PowerInv, Pow!TypeOK, Entry
  <1>9. \A n \in 1..(c + 1) : \/ n \in 1..c /\ cb_list'[n] = cb_list[n]
                              \/ n = c + 1 /\ cb_list'[n] = e
    BY <1>2, <1>5
  <1>10. Lined(cb_list', add_id', get_id, state', called)
    <2>1. /\ add_id = get_id + c
          /\ \A n \in 1..c : cb_list[n].id = get_id + n - 1
          /\ \A n \in 1..c : state[cb_list[n].cb] # "free" /\ called[cb_list[n].cb] = <<>>
          /\ \A m, n \in 1..c : m < n => cb_list[m].cb < cb_list[n].cb
      BY DEF PowerInv, Lined, c
    <2>2. add_id' = get_id + (c + 1)
      BY <1>2, <2>1
    <2>3. ASSUME NEW n \in 1..(c + 1)
          PROVE  /\ cb_list'[n].id = get_id + n - 1
                 /\ state'[cb_list'[n].cb] # "free" /\ called[cb_list'[n].cb] = <<>>
      <3>1. CASE n \in 1..c /\ cb_list'[n] = cb_list[n]
        BY <1>2, <1>3, <2>1, <3>1
      <3>2. CASE n = c + 1 /\ cb_list'[n] = e
        <4>1. add_id = get_id + n - 1
          BY <1>2, <2>1, <3>2
        <4>2. called[r] = <<>> /\ state'[r] = "queued"
          BY <1>1, <1>3 DEF PowerInv, Fresh
        <4> QED BY <1>4, <3>2, <4>1, <4>2
      <3> QED BY <1>9, <3>1, <3>2
    <2>4. ASSUME NEW m \in 1..(c + 1), NEW n \in 1..(c + 1), m < n
          PROVE  cb_list'[m].cb < cb_list'[n].cb
      <3>1. m \in 1..c /\ cb_list'[m] = cb_list[m]
        BY <1>2, <1>5, <2>4
      <3>2. CASE n \in 1..c /\ cb_list'[n] = cb_list[n]
        BY <2>1, <2>4, <3>1, <3>2
      <3>3. CASE n = c + 1 /\ cb_list'[n] = e
        BY <1>2, <1>4, <1>6, <2>1, <3>1, <3>3
      <3> QED BY <1>9, <3>2, <3>3
    <2> QED BY <1>5, <2>2, <2>3, <2>4 DEF Lined
  <1>11. Pow!UnderWay' = Pow!UnderWay \cup {r} /\ r \notin Pow!UnderWay
    BY <1>1, <1>3 DEF Pow!UnderWay
  <1>12. Enough'
    <2>1. Cardinality(Pow!UnderWay \cup {r}) = Cardinality(Pow!UnderWay) + 1
      BY <1>11, UnderWayFinite, FS_AddElement
    <2>2. Cardinality(Pow!UnderWay) <= c /\ Cardinality(Pow!UnderWay) \in Nat
      BY UnderWayFinite DEF PowerInv, Enough, c
    <2>3. Cardinality(Pow!UnderWay) + 1 <= c + 1
      BY <1>2, <2>2
    <2>4. Cardinality(Pow!UnderWay') <= Len(cb_list')
      BY <1>5, <1>11, <2>1, <2>3
    <2> QED BY <2>4 DEF Enough
  <1>13. Pow!QueuedIsUnderWay => Pow!QueuedIsUnderWay'
    <2> SUFFICES ASSUME Pow!QueuedIsUnderWay PROVE Pow!QueuedIsUnderWay'
      OBVIOUS
    <2>1. {cb_list[n].cb : n \in 1..c} = Pow!UnderWay
      BY DEF Pow!QueuedIsUnderWay, c
    <2>2. ASSUME NEW n \in 1..(c + 1) PROVE cb_list'[n].cb \in Pow!UnderWay \cup {r}
      <3>1. CASE n \in 1..c /\ cb_list'[n] = cb_list[n]
        BY <2>1, <3>1
      <3>2. CASE n = c + 1 /\ cb_list'[n] = e
        BY <1>4, <3>2
      <3> QED BY <1>9, <3>1, <3>2
    <2>3. ASSUME NEW s \in Pow!UnderWay \cup {r} PROVE \E n \in 1..(c + 1) : cb_list'[n].cb = s
      <3>1. CASE s = r
        <4>1. c + 1 \in 1..(c + 1) /\ cb_list'[c + 1] = e
          BY <1>2, <1>5
        <4> QED BY <1>4, <3>1, <4>1, ZenonT(20)
      <3>2. CASE s # r
        <4>1. PICK n \in 1..c : cb_list[n].cb = s
          BY <2>1, <3>2
        <4>2. n \in 1..(c + 1) /\ cb_list'[n] = cb_list[n]
          BY <1>2, <1>5
        <4> QED BY <4>1, <4>2
      <3> QED BY <3>1, <3>2
    <2>4. {cb_list'[n].cb : n \in 1..(c + 1)} = Pow!UnderWay'
      BY <1>11, <2>2, <2>3
    <2> QED BY <1>5, <2>4 DEF Pow!QueuedIsUnderWay
  <1> QED BY <1>3, <1>6, <1>8, <1>10, <1>12, <1>13 DEF PowerInv

\* bm_service_request accepts a request that is queued, or refuses it.
LEMMA RequestKeeps ==
  ASSUME Pow!PowerInfoAssumption, PowerInv, NEW r \in Pow!Request,
         Pow!power_info_service_request(r)
  PROVE  PowerInv'
  <1>1. PICK accepted \in BOOLEAN :
            /\ state' = [state EXCEPT ![r] = IF accepted THEN "open" ELSE "refused"]
            /\ mixed' = (mixed \/ ~accepted)
    BY DEF Pow!power_info_service_request
  <1>2. state[r] = "queued" /\ UNCHANGED <<cb_list, add_id, get_id, served, called>>
    BY DEF Pow!power_info_service_request
  <1> DEFINE stage == IF accepted THEN "open" ELSE "refused"
  <1>3. stage \in Pow!Stages /\ stage # "free" /\ stage # "replied"
    BY DEF Pow!Stages
  <1>4. /\ state' \in [Pow!Request -> Pow!Stages]
        /\ \A s \in Pow!Request : state'[s] = IF s = r THEN stage ELSE state[s]
        /\ Fresh' /\ Pow!OneCallbackEach'
        /\ Pow!RepliedIsCalled => Pow!RepliedIsCalled'
    <2> HIDE DEF stage
    <2>1. state' = [state EXCEPT ![r] = stage]
      BY <1>1 DEF stage
    <2> QED BY <1>2, <1>3, <2>1, StageMoves
  <1>5. mixed' \in BOOLEAN
    BY <1>1, PowerTypes
  <1> HIDE DEF stage
  <1>6. Pow!TypeOK'
    BY <1>2, <1>4, <1>5 DEF PowerInv, Pow!TypeOK
  <1>7. MadeUpTo'
    BY <1>2, <1>3, <1>4 DEF PowerInv, MadeUpTo
  <1>8. Lined(cb_list, add_id, get_id, state', called)
    <2>1. Lined(cb_list, add_id, get_id, state, called)
      BY DEF PowerInv
    <2>2. \A n \in 1..Len(cb_list) : cb_list[n].cb \in Pow!Request
      BY PowerTypes
    <2> QED BY <1>3, <1>4, <2>1, <2>2 DEF Lined
  <1>9. CASE accepted
    <2>1. Pow!UnderWay' = Pow!UnderWay
      BY <1>2, <1>4, <1>9 DEF Pow!UnderWay, stage
    <2>2. Enough' /\ (Pow!QueuedIsUnderWay => Pow!QueuedIsUnderWay') /\ (mixed' <=> mixed)
      BY <1>1, <1>2, <1>9, <2>1 DEF PowerInv, Enough, Pow!QueuedIsUnderWay
    <2> QED BY <1>2, <1>4, <1>6, <1>7, <1>8, <2>2 DEF PowerInv
  <1>10. CASE ~accepted
    <2>1. Pow!UnderWay' = Pow!UnderWay \ {r} /\ r \in Pow!UnderWay
      BY <1>2, <1>4, <1>10 DEF Pow!UnderWay, stage
    <2>2. Cardinality(Pow!UnderWay \ {r}) = Cardinality(Pow!UnderWay) - 1
      BY <2>1, UnderWayFinite, FS_RemoveElement
    <2>3. /\ Cardinality(Pow!UnderWay) <= Len(cb_list) /\ Cardinality(Pow!UnderWay) \in Nat
          /\ Len(cb_list) \in Nat
      BY UnderWayFinite, PowerTypes DEF PowerInv, Enough
    <2>4. Cardinality(Pow!UnderWay') <= Len(cb_list')
      BY <1>2, <2>1, <2>2, <2>3
    <2>5. Enough' /\ mixed'
      BY <1>1, <1>10, <2>4 DEF Enough
    <2> QED BY <1>2, <1>4, <1>6, <1>7, <1>8, <2>5 DEF PowerInv
  <1> QED BY <1>9, <1>10

\* A sequence without its first item.
LEMMA DropFirst ==
  ASSUME NEW V, NEW s \in Seq(V), Len(s) # 0
  PROVE  /\ SubSeq(s, 1, 1 - 1) \o SubSeq(s, 1 + 1, Len(s)) = Tail(s)
         /\ Tail(s) \in Seq(V) /\ Len(Tail(s)) = Len(s) - 1
         /\ \A i \in 1..(Len(s) - 1) : Tail(s)[i] = s[i + 1]
  <1>1. Tail(s) \in Seq(V) /\ Len(Tail(s)) = Len(s) - 1
        /\ \A i \in 1..(Len(s) - 1) : Tail(s)[i] = s[i + 1]
    OBVIOUS
  <1>2. SubSeq(s, 1, 0) = <<>>
    OBVIOUS
  <1>3. SubSeq(s, 2, Len(s)) = Tail(s)
    OBVIOUS
  <1>4. <<>> \o Tail(s) = Tail(s)
    BY <1>1
  <1> QED BY <1>1, <1>2, <1>3, <1>4

\* An answer takes the first of the callbacks.  When no earlier request is
\* under way, that is the callback of the request it answers.
LEMMA ReplyKeeps ==
  ASSUME Pow!PowerInfoAssumption, PowerInv, NEW r \in Pow!Request,
         Pow!power_info_reply_cb(r)
  PROVE  PowerInv'
  <1> DEFINE c == Len(cb_list)
             q == cb_list[1].cb
  <1>1. /\ state \in [Pow!Request -> Pow!Stages] /\ cb_list \in Seq(Entry) /\ c \in Nat
        /\ called \in [Pow!Request -> Seq(Pow!Request)] /\ mixed \in BOOLEAN
        /\ get_id \in Nat /\ add_id \in Nat /\ add_id <= MaxRequests /\ MaxRequests \in Nat
        /\ \A n \in 1..c : cb_list[n].cb \in Pow!Request /\ cb_list[n].cb \in Nat
    BY PowerTypes
  <1>2. /\ add_id = get_id + c
        /\ \A n \in 1..c : cb_list[n].id = get_id + n - 1
        /\ \A n \in 1..c : state[cb_list[n].cb] # "free" /\ called[cb_list[n].cb] = <<>>
        /\ \A m, n \in 1..c : m < n => cb_list[m].cb < cb_list[n].cb
    BY DEF PowerInv, Lined
  <1>3. /\ state[r] = "open" /\ add_id' = add_id /\ served' = served
        /\ mixed' = (mixed \/ \E s \in Pow!UnderWay : s < r)
    BY DEF Pow!power_info_reply_cb
  <1>4. r \in Pow!UnderWay
    BY <1>3 DEF Pow!UnderWay
  <1>5. /\ Cardinality(Pow!UnderWay \ {r}) = Cardinality(Pow!UnderWay) - 1
        /\ Cardinality(Pow!UnderWay) \in Nat /\ Cardinality(Pow!UnderWay) <= c
        /\ Cardinality(Pow!UnderWay) # 0
    <2>1. Cardinality(Pow!UnderWay) # 0
      BY <1>4, UnderWayFinite, FS_EmptySet
    <2> QED BY <1>4, <2>1, UnderWayFinite, FS_RemoveElement DEF PowerInv, Enough
  <1>6. c # 0 /\ add_id # get_id /\ 1 \in 1..c
    BY <1>1, <1>2, <1>5
  <1>7. PICK answer \in Pow!power_info_request_cb :
            /\ state' = [state EXCEPT ![r] = answer]
            /\ Pow!queue_cb_dequeue(r, answer = "replied")
    BY DEF Pow!power_info_reply_cb
  <1>8. answer \in {"timed out", "replied", "garbled"}
    BY DEF Pow!power_info_request_cb
  <1>9. PICK k \in 1..c :
            /\ cb_list[k].id = get_id
            /\ called' = IF answer = "replied" THEN [called EXCEPT ![cb_list[k].cb] = Append(@, r)]
                         ELSE called
            /\ cb_list' = SubSeq(cb_list, 1, k - 1) \o SubSeq(cb_list, k + 1, Len(cb_list))
            /\ get_id' = get_id + 1
    BY <1>6, <1>7 DEF Pow!queue_cb_dequeue
  <1>10. k = 1
    <2>1. get_id = get_id + k - 1 /\ get_id \in Nat /\ k \in Nat
      BY <1>1, <1>2, <1>9
    <2> QED BY <2>1
  <1>11. /\ cb_list' = Tail(cb_list) /\ cb_list' \in Seq(Entry) /\ Len(cb_list') = c - 1
         /\ \A i \in 1..(c - 1) : cb_list'[i] = cb_list[i + 1]
    <2>1. /\ SubSeq(cb_list, 1, 1 - 1) \o SubSeq(cb_list, 1 + 1, Len(cb_list)) = Tail(cb_list)
          /\ Tail(cb_list) \in Seq(Entry) /\ Len(Tail(cb_list)) = Len(cb_list) - 1
          /\ \A i \in 1..(Len(cb_list) - 1) : Tail(cb_list)[i] = cb_list[i + 1]
      BY <1>1, <1>6, DropFirst
    <2>2. cb_list' = Tail(cb_list)
      BY <1>9, <1>10, <2>1, Zenon
    <2> QED BY <2>1, <2>2, Zenon
  <1>12. state' \in [Pow!Request -> Pow!Stages]
         /\ \A s \in Pow!Request : state'[s] = IF s = r THEN answer ELSE state[s]
    BY <1>1, <1>7, <1>8 DEF Pow!Stages
  <1>13. q \in Pow!Request /\ q \in Nat /\ called[q] = <<>> /\ state[q] # "free"
    BY <1>1, <1>2, <1>6
  <1>14. /\ called' \in [Pow!Request -> Seq(Pow!Request)]
         /\ \A s \in Pow!Request : called'[s] = IF s = q /\ answer = "replied" THEN <<r>> ELSE called[s]
    <2>1. Append(<<>>, r) = <<r>> /\ <<r>> \in Seq(Pow!Request)
      OBVIOUS
    <2>2. called' = IF answer = "replied" THEN [called EXCEPT ![q] = <<r>>] ELSE called
      BY <1>9, <1>10, <1>13, <2>1
    <2> QED BY <1>1, <1>13, <2>1, <2>2
  <1> HIDE DEF c, q
  <1>15. Pow!TypeOK'
    <2>1. add_id' \in 0..MaxRequests /\ get_id' \in 0..add_id'
      BY <1>1, <1>2, <1>3, <1>6, <1>9
    <2>2. served' \in BOOLEAN /\ mixed' \in BOOLEAN
      BY <1>1, <1>3 DEF PowerInv, Pow!TypeOK
    <2> QED BY <1>11, <1>12, <1>14, <2>1, <2>2 DEF Pow!TypeOK, Entry
  <1>16. MadeUpTo'
    BY <1>3, <1>8, <1>12 DEF PowerInv, MadeUpTo
  <1>17. \A i \in 1..(c - 1) : /\ i + 1 \in 1..c /\ i \in Nat /\ cb_list'[i] = cb_list[i + 1]
                               /\ cb_list'[i].cb \in Pow!Request /\ cb_list'[i].cb # q
    <2> TAKE i \in 1..(c - 1)
    <2>1. i + 1 \in 1..c /\ i \in Nat /\ 1 < i + 1 /\ cb_list'[i] = cb_list[i + 1]
      BY <1>1, <1>11
    <2>2. cb_list[1].cb < cb_list[i + 1].cb
      BY <1>2, <1>6, <2>1
    <2>3. cb_list[i + 1].cb # q
      BY <1>1, <1>6, <2>1, <2>2 DEF q
    <2> QED BY <1>1, <2>1, <2>3
  <1>18. Lined(cb_list', add_id', get_id', state', called')
    <2>1. add_id' = get_id' + (c - 1)
      BY <1>1, <1>2, <1>3, <1>9
    <2>2. ASSUME NEW i \in 1..(c - 1)
          PROVE  /\ cb_list'[i].id = get_id' + i - 1
                 /\ state'[cb_list'[i].cb] # "free" /\ called'[cb_list'[i].cb] = <<>>
      <3>1. cb_list[i + 1].id = get_id + (i + 1) - 1
        BY <1>2, <1>17
      <3>2. get_id + (i + 1) - 1 = get_id' + i - 1
        BY <1>1, <1>9, <1>17
      <3>3. state[cb_list'[i].cb] # "free" /\ called[cb_list'[i].cb] = <<>>
        BY <1>2, <1>17
      <3> QED BY <1>8, <1>12, <1>14, <1>17, <3>1, <3>2, <3>3
    <2>3. ASSUME NEW m \in 1..(c - 1), NEW n \in 1..(c - 1), m < n
          PROVE  cb_list'[m].cb < cb_list'[n].cb
      <3>1. m + 1 < n + 1
        BY <1>17, <2>3
      <3> QED BY <1>2, <1>17, <3>1
    <2> QED BY <1>11, <2>1, <2>2, <2>3 DEF Lined
  <1>19. Pow!UnderWay' = Pow!UnderWay \ {r}
    BY <1>8, <1>12 DEF Pow!UnderWay
  <1>20. Enough'
    <2>1. Cardinality(Pow!UnderWay) - 1 <= c - 1
      BY <1>1, <1>5
    <2>2. Cardinality(Pow!UnderWay') <= Len(cb_list')
      BY <1>5, <1>11, <1>19, <2>1
    <2> QED BY <2>2 DEF Enough
  <1>21. Fresh'
    BY <1>3, <1>8, <1>12, <1>13, <1>14 DEF PowerInv, Fresh
  <1>22. Pow!OneCallbackEach'
    <2>1. /\ \A p \in Pow!Request : called[p] = <<>> \/ \E s \in Pow!Request : called[p] = <<s>>
          /\ \A s \in Pow!Request : state[s] = "replied" <=> \E p \in Pow!Request : called[p] = <<s>>
          /\ \A p, s \in Pow!Request : called[p] = called[s] /\ called[p] # <<>> => p = s
      BY DEF PowerInv, Pow!OneCallbackEach
    <2>2. \A p \in Pow!Request : called[p] # <<r>>
      BY <1>3, <2>1
    <2>3. <<r>> # <<>> /\ \A s \in Pow!Request : s # r => <<s>> # <<r>>
      OBVIOUS
    <2>4. CASE answer = "replied"
      <3>1. \A p \in Pow!Request : called'[p] = IF p = q THEN <<r>> ELSE called[p]
        BY <1>14, <2>4
      <3>2. \A s \in Pow!Request : s # r =>
                (\E p \in Pow!Request : called'[p] = <<s>>) <=> (\E p \in Pow!Request : called[p] = <<s>>)
        <4> SUFFICES ASSUME NEW s \in Pow!Request, s # r
                     PROVE (\E p \in Pow!Request : called'[p] = <<s>>) <=>
                              (\E p \in Pow!Request : called[p] = <<s>>)
          OBVIOUS
        <4>1. <<s>> # <<r>> /\ <<s>> # <<>>
          BY <2>3
        <4> QED BY <1>13, <3>1, <4>1, Zenon
      <3>3. \E p \in Pow!Request : called'[p] = <<r>>
        BY <1>13, <3>1, Zenon
      <3>4. \A s \in Pow!Request : state'[s] = "replied" <=> \E p \in Pow!Request : called'[p] = <<s>>
        <4> TAKE s \in Pow!Request
        <4>1. CASE s = r
          BY <1>12, <2>4, <3>3, <4>1
        <4>2. CASE s # r
          <5>1. state'[s] = state[s]
            BY <1>12, <4>2
          <5> QED BY <2>1, <3>2, <4>2, <5>1, Zenon
        <4> QED BY <4>1, <4>2
      <3>5. \A p \in Pow!Request : called'[p] = <<>> \/ \E s \in Pow!Request : called'[p] = <<s>>
        <4> SUFFICES ASSUME NEW p \in Pow!Request, called'[p] # <<>>
                     PROVE  \E s \in Pow!Request : called'[p] = <<s>>
          OBVIOUS
        <4>1. CASE p = q
          BY <3>1, <4>1, Zenon
        <4>2. CASE p # q
          <5>1. called'[p] = called[p]
            BY <3>1, <4>2, Zenon
          <5>2. PICK s \in Pow!Request : called[p] = <<s>>
            BY <2>1, <5>1
          <5> QED BY <5>1, <5>2
        <4> QED BY <4>1, <4>2
      <3>6. \A p, s \in Pow!Request : called'[p] = called'[s] /\ called'[p] # <<>> => p = s
        BY <2>1, <2>2, <3>1, Zenon
      <3> QED BY <3>4, <3>5, <3>6 DEF Pow!OneCallbackEach
    <2>5. CASE answer # "replied"
      <3>1. \A p \in Pow!Request : called'[p] = called[p]
        BY <1>14, <2>5
      <3>2. \A s \in Pow!Request : state'[s] = "replied" <=> state[s] = "replied"
        BY <1>3, <1>12, <2>5
      <3> QED BY <2>1, <3>1, <3>2 DEF Pow!OneCallbackEach
    <2> QED BY <2>4, <2>5
  <1>23. ASSUME ~mixed' PROVE Pow!RepliedIsCalled' /\ Pow!QueuedIsUnderWay'
    <2>1. /\ ~mixed /\ \A s \in Pow!UnderWay : ~(s < r)
          /\ \A s \in Pow!Request : called[s] = IF state[s] = "replied" THEN <<s>> ELSE <<>>
          /\ {cb_list[n].cb : n \in 1..c} = Pow!UnderWay
      BY <1>3, <1>23 DEF PowerInv, Pow!RepliedIsCalled, Pow!QueuedIsUnderWay, c
    <2>2. q = r
      <3>1. PICK j \in 1..c : cb_list[j].cb = r
        BY <1>4, <2>1
      <3>2. CASE j # 1
        <4>1. 1 < j
          BY <1>1, <3>2
        <4>2. cb_list[1].cb < r /\ cb_list[1].cb \in Pow!UnderWay
          BY <1>2, <1>6, <2>1, <3>1, <4>1
        <4> QED BY <2>1, <4>2
      <3> QED BY <3>1, <3>2 DEF q
    <2>3. Pow!RepliedIsCalled'
      <3>1. \A s \in Pow!Request : called'[s] = IF state'[s] = "replied" THEN <<s>> ELSE <<>>
        <4> TAKE s \in Pow!Request
        <4>1. CASE s = r
          BY <1>12, <1>13, <1>14, <2>2, <4>1
        <4>2. CASE s # r
          BY <1>12, <1>14, <2>1, <2>2, <4>2
        <4> QED BY <4>1, <4>2
      <3> QED BY <3>1 DEF Pow!RepliedIsCalled
    <2>4. \A i \in 1..(c - 1) : cb_list'[i].cb \in Pow!UnderWay \ {r}
      BY <1>17, <2>1, <2>2
    <2>5. ASSUME NEW s \in Pow!UnderWay \ {r} PROVE \E i \in 1..(c - 1) : cb_list'[i].cb = s
      <3>1. PICK j \in 1..c : cb_list[j].cb = s
        BY <2>1
      <3>2. j # 1
        BY <2>2, <3>1 DEF q
      <3>3. j - 1 \in 1..(c - 1) /\ (j - 1) + 1 = j
        BY <1>1, <3>2
      <3>4. cb_list'[j - 1].cb = s
        BY <1>17, <3>1, <3>3
      <3> QED BY <3>3, <3>4
    <2>6. {cb_list'[i].cb : i \in 1..(c - 1)} = Pow!UnderWay'
      BY <1>19, <2>4, <2>5
    <2>7. Pow!QueuedIsUnderWay'
      BY <1>11, <2>6 DEF Pow!QueuedIsUnderWay
    <2> QED BY <2>3, <2>7
  <1> QED BY <1>15, <1>16, <1>18, <1>20, <1>21, <1>22, <1>23 DEF PowerInv

LEMMA PowerStays ==
  ASSUME PowerInv, served' \in BOOLEAN, UNCHANGED <<cb_list, add_id, get_id, state, called, mixed>>
  PROVE  PowerInv'
  <1>1. Pow!TypeOK'
    BY DEF PowerInv, Pow!TypeOK
  <1>2. MadeUpTo' /\ Lined(cb_list', add_id', get_id', state', called') /\ Fresh'
    BY DEF PowerInv, MadeUpTo, Fresh
  <1>3. Pow!UnderWay' = Pow!UnderWay
    BY DEF Pow!UnderWay
  <1>4. Enough' /\ (Pow!QueuedIsUnderWay => Pow!QueuedIsUnderWay')
    BY <1>3 DEF PowerInv, Enough, Pow!QueuedIsUnderWay
  <1>5. Pow!OneCallbackEach' /\ (Pow!RepliedIsCalled => Pow!RepliedIsCalled')
    BY DEF PowerInv, Pow!OneCallbackEach, Pow!RepliedIsCalled
  <1> QED BY <1>1, <1>2, <1>4, <1>5 DEF PowerInv

LEMMA PowerStep ==
  ASSUME Pow!PowerInfoAssumption, PowerInv, [Pow!Next]_Pow!vars
  PROVE  PowerInv'
  <1>1. CASE Pow!power_info_service_init
    <2>1. served' \in BOOLEAN /\ UNCHANGED <<cb_list, add_id, get_id, state, called, mixed>>
      BY <1>1 DEF Pow!power_info_service_init
    <2> QED BY <2>1, PowerStays
  <1>2. CASE UNCHANGED Pow!vars
    <2>1. served' \in BOOLEAN /\ UNCHANGED <<cb_list, add_id, get_id, state, called, mixed>>
      BY <1>2 DEF Pow!vars, PowerInv, Pow!TypeOK
    <2> QED BY <2>1, PowerStays
  <1>3. ASSUME NEW r \in Pow!Request, Pow!queue_cb_enqueue(r) PROVE PowerInv'
    BY <1>3, RefusedKeeps, EnqueuedKeeps DEF Pow!queue_cb_enqueue
  <1> QED BY <1>1, <1>2, <1>3, RequestKeeps, ReplyKeeps DEF Pow!Next

\* For any number of requests for power information, made by any number of
\* threads, refused by malloc or by bm_service_request and answered in any
\* order: an answer never finds the callback queue empty, so every reply is
\* handed to a callback, and queue_cb_dequeue hands out none twice.  As long as
\* no request was refused by bm_service_request and no answer came before that
\* of an earlier request, the callback found is that of the request answered,
\* power_info_reply_cb invokes it for a reply only, and an answer that is none
\* takes its callback out of the queue too.
THEOREM QueuedServed ==
  ASSUME Pow!PowerInfoAssumption
  PROVE  Pow!Spec => []QueuedIsServed
  <1>1. Pow!Init => PowerInv
    BY PowerInit
  <1>2. PowerInv /\ [Pow!Next]_Pow!vars => PowerInv'
    BY PowerStep
  <1>3. PowerInv => QueuedIsServed
    BY DEF PowerInv, QueuedIsServed
  <1> QED BY <1>1, <1>2, <1>3, PTL DEF Pow!Spec
=============================================================================
