---------------------------------- MODULE Q ----------------------------------
(***************************************************************************)
(* The byte queue of common/q.c: items of different sizes, each stored as  *)
(* a header that holds its size and the bytes themselves, in a buffer both *)
(* parts may wrap around in.  head and tail do not tell a full buffer from  *)
(* an empty one; count does.                                                *)
(*                                                                          *)
(* A byte has Base values and the header (QItem) has Header bytes, low one  *)
(* first, so that a header read at a wrong place is read as some size.      *)
(***************************************************************************)
EXTENDS Naturals, Sequences

CONSTANTS
    Base,       \* the values of a byte
    Header,     \* sizeof(QItem), in bytes
    Sizes,      \* the sizes of the buffers queues are created over
    MaxItem     \* the largest item a user enqueues

QAssumption ==
    /\ Base \in Nat \ {0, 1} /\ Header \in Nat \ {0}
    /\ Sizes \subseteq Nat \ {0} /\ MaxItem \in 1..(Base^Header - 1)

VARIABLES
    size,       \* Q.size
    buf,        \* Q.buf
    head, tail, \* the index of the next byte to write and to read
    count,      \* how many items are stored
    data        \* what the last successful q_dequeue returned

vars == <<size, buf, head, tail, count, data>>

Byte == 0..(Base - 1)
Items == UNION {[1..n -> Byte] : n \in 1..MaxItem}

TypeOK ==
    /\ size \in Sizes
    /\ buf \in [0..(size - 1) -> Byte]
    /\ head \in 0..(size - 1) /\ tail \in 0..(size - 1)
    /\ count \in 0..size
    /\ data \in Items \cup {<<>>}

\* q_create, q_create_static: an empty queue over a buffer of any content
\* (q_create's comes from malloc; zeroes stand for it, nothing is read before
\* it is written).
q_create ==
    /\ size \in Sizes
    /\ buf = [i \in 0..(size - 1) |-> 0]
    /\ head = 0 /\ tail = 0 /\ count = 0
    /\ data = <<>>

(***************************************************************************)
(* Reading and writing.                                                    *)
(***************************************************************************)

q_increment(i, n) == (i + n) % size

q_get_free_space ==
    CASE head = tail -> IF count # 0 THEN 0 ELSE size
      [] head > tail -> (size - head) + tail
      [] OTHER       -> tail - head

\* The header of an item of n bytes, and the size a header at index i says.
QItem(n) == [b \in 1..Header |-> (n \div Base^(b - 1)) % Base]
Said[i \in Nat, b \in 0..Header] ==
    IF b = 0 THEN 0 ELSE Said[i, b - 1] + Base^(b - 1) * buf[q_increment(i, b - 1)]
SizeAt(i) == Said[i, Header]

\* The buffer after the bytes s are written from head on.
Written(s) ==
    [i \in 0..(size - 1) |->
        LET k == ((i + size) - head) % size IN IF k < Len(s) THEN s[k + 1] ELSE buf[i]]

(***************************************************************************)
(* The operations.                                                         *)
(***************************************************************************)

\* Does an item of n bytes fit beside its header?
Fits(n) == q_get_free_space >= n + Header

q_enqueue(item) ==
    /\ Fits(Len(item))
    /\ buf' = Written(QItem(Len(item)) \o item)
    /\ head' = q_increment(head, Header + Len(item))
    /\ count' = count + 1
    /\ UNCHANGED <<size, tail, data>>

\* Mutant: the tail is moved past the header before the caller's buffer is
\* found to be too small.
DequeueMovesFirst(room) ==
    /\ count # 0
    /\ LET n == SizeAt(tail)
           start == q_increment(tail, Header)
       IN IF n > room
          THEN tail' = start /\ UNCHANGED <<count, data>>
          ELSE /\ data' = [k \in 1..n |-> buf[q_increment(start, k - 1)]]
               /\ tail' = q_increment(start, n)
               /\ count' = count - 1
    /\ UNCHANGED <<size, buf, head>>

\* The caller has room for so many bytes; the first item stays where it is
\* when it needs more.
q_dequeue(room) ==
    /\ count # 0
    /\ LET n == SizeAt(tail)
           start == q_increment(tail, Header)
       IN /\ n <= room
          /\ data' = [k \in 1..n |-> buf[q_increment(start, k - 1)]]
          /\ tail' = q_increment(start, n)
          /\ count' = count - 1
    /\ UNCHANGED <<size, buf, head>>

q_clear ==
    /\ count' = 0 /\ head' = 0 /\ tail' = 0
    /\ UNCHANGED <<size, buf, data>>

Init == q_create

Next ==
    \/ \E item \in Items : q_enqueue(item)
    \/ \E room \in 1..MaxItem : q_dequeue(room)
    \/ q_clear

Spec == Init /\ [][Next]_vars

(***************************************************************************)
(* Properties.                                                             *)
(***************************************************************************)

\* The place of the n-th item after the tail, found through the headers.
Place[n \in Nat] ==
    IF n = 0 THEN tail
    ELSE q_increment(Place[n - 1], Header + SizeAt(Place[n - 1]))
Item(n) ==
    [k \in 1..SizeAt(Place[n]) |-> buf[q_increment(Place[n], Header + k - 1)]]

\* The bytes the first n items and their headers take.
Taken[n \in Nat] == IF n = 0 THEN 0 ELSE Taken[n - 1] + Header + SizeAt(Place[n - 1])

F == INSTANCE Fifo WITH items <- [n \in 1..count |-> Item(n - 1)], got <- data

\* The queue is a queue: what the headers in the buffer chain together, from
\* tail on, are the items put in and not yet taken, in order (q_enqueue and
\* q_dequeue walk the ring byte by byte and never look at each other).
IsAFifo == F!Spec

\* No byte is lost and none is given out twice: the chain of items ends at
\* head, and the free space q_get_free_space computes from the two indices is
\* what the items leave.
RoomIsExact == Taken[count] + q_get_free_space = size
=============================================================================
