----------------------------- MODULE PosixStream -----------------------------
(***************************************************************************)
(* The stream buffer of the POSIX port (common/bm_posix.c), through which   *)
(* the application of a DFU host passes the chunks of an image to the DFU   *)
(* task: one sender, one receiver, both with a timeout.                     *)
(*                                                                          *)
(* A step lasts from taking the mutex inside the buffer to giving it back   *)
(* or waiting; waits end as in PosixQueue.                                  *)
(***************************************************************************)
EXTENDS Naturals, Sequences

CONSTANTS
    Capacity,       \* max_size
    Chunks          \* the sizes of the buffers sent, in order

PosixStreamAssumption == Capacity \in Nat \ {0} /\ Chunks \in Seq(Nat \ {0})

VARIABLES
    storage, head, tail, count,     \* PosixStreamBuffer
    sender, receiver,               \* where the two threads are
    written,        \* how much of the buffer being sent was stored
    sent,           \* the number of bm_stream_buffer_send calls made
    stored,         \* every byte stored so far, in order
    received        \* every byte received so far, in order

vars == <<storage, head, tail, count, sender, receiver, written, sent, stored, received>>

\* A byte is known by the number of the call that sent it and its place there.
TypeOK ==
    /\ DOMAIN storage = 0..(Capacity - 1)
    /\ head \in 0..(Capacity - 1) /\ tail \in 0..(Capacity - 1) /\ count \in 0..Capacity
    /\ {sender, receiver} \subseteq {"out", "asleep", "woken"}
    /\ sent \in 0..Len(Chunks)
    /\ sender # "out" => written < Chunks[sent]

\* bm_stream_buffer_create
Init ==
    /\ storage = [i \in 0..(Capacity - 1) |-> <<0, 0>>]
    /\ head = 0 /\ tail = 0 /\ count = 0
    /\ sender = "out" /\ receiver = "out" /\ written = 0 /\ sent = 0
    /\ stored = <<>> /\ received = <<>>

Woken(thread) == IF thread = "asleep" THEN "woken" ELSE thread

LeastOf(a, b) == IF a < b THEN a ELSE b

\* A wait may end with no signal.
Wakes ==
    /\ \/ sender = "asleep" /\ sender' = "woken" /\ UNCHANGED receiver
       \/ receiver = "asleep" /\ receiver' = "woken" /\ UNCHANGED sender
    /\ UNCHANGED <<storage, head, tail, count, written, sent, stored, received>>

\* As much of the buffer as there is room for is stored; the sender goes on
\* with the rest when it was told that there is room again.
StoreSome(n, done) ==
    LET left == Chunks[n] - done
        to_write == LeastOf(left, Capacity - count)
        new == [i \in 1..to_write |-> <<n, done + i>>]
    IN /\ storage' = [k \in 0..(Capacity - 1) |->
                        LET d == ((k + Capacity) - tail) % Capacity
                        IN IF d < to_write THEN new[d + 1] ELSE storage[k]]
       /\ tail' = (tail + to_write) % Capacity
       /\ count' = count + to_write
       /\ stored' = stored \o new
       /\ written' = IF to_write = left THEN 0 ELSE done + to_write
       /\ sender' = IF to_write = left THEN "out" ELSE "asleep"
       /\ receiver' = IF to_write = 0 THEN receiver ELSE Woken(receiver)

bm_stream_buffer_send ==
    /\ \/ sender = "out" /\ sent < Len(Chunks) /\ sent' = sent + 1 /\ StoreSome(sent', 0)
       \/ sender = "woken" /\ UNCHANGED sent /\ StoreSome(sent, written)
    /\ UNCHANGED <<head, received>>

\* The time is over (at once for a timeout of 0) with a part of the buffer
\* stored: the part stays.
SendTimesOut ==
    /\ sender \in {"asleep", "woken"}
    /\ sender' = "out" /\ written' = 0
    /\ UNCHANGED <<storage, head, tail, count, receiver, sent, stored, received>>

\* At least one byte is waited for, and what is there is taken.
bm_stream_buffer_receive(max_read) ==
    /\ receiver \in {"out", "woken"}
    /\ \/ /\ count = 0
          /\ receiver' = "asleep"
          /\ UNCHANGED <<head, count, sender, received>>
       \/ /\ count # 0
          /\ LET to_read == LeastOf(count, max_read)
             IN /\ received' = received \o [i \in 1..to_read |-> storage[(head + i - 1) % Capacity]]
                /\ head' = (head + to_read) % Capacity
                /\ count' = count - to_read
          /\ receiver' = "out"
          /\ sender' = Woken(sender)
    /\ UNCHANGED <<storage, tail, written, sent, stored>>

ReceiveTimesOut ==
    /\ receiver \in {"asleep", "woken"}
    /\ receiver' = "out"
    /\ UNCHANGED <<storage, head, tail, count, sender, written, sent, stored, received>>

Next ==
    \/ bm_stream_buffer_send \/ SendTimesOut
    \/ \E max_read \in 1..Capacity : bm_stream_buffer_receive(max_read)
    \/ ReceiveTimesOut \/ Wakes

Spec == Init /\ [][Next]_vars

(***************************************************************************)
(* Properties.                                                             *)
(***************************************************************************)

\* The stream is a stream: the receiver gets the bytes in the order in which
\* they were stored, around the end of the storage, however sends and receives
\* divide them.
StreamInOrder ==
    stored = received \o [n \in 1..count |-> storage[(head + n - 1) % Capacity]]
=============================================================================
