----------------------------- MODULE PosixQueue -----------------------------
(***************************************************************************)
(* The BmQueue of the POSIX port (common/bm_posix.c): a ring of Capacity    *)
(* items under a mutex, with one condition variable for the receivers and   *)
(* one for the senders that wait.                                           *)
(*                                                                          *)
(* What a thread does between taking the mutex and giving it back or        *)
(* waiting is one step.  Of the condition variables only what POSIX says is *)
(* used: a signal wakes one of the threads that wait, if any; a wait may     *)
(* end with no signal; and a wait whose time is over may use up a signal.    *)
(***************************************************************************)
EXTENDS Naturals, Sequences, FiniteSets

CONSTANTS
    Receiver, Sender,   \* the threads at the two ends
    Capacity,           \* queue_length
    ReceiveLimits,      \* the timeout_ms receivers and senders call with:
    SendLimits,         \*   "none" (0), "timed", "forever" (UINT32_MAX)
    MaxSends            \* how many items are offered

PosixQueueAssumption ==
    /\ Receiver \cap Sender = {}
    /\ {Capacity, MaxSends} \subseteq Nat \ {0}
    /\ ReceiveLimits \cup SendLimits \subseteq {"none", "timed", "forever"}

Thread == Receiver \cup Sender
Item == 1..MaxSends

VARIABLES
    storage,        \* PosixQueue.storage (0: nothing was ever there)
    head, tail,     \* the dequeue and the enqueue index
    count,
    thread,         \* where each thread is, its timeout and the item it offers
    offered,        \* how many items were offered so far
    got             \* the item received last

vars == <<storage, head, tail, count, thread, offered, got>>

Idle == [at |-> "idle", limit |-> "none", item |-> 0]

TypeOK ==
    /\ storage \in [0..(Capacity - 1) -> Item \cup {0}]
    /\ head \in 0..(Capacity - 1) /\ tail \in 0..(Capacity - 1)
    /\ count \in 0..Capacity
    /\ thread \in [Thread -> [at : {"idle", "asleep", "woken"},
                              limit : {"none", "timed", "forever"}, item : Item \cup {0}]]
    /\ offered \in 0..MaxSends
    /\ got \in Item \cup {0}

bm_queue_create ==
    /\ storage = [i \in 0..(Capacity - 1) |-> 0]
    /\ head = 0 /\ tail = 0 /\ count = 0
    /\ thread = [t \in Thread |-> Idle]
    /\ offered = 0 /\ got = 0

Init == bm_queue_create

Asleep(S) == {t \in S : thread[t].at = "asleep"}

\* pthread_cond_signal by thread t, which goes on: one of S is woken, if any
\* waits.
Signal(S, t) ==
    LET after == [thread EXCEPT ![t] = Idle]
    IN IF Asleep(S) = {} THEN {after}
       ELSE {[after EXCEPT ![w].at = "woken"] : w \in Asleep(S)}

\* A thread that does not find what it needs waits, if it may.
Waits(t, limit, item) ==
    /\ limit # "none"
    /\ thread' = [thread EXCEPT ![t] = [at |-> "asleep", limit |-> limit, item |-> item]]
    /\ UNCHANGED <<storage, head, tail, count, got>>

(***************************************************************************)
(* bm_queue_receive, bm_queue_send, bm_queue_send_to_front_from_isr from    *)
(* the test of the loop on; a call with no time to wait that finds nothing  *)
(* to do changes nothing.                                                  *)
(***************************************************************************)

bm_queue_receive(t, limit) ==
    \/ count = 0 /\ Waits(t, limit, 0)
    \/ /\ count # 0
       /\ got' = storage[head]
       /\ head' = (head + 1) % Capacity
       /\ count' = count - 1
       /\ thread' \in Signal(Sender, t)
       /\ UNCHANGED <<storage, tail>>

bm_queue_send(t, limit, item) ==
    \/ count = Capacity /\ Waits(t, limit, item)
    \/ /\ count # Capacity
       /\ storage' = [storage EXCEPT ![tail] = item]
       /\ tail' = (tail + 1) % Capacity
       /\ count' = count + 1
       /\ thread' \in Signal(Receiver, t)
       /\ UNCHANGED <<head, got>>

bm_queue_send_to_front_from_isr(t, item) ==
    /\ count # Capacity
    /\ head' = IF head = 0 THEN Capacity - 1 ELSE head - 1
    /\ storage' = [storage EXCEPT ![head'] = item]
    /\ count' = count + 1
    /\ thread' \in Signal(Receiver, t)
    /\ UNCHANGED <<tail, got>>

(***************************************************************************)
(* Calls, and waits that end.                                              *)
(***************************************************************************)

Receive(t) ==
    /\ thread[t].at = "idle"
    /\ \E limit \in ReceiveLimits : bm_queue_receive(t, limit)
    /\ UNCHANGED offered

Send(t) ==
    /\ thread[t].at = "idle" /\ offered < MaxSends
    /\ offered' = offered + 1
    /\ \/ \E limit \in SendLimits : bm_queue_send(t, limit, offered')
       \/ bm_queue_send_to_front_from_isr(t, offered')

\* The loop is gone through again.
ReceiverResumes(t) ==
    /\ thread[t].at = "woken"
    /\ bm_queue_receive(t, thread[t].limit)
    /\ UNCHANGED offered
SenderResumes(t) ==
    /\ thread[t].at = "woken"
    /\ bm_queue_send(t, thread[t].limit, thread[t].item)
    /\ UNCHANGED offered

Spurious(t) ==
    /\ thread[t].at = "asleep"
    /\ thread' = [thread EXCEPT ![t].at = "woken"]
    /\ UNCHANGED <<storage, head, tail, count, offered, got>>

\* ETIMEDOUT: the call returns without another look at count.
TimesOut(t) ==
    /\ thread[t].at # "idle" /\ thread[t].limit = "timed"
    /\ thread' = [thread EXCEPT ![t] = Idle]
    /\ UNCHANGED <<storage, head, tail, count, offered, got>>

Next ==
    \/ \E t \in Receiver : Receive(t) \/ ReceiverResumes(t)
    \/ \E t \in Sender : Send(t) \/ SenderResumes(t)
    \/ \E t \in Thread : Spurious(t) \/ TimesOut(t)

Spec == Init /\ [][Next]_vars

(***************************************************************************)
(* Properties.                                                             *)
(***************************************************************************)

F == INSTANCE Fifo
        WITH items <- [n \in 1..count |-> storage[(head + n - 1) % Capacity]]

\* The ring is a queue whatever threads do at its two ends and whatever
\* interrupt handlers put before its first item, around the ends of storage.
IsAFifo == F!Spec

\* No receiver sleeps beside an item: while there is one, a receiver was told
\* and is about to look.
ReceiverIsTold ==
    count # 0 /\ Asleep(Receiver) # {} => \E t \in Receiver : thread[t].at = "woken"

\* Why it is a queue: the items end where the next one goes.
RingInv == TypeOK /\ tail = (head + count) % Capacity
=============================================================================
