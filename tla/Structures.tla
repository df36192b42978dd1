----------------------------- MODULE Structures -----------------------------
(***************************************************************************)
(* What the platform gives the threads of a node to meet in, and the        *)
(* callback queue that the power information service meets its users in:    *)
(* components that share no state.  What they promise is said here, for     *)
(* their composition.                                                      *)
(***************************************************************************)
EXTENDS Naturals, Sequences, FiniteSets

CONSTANTS
    Receiver, Sender, Capacity, ReceiveLimits, SendLimits, MaxSends,    \* PosixQueue
    Task, Consumes,                                                     \* PosixSemaphore
    StreamSize, Chunks,                                                 \* PosixStream
    MaxRequests, MaxMaking                                              \* PowerInfo

VARIABLES
    storage, queue_head, queue_tail, count, thread, offered, got,
    free, task,
    bytes, stream_head, stream_tail, stream_count, sender, receiver, written, sent,
    stored, received,
    cb_list, add_id, get_id, served, state, called, mixed

U == INSTANCE PosixQueue WITH head <- queue_head, tail <- queue_tail
Sem == INSTANCE PosixSemaphore
Str == INSTANCE PosixStream WITH
        Capacity <- StreamSize, storage <- bytes, head <- stream_head,
        tail <- stream_tail, count <- stream_count
Pow == INSTANCE PowerInfo

queuevars == <<storage, queue_head, queue_tail, count, thread, offered, got>>
semaphorevars == <<free, task>>
streamvars == <<bytes, stream_head, stream_tail, stream_count, sender, receiver, written, sent,
          stored, received>>
powervars == <<cb_list, add_id, get_id, served, state, called, mixed>>

StructuresAssumption ==
    /\ U!PosixQueueAssumption
    /\ Sem!PosixSemaphoreAssumption
    /\ Str!PosixStreamAssumption
    /\ Pow!PowerInfoAssumption

\* Requests for power information, refused or not and answered in any order:
\* every reply is handed to one callback and no callback is invoked twice.
\* While no request was refused and no answer came before that of an earlier
\* request, a callback is invoked for the reply to its own request only, and
\* none is left in the queue by an answer that was not a reply, for the next
\* answer to find.
QueuedIsServed ==
    /\ Pow!TypeOK
    /\ Pow!OneCallbackEach
    /\ ~mixed => Pow!RepliedIsCalled /\ Pow!QueuedIsUnderWay

\* What threads meet in: no receiver sleeps beside an item and no task beside
\* a free semaphore without one being told, a semaphore has one holder, and a
\* stream gives the bytes in the order they were written.
WaitersAreTold ==
    /\ U!TypeOK /\ U!ReceiverIsTold
    /\ Sem!TypeOK /\ Sem!OneHolder /\ Sem!FreeIsOffered
    /\ Str!TypeOK /\ Str!StreamInOrder
=============================================================================
