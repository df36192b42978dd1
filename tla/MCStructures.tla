---------------------------- MODULE MCStructures ----------------------------
(***************************************************************************)
(* The data structures of the node and what the platform gives its threads *)
(* to meet in, each over values of its constants that TLC can exhaust. One *)
(* of them runs, which says which; the others rest where they begin.       *)
(***************************************************************************)
EXTENDS Configuration, Structures

\* A number, a negative number, a string and an array, by their CBOR types.
TypeOf == [n |-> "UINT32", neg |-> "INT32", s |-> "STR", a |-> "ARRAY"]

\* The sizes of the buffers that are written to the stream.
Sent == <<3, 1, 4, 2>>

VARIABLES
    which,      \* the component that runs
    head, tail, cursor, next, previous, id, live, made, list, todo, busy, fault,
    size, buf, q_head, q_tail, q_count, data

L == INSTANCE LL WITH Id <- {1, 2, 3}, MaxItems <- 5, MiddleOut <- FALSE
Q == INSTANCE Q WITH
        Base <- 2, Header <- 2, Sizes <- {3, 7, 8}, MaxItem <- 3, head <- q_head,
        tail <- q_tail, count <- q_count

listvars == <<head, tail, cursor, next, previous, id, live, made, list, todo, busy, fault>>
bytesvars == <<size, buf, q_head, q_tail, q_count, data>>
storevars == <<slots, needs_commit, nvm, saving, unread>>

ASSUME
    /\ L!LLAssumption
    /\ Q!QAssumption
    /\ StructuresAssumption
    /\ ConfigurationAssumption

\* Where a component that does not run stays.
ListRests == L!Init /\ id = <<1, 1, 1, 1, 1>>
BytesRests == Q!Init /\ size = 3
PowerRests == Pow!Init
StoreRests == Init
QueueRests == U!Init
SemaphoreRests == Sem!Init
StreamRests == Str!Init

MCInit ==
    \/ /\ which = "list" /\ L!Init
       /\ BytesRests /\ PowerRests /\ StoreRests /\ QueueRests /\ SemaphoreRests /\
          StreamRests
    \/ /\ which = "bytes" /\ Q!Init
       /\ ListRests /\ PowerRests /\ StoreRests /\ QueueRests /\ SemaphoreRests /\
          StreamRests
    \/ /\ which = "power" /\ Pow!Init
       /\ ListRests /\ BytesRests /\ StoreRests /\ QueueRests /\ SemaphoreRests /\
          StreamRests
    \/ /\ which = "store" /\ Init
       /\ ListRests /\ BytesRests /\ PowerRests /\ QueueRests /\ SemaphoreRests /\
          StreamRests
    \/ /\ which = "queue" /\ U!Init
       /\ ListRests /\ BytesRests /\ PowerRests /\ StoreRests /\ SemaphoreRests /\
          StreamRests
    \/ /\ which = "semaphore" /\ Sem!Init
       /\ ListRests /\ BytesRests /\ PowerRests /\ StoreRests /\ QueueRests /\ StreamRests
    \/ /\ which = "stream" /\ Str!Init
       /\ ListRests /\ BytesRests /\ PowerRests /\ StoreRests /\ QueueRests /\
          SemaphoreRests

MCNext ==
    /\ UNCHANGED which
    /\ \/ /\ which = "list" /\ L!Next
          /\ UNCHANGED <<bytesvars, powervars, storevars, queuevars, semaphorevars,
                         streamvars>>
       \/ /\ which = "bytes" /\ Q!Next
          /\ UNCHANGED <<listvars, powervars, storevars, queuevars, semaphorevars,
                         streamvars>>
       \/ /\ which = "power" /\ Pow!Next
          /\ UNCHANGED <<listvars, bytesvars, storevars, queuevars, semaphorevars,
                         streamvars>>
       \/ /\ which = "store" /\ Next
          /\ UNCHANGED <<listvars, bytesvars, powervars, queuevars, semaphorevars,
                         streamvars>>
       \/ /\ which = "queue" /\ U!Next
          /\ UNCHANGED <<listvars, bytesvars, powervars, storevars, semaphorevars,
                         streamvars>>
       \/ /\ which = "semaphore" /\ Sem!Next
          /\ UNCHANGED <<listvars, bytesvars, powervars, storevars, queuevars, streamvars>>
       \/ /\ which = "stream" /\ Str!Next
          /\ UNCHANGED <<listvars, bytesvars, powervars, storevars, queuevars,
                         semaphorevars>>

mcvars == <<which, listvars, bytesvars, powervars, storevars, queuevars, semaphorevars, streamvars>>

MCSpec == MCInit /\ [][MCNext]_mcvars

\* Whatever is added, and removed at the ends, of a list, by the callback of
\* its own traversal too: the pointers chain what was added and not removed,
\* in that order, the tail is the last of them, and ll_traverse meets every
\* item once.  The room that q_get_free_space computes for the byte queue is
\* what its items leave.
StructuresAreSound ==
    /\ which = "list" => (L!ChainIsTheList /\ L!TailIsLast /\ L!MeetsEveryItem)
    /\ which = "bytes" => (Q!TypeOK /\ Q!RoomIsExact)

\* The byte queue, with its headers and around its ends, and the queue of the
\* POSIX platform, whatever threads and interrupts do at its two ends,
\* implement Fifo.
QueuesAreFifos ==
    /\ Q!IsAFifo
    /\ U!IsAFifo
=============================================================================
