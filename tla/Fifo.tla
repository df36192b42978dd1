-------------------------------- MODULE Fifo --------------------------------
(***************************************************************************)
(* What a queue of this code promises its users: the items that were put   *)
(* in come out once each, from the front, in the order in which they stand *)
(* there.  Q (common/q.c) and PosixQueue (the BmQueue of                    *)
(* common/bm_posix.c) implement it.                                         *)
(***************************************************************************)
EXTENDS Naturals, Sequences

VARIABLES
    items,      \* what is in the queue, front first
    got         \* what the last taker was given

\* A queue is created empty; what `got` holds before the first Take is of no
\* interest.
Init == items = <<>>

\* An item goes to the end, or to the front past everything that waits.
Put ==
    /\ Len(items') = Len(items) + 1
    /\ items = SubSeq(items', 1, Len(items))
    /\ UNCHANGED got
PutFront ==
    /\ items' # <<>>
    /\ items = Tail(items')
    /\ UNCHANGED got

\* The first item is handed out.
Take == items # <<>> /\ got' = Head(items) /\ items' = Tail(items)

\* Everything in the queue is forgotten.
Clear == items' = <<>> /\ UNCHANGED got

Next == Clear \/ Put \/ PutFront \/ Take

Spec == Init /\ [][Next]_<<items, got>>
=============================================================================
