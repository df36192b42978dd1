--------------------------------- MODULE LL ---------------------------------
(***************************************************************************)
(* The linked list of common/ll.c, in which every module of the stack      *)
(* keeps its requests, packet types, applications and callbacks.  It is    *)
(* modelled by its pointers.  Items are allocated once and never again, so *)
(* that the use of a freed one can be told.                                *)
(***************************************************************************)
EXTENDS Naturals, Sequences, SequencesExt

CONSTANTS
    Id,          \* ids of items; several items may have the same
    MaxItems,    \* bound: items allocated
    MiddleOut    \* may an item go that is neither the first nor the last?

LLAssumption ==
    MaxItems \in Nat /\ MiddleOut \in BOOLEAN

VARIABLES
    head, tail, cursor,   \* the LL
    next, previous, id,   \* the LLItems
    live,                 \* items that are allocated and not freed
    made,                 \* number of items allocated so far
    list,                 \* what the list is to be: the ids put in and not out
    todo,                 \* ll_traverse: the ids it is still to meet
    busy,                 \* is a traversal under way?
    fault                 \* a freed item was written

vars == <<head, tail, cursor, next, previous, id, live, made, list, todo, busy, fault>>

Item == 1..MaxItems
Null == 0

Init ==
    /\ head = Null /\ tail = Null /\ cursor = Null
    /\ next = [e \in Item |-> Null] /\ previous = [e \in Item |-> Null]
    /\ id \in [Item -> Id]
    /\ live = {} /\ made = 0
    /\ list = <<>> /\ todo = <<>> /\ busy = FALSE /\ fault = FALSE

\* The items one meets from the head on.
Chain ==
    LET nth[k \in Item] == IF k = 1 THEN head
                           ELSE IF nth[k - 1] = Null THEN Null ELSE next[nth[k - 1]]
    IN  SelectSeq([k \in Item |-> nth[k]], LAMBDA e : e # Null)

\* The first place of the chain whose item has this id: ll_get_item and
\* ll_remove search alike.
Places(i) == {k \in DOMAIN Chain : id[Chain[k]] = i}
Place(i) == CHOOSE k \in Places(i) : \A l \in Places(i) : k <= l

Without(s, i) == IF i \in Range(s) THEN RemoveFirst(s, i) ELSE s

-----------------------------------------------------------------------------

\* ll_create_item and ll_item_add
Add ==
    LET e == made + 1
    IN  /\ ~fault /\ ~busy /\ e \in Item
        /\ made' = e /\ live' = live \cup {e}
        /\ list' = Append(list, id[e])
        /\ tail' = e
        /\ IF head = Null
           THEN /\ head' = e
                /\ next' = [next EXCEPT ![e] = Null]
                /\ previous' = [previous EXCEPT ![e] = Null]
                /\ UNCHANGED fault
           ELSE /\ previous' = [previous EXCEPT ![e] = tail]
                /\ next' = [next EXCEPT ![tail] = e, ![e] = Null]
                /\ fault' = (tail \notin live)
                /\ UNCHANGED head
        /\ UNCHANGED <<cursor, id, todo, busy>>

\* Mutation of Unlink: the tail stays where it was.
UnlinkKeepsTail(k) ==
    LET e == Chain[k]
    IN  /\ IF e = head THEN head' = next[e] /\ UNCHANGED next
                       ELSE next' = [next EXCEPT ![Chain[k - 1]] = next[e]] /\ UNCHANGED head
        /\ tail' = IF e = head /\ e = tail THEN Null ELSE tail
        /\ live' = live \ {e}
        /\ UNCHANGED previous

\* ll_remove of the item at place k.  Nobody touches the previous pointer of
\* the item behind it.
Unlink(k) ==
    LET e == Chain[k]
    IN  /\ IF e = head THEN head' = next[e] /\ UNCHANGED next
                       ELSE next' = [next EXCEPT ![Chain[k - 1]] = next[e]] /\ UNCHANGED head
        /\ tail' = IF e # tail THEN tail ELSE IF e = head THEN Null ELSE previous[e]
        /\ live' = live \ {e}
        /\ UNCHANGED previous

MayGo(k) == MiddleOut \/ k \in {1, Len(Chain)}

LLRemove(i) ==
    /\ ~fault /\ ~busy /\ Places(i) # {}
    /\ MayGo(Place(i))
    /\ Unlink(Place(i))
    /\ list' = Without(list, i)
    /\ UNCHANGED <<cursor, id, made, todo, busy, fault>>

-----------------------------------------------------------------------------
(* ll_traverse, whose callback may remove the item it was given by its id,  *)
(* as timer_traverse_cb of packet.c does                                    *)

Begin ==
    /\ ~fault /\ ~busy /\ head # Null
    /\ busy' = TRUE /\ cursor' = head /\ todo' = list
    /\ UNCHANGED <<head, tail, next, previous, id, live, made, list, fault>>

\* The callback is called for the item under the cursor, which has moved on
\* before; it may take the item out, and ends the traversal if it fails.
Visit(remove, ok) ==
    LET e == cursor
    IN  /\ ~fault /\ busy /\ cursor # Null
        /\ cursor' = next[e]
        /\ busy' = ok /\ todo' = IF ok THEN Tail(todo) ELSE <<>>
        /\ IF remove
           THEN /\ MayGo(Place(id[e])) /\ Unlink(Place(id[e]))
                /\ list' = Without(list, id[e])
           ELSE UNCHANGED <<head, tail, next, previous, live, list>>
        /\ UNCHANGED <<id, made, fault>>

End ==
    /\ ~fault /\ busy /\ cursor = Null
    /\ busy' = FALSE /\ todo' = <<>>
    /\ UNCHANGED <<head, tail, cursor, next, previous, id, live, made, list, fault>>

Next ==
    \/ Add
    \/ \E i \in Id : LLRemove(i)
    \/ Begin \/ (\E remove, ok \in BOOLEAN : Visit(remove, ok)) \/ End

Spec == Init /\ [][Next]_vars

-----------------------------------------------------------------------------
(* Properties *)

\* Following the next pointers from the head one finds what was added and not
\* removed, in that order, and no freed memory.
ChainIsTheList ==
    /\ [k \in DOMAIN Chain |-> id[Chain[k]]] = list
    /\ Range(Chain) = live

\* The tail is the last item: the next one is added where it will be found.
TailIsLast == tail = IF Chain = <<>> THEN Null ELSE Last(Chain)

\* ll_traverse meets every item once, in order, even if its callback removes
\* the items it meets.
MeetsEveryItem ==
    busy => /\ cursor # Null => todo # <<>> /\ id[cursor] = Head(todo) /\ cursor \in live
            /\ cursor = Null => todo = <<>>

=============================================================================
