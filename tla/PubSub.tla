------------------------------- MODULE PubSub -------------------------------
(***************************************************************************)
(* Publish/subscribe on one node: the list of subscriptions with their     *)
(* callbacks (middleware/pubsub.c), the tables of topics a node advertises *)
(* (bcmp/resource_discovery.c) and the queue of the middleware thread      *)
(* (middleware/middleware.c).                                              *)
(*                                                                         *)
(* The subscription list has no lock.  Application threads subscribe,      *)
(* unsubscribe and publish while the middleware thread walks the list and  *)
(* runs callbacks (which may do the same: a call out of a callback is a    *)
(* step of a thread between two steps of the walk).  bm_sub_wl is split    *)
(* into lookup, insertion (a new element is linked first and filled in     *)
(* afterwards) and advertising; bm_unsub_wl and bm_pub_wl are one step     *)
(* each.  The list is modelled by its pointers, so that what is   *)
(* cut off or freed under somebody's eyes can be told.                     *)
(***************************************************************************)
EXTENDS Integers, Sequences, FiniteSets, SequencesExt, Wildcard

CONSTANTS
    Thread,       \* threads that call bm_sub, bm_unsub and bm_pub
    Callback,     \* callback functions
    SubTopic,     \* topics that are subscribed to: they may hold wildcards
    PubTopic,     \* topics that are published
    MaxElems,     \* bound: list elements allocated
    MaxCbs,       \* bound: callbacks of a subscription
    MaxMsgs,      \* bound: messages
    QueueLen,     \* net_queue_len
    MayFail,      \* may malloc, locks and transmission fail?
    UnsubRaces    \* are there unsubscriptions while a message is delivered?

PubSubAssumption ==
    /\ SubTopic \subseteq Seq(STRING) /\ PubTopic \subseteq Seq(STRING)
    /\ \A s \in PubTopic : ~HasStar(s)
    /\ MaxElems \in Nat \ {0} /\ MaxCbs \in Nat \ {0} /\ MaxMsgs \in Nat
    /\ QueueLen \in Nat \ {0}
    /\ MayFail \in BOOLEAN /\ UnsubRaces \in BOOLEAN

VARIABLES
    next,      \* next pointers of CTX.subscription_list (Root) and its elements
    sub,       \* the BmSub of every element allocated: [topic, cbs, live, raw]
    table,     \* SUB_LIST and PUB_LIST of resource_discovery.c
    thread,    \* where in bm_sub_wl every thread is
    asked,     \* what the application was told: <<topic, callback>> subscribed
    queue,     \* net_queue: topics of messages
    walk,      \* bm_handle_msg: message and place in the list
    msgs,      \* messages so far
    fault,     \* a pointer that is NULL, freed or not set was dereferenced
    harm       \* ghost: something happened that the code does not survive

vars == <<next, sub, table, thread, asked, queue, walk, msgs, fault, harm>>

-----------------------------------------------------------------------------
(* Values *)

Elem  == 1..MaxElems
Null  == 0
Root  == MaxElems + 1
Freed == -1
Table == {"SUB", "PUB"}

NoWalk == [busy |-> FALSE, topic |-> <<>>, at |-> Null, cb |-> 0,
           due |-> {}, called |-> {}]
IdleThread == [pc |-> "idle", topic |-> <<>>, cb |-> CHOOSE c \in Callback : TRUE,
               found |-> FALSE, at |-> Null, undone |-> FALSE]

Init ==
    /\ next = [e \in Elem \cup {Root} |-> Null]
    /\ sub = <<>>
    /\ table = [r \in Table |-> {}]
    /\ thread = [t \in Thread |-> IdleThread]
    /\ asked = {} /\ queue = <<>> /\ walk = NoWalk /\ msgs = 0
    /\ fault = FALSE /\ harm = FALSE

-----------------------------------------------------------------------------
(* The list *)

\* The elements a walk from the root meets, freed ones included.
List ==
    LET nth[k \in 0..MaxElems] ==
            IF k = 0 THEN Root
            ELSE LET e == nth[k - 1] IN IF e = Null THEN Null ELSE next[e]
    IN  SelectSeq([k \in Elem |-> nth[k]], LAMBDA e : e # Null)

\* An element that is neither freed nor still as malloc left it.
Live(e) == sub[e].live
Good(e) == sub[e].live /\ ~sub[e].raw

\* get_sub: the first of these elements that is in the list; Null if none is.
FirstSub(wanted) ==
    LET list == List
        K == {k \in DOMAIN list : Good(list[k]) /\ list[k] \in wanted}
    IN  IF K = {} THEN Null ELSE list[CHOOSE k \in K : \A l \in K : k <= l]
\* The search reads what is not an element before it finds something.
Strays(wanted) ==
    LET list == List
    IN  \E k \in DOMAIN list : ~Good(list[k]) /\
            \A l \in 1..(k - 1) : Good(list[l]) /\ list[l] \notin wanted

HasTopic(topic) == {e \in DOMAIN sub : sub[e].topic = topic}
GetSub(topic) == FirstSub(HasTopic(topic))
Lost(topic) == Strays(HasTopic(topic))
LastSub == IF List = <<>> THEN Root ELSE Last(List)

Crash == fault' = TRUE
At(t, pc) == ~fault /\ thread[t].pc = pc
Goes(t, pc) == thread' = [thread EXCEPT ![t].pc = pc]
Returns(t) == thread' = [thread EXCEPT ![t] = IdleThread]

-----------------------------------------------------------------------------
(* bm_sub_wl *)

SubLookup(t, topic, cb) ==
    /\ At(t, "idle")
    /\ Len(sub) < MaxElems
    /\ IF Lost(topic) THEN Crash /\ UNCHANGED thread
       ELSE /\ thread' = [thread EXCEPT ![t] =
                 [pc |-> "insert", topic |-> topic, cb |-> cb,
                  found |-> GetSub(topic) # Null,
                  at |-> IF GetSub(topic) # Null THEN GetSub(topic) ELSE LastSub,
                  undone |-> FALSE]]
            /\ UNCHANGED fault
    /\ UNCHANGED <<next, sub, table, asked, queue, walk, msgs, harm>>

\* The element is there: its first callback is looked at.
AddCallback(t) ==
    /\ At(t, "insert") /\ thread[t].found
    /\ LET e == thread[t].at
       IN  IF ~Live(e) \/ sub[e].cbs = <<>>
           THEN Crash /\ UNCHANGED <<sub, thread>>
           ELSE /\ UNCHANGED fault
                /\ \/ /\ Head(sub[e].cbs) = thread[t].cb
                      /\ Goes(t, "advertise") /\ UNCHANGED sub
                   \/ /\ Head(sub[e].cbs) # thread[t].cb /\ Len(sub[e].cbs) < MaxCbs
                      /\ sub' = [sub EXCEPT ![e].cbs = Append(@, thread[t].cb)]
                      /\ Goes(t, "advertise")
                   \/ /\ Head(sub[e].cbs) # thread[t].cb /\ MayFail
                      /\ Returns(t) /\ UNCHANGED sub
    /\ UNCHANGED <<next, table, asked, queue, walk, msgs, harm>>

\* Linked(p, e): p->next becomes e, whatever it was.
Linked(p, e) == next' = [next EXCEPT ![p] = e]
Dead(p) == p # Root /\ ~Live(p)

\* A new element goes behind the one that was the last, as malloc returns it;
\* without memory the list ends here.
NewSub(t) ==
    LET p == thread[t].at
        e == Len(sub) + 1
    IN  /\ At(t, "insert") /\ ~thread[t].found /\ e \in Elem
        /\ IF Dead(p) THEN Crash /\ UNCHANGED <<next, sub, thread>>
           ELSE /\ UNCHANGED fault
                /\ \/ /\ Linked(p, e) /\ Goes(t, "clear")
                      /\ sub' = Append(sub, [topic |-> <<>>, cbs |-> <<>>, live |-> TRUE, raw |-> TRUE])
                   \/ /\ MayFail /\ Linked(p, Null) /\ Returns(t) /\ UNCHANGED sub
        /\ UNCHANGED <<table, asked, queue, walk, msgs, harm>>

\* The element is what the one before it points to, each time it is used.
Mine(t) == IF Dead(thread[t].at) THEN Null ELSE next[thread[t].at]
Gone(t) == Mine(t) = Null \/ ~Live(Mine(t))

\* It is cleared: an empty topic without callbacks, at the end of the list.
ClearSub(t) ==
    /\ At(t, "clear")
    /\ IF Gone(t) THEN Crash /\ UNCHANGED <<next, sub, thread>>
       ELSE /\ sub' = [sub EXCEPT ![Mine(t)] =
                         [topic |-> <<>>, cbs |-> <<>>, live |-> TRUE, raw |-> FALSE]]
            /\ Linked(Mine(t), Null) /\ Goes(t, "name") /\ UNCHANGED fault
    /\ UNCHANGED <<table, asked, queue, walk, msgs, harm>>

\* It is given its topic; if there is no memory for it the element is freed,
\* and the list ends in freed memory.
NameSub(t) ==
    /\ At(t, "name")
    /\ IF Gone(t) THEN Crash /\ UNCHANGED <<sub, thread, harm>>
       ELSE /\ \/ /\ sub' = [sub EXCEPT ![Mine(t)].topic = thread[t].topic]
                  /\ Goes(t, "first") /\ UNCHANGED harm
               \/ /\ MayFail /\ harm' = TRUE /\ Returns(t)
                  /\ sub' = [sub EXCEPT ![Mine(t)].live = FALSE]
            /\ UNCHANGED fault
    /\ UNCHANGED <<next, table, asked, queue, walk, msgs>>

\* It is given its first callback, or stays without one.
FirstCallback(t) ==
    /\ At(t, "first")
    /\ IF Gone(t) THEN Crash /\ UNCHANGED <<sub, thread, harm>>
       ELSE /\ \/ /\ sub' = [sub EXCEPT ![Mine(t)].cbs = <<thread[t].cb>>]
                  /\ Goes(t, "advertise") /\ UNCHANGED harm
               \/ /\ MayFail /\ harm' = TRUE /\ Returns(t) /\ UNCHANGED sub
            /\ UNCHANGED fault
    /\ UNCHANGED <<next, table, asked, queue, walk, msgs>>

\* bcmp_resource_discovery_find_resource_priv compares the length of the topic
\* only; a shorter resource is read past its end, with either outcome.
Known(r, topic) ==
    {\E s \in table[r] : IsPrefix(topic, s)}
        \cup (IF \E s \in table[r] : IsStrictPrefix(s, topic) THEN {TRUE} ELSE {})

\* bcmp_resource_discovery_add_resource: [ok, crash, table].  The buffer of the
\* resource is used without a look at the pointer.
Added(r, topic) ==
    UNION {IF known THEN {[ok |-> TRUE, crash |-> FALSE, table |-> table]}
           ELSE {[ok |-> TRUE, crash |-> FALSE,
                  table |-> [table EXCEPT ![r] = @ \cup {topic}]]}
             : known \in Known(r, topic)}
        \cup (IF MayFail THEN {[ok |-> FALSE, crash |-> c, table |-> table] : c \in BOOLEAN}
              ELSE {})

\* A topic that could not be advertised stays subscribed, but bm_sub_wl returns
\* the error.
Advertise(t) ==
    /\ At(t, "advertise")
    /\ \E a \in Added("SUB", thread[t].topic) :
          /\ table' = a.table /\ fault' = a.crash /\ harm' = (harm \/ a.crash)
          /\ asked' = IF a.ok /\ ~thread[t].undone
                      THEN asked \cup {<<thread[t].topic, thread[t].cb>>}
                      ELSE asked
    /\ Returns(t)
    /\ UNCHANGED <<next, sub, queue, walk, msgs>>

-----------------------------------------------------------------------------
(* bm_unsub_wl *)

Position(cb, cbs) == CHOOSE k \in DOMAIN cbs :
                        cbs[k] = cb /\ \A l \in 1..(k - 1) : cbs[l] # cb

\* delete_sub: the first element of that topic leaves the list and is freed.
Previous(e) == CHOOSE p \in Elem \cup {Root} : p \in ({Root} \cup Range(List)) /\ next[p] = e

\* The walk's pointer to a callback, when the k-th of element e is freed.
Moved(w, e, k) ==
    IF w.at # e THEN w
    ELSE [w EXCEPT !.cb = IF @ = k THEN Freed ELSE IF @ > k THEN @ - 1 ELSE @]

\* Another thread's subscription may be undone before its bm_sub_wl returns.
Undone(topic, cb) ==
    [t \in Thread |-> IF thread[t].pc = "advertise" /\ thread[t].topic = topic
                                                   /\ thread[t].cb = cb
                      THEN [thread[t] EXCEPT !.undone = TRUE] ELSE thread[t]]

\* Mutation of TakeOut: a subscription without callbacks stays.
TakeOutKeepsEmpty(topic, cb) ==
    LET e == GetSub(topic)
        k == Position(cb, sub[e].cbs)
    IN  /\ sub' = [sub EXCEPT ![e].cbs = RemoveAt(@, k)]
        /\ asked' = asked \ {<<topic, cb>>}
        /\ thread' = Undone(topic, cb)
        /\ walk' = [Moved(walk, e, k) EXCEPT !.due = @ \ {<<topic, cb>>}]
        /\ UNCHANGED next

TakeOut(topic, cb) ==
    LET e == GetSub(topic)
        k == Position(cb, sub[e].cbs)
        left == RemoveAt(sub[e].cbs, k)
    IN  /\ sub' = [sub EXCEPT ![e].cbs = left, ![e].live = left # <<>>]
        /\ next' = IF left = <<>> THEN [next EXCEPT ![Previous(e)] = next[e]] ELSE next
        /\ asked' = asked \ {<<topic, cb>>}
        /\ thread' = Undone(topic, cb)
        /\ walk' = [Moved(walk, e, k) EXCEPT !.due = @ \ {<<topic, cb>>}]

\* The middleware thread stands on the callback that is freed.
UnderTheWalk(topic, cb) ==
    /\ walk.busy /\ walk.at = GetSub(topic)
    /\ walk.cb = Position(cb, sub[walk.at].cbs) \/ Len(sub[walk.at].cbs) = 1

Unsub(t, topic, cb) ==
    /\ At(t, "idle")
    /\ UnsubRaces \/ ~walk.busy
    /\ \/ /\ Lost(topic)
          /\ Crash /\ UNCHANGED <<next, sub, thread, asked, walk, harm>>
       \/ /\ ~Lost(topic) /\ GetSub(topic) # Null /\ sub[GetSub(topic)].cbs = <<>>
          /\ Crash /\ UNCHANGED <<next, sub, thread, asked, walk, harm>>
       \/ /\ ~Lost(topic) /\ GetSub(topic) # Null
          /\ cb \in Range(sub[GetSub(topic)].cbs)
          /\ TakeOut(topic, cb) /\ UNCHANGED fault
          /\ harm' = (harm \/ UnderTheWalk(topic, cb))
    /\ UNCHANGED <<table, queue, msgs>>

-----------------------------------------------------------------------------
(* Messages *)

\* bm_middleware_rx: a full queue drops the message.
Queued(topic) == IF Len(queue) < QueueLen THEN Append(queue, topic) ELSE queue

Matched(topic) == {e \in DOMAIN sub : Matches(topic, sub[e].topic)}

\* bm_pub_wl, from the second allocation on: a copy for this node if somebody
\* subscribed, then the network, then the resource table.
Pub(t, topic) ==
    /\ At(t, "idle") /\ msgs < MaxMsgs
    /\ IF Strays(Matched(topic)) THEN Crash /\ UNCHANGED <<queue, table, msgs, harm>>
       ELSE /\ \E copied \in IF MayFail THEN BOOLEAN ELSE {TRUE} :
                 queue' = IF FirstSub(Matched(topic)) # Null /\ copied
                          THEN Queued(topic) ELSE queue
            /\ \/ MayFail /\ UNCHANGED <<table, fault, harm>>
               \/ \E a \in Added("PUB", topic) :
                     table' = a.table /\ fault' = a.crash /\ harm' = (harm \/ a.crash)
            /\ msgs' = msgs + 1
    /\ UNCHANGED <<next, sub, thread, asked, walk>>

\* A message of another node.
Arrive(topic) ==
    /\ ~fault /\ msgs < MaxMsgs
    /\ queue' = Queued(topic) /\ msgs' = msgs + 1
    /\ UNCHANGED <<next, sub, table, thread, asked, walk, fault, harm>>

\* bm_handle_msg, by the middleware thread
TakeMessage ==
    /\ ~fault /\ ~walk.busy /\ queue # <<>>
    /\ walk' = [busy |-> TRUE, topic |-> Head(queue), at |-> next[Root], cb |-> 0,
                due |-> {a \in asked : Matches(Head(queue), a[1])}, called |-> {}]
    /\ queue' = Tail(queue)
    /\ UNCHANGED <<next, sub, table, thread, asked, msgs, fault, harm>>

\* The next callback of this element ...
CallsHere ==
    /\ Matches(walk.topic, sub[walk.at].topic)
    /\ walk.cb < Len(sub[walk.at].cbs)

WalkOK == Good(walk.at) /\ walk.cb # Freed

CallCallback ==
    /\ ~fault /\ walk.busy /\ walk.at # Null /\ WalkOK /\ CallsHere
    /\ walk' = [walk EXCEPT !.cb = @ + 1,
                 !.called = @ \cup {<<sub[walk.at].topic, sub[walk.at].cbs[walk.cb + 1]>>}]
    /\ UNCHANGED <<next, sub, table, thread, asked, queue, msgs, fault, harm>>

\* Mutation of NextElement: the walk ends with the element that matched.
NextElementEnds ==
    /\ ~fault /\ walk.busy /\ walk.at # Null /\ WalkOK /\ ~CallsHere
    /\ walk' = [walk EXCEPT !.at = IF walk.cb > 0 THEN Null ELSE next[walk.at], !.cb = 0]
    /\ UNCHANGED <<next, sub, table, thread, asked, queue, msgs, fault, harm>>

\* ... or the next element, whose pointer is read now ...
NextElement ==
    /\ ~fault /\ walk.busy /\ walk.at # Null /\ WalkOK /\ ~CallsHere
    /\ walk' = [walk EXCEPT !.at = next[walk.at], !.cb = 0]
    /\ UNCHANGED <<next, sub, table, thread, asked, queue, msgs, fault, harm>>

\* ... or memory that was freed in the meantime, or that holds no element yet:
\* zeros, by chance, are an element at the end of the list.
WalkStrays ==
    /\ ~fault /\ walk.busy /\ walk.at # Null /\ ~WalkOK
    /\ harm' = (harm \/ (Live(walk.at) /\ sub[walk.at].raw))
    /\ \/ Crash /\ UNCHANGED walk
       \/ /\ Live(walk.at) /\ sub[walk.at].raw
          /\ walk' = [walk EXCEPT !.at = Null, !.cb = 0] /\ UNCHANGED fault
    /\ UNCHANGED <<next, sub, table, thread, asked, queue, msgs>>

WalkEnds ==
    /\ ~fault /\ walk.busy /\ walk.at = Null
    /\ walk' = NoWalk
    /\ UNCHANGED <<next, sub, table, thread, asked, queue, msgs, fault, harm>>

-----------------------------------------------------------------------------

Application(t) ==
    \/ \E topic \in SubTopic, cb \in Callback :
          SubLookup(t, topic, cb) \/ Unsub(t, topic, cb)
    \/ AddCallback(t) \/ NewSub(t) \/ ClearSub(t) \/ NameSub(t) \/ FirstCallback(t) \/ Advertise(t)
    \/ \E topic \in PubTopic : Pub(t, topic)

Middleware ==
    \/ \E topic \in PubTopic : Arrive(topic)
    \/ TakeMessage \/ CallCallback \/ NextElement \/ WalkStrays \/ WalkEnds

Next == (\E t \in Thread : Application(t)) \/ Middleware

Spec == Init /\ [][Next]_vars

-----------------------------------------------------------------------------
(* Properties *)

Listed == UNION {{sub[e].topic} \X Range(sub[e].cbs) : e \in {x \in Range(List) : Good(x)}}

\* "BmOk if able to properly subscribe to topic" (docs/api/pubsub.md): what
\* bm_sub accepted is in the list until bm_unsub takes it out.
AskedIsListed == asked \subseteq Listed

\* The middleware thread calls every callback that was subscribed when the
\* message was taken and still is when the walk ends, whatever was subscribed
\* or unsubscribed while it walked.
EveryoneCalled == [][WalkEnds => walk.due \subseteq walk.called]_vars

\* "BmOk if able to properly unsubscribe from topic" (docs/api/pubsub.md): a
\* callback is in the list only while it is subscribed or being subscribed.
SilentAfterUnsub ==
    Listed \subseteq asked \cup {<<thread[t].topic, thread[t].cb>> : t \in Thread}

\* Four things lead the module to follow a pointer that is NULL, freed or not
\* yet set, and nothing else does: a new subscription for which the second or
\* the third allocation failed, a resource for which memory failed, an
\* unsubscription of the callback the middleware thread stands on, and a
\* middleware thread that reads a new subscription before it is cleared.  Every
\* other failure of bm_sub, bm_pub and bm_unsub leaves the list whole, and a
\* subscription that is cleared and not yet filled in does no harm.
NoBadPointer == fault => harm

\* "Topics are subscribed to, and then added to the resource list"
\* (docs/api/pubsub.md).
Advertised == \A a \in asked : a[1] \in table["SUB"]

=============================================================================
