------------------------------ MODULE PowerInfo ------------------------------
(***************************************************************************)
(* The requester's half of middleware/power_info_service.c over the         *)
(* callback queue of common/cb_queue.c, with the server's handler.          *)
(*                                                                          *)
(* bm_service_request keeps one reply function per request, and this        *)
(* service gives it the same one, power_info_reply_cb, every time: which    *)
(* callback of its users an answer is for is told by the order of the       *)
(* callback queue alone.  The service layer is taken at its word (module    *)
(* Services): a request that was accepted is answered once, by a reply or   *)
(* by its timeout, and in any order.  The callback queue has no lock: each  *)
(* of its operations is one step here, whichever thread runs it.            *)
(***************************************************************************)
EXTENDS Naturals, Sequences, FiniteSets

CONSTANTS
    MaxRequests,    \* how many requests are made, request r with callback r
    MaxMaking       \* how many of them may be in power_info_service_request at once

PowerInfoAssumption == MaxRequests \in Nat /\ MaxMaking \in Nat \ {0}

Request == 1..MaxRequests

VARIABLES
    cb_list,        \* BmCbQueue.cb_list: [id, cb], oldest first
    add_id, get_id, \* the id the next callback gets, the id dequeued next
    served,         \* the server has a power_cb
    state,          \* of each request
    called,         \* the replies each callback was invoked with
    mixed           \* an answer overtook another, or a callback was left behind

vars == <<cb_list, add_id, get_id, served, state, called, mixed>>

\* Where a request is: not made; its callback queued, bm_service_request not
\* yet called; accepted; over.
Stages == {"free", "queued", "open", "replied", "timed out", "garbled", "refused"}

UnderWay == {r \in Request : state[r] \in {"queued", "open"}}

TypeOK ==
    /\ cb_list \in Seq([id : Nat, cb : Request])
    /\ add_id \in 0..MaxRequests /\ get_id \in 0..add_id
    /\ served \in BOOLEAN
    /\ state \in [Request -> Stages]
    /\ called \in [Request -> Seq(Request)]
    /\ mixed \in BOOLEAN

Init ==
    /\ cb_list = <<>> /\ add_id = 0 /\ get_id = 0
    /\ served = FALSE
    /\ state = [r \in Request |-> "free"]
    /\ called = [r \in Request |-> <<>>]
    /\ mixed = FALSE

\* power_info_service_init on the serving node.
power_info_service_init ==
    /\ ~served /\ served' = TRUE
    /\ UNCHANGED <<cb_list, add_id, get_id, state, called, mixed>>

(***************************************************************************)
(* A request.                                                              *)
(***************************************************************************)

\* The item for the list may be refused by malloc: nothing is queued then, and
\* power_info_service_request returns before it makes the request.
queue_cb_enqueue(r) ==
    /\ state[r] = "free"
    /\ \A s \in Request : s < r => state[s] # "free"
    /\ Cardinality({s \in Request : state[s] = "queued"}) < MaxMaking
    /\ \/ /\ cb_list' = Append(cb_list, [id |-> add_id, cb |-> r])
          /\ add_id' = add_id + 1
          /\ state' = [state EXCEPT ![r] = "queued"]
       \/ /\ state' = [state EXCEPT ![r] = "refused"]
          /\ UNCHANGED <<cb_list, add_id>>
    /\ UNCHANGED <<get_id, served, called, mixed>>

\* bm_service_request may refuse: the callback stays in the queue.
power_info_service_request(r) ==
    /\ state[r] = "queued"
    /\ \E accepted \in BOOLEAN :
        /\ state' = [state EXCEPT ![r] = IF accepted THEN "open" ELSE "refused"]
        /\ mixed' = (mixed \/ ~accepted)
    /\ UNCHANGED <<cb_list, add_id, get_id, served, called>>

(***************************************************************************)
(* An answer.                                                              *)
(***************************************************************************)

\* Mutant: a callback that is not invoked keeps its place.
DequeueInvokesOnly(r, invoke) ==
    \E n \in 1..Len(cb_list) :
        /\ cb_list[n].id = get_id
        /\ IF invoke
           THEN /\ called' = [called EXCEPT ![cb_list[n].cb] = Append(@, r)]
                /\ cb_list' = SubSeq(cb_list, 1, n - 1) \o SubSeq(cb_list, n + 1, Len(cb_list))
                /\ get_id' = get_id + 1
           ELSE UNCHANGED <<called, cb_list, get_id>>

\* queue_cb_dequeue with the answer to request r as the argument (ids are given
\* out in order, so an item with get_id is there whenever add_id has passed it).
queue_cb_dequeue(r, invoke) ==
    IF add_id = get_id
    THEN UNCHANGED <<called, cb_list, get_id>>
    ELSE \E n \in 1..Len(cb_list) :
            /\ cb_list[n].id = get_id
            /\ called' = IF invoke THEN [called EXCEPT ![cb_list[n].cb] = Append(@, r)]
                         ELSE called
            /\ cb_list' = SubSeq(cb_list, 1, n - 1) \o SubSeq(cb_list, n + 1, Len(cb_list))
            /\ get_id' = get_id + 1

\* The answers a request may get: with no power_cb the handler at the server
\* (power_info_request_cb) returns false and nothing is sent; a reply that does
\* not decode counts as none.
power_info_request_cb == {"timed out"} \cup (IF served THEN {"replied", "garbled"} ELSE {})

\* bm_service_request's reply function runs for request r, from the reply
\* handler or from the expiry timer.
power_info_reply_cb(r) ==
    /\ state[r] = "open"
    /\ \E answer \in power_info_request_cb :
        /\ state' = [state EXCEPT ![r] = answer]
        /\ queue_cb_dequeue(r, answer = "replied")
    /\ mixed' = (mixed \/ \E s \in UnderWay : s < r)
    /\ UNCHANGED <<add_id, served>>

Next ==
    \/ power_info_service_init
    \/ \E r \in Request :
        queue_cb_enqueue(r) \/ power_info_service_request(r) \/ power_info_reply_cb(r)

Spec == Init /\ [][Next]_vars

(***************************************************************************)
(* Properties.                                                             *)
(***************************************************************************)

\* Whatever is refused and in whatever order answers come: every reply is
\* handed to one callback, and no callback is invoked twice.
OneCallbackEach ==
    /\ \A q \in Request : called[q] = <<>> \/ \E r \in Request : called[q] = <<r>>
    /\ \A r \in Request : state[r] = "replied" <=> \E q \in Request : called[q] = <<r>>
    /\ \A p, q \in Request : called[p] = called[q] /\ called[p] # <<>> => p = q

\* "Makes a request ... and invokes a callback if a reply was received"
\* (power_info_service_request): a callback is invoked once for a reply to its
\* own request, and not for anything else.
RepliedIsCalled ==
    \A r \in Request : called[r] = IF state[r] = "replied" THEN <<r>> ELSE <<>>

\* The queue holds the callbacks of the requests under way and no other: none
\* is left behind by an answer that was not a reply, for the next answer to
\* find.
QueuedIsUnderWay == {cb_list[n].cb : n \in 1..Len(cb_list)} = UnderWay
=============================================================================
