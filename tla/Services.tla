------------------------------ MODULE Services ------------------------------
(***************************************************************************)
(* Request/reply services over publish/subscribe: the registry of services *)
(* of a node (middleware/bm_service.c), the table of its outstanding       *)
(* requests (middleware/bm_service_request.c) and the topics both          *)
(* subscribe to.  Every node is server and requester.                      *)
(*                                                                         *)
(* Three kinds of threads act on a node: application threads, inside       *)
(* bm_service_request one step at a time; the middleware thread, which     *)
(* takes one message and runs the callback of its topic to the end; the    *)
(* timer thread, which expires requests.  The last two hold CTX.lock while *)
(* they look at the table, so each is one step.                            *)
(*                                                                         *)
(* Topics end in /req or /rep and every topic here has one callback, so    *)
(* the subscription list of PubSub is the set of subscribed topics.        *)
(***************************************************************************)
EXTENDS Naturals, Sequences, FiniteSets, SequencesExt

CONSTANTS
    Node,         \* node ids
    Thread,       \* application threads that make requests
    Home,         \* the node each thread runs on
    Service,      \* service ids: sequences of letters
    IdSpace,      \* number of request ids (2^32 in the code)
    MaxCalls,     \* bound: calls of bm_service_request
    MaxList,      \* bound: elements of a node's service list
    MaxResets,    \* bound: resets of nodes
    MayFail,      \* may malloc, locks and transmission fail?
    PromptSend    \* is a request sent before it is due?

ServicesAssumption ==
    /\ Node # {} /\ IsFiniteSet(Thread) /\ Home \in [Thread -> Node]
    /\ IdSpace \in Nat \ {0} /\ MaxCalls \in Nat
    /\ MaxList \in Nat /\ MaxResets \in Nat
    /\ MayFail \in BOOLEAN /\ PromptSend \in BOOLEAN
    /\ Service \subseteq Seq(STRING)

VARIABLES
    services,   \* BM_SERVICE_CONTEXT.service_list of every node
    registered, \* what the application believes: services it registered
    subs,       \* subscribed topics of every node
    requests,   \* CTX.service_request_list: [id, call], ordered by call
    count,      \* CTX.request_count
    thread,     \* application threads: where in bm_service_request they are
    call,       \* per call of bm_service_request: what became of it
    inbox,      \* messages on their way to, or in the queue of, every node
    resets      \* resets so far

vars == <<services, registered, subs, requests, count, thread, call, inbox,
          resets>>

-----------------------------------------------------------------------------
(* Values *)

Call   == 1..MaxCalls
NoCall == 0
Id     == 0..(IdSpace - 1)

Topic == Service \X {"req", "rep"}
ReqTopic(s) == <<s, "req">>
RepTopic(s) == <<s, "rep">>

\* The call a message belongs to, and the service whose handler made a reply,
\* are not in the frame: they let properties say whom an answer was meant for.
Request(s, n, i, u) == [kind |-> "req", svc |-> s, node |-> n, id |-> i, call |-> u]
Reply(m, s) == [kind |-> "rep", svc |-> s, node |-> m.node, id |-> m.id, call |-> m.call]
Message == [kind : {"req", "rep"}, svc : Service, node : Node, id : Id, call : Call]

NoAnswer == [call |-> NoCall, svc |-> <<>>]
IdleThread == [pc |-> "idle", svc |-> <<>>, id |-> 0, call |-> NoCall]

OK == IF MayFail THEN BOOLEAN ELSE {TRUE}

\* bm_sub_wl: it may fail before the topic is subscribed, or after, when the
\* resource table could not be locked or extended.
SubResult(n, t) ==
    {[ok |-> TRUE, subs |-> subs[n] \cup {t}]}
        \cup (IF MayFail THEN {[ok |-> FALSE, subs |-> subs[n] \cup {t}],
                               [ok |-> FALSE, subs |-> subs[n]]}
                         ELSE {})

\* bm_pub_wl: a copy to the own queue if the topic is subscribed, one to every
\* other node if it could be sent.
Published(box, n, m, local, sent) ==
    [d \in Node |-> IF IF d = n THEN local ELSE sent THEN box[d] \cup {m} ELSE box[d]]

Init ==
    /\ services = [n \in Node |-> <<>>]
    /\ registered = [n \in Node |-> {}]
    /\ subs = [n \in Node |-> {}]
    /\ requests = [n \in Node |-> {}]
    /\ count = [n \in Node |-> 0]
    /\ thread = [t \in Thread |-> IdleThread]
    /\ call = [u \in Call |-> [st |-> "free", node |-> CHOOSE n \in Node : TRUE,
                               svc |-> <<>>, due |-> FALSE, cbs |-> 0,
                               ok |-> FALSE, answer |-> NoAnswer]]
    /\ inbox = [n \in Node |-> {}]
    /\ resets = 0

-----------------------------------------------------------------------------
(* The registry *)

\* bm_service_register.  An element whose topic could not be subscribed stays
\* in the list.
Register(n, s) ==
    /\ Len(services[n]) < MaxList
    /\ services' = [services EXCEPT ![n] = Append(@, s)]
    /\ \E r \in SubResult(n, ReqTopic(s)) :
          /\ subs' = [subs EXCEPT ![n] = r.subs]
          /\ registered' = [registered EXCEPT ![n] = IF r.ok THEN @ \cup {s} ELSE @]
    /\ UNCHANGED <<requests, count, thread, call, inbox, resets>>

\* _service_list_remove_service compares the first strlen(s) letters only.
Removable(n, s) == {k \in DOMAIN services[n] : IsPrefix(s, services[n][k])}
First(K) == CHOOSE k \in K : \A j \in K : k <= j
\* Mutation of Removed: the head of the list goes.
RemovedHead(n, s) ==
    IF services[n] = <<>> THEN services[n] ELSE Tail(services[n])
Removed(n, s) ==
    IF Removable(n, s) = {} THEN services[n]
    ELSE RemoveAt(services[n], First(Removable(n, s)))

\* bm_service_unregister.  Without the subscription it returns FALSE at once.
Unregister(n, s) ==
    /\ ReqTopic(s) \in subs[n]
    /\ subs' = [subs EXCEPT ![n] = @ \ {ReqTopic(s)}]
    /\ services' = [services EXCEPT ![n] = Removed(n, s)]
    /\ registered' = [registered EXCEPT ![n] = @ \ {s}]
    /\ UNCHANGED <<requests, count, thread, call, inbox, resets>>

\* _service_request_received_cb: the first service whose name begins the topic
\* decides; if its name is not the whole of it nobody is called.
Candidates(n, s) == {k \in DOMAIN services[n] : IsPrefix(services[n][k], s)}
Serves(n, s) ==
    /\ Candidates(n, s) # {}
    /\ services[n][First(Candidates(n, s))] = s

-----------------------------------------------------------------------------
(* bm_service_request, on an application thread *)

\* Calls are numbered in the order in which their requests were added.
Started == {u \in Call : call[u].st # "free"}
NextCall == Cardinality(Started) + 1
Pending == {t \in Thread : thread[t].pc \in {"count", "add"}}
At(t, pc) == thread[t].pc = pc
Goes(t, pc) == thread' = [thread EXCEPT ![t].pc = pc]

Returns(t, b) ==
    /\ thread' = [thread EXCEPT ![t] = IdleThread]
    /\ call' = [call EXCEPT ![thread[t].call].st = IF b THEN "sent" ELSE "refused"]

\* _create_node: node->id = CTX.request_count++ is a read ...
CreateNode(t, s) ==
    /\ At(t, "idle")
    /\ Cardinality(Started) + Cardinality(Pending) < MaxCalls
    /\ thread' = [thread EXCEPT ![t] = [pc |-> "count", svc |-> s,
                                        id |-> count[Home[t]], call |-> NoCall]]
    /\ UNCHANGED <<services, registered, subs, requests, count, call, inbox, resets>>

\* ... and a write, without CTX.lock.
CountUp(t) ==
    /\ At(t, "count") /\ Goes(t, "add")
    /\ count' = [count EXCEPT ![Home[t]] = (thread[t].id + 1) % IdSpace]
    /\ UNCHANGED <<services, registered, subs, requests, call, inbox, resets>>

\* _request_list_add_request.  Without the lock the node is not added (and,
\* the outer variable node being NULL, not freed).
AddRequest(t) ==
    /\ At(t, "add") /\ NextCall \in Call
    /\ \E locked \in OK :
          /\ call' = [call EXCEPT ![NextCall].st = IF locked THEN "made" ELSE "refused",
                                  ![NextCall].node = Home[t],
                                  ![NextCall].svc = thread[t].svc]
          /\ IF locked
             THEN /\ requests' = [requests EXCEPT ![Home[t]] =
                                     @ \cup {[id |-> thread[t].id, call |-> NextCall]}]
                  /\ thread' = [thread EXCEPT ![t].pc = "sub", ![t].call = NextCall]
             ELSE /\ thread' = [thread EXCEPT ![t] = IdleThread]
                  /\ UNCHANGED requests
    /\ UNCHANGED <<services, registered, subs, count, inbox, resets>>

\* _service_request_sub_to_reply_topic.  A failure leaves the request in the
\* table.
SubToReply(t) ==
    /\ At(t, "sub")
    /\ \E r \in SubResult(Home[t], RepTopic(thread[t].svc)) :
          /\ subs' = [subs EXCEPT ![Home[t]] = r.subs]
          /\ IF r.ok THEN Goes(t, "send") /\ UNCHANGED call ELSE Returns(t, FALSE)
    /\ UNCHANGED <<services, registered, requests, count, inbox, resets>>

\* node->id is read after the lock was given back: if the request is gone, the
\* node was freed and anything may be there.
IdRead(t) ==
    IF \E r \in requests[Home[t]] : r.call = thread[t].call
    THEN {thread[t].id} ELSE Id

\* _service_request_send_request
SendRequest(t) ==
    /\ At(t, "send")
    /\ \E i \in IdRead(t), buffer, sent \in OK :
          LET n == Home[t]
              s == thread[t].svc
              m == Request(s, n, i, thread[t].call)
          IN  /\ inbox' = IF buffer
                          THEN Published(inbox, n, m, ReqTopic(s) \in subs[n], sent)
                          ELSE inbox
              /\ Returns(t, buffer /\ sent)
    /\ UNCHANGED <<services, registered, subs, requests, count, resets>>

-----------------------------------------------------------------------------
(* The middleware thread *)

\* A message is lost, finds the queue full, or finds nobody: no subscription,
\* no service of that name, another node's reply, no such request, or a lock
\* that is held for longer than 100 ms.
Drop(n, m) ==
    /\ m \in inbox[n]
    /\ inbox' = [inbox EXCEPT ![n] = @ \ {m}]
    /\ UNCHANGED <<services, registered, subs, requests, count, thread, call, resets>>

\* The handler runs and, if it returns TRUE, its reply is published.
ServeRequest(n, m) ==
    /\ m \in inbox[n] /\ m.kind = "req"
    /\ ReqTopic(m.svc) \in subs[n] /\ Serves(n, m.svc)
    /\ \E sent \in OK :
          inbox' = Published([inbox EXCEPT ![n] = @ \ {m}], n,
                             Reply(m, services[n][First(Candidates(n, m.svc))]),
                             RepTopic(m.svc) \in subs[n], sent)
    /\ UNCHANGED <<services, registered, subs, requests, count, thread, call, resets>>

\* Mutation of Expected: every node takes every reply.
ExpectedByAll(n, m) == {r \in requests[n] : r.id = m.id}
\* The requests of node n a reply may be for: target node and id are compared.
Expected(n, m) == {r \in requests[n] : r.id = m.id /\ m.node = n}

\* _service_request_list_get_node_by_id takes the first of the list, which is
\* the first that was added.
Oldest(R) == CHOOSE r \in R : \A q \in R : r.call <= q.call

CallBack(u, ok, answer) ==
    [call[u] EXCEPT !.cbs = IF @ < 2 THEN @ + 1 ELSE @, !.ok = ok, !.answer = answer]

\* Mutation of TakeReply: the request is not removed.
TakeReplyKeeps(n, m) ==
    /\ m \in inbox[n] /\ m.kind = "rep"
    /\ RepTopic(m.svc) \in subs[n]
    /\ Expected(n, m) # {}
    /\ inbox' = [inbox EXCEPT ![n] = @ \ {m}]
    /\ call' = [call EXCEPT ![Oldest(Expected(n, m)).call] =
                   CallBack(Oldest(Expected(n, m)).call, TRUE,
                            [call |-> m.call, svc |-> m.svc])]
    /\ UNCHANGED <<services, registered, subs, requests, count, thread, resets>>

\* _service_request_cb
TakeReply(n, m) ==
    /\ m \in inbox[n] /\ m.kind = "rep"
    /\ RepTopic(m.svc) \in subs[n]
    /\ Expected(n, m) # {}
    /\ inbox' = [inbox EXCEPT ![n] = @ \ {m}]
    /\ LET r == Oldest(Expected(n, m))
       IN  /\ call' = [call EXCEPT ![r.call] =
                          CallBack(r.call, TRUE, [call |-> m.call, svc |-> m.svc])]
           /\ requests' = [requests EXCEPT ![n] = @ \ {r}]
    /\ UNCHANGED <<services, registered, subs, count, thread, resets>>

-----------------------------------------------------------------------------
(* The timer thread, and resets *)

\* The request's time is over; nothing happens until the expiry timer looks.
TimeOut(n, r) ==
    /\ r \in requests[n] /\ ~call[r.call].due
    /\ PromptSend => call[r.call].st # "made"
    /\ call' = [call EXCEPT ![r.call].due = TRUE]
    /\ UNCHANGED <<services, registered, subs, requests, count, thread, inbox, resets>>

Due(n) == {r \in requests[n] : call[r.call].due}

\* Mutation of Expire: expired requests are removed without a callback.
ExpireSilently(n) ==
    /\ Due(n) # {}
    /\ requests' = [requests EXCEPT ![n] = @ \ Due(n)]
    /\ UNCHANGED <<services, registered, subs, count, thread, call, inbox, resets>>

\* _service_request_timer_expiry_cb: every due request fails and goes.
Expire(n) ==
    /\ Due(n) # {}
    /\ requests' = [requests EXCEPT ![n] = @ \ Due(n)]
    /\ call' = [u \in Call |-> IF \E r \in Due(n) : r.call = u
                               THEN CallBack(u, FALSE, NoAnswer) ELSE call[u]]
    /\ UNCHANGED <<services, registered, subs, count, thread, inbox, resets>>

\* A node restarts: everything here is RAM.
Reset(n) ==
    /\ resets < MaxResets
    /\ resets' = resets + 1
    /\ services' = [services EXCEPT ![n] = <<>>]
    /\ registered' = [registered EXCEPT ![n] = {}]
    /\ subs' = [subs EXCEPT ![n] = {}]
    /\ requests' = [requests EXCEPT ![n] = {}]
    /\ count' = [count EXCEPT ![n] = 0]
    /\ thread' = [t \in Thread |-> IF Home[t] = n THEN IdleThread ELSE thread[t]]
    /\ call' = [u \in Call |-> IF call[u].node = n /\ call[u].st # "free"
                               THEN [call[u] EXCEPT !.st = "gone"] ELSE call[u]]
    /\ UNCHANGED inbox

-----------------------------------------------------------------------------

Application(t) ==
    \/ \E s \in Service : CreateNode(t, s)
    \/ CountUp(t) \/ AddRequest(t) \/ SubToReply(t) \/ SendRequest(t)

Middleware(n) ==
    \E m \in inbox[n] : Drop(n, m) \/ ServeRequest(n, m) \/ TakeReply(n, m)

Next ==
    \/ \E t \in Thread : Application(t)
    \/ \E n \in Node : \/ \E s \in Service : Register(n, s) \/ Unregister(n, s)
                       \/ Middleware(n)
                       \/ \E r \in requests[n] : TimeOut(n, r)
                       \/ Expire(n) \/ Reset(n)

Spec == Init /\ [][Next]_vars

\* Time passes for every request, and the periodic expiry timer finds the lock
\* free again and again.
Fairness ==
    \A n \in Node : /\ WF_vars(\E r \in requests[n] : TimeOut(n, r))
                    /\ WF_vars(Expire(n))

FairSpec == Spec /\ Fairness

-----------------------------------------------------------------------------
(* Properties *)

\* Every variable has its type.
TypeOK ==
    /\ services \in [Node -> Seq(Service)]
    /\ registered \in [Node -> SUBSET Service]
    /\ subs \in [Node -> SUBSET Topic]
    /\ requests \in [Node -> SUBSET [id : Id, call : Call]]
    /\ count \in [Node -> Id]
    /\ thread \in [Thread -> [pc : {"idle", "count", "add", "sub", "send"},
                              svc : Service \cup {<<>>}, id : Id,
                              call : Call \cup {NoCall}]]
    /\ call \in [Call -> [st : {"free", "made", "sent", "refused", "gone"},
                          node : Node, svc : Service \cup {<<>>},
                          due : BOOLEAN, cbs : 0..2, ok : BOOLEAN,
                          answer : [call : Call \cup {NoCall},
                                    svc : Service \cup {<<>>}]]]
    /\ inbox \in [Node -> SUBSET Message]
    /\ resets \in 0..MaxResets

\* TypeOK with what makes it inductive: a thread inside bm_service_request has
\* a service, and a call once its request was added.
InRequest(t) == thread[t].pc \in {"sub", "send"}
ThreadsBusy ==
    \A t \in Thread : /\ thread[t].pc # "idle" => thread[t].svc \in Service
                      /\ InRequest(t) => thread[t].call \in Call
TypeInv == TypeOK /\ ThreadsBusy

\* However a reply and the expiry timer race, and however many nodes answer, a
\* request's callback is called at most once.
AnsweredOnce == \A u \in DOMAIN call : call[u].cbs <= 1

\* "Outbound requests each should have a unique ID" (docs/api/services.md).
UniqueIds ==
    \A n \in Node : \A r, q \in requests[n] : r.id = q.id => r = q

\* A callback that is told "success" gets what the handler of the service it
\* asked made from its own request.
SuccessIsMine ==
    \A u \in DOMAIN call : call[u].ok =>
        call[u].answer = [call |-> u, svc |-> call[u].svc]

\* Whatever is lost, late or answered by several nodes, an answer goes to the
\* caller that asked for it (_service_request_cb finds the request by its id),
\* and the requests that wait have ids of their own.
AnswerIsForMe == SuccessIsMine /\ UniqueIds

\* A service that was registered and not unregistered is subscribed, and a
\* request for it finds its handler.
RegisteredIsServed ==
    \A n \in Node : \A s \in registered[n] :
        ReqTopic(s) \in subs[n] /\ Serves(n, s)

\* Why AnsweredOnce holds: calls are numbered in order, a request in a table
\* belongs to a call that was made and not called back, and no two requests,
\* of whatever nodes, belong to the same call.
CallsInOrder ==
    \E k \in 0..MaxCalls : \A u \in Call : call[u].st # "free" <=> u <= k
WaitingOnce ==
    /\ \A n \in Node : \A r \in requests[n] :
          call[r.call].st # "free" /\ call[r.call].cbs = 0
    /\ \A n, m \in Node : \A r \in requests[n], q \in requests[m] :
          r.call = q.call => n = m /\ r = q
    /\ \A u \in Call : call[u].st = "free" => call[u].cbs = 0
    /\ \A t \in Thread : InRequest(t) => call[thread[t].call].st # "free"
OnceInv == CallsInOrder /\ WaitingOnce /\ AnsweredOnce

\* Where the answer is for whoever asked: no node restarts, each has one
\* thread that makes requests, requests are sent before they are due, and
\* there are as many ids as calls.
OneAtATime ==
    /\ MaxResets = 0 /\ PromptSend /\ MaxCalls <= IdSpace
    /\ \A t, s \in Thread : Home[t] = Home[s] => t = s

\* Why it is, then.  A thread's request stays in the table until it was sent;
\* only what was sent is on its way or due.
HeldUntilSent ==
    /\ \A t \in Thread : InRequest(t) =>
          /\ call[thread[t].call].st = "made"
          /\ call[thread[t].call].svc = thread[t].svc
          /\ [id |-> thread[t].id, call |-> thread[t].call] \in requests[Home[t]]
    /\ \A t, s \in Thread :
          InRequest(t) /\ InRequest(s) /\ thread[t].call = thread[s].call => t = s
    /\ \A u \in Call : call[u].st \in {"free", "made"} => ~call[u].due
    /\ \A u \in Call : call[u].st = "free" => ~call[u].ok
\* A message is of a call that was sent, for its service, and has the id of
\* that call's request or of none.
MessageMeans(m) ==
    /\ call[m.call].st \notin {"free", "made"}
    /\ m.svc = call[m.call].svc
    /\ \A r \in requests[m.node] : r.id = m.id => r.call = m.call
\* Node n has used the ids below used[n]; the next is count[n], or is with the
\* thread that counts.
IdsInOrder(used) ==
    \A n \in Node :
        /\ used[n] <= Cardinality(Started)
        /\ \A r \in requests[n] : r.id < used[n]
        /\ \A t \in Thread : Home[t] = n =>
              /\ thread[t].pc # "add" => count[n] = used[n] % IdSpace
              /\ thread[t].pc = "count" => thread[t].id = count[n]
              /\ thread[t].pc = "add" => /\ thread[t].id = used[n] % IdSpace
                                         /\ count[n] = (thread[t].id + 1) % IdSpace
IdsBefore(used) == \A d \in Node : \A m \in inbox[d] : m.id < used[m.node]
Counted ==
    /\ Cardinality(Started) + Cardinality(Pending) <= MaxCalls
    /\ \E used \in [Node -> Nat] : IdsInOrder(used) /\ IdsBefore(used)
MineInv ==
    /\ HeldUntilSent /\ UniqueIds /\ SuccessIsMine /\ Counted
    /\ \A d \in Node : \A m \in inbox[d] : MessageMeans(m)

\* No name of a service is the beginning of another's: where that is not so, a
\* request may find the wrong element of the list, and removal too.
NoPrefixes == \A s, z \in Service : IsPrefix(s, z) => s = z
RegisteredIsListed ==
    \A n \in Node : \A s \in registered[n] :
        /\ ReqTopic(s) \in subs[n]
        /\ \E k \in DOMAIN services[n] : services[n][k] = s

\* Call u was sent; it was answered, or went with its node.
Sent(u) == u \in DOMAIN call /\ call[u].st = "sent"
Over(u) == u \in DOMAIN call /\ (call[u].cbs > 0 \/ call[u].st = "gone")

\* "If the request times out, the service request handler will invoke the
\* callback with a fail": a request that was sent is answered one way or the
\* other.
EveryRequestAnswered ==
    \A u \in Call : Sent(u) ~> Over(u)

=============================================================================
