-------------------------------- MODULE Bcmp --------------------------------
(***************************************************************************)
(* BCMP messages on a network of nodes: packet.c, which numbers requests   *)
(* and finds the callback a reply is for, bcmp.c, which sends, receives    *)
(* and forwards, and the two users that need both, the configuration       *)
(* messages of config.c and the time messages of time.c.                   *)
(*                                                                         *)
(* Messages go to the link-local multicast address, that is to the direct  *)
(* neighbors.  A node that is not the target passes a message on to all    *)
(* ports but the one it came from.  Each node has one BCMP thread that     *)
(* takes messages from a queue, application threads that send requests,    *)
(* and the timer thread, which gives up requests that are too old.         *)
(***************************************************************************)
EXTENDS Naturals, Sequences, SequencesExt, FiniteSets

CONSTANTS
    Node, Link,      \* nodes, and the pairs of them joined by a cable
    Requester,       \* nodes whose applications send requests
    Target,          \* nodes they send them to; 0 stands for all
    Value,
    MaxReq,          \* bound: requests sent
    QueueLen,        \* bcmp_evt_queue_len
    ReplySeqs,       \* 2^16: replies carry 16 bits of the number of the request
    Lossy,           \* may messages get lost, or find no memory on their way?
    AddFails,        \* may recording a request fail?
    TxFails,         \* may sending fail after the request is recorded?
    Preempt          \* may the timer run between finding a request and taking it?

BcmpAssumption ==
    /\ Link \subseteq Node \X Node /\ Requester \subseteq Node /\ 0 \notin Node
    /\ Target \subseteq Node \cup {0}
    /\ MaxReq \in Nat /\ QueueLen \in Nat \ {0} /\ ReplySeqs \in Nat \ {0}
    /\ {Lossy, AddFails, TxFails, Preempt} \subseteq BOOLEAN

VARIABLES
    message_count,   \* the static counter of serialize
    sequence_list,   \* PACKET.sequence_list: requests that wait for a reply
    queue,           \* queue[n]: messages received and not yet handled
    taking,          \* the reply the BCMP thread is matching, with what it found
    store, rtc,      \* a configuration value (or None) and the clock of each node
    asked,           \* history: the requests, in the order they were sent
    answers          \* history: answers[r]: what the callback of request r was given

vars == <<message_count, sequence_list, queue, taking, store, rtc, asked, answers>>

None    == "none"
Expired == 0               \* a callback is given NULL: no request has this number
Idle    == [busy |-> FALSE]

\* The replies, by the functions that send them.
bcmp_config_send_value            == "ConfigValue"
bcmp_config_status_response       == "ConfigStatusResponse"
bcmp_config_send_del_key_response == "ConfigDeleteResponse"
bcmp_send_clear_response_message  == "ConfigClearResponse"
bcmp_time_send_response           == "TimeResponse"

\* The requests of config.c and time.c: does the function that sends one ask for a reply
\* (and so does its type have a number), and with which reply does the target answer?
bcmp_config_get             == [sequenced |-> TRUE,  reply |-> bcmp_config_send_value]
bcmp_config_set             == [sequenced |-> TRUE,  reply |-> bcmp_config_send_value]
bcmp_config_status_request  == [sequenced |-> TRUE,  reply |-> bcmp_config_status_response]
bcmp_config_del_key         == [sequenced |-> TRUE,  reply |-> bcmp_config_send_del_key_response]
bcmp_config_clear_partition == [sequenced |-> TRUE,  reply |-> bcmp_send_clear_response_message]
bcmp_config_commit          == [sequenced |-> FALSE, reply |-> None]
bcmp_time_get_time          == [sequenced |-> FALSE, reply |-> bcmp_time_send_response]
bcmp_time_set_time          == [sequenced |-> FALSE, reply |-> bcmp_time_send_response]

bcmp_config_init ==
    [ ConfigGet    |-> bcmp_config_get,
      ConfigSet    |-> bcmp_config_set,
      ConfigStatus |-> bcmp_config_status_request,
      ConfigDelete |-> bcmp_config_del_key,
      ConfigClear  |-> bcmp_config_clear_partition,
      ConfigCommit |-> bcmp_config_commit ]

time_init == [ TimeRequest |-> bcmp_time_get_time, TimeSet |-> bcmp_time_set_time ]

Config  == DOMAIN bcmp_config_init
Time    == DOMAIN time_init
Request == Config \cup Time
Packet(t) == IF t \in Config THEN bcmp_config_init[t] ELSE time_init[t]

\* Types whose replies are looked up in the list.
SequencedReply == {bcmp_config_init[t].reply : t \in Config} \ {None}

Neighbors(n) == {m \in Node : <<n, m>> \in Link \/ <<m, n>> \in Link}

Init ==
    /\ message_count = [n \in Node |-> 0]
    /\ sequence_list = [n \in Node |-> <<>>]
    /\ queue = [n \in Node |-> <<>>]
    /\ taking = [n \in Node |-> Idle]
    /\ store = [n \in Node |-> None] /\ rtc = [n \in Node |-> None]
    /\ asked = <<>> /\ answers = <<>>

-----------------------------------------------------------------------------
(* Sending *)

\* The queues after n has sent m to the nodes of to; a full queue drops it.
Into(q, n, m, to) ==
    [x \in Node |-> IF x \in to /\ Len(q[x]) < QueueLen
                    THEN Append(q[x], [m EXCEPT !.via = n]) ELSE q[x]]

\* The neighbors that hear what n sends: all, or some of them.
Heard(s) == IF Lossy THEN SUBSET s ELSE {s}

\* bcmp_tx to the link-local address.
bcmp_tx(q, n, m) == \E to \in Heard(Neighbors(n)) : queue' = Into(q, n, m, to)

\* Mutation of bcmp_ll_forward: also to the port the message came from.
ForwardEverywhere(q, n, m) == \E to \in Heard(Neighbors(n)) : queue' = Into(q, n, m, to)

bcmp_ll_forward(q, n, m) ==
    \E to \in Heard(Neighbors(n) \ {m.via}) : queue' = Into(q, n, m, to)

\* serialize: a numbered request gets the next number and is recorded before
\* it is sent.  The message goes out even if it could not be recorded.
serialize(n, t, r, cb, recorded) ==
    /\ message_count' = [message_count EXCEPT ![n] = IF Packet(t).sequenced THEN @ + 1 ELSE @]
    /\ sequence_list' = IF Packet(t).sequenced /\ recorded
                        THEN [sequence_list EXCEPT ![n] = Append(@,
                                 [seq |-> message_count[n], req |-> r, cb |-> cb])]
                        ELSE sequence_list

\* An application of n asks: bcmp_config_get, bcmp_config_set and so on.
Ask(n, t, target, v, cb, recorded, sent) ==
    LET r == Len(asked) + 1
        m == [type |-> t, seq |-> IF Packet(t).sequenced THEN message_count[n] ELSE 0,
              source |-> n, target |-> target, val |-> v, req |-> r, via |-> n]
    IN  /\ r <= MaxReq
        /\ asked' = Append(asked, [node |-> n, type |-> t, cb |-> cb])
        /\ answers' = Append(answers, <<>>)
        /\ serialize(n, t, r, cb, recorded)
        /\ IF sent THEN bcmp_tx(queue, n, m) ELSE UNCHANGED queue
        /\ UNCHANGED <<taking, store, rtc>>

-----------------------------------------------------------------------------
(* Receiving *)

\* What a handler of node n makes of message m: the value and the clock of the node, and
\* the value of the reply (NoReply when there is none).
NoReply  == "no reply"
Keeps(n) == [store |-> store[n], rtc |-> rtc[n], reply |-> NoReply]

\* A value that is not there is not reported.
bcmp_config_process_config_get_msg(n, m) ==
    [Keeps(n) EXCEPT !.reply = IF store[n] = None THEN NoReply ELSE store[n]]
bcmp_config_process_config_set_msg(n, m) ==
    [Keeps(n) EXCEPT !.store = m.val, !.reply = m.val]
bcmp_config_process_status_request_msg(n, m) ==
    [Keeps(n) EXCEPT !.reply = None]
bcmp_process_del_request_message(n, m) ==
    [Keeps(n) EXCEPT !.store = None, !.reply = None]
bcmp_process_clear_request_message(n, m) ==
    [Keeps(n) EXCEPT !.store = None, !.reply = None]
\* A clock that is not set cannot be read, and nobody answers what is addressed to all.
bcmp_time_process_time_request_msg(n, m) ==
    [Keeps(n) EXCEPT !.reply = IF rtc[n] = None \/ m.target # n THEN NoReply ELSE rtc[n]]
bcmp_time_process_time_set_msg(n, m) ==
    [Keeps(n) EXCEPT !.rtc = m.val, !.reply = m.val]
\* Replies nobody waits for are printed.
bcmp_process_value_message(n, m)          == Keeps(n)
bcmp_process_del_response_message(n, m)   == Keeps(n)
bcmp_process_clear_response_message(n, m) == Keeps(n)

Handled(n, m) ==
    CASE m.type = "ConfigGet"    -> bcmp_config_process_config_get_msg(n, m)
      [] m.type = "ConfigSet"    -> bcmp_config_process_config_set_msg(n, m)
      [] m.type = "ConfigStatus" -> bcmp_config_process_status_request_msg(n, m)
      [] m.type = "ConfigDelete" -> bcmp_process_del_request_message(n, m)
      [] m.type = "ConfigClear"  -> bcmp_process_clear_request_message(n, m)
      [] m.type = "TimeRequest"  -> bcmp_time_process_time_request_msg(n, m)
      [] m.type = "TimeSet"      -> bcmp_time_process_time_set_msg(n, m)
      [] m.type = bcmp_config_send_del_key_response -> bcmp_process_del_response_message(n, m)
      [] m.type = bcmp_send_clear_response_message  -> bcmp_process_clear_response_message(n, m)
      [] OTHER                   -> bcmp_process_value_message(n, m)

\* Mutation of ReplySeq: the target uses a number of its own.
ReplySeqOwn(n, m) == message_count[n] % ReplySeqs

\* The replies of config.c repeat the number of the request, cut to the width of the
\* parameter seq_num; those of time.c have none.
ReplySeq(n, m) == IF Packet(m.type).sequenced THEN m.seq % ReplySeqs ELSE 0

\* bcmp_config_send_value, bcmp_config_status_response, ...
Reply(n, m, v) ==
    [type |-> Packet(m.type).reply, seq |-> ReplySeq(n, m), source |-> n,
     target |-> m.source, val |-> v, req |-> m.req, via |-> n]

\* Is m to be passed on?  Only time.c handles what is addressed to all.
ShouldForward(n, m) ==
    m.target # n /\ ~(m.target = 0 /\ m.type \in Time \cup {bcmp_time_send_response})

\* A commit saves the partition and starts the node anew.
bcmp_config_process_commit_msg(n, q) ==
    /\ queue' = [q EXCEPT ![n] = <<>>]
    /\ message_count' = [message_count EXCEPT ![n] = 0]
    /\ sequence_list' = [sequence_list EXCEPT ![n] = <<>>]
    /\ rtc' = [rtc EXCEPT ![n] = None]
    /\ UNCHANGED <<taking, store>>

\* bcmp_process_config_message and bcmp_time_process_time_message, q being the
\* queues without m.
Process(n, m, q) ==
    IF ShouldForward(n, m)
    THEN bcmp_ll_forward(q, n, m) /\ UNCHANGED <<message_count, sequence_list, taking, store, rtc>>
    ELSE IF m.type = "ConfigCommit" THEN bcmp_config_process_commit_msg(n, q)
    ELSE LET h == Handled(n, m)
         IN  /\ store' = [store EXCEPT ![n] = h.store]
             /\ rtc' = [rtc EXCEPT ![n] = h.rtc]
             /\ IF h.reply = NoReply THEN queue' = q ELSE bcmp_tx(q, n, Reply(n, m, h.reply))
             /\ UNCHANGED <<message_count, sequence_list, taking>>

Rest(n) == [queue EXCEPT ![n] = Tail(@)]

Matches(n, m) == {i \in DOMAIN sequence_list[n] : sequence_list[n][i].seq = m.seq}

\* Requests of n with this number, but for the first.
Unlisted(n, seq) ==
    LET s == {i \in DOMAIN sequence_list[n] : sequence_list[n][i].seq = seq}
    IN  IF s = {} THEN sequence_list[n]
        ELSE RemoveAt(sequence_list[n], CHOOSE i \in s : \A j \in s : i <= j)

\* The BCMP thread takes a message.  process_received_message looks a reply
\* up under the lock, and gives the lock back ...
Receive(n) ==
    /\ ~taking[n].busy /\ queue[n] # <<>>
    /\ LET m == Head(queue[n])
       IN  IF m.type \in SequencedReply /\ Matches(n, m) # {}
           THEN /\ taking' = [taking EXCEPT ![n] =
                       [busy |-> TRUE, msg |-> m,
                        elem |-> sequence_list[n][CHOOSE i \in Matches(n, m) :
                                                    \A j \in Matches(n, m) : i <= j]]]
                /\ queue' = Rest(n)
                /\ UNCHANGED <<message_count, sequence_list, store, rtc>>
           ELSE Process(n, m, Rest(n))
    /\ UNCHANGED <<asked, answers>>

\* ... and takes it again to read the callback and to remove the request.
Take(n) ==
    /\ taking[n].busy
    /\ LET m == taking[n].msg  e == taking[n].elem
       IN  IF e.cb
           THEN /\ answers' = [answers EXCEPT ![e.req] = Append(@, m.req)]
                /\ sequence_list' = [sequence_list EXCEPT ![n] = Unlisted(n, m.seq)]
                /\ taking' = [taking EXCEPT ![n] = Idle]
                /\ UNCHANGED <<message_count, queue, store, rtc, asked>>
           ELSE /\ sequence_list' = [sequence_list EXCEPT ![n] = Unlisted(n, m.seq)]
                /\ taking' = [taking EXCEPT ![n] = Idle]
                /\ IF ShouldForward(n, m) THEN bcmp_ll_forward(queue, n, m) ELSE UNCHANGED queue
                /\ UNCHANGED <<message_count, store, rtc, asked, answers>>

\* Mutation of TakeTimesOut: the request is removed all the same.
TakeTimesOutForgets(n) ==
    /\ taking[n].busy
    /\ sequence_list' = [sequence_list EXCEPT ![n] = Unlisted(n, taking[n].msg.seq)]
    /\ taking' = [taking EXCEPT ![n] = Idle]
    /\ UNCHANGED <<message_count, queue, store, rtc, asked, answers>>

\* The lock is not to be had within 24 ms: the message is handled as if it
\* were no reply, and the request stays.
TakeTimesOut(n) ==
    /\ taking[n].busy
    /\ LET m == taking[n].msg
       IN  IF ShouldForward(n, m) THEN bcmp_ll_forward(queue, n, m) ELSE UNCHANGED queue
    /\ taking' = [taking EXCEPT ![n] = Idle]
    /\ UNCHANGED <<message_count, sequence_list, store, rtc, asked, answers>>

\* timer_traverse_cb for the k oldest requests, which have expired.
ExpireFirst(n, k) ==
    /\ answers' = [r \in DOMAIN answers |->
                     IF \E i \in 1..k : sequence_list[n][i].req = r /\ sequence_list[n][i].cb
                     THEN Append(answers[r], Expired) ELSE answers[r]]
    /\ sequence_list' = [sequence_list EXCEPT ![n] = SubSeq(@, k + 1, Len(@))]

\* sequence_list_timer_callback
Timer(n) ==
    /\ Preempt \/ ~taking[n].busy
    /\ \E k \in 1..Len(sequence_list[n]) : ExpireFirst(n, k)
    /\ UNCHANGED <<message_count, queue, taking, store, rtc, asked>>

Next ==
    \/ \E n \in Requester, t \in Request, target \in Target, v \in Value, cb \in BOOLEAN :
         \E recorded \in IF AddFails THEN BOOLEAN ELSE {TRUE},
            sent \in IF TxFails THEN BOOLEAN ELSE {TRUE} :
             /\ Packet(t).sequenced \/ ~cb
             /\ Ask(n, t, target, v, cb, recorded, sent)
    \/ \E n \in Node : Receive(n) \/ Take(n) \/ TakeTimesOut(n) \/ Timer(n)

\* The BCMP thread and the periodic timer of every node run again and again.
Fairness == \A n \in Node : WF_vars(Receive(n) \/ Take(n)) /\ WF_vars(Timer(n))

Spec == Init /\ [][Next]_vars /\ Fairness

-----------------------------------------------------------------------------
(* Properties *)

TypeOK ==
    /\ message_count \in [Node -> Nat]
    /\ \A n \in Node : /\ Len(queue[n]) <= QueueLen
                       /\ \A i \in DOMAIN sequence_list[n] :
                            sequence_list[n][i].req \in DOMAIN asked
                       /\ taking[n].busy \in BOOLEAN
    /\ store \in [Node -> Value \cup {None}] /\ rtc \in [Node -> Value \cup {None}]
    /\ Len(asked) <= MaxReq /\ Len(answers) = Len(asked)

\* The callback of a request is called at most once, by a reply or by the
\* timer, whichever comes first.
AnsweredOnce == \A r \in DOMAIN answers : Len(answers[r]) <= 1

\* A callback is given the reply to its own request, or told that there is
\* none: "Check if this message is a reply to a message we sent" (packet.c).
AnswerIsMine == \A r \in DOMAIN answers : Range(answers[r]) \subseteq {r, Expired}

\* No two requests of a node wait under one number.
NumbersDiffer ==
    \A n \in Node : \A i, j \in DOMAIN sequence_list[n] :
        sequence_list[n][i].seq = sequence_list[n][j].seq => i = j

\* A request that waits does not wait for ever: its callback is called.
WaitingIsAnswered ==
    \A r \in 1..MaxReq :
        (r \in DOMAIN asked /\ asked[r].cb
           /\ \E i \in DOMAIN sequence_list[asked[r].node] :
                  sequence_list[asked[r].node][i].req = r)
        ~> (r \in DOMAIN answers /\ answers[r] # <<>>)

\* Messages are not passed around for ever.
ComesToRest == <>[](\A n \in Node : queue[n] = <<>>)

\* BCMP: no two requests of a node wait under one number, and the callback of
\* a request is called at most once, by the reply to it or by the timer,
\* whichever comes first (serialize, process_received_message,
\* sequence_list_timer_callback).
RepliesAreMine == TypeOK /\ NumbersDiffer /\ AnsweredOnce /\ AnswerIsMine

-----------------------------------------------------------------------------
(* Why replies are mine: an inductive invariant, when requester R is the     *)
(* only one and no target                                                    *)

OnlyRequester(R) == R \in Node /\ Requester \subseteq {R} /\ R \notin Target

Numbered == {t \in Request : Packet(t).sequenced} \cup SequencedReply

Msg ==
    [type : Request \cup SequencedReply \cup {bcmp_time_send_response}, seq : Nat, source : Node,
     target : Node \cup {0}, val : Value \cup {None}, req : Nat \ {0}, via : Node]
Elem   == [seq : Nat, req : Nat \ {0}, cb : BOOLEAN]
Taking == {Idle} \cup [busy : {TRUE}, msg : Msg, elem : Elem]

TypeInv ==
    /\ message_count \in [Node -> Nat] /\ sequence_list \in [Node -> Seq(Elem)]
    /\ taking \in [Node -> Taking]
    /\ store \in [Node -> Value \cup {None}] /\ rtc \in [Node -> Value \cup {None}]
    /\ asked \in Seq([node : Node, type : Request, cb : BOOLEAN]) /\ Len(asked) <= MaxReq
    /\ answers \in Seq(Seq(Nat)) /\ Len(answers) = Len(asked)

\* A request of R, or a reply to it, has a number R has given (there were
\* count), and if that is the number of a request that waits in list l the
\* message is of that request.
Fine(R, m, count, last, l) ==
    /\ m \in Msg /\ m.req <= last
    /\ IF m.type \in Request THEN m.source = R /\ m.target \in Target /\ m.val \in Value
       ELSE m.target = R
    /\ m.type \in Numbered =>
           m.seq < count /\ \A i \in DOMAIN l : m.seq = l[i].seq => m.req = l[i].req

\* So it is with the messages in queues q, and with what t says is being matched.
AllFine(R, q, t, count, last, l) ==
    /\ q \in [Node -> Seq(Msg)] /\ \A n \in Node : Len(q[n]) <= QueueLen
    /\ \A n \in Node : \A i \in DOMAIN q[n] : Fine(R, q[n][i], count, last, l)
    /\ \A n \in Node : t[n].busy => Fine(R, t[n].msg, count, last, l)

\* What waits has numbers in the order of the requests, and was not answered.
ListRight(l, count, given) ==
    /\ \A i \in DOMAIN l : l[i].seq < count /\ l[i].req \in DOMAIN given /\ given[l[i].req] = <<>>
    /\ \A i, j \in DOMAIN l : i < j => l[i].seq < l[j].seq /\ l[i].req < l[j].req

\* The request that a reply was matched with still waits.
TakingRight(t, l) ==
    t.busy => /\ \E i \in DOMAIN l : t.elem = l[i]
              /\ t.msg.type \in SequencedReply /\ t.msg.seq = t.elem.seq

AnswersRight(given) == \A r \in DOMAIN given : given[r] \in {<<>>, <<r>>, <<Expired>>}

RepliesInv(R) ==
    /\ TypeInv
    /\ message_count[R] <= Len(asked)
    /\ AllFine(R, queue, taking, message_count[R], Len(asked), sequence_list[R])
    /\ ListRight(sequence_list[R], message_count[R], answers)
    /\ TakingRight(taking[R], sequence_list[R])
    /\ \A n \in Node \ {R} : sequence_list[n] = <<>> /\ taking[n] = Idle
    /\ AnswersRight(answers)

=============================================================================
