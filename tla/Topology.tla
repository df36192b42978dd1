------------------------------ MODULE Topology ------------------------------
(***************************************************************************)
(* integrations/topology.c: a thread that asks one node after the other    *)
(* for its neighbor table and lays the nodes out in a list, root included; *)
(* with the requests and replies of bcmp/neighbors.c it uses.              *)
(*                                                                         *)
(* Events reach the thread through a queue: from the application (Start),  *)
(* from the BCMP thread (AddNode, when a table arrives), from the timer    *)
(* (Timeout) and from the thread itself (CheckNode, End).                  *)
(***************************************************************************)
EXTENDS Naturals, Sequences, SequencesExt, FiniteSets

CONSTANTS
    Node, Root,
    Link,            \* sets of two nodes that a cable joins
    Deads,           \* the sets of nodes that may be silent
    Unplugged,       \* are the ports to silent nodes down?
    Retries,         \* topology_retries
    QueueLen,        \* bcmp_topo_evt_queue_len
    MaxStart,        \* bound: topologies asked for
    MemFails,        \* may there be no memory?
    TxFails,         \* may the network refuse a request?
    TimerFails,      \* what a timer may refuse: to "start", to "stop"
    Quick,           \* may an answer come before its callback is set?
    Late             \* may an answer be under way when the timer fires?

TopologyAssumption ==
    /\ Root \in Node /\ 0 \notin Node /\ \A l \in Link : l \subseteq Node
    /\ Deads \subseteq SUBSET (Node \ {Root})
    /\ Retries \in Nat \ {0} /\ QueueLen \in Nat \ {0} /\ MaxStart \in Nat
    /\ {Unplugged, MemFails, TxFails, Quick, Late} \subseteq BOOLEAN
    /\ TimerFails \subseteq {"start", "stop"}

VARIABLES
    dead, tables,        \* the silent nodes, and the neighbor table of each node
    queue,               \* CTX.evt_queue
    topology, index,     \* CTX.network_topology and its cursor; <<>> is NULL
    in_progress, callback,
    SENT_REQUEST, INSERT_BEFORE, RETRY_COUNT,
    TARGET_NODE_ID, NEIGHBOR_TIMER, NEIGHBOR_REQUEST_CB,
    requesting,          \* in bcmp_request_neighbor_table: what became of the request
    replies,             \* nodes whose answer is under way
    started,             \* topologies asked for, which number them
    results,             \* results[c]: what callback c was called with
    failed               \* memory, a timer or the network failed since the topology was started

ctx    == <<in_progress, callback, SENT_REQUEST>>
laying == <<topology, index, INSERT_BEFORE>>
asking == <<TARGET_NODE_ID, NEIGHBOR_TIMER, NEIGHBOR_REQUEST_CB, requesting, replies>>
world  == <<dead, tables>>
app    == <<started, results>>
vars   == <<world, queue, laying, ctx, RETRY_COUNT, asking, app, failed>>

None == 0

Adjacent(n) == {m \in Node : {n, m} \in Link /\ m # n}

Init ==
    /\ dead \in Deads
    /\ tables \in {t \in [Node -> UNION {SetToSeqs(Adjacent(n)) : n \in Node}] :
                      \A n \in Node : t[n] \in SetToSeqs(Adjacent(n))}
    /\ queue = <<>> /\ topology = <<>> /\ index = 0
    /\ in_progress = FALSE /\ callback = None /\ SENT_REQUEST = FALSE
    /\ INSERT_BEFORE = FALSE /\ RETRY_COUNT = 0
    /\ TARGET_NODE_ID = None /\ NEIGHBOR_TIMER = "off" /\ NEIGHBOR_REQUEST_CB = FALSE
    /\ requesting = "no" /\ replies = {}
    /\ started = 0 /\ results = [c \in 1..MaxStart |-> <<>>] /\ failed = FALSE

\* bm_queue_send without waiting: what finds the queue full is dropped.
Event(type, x) == [type |-> type, of |-> x]
Send(q, e) == IF Len(q) < QueueLen THEN Append(q, e) ELSE q

-----------------------------------------------------------------------------
(* The list of nodes.  index is the place of the cursor. *)

Nodes == [i \in DOMAIN topology |-> topology[i].node]

\* network_topology_node_id_in_topology
Listed(n) == \E i \in DOMAIN topology : topology[i].node = n

\* network_topology_increment_port_count
Explored(t, i) == IF i \in DOMAIN t THEN [t EXCEPT ![i].explored = @ + 1] ELSE t

network_topology_move_next == IF index < Len(topology) THEN index + 1 ELSE index
network_topology_move_prev == IF index > 1 THEN index - 1 ELSE index

\* Back towards the root.
Back(before) == IF before THEN network_topology_move_next ELSE network_topology_move_prev

\* A node that is inserted was come to through one of its ports.
network_topology_insert_before(n) == InsertAt(topology, index, [node |-> n, explored |-> 1])
network_topology_insert_after(n)  == InsertAt(topology, index + 1, [node |-> n, explored |-> 1])

\* A new topology has the root, none of whose ports was explored.
network_topology_append(n) == <<[node |-> n, explored |-> 0]>>

\* network_topology_check_all_ports_explored: counted are the neighbors whose port is up.
PortsUp(n) == {i \in DOMAIN tables[n] : ~(Unplugged /\ tables[n][i] \in dead)}
AllExplored == topology # <<>> /\ topology[index].explored = Cardinality(PortsUp(topology[index].node))

\* network_topology_check_neighbor_node_ids: the first neighbor not yet listed.
NewNode ==
    IF topology = <<>> THEN None
    ELSE LET t == tables[topology[index].node]
             new == {i \in DOMAIN t : ~Listed(t[i])}
         IN  IF new = {} THEN None ELSE t[CHOOSE i \in new : \A j \in new : i <= j]

AtRoot    == topology # <<>> /\ topology[index].node = Root
SecondArm == AtRoot /\ topology[index].explored = 1

-----------------------------------------------------------------------------
(* The application, the BCMP thread and the timer *)

\* bcmp_topology_start.  A full queue is an error for the caller.
Start ==
    /\ started < MaxStart /\ Len(queue) < QueueLen
    /\ started' = started + 1
    /\ queue' = Append(queue, Event("Start", started + 1))
    /\ UNCHANGED <<world, laying, ctx, RETRY_COUNT, asking, results, failed>>

\* Mutation of Reply: the timer is not stopped.
ReplyLeavesTimer(n, memory, stopped) ==
    /\ n \in replies /\ replies' = replies \ {n} /\ memory /\ stopped /\ requesting = "no"
    /\ LET called == TARGET_NODE_ID = n /\ NEIGHBOR_REQUEST_CB /\ SENT_REQUEST
       IN  /\ queue' = IF called THEN Send(queue, Event("AddNode", n)) ELSE queue
           /\ topology' = IF called THEN Explored(topology, index) ELSE topology
    /\ NEIGHBOR_REQUEST_CB' = (NEIGHBOR_REQUEST_CB /\ TARGET_NODE_ID # n)
    /\ RETRY_COUNT' = 0
    /\ UNCHANGED <<world, index, INSERT_BEFORE, ctx, TARGET_NODE_ID, NEIGHBOR_TIMER, requesting,
                   app, failed>>

\* The callback of the table request: without memory for a node the topology ends.
neighbor_request_cb(n, memory) ==
    /\ queue' = Send(queue, IF memory THEN Event("AddNode", n) ELSE Event("End", None))
    /\ RETRY_COUNT' = IF memory THEN 0 ELSE RETRY_COUNT
    /\ topology' = IF memory THEN Explored(topology, index) ELSE topology
    /\ failed' = (failed \/ ~memory)

\* bcmp_process_neighbor_table_reply: the callback is called if the timer could
\* be stopped, and forgotten in any case.
Reply(n, memory, stopped) ==
    /\ n \in replies /\ replies' = replies \ {n}
    /\ (Quick \/ requesting = "no") /\ (memory \/ MemFails) /\ (stopped \/ "stop" \in TimerFails)
    /\ IF TARGET_NODE_ID # n THEN UNCHANGED <<NEIGHBOR_TIMER, NEIGHBOR_REQUEST_CB>>
       ELSE /\ NEIGHBOR_TIMER' = IF stopped THEN "off" ELSE NEIGHBOR_TIMER
            /\ NEIGHBOR_REQUEST_CB' = FALSE
    /\ IF TARGET_NODE_ID = n /\ stopped /\ NEIGHBOR_REQUEST_CB /\ SENT_REQUEST
       THEN neighbor_request_cb(n, memory)
       ELSE /\ memory /\ failed' = (failed \/ ~stopped)
            /\ UNCHANGED <<queue, RETRY_COUNT, topology>>
    /\ UNCHANGED <<world, index, INSERT_BEFORE, ctx, TARGET_NODE_ID, requesting, app>>

\* The timer fires: topology_timer_handler.
TimerFires ==
    /\ NEIGHBOR_TIMER = "armed" /\ (Late \/ TARGET_NODE_ID \notin replies)
    /\ NEIGHBOR_TIMER' = "off"
    /\ queue' = Send(queue, Event("Timeout", None))
    /\ UNCHANGED <<world, laying, ctx, RETRY_COUNT, TARGET_NODE_ID, NEIGHBOR_REQUEST_CB,
                   requesting, replies, app, failed>>

-----------------------------------------------------------------------------
(* bcmp_topology_thread *)

Handles(type) == requesting = "no" /\ queue # <<>> /\ Head(queue).type = type
Item == Head(queue).of

Called(c, what) == results' = [results EXCEPT ![c] = Append(@, what)]

\* A topology is started: process_start_topology_event.
DoStart(memory) ==
    /\ Handles("Start") /\ ~in_progress /\ (memory \/ MemFails)
    /\ IF memory
       THEN /\ topology' = network_topology_append(Root) /\ index' = 1
            /\ in_progress' = TRUE /\ SENT_REQUEST' = TRUE /\ callback' = Item
            /\ queue' = Send(Tail(queue), Event("CheckNode", None))
            /\ failed' = FALSE /\ UNCHANGED results
       ELSE /\ Called(Item, <<>>) /\ queue' = Tail(queue)
            /\ UNCHANGED <<topology, index, ctx, failed>>
    /\ UNCHANGED <<world, INSERT_BEFORE, RETRY_COUNT, asking, started>>

\* Another one is being worked on.
Busy ==
    /\ Handles("Start") /\ in_progress
    /\ Called(Item, <<>>) /\ queue' = Tail(queue)
    /\ UNCHANGED <<world, laying, ctx, RETRY_COUNT, asking, started, failed>>

\* The list with n next to the cursor.
Inserted(n) ==
    IF INSERT_BEFORE THEN network_topology_insert_before(n) ELSE network_topology_insert_after(n)

AddNode ==
    /\ Handles("AddNode")
    /\ IF topology = <<>> \/ Listed(Item) THEN UNCHANGED <<topology, index>>
       ELSE /\ topology' = Inserted(Item)
            /\ index' = IF INSERT_BEFORE THEN index ELSE index + 1
    /\ queue' = Send(Tail(queue), Event("CheckNode", None))
    /\ UNCHANGED <<world, INSERT_BEFORE, ctx, RETRY_COUNT, asking, app, failed>>

\* process_check_node_event: the root and everything behind it has been seen.
CheckEnds ==
    /\ Handles("CheckNode") /\ AllExplored /\ AtRoot
    /\ queue' = Send(Tail(queue), Event("End", None))
    /\ UNCHANGED <<world, laying, ctx, RETRY_COUNT, asking, app, failed>>

\* Nothing new is to be seen from here: back towards the root.  With no
\* topology the event comes back again and again.
CheckMoves ==
    /\ Handles("CheckNode")
    /\ IF AllExplored THEN ~AtRoot /\ UNCHANGED INSERT_BEFORE
       ELSE NewNode = None /\ INSERT_BEFORE' = (INSERT_BEFORE \/ SecondArm)
    /\ index' = Back(INSERT_BEFORE')
    /\ queue' = Send(Tail(queue), Event("CheckNode", None))
    /\ UNCHANGED <<world, topology, ctx, RETRY_COUNT, asking, app, failed>>

\* A node that is not silent answers what it is asked: bcmp_process_neighbor_table_request.
bcmp_send_neighbor_table(n) == IF n \in dead THEN replies ELSE replies \cup {n}

Outcomes ==
    {"sent"} \cup (IF TxFails THEN {"refused"} ELSE {})
             \cup (IF "start" \in TimerFails THEN {"untimed"} ELSE {})

\* bcmp_request_neighbor_table up to bcmp_tx: the timer is started before the
\* request is handed to the network, and without it nothing is sent ...
bcmp_request_neighbor_table(n, outcome) ==
    /\ TARGET_NODE_ID' = n
    /\ NEIGHBOR_TIMER' = IF outcome = "untimed" THEN "off" ELSE "armed"
    /\ replies' = IF outcome = "sent" THEN bcmp_send_neighbor_table(n) ELSE replies
    /\ requesting' = outcome

\* The next node is asked for its table.
CheckAsks(outcome) ==
    /\ Handles("CheckNode") /\ ~AllExplored /\ NewNode # None
    /\ INSERT_BEFORE' = (INSERT_BEFORE \/ SecondArm)
    /\ bcmp_request_neighbor_table(NewNode, outcome)
    /\ queue' = Tail(queue)
    /\ failed' = (failed \/ outcome # "sent")
    /\ UNCHANGED <<world, topology, index, ctx, RETRY_COUNT, NEIGHBOR_REQUEST_CB, app>>

\* ... and then, whatever became of it, the callback is set.  A request that
\* did not go out ends the topology.
SetCallback ==
    /\ requesting # "no"
    /\ NEIGHBOR_REQUEST_CB' = TRUE /\ requesting' = "no"
    /\ queue' = IF requesting = "sent" THEN queue ELSE Send(queue, Event("End", None))
    /\ UNCHANGED <<world, laying, ctx, RETRY_COUNT, TARGET_NODE_ID, NEIGHBOR_TIMER, replies,
                   app, failed>>

\* There is no memory for the timer.
CheckFails ==
    /\ Handles("CheckNode") /\ ~AllExplored /\ NewNode # None /\ MemFails
    /\ INSERT_BEFORE' = (INSERT_BEFORE \/ SecondArm)
    /\ TARGET_NODE_ID' = NewNode /\ NEIGHBOR_TIMER' = "off"
    /\ queue' = Send(Tail(queue), Event("End", None))
    /\ failed' = TRUE
    /\ UNCHANGED <<world, topology, index, ctx, RETRY_COUNT, NEIGHBOR_REQUEST_CB, requesting,
                   replies, app>>

End ==
    /\ Handles("End")
    /\ IF callback = None THEN UNCHANGED results ELSE Called(callback, Nodes)
    /\ topology' = <<>> /\ index' = 0 /\ INSERT_BEFORE' = FALSE /\ RETRY_COUNT' = 0
    /\ SENT_REQUEST' = FALSE /\ in_progress' = FALSE
    /\ queue' = Tail(queue)
    /\ UNCHANGED <<world, callback, asking, started, failed>>

\* After the last try the port counts as explored.
Timeout ==
    /\ Handles("Timeout")
    /\ RETRY_COUNT' = (RETRY_COUNT + 1) % 256
    /\ IF RETRY_COUNT' >= Retries /\ topology # <<>>
       THEN topology' = Explored(topology, index) /\ index' = Back(INSERT_BEFORE)
       ELSE UNCHANGED <<topology, index>>
    /\ queue' = Send(Tail(queue), Event("CheckNode", None))
    /\ UNCHANGED <<world, INSERT_BEFORE, ctx, asking, app, failed>>

Thread ==
    \/ \E memory \in BOOLEAN : DoStart(memory)
    \/ \E outcome \in Outcomes : CheckAsks(outcome)
    \/ SetCallback \/ Busy \/ AddNode \/ CheckEnds \/ CheckMoves \/ CheckFails \/ End \/ Timeout

Answers == \E n \in Node, memory, stopped \in BOOLEAN : Reply(n, memory, stopped)

Next == Start \/ TimerFires \/ Answers \/ Thread

\* The topology and the BCMP thread run, and an armed timer fires.
Spec == Init /\ [][Next]_vars /\ WF_vars(Thread) /\ WF_vars(Answers) /\ WF_vars(TimerFires)

-----------------------------------------------------------------------------
(* Properties *)

TypeOK ==
    /\ queue \in Seq([type : {"Start", "AddNode", "CheckNode", "Timeout", "End"},
                      of : Node \cup 0..MaxStart])
    /\ Len(queue) <= QueueLen
    /\ IF topology = <<>> THEN index = 0 ELSE index \in DOMAIN topology
    /\ RETRY_COUNT \in 0..255 /\ callback \in 0..MaxStart
    /\ NEIGHBOR_TIMER \in {"off", "armed"} /\ replies \subseteq Node
    /\ requesting \in {"no", "sent", "refused", "untimed"}

\* The nodes that can be reached from the root without crossing a silent one.
Reachable ==
    LET R[k \in 0..Cardinality(Node)] ==
            IF k = 0 THEN {Root}
            ELSE R[k - 1] \cup {n \in Node \ dead : \E m \in R[k - 1] : n \in Adjacent(m)}
    IN  R[Cardinality(Node)]

\* Unless memory, a timer or the network failed, what is handed out when the thread is
\* done has every node that can be reached, once, and each next to the nodes it
\* is cabled to: whatever the order of the entries in the neighbor tables.
WholeInOrder ==
    \A c \in 1..MaxStart :
        Handles("End") /\ callback = c /\ ~failed =>
            /\ {topology[i].node : i \in DOMAIN topology} = Reachable
            /\ Len(topology) = Cardinality(Reachable)
            /\ \A i \in 1..Len(topology) - 1 : {topology[i].node, topology[i + 1].node} \in Link

\* A callback is called once, whether its topology was laid out, gave up on
\* silent nodes, or was turned away because another was being worked on.
CalledOnce == \A c \in 1..MaxStart : Len(results[c]) <= 1

\* Whoever starts a topology hears of it in the end.
StartIsAnswered == \A c \in 1..MaxStart : started = c ~> results[c] # <<>>

\* When all have been answered the thread has nothing more to do: no event
\* comes back for ever, and no timer is left to fire.
ComesToRest == <>[](queue = <<>> /\ NEIGHBOR_TIMER = "off")

\* "If neighbor table request cannot send, no timeout will occur" (topology.c):
\* a Timeout belongs to a topology that is being worked on.
TimeoutIsExpected == Handles("Timeout") => in_progress

=============================================================================
