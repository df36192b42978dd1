------------------------------ MODULE Datagrams ------------------------------
(***************************************************************************)
(* Datagrams on one node between the threads that send them, UDP (the      *)
(* bm_udp functions of network/bm_lwip.c and bm_linux.c) and the thread of *)
(* middleware/middleware.c, for the two applications there are: topics     *)
(* (middleware/pubsub.c) and MAVLink (middleware/bm_mavlink.c), whose      *)
(* heartbeat goes by the task of common/timer_callback_handler.c.          *)
(*                                                                         *)
(* Buffers are counted by reference.  A step of a sender ends where it     *)
(* calls the stack or gives a buffer back.  What a callback does with a    *)
(* datagram is in PubSub and Services; here it may send, in the thread of  *)
(* the middleware.                                                         *)
(***************************************************************************)
EXTENDS Integers, Sequences, FiniteSets

CONSTANTS
    Stack,         \* "lwip" or "linux"
    Buffer,        \* buffers there is memory for
    QueueLen,      \* net_queue_len
    HandlerLen,    \* TIMER_CB_QUEUE_LEN
    L2Port,        \* 1..num_ports
    Fails,         \* may memory, tasks and timers be refused?
    Retries,       \* is bm_mavlink_init called again when it failed?
    SamePort       \* do other nodes send from the port they send to?

DatagramsAssumption ==
    /\ Stack \in {"lwip", "linux"} /\ Buffer \subseteq Nat \ {0}
    /\ QueueLen \in Nat \ {0} /\ HandlerLen \in Nat \ {0}
    /\ IsFiniteSet(L2Port) /\ L2Port = 1..Cardinality(L2Port)
    /\ {Fails, Retries, SamePort} \subseteq BOOLEAN

VARIABLES
    started,       \* how far bristlemouth_init has come
    pcbs,          \* udp_list, with the port each pcb is bound to
    apps,          \* CTX.applications of middleware.c
    mavlink,       \* bm_mavlink_init: not called, or what it returned
    ref, data,     \* the references to each buffer, and where what is in it was sent
    net_queue,     \* of the middleware: buffers and ports
    task,          \* middleware_net_task
    sender,        \* where in bm_pub_wl or bm_mavlink_transmit a thread is
    cb_queue,      \* of the timer handler: heartbeats to send
    ticking        \* is a heartbeat timer running?

setup   == <<started, pcbs, apps, mavlink, ticking>>
buffers == <<ref, data>>
vars    == <<setup, buffers, net_queue, task, sender, cb_queue>>

Port   == {"resource", "mavlink"}
Thread == {"app", "handler", "middleware"}

NoItem   == [buf |-> 0, port |-> "none"]
NoSender == [pc |-> "idle", port |-> "none", buf |-> 0, copy |-> 0]

TypeOK ==
    /\ started \in {"no", "pubsub", "queue", "task", "failed"}
    /\ \A i \in DOMAIN apps : apps[i].pcb \in DOMAIN pcbs
    /\ ref \in [Buffer -> Nat] /\ Len(net_queue) <= QueueLen /\ cb_queue \in 0..HandlerLen
    /\ task.pc \in {"wait", "found", "clean"} /\ task.item.buf \in Buffer \cup {0}
    /\ \A t \in Thread : sender[t].pc \in {"idle", "local", "unlocal", "send", "clean"}

Init ==
    /\ started = "no" /\ pcbs = <<>> /\ apps = <<>> /\ mavlink = "no" /\ ticking = FALSE
    /\ ref = [b \in Buffer |-> 0] /\ data = [b \in Buffer |-> "none"]
    /\ net_queue = <<>> /\ task = [pc |-> "wait", item |-> NoItem]
    /\ sender = [t \in Thread |-> NoSender] /\ cb_queue = 0

-----------------------------------------------------------------------------
(* Setting up *)

Outcomes(failures) == {"ok"} \cup (IF Fails THEN failures ELSE {})

\* udp_bind: lwIP refuses a port that another pcb is bound to, which nobody looks at.
LocalPort(port) ==
    IF Stack = "lwip" /\ \E i \in DOMAIN pcbs : pcbs[i].local = port THEN "none" ELSE port

\* bm_udp_bind_port: nothing is left behind when there is no memory.
bm_udp_bind_port(port, r) ==
    pcbs' = IF r \in {"pcb", "list"} THEN pcbs
            ELSE Append(pcbs, [port |-> port, local |-> LocalPort(port)])

\* The pcb stays when there is no memory for the item of the application.
bm_middleware_add_application(port, r) ==
    /\ bm_udp_bind_port(port, r)
    /\ apps' = IF r # "ok" THEN apps ELSE Append(apps, [port |-> port, pcb |-> Len(pcbs')])

bm_pubsub_init ==
    /\ started = "no"
    /\ \E r \in Outcomes({"pcb", "list", "item"}) :
         /\ bm_middleware_add_application("resource", r)
         /\ started' = IF r = "ok" THEN "pubsub" ELSE "failed"
    /\ UNCHANGED <<mavlink, ticking, buffers, net_queue, task, sender, cb_queue>>

\* The queue is there only now, when datagrams may be arriving for pubsub.
bm_middleware_init ==
    /\ started = "pubsub"
    /\ \E r \in Outcomes({"queue", "task"}) :
         started' = CASE r = "ok" -> "task" [] r = "queue" -> "failed" [] r = "task" -> "queue"
    /\ UNCHANGED <<pcbs, apps, mavlink, ticking, buffers, net_queue, task, sender, cb_queue>>

\* A timer that was started runs on when the application could not be added.
bm_mavlink_init ==
    /\ started = "task" /\ (mavlink = "no" \/ (Retries /\ mavlink = "failed" /\ Len(pcbs) < 3))
    /\ \E r \in Outcomes({"timer", "start", "pcb", "list", "item"}) :
         /\ mavlink' = IF r = "ok" THEN "ok" ELSE "failed"
         /\ IF r \in {"timer", "start"} THEN UNCHANGED <<ticking, pcbs, apps>>
            ELSE ticking' = TRUE /\ bm_middleware_add_application("mavlink", r)
    /\ UNCHANGED <<started, buffers, net_queue, task, sender, cb_queue>>

-----------------------------------------------------------------------------
(* Receiving *)

Unused == {b \in Buffer : ref[b] = 0}
Least(S) == CHOOSE b \in S : \A c \in S : b <= c

\* bm_middleware_rx: the queue may be full, or not there yet.
QueueTakes == started \in {"queue", "task"} /\ Len(net_queue) < QueueLen

\* bm_middleware_rx with one reference to buffer b: the queue has it, or it is given back.
\* held is what the caller keeps.
bm_middleware_rx(b, port, held, what) ==
    /\ net_queue' = IF QueueTakes THEN Append(net_queue, [buf |-> b, port |-> port]) ELSE net_queue
    /\ ref' = [ref EXCEPT ![b] = held + (IF QueueTakes THEN 1 ELSE 0)]
    /\ data' = [data EXCEPT ![b] = IF ref'[b] = 0 THEN "none" ELSE what]

\* udp_recv_cb, and the end of bm_l2_submit under Linux: the application's pcb is found by
\* the port a datagram was sent to, the port it was sent from is passed on.
udp_recv_cb(to, from) ==
    /\ Unused # {} /\ \E i \in DOMAIN pcbs : pcbs[i].local = to
    /\ SamePort => from = to
    /\ bm_middleware_rx(Least(Unused), from, 0, to)
    /\ UNCHANGED <<setup, task, sender, cb_queue>>

\* ll_get_item on the list of applications
Added(port) == \E i \in DOMAIN apps : apps[i].port = port
AppOf(port) == apps[Least({i \in DOMAIN apps : apps[i].port = port})]

\* middleware_net_task: an item without an application is cleaned up in the next round.
Take ==
    /\ started = "task" /\ task.pc = "wait" /\ net_queue # <<>>
    /\ task' = [pc |-> IF Added(Head(net_queue).port) THEN "found" ELSE "clean",
                item |-> Head(net_queue)]
    /\ net_queue' = Tail(net_queue)
    /\ UNCHANGED <<setup, buffers, sender, cb_queue>>

\* The end of rx_cb.  mavlink_rx_cb keeps nothing: its parser is at the end of a message
\* or reset.
Given ==
    /\ task.pc = "found" /\ sender["middleware"].pc = "idle"
    /\ task' = [task EXCEPT !.pc = "clean"]
    /\ UNCHANGED <<setup, buffers, net_queue, sender, cb_queue>>

\* bm_udp_cleanup
Back(b) ==
    /\ ref' = [ref EXCEPT ![b] = @ - 1]
    /\ data' = [data EXCEPT ![b] = IF ref'[b] = 0 THEN "none" ELSE @]

CleanUp ==
    /\ task.pc = "clean" /\ Back(task.item.buf)
    /\ task' = [pc |-> "wait", item |-> NoItem]
    /\ UNCHANGED <<setup, net_queue, sender, cb_queue>>

-----------------------------------------------------------------------------
(* Sending *)

\* Applications send at any time, callbacks while they run.
Calls(t) == t = "app" \/ (t = "middleware" /\ task.pc = "found")

Begin(t, port, pc) ==
    /\ Unused # {}
    /\ sender' = [sender EXCEPT ![t] =
                    [pc |-> pc, port |-> port, buf |-> Least(Unused), copy |-> 0]]
    /\ ref' = [ref EXCEPT ![Least(Unused)] = 1]
    /\ data' = [data EXCEPT ![Least(Unused)] = port]

\* bm_pub_wl up to the question whether somebody on this node has subscribed
bm_pub_wl(t) ==
    /\ Calls(t) /\ sender[t].pc = "idle"
    /\ \E pc \in {"local", "send"} : Begin(t, "resource", pc)
    /\ UNCHANGED <<setup, net_queue, task, cb_queue>>

\* Mutant: the buffer that is sent is queued as well.
LocallySame(t) ==
    /\ sender[t].pc = "local"
    /\ bm_middleware_rx(sender[t].buf, "resource", 1, data[sender[t].buf])
    /\ sender' = [sender EXCEPT ![t].pc = "send"]
    /\ UNCHANGED <<setup, task, cb_queue>>

\* A copy is made and published locally, with a reference for the queue; without memory
\* for it the message is sent nevertheless.
publish_data_locally(t) ==
    /\ sender[t].pc = "local"
    /\ \/ /\ Unused # {}
          /\ bm_middleware_rx(Least(Unused), "resource", 1, data[sender[t].buf])
          /\ sender' = [sender EXCEPT ![t].pc = "unlocal", ![t].copy = Least(Unused)]
       \/ /\ Unused = {} \/ Fails
          /\ sender' = [sender EXCEPT ![t].pc = "send"]
          /\ UNCHANGED <<buffers, net_queue>>
    /\ UNCHANGED <<setup, task, cb_queue>>

CopyBack(t) ==
    /\ sender[t].pc = "unlocal" /\ Back(sender[t].copy)
    /\ sender' = [sender EXCEPT ![t].pc = "send", ![t].copy = 0]
    /\ UNCHANGED <<setup, net_queue, task, cb_queue>>

\* bm_mavlink_transmit up to bm_middleware_net_tx
bm_mavlink_transmit(t) ==
    /\ Calls(t) /\ sender[t].pc = "idle" /\ Begin(t, "mavlink", "send")
    /\ UNCHANGED <<setup, net_queue, task, cb_queue>>

\* bm_middleware_net_tx: whatever comes of it, the buffer is given back next.  The stack
\* has references of its own.
bm_middleware_net_tx(t) ==
    /\ sender[t].pc = "send" /\ sender' = [sender EXCEPT ![t].pc = "clean"]
    /\ UNCHANGED <<setup, buffers, net_queue, task, cb_queue>>

SentBack(t) ==
    /\ sender[t].pc = "clean" /\ Back(sender[t].buf)
    /\ sender' = [sender EXCEPT ![t] = NoSender]
    /\ UNCHANGED <<setup, net_queue, task, cb_queue>>

\* mavlink_heartbeat_cb in the task of the timers: a full queue drops the heartbeat.
mavlink_heartbeat_cb ==
    /\ ticking /\ cb_queue < HandlerLen /\ cb_queue' = cb_queue + 1
    /\ UNCHANGED <<setup, buffers, net_queue, task, sender>>

\* timer_callback_handler_task: mavlink_send_heartbeat
mavlink_send_heartbeat ==
    /\ cb_queue > 0 /\ sender["handler"].pc = "idle" /\ cb_queue' = cb_queue - 1
    /\ Begin("handler", "mavlink", "send") \/ (Unused = {} /\ UNCHANGED <<buffers, sender>>)
    /\ UNCHANGED <<setup, net_queue, task>>

Sends(t) ==
    \/ bm_pub_wl(t) \/ publish_data_locally(t) \/ CopyBack(t)
    \/ bm_mavlink_transmit(t) \/ bm_middleware_net_tx(t) \/ SentBack(t)

Next ==
    \/ bm_pubsub_init \/ bm_middleware_init \/ bm_mavlink_init
    \/ \E to, from \in Port : udp_recv_cb(to, from)
    \/ Take \/ Given \/ CleanUp
    \/ \E t \in Thread : Sends(t)
    \/ mavlink_heartbeat_cb \/ mavlink_send_heartbeat

Spec == Init /\ [][Next]_vars

-----------------------------------------------------------------------------
(* Routing: a question the L2 thread asks, which changes nothing *)

\* mavlink_routing_cb: bits of a mask, from 0, of the ports that are up, but for that of
\* the port a frame came by.
mavlink_routing_cb(ingress, up) ==
    {i \in 0..(Cardinality(L2Port) - 1) : i + 1 \in up /\ i # ingress - 1}

\* handle_middleware_routing of a frame to the group of MAVLink: egress_ports
handle_middleware_routing(ingress, up) ==
    IF Added("mavlink") THEN mavlink_routing_cb(ingress, up) ELSE {}

-----------------------------------------------------------------------------
(* Properties *)

\* those who have a reference to buffer b to give back
Holders(b) ==
    Cardinality({t \in Thread : sender[t].buf = b}) + Cardinality({t \in Thread : sender[t].copy = b})
      + Cardinality({i \in DOMAIN net_queue : net_queue[i].buf = b})
      + (IF task.item.buf = b THEN 1 ELSE 0)

\* A buffer has as many references as there are holders of it, whoever finds the queue
\* full or no memory: none is lost, and none is given back twice.
RefsMatch == \A b \in Buffer : ref[b] = Holders(b)

\* "sending a buf to the IP stack must have a 1 reference count" (pubsub.c).
SentAlone == \A t \in Thread : sender[t].pc = "send" => ref[sender[t].buf] = 1

\* A datagram is given to the application it was sent to: "the UDP port the message was
\* received on" (middleware.c).
GivenToAddressed == task.pc = "found" => task.item.port = data[task.item.buf]

\* An application that was added is heard by the others: it sends from its own port.
AddedIsBound == \A port \in Port : Added(port) => pcbs[AppOf(port).pcb].local = port

\* Frames for MAVLink are passed on by every port that is up, but not back.
RoutedOn ==
    \A ingress \in L2Port, up \in SUBSET L2Port :
        Added("mavlink") =>
            handle_middleware_routing(ingress, up) = {p - 1 : p \in up \ {ingress}}
=============================================================================
