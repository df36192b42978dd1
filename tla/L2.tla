--------------------------------- MODULE L2 ---------------------------------
(***************************************************************************)
(* The link layer of a node, network/l2.c with the routing policy of       *)
(* l2_policy.c, between a network device and the IP stack of bm_linux.c or *)
(* bm_lwip.c: frames in buffers that are counted by reference, the queue   *)
(* of the L2 thread, the ports that are enabled and the timers that retry  *)
(* the negotiation of those that are not.                                  *)
(*                                                                         *)
(* A checksum is modelled before its complement is taken, as a number of   *)
(* two bytes of which the first one in memory, where ports are added, is   *)
(* the low one.  A byte has Byte values.                                   *)
(***************************************************************************)
EXTENDS Integers, Sequences, FiniteSets

CONSTANTS
    Ports,           \* 1..num_ports
    Buffer,          \* buffers there is memory for
    QueueLen,        \* evt_queue_len
    BcmpLen,         \* the length of the queue of the BCMP thread
    Stack,           \* "linux" or "lwip"
    Full,            \* may a sender find the queue full?
    Byte,            \* values of a byte
    Sums,            \* checksums before a port is added
    Routes,          \* is there a routing callback for link-local frames?
    Listens,         \* does anybody register a callback for link changes?
    Preempt,         \* may the L2 thread run while another thread changes the ports?
    MaxChange,       \* bound: changes of links and ports
    MaxRefused       \* bound: ports without a timer at one time

L2Assumption ==
    /\ Ports = 1..Cardinality(Ports) /\ Cardinality(Ports) \in Nat /\ 0 \notin Buffer
    /\ QueueLen \in Nat \ {0} /\ BcmpLen \in Nat /\ Stack \in {"linux", "lwip"}
    /\ Byte \in Nat \ {0} /\ Sums \subseteq 0..(Byte * Byte - 1) /\ {MaxChange, MaxRefused} \subseteq Nat
    /\ {Full, Routes, Listens, Preempt} \subseteq BOOLEAN

VARIABLES
    ref, frame,                  \* references to each buffer, and what is in it
    evt_queue,                   \* of the L2 thread
    held,                        \* buffers whose senders have yet to clean up
    bcmp_queue,                  \* buffers handed up to BCMP
    wire,                        \* what the last step put on the wire
    running,                     \* the L2 thread has started its timers
    in_irq,                      \* and is in the interrupt handler of the device
    enabled,                     \* enabled_ports_mask
    timers,                      \* ports in renegotiate_timer_list
    refused,                     \* ghost: ports that were to get a timer and got none
    astray,                      \* the list holds an item that has been freed
    listening, told,             \* a link change callback is registered; what it was told
    changing,                    \* another thread is changing a port
    replay,                      \* ... or is telling a new callback of the ports
    changes

buffers == <<ref, frame>>
checks  == <<timers, refused, astray>>
links   == <<enabled, checks, told, listening, changing, replay, changes>>
thread  == <<running, in_irq>>
vars    == <<buffers, evt_queue, held, bcmp_queue, wire, thread, links>>

NoChange == [port |-> 0]
NoReplay == [next |-> 0, up |-> FALSE]
NoFrame  == [proto |-> "none"]

Init ==
    /\ ref = [b \in Buffer |-> 0] /\ frame = [b \in Buffer |-> NoFrame]
    /\ evt_queue = <<>> /\ held = {} /\ bcmp_queue = <<>> /\ wire = {}
    /\ running = FALSE /\ in_irq = FALSE /\ enabled = {}
    /\ timers = {} /\ refused = {} /\ astray = FALSE
    /\ listening = FALSE /\ told = {} /\ changing = NoChange /\ replay = NoReplay /\ changes = 0

-----------------------------------------------------------------------------
(* Buffers: bm_l2_new, bm_l2_tx_prep and bm_l2_free count references *)

Unused == {b \in Buffer : ref[b] <= 0}
NewBuffer == CHOOSE b \in Unused : TRUE

\* The last reference is given back: what was in the buffer is gone.
Contents(refs, fs) == [b \in Buffer |-> IF refs[b] <= 0 THEN NoFrame ELSE fs[b]]

\* bm_l2_tx: ports that are offline are left out; what does not fit is freed.
Tx(q, b, ports)  == Append(q, [type |-> "Tx", buf |-> b, ports |-> ports \cap enabled])

HasRoom(q) == Len(q) < QueueLen

-----------------------------------------------------------------------------
(* Frames *)

\* network_add_egress_port: of UDP the first byte of the checksum is updated,
\* of BCMP the whole.  Neither has an end-around carry.
AddPort(f, p) ==
    [f EXCEPT !.egress = @ \cup {p},
              !.sum = IF f.proto = "bcmp" THEN (f.sum + p) % (Byte * Byte)
                      ELSE (f.sum - (f.sum % Byte)) + (((f.sum % Byte) + p) % Byte)]

\* clear_ports and network_revert_checksum, for the next port.
Reverted(f, p) ==
    [f EXCEPT !.egress = {}, !.ingress = 0,
              !.sum = IF f.proto = "bcmp" THEN (f.sum - p) % (Byte * Byte)
                      ELSE (f.sum - (f.sum % Byte)) + (((f.sum % Byte) - p) % Byte)]

\* The frames bm_l2_process_tx_evt sends, one port after the other.
SentLocal(f, ports) ==
    LET After[p \in 0..Cardinality(Ports)] ==      \* the frame once port p had its turn
            IF p = 0 THEN f
            ELSE IF p \in ports THEN Reverted(AddPort(After[p - 1], p), p) ELSE After[p - 1]
    IN  {[port |-> p, of |-> AddPort(After[p - 1], p)] : p \in ports}

Sent(f, ports) ==
    IF f.dst = "global" THEN {[port |-> p, of |-> f] : p \in ports}
    ELSE IF f.dst \in {"local", "neighbors"} THEN SentLocal(f, ports)
    ELSE {}                                         \* to a single node: not sent at all

\* A frame as the IP stack makes it, and as a neighbor sends it by its port q:
\* base is the checksum without a port.
Made(proto, dst, base) ==
    [proto |-> proto, dst |-> dst, ingress |-> 0, egress |-> {}, base |-> base, sum |-> base,
     came |-> 0]

RightSum(base, p) ==
    IF base + p < Byte * Byte THEN base + p ELSE base + p - Byte * Byte + 1

Came(proto, dst, base, q, port) ==
    LET f == [Made(proto, dst, base) EXCEPT !.came = port]
    IN  IF dst = "global" THEN f ELSE [f EXCEPT !.egress = {q}, !.sum = RightSum(base, q)]

-----------------------------------------------------------------------------
(* Senders: threads of the application and of BCMP *)

\* bm_l2_link_output, called with a new buffer: bm_ip_tx_perform,
\* bm_udp_tx_perform.  A reference is taken for the queue, and given back by
\* bm_l2_tx if the queue is full; the functions of bm_linux.c then give back
\* another one.  The sender cleans up in any case.
Output(proto, dst, base, port) ==
    LET b == NewBuffer
        ports == IF port \in Ports THEN {port} ELSE Ports
    IN  /\ Unused # {} /\ (Full \/ HasRoom(evt_queue))
        /\ held' = held \cup {b}
        /\ IF HasRoom(evt_queue)
           THEN ref' = [ref EXCEPT ![b] = 2] /\ evt_queue' = Tx(evt_queue, b, ports)
           ELSE ref' = [ref EXCEPT ![b] = IF Stack = "linux" THEN 0 ELSE 1] /\ UNCHANGED evt_queue
        /\ frame' = Contents(ref', [frame EXCEPT ![b] = Made(proto, dst, base)])
        /\ wire' = {}
        /\ UNCHANGED <<bcmp_queue, thread, links>>

\* bm_ip_tx_cleanup, bm_udp_cleanup
CleanUp(b) ==
    /\ b \in held /\ held' = held \ {b}
    /\ ref' = [ref EXCEPT ![b] = @ - 1] /\ frame' = Contents(ref', frame)
    /\ wire' = {}
    /\ UNCHANGED <<evt_queue, bcmp_queue, thread, links>>

\* The BCMP thread is done with a message: bm_ip_rx_cleanup.
BcmpHandles ==
    /\ bcmp_queue # <<>> /\ bcmp_queue' = Tail(bcmp_queue)
    /\ ref' = [ref EXCEPT ![Head(bcmp_queue)] = @ - 1] /\ frame' = Contents(ref', frame)
    /\ wire' = {}
    /\ UNCHANGED <<evt_queue, held, thread, links>>

\* bm_l2_handle_device_interrupt, to the front of the queue.
Interrupt ==
    /\ HasRoom(evt_queue) /\ \A i \in DOMAIN evt_queue : evt_queue[i].type # "Irq"
    /\ evt_queue' = <<[type |-> "Irq"]>> \o evt_queue
    /\ wire' = {}
    /\ UNCHANGED <<buffers, held, bcmp_queue, thread, links>>

-----------------------------------------------------------------------------
(* bm_l2_thread *)

\* An application thread is at work on the ports.
Busy   == changing # NoChange \/ replay # NoReplay
L2Runs == Preempt \/ ~Busy
Event(type) == running /\ ~in_irq /\ L2Runs /\ evt_queue # <<>> /\ Head(evt_queue).type = type

\* bm_l2_start_renegotiate_check for the ports ps.  Those of got get their
\* timers; for the others there is no memory, or the timer does not start:
\* its item is freed then and left in the list (lost), and what the list
\* holds from then on is not known.  Nobody looks at the result.
StartChecks(ps) ==
    \E got \in SUBSET (ps \ timers), lost \in BOOLEAN :
        /\ lost => got # ps \ timers
        /\ astray' = (astray \/ lost)
        /\ timers' = IF astray' THEN {} ELSE timers \cup got
        /\ refused' = IF astray' THEN {} ELSE (refused \cup ps) \ timers'
        /\ Cardinality((refused \cup ps) \ (timers \cup got)) <= MaxRefused

\* bm_l2_stop_renegotiate_check: the item is removed, the timer stopped.
StopCheck(p) == timers' = timers \ {p} /\ refused' = refused \ {p} /\ UNCHANGED astray

\* Before the first event a timer is started for every port.
ThreadStarts ==
    /\ ~running /\ L2Runs /\ running' = TRUE
    /\ StartChecks(Ports)
    /\ wire' = {}
    /\ UNCHANGED <<buffers, evt_queue, held, bcmp_queue, in_irq, enabled, told, listening, changing,
                   replay, changes>>

ProcessTx ==
    /\ Event("Tx")
    /\ LET e == Head(evt_queue)
       IN  /\ wire' = Sent(frame[e.buf], e.ports)
           /\ ref' = [ref EXCEPT ![e.buf] = @ - 1] /\ frame' = Contents(ref', frame)
    /\ evt_queue' = Tail(evt_queue)
    /\ UNCHANGED <<held, bcmp_queue, thread, links>>

\* handle_interrupt of the device begins, and ends.
IrqBegin ==
    /\ Event("Irq") /\ in_irq' = TRUE
    /\ evt_queue' = Tail(evt_queue) /\ wire' = {}
    /\ UNCHANGED <<buffers, held, bcmp_queue, running, links>>

IrqEnd ==
    /\ in_irq /\ L2Runs /\ in_irq' = FALSE
    /\ wire' = {}
    /\ UNCHANGED <<buffers, evt_queue, held, bcmp_queue, running, links>>

\* The device has received a frame: bm_l2_rx copies it into a buffer, if there
\* is one and if the queue has room, to be looked at later, whether the port
\* counts as up or not.
Receive(proto, dst, base, q, port) ==
    /\ in_irq /\ L2Runs
    /\ IF Unused # {} /\ HasRoom(evt_queue)
       THEN LET b == NewBuffer
            IN  /\ ref' = [ref EXCEPT ![b] = 1]
                /\ frame' = [frame EXCEPT ![b] = Came(proto, dst, base, q, port)]
                /\ evt_queue' = Append(evt_queue, [type |-> "Rx", buf |-> b, port |-> port])
       ELSE UNCHANGED <<buffers, evt_queue>>
    /\ wire' = {}
    /\ UNCHANGED <<held, bcmp_queue, thread, links>>

\* bm_l2_policy_rx_apply: the outcomes for a frame of this port.  A routing
\* callback may name any ports, that of the frame too, and keep the frame from
\* going up; it is taken not to write to the addresses it is shown.
Egress(f, port) ==
    IF f.dst = "global" THEN {[ports |-> Ports \ {port}, submit |-> TRUE]}
    ELSE IF Routes /\ f.dst # "neighbors"
         THEN {[ports |-> s, submit |-> up] : s \in SUBSET Ports, up \in BOOLEAN}
         ELSE {[ports |-> {}, submit |-> TRUE]}

\* bm_l2_policy_prepare_forwarded_copy: the ports go, the checksum stays.
Copied(f) == [f EXCEPT !.ingress = 0, !.egress = {}]

\* Mutation of Submit: what BCMP has no room for is forgotten.
SubmitLeaks(f, b, up, refs) ==
    /\ bcmp_queue' = IF f.proto = "bcmp" /\ Len(bcmp_queue) < BcmpLen THEN Append(bcmp_queue, b)
                     ELSE bcmp_queue
    /\ ref' = IF f.proto = "bcmp" THEN refs ELSE [refs EXCEPT ![b] = @ - 1]

\* bm_l2_submit: BCMP takes the buffer if its queue has room; UDP is copied and
\* the buffer freed, unless there is no memory or anything else is amiss, when
\* the caller frees it.
Submit(f, b, up, refs) ==
    IF up /\ f.proto = "bcmp" /\ Len(bcmp_queue) < BcmpLen
    THEN bcmp_queue' = Append(bcmp_queue, b) /\ ref' = refs
    ELSE UNCHANGED bcmp_queue /\ ref' = [refs EXCEPT ![b] = @ - 1]

\* bm_l2_process_rx_evt: a copy goes on to other ports, the frame goes up.
ProcessRx ==
    /\ Event("Rx")
    /\ LET e == Head(evt_queue)
           f == [frame[e.buf] EXCEPT !.ingress = e.port]
           rest == Tail(evt_queue)
           c == NewBuffer
       IN  \E out \in Egress(f, e.port) :
               LET copy == out.ports # {} /\ Unused # {} /\ HasRoom(rest)
               IN  /\ evt_queue' = IF copy THEN Tx(rest, c, out.ports) ELSE rest
                   /\ Submit(f, e.buf, out.submit, IF copy THEN [ref EXCEPT ![c] = 1] ELSE ref)
                   /\ frame' = Contents(ref', [b \in Buffer |-> IF copy /\ b = c THEN Copied(f)
                                                                ELSE IF b = e.buf THEN f ELSE frame[b]])
    /\ wire' = {}
    /\ UNCHANGED <<held, thread, links>>

-----------------------------------------------------------------------------
(* Links *)

\* Mutation of link_change: a port that is down is not tried again.
LinkChangeQuiet(old, p, up) ==
    /\ enabled' = IF up THEN old \cup {p} ELSE old \ {p}
    /\ StopCheck(p)
    /\ told' = IF listening THEN (IF up THEN told \cup {p} ELSE told \ {p}) ELSE told
    /\ changes' = changes + 1

\* link_change, with the mask as it was read: the timer of the port is stopped
\* or started, and the callbacks are called.
link_change(old, p, up) ==
    /\ enabled' = IF up THEN old \cup {p} ELSE old \ {p}
    /\ IF up THEN StopCheck(p) ELSE StartChecks({p})
    /\ told' = IF listening THEN (IF up THEN told \cup {p} ELSE told \ {p}) ELSE told
    /\ changes' = changes + 1

\* The device reports a link, in the L2 thread.
LinkChanges(p, up) ==
    /\ in_irq /\ L2Runs /\ changes < MaxChange
    /\ link_change(enabled, p, up)
    /\ wire' = {}
    /\ UNCHANGED <<buffers, evt_queue, held, bcmp_queue, thread, listening, changing, replay>>

\* bm_l2_netif_enable_disable_port in another thread: whatever the device says,
\* the port counts as up or down.  The mask is read, changed and written back.
PortBegin(p, enable) ==
    /\ running /\ ~Busy /\ changes < MaxChange
    /\ changing' = [port |-> p, up |-> enable, old |-> enabled]
    /\ wire' = {}
    /\ UNCHANGED <<buffers, evt_queue, held, bcmp_queue, thread, enabled, checks, told, listening,
                   replay, changes>>

PortEnd ==
    /\ changing # NoChange /\ changing' = NoChange
    /\ link_change(changing.old, changing.port, changing.up)
    /\ wire' = {}
    /\ UNCHANGED <<buffers, evt_queue, held, bcmp_queue, thread, listening, replay>>

\* The replay of the ports looks at port p.
LookAt(p) == replay' = IF p \in Ports THEN [next |-> p, up |-> p \in enabled] ELSE NoReplay

\* bm_l2_register_link_change_callback: the callback is in the list, ...
Register ==
    /\ Listens /\ ~listening /\ ~Busy /\ listening' = TRUE
    /\ LookAt(1)
    /\ wire' = {}
    /\ UNCHANGED <<buffers, evt_queue, held, bcmp_queue, thread, enabled, checks, told, changing, changes>>

\* ... and is called for the ports that were up when they were looked at.
Replay ==
    /\ replay # NoReplay
    /\ told' = IF replay.up THEN told \cup {replay.next} ELSE told
    /\ LookAt(replay.next + 1)
    /\ wire' = {}
    /\ UNCHANGED <<buffers, evt_queue, held, bcmp_queue, thread, enabled, checks, listening, changing,
                   changes>>

Proto == {"bcmp", "udp"}

Next ==
    \/ \E proto \in Proto, base \in Sums :
           \/ \E dst \in {"global", "local", "unicast"}, p \in Ports \cup {0} : Output(proto, dst, base, p)
           \/ \E dst \in {"global", "local", "neighbors"}, q, p \in Ports : Receive(proto, dst, base, q, p)
    \/ \E b \in Buffer : CleanUp(b)
    \/ BcmpHandles \/ Interrupt \/ ThreadStarts \/ ProcessTx \/ ProcessRx \/ IrqBegin \/ IrqEnd
    \/ \E p \in Ports, up \in BOOLEAN : LinkChanges(p, up) \/ PortBegin(p, up)
    \/ PortEnd \/ Register \/ Replay

Spec == Init /\ [][Next]_vars

-----------------------------------------------------------------------------
(* Properties *)

TypeOK ==
    /\ ref \in [Buffer -> -1..2] /\ Len(evt_queue) <= QueueLen /\ Len(bcmp_queue) <= BcmpLen
    /\ held \subseteq Buffer /\ enabled \subseteq Ports /\ timers \subseteq Ports

\* A buffer has as many references as there are holders of it: the queue of the
\* L2 thread, the sender, BCMP.  None is leaked, and none freed twice or used
\* after it was freed: on every path on which a queue is full or memory gone.
RefsMatch ==
    \A b \in Buffer :
        ref[b] = Cardinality({i \in DOMAIN evt_queue : evt_queue[i].type # "Irq" /\ evt_queue[i].buf = b})
                 + (IF b \in held THEN 1 ELSE 0)
                 + Cardinality({i \in DOMAIN bcmp_queue : bcmp_queue[i] = b})

\* Link-local frames carry the port they leave by and no other, whatever ports
\* they left by before, global ones carry none, and the checksum of a frame
\* made here or forwarded to everybody is the right one for its ports.
WireIsRight ==
    \A s \in wire :
        /\ s.of.egress = IF s.of.dst = "global" THEN {} ELSE {s.port}
        /\ s.of.ingress = 0
        /\ s.of.came = 0 \/ s.of.dst = "global" =>
               s.of.sum = IF s.of.dst = "global" THEN s.of.base ELSE RightSum(s.of.base, s.port)

\* The checksum of a link-local frame that was routed is right too.
RoutedIsRight ==
    \A s \in wire : s.of.came # 0 /\ s.of.dst = "local" => s.of.sum = RightSum(s.of.base, s.port)

\* A frame to all nodes does not go back to the port it came by, and one to
\* the neighbors goes no further.  Where other link-local frames go is up to
\* the routing callback.
NeverBack ==
    \A s \in wire : /\ s.of.dst = "global" => s.of.came # s.port
                    /\ s.of.dst = "neighbors" => s.of.came = 0

\* A port is on the list of those to renegotiate as long as it is down, unless
\* it was refused a timer, and no longer: as long as the list is whole.
RetriedIffDown == running /\ ~astray => timers = (Ports \ enabled) \ refused

\* A callback that has seen the replay has been told of the ports as they are.
CallbackKnows == listening /\ replay = NoReplay => told = enabled

\* Layer 2: a buffer has as many references as it has holders, on every path
\* on which a queue is full or memory gone; frames carry the port they leave
\* by, if they are link-local, and the checksum for it; those to all nodes do
\* not go back to the port they came by, and those to the neighbors go no
\* further (bm_l2_link_output, bm_l2_process_rx_evt).
FramesAreRight == TypeOK /\ RefsMatch /\ WireIsRight /\ NeverBack

\* Layer 2: a port is renegotiated as long as it is down and no longer, but
\* for one that could not get a timer, and a callback for link changes has
\* been told of the ports as they are.
LinksAreKnown == RetriedIffDown /\ CallbackKnows

-----------------------------------------------------------------------------
(* Why the links are known: an inductive invariant *)

Change == [port : Ports, up : BOOLEAN, old : SUBSET Ports]

\* A thread that changes a port has read the mask as it still is; one that
\* replays the ports to a callback has told it of those behind it.
LinksInv ==
    /\ {running, in_irq, listening, astray} \subseteq BOOLEAN
    /\ enabled \subseteq Ports /\ timers \subseteq Ports /\ told \subseteq Ports
    /\ refused \subseteq Ports /\ refused \cap timers = {} /\ refused \cap enabled = {}
    /\ changing = NoChange \/ (changing \in Change /\ running /\ changing.old = enabled)
    /\ replay # NoReplay =>
          /\ listening /\ changing = NoChange /\ replay.next \in Ports
          /\ replay = [next |-> replay.next, up |-> replay.next \in enabled]
          /\ told = {p \in enabled : p < replay.next}
    /\ ~listening => told = {}
    /\ in_irq => running
    /\ ~running => enabled = {} /\ timers = {}
    /\ LinksAreKnown

-----------------------------------------------------------------------------
(* Why the frames are right: an inductive invariant *)

\* No checksum carries from its first byte when the number of a port is added.
NoCarry == \A s \in Sums, p \in Ports : (s % Byte) + p < Byte

Frame ==
    [proto : Proto, dst : {"global", "local", "neighbors", "unicast"},
     ingress : Ports \cup {0}, egress : SUBSET Ports, base : Sums, sum : 0..(Byte * Byte - 1),
     came : Ports \cup {0}]

Evt ==
    [type : {"Irq"}] \cup [type : {"Tx"}, buf : Buffer, ports : SUBSET Ports]
        \cup [type : {"Rx"}, buf : Buffer, port : Ports]

LinksTyped ==
    /\ enabled \subseteq Ports /\ timers \subseteq Ports
    /\ changing = NoChange \/ changing \in Change

TypeInv ==
    /\ ref \in [Buffer -> 0..2] /\ frame \in [Buffer -> Frame \cup {NoFrame}]
    /\ evt_queue \in Seq(Evt) /\ Len(evt_queue) <= QueueLen
    /\ bcmp_queue \in Seq(Buffer) /\ Len(bcmp_queue) <= BcmpLen
    /\ held \subseteq Buffer /\ LinksTyped

\* Buffer b is in a queue of events, or of BCMP; no buffer is in it twice.
Queued(q, b) == \E i \in DOMAIN q : q[i].type # "Irq" /\ q[i].buf = b
QueuedOnce(q) ==
    \A i, j \in DOMAIN q :
        q[i].type # "Irq" /\ q[j].type # "Irq" /\ q[i].buf = q[j].buf => i = j
Up(u, b) == \E i \in DOMAIN u : u[i] = b
UpOnce(u) == \A i, j \in DOMAIN u : u[i] = u[j] => i = j

One(P) == IF P THEN 1 ELSE 0

\* With events q, senders h and messages u of BCMP, no buffer is in a queue
\* twice, or in both, and r counts its holders.
Holders(q, h, u, r) ==
    /\ QueuedOnce(q) /\ UpOnce(u)
    /\ \A b \in Buffer : /\ ~(Queued(q, b) /\ Up(u, b))
                         /\ r[b] = One(Queued(q, b)) + One(b \in h) + One(Up(u, b))

HoldersInv == Holders(evt_queue, held, bcmp_queue, ref)

\* A frame to be sent has no port yet, and does not go where it came from if it
\* goes everywhere; one that was received is as it came.
Ready(f, ports) ==
    /\ f \in Frame /\ f.ingress = 0 /\ f.egress = {}
    /\ f.dst = "global" => f.came \notin ports
    /\ f.dst = "neighbors" => f.came = 0
    /\ f.came = 0 \/ f.dst = "global" => f.sum = f.base
Arrived(f, port) ==
    /\ f \in Frame /\ f.came = port
    /\ f.dst = "global" => f.sum = f.base

EventRight(e, fs) ==
    /\ e.type = "Tx" => Ready(fs[e.buf], e.ports)
    /\ e.type = "Rx" => Arrived(fs[e.buf], e.port)
AllRight(q, fs) == \A i \in DOMAIN q : EventRight(q[i], fs)

FramesInv ==
    /\ TypeInv /\ HoldersInv /\ AllRight(evt_queue, frame)
    /\ WireIsRight /\ NeverBack

=============================================================================
