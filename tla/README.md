# A TLA+ model of bm_core

bm_core is the C implementation of the Bristlemouth stack that runs on every node of a
Bristlemouth network: a layer 2 for two-wire Ethernet ports, the control protocol BCMP
(neighbors, pings, configuration, resource discovery, firmware update), and a middleware of
publish/subscribe topics with request/reply services on top. This directory holds a TLA+
model of it from the topics down to the SPI driver, the TLC runs that check the model on small
instances, and TLAPS proofs of what matters most for all instances.

`PROJECT.json` says which definition models which lines, lists every run with its expected
result, every mutant, the findings and the hazards.

## 1. Inventory

| Component | State | Operations | Works with |
|---|---|---|---|
| **Firmware update (DFU)**: `bcmp/dfu_core.c`, `dfu_client.c`, `dfu_host.c`, `common/lib_state_machine.c` | one state machine for both roles, event queue, client and host context, three timers, update info in RAM that survives a reset, flash slot | `bm_dfu_initiate_update`, `dfu_copy_and_process_message`, entry and run function of 12 states, timer handlers, boot | BCMP packets, configuration (`dfu_confirm`), flash of the platform, application callback |
| **Services**: `middleware/bm_service.c`, `bm_service_request.c` | list of registered services, list of outstanding requests, request counter | register, unregister, request, handle request, handle reply, expire | publish/subscribe, a timer, application callbacks |
| **Publish/subscribe**: `middleware/pubsub.c` | list of subscriptions, each with a list of callbacks; no lock | `bm_sub`, `bm_unsub`, `bm_pub`, `bm_handle_msg` | middleware queue, resource discovery, wildcard match |
| **Middleware**: `middleware/middleware.c`, `bm_mavlink.c` | queue of datagrams, list of applications by port (topics, MAVLink); MAVLink's heartbeat timer | init, add an application, receive callback, thread, send, route | UDP of the IP port, L2, the task of `timer_callback_handler.c` |
| **Wildcard match**: `common/util.c` | none | `bm_wildcard_match` | publish/subscribe |
| **Linked list**: `common/ll.c` | head, tail, cursor, items | add, get, remove by id, traverse | packets, info, config, timers, middleware, L2 |
| **BCMP packets**: `bcmp/packet.c`, `bcmp.c` | table of message types, list of sequenced requests, message counter, timer | serialize, process, expire requests | every BCMP message |
| **Neighbors, heartbeats**: `bcmp/neighbors.c`, `heartbeat.c` | neighbor list, one pending table request | heartbeat in, timer check, table request/reply | packets, info, topology |
| **Topology**: `integrations/topology.c` | list of nodes walked, cursor, retries, queue and thread | start, insert, advance, retry, end | neighbors |
| **Info, ping, time, config messages**: `bcmp/info.c`, `ping.c`, `time.c`, `config.c` | expected replies per node | request and reply handlers | packets, configuration |
| **Resource discovery**: `bcmp/resource_discovery.c` | tables of published and subscribed topics, outstanding requests | add, find, request, reply | publish/subscribe, packets |
| **Configuration store**: `bcmp/configuration.c` | three partitions of keys and CBOR values, dirty flags | get, set, remove, commit, init | config messages, flash |
| **Layer 2**: `network/l2.c`, `l2_policy.c` | ports, event queue, renegotiation list, callbacks | send, receive, forward, port up/down, renegotiate | device driver, IP port |
| **Byte and callback queues**: `common/q.c`, `cb_queue.c`, `timer_callback_handler.c` | ring buffer, list of callbacks by id | enqueue, dequeue, clear | pcap, power service, timers |
| **Services over the service layer**: power information with its queue of callbacks; echo, system information, metrics, configuration map | callbacks of requests under way (power), none (the others) | request, handler, reply | services |
| **Platform**: `common/bm_posix.c`, `bm_freertos.c`, `network/bm_lwip.c`, `bm_linux.c` | queues, semaphores, stream buffers, timers with their threads; packet buffers and their reference counts | the calls of `bm_os.h` and `bm_ip.h` | all |
| **ADIN2111 driver**: `drivers/adin2111/` | transmit ring, receive buffers, the state of the transfer; enabled ports; the interrupt; forwarding table; address filter | send, receive, bring-up, enable and disable, link events, register access, learn, filter | layer 2, the chip |
| pcap, Spotter, files | none that outlives a call | I/O | all |

How they interact. One thread (`bcmp_thread`) handles BCMP messages and calls the handlers of
the components; DFU has a thread of its own that a queue feeds; the middleware has another.
Timers run in the platform's timer thread. Applications call from threads of their own. What
is shared: the lists of services and requests (under a mutex, mostly), the subscription list
(no lock), the DFU context (no lock), linked lists in `packet.c` and `l2.c` (under
semaphores, mostly), the neighbor table (no lock), the registers of the chip (by disabling an
interrupt), packet buffers (by counting references).

What is hard: timers that fire while the event they wait for is already queued; messages
checked when they are queued and used later; lost and repeated messages; resets in the middle
of an update; requests, replies and expiry that race; unlocked lists; allocations that fail
half-way; names that are prefixes of each other; and pointers that outlive their targets. The
complete list, with lines, is `hazards` of `PROJECT.json`.

What makes each component correct:

- DFU: only an intact image is activated; a trial image is confirmed or reverted; success is
  reported only for an image that runs, and once; every accepted update is reported; a client
  becomes available again.
- Services: one callback per request, with the answer to that request; distinct ids; what was
  registered is served; every request is answered or expires.
- Publish/subscribe: what was accepted is in the list and is called, what was removed is not,
  no pointer dangles, what is subscribed is advertised.
- Middleware: a datagram is given to the application it was sent to; buffers are freed once, and
  nobody else holds one that goes to the stack.
- Linked list: the chain is what was added and not removed; a traversal meets every item.
- Wildcard: the loop decides the usual meaning of `*` and `?`, and ends.
- Packets: one callback per request, with the reply to it or the news that there is none;
  numbers that differ; messages are not passed around for ever.
- Neighbors: one entry each, and the application knows who is there and who restarted.
- Topology: every node that can be reached, in the order of the cables; one callback.
- Resource discovery, ping: an answer fits its buffer, and meets who asked.
- Configuration: a map whose saved value is the old or the new one, whenever the power goes.
- Layer 2: every frame leaves by the right ports, with the right checksum; buffers are freed
  once; what is said of a link is true.
- Driver: frames go through the chunks whole and in order; an enabled device works; one user
  of the bus at a time; a frame is sent where its address was last heard.
- Queues, semaphores, timers: first in, first out; nobody sleeps beside what it waits for;
  neither early nor after a stop; nothing is used after it was freed.

## 2. Modules

| Module | Models | Notes |
|---|---|---|
| `DfuCore` | `dfu_core.c`, `lib_state_machine.c`, messages, boot loader and links as `dfu_*.c` use them | state of all DFU modules is declared here |
| `DfuClient` | `dfu_client.c` | |
| `DfuHost` | `dfu_host.c` | |
| `Dfu` | the network of nodes | composes the three; properties |
| `MCDfu` | | images, pairs of nodes for TLC |
| `DfuProofs` | | theorems |
| `Services` | `bm_service.c`, `bm_service_request.c` | |
| `ServicesProofs` | | theorems |
| `PubSub` | `pubsub.c`, tables of `resource_discovery.c`, queue of `middleware.c` | uses `Wildcard` |
| `Datagrams` | `middleware.c`, `bm_mavlink.c`, `timer_callback_handler.c`, UDP of `bm_lwip.c` and `bm_linux.c`, the buffers of `bm_pub_wl` | both applications |
| `Wildcard`, `WildcardLoop` | what `bm_wildcard_match` is to decide, and how it does | |
| `LL` | `ll.c` | by pointers |
| `Bcmp` | `packet.c`, `bcmp.c`, `config.c`, `time.c` | requests, replies, forwarding |
| `Neighbors` | `neighbors.c`, `heartbeat.c`, `info.c` | |
| `Topology` | `topology.c`, table requests of `neighbors.c` | |
| `Discovery` | `resource_discovery.c`, `ping.c` | |
| `Network` | | composes `Discovery` and `Neighbors`; properties |
| `NetworkProofs` | | theorems about `Bcmp`, `Discovery` and `Neighbors` |
| `ConfigStore`, `Configuration` | what `configuration.c` promises, and how it does it | refinement |
| `ConfigurationProofs` | | theorems, the refinement's among them |
| `Fifo` | what a queue promises | implemented by `Q` and `PosixQueue` |
| `Q`, `PowerInfo` | `q.c`; `cb_queue.c` with `power_info_service.c` | |
| `PosixQueue`, `PosixSemaphore`, `PosixStream`, `PosixTimer` | `bm_posix.c` | |
| `Structures` | | composes `PosixQueue`, `PosixSemaphore`, `PosixStream` and `PowerInfo`; properties |
| `StructuresProofs` | | theorems, a refinement's among them |
| `L2` | `l2.c`, `l2_policy.c`, buffers of `bm_lwip.c` and `bm_linux.c` | |
| `L2Proofs` | | theorems |
| `AdinSpi` | frames in chunks: `adi_spi_oa.c`, queues of `adi_mac.c`, submitting in `adin2111.c` and `bm_adin2111.c` | |
| `AdinLink` | bring-up, ports and link events: `bm_adin2111.c`, `adin2111.c`, `adi_mac.c`, `adi_phy.c` | |
| `AdinRegs` | register access and the interrupt: `adi_mac.c`, `adi_phy.c`, `adi_spi_oa.c`, `l2.c` | names what `AdinLink` promises beside it |
| `AdinForward`, `AdinFilter` | the forwarding table of `adin2111.c`, the address filter of `adi_mac.c` | |
| `DriversProofs` | | theorems about `AdinLink` and `AdinRegs` |
| `Paths` | | composes `Datagrams`, `AdinForward` and `AdinFilter`; properties |
| `PathsProofs` | | theorems |
| `MCRequests`, `MCPaths`, `MCNetwork`, `MCStructures`, `MCDrivers` | | instantiate several components; see section 3 |

The arrows of composition: `Dfu` composes `DfuCore`, `DfuClient` and `DfuHost`; `PubSub`
includes the tables of `resource_discovery.c`; `PowerInfo` includes `cb_queue.c`; `Topology`
includes the requests of `neighbors.c`; `Neighbors` includes those of `info.c`; `L2` includes
what either IP port does to its buffers. `Paths`, `Network` and `Structures`, and `AdinRegs` with `AdinLink`, put components side by
side that share no state, and say what they promise together: what a run checks of them and what is proved of
them is then one definition. Elsewhere a neighbor is modelled by what the code
relies on: a queue of a bounded length, a lock, a timer that fires at any time, a link that loses.

### DFU

`core[n]` is `dfu_core_ctx_t` with its queue: `st` the current state, `pend` the state
`set_pending_state_change` asked for, `cur` the event being handled, `q` the queue. `cli[n]`
and `hst[n]` are the contexts of the two roles, `nv[n]` what survives a reset (update info in
noinit RAM, running and previous firmware, the slot, the configuration key), `net[s][d]` a
lossy FIFO link, `upd[u]` the u-th call of `bm_dfu_initiate_update` with what its caller
heard. `lib_sm_run` is two steps, Run (receive one event, call the run function) and
Transition (exit, entry), because timers, the BCMP thread and the application act between
them. Every other function runs to its end in one step, with one action per branch.

An image is `[id, sha, size, force]` and its content the sequence of its units, each known by
image and place. Chunks, pages and the slot are counted in units, so that what is written,
where, and what is lost can be told. The CRC is the equality of the received units with the
image's: a CRC collision is not modelled. A short read from the stream buffer sends what was
in the buffer before (`Junk`).

Named assumptions: `TimersMayFail`, `IoMayFail` (flash, source, transmission, memory),
`WriteNeedsErase` (does a second write to flash corrupt it), `Beats` (may a read outlast the
heartbeat period). `PageAssumption` says that a chunk fits in a page, which
`bm_dfu_process_payload` needs.

Left out: payload messages whose length disagrees with their header; a `chunk_size` above the
maximum, or 0; failures of the boot loader calls `set_confirmed` and `set_pending`; the
lengths of the timeouts (a started timer may fire at any time); the 16 bits of `num_chunks`.

### Services

Per node: `services` (the list), `subs` (subscribed topics), `requests` (a set of `[id, call]`
whose order is that of the calls), `count`. An application thread is inside
`bm_service_request` one step at a time: create the node, increment the counter (outside the
lock), add it to the list (inside), subscribe to the reply topic, send (outside). The
middleware thread and the expiry timer hold the lock, so each is one step. Messages are lost,
duplicated (two nodes may serve one service) and reordered. A reply carries the call it
answers as a ghost, which no action looks at, so that `AnswerIsForMe` can be stated.

Named assumptions: `PromptSend` (a request is not due before it was sent, i.e. its timeout is
longer than the call), `MayFail`, `Home` (which thread runs on which node). Left out:
payloads and their size checks, requests made out of a reply callback.

### Publish/subscribe

The subscription list by its pointers: `next[Root]` is `CTX.subscription_list`, `sub[e]` the
element with its callbacks, whether it is still allocated and whether it is still raw memory. `bm_sub_wl` is lookup,
insertion and advertising, and the insertion of a new element is the four steps another thread can see: it is linked as
`bm_malloc` gave it, cleared, named, and given its first callback. The walk of `bm_handle_msg` is one step per callback and per
element; `bm_unsub_wl` and `bm_pub_wl` are one step. `fault` records that a NULL pointer or
freed memory was followed, after which nothing is promised. `asked` is what the application
was told. Left out: published topics with a literal `*`, `bm_get_subs`, `bm_print_subs`.
Named assumptions: one or several threads (`Thread`), `UnsubRaces`, `MayFail`.
The ghost `harm` records the events after which bad pointers may be followed (section 3).

### Middleware and datagrams

`Datagrams` has the list of applications with the pcb of each, the middleware's queue and thread, and three
threads that send: an application's, the task of the timer handler (MAVLink's heartbeats) and the
middleware thread itself, out of a callback. `ref[b]` is the count of a buffer, `data[b]` the port that what is in it was sent to, a
ghost. A step of a sender ends where it calls the stack or gives a buffer back. Start-up is in it because
topics can be received before the queue they go to exists. What callbacks do with a datagram is in
`PubSub` and `Services`. Named assumptions: `Stack`, `Fails`, `Retries` (is `bm_mavlink_init` called again
after it failed), `SamePort` (do other nodes send from the port they send to, as this code does).

### Linked list and wildcard

`LL` has the pointers of the list and a ghost `list`, the ids put in and not taken out.
`MiddleOut` says whether an item may be removed that is neither first nor last.
`WildcardLoop` has the variables of `bm_wildcard_match` and one action per branch; `Wildcard`
defines matching by the existence of a cut of the topic into one piece per pattern letter.

### BCMP

`Bcmp` has three nodes in a row. A node's `queue[n]` is `bcmp_evt_queue`; `Receive` is
`process_received_message` with every early return, and where it matches a reply it is two
steps, as the element is found under the lock and taken under it again: `taking[n]` stands
between them. Handlers of `config.c` and `time.c` are folded into `Receive`, as the BCMP thread
calls them. A message carries the request it belongs to as a ghost. Requests go to one node or
to all (0); link-local messages are forwarded out of the other ports. Named assumptions: `Lossy`,
`AddFails`, `TxFails`, `Preempt` (does the timer run between the two steps), `ReplySeqs` (how
many of the numbers a reply can carry; 2^16, as the header of a reply has 16 bits of them).
`serialize` counts requests in one step: `message_count++` (`packet.c:558`) is outside the lock, which makes no
difference while one thread of a node makes requests.

`Neighbors` has the table as the list it is, and time in heartbeat periods. `bcmp_add_neighbor`
removes the old neighbor of the port in a loop that skips the entry behind the one it removes;
`Cleared` does the same. Information is asked for under `Short[x]`, the 32 bits of the id that
`info.c` keeps. The walk of `bcmp_neighbor_foreach` by the topology thread is one step per entry; the replay of the table to a
callback that is registered late (`neighbors.c:415`) is one step.
Named assumptions: `Wraps` (does the uptime wrap, as it does after 72 minutes), `Moves` (may a
peer come back at another port), `LateCallback`, `Preempt`.

`Topology` has the thread's events (start, add, check, timeout, end) in their queue, the list of
nodes with its cursor, the static variables of `topology.c` and those of the table request in
`neighbors.c`. `bcmp_request_neighbor_table` is two steps: it starts the timer and sends, and then sets the
callback. Neighbor tables are in any order; nodes of `Deads` are silent. Named assumptions:
`MemFails`, `TxFails`, `TimerFails` (may a timer refuse to start, or to stop), `Quick` (may an answer be handled by the
BCMP thread, which has the higher priority, before the callback is set), `Late` (may an answer be under way when the timer
fires). That `bm_timer_delete` succeeds, whose result the code does not look at, is taken for granted.

`Discovery`: the size of an answer is computed in one pass and the answer filled in another,
each under the locks; requests and answers are under way in between. Pings share nothing with
resources but the thread. Resources are added at any time, by any thread; the ghost `late` of a job counts the bytes of those
added to a list that it has sized and not yet filled in. Named assumptions: `Overtakes`, `TxFails`, `StartsWith`.

### Configuration store

`slots[p]` is the RAM buffer of a partition: keys, types and values in their places. A setter is
one action with its early returns (read-only is left to the caller, as in the code). `save_config`
is three: compute the CRC, write, note or reset; power may go between and during them, and a write
that was cut off leaves what fits no CRC (`Torn`). At a start any partition may be unreadable: it is then empty, though the
memory is whole, and the ghost `unread` says so. CBOR is modelled by the type its first byte
gives, as the getters see it. `ConfigStore` is the promise: one operation changes one key, a save
makes the working values the saved ones, a restart brings back the saved ones except in partitions that cannot be read
then, which start empty and keep what is saved until their next save, and a save that is cut off
leaves the old, the new or no values. Refinement mapping: the slots as the map the getters read,
and what `config_init` would load.

### Queues, semaphores, buffers, timers

`Q` stores bytes: every item has a header of `Header` bytes with its size to the base `Base`, and
both wrap around the end of the buffer. Its refinement mapping to `Fifo` reads the items back out
of the bytes, from the tail, through the headers. `PosixQueue` is the ring of `bm_posix.c` with
each thread's place in its call (`out`, `asleep`, `woken`): a condition variable wakes one sleeper,
which takes the lock some time later, when another may have been before it. It implements the same
`Fifo`. `PosixStream` and `PosixSemaphore` have the same waits. `PosixTimer` is `timer_thread` step
by step against start, stop, reset, change of period and deletion by its own callback or another
thread; time passes in ticks. Named assumptions: `Consumes` (may a wait that timed out have used
up a signal), `Overlap` (are calls made while the callback runs), `Prompt` (does the thread use the
millisecond `bm_timer_delete` gives it).

### Layer 2

`L2` counts references per buffer; a frame is what the code tells apart: its protocol, where it came from,
the ports written into its address and the checksum of `Byte * Byte` values. The L2 thread takes one event
at a time; other threads submit frames, the BCMP thread takes what is handed up, the device
interrupts. `wire` is what the last step sent. `Stack` chooses what a transmission does to the references: both stacks
count them, and `bm_linux.c` gives one back too often when the queue is full. A routing callback may answer with any set of ports.
`StartChecks` has the ways in which a renegotiation check comes to nothing: no memory, a list that refuses the item, a timer that
cannot be created or started; `refused` has the ports this happened to. In the last of them the item is freed while it is in the list
(`l2.c:135`): then `astray`, and nothing more is said of the timers. What the code does with the freed item is not modelled.
Registering a link callback lists it first and then replays one port after the other, each looked at before the callback
is called (`replay`). Named assumptions: `Full`, `Sums` (which checksums occur), `Routes`, `Listens`, `Preempt`. Taken for
granted: a timer that runs can be stopped and deleted, the device has the trait `retry_negotiation`, and a routing callback
leaves the addresses of the frame alone. A port need not be enabled for a frame to arrive on it, as in `bm_l2_rx`.

### ADIN2111

`AdinSpi` is the exchange of chunks: the transmit ring with its two read positions, one buffer or more for
reception, the header and footer of every chunk, the state machine of `adi_spi_oa.c` from one transfer to the
next, and a chip that holds `Credits` chunks and puts frames together from what it is sent. Frames are counted in
words, each known by its frame and place. Control transfers are in `AdinRegs`: the tasks' register accesses,
the interrupt that may come between any two of their steps, the polling of MDIO, the reading of the status when
the chip asks for it. The L2 thread, the task of the renegotiation timer and callers of `bm_l2_netif_enable_disable_port` use the
registers; nothing in the driver keeps them apart, and `Together` says whether one does while another is at it.
`AdinLink` runs the program of `adin2111_netdevice_enable`, some thirty calls each of
which may fail, and the chain of link events; the chip is what it has been told since its reset. The chain is started by a transfer
whose footers say EXST, that of an interrupt or that of a frame that is sent, and reads one register of a PHY after the other, which clears it.
Only the handler of an interrupt looks at `LINK_CHANGE` afterwards. Any thread switches the device or a port between two of these
steps, in one step (its register accesses are in `AdinRegs`). Named assumptions: `MayFail`, `ReadFails`, `Others`, `Garbled` (may the header a read
comes back with be wrong, which ends the chain), `Blocks` (does the platform's SPI function return when the transfer has ended, so that
the handler looks at `LINK_CHANGE` after the chain: with one that does not, as in `AdinRegs`, it looks too early).
`AdinForward` and `AdinFilter` have the entries of the two tables, the latter by register address, so that
writing past the end of one table is seen in the next.

## 3. Runs

Bounds are in the cfg files and in the instances of the MC modules, each named by a constant. A passing
run takes at most four minutes with two workers; a violating run ends at its counterexample.

Five MC modules check several components. Each extends one of them, and three the composition (`Paths`, `Network`,
`Structures`) of those that are proved about too; their constants are in the cfg, and the run names their
properties as they are. The others they instantiate themselves. They are checked side by side, not in
parallel: the variable `which` is chosen at the start, the component it names takes all steps, the
others rest in an initial state. What such a run checks of several components is named in the composition or in
the MC module, and is the conjunction of properties of the component modules, which state and explain them one by one (in the
table: whole = parts). A part is guarded by `which` where that saves evaluating it for the others,
and holds at rest otherwise; the fairness of a component is that of
its own specification while it runs. Where two parts of one component are independent, or need
different bounds, the component runs twice, each time without some of its steps (neighbors with two ports but no restarts,
and at one port with restarts and requests for information; resources without pings, and pings without resources), or is
instantiated twice over the same variables (requests with and without failures).

| Run | Checks | Shows |
|---|---|---|
| `dfu_faults` | types, `ActivatesOnlyIntactImage`, `NothingMisplaced`, `ReportedOnce`, `SuccessMeansInstalled` | one update; messages are lost, everything may fail; chunks of 2 units over pages of 3, an image too large, one the client runs already |
| `dfu_resets` | `TrialEndsWithVerdict`, `SuccessMeansInstalled` | one reset of either node at any step, confirmation required or not, failing I/O |
| `dfu_two_updates` | `ReportedOnce`, `ActivatesOnlyIntactImage`, `SuccessMeansInstalled` | two images in a row: late messages of the first meet the second |
| `dfu_ends` (fair) | `AcceptedIsReported`, `ClientComesBack` | every accepted update ends in a callback, and a client that received returns to Idle, with two retries of a chunk and the real queue of 5 events, unless a timer fires while the queue is full (`missed`). Also checked with one reset anywhere, with one retry and a queue of 3 and with two retries and a queue of 2 |
| `requests` (fair) | `AnsweredOnce`, `AnswerIsForMe` = `SuccessIsMine`, `UniqueIds`; `RegisteredIsServed`, `CallersAreAnswered` = `EveryRequestAnswered` | two nodes ask and serve, ids modulo 2, messages are lost; one node asks two services while memory, locks, sending fail and nodes reset |
| `paths`: `PubSub` | `SubscriptionsHold` = `AskedIsListed`, `NoBadPointer`; `EveryoneCalled` | one application thread against the middleware thread, with failing allocations and unsubscriptions during the walk |
| `paths`: `Datagrams` | `DatagramsAreRight` = types, `RefsMatch`, `SentAlone`, `GivenToAddressed`, `AddedIsBound`, `RoutedOn` | three buffers, a queue of two, both applications, three senders against the middleware thread; memory, timers and tasks refused |
| `paths`: `L2` | `FramesAreRight` = types, `RefsMatch`, `WireIsRight`, `NeverBack`; `LinksAreKnown` = `RetriedIffDown`, `CallbackKnows` | two ports, two buffers, full queues, frames routed anywhere by a callback; and, without frames, ports and links that change three times, a link callback registered at any time, timers refused to either port |
| `paths`: `AdinForward`, `AdinFilter` | `AddressesAreTrue` = types, `OneEntryEach`, `SentWhereHeard`, `SilentIsForgotten`; `FiltersAsked` | three addresses in a table of two, ageing, a table whose addresses are undefined at first; six filter entries, two of them with masks, rules added, repeated and removed |
| `network`: `Bcmp` (fair) | `RepliesAreMine` = types, `NumbersDiffer`, `AnsweredOnce`, `AnswerIsMine` | two requests over three nodes, to one or to all; messages, memory and transmission fail |
| `network`: `Topology` (fair) | `TopologyIsWhole` = types, `WholeInOrder`, `CalledOnce` | a row of four from its second node, tables in any order, the last node silent or not, three callers, timers that do not start |
| `network`: `Discovery` (fair) | `ResourcesAreTrue` = types, `AnswerFits`, `ServedOnce`, `RefusedIsListed`, `EchoIsMine` | two resources in either table, added also while an answer is put together, two requests; three pings of two nodes |
| `network`: `Neighbors` (fair) | `NeighborsAreTrue` = types, `OneEntryEach`, `AppKnows`, `RestartIsReal`, `InfoIsOfAsked`, `CountIsTrue` | two peers that are plugged, pulled and restarted, walks by the topology thread |
| `network`: all four (fair) | `EveryoneAnswered` = `Bcmp!WaitingIsAnswered`, `Topology!StartIsAnswered`, `Discovery!AskedIsServed`, `Neighbors!GoneIsNoticed`; `NetworkComesToRest` = `ComesToRest` of `Bcmp` and `Topology` | the same instances: requests, callers and neighbors that are gone are not waited for, and nothing is passed on, for ever |
| `structures`: `LL`, `Q` | `StructuresAreSound` = `ChainIsTheList`, `TailIsLast`, `MeetsEveryItem`; types, `RoomIsExact` | removals at the ends, by the traversal's callback too; buffers of 3, 7 and 8 bytes, headers of 2 |
| `structures`: `PowerInfo` | `QueuedIsServed` = types, `OneCallbackEach`, and until answers overtake or a request is refused (`mixed`) `RepliedIsCalled`, `QueuedIsUnderWay` | four requests of two threads, refused or accepted, answered, garbled or expired in any order |
| `structures`: `Configuration` | `StoreIsSound` = types, `NeedsCommitTells`, `NotedTypeReads`; `IsAStore` | three keys for two slots, values of four types, power lost anywhere, memory that cannot be read at any start |
| `structures`: `Q`, `PosixQueue`, `PosixSemaphore`, `PosixStream` | `WaitersAreTold` = types, `ReceiverIsTold`, `OneHolder`, `FreeIsOffered`, `StreamInOrder`; `QueuesAreFifos` = `IsAFifo` of both queues | the same buffers; two senders, one of them in an interrupt; three tasks; messages longer than the buffer |
| `drivers`: `AdinSpi` (fair) | `TransfersAreRight` = types, `RefsMatch`, `TxIntact`, `NoTxOverflow`, `RxIntact`, `LonePort` | frames shorter than a chunk, of one, of two and across, for one port or both, a damaged one, status events, full ring and full chip |
| `drivers`: `AdinLink` (fair) | `LinksAreTold` = types, `EnabledWorks`, `ToldAtRest`, `PortsAgree` | any of the steps may fail, four link changes, three calls, frames that are sent and received at any time |
| `drivers`: `AdinRegs` (fair) | `AccessesAreApart` = types, `ReadIsOfAsked`, `NoOverlap`, `IrqBack` | the L2 thread, the timer's task and an application in turns against the interrupt and frames, accesses that fail |
| `drivers`: these three (fair) | `DriverServes` = `QueuedIsSent`, `ArrivedIsGiven`, `ChangeIsTold`, `PinIsServed` | the same instances: no frame or PHY event is left behind, and a link change is told or waits in `LINK_CHANGE` for the next interrupt |
| `drivers`: `PosixTimer` (fair) | `TimerKeepsTime` = types, `NoUseAfterFree`, `NeverEarly`, `StoppedIsQuiet`, `StartedFires`, `DeletedIsFreed` | three calls at any time, periods of one and two ticks |
| `drivers`: `WildcardLoop` (fair) | `WildcardDecides` = `AnswersMatches`, `Terminates` | topics of up to 5 letters, patterns of up to 4, two letters and both wildcards |
| `dfu_unerased` ✗ | `ActivatesOnlyIntactImage` | resync rewrites flash that was not erased; the CRC, of the bytes received, does not see it |
| `svc_prefix` ✗ | `RegisteredIsServed` | the first element whose name begins the topic ends the search |
| `ll_middle` ✗ | `ChainIsTheList` | `previous` is not updated: a freed item becomes the tail |

✗: the property states what a comment, a document or a test says, and TLC finds it violated
by what the code does. The passing run of the same property is made under the named
assumption that excludes the case (no erase needed, names that are no prefixes, removals at
the ends), so the two together say when the property holds.

`NoBadPointer` names the four events that lead `pubsub.c` to follow a bad pointer: a
subscription whose second or third allocation failed, a failed allocation in
`resource_discovery.c`, an unsubscription of the very callback the middleware thread stands
on, and the middleware thread at a new element between its linking and its clearing. The ghost `harm` records them.

Why the bounds are enough for what is asked: two chunks are the least with an order between
them, pages of 3 and chunks of 2 the least that straddle; a queue of 2 fills with the events
of one timer and one message, the real 5 is used where liveness depends on it; a link with
one place reorders nothing and loses at any point (`NetCap` bounds what is in flight only);
two updates, two requests, two services, two callbacks, two subscriptions, two peers, two pings are
the least that can be confused; three list items have a middle one; a row of four has a node two
cables away from the root on one side; a chunk of four words and frames of two to nine put ends and
beginnings at every place of a chunk; buffers of 7 and 8 bytes with items of up to 5 wrap in the
header, in the data and in between; two slots for three keys are full.

Deadlock checking is off everywhere: the bounds on calls, messages and items stop every
behaviour, and an idle node waits for events.

Fairness. DFU: weak fairness of the DFU thread of each node (an RTOS task that blocks only on
its queue), of a started timer, of the return of `bm_dfu_initiate_update`, and of each link
delivering *or losing* its first message. Nothing makes a link deliver, an application call, or
a node reset. Services: that time passes for an outstanding request and that the timer
callback, which is periodic, runs; no message need ever arrive. BCMP: each node's BCMP thread and
request timer. Topology: its thread, the timer once it is armed, and the answers of nodes that are
not silent. Discovery: the BCMP thread of the owner, the return of the asking call, and the arrival
of answers (a lost answer is not retried by the code, so nothing is promised without it). Neighbors:
that time passes and that the heartbeat timer and the topology thread run; no peer need send.
Driver: transfers end, the chip empties its memory and its interrupt pin is served; the chain of link events goes on and the L2 thread handles
the interrupts of the PHYs (no frame need arrive or be sent). Timers: a thread that was woken or whose deadline is over runs, callbacks end, time passes;
no wait ends for no reason. Wildcard: the loop runs.

`structures` checks the two refinements, of `ConfigStore` by `Configuration` and of `Fifo` by `Q` and by
`PosixQueue`, as properties that are specifications. What the abstract specifications leave open is
deliberate: `Fifo` does not say when an item is refused, as the two queues differ in it.

## 4. Where properties stop to hold

The same models show further cases in which a property that a document or a comment states, or
that a user of the component would rely on, does not hold. Each is a change of constants away from a run of
section 3 (in the cfg, or in the instance where the MC module makes it; in `MCNetwork.cfg` `Preempt` and `TxFails` are those of `Bcmp`,
`WalkBreaks` is `Preempt` of `Neighbors` and `AnswerFails` is `TxFails` of `Discovery`; in `MCPaths.cfg` `UdpStack` is `Stack` of `Datagrams`), with the one property as
INVARIANT or PROPERTY; TLC finds the counterexample.

| Property | Constants | What happens |
|---|---|---|
| `Dfu!ReceivedInOrder` | `dfu_faults` with `MCTwoImages`, `MCTwoOffered`, `ChunkSize = 1`, `PageLen = 1`, `MaxChunkRetries = 2`, `Internal = {TRUE}`, no failures | The host sends the next bytes whatever `seq_num` was asked for (`dfu_host.c:160`): after a lost payload the repeated request gets the following chunk, and the update ends with a CRC error |
| `Dfu!UpdateEndsSometime`; `Dfu!AcceptedIsReported` and `Dfu!ClientComesBack` without `missed` | `dfu_ends` (`QueueLen = 2` for the last) | The one-shot update timer (`dfu_host.c:102`) fires while the queue is full, its event is lost, the host stays in Host Update and never reports; the same with the client's chunk timer (`dfu_client.c:143`) |
| `Dfu!OnlyTheHostIsHeard` | `dfu_two_updates` with `other` in `Node` and `Pairs <- MCTwoHosts` | The sender is compared when a message is queued (`dfu_core.c:267`), not when it is used |
| `Dfu!SuccessMeansInstalled` | `dfu_resets` with `MCForcedImages`, `MCForcedOffered`, `IoMayFail = FALSE` | After a reset the SHA alone decides: a forced update to a rebuild of the same commit is reported as done though nothing was installed (`dfu_client.c:313`) |
| `Dfu!ReportedOnce` | `dfu_two_updates`, `Pairs <- MCBothWays` | The finish callback survives its update and is called for an error of the client role (`dfu_core.c:225`) |
| `Dfu!FatalMeansFlash` | `dfu_two_updates`, `Internal = {TRUE, FALSE}` | `dfu_ctx.internal` is written after the event was queued (`dfu_core.c:669`): a second call changes it under the running update |
| `Services!UniqueIds` | `requests` (calm), both threads at home on `n1` | `request_count` is incremented outside the lock (`bm_service_request.c:201`) |
| `Services!AnswerIsForMe` | `requests` (rough), `MaxCalls = 2`, `MayFail = FALSE` | Ids start at 0 after a reset: a reply to an earlier request meets a later one (`bm_service_request.c:298`) |
| `Services!AnswerIsForMe` | `requests` (rough), `MaxCalls = 2`, `MaxResets = 0`, `MayFail = FALSE`, `PromptSend = FALSE` | The id is read from the node after the lock was given back (`bm_service_request.c:115`) |
| `PubSub!AskedIsListed` | `paths`, two threads, `MayFail = FALSE`, `UnsubRaces = FALSE` | Two threads append behind the same element (`pubsub.c:146`) |
| `~fault` in `PubSub` | `paths`, `MayFail = FALSE`, `UnsubRaces = FALSE` | A new subscription is linked (`pubsub.c:146`) before it is cleared (`pubsub.c:151`), and the middleware thread walks the list without a lock |
| `PubSub!SilentAfterUnsub` | `paths`, `MaxCbs = 3`, `MayFail = FALSE` | Only the first callback is compared (`pubsub.c:115`): another can be subscribed twice, and stays after one `bm_unsub` |
| `PubSub!Advertised` | `paths`, `SubTopic` of `<<"a">>` and `<<"a", "b">>`, `MayFail = FALSE` | The table is searched with the new topic's length (`resource_discovery.c:40`): a prefix of a known topic is never advertised |
| `Datagrams!GivenToAddressed` | `paths`, `SamePort = FALSE` | Both IP ports hand on the port a datagram came *from* (`bm_lwip.c:200`, `bm_linux.c:388`), where `middleware.c:65` says "the UDP port the message was received on" |
| `Datagrams!AddedIsBound` | `paths`, `Retries = TRUE`, `UdpStack = "lwip"` | An application that could not be listed leaves its pcb bound (`middleware.c:190`): when it is added again, `udp_bind` refuses the port, and nobody looks (`bm_lwip.c:586`). It then sends from a port that receivers find no application for |
| `Bcmp!AnsweredOnce` | `network`, `Preempt = TRUE` | The element is found under the lock and read after it was given back and taken again (`packet.c:477`): the timer has expired and freed it |
| `Bcmp!AnswerIsMine` | `network`, `Requester = {1, 2}`, `Target = {3}` | Replies go to everybody and are matched by number alone (`packet.c:477`): a node takes the reply to another node's request for its own |
| `Bcmp!AnswerIsMine` | `network`, `ReplySeqs = 1` | Of the 32 bits of a number a reply carries 16: what is 65536 requests old matches |
| `Bcmp!AnswerIsMine` | `network`, `Link` closed to a ring, `Target = {1, 2}`, `MaxReq = 3` | A requester that is told to commit restarts and counts from 0 again (`packet.c:531`): a reply under way is taken for that to a new request |
| `Bcmp!ComesToRest` | `network`, `Link` closed to a ring | Link-local messages that are forwarded have no hop limit |
| `Neighbors!RestartIsReal` | `network`, `Wraps = TRUE` | The uptime is milliseconds times 1000 in 32 bits (`heartbeat.c:20`): after 72 minutes every neighbor is taken for restarted |
| `Neighbors!AppKnows` | `network`, `LateCallback = TRUE` | A callback registered when a neighbor is offline is told that it is up |
| `Neighbors!CountIsTrue` | `network`, `WalkBreaks = TRUE` | The table and its counter are walked by the topology thread while the BCMP thread changes them (`neighbors.c:188`) |
| `Neighbors!DropIsTold` | `network` | A neighbor that is replaced by another at its port is removed without a word to the application |
| `Neighbors!PortIsTrue` | `network`, `Moves = TRUE` | An entry keeps its port when its neighbor comes back at another |
| `Neighbors!InfoIsOfAsked` | `network`, `Short <- <<1, 1>>` | Requests for information are kept by 32 of the 64 bits of an id (`info.c:163`). And a request that could not be sent removes the oldest one of that id (`info.c:234`) |
| `Topology!CalledOnce`, `Topology!TimeoutIsExpected` | `network`, `TxFails = TRUE` or `Late = TRUE` | The timer of a request that could not be sent, or whose answer is under way, is not stopped: its event meets the next topology |
| `Topology!WholeInOrder` | `network`, `Deads <- {{1}}` or `{{3}}` | A silent neighbor of the root leaves the cursor where the other side is not reached |
| `Topology!StartIsAnswered` | `network`, `Deads <- {{3}}` | ... or at the end of the list, which the thread then checks over and over (`topology.c:241`) |
| `Topology!StartIsAnswered` | `network`, `Quick = TRUE` | The request's callback is set after the request was sent (`neighbors.c:465`): a quick answer stops the timer and finds no callback, and the topology never ends |
| `Topology!StartIsAnswered` | `network`, `TimerFails` with `"stop"` | A reply whose timer cannot be stopped is not handed on (`neighbors.c:107`), and its node is taken for silent, as above |
| `Topology!StartIsAnswered` | `network`, `QueueLen = 1` | An event that finds the queue full is dropped |
| `Discovery!AnswerFits` without `job.late` | `network` | A resource is added between the pass that sizes the answer and the one that fills it (`resource_discovery.c:127`) |
| `Discovery!AskedIsServed` | `network`, `Overtakes = TRUE` or `AnswerFails = TRUE` | The request is put into the list after it was sent: a quick answer does not find it |
| `Discovery!RefusedIsListed` | `network`, `StartsWith` with a proper prefix | A topic that begins another is refused as known (`resource_discovery.c:40`) |
| `Discovery!EchoIsMine` | `network`, `Low <- <<1, 1>>` | A ping is told from another node's by 16 bits of an id |
| `Configuration!NotedTypeReads` | `structures`, `LongKey <- {"k1"}` or `TooBig <- {"s"}` | A key of the longest length is cut by one letter when it is stored, to make room for the terminator, and is not found again; a value that does not fit changes the type before it is refused |
| `Configuration!NeedsCommitTells` | `structures`, `Concurrent = TRUE` or `WriteTears = TRUE` | A change made while a save is under way is marked saved; a write that fails leaves the flag of the earlier state |
| `Configuration!NeedsCommitTells` without `unread` | `structures` | A read that fails at a start (`configuration.c:139`) empties the partition, without a mark: the memory is whole, and the next save writes over it |
| `L2!RefsMatch` | `paths`, `Stack = "linux"` | `bm_linux.c` counts references, and frees a frame once too often when the queue is full |
| `L2!WireIsRight` | `paths`, `Sums = {15}` or `{3}` | The port is added to one byte of the checksum, without its carry (`l2.c:282`) |
| `L2!RetriedIffDown`, `L2!CallbackKnows` | `paths`, `Preempt = TRUE` | Ports and the list of timers are changed by the caller of `bm_l2_netif_enable_disable_port` and by the L2 thread; a link goes down between the look at its port and the replay to a new callback (`l2.c:600`) |
| `L2!RetriedIffDown` without `refused` | `paths` | A port whose check could not be started (`l2.c:121`) is not tried again until its link has come and gone |
| `L2!RoutedIsRight` | `paths` | A frame for which the routing callback chose the ports is sent with the checksum of the others |
| `PowerInfo!RepliedIsCalled` without `~mixed` | `structures` | The reply of a later request calls the callback of an earlier one (`power_info_service.c:104`), though "invokes a callback if a reply was received" (`power_info_service.c:145`) |
| `PowerInfo!QueuedIsUnderWay` without `~mixed` | `structures` | A request that was refused leaves its callback in the queue (`power_info_service.c:155`), which from then on is one behind |
| `PosixQueue!ReceiverIsTold` | `structures`, two receivers with `ReceiveLimits <- {"timed"}` | A wait that timed out may have used up a signal (`bm_posix.c:101`), and returns without looking again |
| `PosixSemaphore!FreeIsOffered` | `structures`, `Consumes = TRUE` | The same for semaphores |
| `PosixTimer!StartedFires` | `drivers`, `Overlap = TRUE` | A one-shot timer that is started while its callback runs is marked stopped afterwards (`bm_posix.c:534`) |
| `PosixTimer!NoUseAfterFree` | `drivers`, `Prompt = FALSE` | The deleting thread waits a millisecond and frees the timer (`bm_posix.c:621`) |
| `AdinSpi!NoTxOverflow`, `AdinSpi!TxIntact` | `drivers`, `Noise = TRUE` | The credits are those of the last footer that was whole, and chunks sent since are not subtracted |
| `AdinSpi!QueuedIsSent` | `drivers`, `Level = FALSE` | An interrupt that comes while the driver is busy is not seen again |
| `AdinSpi!RefsMatch` | `drivers`, `Ons <- {{}}` | A frame for both ports while none is enabled keeps its reference |
| `AdinSpi!RxIntact` | `drivers`, `ToArrive` with a damaged frame that fits | A damaged frame that fits into one chunk is delivered |
| `AdinSpi!RightPort` | `drivers` | The port of a chunk in which a second frame begins is that of the first |
| `AdinLink!PortsAgree` | `drivers`, `MayFail` with `"poll"` | The PHY follows, but is not seen to in time: the port has changed and the driver does not note it |
| `AdinLink!EnabledWorks` | `drivers`, `MayFail` with `"hook"`, `"imask0"` or `"crc"` | The result of `macInit` is not looked at by `MAC_Reset` (`adi_mac.c:823`) |
| `AdinLink!ToldAtRest` | `drivers`, `ReadFails = TRUE` or `Others = TRUE` | A link change whose status cannot be read, or comes with another event, is forgotten |
| `AdinLink!ToldAtRest` | `drivers`, `Garbled = TRUE` | The read of a PHY's register comes back with another header, after it has cleared the register (`adi_spi_oa.c:628`): the change is lost |
| `AdinLink!ChangeIsTold` without `LINK_CHANGE`, `AdinLink!ToldAtRest` without `Remembered` | `drivers` | The change is read and cleared in the transfer of a frame that is sent (`adi_spi_oa.c:503`), and only the next interrupt's handler looks at it (`bm_adin2111.c:712`) |
| `AdinLink!ToldAtRest` | `drivers`, `Blocks = FALSE` | The handler looks at `LINK_CHANGE`, or clears it, before the chain it has started is through |
| `AdinRegs!IrqBack` | `drivers`, `Preempt = TRUE` | An interrupt between the first two lines of `PHY_Read` (`adi_phy.c:1476`) is enabled by the reader while its handler is to do so, or never |
| `AdinRegs!NoOverlap`, `AdinRegs!ReadIsOfAsked` | `drivers`, `Together = TRUE` | The renegotiation timer (`l2.c:91`) and callers of `bm_l2_netif_enable_disable_port` (`l2.c:697`) use the registers from tasks of their own while the L2 thread does |
| `AdinFilter!FiltersAsked`, `AdinFilter!FullIsSaid` | `paths`, `Careful = FALSE` | The loop for rules with masks ends at its bound without finding an entry, and the index past them is used (`adi_mac.c:1680`) |
| `AdinFilter!OthersUntouched` | `paths` | A rule without a mask writes an all-ones mask also for entries that have no mask registers, into the time stamp registers behind them |

Further observations from reading, which no property states: `bm_linux.c` computes the UDP checksum in the byte order
of the machine; the count of L2's callbacks is never incremented; `adin2111_Init` reports an error when the PHY answers at the last
retry; nothing calls `adin2111_AgeTick`; a stream buffer's send that times out leaves behind what it had stored.

## 5. Proofs

TLAPS proves what follows for every value of the constants that meets a module's assumption
(`CoreAssumption`, `PageAssumption`, `ServicesAssumption`, ...; TLC evaluates each on the instances
of section 3). Beyond that a theorem has the hypotheses it needs as assumptions of its own, and they are of one kind:
the conditions under which the code keeps the property at all. Each is a constant of the model, and
without it TLC has a counterexample, in a run or in section 4. Where a property is about failures itself (a timer refused, a resource
added meanwhile, answers out of order), no hypothesis excludes them: a ghost says what they cost.

### Firmware update

The assumption on images says that two images with one id have one SHA: an id stands for the
build.

- **`DfuProofs!TypeCorrect`**: `Spec => []TypeOK`. `TypeOK` is not inductive. The host's
  entry into Host Request Update reads the event that caused the transition as a request, so
  `RequestKept` is needed: that event is still there and is one. And `OwesAtMostImage`, the
  host never owes more than the image, types what it subtracts. `TypeInv` is the conjunction.
- **`DfuProofs!BytesAccounted`** and **`IntactImage`**: `~WriteNeedsErase` implies
  `Spec => []NothingMisplaced` and `Spec => []ActivatesOnlyIntactImage`. The inductive invariant is
  `TypeInv` with `NothingMisplaced`. It has a control part, `Orderly`: a
  state change is pending outside `lib_sm_run` only where an entry function asked for one, and
  each client state past receiving is entered from the one before only. And a data part,
  `Stored`: of the bytes received, the first `off` are in the slot and the rest in the page
  buffer, unless some were lost to a failed write, in which case the lengths no longer add up
  and the check of `s_client_validating_entry` fails. The lemmas say what a write, a payload
  and the final flush do to this, then one lemma per action. Without `~WriteNeedsErase` the
  theorem is false: `dfu_unerased` is the counterexample.
- **`DfuProofs!TrialEnds`**: `~WriteNeedsErase` implies `Spec => []TrialEndsWithVerdict`. The
  property speaks of states on trial only; what makes it inductive (`TrialInv`) begins earlier: from
  the acceptance of an update on, the noinit record names the host and the image, and every state
  that leads to the activation keeps it. It rests on `NothingMisplaced`: the slot that is swapped in is the
  image accepted, so that after the reboot the record names what runs.
- **`DfuProofs!ToldOnce`**: `RolesApart` (no node is the host of one update and the client of another) implies
  `Spec => []ReportedOnce`. `OnceInv` follows the obligation to report: what was accepted and not yet heard of is owed by the one event in the host's
  queue that begins it, or by the host's context while the state machine is in a state of that role, and never by both (`Owes`); a queue holds one such event for an update at most
  (`FineQueue`); a node that hosts is in no client state, is sent no Start and has no
  record of an update to go on with after a reset (`Role`, `NetFine`), so that the finish callback that survives its update is not called again
  for an error of the other role. Without `RolesApart` section 4 has the counterexample.

### Services

- **`ServicesProofs!TypeCorrect`**: `Spec => []TypeOK`. No run checks these types: the theorem does.
- **`CalledOnce`**: `Spec => []AnsweredOnce`, without a hypothesis: however reply, repeated reply, expiry, failure and
  restart race. `OnceInv`: a request in the table has not been answered, is there once, and belongs to one node.
  Most steps only take requests out (`Fewer`), which keeps it.
- **`RegisteredServed`**: `NoPrefixes` implies `Spec => []RegisteredIsServed`. `RegisteredIsListed` follows the registry
  through failures and repeated registration. The list is searched by `strncmp` with the length of the
  entry; with prefixes the run `svc_prefix` is the counterexample.
- **`AnsweredRightly`**: `OneAtATime` implies `Spec => []AnswerIsForMe`, which is `SuccessIsMine` with `UniqueIds`. `MineInv` ties ids to calls: an id on its
  way, in a reply, or in the hands of a thread, belongs to a call that was counted, and two calls of a node with one id are one
  call. Each conjunct of `OneAtATime` (no restarts, one thread per node, no expiry before the send, fewer calls than
  ids) is needed: three have their rows in section 4, and the fourth is the wrap of a 32 bit counter.

### Configuration store

- **`ConfigurationProofs!SoundStore`**: `TooBig = {}`, `LongKey = {}`, `~Concurrent` and `~WriteTears` imply
  `Spec => []StoreIsSound`. `StoreInv`: a key is in one slot, the value of a slot reads as its noted type, in RAM and in
  the memory, a save under way has the CRC of what the buffer still holds, and a partition that was not changed since the start is as
  the memory has it or, if it could not be read, empty (`InStep`).
- **`ImplementsStore`**: the same without `LongKey = {}` imply `Spec => IsAStore`, the refinement of `ConfigStore`. Every step of the
  detailed specification is shown to be a step of the abstract one or a stutter: a setter changes the map at one key
  (`KeysOnce` is why), the write is where a save takes effect, and a restart in between falls on one side of it or, torn, on
  `Nothing`. The partitions that a start could not read are the abstract one's.

### Layer 2

- **`L2Proofs!LinksKnown`**: `~Preempt` implies `Spec => []LinksAreKnown`. `LinksInv`: a thread that changes a port has read
  the mask as it still is, a port that was refused a timer is down and has none, and a replay has told the callback of exactly the enabled ports behind
  it. No timer is assumed to be had.
- **`FramesRight`**: `NoCarry` and `Stack = "lwip" \/ ~Full` imply `Spec => []FramesAreRight`. `FramesInv` counts
  the holders of a buffer: its place in the event queue, its place in BCMP's queue, the transmitting thread; the sum is the
  reference count, and no buffer is in a queue twice. `Ready` and `Arrived` say what a queued frame
  carries: one to be sent has no port yet and the checksum of what it will be, and the port it came by is not among its ports if
  it goes to all; one received is as it came. A routing callback's answer is any set of ports. The
  arithmetic of the checksum is a lemma: adding a port number to the first byte and to the sum is the same where nothing carries.

### Network

- **`NetworkProofs!RepliesMine`**: with a node `R` that is the only requester and no target, `~Preempt` and
  `MaxReq <= ReplySeqs` imply `Spec => []RepliesAreMine`, on every graph of cables (rings included), for
  any loss, queue length and failure. `RepliesInv(R)`: a message that carries a number, in any
  queue of any node or in the hands of the BCMP thread, has one that `R` has given, and if that is the number of a request that still
  waits it is of that request (`Fine`); what waits is in the order of numbers and was not answered (`ListRight`); what was matched still waits
  (`TakingRight`). So a request that could not be recorded, a reply that was passed around twice or comes after the timer gave up finds
  either its own request or none. Section 4 has the counterexamples for two requesters, for a timer in between and for more
  requests than numbers. A requester that is told to restart (`ConfigCommit`) counts from 0 again, and replies under way are then taken for those to
  new requests.
- **`ResourcesTrue`**: `D!Spec => [](D!TypeOK /\ D!AnswerFits /\ D!ServedOnce)` without a hypothesis, and with `NamesApart` and `IdsApart`
  `D!Spec => []ResourcesAreTrue`. `JobRight` says what has been counted and written at each point of the
  two passes over the two lists, in bytes: counted and late are together what is listed, or written and still to write; so an answer exceeds its buffer by
  exactly what was added in between. That a sum over a list grows by what is appended (`SumAppend`), and that sums are naturals,
  is proved by a least counterexample. `AskedRight`: requests that wait have different numbers and were not
  served, the one being sent among them, so that an answer which comes before its request is listed serves nobody twice. The two hypotheses are for `RefusedIsListed` (no name begins another) and `EchoIsMine` (no two nodes have the same 16 bits), and have
  their rows in section 4.
- **`NeighborsTrue`**: `Settled` implies `N!Spec => []NeighborsAreTrue`. `NeighborsInv`: no two entries of the table agree in id or port, each says
  what the callback was last told (`ViewRight`), has a boot time that only a restart undercuts (`BootsRight`), and a walk is at the
  entry it has counted up to (`WalkRight`). The loop in `bcmp_add_neighbor` that clears a port, which skips the entry behind one it removes, is shown
  to leave no neighbor at the port: as there was one at most, nothing it skips is to go. The four conjuncts of
  `Settled` have their rows in section 4.

### ADIN2111

- **`DriversProofs!AccessesApart`**: `~Together` and `~Preempt` imply `Spec => []AccessesAreApart`, for any tasks, any number of polls,
  operations, frames and events, with accesses that fail or time out anywhere. `RegsInv` says who has to turn the interrupt on again
  (`BackupRight`): the task, if one of its two backups says so, or the transfer under way, if the task has not said that
  it waits. It also says who may trust the MDIO registers: a task that wrote the address has the bus until it is done
  (`MdioRight`), and the interrupt chain finds the address it wrote (`ChainRight`). `~Together` is not guaranteed
  by the code: the theorem says that interrupts, transfers and chains do not disturb one access at a time, whoever makes it, and section 4
  what happens when two tasks make theirs together, or an interrupt falls between the first two lines of `PHY_Read`.

- **`LinksTold`**: `Reliable` implies `K!Spec => []LinksAreTold`, for any number of calls and link changes, whichever other step of the bring-up
  fails. `Owed` is why a change is not forgotten: what L2 was told of a port is true, or the change is latched in the PHY, or the
  chain under way has read it, or `LINK_CHANGE` holds its port and the report under way has not passed it. The chain may be that of a frame
  that is sent: then nobody reports until the next interrupt, and `ToldAtRest` says that the port is remembered till then; `TodoRight` that a
  port still to be asked has not been read. `Reliable` excludes the failures of section 4, whose results the code does not look at, and an SPI function that does not wait.

### Paths

- **`PathsProofs!AddressesTrue`**: `Careful` and `~MayFail` imply `F!Spec /\ R!Spec => []AddressesAreTrue`. `ForwardInv`: two live entries have
  different addresses, a live entry has the port of its address, and its age and the ticks since the address was heard add up to
  no more than the age of the table and a tick, unless the mark that it was refreshed is still to be taken. The properties of the filter are
  inductive with its types; rules and masks at distinct register addresses are why a write disturbs no other entry.
- **`DatagramsSound`**: `SamePort` and `~Retries` imply `D!Spec => []DatagramsAreRight`, over both stacks. `BuffersInv` names the holders of a buffer (a sender, a
  sender's copy, the middleware's queue, its thread), has each of them at most once and no two that exclude each other, and the count of references is the
  number of holders; a thread's place says what it holds. `SetupInv` follows the applications and their ports through
  initializations that fail.

### What threads meet in

The run `structures` checks `IsAFifo` and `ReceiverIsTold` of the queue as parts of `QueuesAreFifos` and `WaitersAreTold`.

- **`StructuresProofs!ImplementsFifo`**: `Spec => IsAFifo`, the refinement of `Fifo`, for any capacity, threads and timeouts,
  without a further hypothesis. `RingInv` is the type invariant with `tail = (head + count) % Capacity`: the items end where the next one
  goes. Two lemmas on the remainder say where item `n` is, and three say what the ring's sequence of items becomes
  when one is taken, put at the end, or put before `head`, where `head` may go around. Each step of a thread is then one of
  these three or leaves the ring alone.
- **`ReceiversTold`**: for finitely many receivers, `NoTheft` implies `Spec => []ReceiverIsTold`. The property alone is not inductive: two items may
  come before the first receiver that was told has looked, and the second must be announced too. `ToldInv` counts: beside a receiver that sleeps
  there are no more items than receivers that were told. `NoTheft` says that no receiver has a limit, or that there is only one:
  a wait that is over may have used up the signal for another one, and section 4 has the counterexample.
- **`WaitersTold`**: the same with `~Consumes` implies `U!Spec /\ Sem!Spec /\ Str!Spec => []WaitersAreTold`. Semaphore: it is free and nobody
  has it, or it is not and one task has it (`HeldBy`); this with `FreeIsOffered` is inductive, as no wait that is over used up a signal.
  Stream: `StreamInv` ties the tail to head and count, and what was stored to what was received followed by what the buffer
  holds. Two lemmas carry it: bytes written from the tail on, around the end, follow those that are there (`SegmentPut`), and those read from the head on are
  the first of them (`SegmentTake`). Both are about any position, so every division of a chunk by a full buffer and every timeout is covered.
- **`QueuedServed`**: `Pow!Spec => []QueuedIsServed`, for any number of requests made by any number of threads, refused or not, and answered in
  any order. `Lined`: the ids in the callback queue are those from `get_id` to `add_id` and their callbacks are in the order of the requests, none of which was called; `Enough`: there are
  as many as requests under way. So an answer always finds a callback, one that was not called before; and until `mixed` the queue is that of
  the requests under way, the first of which is the one answered.

### What is only model-checked

Liveness under fairness and `ENABLED` are out of reach of the prover: the temporal properties of the fair runs. Of the invariants, these are left to TLC:

- `SubscriptionsHold` and `StructuresAreSound`: which elements can be reached from the head of a chain of pointers (`PubSub`, `LL`) is an
  induction over the chain; the byte queue's items are read out of its bytes through their headers, with powers of
  the base, which the provers do not know.
- `TopologyIsWhole`: that a walk over any tree of cables meets every node, in order, is an induction over the tree; the run fixes a row of four.
- `TransfersAreRight`: what the chip puts together out of chunks is defined word by word over the history of a transfer.
- `SuccessMeansInstalled` is a property of steps that relates the two ends of a link, and holds with the messages of one pair of nodes only.

Where the library's induction would have been needed for a fact about numbers, it is proved from a least
counterexample instead (sums of sizes, the loop that clears a port): the least element of a set of naturals is what the provers can use.

## 6. Plan

Done: every component of section 1 that keeps state and decides on it, and the proofs of section 5.

What is left of the proofs is what section 5 names: the chains of pointers, with reachability stated by an enumeration of
the chain that is carried as a ghost; the exchange of chunks, with the chip's memory related to the ring by the frames it has in part;
the topology of a row of any length.

Not modelled, and why: CBOR encoding and the services that only encode a reply (echo, system information,
metrics, configuration map), which keep nothing; `bm_freertos.c`, which passes every call on; time stamps, statistics, loopback, test modes and frame generators of the driver, which nothing in the
stack calls; register maps and other constants (a third of the lines of the repository), which are data;
the start-up sequence but for the middleware, whose effect is the `Init` of each module; and the formatting
of pcap, Spotter and file functions and of MAVLink messages. A reply callback that makes a service request while the lock is held
(`bm_service_request.c:301`) depends on whether the platform's mutex is recursive, and is left out with it; the
16 bits of `num_chunks` in `dfu_client.c:283` are left out as the model counts chunks without width.
