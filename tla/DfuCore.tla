------------------------------ MODULE DfuCore ------------------------------
(***************************************************************************)
(* The Device Firmware Update subsystem of one Bristlemouth node, common   *)
(* part: the event queue, the shared state machine (lib_state_machine.c    *)
(* driven by bm_dfu_event_thread), the messages, the boot sequence and the *)
(* parts every role uses (bcmp/dfu_core.c).  The client and host states of *)
(* the same machine are in DfuClient and DfuHost; Dfu composes them.       *)
(*                                                                         *)
(* lib_sm_run is two steps here.  A Run step receives one event and calls  *)
(* the state's run function; if that leaves a state change pending, a      *)
(* Transition step follows (exit, entry).  Timers, the BCMP thread that    *)
(* queues messages and the application interleave between the two, as they *)
(* may in the code.                                                        *)
(***************************************************************************)
EXTENDS Naturals, Sequences, FiniteSets

CONSTANTS
    Node,             \* node ids
    Image,            \* firmware images: [id (names its bytes, so also its
                      \* version), sha, size (in units), force]
    Factory,          \* the image every node runs at first
    QueueLen,         \* length of dfu_event_queue (5 in the code)
    NetCap,           \* messages one directed link holds before it loses more
    ChunkSize,        \* BmDfuImgInfo.chunk_size, in units
    PageLen,          \* bm_img_page_length, in units
    SlotSize,         \* bm_dfu_client_flash_area_get_size, in units
    MaxChunkRetries,  \* bm_dfu_max_chunk_retries
    MaxAckRetries,    \* bm_dfu_max_ack_retries
    MaxUpdates,       \* bound: calls of bm_dfu_initiate_update
    MaxResets,        \* bound: resets nobody asked for (watchdog, power)
    TimersMayFail,    \* may bm_timer_start / bm_timer_stop return an error?
    IoMayFail,        \* may flash, chunk source, bcmp_tx or malloc fail?
    WriteNeedsErase,  \* does writing over written flash corrupt it?
    NoNode,           \* the node id of a context that was never set
    Pairs,            \* bound: which node's application updates which node
    Offered,          \* bound: the images the applications offer
    Internal,         \* bound: the values of internal they pass
    Beats,            \* bound: may a chunk read outlast the heartbeat period?
    RecordsMissed,    \* is the ghost missed kept (only a liveness run reads it)?
    ConfirmCfgs       \* values of the configuration key dfu_confirm at start

ASSUME CoreAssumption ==
    /\ NoNode \notin Node
    /\ Factory \in Image
    /\ \A i \in Image : i.size \in Nat \ {0} /\ i.force \in BOOLEAN
    /\ \A i, j \in Image : i.id = j.id => i.sha = j.sha
    /\ QueueLen \in Nat \ {0} /\ NetCap \in Nat
    /\ ChunkSize \in Nat \ {0} /\ PageLen \in Nat \ {0} /\ SlotSize \in Nat
    /\ MaxChunkRetries \in Nat /\ MaxAckRetries \in Nat
    /\ MaxUpdates \in Nat /\ MaxResets \in Nat
    /\ TimersMayFail \in BOOLEAN /\ IoMayFail \in BOOLEAN
    /\ WriteNeedsErase \in BOOLEAN /\ ConfirmCfgs \subseteq BOOLEAN
    /\ Pairs \subseteq Node \X Node /\ Offered \subseteq Image
    /\ Internal \subseteq BOOLEAN /\ Beats \subseteq BOOLEAN
    /\ RecordsMissed \in BOOLEAN

\* bm_dfu_process_payload copies at most one page: a chunk fits in a page.
ASSUME PageAssumption == ChunkSize <= PageLen

VARIABLES
    core,  \* dfu_core_ctx_t of every node, with its event queue; missed (ghost):
           \* an event of one of its timers found the queue full
    cli,   \* DfuClientCtx of every node
    hst,   \* dfu_host_ctx_t of every node
    nv,    \* what survives a reset: noinit RAM, flash slots, configuration
    net,   \* messages in flight, a lossy FIFO per directed pair of nodes
    upd,   \* per update: what bm_dfu_initiate_update and the callback said
    app,   \* initiate_update's caller between the queue send and its last line
    resets \* unasked resets so far

vars == <<core, cli, hst, nv, net, upd, app, resets>>

-----------------------------------------------------------------------------
(* Values *)

ClientState == {"ClientReceiving", "ClientValidating", "ClientRebootReq",
                "ClientRebootDone", "ClientActivating"}
HostState   == {"HostReqUpdate", "HostUpdate"}
State       == {"Init", "Idle", "Error"} \cup ClientState \cup HostState
NoState     == "NoState"

\* BmDfuErr: everything but FlashAccess is recoverable (s_error_entry).
Err == {"None", "TooLarge", "SameVer", "MismatchLen", "BadCrc",
        "ImgChunkAccess", "Timeout", "BmFrame", "Aborted", "WrongVer",
        "ConfirmationAbort", "FlashAccess"}
Fatal(e) == e = "FlashAccess"

Update   == 1..MaxUpdates
NoUpdate == 0

\* A unit of an image's contents, and the contents themselves.  The CRC is
\* taken to tell any two byte strings apart.
Content(i) == [k \in 1..i.size |-> <<i.id, k>>]
Junk       == <<NoNode, 0>>
Unit       == {Junk} \cup UNION {{<<i.id, k>> : k \in 1..i.size} : i \in Image}

\* Events that come from this node: no buffer, so no sender and no payload.
Local(type) == [ev |-> type, src |-> NoNode]
Nop         == Local("None")
LocalEvent  == {Local(t) : t \in {"None", "InitSuccess", "ChunkTimeout",
                                  "AckTimeout", "Abort"}}

\* Messages, under the name of the event bm_dfu_process_message turns each
\* frame type into.
Start(n, i)     == [ev |-> "Start", src |-> n, img |-> i]
Chunk(n, d)     == [ev |-> "Chunk", src |-> n, data |-> d]
ChunkReq(n, k)  == [ev |-> "ChunkReq", src |-> n, seq |-> k]
Result(t, n, b, e) == [ev |-> t, src |-> n, ok |-> b, err |-> e]
Plain(t, n)     == [ev |-> t, src |-> n]

Message ==
    [ev : {"Start"}, src : Node, img : Image]
        \cup [ev : {"Chunk"}, src : Node, data : Seq(Unit)]
        \cup [ev : {"ChunkReq"}, src : Node, seq : Nat]
        \cup [ev : {"Ack", "End", "Abort"}, src : Node, ok : BOOLEAN, err : Err]
        \cup [ev : {"Heartbeat", "RebootReq", "Reboot", "BootComplete"},
              src : Node]

\* DfuEventBeginHost carries the whole request of the application.
BeginHost(n, u, i, c) == [ev |-> "BeginHost", src |-> n, upd |-> u, img |-> i,
                          client |-> c]
BeginEvent == [ev : {"BeginHost"}, src : Node, upd : Update, img : Image,
               client : Node]

Event == LocalEvent \cup Message \cup BeginEvent
NoEvent == Local("NoEvent")

\* The noinit record is valid only with its magic number.
NoInfo == [magic |-> FALSE, host |-> NoNode, sha |-> Factory.sha]
Info   == [magic : BOOLEAN, host : Node \cup {NoNode},
           sha : {i.sha : i \in Image}]

Erased  == <<NoNode, 1>>
Corrupt == <<NoNode, 2>>
BlankSlot == [k \in 1..SlotSize |-> Erased]

-----------------------------------------------------------------------------
(* Queue, timers, transmission *)

\* Mutation of Push: the limit is checked one too late.
PushPastEnd(q, e) == IF Len(q) <= QueueLen THEN Append(q, e) ELSE q

\* bm_queue_send with no wait: a full queue loses the event.
Push(q, e) == IF Len(q) < QueueLen THEN Append(q, e) ELSE q
\* A timer's handler, which does not wait for room either.
TimerEvent(n, ev) ==
    core' = [core EXCEPT ![n].q = Push(@, Local(ev)),
                         ![n].missed = @ \/ (RecordsMissed /\ Len(core[n].q) = QueueLen)]
PushNops(q, k) == IF k = 0 THEN q
                  ELSE IF k = 1 THEN Push(q, Nop) ELSE Push(Push(q, Nop), Nop)

\* What a timer call may return; what flash, chunk source, bcmp_tx or malloc.
TimerOK == IF TimersMayFail THEN BOOLEAN ELSE {TRUE}
IoOK == IF IoMayFail THEN BOOLEAN ELSE {TRUE}

\* bcmp_tx from n to d.  A link at its capacity loses the message, which is
\* also how a failed bcmp_tx of an unchecked send looks to the peer.  Nobody
\* has the node id of a cleared noinit record.
AddTo(link, m) == IF Len(link) < NetCap THEN Append(link, m) ELSE link
Send(n, d, m)  == net' = IF d = NoNode THEN net
                         ELSE [net EXCEPT ![n][d] = AddTo(@, m)]
Send2(n, d, m1, m2) == net' = [net EXCEPT ![n][d] = AddTo(AddTo(@, m1), m2)]

-----------------------------------------------------------------------------
(* The state machine *)

InState(n, s) == core[n].st = s

\* The DFU thread is in bm_queue_receive and an event is there for it.
Receives(n, s) ==
    /\ InState(n, s)
    /\ core[n].cur = NoEvent
    /\ core[n].q # <<>>

Evt(n) == Head(core[n].q)

\* What a run function that consumed Evt(n) leaves in the core context: the
\* state it asked for (bm_dfu_set_pending_state_change, NoState when it asked
\* for none), the NOP events that asking queued, and the error it set.  An
\* entry function may have left a state change pending before.
After(n, s, nops, e) ==
    LET p == IF s = NoState THEN core[n].pend ELSE s
    IN  [core EXCEPT ![n].q    = PushNops(Tail(@), nops),
                     ![n].pend = p,
                     ![n].err  = e,
                     ![n].cur  = IF p = NoState THEN NoEvent ELSE Evt(n)]

Stay(n)     == core' = After(n, NoState, 0, core[n].err)
GoTo(n, s)  == core' = After(n, s, 1, core[n].err)
Fail(n, e)  == core' = After(n, "Error", 1, e)

\* check_transitions found a pending change: leave the old state, enter s.
Enters(n, s) ==
    /\ core[n].cur # NoEvent
    /\ core[n].pend = s

\* The entry function of s ends; it asked for p with one NOP, or for nothing.
Entered(n, s, p, e) ==
    core' = [core EXCEPT ![n].st   = s,
                         ![n].pend = p,
                         ![n].err  = e,
                         ![n].q    = IF p = NoState THEN @ ELSE Push(@, Nop),
                         ![n].cur  = NoEvent]

-----------------------------------------------------------------------------
(* Boot *)

BootCore == [st |-> "Init", pend |-> NoState, q |-> <<Local("InitSuccess")>>,
             cur |-> NoEvent, err |-> "None", cb |-> NoUpdate, peer |-> NoNode,
             internal |-> FALSE, missed |-> FALSE]
BootCli == [host |-> NoNode, img |-> Factory, chunk |-> 0, retry |-> 0,
            rcvd |-> <<>>, page |-> <<>>, off |-> 0, tmr |-> FALSE]
BootHst == [client |-> NoNode, img |-> Factory, rem |-> 0, retry |-> 0,
            cb |-> NoUpdate, ackTmr |-> FALSE, hbTmr |-> FALSE,
            updTmr |-> FALSE, dataq |-> FALSE]

\* The RAM of node n after a reset: bm_dfu_init ran, the DFU thread waits.
RamReset(n) ==
    /\ core' = [core EXCEPT ![n] = BootCore]
    /\ cli'  = [cli EXCEPT ![n] = BootCli]
    /\ hst'  = [hst EXCEPT ![n] = BootHst]
    /\ app'  = [app EXCEPT ![n] = "none"]

\* The boot loader: an unconfirmed image is reverted by any reset.
Reverted(r) == [r EXCEPT !.fw = r.old, !.confirmed = TRUE]
AfterReset(r) == IF r.confirmed THEN r ELSE Reverted(r)

\* bm_dfu_client_set_pending_and_reset: the boot loader runs the secondary
\* slot's image on trial if the slot holds an intact one.
Slot(r) == {i \in Image : /\ i.size <= SlotSize
                          /\ SubSeq(r.flash, 1, i.size) = Content(i)}
Swapped(r) ==
    IF Slot(r) = {} THEN r
    ELSE [r EXCEPT !.fw  = CHOOSE i \in Slot(r) : TRUE,
                   !.old = r.fw, !.confirmed = FALSE]

\* A reset nobody asked for, in any state.  The noinit RAM survives it or,
\* if power was lost, holds no magic number.
Reset(n) ==
    /\ resets < MaxResets
    /\ resets' = resets + 1
    /\ RamReset(n)
    /\ \E i \in {nv[n].info, NoInfo} :
          nv' = [nv EXCEPT ![n] = [AfterReset(@) EXCEPT !.info = i]]
    /\ UNCHANGED <<net, upd>>

-----------------------------------------------------------------------------
(* Messages in *)

\* bm_dfu_process_message, on the BCMP thread: a node in a client state hears
\* its host only, a node in a host state its client only, any other state
\* lets every sender through.  The event is judged again by nobody when the
\* DFU thread takes it from the queue.
Accepts(n, m) ==
    CASE core[n].st \in ClientState -> m.src = cli[n].host
      [] core[n].st \in HostState   -> m.src = hst[n].client
      [] OTHER                      -> TRUE

Deliver(s, n) ==
    /\ net[s][n] # <<>>
    /\ LET m == Head(net[s][n])
       IN  core' = IF Accepts(n, m) THEN [core EXCEPT ![n].q = Push(@, m)]
                                    ELSE core
    /\ net' = [net EXCEPT ![s][n] = Tail(@)]
    /\ UNCHANGED <<cli, hst, nv, upd, app, resets>>

Lose(s, n) ==
    /\ net[s][n] # <<>>
    /\ net' = [net EXCEPT ![s][n] = Tail(@)]
    /\ UNCHANGED <<core, cli, hst, nv, upd, app, resets>>

-----------------------------------------------------------------------------
(* The application *)

Started == {u \in Update : upd[u].st # "free"}
NextUpdate == Cardinality(Started) + 1

Call(u, n, i, c, s, cbs) ==
    upd' = [upd EXCEPT ![u] = [st |-> s, host |-> n, img |-> i, client |-> c,
                               cbs |-> cbs, ok |-> FALSE]]

\* bm_dfu_initiate_update up to and including the queue send.  Outside Idle,
\* or with a full queue, the callback is told InProgress and FALSE returned;
\* without memory for the event FALSE is returned and nobody called.  The
\* state is read without any lock.
Initiate(n, c, i, internal) ==
    /\ app[n] = "none"
    /\ NextUpdate \in Update
    /\ \/ /\ InState(n, "Idle") /\ Len(core[n].q) < QueueLen
          /\ core' = [core EXCEPT ![n].q =
                                     Append(@, BeginHost(n, NextUpdate, i, c))]
          /\ app' = [app EXCEPT ![n] = IF internal THEN "internal"
                                                   ELSE "external"]
          /\ Call(NextUpdate, n, i, c, "accepted", 0)
       \/ /\ ~(InState(n, "Idle") /\ Len(core[n].q) < QueueLen)
          /\ Call(NextUpdate, n, i, c, "refused", 1)
          /\ UNCHANGED <<core, app>>
       \/ /\ InState(n, "Idle") /\ FALSE \in IoOK
          /\ Call(NextUpdate, n, i, c, "refused", 0)
          /\ UNCHANGED <<core, app>>
    /\ UNCHANGED <<cli, hst, nv, net, resets>>

\* Its last line: dfu_ctx.internal is written after the event was queued, so
\* the DFU thread may have run with the previous value.
SetInternal(n) ==
    /\ app[n] # "none"
    /\ core' = [core EXCEPT ![n].internal = (app[n] = "internal")]
    /\ app'  = [app EXCEPT ![n] = "none"]
    /\ UNCHANGED <<cli, hst, nv, net, upd, resets>>

\* A finish callback for update u.
Report(u, ok) ==
    upd' = IF u = NoUpdate THEN upd
           ELSE [upd EXCEPT ![u].cbs = IF @ < 2 THEN @ + 1 ELSE @,
                            ![u].ok  = ok]

-----------------------------------------------------------------------------
(* Init, Idle and Error states *)

\* s_init_run
InitRun(n) ==
    /\ Receives(n, "Init")
    /\ IF Evt(n).ev = "InitSuccess"
       THEN GoTo(n, IF nv[n].info.magic THEN "ClientRebootDone" ELSE "Idle")
       ELSE Stay(n)
    /\ UNCHANGED <<cli, hst, nv, net, upd, app, resets>>

\* s_idle_entry, after s_host_update_exit when the host was updating.
IdleEntry(n) ==
    /\ Enters(n, "Idle")
    /\ Entered(n, "Idle", NoState, core[n].err)
    /\ nv' = [nv EXCEPT ![n].info = NoInfo]
    /\ hst' = [hst EXCEPT ![n].dataq = @ /\ ~InState(n, "HostUpdate")]
    /\ UNCHANGED <<cli, net, upd, app, resets>>

\* s_error_entry: tell the application, and leave unless the error is fatal.
ErrorEntry(n) ==
    /\ Enters(n, "Error")
    /\ Entered(n, "Error", IF Fatal(core[n].err) THEN NoState ELSE "Idle",
               core[n].err)
    /\ Report(core[n].cb, FALSE)
    /\ hst' = [hst EXCEPT ![n].dataq = @ /\ ~InState(n, "HostUpdate")]
    /\ UNCHANGED <<cli, nv, net, app, resets>>

\* s_error_run, s_client_validating_run and s_client_activating_run do
\* nothing: they only let a pending change through.
PassiveRun(n) ==
    /\ \E s \in {"Error", "ClientValidating", "ClientActivating"} :
          Receives(n, s)
    /\ Stay(n)
    /\ UNCHANGED <<cli, hst, nv, net, upd, app, resets>>

=============================================================================
