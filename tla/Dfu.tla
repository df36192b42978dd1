-------------------------------- MODULE Dfu --------------------------------
(***************************************************************************)
(* The DFU subsystem of a network of Bristlemouth nodes: every node runs   *)
(* the same state machine and may be host or client, messages travel over  *)
(* lossy FIFO links, timers fire at any time after they were started, and  *)
(* nodes may reset.                                                        *)
(***************************************************************************)
EXTENDS DfuClient, DfuHost

Init ==
    /\ core = [n \in Node |-> BootCore]
    /\ cli  = [n \in Node |-> BootCli]
    /\ hst  = [n \in Node |-> BootHst]
    /\ \E cfg \in ConfirmCfgs :
          nv = [n \in Node |-> [info |-> NoInfo, fw |-> Factory, old |-> Factory,
                                confirmed |-> TRUE, flash |-> BlankSlot,
                                confirmCfg |-> cfg]]
    /\ net  = [s \in Node |-> [d \in Node |-> <<>>]]
    /\ upd  = [u \in Update |-> [st |-> "free", host |-> NoNode, img |-> Factory,
                                 client |-> NoNode, cbs |-> 0, ok |-> FALSE]]
    /\ app  = [n \in Node |-> "none"]
    /\ resets = 0

\* One step of the DFU thread of node n.
Thread(n) ==
    \/ InitRun(n) \/ IdleEntry(n) \/ ErrorEntry(n) \/ PassiveRun(n)
    \/ ClientThread(n) \/ HostThread(n)

Application(n) ==
    \/ \E c \in Node, i \in Offered, b \in Internal :
          <<n, c>> \in Pairs /\ Initiate(n, c, i, b)
    \/ SetInternal(n)

Link(s, d) == Deliver(s, d) \/ Lose(s, d)

Next ==
    \/ \E n \in Node : \/ Thread(n) \/ Application(n) \/ Reset(n)
                       \/ ChunkTimer(n) \/ AckTimer(n) \/ UpdateTimer(n)
                       \/ HeartbeatTimer(n)
    \/ \E s, d \in Node : Link(s, d)

Spec == Init /\ [][Next]_vars

\* The DFU thread is scheduled, a started timer fires unless it is stopped,
\* a message arrives or is lost, bm_dfu_initiate_update returns.  Nothing
\* makes a link deliver, and nothing makes an application call.
Fairness ==
    /\ \A n \in Node : /\ WF_vars(Thread(n)) /\ WF_vars(SetInternal(n))
                       /\ WF_vars(ChunkTimer(n)) /\ WF_vars(AckTimer(n))
                       /\ WF_vars(UpdateTimer(n))
    /\ \A s, d \in Node : WF_vars(Link(s, d))

FairSpec == Spec /\ Fairness

-----------------------------------------------------------------------------
(* Types *)

Queue == {q \in Seq(Event) : Len(q) <= QueueLen}
CoreType == [st : State, pend : State \cup {NoState}, q : Queue,
             cur : Event \cup {NoEvent}, err : Err, cb : Update \cup {NoUpdate},
             peer : Node \cup {NoNode}, internal : BOOLEAN,
             missed : BOOLEAN]
CliType == [host : Node \cup {NoNode}, img : Image, chunk : Nat, retry : Nat,
            rcvd : Seq(Unit), page : Seq(Unit), off : Nat, tmr : BOOLEAN]
HstType == [client : Node \cup {NoNode}, img : Image, rem : Nat, retry : Nat,
            cb : Update \cup {NoUpdate}, ackTmr : BOOLEAN, hbTmr : BOOLEAN,
            updTmr : BOOLEAN, dataq : BOOLEAN]
NvType == [info : Info, fw : Image, old : Image, confirmed : BOOLEAN,
           flash : [1..SlotSize -> Unit \cup {Erased, Corrupt}],
           confirmCfg : BOOLEAN]
UpdType == [st : {"free", "accepted", "refused"}, host : Node \cup {NoNode},
            img : Image, client : Node \cup {NoNode}, cbs : 0..2, ok : BOOLEAN]

\* Every variable has its type and the event queue never exceeds the length
\* it was created with.
TypeOK ==
    /\ core \in [Node -> CoreType]
    /\ cli \in [Node -> CliType]
    /\ hst \in [Node -> HstType]
    /\ nv \in [Node -> NvType]
    /\ net \in [Node -> [Node -> Seq(Message)]]
    /\ upd \in [Update -> UpdType]
    /\ app \in [Node -> {"none", "internal", "external"}]
    /\ resets \in 0..MaxResets

\* TypeOK with what makes it inductive.  lib_sm_run keeps the event that asked
\* for a state change until the new state is entered: s_host_req_update_entry
\* casts its buffer to a request.  And the host owes at most the whole image.
RequestKept(c) ==
    \A n \in Node : c[n].pend = "HostReqUpdate" => c[n].cur \in BeginEvent
OwesAtMostImage(h) == \A n \in Node : h[n].rem <= h[n].img.size
TypeInv == TypeOK /\ RequestKept(core) /\ OwesAtMostImage(hst)

-----------------------------------------------------------------------------
(* Safety *)

\* The client checked the image and waits to reboot into it.
Verified(n) ==
    \/ InState(n, "ClientRebootReq")
    \/ core[n].pend \in {"ClientRebootReq", "ClientActivating"}

\* A client asks for the reboot into, and activates, only a slot that holds
\* every byte of the image it accepted, whatever was lost, retried, resynced
\* or failed to be written on the way (s_client_validating_entry).
ActivatesOnlyIntactImage ==
    \A n \in Node : Verified(n) =>
        \A k \in 1..cli[n].img.size : nv[n].flash[k] = Content(cli[n].img)[k]

\* Why that is so.  Control: a state change is pending outside lib_sm_run only
\* in Client Validating and Error, whose entry functions ask for one, and the
\* three client states past Client Rx are entered each from the one before.
\* Data: received bytes are in the slot, in the page buffer or lost, and if
\* none was lost the slot and the page hold exactly them.
Staged(rcvd, page, off, slot) ==
    /\ off + Len(page) <= Len(rcvd)
    /\ off + Len(page) = Len(rcvd) =>
          /\ \A k \in 1..off : k <= SlotSize => slot[k] = rcvd[k]
          /\ \A k \in 1..Len(page) : page[k] = rcvd[off + k]

Orderly(st, pend, waits) ==
    /\ waits /\ st \notin {"ClientValidating", "Error"} => pend = NoState
    /\ pend = "ClientValidating" => st = "ClientReceiving" /\ ~waits
    /\ pend = "ClientRebootReq" => st = "ClientValidating"
    /\ pend = "ClientActivating" => st = "ClientRebootReq"

Intact(img, slot) == \A k \in 1..img.size : slot[k] = Content(img)[k]

Stored(st, pend, c, slot) ==
    /\ st = "ClientReceiving" \/ pend = "ClientReceiving" => Fits(c.img)
    /\ st = "ClientReceiving" /\ pend = NoState =>
          Staged(c.rcvd, c.page, c.off, slot)
    /\ pend = "ClientValidating" => Staged(c.rcvd, <<>>, c.off, slot)
    /\ st = "ClientRebootReq" \/ pend \in {"ClientRebootReq", "ClientActivating"}
          => Intact(c.img, slot)

\* The invariant that carries ActivatesOnlyIntactImage through the transfer:
\* off and the page buffer account for every byte since s_client_receiving_entry.
NothingMisplaced ==
    \A n \in Node :
        /\ Orderly(core[n].st, core[n].pend, core[n].cur = NoEvent)
        /\ Stored(core[n].st, core[n].pend, cli[n], nv[n].flash)

\* A node runs an unconfirmed image only between the reboot into it and the
\* host's word: in every other state its firmware is confirmed, and a node on
\* trial still knows which host to ask and runs what that host offered.
TrialEndsWithVerdict ==
    \A n \in Node : ~nv[n].confirmed =>
        /\ core[n].st \in {"Init", "ClientRebootDone"}
        /\ nv[n].info.magic
        /\ nv[n].info.host \in Node
        /\ nv[n].info.sha = nv[n].fw.sha

\* Why that is so.  From the acceptance of a request to the activation the
\* noinit record names the host and the image of the transfer, and from the
\* activation to the verdict those of the firmware that runs.
Remembers(info, i) == info.magic /\ info.host \in Node /\ info.sha = i.sha

Fetching == {"ClientReceiving", "ClientValidating", "ClientRebootReq",
             "ClientActivating"}

OnTrial(st, pend, img, r) ==
    /\ ~r.confirmed => /\ st \in {"Init", "ClientRebootDone"}
                       /\ pend \in {NoState, "ClientRebootDone"}
                       /\ Remembers(r.info, r.fw)
    /\ st \in Fetching \/ pend \in Fetching => Remembers(r.info, img)

TrialInv == \A n \in Node : OnTrial(core[n].st, core[n].pend, cli[n].img, nv[n])

\* No node updates others and is updated itself.  On one that does both,
\* s_error_entry calls the callback of an update that has long been reported.
RolesApart == \A p, q \in Pairs : p[1] # q[2]

\* bm_dfu_initiate_update's caller hears of an update at most once.
ReportedOnce == \A u \in Update : upd[u].cbs <= 1

\* When the application is told that an update succeeded, the client runs and
\* has confirmed the image of that update.
SuccessMeansInstalled ==
    [][\A u \in Update : upd'[u].ok /\ ~upd[u].ok =>
          /\ nv[upd[u].client].fw = upd[u].img
          /\ nv[upd[u].client].confirmed]_vars

\* What a client has received so far is the beginning of the image it accepted.
ReceivedInOrder ==
    \A n \in Node : InState(n, "ClientReceiving") =>
        /\ Len(cli[n].rcvd) <= cli[n].img.size
        /\ cli[n].rcvd = SubSeq(Content(cli[n].img), 1, Len(cli[n].rcvd))

\* In a client state only the host of the update is listened to.
OnlyTheHostIsHeard ==
    [][\A n \in Node :
          /\ InState(n, "ClientReceiving")
          /\ core[n].cur = NoEvent /\ core[n].q # <<>>
          /\ Evt(n).src # NoNode /\ Evt(n).src # cli[n].host
          /\ core'[n].q = Tail(core[n].q)
          => cli'[n] = cli[n]]_vars

\* The fatal error of s_error_entry, "Flash access error (Fatal Error)", is
\* entered only after an access to flash or to the image source failed.
FatalMeansFlash ==
    \A n \in Node : Fatal(core[n].err) => FALSE \in IoOK

-----------------------------------------------------------------------------
(* Liveness *)

\* An application whose update was accepted is told how it ended: the answer,
\* the end, the abort or one of the timeouts gets the host out of
\* HostReqUpdate and HostUpdate (s_host_req_update_run, s_host_update_run).  A
\* node that resets forgets whom to tell, and a timer whose event finds the
\* queue full fires once and never again (update_timer_handler); nothing else
\* keeps the application waiting.
AcceptedIsReported ==
    \A u \in Update : upd[u].st = "accepted" ~>
        upd[u].cbs > 0 \/ resets > 0 \/ \E n \in Node : n = upd[u].host /\ core[n].missed

\* A client that started to receive an image comes back to Idle, with the new
\* image or without it, whatever becomes of the host; unless the event of its
\* timer finds the queue full (chunk_timer_handler).
ClientComesBack ==
    \A n \in Node : InState(n, "ClientReceiving") ~> InState(n, "Idle") \/ core[n].missed

\* A host that serves a client stops doing so: "Exits on global timeout timeout
\* or abort/end message received from client" (s_host_update_run).
UpdateEndsSometime ==
    \A n \in Node : InState(n, "HostUpdate") ~> ~InState(n, "HostUpdate")

=============================================================================
