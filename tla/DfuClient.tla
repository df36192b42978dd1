----------------------------- MODULE DfuClient -----------------------------
(***************************************************************************)
(* The client states of the DFU state machine (bcmp/dfu_client.c): accept  *)
(* an image, fetch it chunk by chunk into the secondary slot, check it,    *)
(* ask the host for a reboot, and after the reboot ask it to confirm.      *)
(***************************************************************************)
EXTENDS DfuCore

Host(n) == cli[n].host
NumChunks(i) == (i.size + ChunkSize - 1) \div ChunkSize

\* bm_timer_stop in bm_dfu_client_transition_to_error: its failure is only
\* logged, and leaves the timer as it was.
StoppedOrNot(t) == {t /\ ~stopped : stopped \in TimerOK}

\* The fields s_client_receiving_entry and the resync of
\* s_client_receiving_run start from.
FromScratch(c, t) == [c EXCEPT !.chunk = 0, !.retry = 0, !.rcvd = <<>>,
                               !.page = <<>>, !.off = 0, !.tmr = t]

-----------------------------------------------------------------------------
(* Flash *)

\* bm_dfu_client_flash_area_write: data at offset off of the slot.
Write(slot, off, data) ==
    [k \in 1..SlotSize |->
        IF k \in off + 1..off + Len(data)
        THEN IF WriteNeedsErase /\ slot[k] \notin {Erased, data[k - off]}
             THEN Corrupt ELSE data[k - off]
        ELSE slot[k]]

\* Mutation of Payload: a full page writes the chunk instead of the page.
PayloadWritesChunk(page, off, slot, data, wrote) ==
    LET all == page \o data
    IN  IF data = <<>>
        THEN [ok |-> FALSE, page |-> page, off |-> off, slot |-> slot]
        ELSE IF Len(all) < PageLen
        THEN [ok |-> TRUE, page |-> all, off |-> off, slot |-> slot]
        ELSE [ok   |-> wrote,
              page |-> SubSeq(all, PageLen + 1, Len(all)),
              off  |-> off + PageLen,
              slot |-> Write(slot, off, data)]

\* bm_dfu_process_payload: gather a page, write it when it is full.  wrote is
\* what the flash answers.  A page that could not be written is dropped.
Payload(page, off, slot, data, wrote) ==
    LET all == page \o data
    IN  IF data = <<>>
        THEN [ok |-> FALSE, page |-> page, off |-> off, slot |-> slot]
        ELSE IF Len(all) < PageLen
        THEN [ok |-> TRUE, page |-> all, off |-> off, slot |-> slot]
        ELSE IF ~wrote
        THEN [ok |-> FALSE, page |-> <<>>, off |-> off, slot |-> slot]
        ELSE [ok   |-> TRUE,
              page |-> SubSeq(all, PageLen + 1, Len(all)),
              off  |-> off + PageLen,
              slot |-> Write(slot, off, SubSeq(all, 1, PageLen))]

\* bm_dfu_process_end: write what is left in the page buffer.
Flush(p, wrote) ==
    IF p.page = <<>> THEN [p EXCEPT !.ok = TRUE]
    ELSE IF ~wrote THEN [p EXCEPT !.ok = FALSE]
    ELSE [p EXCEPT !.ok = TRUE, !.off = @ + Len(p.page),
                   !.slot = Write(@, p.off, p.page)]

-----------------------------------------------------------------------------
(* Idle: an update request *)

Wanted(n, i) == i.sha # nv[n].fw.sha \/ i.force
Fits(i)      == i.size < SlotSize

\* bm_dfu_client_process_update_request, image not wanted
RefuseSameVersion(n) ==
    /\ Receives(n, "Idle") /\ Evt(n).ev = "Start"
    /\ ~Wanted(n, Evt(n).img)
    /\ Stay(n)
    /\ cli' = [cli EXCEPT ![n].host = Evt(n).src]
    /\ Send(n, Evt(n).src, Result("Ack", n, FALSE, "SameVer"))
    /\ UNCHANGED <<hst, nv, upd, app, resets>>

\* ... image too large for the slot
RefuseTooLarge(n) ==
    /\ Receives(n, "Idle") /\ Evt(n).ev = "Start"
    /\ Wanted(n, Evt(n).img) /\ ~Fits(Evt(n).img)
    /\ Stay(n)
    /\ cli' = [cli EXCEPT ![n].host = Evt(n).src, ![n].img = Evt(n).img]
    /\ Send(n, Evt(n).src, Result("Ack", n, FALSE, "TooLarge"))
    /\ UNCHANGED <<hst, nv, upd, app, resets>>

\* ... the slot cannot be opened, or not erased
RefuseFlash(n) ==
    /\ Receives(n, "Idle") /\ Evt(n).ev = "Start"
    /\ Wanted(n, Evt(n).img) /\ FALSE \in IoOK
    /\ Fail(n, "FlashAccess")
    /\ \E t \in StoppedOrNot(cli[n].tmr) :
          cli' = [cli EXCEPT ![n].host = Evt(n).src, ![n].img = Evt(n).img,
                             ![n].tmr = t]
    /\ Send(n, Evt(n).src, Result("Ack", n, FALSE, "FlashAccess"))
    /\ UNCHANGED <<hst, nv, upd, app, resets>>

\* ... accepted: the slot is erased and the noinit record, magic number
\* included, is written before the first chunk is asked for.
AcceptRequest(n) ==
    /\ Receives(n, "Idle") /\ Evt(n).ev = "Start"
    /\ Wanted(n, Evt(n).img) /\ Fits(Evt(n).img)
    /\ GoTo(n, "ClientReceiving")
    /\ cli' = [cli EXCEPT ![n].host = Evt(n).src, ![n].img = Evt(n).img]
    /\ nv'  = [nv EXCEPT ![n].flash = BlankSlot,
                         ![n].info = [magic |-> TRUE, host |-> Evt(n).src,
                                      sha |-> Evt(n).img.sha]]
    /\ Send(n, Evt(n).src, Result("Ack", n, TRUE, "None"))
    /\ UNCHANGED <<hst, upd, app, resets>>

-----------------------------------------------------------------------------
(* Client Rx *)

\* Mutation of ReceivingEntry: the chunk timer is not started.
ReceivingEntryUntimed(n) ==
    /\ Enters(n, "ClientReceiving")
    /\ Entered(n, "ClientReceiving", NoState, core[n].err)
    /\ cli' = [cli EXCEPT ![n] = FromScratch(@, FALSE)]
    /\ Send(n, Host(n), ChunkReq(n, 0))
    /\ UNCHANGED <<hst, nv, upd, app, resets>>

\* s_client_receiving_entry: a timer that cannot be started is only logged.
ReceivingEntry(n) ==
    /\ Enters(n, "ClientReceiving")
    /\ Entered(n, "ClientReceiving", NoState, core[n].err)
    /\ \E t \in TimerOK : cli' = [cli EXCEPT ![n] = FromScratch(@, t)]
    /\ Send(n, Host(n), ChunkReq(n, 0))
    /\ UNCHANGED <<hst, nv, upd, app, resets>>

\* The timer could not be stopped before the event is looked at, or not be
\* started by a heartbeat: give up the update.
ReceivingTimerFails(n) ==
    /\ Receives(n, "ClientReceiving")
    /\ Evt(n).ev \in {"Chunk", "Start", "Heartbeat"}
    /\ FALSE \in TimerOK
    /\ Fail(n, "Aborted")
    /\ \E t \in StoppedOrNot(cli[n].tmr) : cli' = [cli EXCEPT ![n].tmr = t]
    /\ UNCHANGED <<hst, nv, net, upd, app, resets>>

\* A chunk, not the last: any payload counts as the chunk that was asked for.
\* A payload that could not be stored ends in Error, with the next chunk
\* requested and the timer running all the same.
ReceiveChunk(n) ==
    /\ Receives(n, "ClientReceiving") /\ Evt(n).ev = "Chunk"
    /\ cli[n].chunk + 1 < NumChunks(cli[n].img)
    /\ \E wrote \in IoOK, t \in TimerOK :
          LET c == cli[n]
              p == Payload(c.page, c.off, nv[n].flash, Evt(n).data, wrote)
          IN  /\ cli' = [cli EXCEPT ![n] =
                    [c EXCEPT !.rcvd = @ \o Evt(n).data, !.page = p.page,
                              !.off = p.off, !.chunk = @ + 1, !.retry = 0,
                              !.tmr = t]]
              /\ nv' = [nv EXCEPT ![n].flash = p.slot]
              /\ core' = IF p.ok /\ t THEN After(n, NoState, 0, core[n].err)
                         ELSE After(n, "Error", IF p.ok \/ t THEN 1 ELSE 2,
                                    IF t THEN "BmFrame" ELSE "Aborted")
    /\ Send(n, Host(n), ChunkReq(n, cli[n].chunk + 1))
    /\ UNCHANGED <<hst, upd, app, resets>>

\* The last chunk: the page buffer is flushed, and a clean flush asks for
\* Validating even if storing the chunk asked for Error just before.
ReceiveLastChunk(n) ==
    /\ Receives(n, "ClientReceiving") /\ Evt(n).ev = "Chunk"
    /\ cli[n].chunk + 1 >= NumChunks(cli[n].img)
    /\ \E wrote \in IoOK, flushed \in IoOK :
          LET c == cli[n]
              p == Payload(c.page, c.off, nv[n].flash, Evt(n).data, wrote)
              f == Flush(p, flushed)
          IN  /\ cli' = [cli EXCEPT ![n] =
                    [c EXCEPT !.rcvd = @ \o Evt(n).data, !.page = p.page,
                              !.off = f.off, !.chunk = @ + 1, !.retry = 0,
                              !.tmr = FALSE]]
              /\ nv' = [nv EXCEPT ![n].flash = f.slot]
              /\ core' = After(n, IF f.ok THEN "ClientValidating" ELSE "Error",
                               IF p.ok THEN 1 ELSE 2,
                               IF p.ok /\ f.ok THEN core[n].err ELSE "BmFrame")
    /\ UNCHANGED <<hst, net, upd, app, resets>>

\* The chunk timer's event: ask again, a bounded number of times.
ReceivingTimeout(n) ==
    /\ Receives(n, "ClientReceiving") /\ Evt(n).ev = "ChunkTimeout"
    /\ \/ /\ cli[n].retry + 1 >= MaxChunkRetries
          /\ Fail(n, "Timeout")
          /\ \E t \in StoppedOrNot(cli[n].tmr) :
                cli' = [cli EXCEPT ![n].retry = @ + 1, ![n].tmr = t]
          /\ Send(n, Host(n), Result("Abort", n, FALSE, "Aborted"))
       \/ /\ cli[n].retry + 1 < MaxChunkRetries
          /\ \E t \in TimerOK :
                /\ cli' = [cli EXCEPT ![n].retry = @ + 1, ![n].tmr = t]
                /\ IF t THEN Stay(n) ELSE Fail(n, "Aborted")
          /\ Send(n, Host(n), ChunkReq(n, cli[n].chunk))
    /\ UNCHANGED <<hst, nv, upd, app, resets>>

\* A second request: the host is taken to have missed the acknowledgement.
\* The image named in the request is not looked at, the slot not erased.
Resync(n) ==
    /\ Receives(n, "ClientReceiving") /\ Evt(n).ev = "Start"
    /\ \E t \in TimerOK :
          /\ cli' = [cli EXCEPT ![n] = FromScratch(@, t)]
          /\ IF t THEN Stay(n) ELSE Fail(n, "Aborted")
    /\ Send2(n, Host(n), Result("Ack", n, TRUE, "None"), ChunkReq(n, 0))
    /\ UNCHANGED <<hst, nv, upd, app, resets>>

HostIsAlive(n) ==
    /\ Receives(n, "ClientReceiving") /\ Evt(n).ev = "Heartbeat"
    /\ Stay(n)
    /\ cli' = [cli EXCEPT ![n].tmr = TRUE]
    /\ UNCHANGED <<hst, nv, net, upd, app, resets>>

ReceivingIgnores(n) ==
    /\ Receives(n, "ClientReceiving")
    /\ Evt(n).ev \notin {"Chunk", "ChunkTimeout", "Start", "Heartbeat"}
    /\ Stay(n)
    /\ UNCHANGED <<cli, hst, nv, net, upd, app, resets>>

-----------------------------------------------------------------------------
(* Client Validating, Reboot Request, Activating *)

\* Mutations of ImageComplete, CrcMatches and RightVersion: no check.
Unchecked(n) == TRUE

\* s_client_validating_entry
ImageComplete(n) == cli[n].off = cli[n].img.size
CrcMatches(n)    == cli[n].rcvd = Content(cli[n].img)

ValidatingEntry(n) ==
    /\ Enters(n, "ClientValidating")
    /\ \/ /\ ImageComplete(n) /\ CrcMatches(n)
          /\ Entered(n, "ClientValidating", "ClientRebootReq", core[n].err)
          /\ UNCHANGED <<cli, net>>
       \/ LET e == IF ImageComplete(n) THEN "BadCrc" ELSE "MismatchLen"
          IN  /\ ~(ImageComplete(n) /\ CrcMatches(n))
              /\ Entered(n, "ClientValidating", "Error", e)
              /\ \E t \in StoppedOrNot(cli[n].tmr) :
                    cli' = [cli EXCEPT ![n].tmr = t]
              /\ Send(n, Host(n), Result("End", n, FALSE, e))
    /\ UNCHANGED <<hst, nv, upd, app, resets>>

\* s_client_reboot_req_entry
RebootReqEntry(n) ==
    /\ Enters(n, "ClientRebootReq")
    /\ Entered(n, "ClientRebootReq", NoState, core[n].err)
    /\ \E t \in TimerOK : cli' = [cli EXCEPT ![n].retry = 0, ![n].tmr = t]
    /\ Send(n, Host(n), Plain("RebootReq", n))
    /\ UNCHANGED <<hst, nv, upd, app, resets>>

\* s_client_reboot_req_run
RebootReqRun(n) ==
    /\ Receives(n, "ClientRebootReq")
    /\ \/ /\ Evt(n).ev = "Reboot"
          /\ GoTo(n, "ClientActivating")
          /\ \E t \in StoppedOrNot(cli[n].tmr) : cli' = [cli EXCEPT ![n].tmr = t]
          /\ UNCHANGED net
       \/ /\ Evt(n).ev = "ChunkTimeout"
          /\ cli[n].retry + 1 >= MaxChunkRetries
          /\ Fail(n, "Timeout")
          /\ \E t \in StoppedOrNot(cli[n].tmr) :
                cli' = [cli EXCEPT ![n].retry = @ + 1, ![n].tmr = t]
          /\ Send(n, Host(n), Result("Abort", n, FALSE, "Aborted"))
       \/ /\ Evt(n).ev = "ChunkTimeout"
          /\ cli[n].retry + 1 < MaxChunkRetries
          /\ Stay(n)
          /\ \E t \in TimerOK :
                cli' = [cli EXCEPT ![n].retry = @ + 1, ![n].tmr = t]
          /\ Send(n, Host(n), Plain("RebootReq", n))
       \/ /\ Evt(n).ev \notin {"Reboot", "ChunkTimeout"}
          /\ Stay(n)
          /\ UNCHANGED <<cli, net>>
    /\ UNCHANGED <<hst, nv, upd, app, resets>>

\* s_client_activating_entry: swap the slots on trial and reset.
ActivatingEntry(n) ==
    /\ Enters(n, "ClientActivating")
    /\ RamReset(n)
    /\ nv' = [nv EXCEPT ![n] = Swapped(@)]
    /\ UNCHANGED <<net, upd, resets>>

-----------------------------------------------------------------------------
(* Client Reboot Done: first states after the reboot *)

RightVersion(n) == nv[n].fw.sha = nv[n].info.sha
AskConfirmation(n) == Send(n, nv[n].info.host, Plain("BootComplete", n))

\* s_client_update_done_entry: the image asked for is running and the host is
\* asked to confirm it.
UpdateDoneEntry(n) ==
    /\ Enters(n, "ClientRebootDone")
    /\ RightVersion(n) /\ nv[n].confirmCfg
    /\ Entered(n, "ClientRebootDone", NoState, core[n].err)
    /\ \E t \in TimerOK : cli' = [cli EXCEPT ![n].host = nv[n].info.host,
                                             ![n].retry = 0, ![n].tmr = t]
    /\ AskConfirmation(n)
    /\ UNCHANGED <<hst, nv, upd, app, resets>>

\* ... confirmation is switched off: confirm, switch it on again, save the
\* configuration and reset.  If it cannot be saved there is no reset and the
\* node waits in this state, with no timer.
ForcedConfirm(n) ==
    /\ Enters(n, "ClientRebootDone")
    /\ RightVersion(n) /\ ~nv[n].confirmCfg
    /\ \E saved \in IoOK :
          /\ nv' = [nv EXCEPT ![n].info = NoInfo, ![n].confirmed = TRUE,
                              ![n].confirmCfg = saved]
          /\ \/ saved /\ RamReset(n)
             \/ /\ ~saved
                /\ Entered(n, "ClientRebootDone", NoState, core[n].err)
                /\ cli' = [cli EXCEPT ![n].host = nv[n].info.host,
                                      ![n].retry = 0]
                /\ UNCHANGED <<hst, app>>
    /\ UNCHANGED <<net, upd, resets>>

\* ... another image is running.
WrongVersion(n) ==
    /\ Enters(n, "ClientRebootDone")
    /\ ~RightVersion(n)
    /\ RamReset(n)
    /\ nv' = [nv EXCEPT ![n] = [AfterReset(@) EXCEPT !.info = NoInfo]]
    /\ Send(n, nv[n].info.host, Result("End", n, FALSE, "WrongVer"))
    /\ UNCHANGED <<upd, resets>>

\* Mutation of Confirmed: bm_dfu_client_set_confirmed is forgotten.
ConfirmedNot(n) ==
    /\ Receives(n, "ClientRebootDone") /\ Evt(n).ev = "End"
    /\ GoTo(n, "Idle")
    /\ \E t \in StoppedOrNot(cli[n].tmr) : cli' = [cli EXCEPT ![n].tmr = t]
    /\ Send(n, nv[n].info.host, Result("End", n, TRUE, "None"))
    /\ UNCHANGED <<hst, nv, upd, app, resets>>

\* s_client_update_done_run: the host confirmed.
Confirmed(n) ==
    /\ Receives(n, "ClientRebootDone") /\ Evt(n).ev = "End"
    /\ GoTo(n, "Idle")
    /\ nv' = [nv EXCEPT ![n].confirmed = TRUE]
    /\ \E t \in StoppedOrNot(cli[n].tmr) : cli' = [cli EXCEPT ![n].tmr = t]
    /\ Send(n, nv[n].info.host, Result("End", n, TRUE, "None"))
    /\ UNCHANGED <<hst, upd, app, resets>>

\* ... or did not answer: ask again, in the end fail the update and reset.
ConfirmTimeout(n) ==
    /\ Receives(n, "ClientRebootDone") /\ Evt(n).ev = "ChunkTimeout"
    /\ cli[n].retry + 1 < MaxChunkRetries
    /\ Stay(n)
    /\ \E t \in TimerOK : cli' = [cli EXCEPT ![n].retry = @ + 1, ![n].tmr = t]
    /\ AskConfirmation(n)
    /\ UNCHANGED <<hst, nv, upd, app, resets>>

ConfirmAborted(n) ==
    /\ Receives(n, "ClientRebootDone") /\ Evt(n).ev = "ChunkTimeout"
    /\ cli[n].retry + 1 >= MaxChunkRetries
    /\ RamReset(n)
    /\ nv' = [nv EXCEPT ![n] = [AfterReset(@) EXCEPT !.info = NoInfo]]
    /\ Send(n, Host(n), Result("Abort", n, FALSE, "ConfirmationAbort"))
    /\ UNCHANGED <<upd, resets>>

UpdateDoneIgnores(n) ==
    /\ Receives(n, "ClientRebootDone")
    /\ Evt(n).ev \notin {"End", "ChunkTimeout"}
    /\ Stay(n)
    /\ UNCHANGED <<cli, hst, nv, net, upd, app, resets>>

-----------------------------------------------------------------------------
\* chunk_timer_handler: one shot, and its event is lost if the queue is full.
ChunkTimer(n) ==
    /\ cli[n].tmr
    /\ cli'  = [cli EXCEPT ![n].tmr = FALSE]
    /\ TimerEvent(n, "ChunkTimeout")
    /\ UNCHANGED <<hst, nv, net, upd, app, resets>>

\* The steps of the DFU thread in, or into, the client states.
ClientThread(n) ==
    \/ RefuseSameVersion(n) \/ RefuseTooLarge(n) \/ RefuseFlash(n)
    \/ AcceptRequest(n)
    \/ ReceivingEntry(n) \/ ReceivingTimerFails(n) \/ ReceiveChunk(n)
    \/ ReceiveLastChunk(n) \/ ReceivingTimeout(n) \/ Resync(n)
    \/ HostIsAlive(n) \/ ReceivingIgnores(n)
    \/ ValidatingEntry(n) \/ RebootReqEntry(n) \/ RebootReqRun(n)
    \/ ActivatingEntry(n)
    \/ UpdateDoneEntry(n) \/ ForcedConfirm(n) \/ WrongVersion(n)
    \/ Confirmed(n) \/ ConfirmTimeout(n) \/ ConfirmAborted(n)
    \/ UpdateDoneIgnores(n)

=============================================================================
