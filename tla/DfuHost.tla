------------------------------ MODULE DfuHost ------------------------------
(***************************************************************************)
(* The host states of the DFU state machine (bcmp/dfu_host.c): ask a       *)
(* client to take an image, serve its chunk requests, its reboot request   *)
(* and its confirmation request, and tell the application how it ended.    *)
(***************************************************************************)
EXTENDS DfuCore

Client(n) == hst[n].client

\* bm_dfu_host_transition_to_error stops the update, heartbeat and ack timers
\* in this order and gives up at the first that fails.
StopTimers(h) ==
    LET update == [h EXCEPT !.updTmr = FALSE]
        both   == [update EXCEPT !.hbTmr = FALSE]
        all    == [both EXCEPT !.ackTmr = FALSE]
    IN  IF TimersMayFail THEN {h, update, both, all} ELSE {all}

\* bm_dfu_host_start_update_timer: stop, change the period, start.
StartUpdateTimer(h) ==
    {[h EXCEPT !.updTmr = t] :
        t \in IF TimersMayFail THEN {h.updTmr, FALSE, TRUE} ELSE {TRUE}}

HostFails(n, e) ==
    /\ Fail(n, e)
    /\ \E h \in StopTimers(hst[n]) : hst' = [hst EXCEPT ![n] = h]

-----------------------------------------------------------------------------
(* Idle: the application's request *)

\* Mutation of BeginHostRun: bm_dfu_host_set_params is forgotten.
BeginHostKeepsParams(n) ==
    /\ Receives(n, "Idle") /\ Evt(n).ev = "BeginHost"
    /\ core' = [After(n, "HostReqUpdate", 1, core[n].err)
                   EXCEPT ![n].cb = Evt(n).upd, ![n].peer = Evt(n).client]
    /\ hst' = [hst EXCEPT ![n].cb = IF @ = NoUpdate THEN Evt(n).upd ELSE @]
    /\ UNCHANGED <<cli, nv, net, upd, app, resets>>

\* s_idle_run, DfuEventBeginHost: remember callback and client.
BeginHostRun(n) ==
    /\ Receives(n, "Idle") /\ Evt(n).ev = "BeginHost"
    /\ core' = [After(n, "HostReqUpdate", 1, core[n].err)
                   EXCEPT ![n].cb = Evt(n).upd, ![n].peer = Evt(n).client]
    /\ hst' = [hst EXCEPT ![n].cb = Evt(n).upd]
    /\ UNCHANGED <<cli, nv, net, upd, app, resets>>

\* s_idle_run, any event that is neither of the two requests.
IdleIgnores(n) ==
    /\ Receives(n, "Idle")
    /\ Evt(n).ev \notin {"BeginHost", "Start"}
    /\ Stay(n)
    /\ UNCHANGED <<cli, hst, nv, net, upd, app, resets>>

-----------------------------------------------------------------------------
(* Host Request Update *)

\* s_host_req_update_entry.  The data queue is made only for an external
\* image source, as dfu_ctx.internal stands now.
ReqUpdateEntry(n) ==
    /\ Enters(n, "HostReqUpdate")
    /\ Entered(n, "HostReqUpdate", NoState, core[n].err)
    /\ \E t \in TimerOK :
          hst' = [hst EXCEPT ![n].client = core[n].cur.client,
                             ![n].img = core[n].cur.img,
                             ![n].rem = core[n].cur.img.size,
                             ![n].retry = 0,
                             ![n].dataq = @ \/ ~core[n].internal,
                             ![n].ackTmr = @ \/ t]
    /\ Send(n, core[n].cur.client, Start(n, core[n].cur.img))
    /\ UNCHANGED <<cli, nv, upd, app, resets>>

\* s_host_req_update_run, DfuEventAckReceived
ReqUpdateAck(n) ==
    /\ Receives(n, "HostReqUpdate") /\ Evt(n).ev = "Ack"
    /\ \/ /\ FALSE \in TimerOK
          /\ HostFails(n, "Aborted")
       \/ /\ Evt(n).ok
          /\ GoTo(n, "HostUpdate")
          /\ hst' = [hst EXCEPT ![n].ackTmr = FALSE]
       \/ /\ ~Evt(n).ok
          /\ Fail(n, Evt(n).err)
          /\ \E h \in StopTimers([hst[n] EXCEPT !.ackTmr = FALSE]) :
                hst' = [hst EXCEPT ![n] = h]
    /\ UNCHANGED <<cli, nv, net, upd, app, resets>>

\* ... DfuEventAckTimeout: send the request again, a bounded number of times.
ReqUpdateTimeout(n) ==
    /\ Receives(n, "HostReqUpdate") /\ Evt(n).ev = "AckTimeout"
    /\ LET h == [hst[n] EXCEPT !.retry = @ + 1]
       IN  \/ /\ h.retry >= MaxAckRetries
              /\ Fail(n, "Timeout")
              /\ \E s \in StopTimers(h) : hst' = [hst EXCEPT ![n] = s]
              /\ UNCHANGED net
           \/ /\ h.retry < MaxAckRetries
              /\ Send(n, Client(n), Start(n, h.img))
              /\ \/ /\ Stay(n)
                    /\ hst' = [hst EXCEPT ![n] = [h EXCEPT !.ackTmr = TRUE]]
                 \/ /\ FALSE \in TimerOK
                    /\ Fail(n, "Aborted")
                    /\ \E s \in StopTimers(h) : hst' = [hst EXCEPT ![n] = s]
    /\ UNCHANGED <<cli, nv, upd, app, resets>>

\* Mutation of HostAborted: the application is told at once, and again by the
\* error state.
HostAbortedReports(n) ==
    /\ \E s \in HostState : Receives(n, s)
    /\ Evt(n).ev = "Abort"
    /\ HostFails(n, IF Evt(n).src = NoNode THEN "Aborted" ELSE Evt(n).err)
    /\ Report(hst[n].cb, FALSE)
    /\ UNCHANGED <<cli, nv, net, app, resets>>

\* DfuEventAbort, in either host state: from the client with its error code,
\* or from the update timer with no buffer.
HostAborted(n) ==
    /\ \E s \in HostState : Receives(n, s)
    /\ Evt(n).ev = "Abort"
    /\ HostFails(n, IF Evt(n).src = NoNode THEN "Aborted" ELSE Evt(n).err)
    /\ UNCHANGED <<cli, nv, net, upd, app, resets>>

ReqUpdateIgnores(n) ==
    /\ Receives(n, "HostReqUpdate")
    /\ Evt(n).ev \notin {"Ack", "AckTimeout", "Abort"}
    /\ Stay(n)
    /\ UNCHANGED <<cli, hst, nv, net, upd, app, resets>>

-----------------------------------------------------------------------------
(* Host Update *)

\* Mutation of HostUpdateEntry: the update timer is not started.
HostUpdateEntryUntimed(n) ==
    /\ Enters(n, "HostUpdate")
    /\ Entered(n, "HostUpdate", NoState, core[n].err)
    /\ UNCHANGED <<cli, hst, nv, net, upd, app, resets>>

\* s_host_update_entry: a timer that cannot be started is only logged.
HostUpdateEntry(n) ==
    /\ Enters(n, "HostUpdate")
    /\ Entered(n, "HostUpdate", NoState, core[n].err)
    /\ \E h \in StartUpdateTimer(hst[n]) : hst' = [hst EXCEPT ![n] = h]
    /\ UNCHANGED <<cli, nv, net, upd, app, resets>>

Smaller(a, b) == IF a < b THEN a ELSE b
PayloadLen(h) == Smaller(h.rem, ChunkSize)

\* The bytes that come next: the chunk number of the request is not used.
NextBytes(h, len) ==
    SubSeq(Content(h.img), h.img.size - h.rem + 1, h.img.size - h.rem + len)
\* A frame of the full payload length whose tail was never filled in.
Padded(s, len) == [k \in 1..len |-> IF k <= Len(s) THEN s[k] ELSE Junk]

\* How many bytes the chunk source may return: all of them from flash, any
\* number from the stream buffer.
ReadLen(n, len) == IF core[n].internal \/ len = 0 THEN {len} ELSE 1..len
CanRead(n) == core[n].internal \/ hst[n].dataq

\* s_host_update_run, DfuEventChunkRequest: bm_dfu_host_send_chunk between
\* starting and stopping the heartbeat timer, whose handler may send a
\* heartbeat while the source is being read.
ServeChunk(n) ==
    /\ Receives(n, "HostUpdate") /\ Evt(n).ev = "ChunkReq"
    /\ CanRead(n)
    /\ LET h == hst[n]
           len == PayloadLen(h)
       IN  \E got \in ReadLen(n, len), beat \in Beats, stopped \in TimerOK :
              LET m == Chunk(n, Padded(NextBytes(h, got), len))
                  g == [h EXCEPT !.rem = @ - got, !.hbTmr = ~stopped]
              IN  /\ IF beat THEN Send2(n, Client(n), Plain("Heartbeat", n), m)
                             ELSE Send(n, Client(n), m)
                  /\ IF stopped
                     THEN Stay(n) /\ hst' = [hst EXCEPT ![n] = g]
                     ELSE /\ Fail(n, "Aborted")
                          /\ \E s \in StopTimers(g) : hst' = [hst EXCEPT ![n] = s]
    /\ UNCHANGED <<cli, nv, upd, app, resets>>

\* ... the chunk could not be read (or no data queue exists), or not be sent.
\* Stopping the heartbeat timer afterwards may fail too and then overrides the
\* error.
ServeChunkFails(n) ==
    /\ Receives(n, "HostUpdate") /\ Evt(n).ev = "ChunkReq"
    /\ FALSE \in IoOK \/ ~CanRead(n)
    /\ \E e \in (IF CanRead(n) THEN {"FlashAccess", "ImgChunkAccess"}
                             ELSE {"FlashAccess"}),
          s \in StopTimers([hst[n] EXCEPT !.hbTmr = TRUE]) :
          \/ /\ Fail(n, e)
             /\ hst' = [hst EXCEPT ![n] = [s EXCEPT !.hbTmr = FALSE]]
          \/ /\ FALSE \in TimerOK
             /\ core' = After(n, "Error", 2, "Aborted")
             /\ \E t \in StopTimers(s) : hst' = [hst EXCEPT ![n] = t]
    /\ UNCHANGED <<cli, nv, net, upd, app, resets>>

\* ... no memory for the frame: nothing is sent and nobody is told.
ServeNoMemory(n) ==
    /\ Receives(n, "HostUpdate") /\ Evt(n).ev = "ChunkReq"
    /\ FALSE \in IoOK
    /\ Stay(n)
    /\ hst' = [hst EXCEPT ![n].hbTmr = FALSE]
    /\ UNCHANGED <<cli, nv, net, upd, app, resets>>

\* ... the heartbeat timer could not be started, or not be stopped after a
\* frame there was no memory for.
ServeTimerFails(n) ==
    /\ Receives(n, "HostUpdate") /\ Evt(n).ev = "ChunkReq"
    /\ FALSE \in TimerOK
    /\ HostFails(n, "Aborted")
    /\ UNCHANGED <<cli, nv, net, upd, app, resets>>

\* ... DfuEventRebootRequest
AllowReboot(n) ==
    /\ Receives(n, "HostUpdate") /\ Evt(n).ev = "RebootReq"
    /\ Stay(n)
    /\ Send(n, Client(n), Plain("Reboot", n))
    /\ UNCHANGED <<cli, hst, nv, upd, app, resets>>

\* Mutation of ConfirmBoot: the update counts as done when the client asks for
\* confirmation.
ConfirmBootEnds(n) ==
    /\ Receives(n, "HostUpdate") /\ Evt(n).ev = "BootComplete"
    /\ GoTo(n, "Idle")
    /\ Report(hst[n].cb, TRUE)
    /\ Send(n, Client(n), Result("End", n, TRUE, "None"))
    /\ UNCHANGED <<cli, hst, nv, app, resets>>

\* ... DfuEventBootComplete
ConfirmBoot(n) ==
    /\ Receives(n, "HostUpdate") /\ Evt(n).ev = "BootComplete"
    /\ Stay(n)
    /\ Send(n, Client(n), Result("End", n, TRUE, "None"))
    /\ UNCHANGED <<cli, hst, nv, upd, app, resets>>

\* ... DfuEventUpdateEnd: the client's verdict goes to the application.
UpdateEnds(n) ==
    /\ Receives(n, "HostUpdate") /\ Evt(n).ev = "End"
    /\ \/ /\ GoTo(n, "Idle")
          /\ hst' = [hst EXCEPT ![n].updTmr = FALSE]
          /\ Report(hst[n].cb, Evt(n).ok)
       \/ /\ FALSE \in TimerOK
          /\ HostFails(n, "Aborted")
          /\ UNCHANGED upd
    /\ UNCHANGED <<cli, nv, net, app, resets>>

HostUpdateIgnores(n) ==
    /\ Receives(n, "HostUpdate")
    /\ Evt(n).ev \notin {"ChunkReq", "RebootReq", "BootComplete", "End", "Abort"}
    /\ Stay(n)
    /\ UNCHANGED <<cli, hst, nv, net, upd, app, resets>>

-----------------------------------------------------------------------------
(* Timers: one shot, except the heartbeat *)

AckTimer(n) ==
    /\ hst[n].ackTmr
    /\ hst'  = [hst EXCEPT ![n].ackTmr = FALSE]
    /\ TimerEvent(n, "AckTimeout")
    /\ UNCHANGED <<cli, nv, net, upd, app, resets>>

UpdateTimer(n) ==
    /\ hst[n].updTmr
    /\ hst'  = [hst EXCEPT ![n].updTmr = FALSE]
    /\ TimerEvent(n, "Abort")
    /\ UNCHANGED <<cli, nv, net, upd, app, resets>>

HeartbeatTimer(n) ==
    /\ hst[n].hbTmr
    /\ Send(n, Client(n), Plain("Heartbeat", n))
    /\ UNCHANGED <<core, cli, hst, nv, upd, app, resets>>

\* The steps of the DFU thread in, or into, the host states.
HostThread(n) ==
    \/ BeginHostRun(n) \/ IdleIgnores(n)
    \/ ReqUpdateEntry(n) \/ ReqUpdateAck(n) \/ ReqUpdateTimeout(n)
    \/ HostAborted(n) \/ ReqUpdateIgnores(n)
    \/ HostUpdateEntry(n) \/ ServeChunk(n) \/ ServeChunkFails(n)
    \/ ServeNoMemory(n) \/ ServeTimerFails(n) \/ AllowReboot(n) \/ ConfirmBoot(n)
    \/ UpdateEnds(n) \/ HostUpdateIgnores(n)

=============================================================================
