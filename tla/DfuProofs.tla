----------------------------- MODULE DfuProofs -----------------------------
(***************************************************************************)
(* Theorems about Dfu for every number of nodes, images, chunks, retries   *)
(* and resets.  First type correctness; then what the client's slot holds, *)
(* on flash that takes a second write without an erase in between (resync, *)
(* s_client_receiving_run, rewrites the slot it has not erased); then the  *)
(* trial of a new image; then how often the application is told.           *)
(***************************************************************************)
EXTENDS Dfu, SequenceTheorems, FiniteSetTheorems, TLAPS

USE DEF NoState, NoUpdate

-----------------------------------------------------------------------------
(* The event queue *)

LEMMA NopTyped == Nop \in Event /\ Nop # NoEvent
  BY DEF Nop, NoEvent, Local, Event, LocalEvent

\* bm_queue_send keeps a queue within its length.
LEMMA PushTyped ==
  ASSUME NEW q \in Queue, NEW e \in Event
  PROVE  Push(q, e) \in Queue
  <1>1. Append(q, e) \in Seq(Event) /\ Len(Append(q, e)) = Len(q) + 1
    BY AppendProperties DEF Queue
  <1>2. Len(q) \in Nat
    BY LenProperties DEF Queue
  <1> QED BY <1>1, <1>2, CoreAssumption DEF Push, Queue

LEMMA PopTyped ==
  ASSUME NEW q \in Queue, q # <<>>
  PROVE  Head(q) \in Event /\ Tail(q) \in Queue
  <1>1. q \in Seq(Event) /\ Len(q) \in Nat /\ Len(q) <= QueueLen
    BY LenProperties DEF Queue
  <1>2. Head(q) \in Event /\ Tail(q) \in Seq(Event) /\ Len(Tail(q)) = Len(q) - 1
    BY <1>1, HeadTailProperties
  <1> QED BY <1>1, <1>2, CoreAssumption DEF Queue

LEMMA PushNopsTyped ==
  ASSUME NEW q \in Queue, NEW k \in 0..2
  PROVE  PushNops(q, k) \in Queue
  BY PushTyped, NopTyped DEF PushNops

LEMMA MessageIsEvent == Message \subseteq Event
  BY DEF Event

LEMMA LocalTyped ==
  ASSUME NEW t \in {"None", "InitSuccess", "ChunkTimeout", "AckTimeout", "Abort"}
  PROVE  Local(t) \in Event
  BY DEF Event, LocalEvent

\* What the fields of an event are, by its name.
LEMMA EventFields ==
  ASSUME NEW e \in Event
  PROVE  /\ e # NoEvent
         /\ e.ev = "Start" => e.src \in Node /\ e.img \in Image
         /\ e.ev = "Chunk" => e.src \in Node /\ e.data \in Seq(Unit)
         /\ e.ev \in {"Ack", "End"} => e.err \in Err /\ e.ok \in BOOLEAN
         /\ e.ev = "Abort" /\ e.src # NoNode => e.err \in Err
         /\ e.ev = "BeginHost" =>
               e.upd \in Update /\ e.img \in Image /\ e.client \in Node
  <1>1. CASE e \in LocalEvent
    BY <1>1 DEF LocalEvent, Local, NoEvent
  <1>2. CASE e \in BeginEvent
    BY <1>2 DEF BeginEvent, NoEvent, Local
  <1>3. CASE e \in Message
    BY <1>3 DEF Message, NoEvent, Local
  <1> QED BY <1>1, <1>2, <1>3 DEF Event

-----------------------------------------------------------------------------
(* What the shared operators keep typed *)

LEMMA CoreFields ==
  ASSUME TypeOK, NEW n \in Node
  PROVE  /\ core[n] \in CoreType
         /\ core[n].st \in State /\ core[n].pend \in State \cup {NoState}
         /\ core[n].q \in Queue /\ core[n].cur \in Event \cup {NoEvent}
         /\ core[n].err \in Err /\ core[n].cb \in Update \cup {NoUpdate}
         /\ core[n].peer \in Node \cup {NoNode} /\ core[n].internal \in BOOLEAN
  BY DEF TypeOK, CoreType

LEMMA EvtTyped ==
  ASSUME TypeOK, NEW n \in Node, core[n].q # <<>>
  PROVE  Evt(n) \in Event /\ Tail(core[n].q) \in Queue
  BY CoreFields, PopTyped DEF Evt

\* One node's context is replaced.
LEMMA CoreUpdated ==
  ASSUME TypeInv, NEW n \in Node, NEW r \in CoreType,
         r.pend = "HostReqUpdate" => r.cur \in BeginEvent
  PROVE  [core EXCEPT ![n] = r] \in [Node -> CoreType]
         /\ RequestKept([core EXCEPT ![n] = r])
  BY DEF TypeInv, TypeOK, RequestKept

LEMMA AfterTyped ==
  ASSUME TypeInv, NEW n \in Node, core[n].q # <<>>, core[n].cur = NoEvent,
         NEW s \in State \cup {NoState}, NEW k \in 0..2, NEW e \in Err,
         s = "HostReqUpdate" => Evt(n) \in BeginEvent
  PROVE  After(n, s, k, e) \in [Node -> CoreType]
         /\ RequestKept(After(n, s, k, e))
  <1> DEFINE p == IF s = NoState THEN core[n].pend ELSE s
             q == PushNops(Tail(core[n].q), k)
             c == IF p = NoState THEN NoEvent ELSE Evt(n)
             r == [core[n] EXCEPT !.q = q, !.pend = p, !.err = e, !.cur = c]
  <1>0. TypeOK
    BY DEF TypeInv
  <1>1. q \in Queue
    BY <1>0, EvtTyped, PushNopsTyped
  <1>2. p \in State \cup {NoState} /\ c \in Event \cup {NoEvent}
    BY <1>0, CoreFields, EvtTyped
  <1>3. After(n, s, k, e) = [core EXCEPT ![n] = r]
    BY <1>0, CoreFields DEF After, TypeOK, CoreType
  <1>4. p = "HostReqUpdate" => c \in BeginEvent
    BY DEF TypeInv, RequestKept, BeginEvent, NoEvent, Local
  <1>5. r \in CoreType /\ r.pend = p /\ r.cur = c
    <2> HIDE DEF p, q, c
    <2> QED BY <1>0, <1>1, <1>2, CoreFields DEF CoreType
  <1> HIDE DEF p, q, c, r
  <1> QED BY <1>3, <1>4, <1>5, CoreUpdated

LEMMA EnteredTyped ==
  ASSUME TypeInv, NEW n \in Node, NEW s \in State,
         NEW p \in State \cup {NoState}, NEW e \in Err, Entered(n, s, p, e),
         p # "HostReqUpdate"
  PROVE  core' \in [Node -> CoreType] /\ RequestKept(core')
  <1> DEFINE q == IF p = NoState THEN core[n].q ELSE Push(core[n].q, Nop)
             r == [core[n] EXCEPT !.st = s, !.pend = p, !.err = e, !.q = q,
                                  !.cur = NoEvent]
  <1>0. TypeOK
    BY DEF TypeInv
  <1>1. q \in Queue
    BY <1>0, CoreFields, PushTyped, NopTyped
  <1>2. core' = [core EXCEPT ![n] = r]
    BY <1>0, CoreFields DEF Entered, TypeOK, CoreType
  <1>3. r \in CoreType /\ r.pend = p
    <2> HIDE DEF q
    <2> QED BY <1>0, <1>1, CoreFields DEF CoreType
  <1> HIDE DEF q, r
  <1> QED BY <1>2, <1>3, CoreUpdated

\* A timer's handler, the BCMP thread or the application queues an event.
LEMMA QueueUpdated ==
  ASSUME TypeInv, NEW n \in Node, NEW q \in Queue
  PROVE  [core EXCEPT ![n].q = q] \in [Node -> CoreType]
         /\ RequestKept([core EXCEPT ![n].q = q])
  <1> DEFINE r == [core[n] EXCEPT !.q = q]
  <1>0. TypeOK
    BY DEF TypeInv
  <1>1. r \in CoreType /\ r.pend = core[n].pend /\ r.cur = core[n].cur
    BY <1>0, CoreFields DEF CoreType
  <1>2. [core EXCEPT ![n].q = q] = [core EXCEPT ![n] = r]
    BY <1>0, CoreFields DEF TypeOK, CoreType
  <1>3. r.pend = "HostReqUpdate" => r.cur \in BeginEvent
    BY <1>1 DEF TypeInv, RequestKept
  <1> HIDE DEF r
  <1> QED BY <1>1, <1>2, <1>3, CoreUpdated

LEMMA QueuedTyped ==
  ASSUME TypeInv, NEW n \in Node, NEW e \in Event
  PROVE  [core EXCEPT ![n].q = Push(@, e)] \in [Node -> CoreType]
         /\ RequestKept([core EXCEPT ![n].q = Push(@, e)])
  <1>0. TypeOK
    BY DEF TypeInv
  <1>1. Push(core[n].q, e) \in Queue
    BY <1>0, CoreFields, PushTyped
  <1> QED BY <1>1, QueueUpdated

\* A timer's event changes the queue of its node and what it missed.
LEMMA TimedCore ==
  ASSUME TypeInv, NEW n \in Node, NEW t, TimerEvent(n, t)
  PROVE  \E b \in BOOLEAN :
            core' = [core EXCEPT ![n] = [core[n] EXCEPT !.q = Push(core[n].q, Local(t)),
                                                        !.missed = b]]
  <1> DEFINE b == core[n].missed \/ (RecordsMissed /\ Len(core[n].q) = QueueLen)
             q == Push(core[n].q, Local(t))
  <1>0. core \in [Node -> CoreType] /\ core[n] \in CoreType
    BY DEF TypeInv, TypeOK
  <1>1. core' = [core EXCEPT ![n].q = q, ![n].missed = b]
    BY <1>0 DEF TimerEvent, CoreType
  <1>2. b \in BOOLEAN
    BY <1>0 DEF CoreType
  <1> HIDE DEF b, q
  <1>3. core' = [core EXCEPT ![n] = [core[n] EXCEPT !.q = q, !.missed = b]]
    BY <1>0, <1>1 DEF CoreType
  <1> QED BY <1>2, <1>3 DEF q

LEMMA TimedTyped ==
  ASSUME TypeInv, NEW n \in Node, NEW t \in {"ChunkTimeout", "AckTimeout", "Abort"},
         TimerEvent(n, t)
  PROVE  core' \in [Node -> CoreType] /\ RequestKept(core')
  <1> DEFINE q == Push(core[n].q, Local(t))
  <1>0. TypeOK
    BY DEF TypeInv
  <1>1. q \in Queue
    BY <1>0, CoreFields, LocalTyped, PushTyped
  <1>2. PICK b \in BOOLEAN :
            core' = [core EXCEPT ![n] = [core[n] EXCEPT !.q = q, !.missed = b]]
    BY TimedCore
  <1> HIDE DEF q
  <1> DEFINE r == [core[n] EXCEPT !.q = q, !.missed = b]
  <1>3. r \in CoreType /\ r.pend = core[n].pend /\ r.cur = core[n].cur
    BY <1>0, <1>1, CoreFields DEF CoreType
  <1>4. r.pend = "HostReqUpdate" => r.cur \in BeginEvent
    BY <1>3 DEF TypeInv, RequestKept
  <1> HIDE DEF r
  <1> QED BY <1>2, <1>3, <1>4, CoreUpdated DEF r

LEMMA AddToTyped ==
  ASSUME NEW l \in Seq(Message), NEW m \in Message
  PROVE  AddTo(l, m) \in Seq(Message)
  BY AppendProperties DEF AddTo

LEMMA SendTyped ==
  ASSUME TypeOK, NEW n \in Node, NEW d \in Node \cup {NoNode}, NEW m \in Message,
         Send(n, d, m)
  PROVE  net' \in [Node -> [Node -> Seq(Message)]]
  <1>1. CASE d = NoNode
    BY <1>1 DEF Send, TypeOK
  <1>2. CASE d \in Node
    <2>1. net[n] \in [Node -> Seq(Message)] /\ net[n][d] \in Seq(Message)
      BY <1>2 DEF TypeOK
    <2>2. AddTo(net[n][d], m) \in Seq(Message)
      BY <2>1, AddToTyped
    <2>3. net' = [net EXCEPT ![n] = [net[n] EXCEPT ![d] = AddTo(net[n][d], m)]]
      BY <1>2, CoreAssumption DEF Send, TypeOK
    <2> QED BY <2>1, <2>2, <2>3 DEF TypeOK
  <1> QED BY <1>1, <1>2

LEMMA Send2Typed ==
  ASSUME TypeOK, NEW n \in Node, NEW d \in Node \cup {NoNode},
         NEW m1 \in Message, NEW m2 \in Message, Send2(n, d, m1, m2)
  PROVE  net' \in [Node -> [Node -> Seq(Message)]]
  <1> DEFINE l == AddTo(AddTo(net[n][d], m1), m2)
  <1>1. net[n] \in [Node -> Seq(Message)]
        /\ (d \in Node => net[n][d] \in Seq(Message))
    BY DEF TypeOK
  <1>2. d \in Node => l \in Seq(Message)
    BY <1>1, AddToTyped
  <1>3. net' = [net EXCEPT ![n] = [net[n] EXCEPT ![d] = l]]
    BY DEF Send2, TypeOK
  <1> HIDE DEF l
  <1>4. [net[n] EXCEPT ![d] = l] \in [Node -> Seq(Message)]
    <2>1. CASE d \in Node
      BY <1>1, <1>2, <2>1
    <2>2. CASE d \notin Node
      BY <1>1, <2>2
    <2> QED BY <2>1, <2>2
  <1>5. net \in [Node -> [Node -> Seq(Message)]]
    BY DEF TypeOK
  <1> QED BY <1>3, <1>4, <1>5

LEMMA MessagesTyped ==
  ASSUME NEW n \in Node
  PROVE  /\ \A i \in Image : Start(n, i) \in Message
         /\ \A d \in Seq(Unit) : Chunk(n, d) \in Message
         /\ \A k \in Nat : ChunkReq(n, k) \in Message
         /\ \A t \in {"Ack", "End", "Abort"}, b \in BOOLEAN, e \in Err :
               Result(t, n, b, e) \in Message
         /\ \A t \in {"Heartbeat", "RebootReq", "Reboot", "BootComplete"} :
               Plain(t, n) \in Message
  BY DEF Start, Chunk, ChunkReq, Result, Plain, Message

LEMMA ReportTyped ==
  ASSUME TypeOK, NEW u \in Update \cup {NoUpdate}, NEW b \in BOOLEAN, Report(u, b)
  PROVE  upd' \in [Update -> UpdType]
  <1>1. CASE u = NoUpdate
    BY <1>1 DEF Report, TypeOK
  <1>2. CASE u \in Update /\ u # NoUpdate
    <2> DEFINE k == IF upd[u].cbs < 2 THEN upd[u].cbs + 1 ELSE upd[u].cbs
               r == [upd[u] EXCEPT !.cbs = k, !.ok = b]
    <2>1. upd[u] \in UpdType /\ upd[u].cbs \in 0..2
      BY <1>2 DEF TypeOK, UpdType
    <2>2. r \in UpdType
      <3>1. k \in 0..2
        BY <2>1
      <3> HIDE DEF k
      <3> QED BY <2>1, <3>1 DEF UpdType
    <2>3. upd' = [upd EXCEPT ![u] = r]
      BY <1>2, <2>1 DEF Report, TypeOK, UpdType
    <2> HIDE DEF r
    <2> QED BY <2>2, <2>3 DEF TypeOK
  <1> QED BY <1>1, <1>2

LEMMA RunTyped ==
  ASSUME TypeInv, NEW n \in Node, core[n].q # <<>>, core[n].cur = NoEvent
  PROVE  /\ Stay(n) => core' \in [Node -> CoreType] /\ RequestKept(core')
         /\ \A s \in State \ {"HostReqUpdate"} :
               GoTo(n, s) => core' \in [Node -> CoreType] /\ RequestKept(core')
         /\ \A e \in Err :
               Fail(n, e) => core' \in [Node -> CoreType] /\ RequestKept(core')
  <1>1. core[n].err \in Err /\ NoState \in State \cup {NoState}
        /\ "Error" \in State \cup {NoState} /\ 0 \in 0..2 /\ 1 \in 0..2
        /\ NoState # "HostReqUpdate" /\ "Error" # "HostReqUpdate"
    BY CoreFields DEF TypeInv, State
  <1>2. ASSUME Stay(n) PROVE core' \in [Node -> CoreType] /\ RequestKept(core')
    BY <1>1, <1>2, AfterTyped DEF Stay
  <1>3. ASSUME NEW s \in State \ {"HostReqUpdate"}, GoTo(n, s)
        PROVE  core' \in [Node -> CoreType] /\ RequestKept(core')
    BY <1>1, <1>3, AfterTyped DEF GoTo
  <1>4. ASSUME NEW e \in Err, Fail(n, e)
        PROVE  core' \in [Node -> CoreType] /\ RequestKept(core')
    BY <1>1, <1>4, AfterTyped DEF Fail
  <1> QED BY <1>2, <1>3, <1>4

LEMMA BootTyped == /\ BootCore \in CoreType /\ BootCore.pend = NoState
                   /\ BootCli \in CliType
                   /\ BootHst \in HstType /\ BootHst.rem <= BootHst.img.size
                   /\ NoInfo \in Info
                   /\ BlankSlot \in [1..SlotSize -> Unit \cup {Erased, Corrupt}]
  <1>1. Local("InitSuccess") \in Event
    BY LocalTyped
  <1>2. <<Local("InitSuccess")>> \in Queue
    <2>1. <<Local("InitSuccess")>> \in Seq(Event)
          /\ Len(<<Local("InitSuccess")>>) = 1
      BY <1>1
    <2> QED BY <2>1, CoreAssumption DEF Queue
  <1>3. BootCore \in CoreType /\ BootCore.pend = NoState
    BY <1>2 DEF BootCore, CoreType, State, Err, Update
  <1>4. <<>> \in Seq(Unit)
    OBVIOUS
  <1>5. BootCli \in CliType
    BY <1>4, CoreAssumption DEF BootCli, CliType
  <1>6. BootHst \in HstType /\ BootHst.rem <= BootHst.img.size
    BY CoreAssumption DEF BootHst, HstType
  <1>7. NoInfo \in Info
    BY CoreAssumption DEF NoInfo, Info
  <1>8. BlankSlot \in [1..SlotSize -> Unit \cup {Erased, Corrupt}]
    BY DEF BlankSlot
  <1> QED BY <1>3, <1>5, <1>6, <1>7, <1>8

LEMMA ResetTyped ==
  ASSUME TypeInv, NEW n \in Node, RamReset(n)
  PROVE  /\ core' \in [Node -> CoreType] /\ RequestKept(core')
         /\ cli' \in [Node -> CliType]
         /\ hst' \in [Node -> HstType] /\ OwesAtMostImage(hst')
         /\ app' \in [Node -> {"none", "internal", "external"}]
  <1>1. core' \in [Node -> CoreType] /\ RequestKept(core')
    BY BootTyped, CoreUpdated DEF RamReset
  <1>2. cli' \in [Node -> CliType]
    BY BootTyped DEF RamReset, TypeInv, TypeOK
  <1>3. hst' \in [Node -> HstType] /\ OwesAtMostImage(hst')
    BY BootTyped DEF RamReset, TypeInv, TypeOK, OwesAtMostImage
  <1>4. app' \in [Node -> {"none", "internal", "external"}]
    BY DEF RamReset, TypeInv, TypeOK
  <1> QED BY <1>1, <1>2, <1>3, <1>4

\* What the boot loader does to the non-volatile state, and clearing the
\* noinit record.
LEMMA NvTyped ==
  ASSUME NEW r \in NvType
  PROVE  /\ AfterReset(r) \in NvType /\ Swapped(r) \in NvType
         /\ \A i \in Info : [AfterReset(r) EXCEPT !.info = i] \in NvType
  <1>1. AfterReset(r) \in NvType
    BY DEF AfterReset, Reverted, NvType
  <1>2. Swapped(r) \in NvType
    <2>1. CASE Slot(r) = {}
      BY <2>1 DEF Swapped
    <2>2. CASE Slot(r) # {}
      <3>1. (CHOOSE i \in Slot(r) : TRUE) \in Image
        BY <2>2 DEF Slot
      <3> QED BY <2>2, <3>1 DEF Swapped, NvType
    <2> QED BY <2>1, <2>2
  <1>3. ASSUME NEW i \in Info PROVE [AfterReset(r) EXCEPT !.info = i] \in NvType
    BY <1>1 DEF NvType
  <1> QED BY <1>1, <1>2, <1>3

\* The client context of one node: its timer and its retries, ...
LEMMA CliTimerTyped ==
  ASSUME TypeInv, NEW n \in Node, NEW t \in BOOLEAN
  PROVE  [cli EXCEPT ![n].tmr = t] \in [Node -> CliType]
  <1>1. cli \in [Node -> CliType]
    BY DEF TypeInv, TypeOK
  <1> QED BY <1>1 DEF CliType

LEMMA CliRetryTyped ==
  ASSUME TypeInv, NEW n \in Node, NEW r \in Nat, NEW t \in BOOLEAN
  PROVE  [cli EXCEPT ![n].retry = r, ![n].tmr = t] \in [Node -> CliType]
  <1>1. cli \in [Node -> CliType]
    BY DEF TypeInv, TypeOK
  <1> QED BY <1>1 DEF CliType

\* ... the host that confirms it, ...
LEMMA CliConfirmTyped ==
  ASSUME TypeInv, NEW n \in Node, NEW h \in Node \cup {NoNode}, NEW r \in Nat,
         NEW t \in BOOLEAN
  PROVE  /\ [cli EXCEPT ![n].host = h, ![n].retry = r] \in [Node -> CliType]
         /\ [cli EXCEPT ![n].host = h, ![n].retry = r, ![n].tmr = t]
               \in [Node -> CliType]
  <1>1. cli \in [Node -> CliType]
    BY DEF TypeInv, TypeOK
  <1>2. [cli EXCEPT ![n].host = h, ![n].retry = r] \in [Node -> CliType]
    BY <1>1 DEF CliType
  <1>3. [cli EXCEPT ![n].host = h, ![n].retry = r, ![n].tmr = t] \in [Node -> CliType]
    BY <1>1, ZenonT(30) DEF CliType
  <1> QED BY <1>2, <1>3

\* ... and the host and image of an update.
LEMMA CliTyped ==
  ASSUME TypeInv, NEW n \in Node, NEW h \in Node \cup {NoNode}, NEW i \in Image,
         NEW t \in BOOLEAN
  PROVE  /\ [cli EXCEPT ![n].host = h] \in [Node -> CliType]
         /\ [cli EXCEPT ![n].host = h, ![n].img = i] \in [Node -> CliType]
         /\ [cli EXCEPT ![n].host = h, ![n].img = i, ![n].tmr = t]
               \in [Node -> CliType]
  <1>1. cli \in [Node -> CliType]
    BY DEF TypeInv, TypeOK
  <1>2. [cli EXCEPT ![n].host = h] \in [Node -> CliType]
    BY <1>1 DEF CliType
  <1>3. [cli EXCEPT ![n].host = h, ![n].img = i] \in [Node -> CliType]
    BY <1>1 DEF CliType
  <1>4. [cli EXCEPT ![n].host = h, ![n].img = i, ![n].tmr = t] \in [Node -> CliType]
    BY <1>1, ZenonT(30) DEF CliType
  <1> QED BY <1>2, <1>3, <1>4

LEMMA HstUpdated ==
  ASSUME TypeInv, NEW n \in Node, NEW h \in HstType, h.rem <= h.img.size
  PROVE  /\ [hst EXCEPT ![n] = h] \in [Node -> HstType]
         /\ OwesAtMostImage([hst EXCEPT ![n] = h])
  BY DEF TypeInv, TypeOK, OwesAtMostImage

\* The host context of one node, without what the image still owes.
LEMMA HstTyped ==
  ASSUME TypeInv, NEW n \in Node, NEW b \in BOOLEAN
  PROVE  /\ [hst EXCEPT ![n].dataq = b] \in [Node -> HstType]
         /\ OwesAtMostImage([hst EXCEPT ![n].dataq = b])
         /\ [hst EXCEPT ![n].ackTmr = b] \in [Node -> HstType]
         /\ OwesAtMostImage([hst EXCEPT ![n].ackTmr = b])
         /\ [hst EXCEPT ![n].hbTmr = b] \in [Node -> HstType]
         /\ OwesAtMostImage([hst EXCEPT ![n].hbTmr = b])
         /\ [hst EXCEPT ![n].updTmr = b] \in [Node -> HstType]
         /\ OwesAtMostImage([hst EXCEPT ![n].updTmr = b])
  <1>1. hst \in [Node -> HstType] /\ hst[n].rem <= hst[n].img.size
        /\ hst[n] \in HstType
    BY DEF TypeInv, TypeOK, OwesAtMostImage
  <1>2. /\ [hst EXCEPT ![n].dataq = b] = [hst EXCEPT ![n] = [hst[n] EXCEPT !.dataq = b]]
        /\ [hst EXCEPT ![n].ackTmr = b] = [hst EXCEPT ![n] = [hst[n] EXCEPT !.ackTmr = b]]
        /\ [hst EXCEPT ![n].hbTmr = b] = [hst EXCEPT ![n] = [hst[n] EXCEPT !.hbTmr = b]]
        /\ [hst EXCEPT ![n].updTmr = b] = [hst EXCEPT ![n] = [hst[n] EXCEPT !.updTmr = b]]
    BY <1>1 DEF HstType
  <1>3. \A h \in {[hst[n] EXCEPT !.dataq = b], [hst[n] EXCEPT !.ackTmr = b],
                  [hst[n] EXCEPT !.hbTmr = b], [hst[n] EXCEPT !.updTmr = b]} :
           h \in HstType /\ h.rem = hst[n].rem /\ h.img = hst[n].img
    BY <1>1 DEF HstType
  <1> QED BY <1>1, <1>2, <1>3, HstUpdated

-----------------------------------------------------------------------------
(* The steps of DfuCore *)

LEMMA CoreStepTyped ==
  ASSUME TypeInv, NEW n \in Node,
         InitRun(n) \/ IdleEntry(n) \/ ErrorEntry(n) \/ PassiveRun(n)
  PROVE  TypeInv'
  <1>0. TypeOK
    BY DEF TypeInv
  <1>e. core[n].err \in Err
    BY <1>0, CoreFields
  <1>1. CASE InitRun(n)
    <2>1. core' \in [Node -> CoreType] /\ RequestKept(core')
      <3>1. "ClientRebootDone" \in State \ {"HostReqUpdate"}
            /\ "Idle" \in State \ {"HostReqUpdate"}
        BY DEF State, ClientState
      <3> QED BY <1>1, <3>1, RunTyped DEF InitRun, Receives
    <2> QED BY <1>1, <2>1 DEF InitRun, TypeInv, TypeOK
  <1>2. CASE IdleEntry(n)
    <2>1. core' \in [Node -> CoreType] /\ RequestKept(core')
      BY <1>2, <1>e, EnteredTyped DEF IdleEntry, State
    <2>2. nv' \in [Node -> NvType]
      BY <1>0, <1>2, BootTyped, ZenonT(30) DEF IdleEntry, TypeOK, NvType
    <2>3. hst' \in [Node -> HstType] /\ OwesAtMostImage(hst')
      <3> DEFINE b == hst[n].dataq /\ ~InState(n, "HostUpdate")
      <3>1. b \in BOOLEAN
        OBVIOUS
      <3>2. hst' = [hst EXCEPT ![n].dataq = b]
        BY <1>2 DEF IdleEntry
      <3> HIDE DEF b
      <3> QED BY <3>1, <3>2, HstTyped
    <2> QED BY <1>2, <2>1, <2>2, <2>3 DEF IdleEntry, TypeInv, TypeOK
  <1>3. CASE ErrorEntry(n)
    <2>1. core' \in [Node -> CoreType] /\ RequestKept(core')
      BY <1>3, <1>e, EnteredTyped DEF ErrorEntry, State
    <2>2. upd' \in [Update -> UpdType]
      BY <1>0, <1>3, CoreFields, ReportTyped DEF ErrorEntry
    <2>3. hst' \in [Node -> HstType] /\ OwesAtMostImage(hst')
      <3> DEFINE b == hst[n].dataq /\ ~InState(n, "HostUpdate")
      <3>1. b \in BOOLEAN
        OBVIOUS
      <3>2. hst' = [hst EXCEPT ![n].dataq = b]
        BY <1>3 DEF ErrorEntry
      <3> HIDE DEF b
      <3> QED BY <3>1, <3>2, HstTyped
    <2> QED BY <1>3, <2>1, <2>2, <2>3 DEF ErrorEntry, TypeInv, TypeOK
  <1>4. CASE PassiveRun(n)
    <2>1. core' \in [Node -> CoreType] /\ RequestKept(core')
      BY <1>4, RunTyped DEF PassiveRun, Receives
    <2> QED BY <1>4, <2>1 DEF PassiveRun, TypeInv, TypeOK
  <1> QED BY <1>1, <1>2, <1>3, <1>4

LEMMA ApplicationTyped ==
  ASSUME TypeInv, NEW n \in Node, Application(n)
  PROVE  TypeInv'
  <1>0. TypeOK
    BY DEF TypeInv
  <1>1. ASSUME NEW c \in Node, NEW i \in Offered, NEW b \in Internal,
               Initiate(n, c, i, b)
        PROVE  TypeInv'
    <2> DEFINE u == NextUpdate
    <2>1. u \in Update /\ i \in Image
      BY <1>1, CoreAssumption DEF Initiate
    <2>2. upd' \in [Update -> UpdType]
      <3> HIDE DEF u
      <3>1. ASSUME NEW s \in {"accepted", "refused"}, NEW k \in 0..2,
                   Call(u, n, i, c, s, k)
            PROVE  upd' \in [Update -> UpdType]
        <4>1. [st |-> s, host |-> n, img |-> i, client |-> c, cbs |-> k,
               ok |-> FALSE] \in UpdType
          BY <2>1 DEF UpdType
        <4> QED BY <1>0, <2>1, <3>1, <4>1 DEF Call, TypeOK
      <3>2. \/ Call(u, n, i, c, "accepted", 0) \/ Call(u, n, i, c, "refused", 1)
            \/ Call(u, n, i, c, "refused", 0)
        BY <1>1 DEF Initiate, u
      <3> QED BY <3>1, <3>2
    <2>3. core' \in [Node -> CoreType] /\ RequestKept(core')
      <3>1. CASE UNCHANGED core
        BY <3>1 DEF TypeInv, TypeOK
      <3>2. CASE /\ Len(core[n].q) < QueueLen
                 /\ core' = [core EXCEPT ![n].q = Append(@, BeginHost(n, u, i, c))]
        <4>1. BeginHost(n, u, i, c) \in Event
          BY <2>1 DEF BeginHost, BeginEvent, Event
        <4>2. core' = [core EXCEPT ![n].q = Push(@, BeginHost(n, u, i, c))]
          BY <3>2 DEF Push
        <4> HIDE DEF u
        <4> QED BY <4>1, <4>2, QueuedTyped
      <3> QED BY <1>1, <3>1, <3>2 DEF Initiate
    <2>4. app' \in [Node -> {"none", "internal", "external"}]
      BY <1>0, <1>1 DEF Initiate, TypeOK
    <2> QED BY <1>1, <2>2, <2>3, <2>4 DEF Initiate, TypeInv, TypeOK
  <1>2. CASE SetInternal(n)
    <2>1. core' \in [Node -> CoreType] /\ RequestKept(core')
      <3> DEFINE r == [core[n] EXCEPT !.internal = (app[n] = "internal")]
      <3>1. r \in CoreType /\ r.pend = core[n].pend /\ r.cur = core[n].cur
        BY <1>0, CoreFields DEF CoreType
      <3>2. core' = [core EXCEPT ![n] = r]
        BY <1>0, <1>2, CoreFields DEF SetInternal, TypeOK, CoreType
      <3>3. r.pend = "HostReqUpdate" => r.cur \in BeginEvent
        BY <3>1 DEF TypeInv, RequestKept
      <3> HIDE DEF r
      <3> QED BY <3>1, <3>2, <3>3, CoreUpdated
    <2> QED BY <1>2, <2>1 DEF SetInternal, TypeInv, TypeOK
  <1> QED BY <1>1, <1>2 DEF Application

LEMMA LinkTyped ==
  ASSUME TypeInv, NEW s \in Node, NEW n \in Node, Link(s, n)
  PROVE  TypeInv'
  <1>0. net[s] \in [Node -> Seq(Message)] /\ net[s][n] \in Seq(Message)
    BY DEF TypeInv, TypeOK
  <1>1. net[s][n] # <<>> =>
           Head(net[s][n]) \in Message /\ Tail(net[s][n]) \in Seq(Message)
    BY <1>0, HeadTailProperties
  <1>2. net' \in [Node -> [Node -> Seq(Message)]]
    <2>1. net[s][n] # <<>> /\
          net' = [net EXCEPT ![s] = [net[s] EXCEPT ![n] = Tail(net[s][n])]]
      BY <1>0 DEF Link, Deliver, Lose
    <2> QED BY <1>0, <1>1, <2>1 DEF TypeInv, TypeOK
  <1>3. core' \in [Node -> CoreType] /\ RequestKept(core')
    <2>1. CASE UNCHANGED core
      BY <2>1 DEF TypeInv, TypeOK
    <2>2. CASE /\ net[s][n] # <<>>
               /\ core' = [core EXCEPT ![n].q = Push(@, Head(net[s][n]))]
      BY <1>1, <2>2, MessageIsEvent, QueuedTyped
    <2> QED BY <2>1, <2>2 DEF Link, Deliver, Lose
  <1> QED BY <1>2, <1>3 DEF Link, Deliver, Lose, TypeInv, TypeOK

LEMMA UnaskedResetTyped ==
  ASSUME TypeInv, NEW n \in Node, Reset(n)
  PROVE  TypeInv'
  <1>1. nv' \in [Node -> NvType]
    <2>1. nv[n] \in NvType /\ nv[n].info \in Info
      BY DEF TypeInv, TypeOK, NvType
    <2>2. PICK i \in {nv[n].info, NoInfo} :
             nv' = [nv EXCEPT ![n] = [AfterReset(nv[n]) EXCEPT !.info = i]]
      BY DEF Reset
    <2>3. [AfterReset(nv[n]) EXCEPT !.info = i] \in NvType
      BY <2>1, NvTyped, BootTyped
    <2> QED BY <2>2, <2>3 DEF TypeInv, TypeOK
  <1>2. resets' \in 0..MaxResets
    BY CoreAssumption DEF Reset, TypeInv, TypeOK
  <1> QED BY <1>1, <1>2, ResetTyped DEF Reset, TypeInv, TypeOK

-----------------------------------------------------------------------------
(* The steps of DfuClient *)

SlotType == [1..SlotSize -> Unit \cup {Erased, Corrupt}]

LEMMA CliFields ==
  ASSUME TypeInv, NEW n \in Node
  PROVE  /\ cli[n] \in CliType /\ cli[n].host \in Node \cup {NoNode}
         /\ cli[n].img \in Image /\ cli[n].chunk \in Nat /\ cli[n].retry \in Nat
         /\ cli[n].rcvd \in Seq(Unit) /\ cli[n].page \in Seq(Unit)
         /\ cli[n].off \in Nat /\ cli[n].tmr \in BOOLEAN
  BY DEF TypeInv, TypeOK, CliType

LEMMA NvFields ==
  ASSUME TypeInv, NEW n \in Node
  PROVE  /\ nv[n] \in NvType /\ nv[n].info \in Info /\ nv[n].fw \in Image
         /\ nv[n].info.host \in Node \cup {NoNode} /\ nv[n].flash \in SlotType
  BY DEF TypeInv, TypeOK, NvType, Info, SlotType

LEMMA WriteTyped ==
  ASSUME NEW slot \in SlotType, NEW off \in Nat, NEW data \in Seq(Unit)
  PROVE  Write(slot, off, data) \in SlotType
  <1> DEFINE v(k) == IF k \in off + 1..off + Len(data)
                     THEN IF WriteNeedsErase /\ slot[k] \notin {Erased, data[k - off]}
                          THEN Corrupt ELSE data[k - off]
                     ELSE slot[k]
  <1>1. Len(data) \in Nat /\ \A k \in 1..Len(data) : data[k] \in Unit
    BY ElementOfSeq, LenProperties
  <1>2. ASSUME NEW k \in 1..SlotSize PROVE v(k) \in Unit \cup {Erased, Corrupt}
    <2>1. CASE k \in off + 1..off + Len(data)
      <3>1. k - off \in 1..Len(data)
        BY <1>1, <2>1
      <3> QED BY <1>1, <2>1, <3>1
    <2>2. CASE k \notin off + 1..off + Len(data)
      BY <2>2, CoreAssumption DEF SlotType
    <2> QED BY <2>1, <2>2
  <1>3. Write(slot, off, data) = [k \in 1..SlotSize |-> v(k)]
    BY DEF Write
  <1> HIDE DEF v
  <1> QED BY <1>2, <1>3 DEF SlotType

PayloadType == [ok : BOOLEAN, page : Seq(Unit), off : Nat, slot : SlotType]

LEMMA PayloadTyped ==
  ASSUME NEW page \in Seq(Unit), NEW off \in Nat, NEW slot \in SlotType,
         NEW data \in Seq(Unit), NEW wrote \in BOOLEAN
  PROVE  Payload(page, off, slot, data, wrote) \in PayloadType
  <1> DEFINE all == page \o data
  <1>1. all \in Seq(Unit) /\ Len(all) \in Nat
    BY ConcatProperties, LenProperties
  <1>2. Len(all) >= PageLen =>
           /\ SubSeq(all, PageLen + 1, Len(all)) \in Seq(Unit)
           /\ SubSeq(all, 1, PageLen) \in Seq(Unit)
    <2> HIDE DEF all
    <2>1. ASSUME Len(all) >= PageLen
          PROVE  \A k \in 1..Len(all) : all[k] \in Unit
      BY <1>1, ElementOfSeq
    <2> QED BY <1>1, <2>1, SubSeqProperties, CoreAssumption
  <1>3. Len(all) >= PageLen =>
           Write(slot, off, SubSeq(all, 1, PageLen)) \in SlotType
    BY <1>2, WriteTyped
  <1>4. off + PageLen \in Nat /\ PageLen \in Nat /\ <<>> \in Seq(Unit)
    BY CoreAssumption
  <1>5. CASE data = <<>>
    BY <1>5 DEF Payload, PayloadType
  <1>6. CASE data # <<>> /\ Len(all) < PageLen
    BY <1>1, <1>6 DEF Payload, PayloadType
  <1>7. CASE data # <<>> /\ ~(Len(all) < PageLen) /\ ~wrote
    BY <1>4, <1>7 DEF Payload, PayloadType
  <1>8. CASE data # <<>> /\ ~(Len(all) < PageLen) /\ wrote
    <2>1. Len(all) >= PageLen
      BY <1>1, <1>4, <1>8
    <2>2. Payload(page, off, slot, data, wrote) =
             [ok |-> TRUE, page |-> SubSeq(all, PageLen + 1, Len(all)),
              off |-> off + PageLen,
              slot |-> Write(slot, off, SubSeq(all, 1, PageLen))]
      BY <1>8 DEF Payload
    <2> HIDE DEF all
    <2> QED BY <1>2, <1>3, <1>4, <2>1, <2>2 DEF PayloadType
  <1> QED BY <1>5, <1>6, <1>7, <1>8

LEMMA FlushTyped ==
  ASSUME NEW p \in PayloadType, NEW wrote \in BOOLEAN
  PROVE  Flush(p, wrote) \in PayloadType
  <1>1. p.page \in Seq(Unit) /\ Len(p.page) \in Nat /\ p.off \in Nat
        /\ p.slot \in SlotType
    BY LenProperties DEF PayloadType
  <1>2. Write(p.slot, p.off, p.page) \in SlotType
    BY <1>1, WriteTyped
  <1> DEFINE o == p.off + Len(p.page)
             s == Write(p.slot, p.off, p.page)
  <1>3. o \in Nat
    BY <1>1
  <1>4. Flush(p, wrote) \in {[p EXCEPT !.ok = TRUE], [p EXCEPT !.ok = FALSE],
                             [p EXCEPT !.ok = TRUE, !.off = o, !.slot = s]}
    BY DEF Flush, PayloadType
  <1> HIDE DEF o, s
  <1>5. [p EXCEPT !.ok = TRUE, !.off = o, !.slot = s] \in PayloadType
    BY <1>2, <1>3 DEF PayloadType, s
  <1> QED BY <1>4, <1>5 DEF PayloadType

\* What the timer and I/O oracles answer.
LEMMA Oracles ==
  /\ TimerOK \subseteq BOOLEAN /\ IoOK \subseteq BOOLEAN
  /\ \A t \in BOOLEAN : StoppedOrNot(t) \subseteq BOOLEAN
  BY CoreAssumption DEF TimerOK, IoOK, StoppedOrNot

\* s_idle_run, DfuEventReceivedUpdateRequest.
LEMMA RequestTyped ==
  ASSUME TypeInv, NEW n \in Node,
         \/ RefuseSameVersion(n) \/ RefuseTooLarge(n) \/ RefuseFlash(n)
         \/ AcceptRequest(n)
  PROVE  TypeInv'
  <1>0. /\ core[n].q # <<>> /\ core[n].cur = NoEvent
        /\ Evt(n).ev = "Start" /\ TypeOK
    BY DEF RefuseSameVersion, RefuseTooLarge, RefuseFlash, AcceptRequest,
           Receives, TypeInv
  <1>1. Evt(n).src \in Node /\ Evt(n).img \in Image
    BY <1>0, EvtTyped, EventFields
  <1>2. \A b \in BOOLEAN, e \in Err : Result("Ack", n, b, e) \in Message
    BY MessagesTyped
  <1>3. {"None", "SameVer", "TooLarge", "FlashAccess"} \subseteq Err
    BY DEF Err
  <1>4. net' \in [Node -> [Node -> Seq(Message)]]
    <2>1. \E b \in BOOLEAN, e \in Err : Send(n, Evt(n).src, Result("Ack", n, b, e))
      BY <1>3 DEF RefuseSameVersion, RefuseTooLarge, RefuseFlash, AcceptRequest
    <2> QED BY <1>0, <1>1, <1>2, <2>1, SendTyped
  <1>5. CASE RefuseSameVersion(n)
    <2>1. core' \in [Node -> CoreType] /\ RequestKept(core')
      BY <1>0, <1>5, RunTyped DEF RefuseSameVersion
    <2>2. cli' \in [Node -> CliType]
      BY <1>1, <1>5, CliTyped, CliFields DEF RefuseSameVersion
    <2> QED BY <1>4, <1>5, <2>1, <2>2 DEF RefuseSameVersion, TypeInv, TypeOK
  <1>6. CASE RefuseTooLarge(n)
    <2>1. core' \in [Node -> CoreType] /\ RequestKept(core')
      BY <1>0, <1>6, RunTyped DEF RefuseTooLarge
    <2>2. cli' \in [Node -> CliType]
      BY <1>1, <1>6, CliTyped, CliFields DEF RefuseTooLarge
    <2> QED BY <1>4, <1>6, <2>1, <2>2 DEF RefuseTooLarge, TypeInv, TypeOK
  <1>7. CASE RefuseFlash(n)
    <2>1. core' \in [Node -> CoreType] /\ RequestKept(core')
      BY <1>0, <1>3, <1>7, RunTyped DEF RefuseFlash
    <2>2. PICK t \in StoppedOrNot(cli[n].tmr) :
             cli' = [cli EXCEPT ![n].host = Evt(n).src, ![n].img = Evt(n).img,
                                ![n].tmr = t]
      BY <1>7 DEF RefuseFlash
    <2>3. t \in BOOLEAN
      BY CliFields, Oracles
    <2>4. cli' \in [Node -> CliType]
      BY <1>1, <2>2, <2>3, CliTyped, CliFields
    <2> QED BY <1>4, <1>7, <2>1, <2>4 DEF RefuseFlash, TypeInv, TypeOK
  <1>8. CASE AcceptRequest(n)
    <2>1. core' \in [Node -> CoreType] /\ RequestKept(core')
      BY <1>0, <1>8, RunTyped DEF AcceptRequest, State, ClientState
    <2>2. cli' \in [Node -> CliType]
      BY <1>1, <1>8, CliTyped, CliFields DEF AcceptRequest
    <2>3. nv' \in [Node -> NvType]
      <3> DEFINE i == [magic |-> TRUE, host |-> Evt(n).src, sha |-> Evt(n).img.sha]
                 r == [nv[n] EXCEPT !.flash = BlankSlot, !.info = i]
      <3>1. i \in Info
        BY <1>1 DEF Info
      <3>2. nv' = [nv EXCEPT ![n] = r]
        BY <1>0, <1>8, NvFields DEF AcceptRequest, TypeOK, NvType
      <3>3. r \in NvType
        <4> HIDE DEF i
        <4> QED BY <3>1, NvFields, BootTyped DEF NvType
      <3> HIDE DEF r
      <3> QED BY <1>0, <3>2, <3>3 DEF TypeOK
    <2> QED BY <1>4, <1>8, <2>1, <2>2, <2>3 DEF AcceptRequest, TypeInv, TypeOK
  <1> QED BY <1>5, <1>6, <1>7, <1>8

LEMMA FromScratchTyped ==
  ASSUME NEW c \in CliType, NEW t \in BOOLEAN
  PROVE  FromScratch(c, t) \in CliType
  <1>1. <<>> \in Seq(Unit)
    OBVIOUS
  <1> QED BY <1>1 DEF FromScratch, CliType

\* The timer and heartbeat events of s_client_receiving_run, and its entry.
LEMMA ReceivingTyped ==
  ASSUME TypeInv, NEW n \in Node,
         \/ ReceivingEntry(n) \/ ReceivingTimerFails(n) \/ ReceivingTimeout(n)
         \/ Resync(n) \/ HostIsAlive(n) \/ ReceivingIgnores(n)
  PROVE  TypeInv'
  <1>0. TypeOK /\ core[n].err \in Err /\ cli[n].host \in Node \cup {NoNode}
        /\ cli[n].tmr \in BOOLEAN /\ cli[n].chunk \in Nat /\ cli[n].retry \in Nat
        /\ cli[n] \in CliType /\ cli[n].img \in Image
    BY CoreFields, CliFields DEF TypeInv
  <1>1. "Aborted" \in Err /\ "Timeout" \in Err /\ "None" \in Err
        /\ "ClientReceiving" \in State
    BY DEF Err, State, ClientState
  <1>2. ASSUME NEW t, t \in TimerOK, cli' = [cli EXCEPT ![n] = FromScratch(cli[n], t)]
        PROVE  cli' \in [Node -> CliType]
    <2>1. FromScratch(cli[n], t) \in CliType
      BY <1>0, <1>2, Oracles, FromScratchTyped
    <2> QED BY <1>0, <1>2, <2>1 DEF TypeOK
  <1>3. CASE ReceivingEntry(n)
    <2>1. core' \in [Node -> CoreType] /\ RequestKept(core')
      BY <1>0, <1>1, <1>3, EnteredTyped DEF ReceivingEntry
    <2>2. cli' \in [Node -> CliType]
      BY <1>2, <1>3 DEF ReceivingEntry
    <2>3. net' \in [Node -> [Node -> Seq(Message)]]
      <3>1. ChunkReq(n, 0) \in Message
        BY MessagesTyped
      <3> QED BY <1>0, <1>3, <3>1, SendTyped DEF ReceivingEntry, Host
    <2> QED BY <1>3, <2>1, <2>2, <2>3 DEF ReceivingEntry, TypeInv, TypeOK
  <1>4. CASE ReceivingTimerFails(n)
    <2>1. core' \in [Node -> CoreType] /\ RequestKept(core')
      BY <1>1, <1>4, RunTyped DEF ReceivingTimerFails, Receives
    <2>2. cli' \in [Node -> CliType]
      <3>1. PICK t \in BOOLEAN : cli' = [cli EXCEPT ![n].tmr = t]
        BY <1>0, <1>4, Oracles DEF ReceivingTimerFails
      <3> QED BY <3>1, CliTimerTyped
    <2> QED BY <1>4, <2>1, <2>2 DEF ReceivingTimerFails, TypeInv, TypeOK
  <1>5. CASE ReceivingTimeout(n)
    <2>0. core[n].q # <<>> /\ core[n].cur = NoEvent
      BY <1>5 DEF ReceivingTimeout, Receives
    <2>1. core' \in [Node -> CoreType] /\ RequestKept(core')
      BY <1>1, <1>5, <2>0, RunTyped DEF ReceivingTimeout
    <2>2. cli' \in [Node -> CliType]
      <3>1. PICK t \in BOOLEAN :
               cli' = [cli EXCEPT ![n].retry = cli[n].retry + 1, ![n].tmr = t]
        BY <1>0, <1>5, Oracles DEF ReceivingTimeout
      <3>2. cli[n].retry + 1 \in Nat
        BY <1>0
      <3>3. \A r \in Nat :
               [cli EXCEPT ![n].retry = r, ![n].tmr = t] \in [Node -> CliType]
        BY CliRetryTyped
      <3> QED BY <3>1, <3>2, <3>3
    <2>3. net' \in [Node -> [Node -> Seq(Message)]]
      <3>1. ChunkReq(n, cli[n].chunk) \in Message
            /\ Result("Abort", n, FALSE, "Aborted") \in Message
        BY <1>0, <1>1, MessagesTyped
      <3> QED BY <1>0, <1>5, <3>1, SendTyped DEF ReceivingTimeout, Host
    <2> QED BY <1>5, <2>1, <2>2, <2>3 DEF ReceivingTimeout, TypeInv, TypeOK
  <1>6. CASE Resync(n)
    <2>0. core[n].q # <<>> /\ core[n].cur = NoEvent
      BY <1>6 DEF Resync, Receives
    <2>1. core' \in [Node -> CoreType] /\ RequestKept(core')
      BY <1>1, <1>6, <2>0, RunTyped DEF Resync
    <2>2. cli' \in [Node -> CliType]
      BY <1>2, <1>6 DEF Resync
    <2>3. net' \in [Node -> [Node -> Seq(Message)]]
      <3>1. ChunkReq(n, 0) \in Message /\ Result("Ack", n, TRUE, "None") \in Message
        BY <1>1, MessagesTyped
      <3> QED BY <1>0, <1>6, <3>1, Send2Typed DEF Resync, Host
    <2> QED BY <1>6, <2>1, <2>2, <2>3 DEF Resync, TypeInv, TypeOK
  <1>7. CASE HostIsAlive(n)
    <2>1. core' \in [Node -> CoreType] /\ RequestKept(core')
      BY <1>7, RunTyped DEF HostIsAlive, Receives
    <2>2. cli' \in [Node -> CliType]
      BY <1>7, CliTimerTyped DEF HostIsAlive
    <2> QED BY <1>7, <2>1, <2>2 DEF HostIsAlive, TypeInv, TypeOK
  <1>8. CASE ReceivingIgnores(n)
    <2>1. core' \in [Node -> CoreType] /\ RequestKept(core')
      BY <1>8, RunTyped DEF ReceivingIgnores, Receives
    <2> QED BY <1>8, <2>1 DEF ReceivingIgnores, TypeInv, TypeOK
  <1> QED BY <1>3, <1>4, <1>5, <1>6, <1>7, <1>8

\* s_client_receiving_run, DfuEventImageChunk.
LEMMA ChunkTyped ==
  ASSUME TypeInv, NEW n \in Node, ReceiveChunk(n) \/ ReceiveLastChunk(n)
  PROVE  TypeInv'
  <1> DEFINE c == cli[n]
             d == Evt(n).data
             P(w) == Payload(c.page, c.off, nv[n].flash, d, w)
  <1>0. TypeOK /\ core[n].err \in Err /\ c \in CliType /\ c.chunk \in Nat
        /\ c.host \in Node \cup {NoNode} /\ c.chunk + 1 \in Nat
    BY CoreFields, CliFields DEF TypeInv
  <1>1. core[n].q # <<>> /\ core[n].cur = NoEvent /\ Evt(n).ev = "Chunk"
    BY DEF ReceiveChunk, ReceiveLastChunk, Receives
  <1>2. d \in Seq(Unit)
    BY <1>0, <1>1, EvtTyped, EventFields
  <1>3. ASSUME NEW w \in BOOLEAN
        PROVE  /\ P(w) \in PayloadType
               /\ \A f \in BOOLEAN : Flush(P(w), f) \in PayloadType
    <2>1. P(w) \in PayloadType
      BY <1>2, CliFields, NvFields, PayloadTyped
    <2> HIDE DEF P
    <2> QED BY <2>1, FlushTyped
  <1>4. ASSUME NEW page \in Seq(Unit), NEW off \in Nat, NEW t \in BOOLEAN,
               cli' = [cli EXCEPT ![n] =
                  [c EXCEPT !.rcvd = @ \o d, !.page = page, !.off = off,
                            !.chunk = @ + 1, !.retry = 0, !.tmr = t]]
        PROVE  cli' \in [Node -> CliType]
    <2> DEFINE r == c.rcvd \o d
               k == c.chunk + 1
               x == [c EXCEPT !.rcvd = r, !.page = page, !.off = off,
                              !.chunk = k, !.retry = 0, !.tmr = t]
    <2>1. r \in Seq(Unit) /\ k \in Nat
      BY <1>0, <1>2, CliFields, ConcatProperties
    <2>2. cli' = [cli EXCEPT ![n] = x]
      BY <1>4
    <2>3. x \in CliType
      <3> HIDE DEF r, k
      <3> QED BY <1>0, <2>1 DEF CliType
    <2> HIDE DEF x
    <2> QED BY <1>0, <2>2, <2>3 DEF TypeOK
  <1>5. ASSUME NEW slot \in SlotType, nv' = [nv EXCEPT ![n].flash = slot]
        PROVE  nv' \in [Node -> NvType]
    <2>1. [nv[n] EXCEPT !.flash = slot] \in NvType
      BY NvFields DEF NvType, SlotType
    <2>2. nv' = [nv EXCEPT ![n] = [nv[n] EXCEPT !.flash = slot]]
      BY <1>0, <1>5, NvFields DEF TypeOK, NvType
    <2> QED BY <1>0, <2>1, <2>2 DEF TypeOK
  <1>6. ASSUME NEW s \in {NoState, "Error", "ClientValidating"}, NEW k \in 0..2,
               NEW e \in Err, core' = After(n, s, k, e)
        PROVE  core' \in [Node -> CoreType] /\ RequestKept(core')
    <2>1. s \in State \cup {NoState} /\ s # "HostReqUpdate"
      BY DEF State, ClientState
    <2> QED BY <1>1, <1>6, <2>1, AfterTyped
  <1>7. "BmFrame" \in Err /\ "Aborted" \in Err /\ 0 \in 0..2 /\ 1 \in 0..2 /\ 2 \in 0..2
    BY DEF Err
  <1>8. CASE ReceiveChunk(n)
    <2>1. PICK w \in IoOK, t \in TimerOK :
             /\ cli' = [cli EXCEPT ![n] =
                   [c EXCEPT !.rcvd = @ \o d, !.page = P(w).page, !.off = P(w).off,
                             !.chunk = @ + 1, !.retry = 0, !.tmr = t]]
             /\ nv' = [nv EXCEPT ![n].flash = P(w).slot]
             /\ core' = IF P(w).ok /\ t THEN After(n, NoState, 0, core[n].err)
                        ELSE After(n, "Error", IF P(w).ok \/ t THEN 1 ELSE 2,
                                   IF t THEN "BmFrame" ELSE "Aborted")
      BY <1>8 DEF ReceiveChunk
    <2>2. w \in BOOLEAN /\ t \in BOOLEAN
      BY Oracles
    <2>3. P(w).page \in Seq(Unit) /\ P(w).off \in Nat /\ P(w).slot \in SlotType
      BY <1>3, <2>2 DEF PayloadType
    <2> HIDE DEF P, c, d
    <2>4. cli' \in [Node -> CliType]
      BY <1>4, <2>1, <2>2, <2>3
    <2>5. nv' \in [Node -> NvType]
      BY <1>5, <2>1, <2>3
    <2>6. core' \in [Node -> CoreType] /\ RequestKept(core')
      BY <1>0, <1>6, <1>7, <2>1
    <2>7. net' \in [Node -> [Node -> Seq(Message)]]
      <3>1. ChunkReq(n, cli[n].chunk + 1) \in Message
        BY <1>0, MessagesTyped DEF c
      <3> QED BY <1>0, <1>8, <3>1, SendTyped DEF ReceiveChunk, Host, c
    <2> QED BY <1>8, <2>4, <2>5, <2>6, <2>7 DEF ReceiveChunk, TypeInv, TypeOK
  <1>9. CASE ReceiveLastChunk(n)
    <2>1. PICK w \in IoOK, f \in IoOK :
             /\ cli' = [cli EXCEPT ![n] =
                   [c EXCEPT !.rcvd = @ \o d, !.page = P(w).page,
                             !.off = Flush(P(w), f).off,
                             !.chunk = @ + 1, !.retry = 0, !.tmr = FALSE]]
             /\ nv' = [nv EXCEPT ![n].flash = Flush(P(w), f).slot]
             /\ core' = After(n, IF Flush(P(w), f).ok THEN "ClientValidating"
                                                      ELSE "Error",
                              IF P(w).ok THEN 1 ELSE 2,
                              IF P(w).ok /\ Flush(P(w), f).ok THEN core[n].err
                                                              ELSE "BmFrame")
      BY <1>9 DEF ReceiveLastChunk
    <2>2. w \in BOOLEAN /\ f \in BOOLEAN /\ FALSE \in BOOLEAN
      BY Oracles
    <2> HIDE DEF P, c, d
    <2>3. P(w).page \in Seq(Unit) /\ Flush(P(w), f).off \in Nat
          /\ Flush(P(w), f).slot \in SlotType
      <3>1. P(w) \in PayloadType /\ Flush(P(w), f) \in PayloadType
        BY <1>3, <2>2
      <3> QED BY <3>1 DEF PayloadType
    <2>4. cli' \in [Node -> CliType]
      BY <1>4, <2>1, <2>2, <2>3
    <2>5. nv' \in [Node -> NvType]
      BY <1>5, <2>1, <2>3
    <2>6. core' \in [Node -> CoreType] /\ RequestKept(core')
      BY <1>0, <1>6, <1>7, <2>1
    <2> QED BY <1>9, <2>4, <2>5, <2>6 DEF ReceiveLastChunk, TypeInv, TypeOK
  <1> QED BY <1>8, <1>9

\* Validating, the reboot, and the states after it.
LEMMA RebootTyped ==
  ASSUME TypeInv, NEW n \in Node,
         \/ ValidatingEntry(n) \/ RebootReqEntry(n) \/ RebootReqRun(n)
         \/ ActivatingEntry(n)
  PROVE  TypeInv'
  <1>0. TypeOK /\ core[n].err \in Err /\ cli[n].host \in Node \cup {NoNode}
        /\ cli[n].tmr \in BOOLEAN /\ cli[n].retry \in Nat /\ cli[n].retry + 1 \in Nat
        /\ cli[n].img \in Image
    BY CoreFields, CliFields DEF TypeInv
  <1>1. /\ {"Aborted", "Timeout", "BadCrc", "MismatchLen"} \subseteq Err
        /\ {"Error", "ClientValidating", "ClientRebootReq", "ClientActivating"}
              \subseteq State
    BY DEF Err, State, ClientState
  <1>2. /\ \A e \in Err : Result("End", n, FALSE, e) \in Message
        /\ Result("Abort", n, FALSE, "Aborted") \in Message
        /\ Plain("RebootReq", n) \in Message
    BY <1>1, MessagesTyped
  <1>3. ASSUME NEW t \in BOOLEAN
        PROVE  /\ [cli EXCEPT ![n].tmr = t] \in [Node -> CliType]
               /\ \A r \in Nat : [cli EXCEPT ![n].retry = r, ![n].tmr = t]
                                   \in [Node -> CliType]
    BY CliTimerTyped, CliRetryTyped
  <1>4. CASE ValidatingEntry(n)
    <2>1. CASE /\ Entered(n, "ClientValidating", "ClientRebootReq", core[n].err)
               /\ UNCHANGED <<cli, net>>
      <3>1. core' \in [Node -> CoreType] /\ RequestKept(core')
        BY <1>0, <1>1, <2>1, EnteredTyped
      <3> QED BY <1>4, <2>1, <3>1 DEF ValidatingEntry, TypeInv, TypeOK
    <2>2. ASSUME NEW e \in Err, Entered(n, "ClientValidating", "Error", e),
                 \E t \in StoppedOrNot(cli[n].tmr) : cli' = [cli EXCEPT ![n].tmr = t],
                 Send(n, Host(n), Result("End", n, FALSE, e))
          PROVE  TypeInv'
      <3>1. core' \in [Node -> CoreType] /\ RequestKept(core')
        BY <1>0, <1>1, <2>2, EnteredTyped
      <3>2. cli' \in [Node -> CliType]
        BY <1>0, <1>3, <2>2, Oracles
      <3>3. net' \in [Node -> [Node -> Seq(Message)]]
        BY <1>0, <1>2, <2>2, SendTyped DEF Host
      <3> QED BY <1>4, <3>1, <3>2, <3>3 DEF ValidatingEntry, TypeInv, TypeOK
    <2> QED BY <1>1, <1>4, <2>1, <2>2 DEF ValidatingEntry
  <1>5. CASE RebootReqEntry(n)
    <2>1. core' \in [Node -> CoreType] /\ RequestKept(core')
      BY <1>0, <1>1, <1>5, EnteredTyped DEF RebootReqEntry
    <2>2. cli' \in [Node -> CliType]
      <3>1. PICK t \in TimerOK : cli' = [cli EXCEPT ![n].retry = 0, ![n].tmr = t]
        BY <1>5 DEF RebootReqEntry
      <3>2. t \in BOOLEAN /\ 0 \in Nat
        BY Oracles
      <3> QED BY <1>3, <3>1, <3>2
    <2>3. net' \in [Node -> [Node -> Seq(Message)]]
      BY <1>0, <1>2, <1>5, SendTyped DEF RebootReqEntry, Host
    <2> QED BY <1>5, <2>1, <2>2, <2>3 DEF RebootReqEntry, TypeInv, TypeOK
  <1>6. CASE RebootReqRun(n)
    <2>0. core[n].q # <<>> /\ core[n].cur = NoEvent
      BY <1>6 DEF RebootReqRun, Receives
    <2>1. core' \in [Node -> CoreType] /\ RequestKept(core')
      BY <1>1, <1>6, <2>0, RunTyped DEF RebootReqRun
    <2>2. cli' \in [Node -> CliType]
      <3>1. \/ UNCHANGED cli
            \/ \E t \in BOOLEAN : cli' = [cli EXCEPT ![n].tmr = t]
            \/ \E t \in BOOLEAN :
                  cli' = [cli EXCEPT ![n].retry = cli[n].retry + 1, ![n].tmr = t]
        BY <1>0, <1>6, Oracles DEF RebootReqRun
      <3>2. CASE UNCHANGED cli
        BY <1>0, <3>2 DEF TypeOK
      <3>3. ASSUME NEW t \in BOOLEAN, cli' = [cli EXCEPT ![n].tmr = t]
            PROVE  cli' \in [Node -> CliType]
        BY <1>3, <3>3
      <3>4. ASSUME NEW t \in BOOLEAN,
                   cli' = [cli EXCEPT ![n].retry = cli[n].retry + 1, ![n].tmr = t]
            PROVE  cli' \in [Node -> CliType]
        BY <1>0, <1>3, <3>4
      <3> QED BY <3>1, <3>2, <3>3, <3>4
    <2>3. net' \in [Node -> [Node -> Seq(Message)]]
      <3>1. UNCHANGED net \/ \E m \in Message : Send(n, Host(n), m)
        BY <1>2, <1>6 DEF RebootReqRun
      <3> QED BY <1>0, <3>1, SendTyped DEF Host, TypeOK
    <2> QED BY <1>6, <2>1, <2>2, <2>3 DEF RebootReqRun, TypeInv, TypeOK
  <1>7. CASE ActivatingEntry(n)
    <2>1. nv' \in [Node -> NvType]
      <3>1. Swapped(nv[n]) \in NvType
        BY NvFields, NvTyped
      <3> QED BY <1>0, <1>7, <3>1 DEF ActivatingEntry, TypeOK
    <2> QED BY <1>7, <2>1, ResetTyped DEF ActivatingEntry, TypeInv, TypeOK
  <1> QED BY <1>4, <1>5, <1>6, <1>7

LEMMA UpdateDoneTyped ==
  ASSUME TypeInv, NEW n \in Node,
         \/ UpdateDoneEntry(n) \/ ForcedConfirm(n) \/ WrongVersion(n)
         \/ Confirmed(n) \/ ConfirmTimeout(n) \/ ConfirmAborted(n)
         \/ UpdateDoneIgnores(n)
  PROVE  TypeInv'
  <1>0. TypeOK /\ core[n].err \in Err /\ cli[n].host \in Node \cup {NoNode}
        /\ cli[n].tmr \in BOOLEAN /\ cli[n].retry \in Nat /\ cli[n].retry + 1 \in Nat
        /\ cli[n].img \in Image /\ nv[n].info.host \in Node \cup {NoNode}
        /\ nv[n] \in NvType
    BY CoreFields, CliFields, NvFields DEF TypeInv
  <1>1. /\ {"None", "WrongVer", "ConfirmationAbort"} \subseteq Err
        /\ "ClientRebootDone" \in State /\ "Idle" \in State
    BY DEF Err, State, ClientState
  <1>2. /\ Result("End", n, FALSE, "WrongVer") \in Message
        /\ Result("End", n, TRUE, "None") \in Message
        /\ Result("Abort", n, FALSE, "ConfirmationAbort") \in Message
        /\ Plain("BootComplete", n) \in Message
    BY <1>1, MessagesTyped
  <1>3. ASSUME NEW m \in Message, NEW h \in {cli[n].host, nv[n].info.host},
               Send(n, h, m)
        PROVE  net' \in [Node -> [Node -> Seq(Message)]]
    BY <1>0, <1>3, SendTyped
  <1>4. ASSUME NEW t \in BOOLEAN, NEW r \in Nat
        PROVE  /\ [cli EXCEPT ![n].tmr = t] \in [Node -> CliType]
               /\ [cli EXCEPT ![n].retry = r, ![n].tmr = t] \in [Node -> CliType]
               /\ [cli EXCEPT ![n].host = nv[n].info.host, ![n].retry = r]
                     \in [Node -> CliType]
               /\ [cli EXCEPT ![n].host = nv[n].info.host, ![n].retry = r,
                              ![n].tmr = t] \in [Node -> CliType]
    <2> DEFINE h == nv[n].info.host
               i == cli[n].img
    <2>1. h \in Node \cup {NoNode} /\ i \in Image
      BY <1>0
    <2> HIDE DEF h, i
    <2>2. /\ [cli EXCEPT ![n].host = h, ![n].retry = r] \in [Node -> CliType]
          /\ [cli EXCEPT ![n].host = h, ![n].retry = r, ![n].tmr = t]
                \in [Node -> CliType]
      BY <2>1, CliConfirmTyped
    <2>3. /\ [cli EXCEPT ![n].tmr = t] \in [Node -> CliType]
          /\ [cli EXCEPT ![n].retry = r, ![n].tmr = t] \in [Node -> CliType]
      BY CliTimerTyped, CliRetryTyped
    <2> QED BY <2>2, <2>3 DEF h
  <1>5. ASSUME nv' = [nv EXCEPT ![n] = [AfterReset(nv[n]) EXCEPT !.info = NoInfo]]
        PROVE  nv' \in [Node -> NvType]
    <2>1. [AfterReset(nv[n]) EXCEPT !.info = NoInfo] \in NvType
      BY <1>0, NvTyped, BootTyped
    <2> QED BY <1>0, <1>5, <2>1 DEF TypeOK
  <1>6. CASE UpdateDoneEntry(n)
    <2>1. core' \in [Node -> CoreType] /\ RequestKept(core')
      BY <1>0, <1>1, <1>6, EnteredTyped DEF UpdateDoneEntry
    <2>2. cli' \in [Node -> CliType]
      <3>1. PICK t \in TimerOK : cli' = [cli EXCEPT ![n].host = nv[n].info.host,
                                                  ![n].retry = 0, ![n].tmr = t]
        BY <1>6 DEF UpdateDoneEntry
      <3>2. t \in BOOLEAN /\ 0 \in Nat
        BY Oracles
      <3> QED BY <1>4, <3>1, <3>2
    <2>3. net' \in [Node -> [Node -> Seq(Message)]]
      BY <1>2, <1>3, <1>6 DEF UpdateDoneEntry, AskConfirmation
    <2> QED BY <1>6, <2>1, <2>2, <2>3 DEF UpdateDoneEntry, TypeInv, TypeOK
  <1>7. CASE ForcedConfirm(n)
    <2>1. PICK saved \in IoOK :
             /\ nv' = [nv EXCEPT ![n].info = NoInfo, ![n].confirmed = TRUE,
                                 ![n].confirmCfg = saved]
             /\ \/ saved /\ RamReset(n)
                \/ /\ ~saved
                   /\ Entered(n, "ClientRebootDone", NoState, core[n].err)
                   /\ cli' = [cli EXCEPT ![n].host = nv[n].info.host,
                                         ![n].retry = 0]
                   /\ UNCHANGED <<hst, app>>
      BY <1>7 DEF ForcedConfirm
    <2>2. nv' \in [Node -> NvType]
      <3> DEFINE r == [nv[n] EXCEPT !.info = NoInfo, !.confirmed = TRUE,
                                    !.confirmCfg = saved]
      <3>1. saved \in BOOLEAN
        BY Oracles
      <3>2. r \in NvType
        BY <1>0, <3>1, BootTyped DEF NvType
      <3>3. nv' = [nv EXCEPT ![n] = r]
        BY <1>0, <2>1 DEF TypeOK, NvType
      <3> HIDE DEF r
      <3> QED BY <1>0, <3>2, <3>3 DEF TypeOK
    <2>3. CASE RamReset(n)
      BY <1>7, <2>2, <2>3, ResetTyped DEF ForcedConfirm, TypeInv, TypeOK
    <2>4. CASE /\ Entered(n, "ClientRebootDone", NoState, core[n].err)
               /\ cli' = [cli EXCEPT ![n].host = nv[n].info.host, ![n].retry = 0]
               /\ UNCHANGED <<hst, app>>
      <3>1. core' \in [Node -> CoreType] /\ RequestKept(core')
        BY <1>0, <1>1, <2>4, EnteredTyped
      <3>2. cli' \in [Node -> CliType]
        <4>1. 0 \in Nat
          OBVIOUS
        <4> QED BY <1>0, <1>4, <2>4, <4>1
      <3> QED BY <1>7, <2>2, <2>4, <3>1, <3>2 DEF ForcedConfirm, TypeInv, TypeOK
    <2> QED BY <2>1, <2>3, <2>4
  <1>8. CASE WrongVersion(n)
    <2>1. nv' \in [Node -> NvType]
      BY <1>5, <1>8 DEF WrongVersion
    <2>2. net' \in [Node -> [Node -> Seq(Message)]]
      BY <1>2, <1>3, <1>8 DEF WrongVersion
    <2> QED BY <1>8, <2>1, <2>2, ResetTyped DEF WrongVersion, TypeInv, TypeOK
  <1>9. CASE Confirmed(n)
    <2>1. core' \in [Node -> CoreType] /\ RequestKept(core')
      BY <1>1, <1>9, RunTyped DEF Confirmed, Receives
    <2>2. cli' \in [Node -> CliType]
      <3>1. PICK t \in BOOLEAN : cli' = [cli EXCEPT ![n].tmr = t]
        BY <1>0, <1>9, Oracles DEF Confirmed
      <3> QED BY <1>0, <1>4, <3>1
    <2>3. nv' \in [Node -> NvType]
      BY <1>0, <1>9 DEF Confirmed, TypeOK, NvType
    <2>4. net' \in [Node -> [Node -> Seq(Message)]]
      BY <1>2, <1>3, <1>9 DEF Confirmed
    <2> QED BY <1>9, <2>1, <2>2, <2>3, <2>4 DEF Confirmed, TypeInv, TypeOK
  <1>10. CASE ConfirmTimeout(n)
    <2>1. core' \in [Node -> CoreType] /\ RequestKept(core')
      BY <1>10, RunTyped DEF ConfirmTimeout, Receives
    <2>2. cli' \in [Node -> CliType]
      <3>1. PICK t \in TimerOK :
               cli' = [cli EXCEPT ![n].retry = cli[n].retry + 1, ![n].tmr = t]
        BY <1>10 DEF ConfirmTimeout
      <3>2. t \in BOOLEAN
        BY Oracles
      <3> QED BY <1>0, <1>4, <3>1, <3>2
    <2>3. net' \in [Node -> [Node -> Seq(Message)]]
      BY <1>2, <1>3, <1>10 DEF ConfirmTimeout, AskConfirmation
    <2> QED BY <1>10, <2>1, <2>2, <2>3 DEF ConfirmTimeout, TypeInv, TypeOK
  <1>11. CASE ConfirmAborted(n)
    <2>1. nv' \in [Node -> NvType]
      BY <1>5, <1>11 DEF ConfirmAborted
    <2>2. net' \in [Node -> [Node -> Seq(Message)]]
      BY <1>2, <1>3, <1>11 DEF ConfirmAborted, Host
    <2> QED BY <1>11, <2>1, <2>2, ResetTyped DEF ConfirmAborted, TypeInv, TypeOK
  <1>12. CASE UpdateDoneIgnores(n)
    <2>1. core' \in [Node -> CoreType] /\ RequestKept(core')
      BY <1>12, RunTyped DEF UpdateDoneIgnores, Receives
    <2> QED BY <1>12, <2>1 DEF UpdateDoneIgnores, TypeInv, TypeOK
  <1> QED BY <1>6, <1>7, <1>8, <1>9, <1>10, <1>11, <1>12

-----------------------------------------------------------------------------
(* The steps of DfuHost *)

\* A host context that is well typed and owes at most its image.
GoodHost(h) == h \in HstType /\ h.rem <= h.img.size

LEMMA HstFields ==
  ASSUME TypeInv, NEW n \in Node
  PROVE  /\ GoodHost(hst[n]) /\ hst[n].client \in Node \cup {NoNode}
         /\ hst[n].img \in Image /\ hst[n].rem \in Nat /\ hst[n].retry \in Nat
         /\ hst[n].cb \in Update \cup {NoUpdate} /\ hst[n].img.size \in Nat
  BY CoreAssumption DEF TypeInv, TypeOK, HstType, OwesAtMostImage, GoodHost

LEMMA GoodHostFields ==
  ASSUME NEW h, GoodHost(h), NEW b \in BOOLEAN, NEW r \in Nat
  PROVE  /\ GoodHost([h EXCEPT !.updTmr = b]) /\ GoodHost([h EXCEPT !.hbTmr = b])
         /\ GoodHost([h EXCEPT !.ackTmr = b]) /\ GoodHost([h EXCEPT !.dataq = b])
         /\ GoodHost([h EXCEPT !.retry = r])
  BY DEF GoodHost, HstType

LEMMA StopTimersTyped ==
  ASSUME NEW h, GoodHost(h), NEW s \in StopTimers(h)
  PROVE  GoodHost(s)
  <1> DEFINE a == [h EXCEPT !.updTmr = FALSE]
             b == [a EXCEPT !.hbTmr = FALSE]
             c == [b EXCEPT !.ackTmr = FALSE]
  <1>0. FALSE \in BOOLEAN /\ 0 \in Nat
    OBVIOUS
  <1>1. GoodHost(a)
    BY <1>0, GoodHostFields
  <1>2. GoodHost(b)
    <2> HIDE DEF a
    <2> QED BY <1>0, <1>1, GoodHostFields
  <1>3. GoodHost(c)
    <2> HIDE DEF b
    <2> QED BY <1>0, <1>2, GoodHostFields
  <1>4. s \in {h, a, b, c}
    BY DEF StopTimers
  <1> HIDE DEF a, b, c
  <1> QED BY <1>1, <1>2, <1>3, <1>4

LEMMA StartUpdateTimerTyped ==
  ASSUME NEW h, GoodHost(h), NEW s \in StartUpdateTimer(h)
  PROVE  GoodHost(s)
  <1>1. PICK t \in {h.updTmr, FALSE, TRUE} : s = [h EXCEPT !.updTmr = t]
    BY DEF StartUpdateTimer
  <1>2. t \in BOOLEAN
    BY DEF GoodHost, HstType
  <1> QED BY <1>1, <1>2 DEF GoodHost, HstType

\* One node's host context is replaced by a good one.
LEMMA GoodHostStep ==
  ASSUME TypeInv, NEW n \in Node, NEW h, GoodHost(h), hst' = [hst EXCEPT ![n] = h]
  PROVE  hst' \in [Node -> HstType] /\ OwesAtMostImage(hst')
  BY HstUpdated DEF GoodHost

LEMMA HostFailsTyped ==
  ASSUME TypeInv, NEW n \in Node, core[n].q # <<>>, core[n].cur = NoEvent,
         NEW e \in Err, HostFails(n, e)
  PROVE  /\ core' \in [Node -> CoreType] /\ RequestKept(core')
         /\ hst' \in [Node -> HstType] /\ OwesAtMostImage(hst')
  <1>1. core' \in [Node -> CoreType] /\ RequestKept(core')
    BY RunTyped DEF HostFails
  <1>2. PICK h \in StopTimers(hst[n]) : hst' = [hst EXCEPT ![n] = h]
    BY DEF HostFails
  <1> QED BY <1>1, <1>2, HstFields, StopTimersTyped, GoodHostStep

LEMMA PaddedTyped ==
  ASSUME NEW h, GoodHost(h), NEW got \in Nat, got <= h.rem, NEW len \in Nat
  PROVE  Padded(NextBytes(h, got), len) \in Seq(Unit)
  <1> DEFINE lo == h.img.size - h.rem + 1
             hi == h.img.size - h.rem + got
             s  == NextBytes(h, got)
  <1>1. h.img \in Image /\ h.rem \in Nat /\ h.img.size \in Nat /\ h.rem <= h.img.size
    BY CoreAssumption DEF GoodHost, HstType
  <1>2. lo \in 1..h.img.size + 1 /\ hi \in 0..h.img.size /\ lo \in Int /\ hi \in Int
    BY <1>1
  <1>3. \A k \in 1..h.img.size : Content(h.img)[k] \in Unit
    <2> SUFFICES ASSUME NEW k \in 1..h.img.size
                 PROVE  <<h.img.id, k>> \in Unit
      BY DEF Content
    <2>1. <<h.img.id, k>> \in {<<h.img.id, j>> : j \in 1..h.img.size}
      OBVIOUS
    <2> QED BY <1>1, <2>1, Zenon DEF Unit
  <1>4. \A k \in lo..hi : Content(h.img)[k] \in Unit
    BY <1>1, <1>2, <1>3
  <1>5. s \in Seq(Unit)
    <2>1. s = SubSeq(Content(h.img), lo, hi)
      BY DEF NextBytes
    <2> HIDE DEF lo, hi, s
    <2> QED BY <1>2, <1>4, <2>1, SubSeqProperties
  <1>6. \A k \in 1..len : (IF k <= Len(s) THEN s[k] ELSE Junk) \in Unit
    <2> HIDE DEF s
    <2>1. Junk \in Unit
      BY Zenon DEF Unit
    <2>2. Len(s) \in Nat /\ \A k \in 1..Len(s) : s[k] \in Unit
      BY <1>5, ElementOfSeq, LenProperties
    <2> QED BY <2>1, <2>2
  <1> HIDE DEF s
  <1>7. Padded(s, len) \in [1..len -> Unit]
    BY <1>6 DEF Padded
  <1> QED BY <1>7, SeqDef DEF s

\* The two host requests in Idle and the states up to the acknowledgement.
LEMMA HostRequestTyped ==
  ASSUME TypeInv, NEW n \in Node,
         \/ BeginHostRun(n) \/ IdleIgnores(n) \/ ReqUpdateEntry(n)
         \/ ReqUpdateAck(n) \/ ReqUpdateTimeout(n) \/ ReqUpdateIgnores(n)
  PROVE  TypeInv'
  <1>0. TypeOK /\ core[n].err \in Err /\ GoodHost(hst[n]) /\ hst[n].img \in Image
        /\ hst[n].client \in Node \cup {NoNode} /\ hst[n].retry \in Nat
        /\ hst[n].retry + 1 \in Nat
    BY CoreFields, HstFields DEF TypeInv
  <1>1. "Aborted" \in Err /\ "Timeout" \in Err /\ "HostReqUpdate" \in State
        /\ "HostUpdate" \in State
    BY DEF Err, State, HostState
  <1>2. TRUE \in BOOLEAN /\ FALSE \in BOOLEAN /\ 0 \in Nat
    OBVIOUS
  <1>3. CASE BeginHostRun(n)
    <2> DEFINE a == After(n, "HostReqUpdate", 1, core[n].err)
               r == [a[n] EXCEPT !.cb = Evt(n).upd, !.peer = Evt(n).client]
    <2>1. core[n].q # <<>> /\ core[n].cur = NoEvent /\ Evt(n).ev = "BeginHost"
      BY <1>3 DEF BeginHostRun, Receives
    <2>2. Evt(n) \in Event
      BY <1>0, <2>1, EvtTyped
    <2>3. Evt(n) \in BeginEvent
      BY <2>1, <2>2 DEF Event, LocalEvent, Local, Message
    <2>4. Evt(n).upd \in Update /\ Evt(n).client \in Node
      BY <2>3 DEF BeginEvent
    <2>5. a \in [Node -> CoreType] /\ RequestKept(a)
      <3>1. "HostReqUpdate" \in State \cup {NoState} /\ 1 \in 0..2
        BY <1>1
      <3> QED BY <1>0, <2>1, <2>3, <3>1, AfterTyped
    <2>6. core' = [a EXCEPT ![n] = r]
      <3>1. core' = [a EXCEPT ![n].cb = Evt(n).upd, ![n].peer = Evt(n).client]
        BY <1>3 DEF BeginHostRun
      <3> HIDE DEF a
      <3> QED BY <2>5, <3>1 DEF CoreType, r
    <2> HIDE DEF a
    <2>7. r \in CoreType /\ r.pend = a[n].pend /\ r.cur = a[n].cur
      <3>1. a[n] \in CoreType
        BY <2>5
      <3>2. ASSUME NEW c \in CoreType, NEW u \in Update, NEW p \in Node
            PROVE  /\ [c EXCEPT !.cb = u, !.peer = p] \in CoreType
                   /\ [c EXCEPT !.cb = u, !.peer = p].pend = c.pend
                   /\ [c EXCEPT !.cb = u, !.peer = p].cur = c.cur
        BY DEF CoreType
      <3> QED BY ONLY <2>4, <3>1, <3>2, ZenonT(90) DEF r
    <2> HIDE DEF r
    <2>8. core' \in [Node -> CoreType] /\ RequestKept(core')
      BY <2>5, <2>6, <2>7 DEF RequestKept
    <2>9. hst' \in [Node -> HstType] /\ OwesAtMostImage(hst')
      <3> DEFINE h == [hst[n] EXCEPT !.cb = Evt(n).upd]
      <3>1. hst' = [hst EXCEPT ![n] = h]
        BY <1>0, <1>3 DEF BeginHostRun, GoodHost, TypeOK, HstType
      <3>2. GoodHost(h)
        BY <1>0, <2>4 DEF GoodHost, HstType
      <3> HIDE DEF h
      <3> QED BY <3>1, <3>2, GoodHostStep
    <2> QED BY <1>3, <2>8, <2>9 DEF BeginHostRun, TypeInv, TypeOK
  <1>4. CASE IdleIgnores(n)
    <2>1. core' \in [Node -> CoreType] /\ RequestKept(core')
      BY <1>4, RunTyped DEF IdleIgnores, Receives
    <2> QED BY <1>4, <2>1 DEF IdleIgnores, TypeInv, TypeOK
  <1>5. CASE ReqUpdateEntry(n)
    <2> DEFINE c == core[n].cur
    <2>1. c.client \in Node /\ c.img \in Image /\ c.img.size \in Nat
      BY <1>5, CoreAssumption
         DEF ReqUpdateEntry, Enters, TypeInv, RequestKept, BeginEvent
    <2>2. core' \in [Node -> CoreType] /\ RequestKept(core')
      BY <1>0, <1>1, <1>5, EnteredTyped DEF ReqUpdateEntry
    <2>3. hst' \in [Node -> HstType] /\ OwesAtMostImage(hst')
      <3>1. PICK t \in TimerOK :
               hst' = [hst EXCEPT ![n].client = c.client, ![n].img = c.img,
                                  ![n].rem = c.img.size, ![n].retry = 0,
                                  ![n].dataq = @ \/ ~core[n].internal,
                                  ![n].ackTmr = @ \/ t]
        BY <1>5 DEF ReqUpdateEntry
      <3> DEFINE b == hst[n].dataq \/ ~core[n].internal
                 d == hst[n].ackTmr \/ t
                 h == [hst[n] EXCEPT !.client = c.client, !.img = c.img,
                                     !.rem = c.img.size, !.retry = 0,
                                     !.dataq = b, !.ackTmr = d]
      <3>2. b \in BOOLEAN /\ d \in BOOLEAN
        OBVIOUS
      <3>3. hst' = [hst EXCEPT ![n] = h]
        BY <1>0, <3>1 DEF GoodHost, TypeOK, HstType
      <3> HIDE DEF b, d, c
      <3>4. GoodHost(h)
        <4>1. hst[n] \in HstType
          BY <1>0 DEF GoodHost
        <4>2. h \in HstType
          BY <2>1, <3>2, <4>1 DEF HstType
        <4>3. h.rem = c.img.size /\ h.img = c.img
          BY <4>1 DEF HstType
        <4>4. h.rem <= h.img.size
          <5> HIDE DEF h
          <5> QED BY <2>1, <4>3
        <4> QED BY <4>2, <4>4 DEF GoodHost
      <3> HIDE DEF h
      <3> QED BY <3>3, <3>4, GoodHostStep
    <2>4. net' \in [Node -> [Node -> Seq(Message)]]
      <3>1. Start(n, c.img) \in Message
        BY <2>1, MessagesTyped
      <3> QED BY <1>0, <1>5, <2>1, <3>1, SendTyped DEF ReqUpdateEntry
    <2> QED BY <1>5, <2>2, <2>3, <2>4 DEF ReqUpdateEntry, TypeInv, TypeOK
  <1>6. CASE ReqUpdateAck(n)
    <2>0. core[n].q # <<>> /\ core[n].cur = NoEvent /\ Evt(n).ev = "Ack"
      BY <1>6 DEF ReqUpdateAck, Receives
    <2>1. Evt(n).err \in Err
      BY <1>0, <2>0, EvtTyped, EventFields
    <2>2. CASE HostFails(n, "Aborted")
      BY <1>1, <1>6, <2>0, <2>2, HostFailsTyped DEF ReqUpdateAck, TypeInv, TypeOK
    <2>3. CASE GoTo(n, "HostUpdate") /\ hst' = [hst EXCEPT ![n].ackTmr = FALSE]
      <3>1. core' \in [Node -> CoreType] /\ RequestKept(core')
        BY <1>1, <2>0, <2>3, RunTyped
      <3>2. hst' \in [Node -> HstType] /\ OwesAtMostImage(hst')
        BY <1>2, <2>3, HstTyped
      <3> QED BY <1>6, <3>1, <3>2 DEF ReqUpdateAck, TypeInv, TypeOK
    <2>4. ASSUME Fail(n, Evt(n).err),
                 NEW h \in StopTimers([hst[n] EXCEPT !.ackTmr = FALSE]),
                 hst' = [hst EXCEPT ![n] = h]
          PROVE  TypeInv'
      <3>1. core' \in [Node -> CoreType] /\ RequestKept(core')
        BY <2>0, <2>1, <2>4, RunTyped
      <3>2. GoodHost([hst[n] EXCEPT !.ackTmr = FALSE])
        BY <1>0, <1>2, GoodHostFields
      <3>3. hst' \in [Node -> HstType] /\ OwesAtMostImage(hst')
        BY <2>4, <3>2, StopTimersTyped, GoodHostStep
      <3> QED BY <1>6, <3>1, <3>3 DEF ReqUpdateAck, TypeInv, TypeOK
    <2> QED BY <1>6, <2>2, <2>3, <2>4 DEF ReqUpdateAck
  <1>7. CASE ReqUpdateTimeout(n)
    <2> DEFINE h == [hst[n] EXCEPT !.retry = hst[n].retry + 1]
    <2>0. core[n].q # <<>> /\ core[n].cur = NoEvent
      BY <1>7 DEF ReqUpdateTimeout, Receives
    <2>1. GoodHost(h) /\ h.img = hst[n].img
      BY <1>0 DEF GoodHost, HstType
    <2>2. GoodHost([h EXCEPT !.ackTmr = TRUE])
      <3> HIDE DEF h
      <3> QED BY <1>2, <2>1, GoodHostFields
    <2>3. /\ Stay(n) \/ Fail(n, "Timeout") \/ Fail(n, "Aborted")
          /\ \/ \E s \in StopTimers(h) : hst' = [hst EXCEPT ![n] = s]
             \/ hst' = [hst EXCEPT ![n] = [h EXCEPT !.ackTmr = TRUE]]
          /\ UNCHANGED net \/ Send(n, hst[n].client, Start(n, h.img))
      BY <1>7 DEF ReqUpdateTimeout, Client
    <2> HIDE DEF h
    <2>4. core' \in [Node -> CoreType] /\ RequestKept(core')
      BY <1>1, <2>0, <2>3, RunTyped
    <2>5. hst' \in [Node -> HstType] /\ OwesAtMostImage(hst')
      BY <2>1, <2>2, <2>3, StopTimersTyped, GoodHostStep
    <2>6. net' \in [Node -> [Node -> Seq(Message)]]
      <3>1. Start(n, h.img) \in Message
        BY <1>0, <2>1, MessagesTyped
      <3> QED BY <1>0, <2>3, <3>1, SendTyped DEF TypeOK
    <2> QED BY <1>7, <2>4, <2>5, <2>6 DEF ReqUpdateTimeout, TypeInv, TypeOK
  <1>8. CASE ReqUpdateIgnores(n)
    <2>1. core' \in [Node -> CoreType] /\ RequestKept(core')
      BY <1>8, RunTyped DEF ReqUpdateIgnores, Receives
    <2> QED BY <1>8, <2>1 DEF ReqUpdateIgnores, TypeInv, TypeOK
  <1> QED BY <1>3, <1>4, <1>5, <1>6, <1>7, <1>8

\* s_host_update_entry and s_host_update_run.
LEMMA HostUpdateTyped ==
  ASSUME TypeInv, NEW n \in Node,
         \/ HostUpdateEntry(n) \/ HostAborted(n) \/ ServeChunkFails(n)
         \/ ServeNoMemory(n) \/ ServeTimerFails(n) \/ AllowReboot(n)
         \/ ConfirmBoot(n) \/ UpdateEnds(n) \/ HostUpdateIgnores(n)
  PROVE  TypeInv'
  <1>0. TypeOK /\ core[n].err \in Err /\ GoodHost(hst[n])
        /\ hst[n].client \in Node \cup {NoNode}
        /\ hst[n].cb \in Update \cup {NoUpdate}
    BY CoreFields, HstFields DEF TypeInv
  <1>1. {"Aborted", "FlashAccess", "ImgChunkAccess", "None"} \subseteq Err
        /\ {"HostUpdate", "Idle", "Error"} \subseteq State
    BY DEF Err, State, HostState
  <1>2. TRUE \in BOOLEAN /\ FALSE \in BOOLEAN /\ 0 \in Nat
    OBVIOUS
  <1>3. CASE HostUpdateEntry(n)
    <2>1. core' \in [Node -> CoreType] /\ RequestKept(core')
      BY <1>0, <1>1, <1>3, EnteredTyped DEF HostUpdateEntry
    <2>2. PICK h \in StartUpdateTimer(hst[n]) : hst' = [hst EXCEPT ![n] = h]
      BY <1>3 DEF HostUpdateEntry
    <2>3. hst' \in [Node -> HstType] /\ OwesAtMostImage(hst')
      BY <1>0, <2>2, StartUpdateTimerTyped, GoodHostStep
    <2> QED BY <1>3, <2>1, <2>3 DEF HostUpdateEntry, TypeInv, TypeOK
  <1>4. CASE HostAborted(n)
    <2>0. core[n].q # <<>> /\ core[n].cur = NoEvent /\ Evt(n).ev = "Abort"
      BY <1>4 DEF HostAborted, Receives
    <2> DEFINE e == IF Evt(n).src = NoNode THEN "Aborted" ELSE Evt(n).err
    <2>1. e \in Err
      BY <1>0, <1>1, <2>0, EvtTyped, EventFields
    <2>2. HostFails(n, e)
      BY <1>4 DEF HostAborted
    <2> HIDE DEF e
    <2> QED BY <1>4, <2>0, <2>1, <2>2, HostFailsTyped DEF HostAborted, TypeInv, TypeOK
  <1>5. CASE ServeChunkFails(n)
    <2> DEFINE g == [hst[n] EXCEPT !.hbTmr = TRUE]
    <2>0. core[n].q # <<>> /\ core[n].cur = NoEvent
      BY <1>5 DEF ServeChunkFails, Receives
    <2>1. GoodHost(g)
      BY <1>0, <1>2, GoodHostFields
    <2>2. PICK e \in {"FlashAccess", "ImgChunkAccess"}, s \in StopTimers(g) :
             \/ Fail(n, e) /\ hst' = [hst EXCEPT ![n] = [s EXCEPT !.hbTmr = FALSE]]
             \/ /\ core' = After(n, "Error", 2, "Aborted")
                /\ \E t \in StopTimers(s) : hst' = [hst EXCEPT ![n] = t]
      BY <1>5 DEF ServeChunkFails
    <2> HIDE DEF g
    <2>3. GoodHost(s)
      BY <2>1, StopTimersTyped
    <2>4. GoodHost([s EXCEPT !.hbTmr = FALSE])
      BY <1>2, <2>3, GoodHostFields
    <2>5. hst' \in [Node -> HstType] /\ OwesAtMostImage(hst')
      BY <2>2, <2>3, <2>4, StopTimersTyped, GoodHostStep
    <2>6. core' \in [Node -> CoreType] /\ RequestKept(core')
      <3>1. CASE Fail(n, e)
        BY <1>1, <2>0, <3>1, RunTyped
      <3>2. CASE core' = After(n, "Error", 2, "Aborted")
        <4>1. "Error" \in State \cup {NoState} /\ 2 \in 0..2 /\ "Aborted" \in Err
          BY <1>1
        <4> QED BY <2>0, <3>2, <4>1, AfterTyped
      <3> QED BY <2>2, <3>1, <3>2
    <2> QED BY <1>5, <2>5, <2>6 DEF ServeChunkFails, TypeInv, TypeOK
  <1>6. CASE ServeNoMemory(n)
    <2>1. core' \in [Node -> CoreType] /\ RequestKept(core')
      BY <1>6, RunTyped DEF ServeNoMemory, Receives
    <2>2. hst' \in [Node -> HstType] /\ OwesAtMostImage(hst')
      BY <1>2, <1>6, HstTyped DEF ServeNoMemory
    <2> QED BY <1>6, <2>1, <2>2 DEF ServeNoMemory, TypeInv, TypeOK
  <1>7. CASE ServeTimerFails(n)
    BY <1>1, <1>7, HostFailsTyped DEF ServeTimerFails, Receives, TypeInv, TypeOK
  <1>8. CASE AllowReboot(n)
    <2>1. core' \in [Node -> CoreType] /\ RequestKept(core')
      BY <1>8, RunTyped DEF AllowReboot, Receives
    <2>2. net' \in [Node -> [Node -> Seq(Message)]]
      <3>1. Plain("Reboot", n) \in Message
        BY MessagesTyped
      <3> QED BY <1>0, <1>8, <3>1, SendTyped DEF AllowReboot, Client
    <2> QED BY <1>8, <2>1, <2>2 DEF AllowReboot, TypeInv, TypeOK
  <1>9. CASE ConfirmBoot(n)
    <2>1. core' \in [Node -> CoreType] /\ RequestKept(core')
      BY <1>9, RunTyped DEF ConfirmBoot, Receives
    <2>2. net' \in [Node -> [Node -> Seq(Message)]]
      <3>1. Result("End", n, TRUE, "None") \in Message
        BY <1>1, MessagesTyped
      <3> QED BY <1>0, <1>9, <3>1, SendTyped DEF ConfirmBoot, Client
    <2> QED BY <1>9, <2>1, <2>2 DEF ConfirmBoot, TypeInv, TypeOK
  <1>10. CASE UpdateEnds(n)
    <2>0. core[n].q # <<>> /\ core[n].cur = NoEvent /\ Evt(n).ev = "End"
      BY <1>10 DEF UpdateEnds, Receives
    <2>1. Evt(n).ok \in BOOLEAN
      BY <1>0, <2>0, EvtTyped, EventFields
    <2>2. CASE /\ GoTo(n, "Idle") /\ hst' = [hst EXCEPT ![n].updTmr = FALSE]
               /\ Report(hst[n].cb, Evt(n).ok)
      <3>1. core' \in [Node -> CoreType] /\ RequestKept(core')
        BY <1>1, <2>0, <2>2, RunTyped
      <3>2. hst' \in [Node -> HstType] /\ OwesAtMostImage(hst')
        BY <1>2, <2>2, HstTyped
      <3>3. upd' \in [Update -> UpdType]
        BY <1>0, <2>1, <2>2, ReportTyped
      <3> QED BY <1>10, <3>1, <3>2, <3>3 DEF UpdateEnds, TypeInv, TypeOK
    <2>3. CASE HostFails(n, "Aborted") /\ UNCHANGED upd
      BY <1>1, <1>10, <2>0, <2>3, HostFailsTyped DEF UpdateEnds, TypeInv, TypeOK
    <2> QED BY <1>10, <2>2, <2>3 DEF UpdateEnds
  <1>11. CASE HostUpdateIgnores(n)
    <2>1. core' \in [Node -> CoreType] /\ RequestKept(core')
      BY <1>11, RunTyped DEF HostUpdateIgnores, Receives
    <2> QED BY <1>11, <2>1 DEF HostUpdateIgnores, TypeInv, TypeOK
  <1> QED BY <1>3, <1>4, <1>5, <1>6, <1>7, <1>8, <1>9, <1>10, <1>11

\* bm_dfu_host_send_chunk never sends more than the image still owes.
LEMMA ServeTyped ==
  ASSUME TypeInv, NEW n \in Node, ServeChunk(n)
  PROVE  TypeInv'
  <1> DEFINE h   == hst[n]
             len == PayloadLen(h)
             M(got) == Chunk(n, Padded(NextBytes(h, got), len))
             G(got, stopped) == [h EXCEPT !.rem = @ - got, !.hbTmr = ~stopped]
  <1>0. TypeOK /\ GoodHost(h) /\ h.client \in Node \cup {NoNode} /\ h.rem \in Nat
        /\ h.img.size \in Nat /\ h.rem <= h.img.size
    BY HstFields DEF TypeInv, GoodHost
  <1>1. core[n].q # <<>> /\ core[n].cur = NoEvent /\ "Aborted" \in Err
    BY DEF ServeChunk, Receives, Err
  <1>2. len \in Nat /\ len <= h.rem
    BY <1>0, CoreAssumption DEF PayloadLen, Smaller
  <1>3. PICK got \in ReadLen(n, len), beat \in Beats, stopped \in TimerOK :
           /\ IF beat THEN Send2(n, Client(n), Plain("Heartbeat", n), M(got))
                      ELSE Send(n, Client(n), M(got))
           /\ IF stopped
              THEN Stay(n) /\ hst' = [hst EXCEPT ![n] = G(got, stopped)]
              ELSE /\ Fail(n, "Aborted")
                   /\ \E s \in StopTimers(G(got, stopped)) :
                         hst' = [hst EXCEPT ![n] = s]
    BY DEF ServeChunk
  <1>4. got \in Nat /\ got <= h.rem
    <2> HIDE DEF len
    <2> QED BY <1>0, <1>2 DEF ReadLen
  <1>5. stopped \in BOOLEAN
    BY Oracles
  <1>6. GoodHost(G(got, stopped))
    <2> DEFINE r == h.rem - got
               b == ~stopped
    <2>1. r \in Nat /\ r <= h.img.size /\ b \in BOOLEAN
      BY <1>0, <1>4, <1>5
    <2>2. G(got, stopped) = [h EXCEPT !.rem = r, !.hbTmr = b]
      OBVIOUS
    <2> HIDE DEF r, b, h
    <2> QED BY <1>0, <2>1, <2>2 DEF GoodHost, HstType
  <1>7. M(got) \in Message /\ Plain("Heartbeat", n) \in Message
    <2>1. Padded(NextBytes(h, got), len) \in Seq(Unit)
      <3> HIDE DEF h, len
      <3> QED BY <1>0, <1>2, <1>4, PaddedTyped
    <2> QED BY <2>1, MessagesTyped
  <1> HIDE DEF M, G, len
  <1>8. net' \in [Node -> [Node -> Seq(Message)]]
    BY <1>0, <1>3, <1>7, SendTyped, Send2Typed DEF Client
  <1>9. core' \in [Node -> CoreType] /\ RequestKept(core')
    BY <1>1, <1>3, RunTyped
  <1>10. hst' \in [Node -> HstType] /\ OwesAtMostImage(hst')
    BY <1>3, <1>6, StopTimersTyped, GoodHostStep
  <1> QED BY <1>8, <1>9, <1>10 DEF ServeChunk, TypeInv, TypeOK

\* The handlers of the four timers.
LEMMA TimerTyped ==
  ASSUME TypeInv, NEW n \in Node,
         ChunkTimer(n) \/ AckTimer(n) \/ UpdateTimer(n) \/ HeartbeatTimer(n)
  PROVE  TypeInv'
  <1>0. TypeOK /\ FALSE \in BOOLEAN /\ 0 \in Nat
        /\ hst[n].client \in Node \cup {NoNode}
        /\ cli[n].host \in Node \cup {NoNode} /\ cli[n].img \in Image
    BY HstFields, CliFields DEF TypeInv
  <1>1. ASSUME NEW t \in {"ChunkTimeout", "AckTimeout", "Abort"}, TimerEvent(n, t)
        PROVE  core' \in [Node -> CoreType] /\ RequestKept(core')
    BY <1>1, TimedTyped
  <1>2. CASE ChunkTimer(n)
    <2>1. core' \in [Node -> CoreType] /\ RequestKept(core')
      BY <1>1, <1>2 DEF ChunkTimer
    <2>2. cli' \in [Node -> CliType]
      BY <1>2, CliTimerTyped DEF ChunkTimer
    <2> QED BY <1>2, <2>1, <2>2 DEF ChunkTimer, TypeInv, TypeOK
  <1>3. CASE AckTimer(n)
    <2>1. core' \in [Node -> CoreType] /\ RequestKept(core')
      BY <1>1, <1>3 DEF AckTimer
    <2>2. hst' \in [Node -> HstType] /\ OwesAtMostImage(hst')
      BY <1>0, <1>3, HstTyped DEF AckTimer
    <2> QED BY <1>3, <2>1, <2>2 DEF AckTimer, TypeInv, TypeOK
  <1>4. CASE UpdateTimer(n)
    <2>1. core' \in [Node -> CoreType] /\ RequestKept(core')
      BY <1>1, <1>4 DEF UpdateTimer
    <2>2. hst' \in [Node -> HstType] /\ OwesAtMostImage(hst')
      BY <1>0, <1>4, HstTyped DEF UpdateTimer
    <2> QED BY <1>4, <2>1, <2>2 DEF UpdateTimer, TypeInv, TypeOK
  <1>5. CASE HeartbeatTimer(n)
    <2>1. Plain("Heartbeat", n) \in Message
      BY MessagesTyped
    <2>2. net' \in [Node -> [Node -> Seq(Message)]]
      BY <1>0, <1>5, <2>1, SendTyped DEF HeartbeatTimer, Client
    <2> QED BY <1>5, <2>2 DEF HeartbeatTimer, TypeInv, TypeOK
  <1> QED BY <1>2, <1>3, <1>4, <1>5

-----------------------------------------------------------------------------
(* Type correctness *)

LEMMA InitTyped == Init => TypeInv
  <1> SUFFICES ASSUME Init PROVE TypeInv
    OBVIOUS
  <1>1. core \in [Node -> CoreType] /\ RequestKept(core)
    BY BootTyped DEF Init, RequestKept
  <1>2. cli \in [Node -> CliType]
    BY BootTyped DEF Init
  <1>3. hst \in [Node -> HstType] /\ OwesAtMostImage(hst)
    BY BootTyped DEF Init, OwesAtMostImage
  <1>4. nv \in [Node -> NvType]
    BY BootTyped, CoreAssumption DEF Init, NvType
  <1>5. net \in [Node -> [Node -> Seq(Message)]]
    <2>1. <<>> \in Seq(Message)
      OBVIOUS
    <2> QED BY <2>1 DEF Init
  <1>6. upd \in [Update -> UpdType]
    BY CoreAssumption DEF Init, UpdType
  <1>7. app \in [Node -> {"none", "internal", "external"}] /\ resets \in 0..MaxResets
    BY CoreAssumption DEF Init
  <1> QED BY <1>1, <1>2, <1>3, <1>4, <1>5, <1>6, <1>7 DEF TypeInv, TypeOK

LEMMA NextTyped == TypeInv /\ [Next]_vars => TypeInv'
  <1> SUFFICES ASSUME TypeInv, [Next]_vars PROVE TypeInv'
    OBVIOUS
  <1>1. CASE UNCHANGED vars
    BY <1>1 DEF vars, TypeInv, TypeOK
  <1>2. ASSUME NEW n \in Node, Thread(n) PROVE TypeInv'
    <2>1. ASSUME ClientThread(n) PROVE TypeInv'
      BY <2>1, RequestTyped, ReceivingTyped, ChunkTyped, RebootTyped, UpdateDoneTyped
         DEF ClientThread
    <2>2. ASSUME HostThread(n) PROVE TypeInv'
      BY <2>2, HostRequestTyped, HostUpdateTyped, ServeTyped DEF HostThread
    <2> QED BY <1>2, <2>1, <2>2, CoreStepTyped DEF Thread
  <1>3. ASSUME NEW s \in Node, NEW d \in Node, Link(s, d) PROVE TypeInv'
    BY <1>3, LinkTyped
  <1>4. ASSUME NEW n \in Node,
               \/ Application(n) \/ Reset(n) \/ ChunkTimer(n) \/ AckTimer(n)
               \/ UpdateTimer(n) \/ HeartbeatTimer(n)
        PROVE  TypeInv'
    BY <1>4, ApplicationTyped, UnaskedResetTyped, TimerTyped
  <1> QED BY <1>1, <1>2, <1>3, <1>4 DEF Next

\* Every variable keeps its type in every network, the event queue its bound,
\* and the event that asked for Host Request Update is the application's
\* request when s_host_req_update_entry reads it.
THEOREM TypeCorrect == Spec => []TypeOK
  <1>1. TypeInv => TypeOK
    BY DEF TypeInv
  <1> QED BY <1>1, InitTyped, NextTyped, PTL DEF Spec

-----------------------------------------------------------------------------
(* The page buffer *)

\* On such flash a write puts the data where it belongs and nothing elsewhere.
LEMMA WritePlaces ==
  ASSUME ~WriteNeedsErase, NEW slot \in SlotType, NEW off \in Nat,
         NEW data \in Seq(Unit), NEW k \in 1..SlotSize
  PROVE  Write(slot, off, data)[k] =
            IF k \in off + 1..off + Len(data) THEN data[k - off] ELSE slot[k]
  BY DEF Write

\* A page written behind a staged prefix extends the prefix.
LEMMA WriteStages ==
  ASSUME ~WriteNeedsErase, NEW slot \in SlotType, NEW off \in Nat,
         NEW data \in Seq(Unit), NEW rcvd \in Seq(Unit),
         off + Len(data) <= Len(rcvd),
         \A k \in 1..off : k <= SlotSize => slot[k] = rcvd[k],
         \A k \in 1..Len(data) : data[k] = rcvd[off + k]
  PROVE  \A k \in 1..off + Len(data) :
            k <= SlotSize => Write(slot, off, data)[k] = rcvd[k]
  <1>0. Len(data) \in Nat
    BY LenProperties
  <1> SUFFICES ASSUME NEW k \in 1..off + Len(data), k <= SlotSize
               PROVE  Write(slot, off, data)[k] = rcvd[k]
    OBVIOUS
  <1>1. k \in 1..SlotSize
    BY <1>0, CoreAssumption
  <1>2. CASE k \in off + 1..off + Len(data)
    <2>1. k - off \in 1..Len(data) /\ off + (k - off) = k
      BY <1>0, <1>2
    <2>2. data[k - off] = rcvd[off + (k - off)]
      BY <2>1
    <2> QED BY <1>1, <1>2, <2>1, <2>2, WritePlaces
  <1>3. CASE k \notin off + 1..off + Len(data)
    <2>1. k \in 1..off
      BY <1>0, <1>3
    <2> QED BY <1>1, <1>3, <2>1, WritePlaces
  <1> QED BY <1>2, <1>3

\* bm_dfu_process_payload keeps the received bytes staged: in the slot, in the
\* page buffer, or known to be lost.
LEMMA PayloadStages ==
  ASSUME ~WriteNeedsErase, NEW rcvd \in Seq(Unit), NEW page \in Seq(Unit),
         NEW off \in Nat, NEW slot \in SlotType, NEW data \in Seq(Unit),
         NEW wrote \in BOOLEAN, Staged(rcvd, page, off, slot)
  PROVE  LET p == Payload(page, off, slot, data, wrote)
         IN  Staged(rcvd \o data, p.page, p.off, p.slot)
  <1> DEFINE all == page \o data
             r   == rcvd \o data
             p   == Payload(page, off, slot, data, wrote)
  <1>0. /\ Len(page) \in Nat /\ Len(data) \in Nat /\ Len(rcvd) \in Nat
        /\ PageLen \in Nat /\ PageLen > 0
    BY LenProperties, CoreAssumption
  <1>1. /\ r \in Seq(Unit) /\ Len(r) = Len(rcvd) + Len(data)
        /\ \A k \in 1..Len(rcvd) : r[k] = rcvd[k]
        /\ \A k \in 1..Len(data) : r[Len(rcvd) + k] = data[k]
    BY <1>0, ConcatProperties
  <1>2. /\ all \in Seq(Unit) /\ Len(all) = Len(page) + Len(data)
        /\ \A k \in 1..Len(page) : all[k] = page[k]
        /\ \A k \in 1..Len(data) : all[Len(page) + k] = data[k]
    BY <1>0, ConcatProperties
  <1>3. off + Len(page) <= Len(rcvd)
    BY DEF Staged
  <1> HIDE DEF all, r
  <1>4. ASSUME off + Len(page) = Len(rcvd)
        PROVE  /\ \A k \in 1..off : k <= SlotSize => slot[k] = r[k]
               /\ \A k \in 1..Len(all) : all[k] = r[off + k]
    <2>1. /\ \A k \in 1..off : k <= SlotSize => slot[k] = rcvd[k]
          /\ \A k \in 1..Len(page) : page[k] = rcvd[off + k]
      BY <1>4 DEF Staged
    <2>2. \A k \in 1..off : k <= SlotSize => slot[k] = r[k]
      BY <1>0, <1>1, <1>3, <2>1
    <2>3. ASSUME NEW k \in 1..Len(all) PROVE all[k] = r[off + k]
      <3>1. CASE k \in 1..Len(page)
        <4>1. off + k \in 1..Len(rcvd)
          BY <1>0, <1>3, <3>1
        <4>2. r[off + k] = rcvd[off + k]
          BY <1>1, <4>1
        <4>3. all[k] = page[k] /\ page[k] = rcvd[off + k]
          BY <1>2, <2>1, <3>1
        <4> QED BY <4>2, <4>3
      <3>2. CASE k \notin 1..Len(page)
        <4> DEFINE j == k - Len(page)
        <4>1. j \in 1..Len(data) /\ Len(page) + j = k /\ Len(rcvd) + j = off + k
          <5>1. Len(all) = Len(page) + Len(data) /\ k \in Nat /\ k > Len(page)
            BY <1>0, <1>2, <3>2
          <5> QED BY <1>0, <1>4, <5>1, SMTT(30)
        <4> HIDE DEF j
        <4>2. all[Len(page) + j] = data[j] /\ r[Len(rcvd) + j] = data[j]
          BY <1>1, <1>2, <4>1
        <4> QED BY <4>1, <4>2
      <3> QED BY <3>1, <3>2
    <2> QED BY <2>2, <2>3
  <1>5. CASE data = <<>>
    <2>1. p.page = page /\ p.off = off /\ p.slot = slot
      BY <1>5 DEF Payload
    <2>2. r = rcvd
      BY <1>5, ConcatEmptySeq DEF r
    <2> QED BY <2>1, <2>2 DEF r
  <1>6. CASE data # <<>> /\ Len(all) < PageLen
    <2>1. p.page = all /\ p.off = off /\ p.slot = slot
      BY <1>6 DEF Payload, all
    <2>2. Staged(r, all, off, slot)
      BY <1>0, <1>1, <1>2, <1>3, <1>4 DEF Staged
    <2> QED BY <2>1, <2>2 DEF r
  <1>7. CASE data # <<>> /\ ~(Len(all) < PageLen) /\ ~wrote
    <2>1. p.page = <<>> /\ p.off = off /\ p.slot = slot
      BY <1>7 DEF Payload, all
    <2>2. Len(data) > 0
      BY <1>0, <1>7, EmptySeq
    <2>3. Staged(r, <<>>, off, slot)
      BY <1>0, <1>1, <1>3, <2>2 DEF Staged
    <2> QED BY <2>1, <2>3 DEF r
  <1>8. CASE data # <<>> /\ ~(Len(all) < PageLen) /\ wrote
    <2> DEFINE head == SubSeq(all, 1, PageLen)
               rest == SubSeq(all, PageLen + 1, Len(all))
    <2>0. Len(all) >= PageLen /\ Len(all) \in Nat
      BY <1>0, <1>2, <1>8
    <2>1. p.page = rest /\ p.off = off + PageLen /\ p.slot = Write(slot, off, head)
      BY <1>8 DEF Payload, all
    <2>2. \A k \in 1..Len(all) : all[k] \in Unit
      BY <1>2, ElementOfSeq
    <2>3. /\ head \in Seq(Unit) /\ Len(head) = PageLen
          /\ \A k \in 1..PageLen : head[k] = all[k]
      <3>1. \A k \in 1..PageLen : all[k] \in Unit
        BY <1>0, <2>0, <2>2
      <3>2. /\ head \in Seq(Unit) /\ Len(head) = PageLen - 1 + 1
            /\ \A k \in 1..PageLen - 1 + 1 : head[k] = all[1 + k - 1]
        BY <1>0, <3>1, SubSeqProperties
      <3> HIDE DEF head
      <3> QED BY <1>0, <3>2
    <2>4. /\ Len(rest) = Len(all) - PageLen
          /\ \A k \in 1..Len(all) - PageLen : rest[k] = all[PageLen + k]
      <3>1. \A k \in PageLen + 1..Len(all) : all[k] \in Unit
        BY <1>0, <2>0, <2>2
      <3>2. /\ Len(rest) = IF PageLen + 1 <= Len(all)
                           THEN Len(all) - (PageLen + 1) + 1 ELSE 0
            /\ \A k \in 1..Len(all) - (PageLen + 1) + 1 :
                  rest[k] = all[PageLen + 1 + k - 1]
        BY <1>0, <2>0, <3>1, SubSeqProperties
      <3> HIDE DEF rest
      <3> QED BY <1>0, <2>0, <3>2
    <2> HIDE DEF head, rest
    <2>5. off + PageLen + Len(rest) <= Len(r)
      BY <1>0, <1>1, <1>2, <1>3, <2>0, <2>4
    <2>6. ASSUME off + PageLen + Len(rest) = Len(r)
          PROVE  /\ \A k \in 1..off + PageLen :
                       k <= SlotSize => Write(slot, off, head)[k] = r[k]
                 /\ \A k \in 1..Len(rest) : rest[k] = r[off + PageLen + k]
      <3>1. off + Len(page) = Len(rcvd)
        BY <1>0, <1>1, <1>2, <2>0, <2>4, <2>6
      <3>2. \A k \in 1..Len(head) : head[k] = r[off + k]
        <4>1. ASSUME NEW k \in 1..Len(head) PROVE head[k] = r[off + k]
          <5>1. k \in 1..PageLen /\ k \in 1..Len(all)
            BY <1>0, <2>0, <2>3
          <5>2. head[k] = all[k]
            BY <2>3, <5>1
          <5>3. all[k] = r[off + k]
            BY <1>4, <3>1, <5>1
          <5> QED BY <5>2, <5>3
        <4> QED BY <4>1
      <3>3. \A k \in 1..off : k <= SlotSize => slot[k] = r[k]
        BY <1>4, <3>1
      <3>4. off + Len(head) <= Len(r)
        BY <1>0, <1>1, <1>2, <2>0, <2>3, <3>1
      <3>5. \A k \in 1..off + PageLen :
               k <= SlotSize => Write(slot, off, head)[k] = r[k]
        BY <1>1, <2>3, <3>2, <3>3, <3>4, WriteStages
      <3>6. ASSUME NEW k \in 1..Len(rest) PROVE rest[k] = r[off + PageLen + k]
        <4>1. PageLen + k \in 1..Len(all) /\ k \in 1..Len(all) - PageLen
              /\ off + (PageLen + k) = off + PageLen + k
          BY <1>0, <2>0, <2>4
        <4>2. all[PageLen + k] = r[off + (PageLen + k)]
          BY <1>4, <3>1, <4>1
        <4> QED BY <2>4, <4>1, <4>2
      <3> QED BY <3>5, <3>6
    <2>7. Staged(r, rest, off + PageLen, Write(slot, off, head))
      BY <2>5, <2>6 DEF Staged
    <2> QED BY <2>1, <2>7 DEF r
  <1> QED BY <1>5, <1>6, <1>7, <1>8

\* bm_dfu_process_end: when it succeeds nothing is left in the page buffer.
LEMMA FlushStages ==
  ASSUME ~WriteNeedsErase, NEW rcvd \in Seq(Unit), NEW p \in PayloadType,
         NEW wrote \in BOOLEAN, Staged(rcvd, p.page, p.off, p.slot),
         Flush(p, wrote).ok
  PROVE  Staged(rcvd, <<>>, Flush(p, wrote).off, Flush(p, wrote).slot)
  <1>0. /\ p.page \in Seq(Unit) /\ p.off \in Nat /\ p.slot \in SlotType
        /\ Len(p.page) \in Nat /\ Len(rcvd) \in Nat
    BY LenProperties DEF PayloadType
  <1>1. CASE p.page = <<>>
    <2>1. Flush(p, wrote).off = p.off /\ Flush(p, wrote).slot = p.slot
      BY <1>1 DEF Flush, PayloadType
    <2> QED BY <1>1, <2>1
  <1>2. CASE p.page # <<>>
    <2>1. /\ Flush(p, wrote).off = p.off + Len(p.page)
          /\ Flush(p, wrote).slot = Write(p.slot, p.off, p.page)
      BY <1>2 DEF Flush, PayloadType
    <2>2. p.off + Len(p.page) <= Len(rcvd)
      BY DEF Staged
    <2>3. ASSUME p.off + Len(p.page) = Len(rcvd)
          PROVE  \A k \in 1..p.off + Len(p.page) :
                    k <= SlotSize => Write(p.slot, p.off, p.page)[k] = rcvd[k]
      BY <1>0, <2>2, <2>3, WriteStages DEF Staged
    <2>4. Staged(rcvd, <<>>, p.off + Len(p.page), Write(p.slot, p.off, p.page))
      BY <1>0, <2>2, <2>3 DEF Staged
    <2> QED BY <2>1, <2>4
  <1> QED BY <1>1, <1>2

-----------------------------------------------------------------------------
(* What a step does to the state machine of one node *)

NodeGood(n) ==
  /\ Orderly(core[n].st, core[n].pend, core[n].cur = NoEvent)
  /\ Stored(core[n].st, core[n].pend, cli[n], nv[n].flash)

\* No step but the node's own touches what NodeGood speaks of, and most of its
\* own leave the received bytes and the slot alone.
CoreOthers(n) == \A m \in Node \ {n} : core'[m] = core[m]
DataOthers(n) == \A m \in Node \ {n} : cli'[m] = cli[m] /\ nv'[m] = nv[m]
BytesKept(n) ==
  /\ cli'[n].img = cli[n].img /\ cli'[n].rcvd = cli[n].rcvd
  /\ cli'[n].page = cli[n].page /\ cli'[n].off = cli[n].off
  /\ nv'[n].flash = nv[n].flash

\* An event is queued, a run function asks for s, the state s is entered.
CoreKept(n) ==
  core'[n].st = core[n].st /\ core'[n].pend = core[n].pend
  /\ core'[n].cur = core[n].cur
CoreRuns(n, s) ==
  /\ core'[n].st = core[n].st
  /\ core'[n].pend = IF s = NoState THEN core[n].pend ELSE s
  /\ core'[n].cur = NoEvent <=> core'[n].pend = NoState
CoreEnters(n, s, p) ==
  core'[n].st = s /\ core'[n].pend = p /\ core'[n].cur = NoEvent

Harmless == {NoState, "Idle", "Error", "HostReqUpdate", "HostUpdate",
             "ClientRebootDone"}
Plainly  == State \ {"ClientReceiving", "ClientRebootReq"}

LEMMA AfterRuns ==
  ASSUME TypeInv, NEW n \in Node, core[n].q # <<>>, NEW s, NEW k, NEW e,
         core' = After(n, s, k, e)
  PROVE  CoreRuns(n, s) /\ CoreOthers(n)
  <1>1. Evt(n) # NoEvent
    BY EvtTyped, EventFields DEF TypeInv
  <1>2. core \in [Node -> CoreType] /\ core[n] \in CoreType
    BY DEF TypeInv, TypeOK
  <1> DEFINE p == IF s = NoState THEN core[n].pend ELSE s
             c == IF p = NoState THEN NoEvent ELSE Evt(n)
             r == [core[n] EXCEPT !.q = PushNops(Tail(core[n].q), k), !.pend = p,
                                  !.err = e, !.cur = c]
  <1>3. core' = [core EXCEPT ![n] = r]
    BY <1>2 DEF After, CoreType
  <1>4. r.st = core[n].st /\ r.pend = p /\ r.cur = c
    <2> HIDE DEF p, c
    <2> QED BY <1>2 DEF CoreType
  <1> HIDE DEF r
  <1>5. core'[n] = r /\ CoreOthers(n)
    BY <1>2, <1>3 DEF CoreOthers
  <1> QED BY <1>1, <1>4, <1>5 DEF CoreRuns

LEMMA StepsRun ==
  ASSUME TypeInv, NEW n \in Node, core[n].q # <<>>
  PROVE  /\ Stay(n) => CoreRuns(n, NoState) /\ CoreOthers(n)
         /\ \A s : GoTo(n, s) => CoreRuns(n, s) /\ CoreOthers(n)
         /\ \A e : Fail(n, e) => CoreRuns(n, "Error") /\ CoreOthers(n)
  <1>1. ASSUME Stay(n) PROVE CoreRuns(n, NoState) /\ CoreOthers(n)
    BY <1>1, AfterRuns DEF Stay
  <1>2. ASSUME NEW s, GoTo(n, s) PROVE CoreRuns(n, s) /\ CoreOthers(n)
    BY <1>2, AfterRuns DEF GoTo
  <1>3. ASSUME NEW e, Fail(n, e) PROVE CoreRuns(n, "Error") /\ CoreOthers(n)
    BY <1>3, AfterRuns DEF Fail
  <1> QED BY <1>1, <1>2, <1>3

LEMMA EnteredEnters ==
  ASSUME TypeInv, NEW n \in Node, NEW s, NEW p, NEW e, Entered(n, s, p, e)
  PROVE  CoreEnters(n, s, p) /\ CoreOthers(n)
  <1>1. core \in [Node -> CoreType] /\ core[n] \in CoreType
    BY DEF TypeInv, TypeOK
  <1> QED BY <1>1 DEF Entered, CoreType, CoreEnters, CoreOthers

LEMMA ResetEnters ==
  ASSUME TypeInv, NEW n \in Node, RamReset(n)
  PROVE  CoreEnters(n, "Init", NoState) /\ CoreOthers(n)
         /\ \A m \in Node \ {n} : cli'[m] = cli[m]
  BY DEF TypeInv, TypeOK, RamReset, BootCore, CoreEnters, CoreOthers

LEMMA QueuedKeeps ==
  ASSUME TypeInv, NEW n \in Node, NEW q, core' = [core EXCEPT ![n].q = q]
  PROVE  CoreKept(n) /\ CoreOthers(n)
  <1>1. core \in [Node -> CoreType] /\ core[n] \in CoreType
    BY DEF TypeInv, TypeOK
  <1> QED BY <1>1 DEF CoreType, CoreKept, CoreOthers

LEMMA TimedKeeps ==
  ASSUME TypeInv, NEW n \in Node, NEW t, TimerEvent(n, t)
  PROVE  /\ CoreKept(n) /\ CoreOthers(n)
         /\ core'[n].q = Push(core[n].q, Local(t)) /\ core'[n].cb = core[n].cb
  <1> DEFINE q == Push(core[n].q, Local(t))
  <1>1. core \in [Node -> CoreType] /\ core[n] \in CoreType
    BY DEF TypeInv, TypeOK
  <1>2. PICK b \in BOOLEAN :
            core' = [core EXCEPT ![n] = [core[n] EXCEPT !.q = q, !.missed = b]]
    BY TimedCore
  <1> HIDE DEF q
  <1>3. core'[n].q = q /\ core'[n].cb = core[n].cb
    BY <1>1, <1>2 DEF CoreType
  <1>4. CoreKept(n) /\ CoreOthers(n)
    BY <1>1, <1>2 DEF CoreType, CoreKept, CoreOthers
  <1> QED BY <1>3, <1>4 DEF q

\* A step that only queues an event.
LEMMA KeptGood ==
  ASSUME NEW n, NodeGood(n), CoreKept(n), BytesKept(n)
  PROVE  NodeGood(n)'
  <1>1. Orderly(core[n].st, core[n].pend, core[n].cur = NoEvent)'
    BY DEF NodeGood, CoreKept, Orderly
  <1>2. Stored(core[n].st, core[n].pend, cli[n], nv[n].flash)'
    BY DEF NodeGood, CoreKept, BytesKept, Stored
  <1> QED BY <1>1, <1>2 DEF NodeGood

\* A run function that asks for a state outside the transfer, or for nothing.
LEMMA RunGood ==
  ASSUME NEW n, NodeGood(n), core[n].cur = NoEvent, NEW s \in Harmless,
         CoreRuns(n, s), BytesKept(n)
  PROVE  NodeGood(n)'
  <1>1. Orderly(core[n].st, core[n].pend, core[n].cur = NoEvent)'
    BY DEF NodeGood, CoreRuns, Harmless, Orderly
  <1>2. Stored(core[n].st, core[n].pend, cli[n], nv[n].flash)'
    BY DEF NodeGood, CoreRuns, BytesKept, Harmless, Orderly, Stored
  <1> QED BY <1>1, <1>2 DEF NodeGood

\* ... and in Idle, whatever it does to the client context.
LEMMA IdleGood ==
  ASSUME NEW n, NodeGood(n), core[n].cur = NoEvent, core[n].st = "Idle",
         NEW s \in Harmless, CoreRuns(n, s)
  PROVE  NodeGood(n)'
  BY DEF NodeGood, CoreRuns, Harmless, Orderly, Stored

\* Entering a state outside the transfer.
LEMMA EnterGood ==
  ASSUME NEW n, NEW s \in Plainly, NEW p \in {NoState, "Idle", "Error"},
         p = NoState \/ s \in {"Error", "ClientValidating"}, CoreEnters(n, s, p)
  PROVE  NodeGood(n)'
  BY DEF NodeGood, CoreEnters, Plainly, Orderly, Stored

-----------------------------------------------------------------------------
(* Steps outside the transfer *)

GoodStep(n) == NodeGood(n)' /\ CoreOthers(n) /\ DataOthers(n)

LEMMA CoreStepGood ==
  ASSUME TypeInv, NEW n \in Node, NodeGood(n),
         InitRun(n) \/ IdleEntry(n) \/ ErrorEntry(n) \/ PassiveRun(n)
  PROVE  GoodStep(n)
  <1>0. nv \in [Node -> NvType] /\ nv[n] \in NvType
    BY DEF TypeInv, TypeOK
  <1>1. CASE InitRun(n)
    <2>1. \E s \in Harmless : CoreRuns(n, s) /\ CoreOthers(n)
      BY <1>1, StepsRun DEF InitRun, Receives, Harmless
    <2>2. BytesKept(n) /\ DataOthers(n) /\ core[n].cur = NoEvent
      BY <1>1 DEF InitRun, Receives, BytesKept, DataOthers
    <2> QED BY <2>1, <2>2, RunGood DEF GoodStep
  <1>2. CASE IdleEntry(n)
    <2>1. CoreEnters(n, "Idle", NoState) /\ CoreOthers(n)
      BY <1>2, EnteredEnters DEF IdleEntry
    <2>2. NodeGood(n)'
      BY <2>1, EnterGood DEF Plainly, State
    <2>3. DataOthers(n)
      BY <1>0, <1>2 DEF IdleEntry, DataOthers
    <2> QED BY <2>1, <2>2, <2>3 DEF GoodStep
  <1>3. CASE ErrorEntry(n)
    <2>1. (CoreEnters(n, "Error", NoState) \/ CoreEnters(n, "Error", "Idle"))
          /\ CoreOthers(n)
      BY <1>3, EnteredEnters DEF ErrorEntry
    <2>2. NodeGood(n)'
      BY <2>1, EnterGood DEF Plainly, State
    <2>3. DataOthers(n)
      BY <1>3 DEF ErrorEntry, DataOthers
    <2> QED BY <2>1, <2>2, <2>3 DEF GoodStep
  <1>4. CASE PassiveRun(n)
    <2>1. core[n].q # <<>> /\ core[n].cur = NoEvent
      BY <1>4 DEF PassiveRun, Receives
    <2>2. CoreRuns(n, NoState) /\ CoreOthers(n) /\ NoState \in Harmless
      BY <1>4, <2>1, StepsRun DEF PassiveRun, Harmless
    <2>3. BytesKept(n) /\ DataOthers(n)
      BY <1>4 DEF PassiveRun, BytesKept, DataOthers
    <2> QED BY <2>1, <2>2, <2>3, RunGood DEF GoodStep
  <1> QED BY <1>1, <1>2, <1>3, <1>4

\* The application, the BCMP thread and the timers only queue events.
LEMMA QueueStepGood ==
  ASSUME TypeInv, NEW n \in Node, NodeGood(n),
         \/ Application(n) \/ ChunkTimer(n) \/ AckTimer(n) \/ UpdateTimer(n)
         \/ HeartbeatTimer(n) \/ \E s \in Node : Link(s, n)
  PROVE  GoodStep(n)
  <1>0. core \in [Node -> CoreType] /\ core[n] \in CoreType
        /\ cli \in [Node -> CliType] /\ cli[n] \in CliType
    BY DEF TypeInv, TypeOK
  <1>1. CoreKept(n) /\ CoreOthers(n)
    <2>1. CASE UNCHANGED core
      BY <2>1 DEF CoreKept, CoreOthers
    <2>2. CASE \E q : core' = [core EXCEPT ![n].q = q]
      BY <2>2, QueuedKeeps
    <2>3. CASE SetInternal(n)
      BY <1>0, <2>3 DEF SetInternal, CoreType, CoreKept, CoreOthers
    <2>4. ASSUME Application(n), ~SetInternal(n)
          PROVE  UNCHANGED core \/ \E q : core' = [core EXCEPT ![n].q = q]
      BY <2>4 DEF Application, Initiate
    <2>5. ASSUME HeartbeatTimer(n) \/ \E s \in Node : Link(s, n)
          PROVE  UNCHANGED core \/ \E q : core' = [core EXCEPT ![n].q = q]
      BY <2>5 DEF HeartbeatTimer, Link, Deliver, Lose
    <2>6. CASE ChunkTimer(n) \/ AckTimer(n) \/ UpdateTimer(n)
      <3>1. \E t : TimerEvent(n, t)
        BY <2>6 DEF ChunkTimer, AckTimer, UpdateTimer
      <3> QED BY <3>1, TimedKeeps
    <2> QED BY <2>1, <2>2, <2>3, <2>4, <2>5, <2>6
  <1>2. BytesKept(n) /\ DataOthers(n)
    <2>1. CASE UNCHANGED <<cli, nv>>
      BY <2>1 DEF BytesKept, DataOthers
    <2>2. CASE ChunkTimer(n)
      BY <1>0, <2>2 DEF ChunkTimer, CliType, BytesKept, DataOthers
    <2> QED BY <2>1, <2>2 DEF Application, Initiate, SetInternal, AckTimer,
               UpdateTimer, HeartbeatTimer, Link, Deliver, Lose
  <1> QED BY <1>1, <1>2, KeptGood DEF GoodStep

LEMMA ResetGood ==
  ASSUME TypeInv, NEW n \in Node, RamReset(n), NEW r, nv' = [nv EXCEPT ![n] = r]
  PROVE  GoodStep(n)
  <1>1. NodeGood(n)' /\ CoreOthers(n)
    BY ResetEnters, EnterGood DEF Plainly, State
  <1>2. DataOthers(n)
    BY ResetEnters DEF DataOthers, TypeInv, TypeOK
  <1> QED BY <1>1, <1>2 DEF GoodStep

LEMMA HostStepGood ==
  ASSUME TypeInv, NEW n \in Node, NodeGood(n), HostThread(n)
  PROVE  GoodStep(n)
  <1>1. BytesKept(n) /\ DataOthers(n)
    <2>1. UNCHANGED <<cli, nv>>
      BY DEF HostThread, BeginHostRun, IdleIgnores, ReqUpdateEntry, ReqUpdateAck,
             ReqUpdateTimeout, HostAborted, ReqUpdateIgnores, HostUpdateEntry,
             ServeChunk, ServeChunkFails, ServeNoMemory, ServeTimerFails,
             AllowReboot, ConfirmBoot, UpdateEnds, HostUpdateIgnores
    <2> QED BY <2>1 DEF BytesKept, DataOthers
  <1>2. CASE ReqUpdateEntry(n) \/ HostUpdateEntry(n)
    <2>1. \E s \in HostState : CoreEnters(n, s, NoState) /\ CoreOthers(n)
      BY <1>2, EnteredEnters DEF ReqUpdateEntry, HostUpdateEntry, HostState
    <2> QED BY <1>1, <2>1, EnterGood DEF GoodStep, Plainly, State, HostState
  <1>3. CASE ~(ReqUpdateEntry(n) \/ HostUpdateEntry(n))
    <2>1. core[n].q # <<>> /\ core[n].cur = NoEvent
      BY <1>3 DEF HostThread, BeginHostRun, IdleIgnores, ReqUpdateAck,
             ReqUpdateTimeout, HostAborted, ReqUpdateIgnores, ServeChunk,
             ServeChunkFails, ServeNoMemory, ServeTimerFails, AllowReboot,
             ConfirmBoot, UpdateEnds, HostUpdateIgnores, Receives
    <2>2. CASE BeginHostRun(n)
      <3> DEFINE a == After(n, "HostReqUpdate", 1, core[n].err)
      <3>1. core \in [Node -> CoreType] /\ core[n] \in CoreType /\ Evt(n) # NoEvent
        BY <2>1, EvtTyped, EventFields DEF TypeInv, TypeOK
      <3>2. /\ a[n].st = core[n].st /\ a[n].pend = "HostReqUpdate"
            /\ a[n].cur = Evt(n) /\ DOMAIN a = Node
            /\ \A m \in Node \ {n} : a[m] = core[m]
        BY <3>1 DEF After, CoreType
      <3>3. core' = [a EXCEPT ![n].cb = Evt(n).upd, ![n].peer = Evt(n).client]
        BY <2>2 DEF BeginHostRun
      <3> HIDE DEF a
      <3>4. /\ core'[n].st = a[n].st /\ core'[n].pend = a[n].pend
            /\ core'[n].cur = a[n].cur
            /\ \A m \in Node \ {n} : core'[m] = a[m]
        BY <3>2, <3>3
      <3>5. CoreRuns(n, "HostReqUpdate") /\ CoreOthers(n)
        BY <3>1, <3>2, <3>4 DEF CoreRuns, CoreOthers
      <3> QED BY <1>1, <2>1, <3>5, RunGood DEF GoodStep, Harmless
    <2>3. CASE ~BeginHostRun(n)
      <3>1. \/ Stay(n) \/ GoTo(n, "HostUpdate") \/ GoTo(n, "Idle")
            \/ \E e : Fail(n, e) \/ core' = After(n, "Error", 2, e)
        BY <1>3, <2>3 DEF HostThread, IdleIgnores, ReqUpdateAck, HostFails,
             ReqUpdateTimeout, HostAborted, ReqUpdateIgnores, ServeChunk,
             ServeChunkFails, ServeNoMemory, ServeTimerFails, AllowReboot,
             ConfirmBoot, UpdateEnds, HostUpdateIgnores
      <3>2. \E s \in Harmless : CoreRuns(n, s) /\ CoreOthers(n)
        BY <2>1, <3>1, StepsRun, AfterRuns DEF Harmless
      <3> QED BY <1>1, <2>1, <3>2, RunGood DEF GoodStep
    <2> QED BY <2>2, <2>3
  <1> QED BY <1>2, <1>3

-----------------------------------------------------------------------------
(* The client *)

LEMMA RequestGood ==
  ASSUME TypeInv, NEW n \in Node, NodeGood(n),
         \/ RefuseSameVersion(n) \/ RefuseTooLarge(n) \/ RefuseFlash(n)
         \/ AcceptRequest(n)
  PROVE  GoodStep(n)
  <1>0. /\ core[n].q # <<>> /\ core[n].cur = NoEvent /\ core[n].st = "Idle"
        /\ cli \in [Node -> CliType] /\ cli[n] \in CliType
        /\ nv \in [Node -> NvType] /\ nv[n] \in NvType
    BY DEF RefuseSameVersion, RefuseTooLarge, RefuseFlash, AcceptRequest,
           Receives, InState, TypeInv, TypeOK
  <1>1. DataOthers(n)
    BY <1>0 DEF RefuseSameVersion, RefuseTooLarge, RefuseFlash, AcceptRequest,
                DataOthers
  <1>2. CASE RefuseSameVersion(n) \/ RefuseTooLarge(n) \/ RefuseFlash(n)
    <2>1. \E s \in Harmless : CoreRuns(n, s) /\ CoreOthers(n)
      BY <1>0, <1>2, StepsRun
         DEF RefuseSameVersion, RefuseTooLarge, RefuseFlash, Harmless
    <2> QED BY <1>0, <1>1, <2>1, IdleGood DEF GoodStep
  <1>3. CASE AcceptRequest(n)
    <2>1. CoreRuns(n, "ClientReceiving") /\ CoreOthers(n)
      BY <1>0, <1>3, StepsRun DEF AcceptRequest
    <2>2. cli'[n].img = Evt(n).img /\ Fits(Evt(n).img)
      BY <1>0, <1>3 DEF AcceptRequest, CliType
    <2>3. NodeGood(n)'
      BY <1>0, <2>1, <2>2 DEF NodeGood, CoreRuns, Orderly, Stored
    <2> QED BY <1>1, <2>1, <2>3 DEF GoodStep
  <1> QED BY <1>2, <1>3

\* Client Rx starts, and starts again, with nothing received.
LEMMA FromScratchStages ==
  ASSUME TypeInv, NEW n \in Node, NEW t,
         cli' = [cli EXCEPT ![n] = FromScratch(cli[n], t)]
  PROVE  /\ Staged(cli'[n].rcvd, cli'[n].page, cli'[n].off, nv'[n].flash)
         /\ cli'[n].img = cli[n].img
         /\ \A m \in Node \ {n} : cli'[m] = cli[m]
  <1>1. cli \in [Node -> CliType] /\ cli[n] \in CliType
    BY DEF TypeInv, TypeOK
  <1>2. /\ cli'[n].rcvd = <<>> /\ cli'[n].page = <<>> /\ cli'[n].off = 0
        /\ cli'[n].img = cli[n].img /\ \A m \in Node \ {n} : cli'[m] = cli[m]
    BY <1>1 DEF FromScratch, CliType
  <1>3. Staged(<<>>, <<>>, 0, nv'[n].flash)
    BY DEF Staged
  <1> QED BY <1>2, <1>3

\* Host, retry count and timer are not the received bytes.
LEMMA CliBytesKept ==
  ASSUME TypeInv, NEW n \in Node, NEW h, NEW r, NEW t,
         \/ UNCHANGED cli
         \/ cli' = [cli EXCEPT ![n].tmr = t]
         \/ cli' = [cli EXCEPT ![n].retry = r, ![n].tmr = t]
         \/ cli' = [cli EXCEPT ![n].host = h, ![n].retry = r]
         \/ cli' = [cli EXCEPT ![n].host = h, ![n].retry = r, ![n].tmr = t],
         UNCHANGED nv
  PROVE  BytesKept(n) /\ DataOthers(n)
  <1>1. cli \in [Node -> CliType] /\ cli[n] \in CliType
    BY DEF TypeInv, TypeOK
  <1> QED BY <1>1 DEF CliType, BytesKept, DataOthers

LEMMA ReceivingGood ==
  ASSUME TypeInv, NEW n \in Node, NodeGood(n),
         \/ ReceivingEntry(n) \/ ReceivingTimerFails(n) \/ ReceivingTimeout(n)
         \/ Resync(n) \/ HostIsAlive(n) \/ ReceivingIgnores(n)
  PROVE  GoodStep(n)
  <1>0. cli \in [Node -> CliType] /\ cli[n] \in CliType
    BY DEF TypeInv, TypeOK
  <1>1. CASE ReceivingEntry(n)
    <2>1. CoreEnters(n, "ClientReceiving", NoState) /\ CoreOthers(n)
      BY <1>1, EnteredEnters DEF ReceivingEntry
    <2>2. /\ Staged(cli'[n].rcvd, cli'[n].page, cli'[n].off, nv'[n].flash)
          /\ cli'[n].img = cli[n].img
          /\ \A m \in Node \ {n} : cli'[m] = cli[m]
      BY <1>1, FromScratchStages DEF ReceivingEntry
    <2>3. Fits(cli[n].img)
      BY <1>1 DEF ReceivingEntry, Enters, NodeGood, Stored
    <2>4. NodeGood(n)'
      BY <2>1, <2>2, <2>3 DEF NodeGood, CoreEnters, Orderly, Stored
    <2>5. DataOthers(n)
      BY <1>1, <2>2 DEF ReceivingEntry, DataOthers
    <2> QED BY <2>1, <2>4, <2>5 DEF GoodStep
  <1>2. CASE Resync(n)
    <2>0. core[n].q # <<>> /\ core[n].cur = NoEvent /\ core[n].st = "ClientReceiving"
      BY <1>2 DEF Resync, Receives, InState
    <2>1. (CoreRuns(n, NoState) \/ CoreRuns(n, "Error")) /\ CoreOthers(n)
      BY <1>2, <2>0, StepsRun DEF Resync
    <2>2. /\ Staged(cli'[n].rcvd, cli'[n].page, cli'[n].off, nv'[n].flash)
          /\ cli'[n].img = cli[n].img
          /\ \A m \in Node \ {n} : cli'[m] = cli[m]
      BY <1>2, FromScratchStages DEF Resync
    <2>3. NodeGood(n)'
      BY <2>0, <2>1, <2>2 DEF NodeGood, CoreRuns, Orderly, Stored
    <2>4. DataOthers(n)
      BY <1>2, <2>2 DEF Resync, DataOthers
    <2> QED BY <2>1, <2>3, <2>4 DEF GoodStep
  <1>3. CASE ReceivingTimerFails(n) \/ ReceivingTimeout(n) \/ HostIsAlive(n)
             \/ ReceivingIgnores(n)
    <2>0. core[n].q # <<>> /\ core[n].cur = NoEvent
      BY <1>3 DEF ReceivingTimerFails, ReceivingTimeout, HostIsAlive,
                  ReceivingIgnores, Receives
    <2>1. \E s \in Harmless : CoreRuns(n, s) /\ CoreOthers(n)
      BY <1>3, <2>0, StepsRun DEF ReceivingTimerFails, ReceivingTimeout, HostIsAlive,
                  ReceivingIgnores, Harmless
    <2>2. BytesKept(n) /\ DataOthers(n)
      <3>1. /\ \E r, t : \/ UNCHANGED cli
                         \/ cli' = [cli EXCEPT ![n].tmr = t]
                         \/ cli' = [cli EXCEPT ![n].retry = r, ![n].tmr = t]
            /\ UNCHANGED nv
        BY <1>3 DEF ReceivingTimerFails, ReceivingTimeout, HostIsAlive,
                    ReceivingIgnores
      <3> QED BY <3>1, CliBytesKept
    <2> QED BY <2>0, <2>1, <2>2, RunGood DEF GoodStep
  <1> QED BY <1>1, <1>2, <1>3

\* s_client_receiving_run, DfuEventImageChunk.
LEMMA ChunkGood ==
  ASSUME ~WriteNeedsErase, TypeInv, NEW n \in Node, NodeGood(n),
         ReceiveChunk(n) \/ ReceiveLastChunk(n)
  PROVE  GoodStep(n)
  <1> DEFINE c == cli[n]
             d == Evt(n).data
             f == nv[n].flash
             P(w) == Payload(c.page, c.off, f, d, w)
  <1>0. /\ core[n].q # <<>> /\ core[n].cur = NoEvent /\ core[n].st = "ClientReceiving"
        /\ Evt(n).ev = "Chunk"
    BY DEF ReceiveChunk, ReceiveLastChunk, Receives, InState
  <1>1. /\ cli \in [Node -> CliType] /\ nv \in [Node -> NvType]
        /\ c \in CliType /\ nv[n] \in NvType
        /\ c.rcvd \in Seq(Unit) /\ c.page \in Seq(Unit) /\ c.off \in Nat
        /\ f \in SlotType
    BY CliFields, NvFields DEF TypeInv, TypeOK
  <1>2. d \in Seq(Unit)
    BY <1>0, EvtTyped, EventFields DEF TypeInv
  <1>3. Staged(c.rcvd, c.page, c.off, f) /\ Fits(c.img) /\ core[n].pend = NoState
    BY <1>0 DEF NodeGood, Orderly, Stored
  <1>4. ASSUME NEW w \in BOOLEAN
        PROVE  /\ P(w) \in PayloadType
               /\ Staged(c.rcvd \o d, P(w).page, P(w).off, P(w).slot)
    <2>1. P(w) \in PayloadType
      BY <1>1, <1>2, PayloadTyped
    <2>2. Staged(c.rcvd \o d, P(w).page, P(w).off, P(w).slot)
      <3> HIDE DEF c, d, f
      <3> QED BY <1>1, <1>2, <1>3, PayloadStages
    <2> QED BY <2>1, <2>2
  <1>5. ASSUME NEW page, NEW off, NEW t, NEW slot,
               cli' = [cli EXCEPT ![n] =
                  [c EXCEPT !.rcvd = @ \o d, !.page = page, !.off = off,
                            !.chunk = @ + 1, !.retry = 0, !.tmr = t]],
               nv' = [nv EXCEPT ![n].flash = slot]
        PROVE  /\ cli'[n].rcvd = c.rcvd \o d /\ cli'[n].page = page
               /\ cli'[n].off = off /\ cli'[n].img = c.img
               /\ nv'[n].flash = slot /\ DataOthers(n)
    <2> DEFINE r == c.rcvd \o d
               k == c.chunk + 1
               x == [c EXCEPT !.rcvd = r, !.page = page, !.off = off,
                              !.chunk = k, !.retry = 0, !.tmr = t]
    <2>1. cli' = [cli EXCEPT ![n] = x]
      BY <1>5
    <2>2. x.rcvd = r /\ x.page = page /\ x.off = off /\ x.img = c.img
      <3> HIDE DEF r, k, c
      <3> QED BY <1>1 DEF CliType
    <2> HIDE DEF x, r, d
    <2>3. cli'[n] = x /\ \A m \in Node \ {n} : cli'[m] = cli[m]
      BY <1>1, <2>1
    <2>4. nv'[n].flash = slot /\ \A m \in Node \ {n} : nv'[m] = nv[m]
      BY <1>1, <1>5 DEF NvType
    <2> QED BY <2>2, <2>3, <2>4 DEF r, DataOthers
  <1>6. CASE ReceiveChunk(n)
    <2>1. PICK w \in IoOK, t \in TimerOK :
             /\ cli' = [cli EXCEPT ![n] =
                   [c EXCEPT !.rcvd = @ \o d, !.page = P(w).page, !.off = P(w).off,
                             !.chunk = @ + 1, !.retry = 0, !.tmr = t]]
             /\ nv' = [nv EXCEPT ![n].flash = P(w).slot]
             /\ core' = IF P(w).ok /\ t THEN After(n, NoState, 0, core[n].err)
                        ELSE After(n, "Error", IF P(w).ok \/ t THEN 1 ELSE 2,
                                   IF t THEN "BmFrame" ELSE "Aborted")
      BY <1>6 DEF ReceiveChunk
    <2>2. w \in BOOLEAN
      BY Oracles
    <2>3. Staged(c.rcvd \o d, P(w).page, P(w).off, P(w).slot)
      BY <1>4, <2>2
    <2> HIDE DEF P, d
    <2>4. /\ cli'[n].rcvd = c.rcvd \o d /\ cli'[n].page = P(w).page
          /\ cli'[n].off = P(w).off /\ cli'[n].img = c.img
          /\ nv'[n].flash = P(w).slot /\ DataOthers(n)
      BY <1>5, <2>1
    <2>5. (CoreRuns(n, NoState) \/ CoreRuns(n, "Error")) /\ CoreOthers(n)
      BY <1>0, <2>1, AfterRuns
    <2>6. NodeGood(n)'
      BY <1>0, <1>3, <2>3, <2>4, <2>5 DEF NodeGood, CoreRuns, Orderly, Stored
    <2> QED BY <2>4, <2>5, <2>6 DEF GoodStep
  <1>7. CASE ReceiveLastChunk(n)
    <2>1. PICK w \in IoOK, g \in IoOK :
             /\ cli' = [cli EXCEPT ![n] =
                   [c EXCEPT !.rcvd = @ \o d, !.page = P(w).page,
                             !.off = Flush(P(w), g).off,
                             !.chunk = @ + 1, !.retry = 0, !.tmr = FALSE]]
             /\ nv' = [nv EXCEPT ![n].flash = Flush(P(w), g).slot]
             /\ core' = After(n, IF Flush(P(w), g).ok THEN "ClientValidating"
                                                      ELSE "Error",
                              IF P(w).ok THEN 1 ELSE 2,
                              IF P(w).ok /\ Flush(P(w), g).ok THEN core[n].err
                                                              ELSE "BmFrame")
      BY <1>7 DEF ReceiveLastChunk
    <2>2. w \in BOOLEAN /\ g \in BOOLEAN /\ c.rcvd \o d \in Seq(Unit)
      BY <1>1, <1>2, Oracles, ConcatProperties
    <2>3. P(w) \in PayloadType /\ Staged(c.rcvd \o d, P(w).page, P(w).off, P(w).slot)
      BY <1>4, <2>2
    <2> HIDE DEF P, d
    <2>4. Flush(P(w), g).ok => Staged(c.rcvd \o d, <<>>, Flush(P(w), g).off,
                                      Flush(P(w), g).slot)
      BY <2>2, <2>3, FlushStages
    <2>5. /\ cli'[n].rcvd = c.rcvd \o d
          /\ cli'[n].off = Flush(P(w), g).off /\ cli'[n].img = c.img
          /\ nv'[n].flash = Flush(P(w), g).slot /\ DataOthers(n)
      BY <1>5, <2>1, ZenonT(30)
    <2>6. /\ \/ CoreRuns(n, "Error")
             \/ Flush(P(w), g).ok /\ CoreRuns(n, "ClientValidating")
          /\ CoreOthers(n)
      BY <1>0, <2>1, AfterRuns
    <2>7. NodeGood(n)'
      BY <1>0, <1>3, <2>4, <2>5, <2>6 DEF NodeGood, CoreRuns, Orderly, Stored
    <2> QED BY <2>5, <2>6, <2>7 DEF GoodStep
  <1> QED BY <1>6, <1>7

\* s_client_validating_entry compares the length written and the CRC of what
\* was received: together they say that nothing was lost, so the slot holds it.
LEMMA RebootGood ==
  ASSUME TypeInv, NEW n \in Node, NodeGood(n),
         \/ ValidatingEntry(n) \/ RebootReqEntry(n) \/ RebootReqRun(n)
         \/ ActivatingEntry(n)
  PROVE  GoodStep(n)
  <1>1. CASE ValidatingEntry(n)
    <2>0. core[n].pend = "ClientValidating"
      BY <1>1 DEF ValidatingEntry, Enters
    <2>1. ASSUME ImageComplete(n), CrcMatches(n),
                 Entered(n, "ClientValidating", "ClientRebootReq", core[n].err),
                 UNCHANGED cli
          PROVE  GoodStep(n)
      <3>1. CoreEnters(n, "ClientValidating", "ClientRebootReq") /\ CoreOthers(n)
        BY <2>1, EnteredEnters
      <3>2. Staged(cli[n].rcvd, <<>>, cli[n].off, nv[n].flash) /\ Fits(cli[n].img)
        BY <2>0 DEF NodeGood, Orderly, Stored
      <3>3. /\ cli[n].img \in Image /\ cli[n].img.size \in Nat
            /\ cli[n].off = cli[n].img.size /\ cli[n].rcvd = Content(cli[n].img)
        BY <2>1, CliFields, CoreAssumption DEF ImageComplete, CrcMatches
      <3>4. Len(cli[n].rcvd) = cli[n].img.size
        BY <3>3 DEF Content
      <3>5. \A k \in 1..cli[n].off : k <= SlotSize => nv[n].flash[k] = cli[n].rcvd[k]
        BY <3>2, <3>3, <3>4 DEF Staged
      <3>6. Intact(cli[n].img, nv[n].flash)
        BY <3>2, <3>3, <3>5, CoreAssumption DEF Intact, Fits
      <3>7. UNCHANGED nv
        BY <1>1 DEF ValidatingEntry
      <3>8. NodeGood(n)'
        BY <2>1, <3>1, <3>6, <3>7 DEF NodeGood, CoreEnters, Orderly, Stored
      <3> QED BY <2>1, <3>1, <3>7, <3>8 DEF GoodStep, DataOthers
    <2>2. ASSUME NEW e, Entered(n, "ClientValidating", "Error", e),
                 NEW t, cli' = [cli EXCEPT ![n].tmr = t]
          PROVE  GoodStep(n)
      <3>1. CoreEnters(n, "ClientValidating", "Error") /\ CoreOthers(n)
        BY <2>2, EnteredEnters
      <3>2. NodeGood(n)'
        BY <3>1, EnterGood DEF Plainly, State, ClientState
      <3>3. DataOthers(n)
        BY <1>1, <2>2, CliBytesKept DEF ValidatingEntry
      <3> QED BY <3>1, <3>2, <3>3 DEF GoodStep
    <2> QED BY <1>1, <2>1, <2>2 DEF ValidatingEntry
  <1>2. CASE RebootReqEntry(n)
    <2>1. CoreEnters(n, "ClientRebootReq", NoState) /\ CoreOthers(n)
      BY <1>2, EnteredEnters DEF RebootReqEntry
    <2>2. BytesKept(n) /\ DataOthers(n)
      BY <1>2, CliBytesKept DEF RebootReqEntry
    <2>3. Intact(cli[n].img, nv[n].flash)
      BY <1>2 DEF RebootReqEntry, Enters, NodeGood, Stored
    <2>4. NodeGood(n)'
      BY <2>1, <2>2, <2>3 DEF NodeGood, CoreEnters, BytesKept, Orderly, Stored
    <2> QED BY <2>1, <2>2, <2>4 DEF GoodStep
  <1>3. CASE RebootReqRun(n)
    <2>0. core[n].q # <<>> /\ core[n].cur = NoEvent /\ core[n].st = "ClientRebootReq"
      BY <1>3 DEF RebootReqRun, Receives, InState
    <2>1. BytesKept(n) /\ DataOthers(n)
      <3>1. /\ \E r, t : \/ UNCHANGED cli
                         \/ cli' = [cli EXCEPT ![n].tmr = t]
                         \/ cli' = [cli EXCEPT ![n].retry = r, ![n].tmr = t]
            /\ UNCHANGED nv
        BY <1>3 DEF RebootReqRun
      <3> QED BY <3>1, CliBytesKept
    <2>2. CASE GoTo(n, "ClientActivating")
      <3>1. CoreRuns(n, "ClientActivating") /\ CoreOthers(n)
        BY <2>0, <2>2, StepsRun
      <3>2. NodeGood(n)'
        BY <2>0, <2>1, <3>1 DEF NodeGood, CoreRuns, BytesKept, Orderly, Stored
      <3> QED BY <2>1, <3>1, <3>2 DEF GoodStep
    <2>3. CASE Stay(n) \/ \E e : Fail(n, e)
      <3>1. \E s \in Harmless : CoreRuns(n, s) /\ CoreOthers(n)
        BY <2>0, <2>3, StepsRun DEF Harmless
      <3> QED BY <2>0, <2>1, <3>1, RunGood DEF GoodStep
    <2> QED BY <1>3, <2>2, <2>3 DEF RebootReqRun
  <1>4. CASE ActivatingEntry(n)
    BY <1>4, ResetGood DEF ActivatingEntry
  <1> QED BY <1>1, <1>2, <1>3, <1>4

LEMMA UpdateDoneGood ==
  ASSUME TypeInv, NEW n \in Node, NodeGood(n),
         \/ UpdateDoneEntry(n) \/ ForcedConfirm(n) \/ WrongVersion(n)
         \/ Confirmed(n) \/ ConfirmTimeout(n) \/ ConfirmAborted(n)
         \/ UpdateDoneIgnores(n)
  PROVE  GoodStep(n)
  <1>0. /\ nv \in [Node -> NvType] /\ nv[n] \in NvType
        /\ cli \in [Node -> CliType] /\ cli[n] \in CliType
    BY DEF TypeInv, TypeOK
  <1>1. ASSUME CoreEnters(n, "ClientRebootDone", NoState), CoreOthers(n), DataOthers(n)
        PROVE  GoodStep(n)
    BY <1>1, EnterGood DEF GoodStep, Plainly, State, ClientState
  <1>2. CASE UpdateDoneEntry(n)
    <2>1. CoreEnters(n, "ClientRebootDone", NoState) /\ CoreOthers(n)
      BY <1>2, EnteredEnters DEF UpdateDoneEntry
    <2>2. DataOthers(n)
      <3>1. UNCHANGED nv /\ \E t : cli' = [cli EXCEPT ![n].host = nv[n].info.host,
                                                   ![n].retry = 0, ![n].tmr = t]
        BY <1>2 DEF UpdateDoneEntry
      <3> QED BY <1>0, <3>1 DEF DataOthers
    <2> QED BY <1>1, <2>1, <2>2
  <1>3. CASE ForcedConfirm(n)
    <2>1. PICK saved \in IoOK :
             /\ nv' = [nv EXCEPT ![n].info = NoInfo, ![n].confirmed = TRUE,
                                 ![n].confirmCfg = saved]
             /\ \/ saved /\ RamReset(n)
                \/ /\ ~saved
                   /\ Entered(n, "ClientRebootDone", NoState, core[n].err)
                   /\ cli' = [cli EXCEPT ![n].host = nv[n].info.host,
                                         ![n].retry = 0]
                   /\ UNCHANGED <<hst, app>>
      BY <1>3 DEF ForcedConfirm
    <2>2. \E r : nv' = [nv EXCEPT ![n] = r]
      BY <1>0, <2>1 DEF NvType
    <2>3. CASE RamReset(n)
      BY <2>2, <2>3, ResetGood
    <2>4. CASE /\ Entered(n, "ClientRebootDone", NoState, core[n].err)
               /\ cli' = [cli EXCEPT ![n].host = nv[n].info.host, ![n].retry = 0]
      <3>1. CoreEnters(n, "ClientRebootDone", NoState) /\ CoreOthers(n)
        BY <2>4, EnteredEnters
      <3>2. DataOthers(n)
        BY <1>0, <2>2, <2>4 DEF DataOthers
      <3> QED BY <1>1, <3>1, <3>2
    <2> QED BY <2>1, <2>3, <2>4
  <1>4. CASE WrongVersion(n)
    BY <1>4, ResetGood DEF WrongVersion
  <1>5. CASE ConfirmAborted(n)
    BY <1>5, ResetGood DEF ConfirmAborted
  <1>6. CASE Confirmed(n)
    <2>0. core[n].q # <<>> /\ core[n].cur = NoEvent
      BY <1>6 DEF Confirmed, Receives
    <2>1. CoreRuns(n, "Idle") /\ CoreOthers(n) /\ "Idle" \in Harmless
      BY <1>6, <2>0, StepsRun DEF Confirmed, Harmless
    <2>2. BytesKept(n) /\ DataOthers(n)
      <3>1. PICK t : cli' = [cli EXCEPT ![n].tmr = t]
        BY <1>6 DEF Confirmed
      <3>2. nv' = [nv EXCEPT ![n].confirmed = TRUE]
        BY <1>6 DEF Confirmed
      <3>3. nv'[n].flash = nv[n].flash /\ \A m \in Node \ {n} : nv'[m] = nv[m]
        BY <1>0, <3>2 DEF NvType
      <3> QED BY <1>0, <3>1, <3>3 DEF CliType, BytesKept, DataOthers
    <2> QED BY <2>0, <2>1, <2>2, RunGood DEF GoodStep
  <1>7. CASE ConfirmTimeout(n) \/ UpdateDoneIgnores(n)
    <2>0. core[n].q # <<>> /\ core[n].cur = NoEvent
      BY <1>7 DEF ConfirmTimeout, UpdateDoneIgnores, Receives
    <2>1. CoreRuns(n, NoState) /\ CoreOthers(n) /\ NoState \in Harmless
      BY <1>7, <2>0, StepsRun DEF ConfirmTimeout, UpdateDoneIgnores, Harmless
    <2>2. BytesKept(n) /\ DataOthers(n)
      <3>1. /\ \E r, t : \/ UNCHANGED cli
                         \/ cli' = [cli EXCEPT ![n].retry = r, ![n].tmr = t]
            /\ UNCHANGED nv
        BY <1>7 DEF ConfirmTimeout, UpdateDoneIgnores
      <3> QED BY <3>1, CliBytesKept
    <2> QED BY <2>0, <2>1, <2>2, RunGood DEF GoodStep
  <1> QED BY <1>2, <1>3, <1>4, <1>5, <1>6, <1>7

-----------------------------------------------------------------------------
(* The theorem *)

LEMMA InitGood == Init => NothingMisplaced
  BY DEF Init, BootCore, NothingMisplaced, Orderly, Stored

\* Every step is one node's: its thread's, a reset, or an event queued for it.
Queues(n) ==
  \/ Application(n) \/ ChunkTimer(n) \/ AckTimer(n) \/ UpdateTimer(n)
  \/ HeartbeatTimer(n) \/ \E s \in Node : Link(s, n)
Step(n) == Thread(n) \/ Reset(n) \/ Queues(n)

LEMMA StepGood ==
  ASSUME ~WriteNeedsErase, TypeInv, NEW n \in Node, NodeGood(n), Step(n)
  PROVE  GoodStep(n)
  <1>1. ASSUME ClientThread(n) PROVE GoodStep(n)
    BY <1>1, RequestGood, ReceivingGood, ChunkGood, RebootGood, UpdateDoneGood
       DEF ClientThread
  <1>2. ASSUME Thread(n) PROVE GoodStep(n)
    BY <1>1, <1>2, CoreStepGood, HostStepGood DEF Thread
  <1>3. ASSUME Reset(n) PROVE GoodStep(n)
    BY <1>3, ResetGood DEF Reset
  <1>4. ASSUME Queues(n) PROVE GoodStep(n)
    BY <1>4, QueueStepGood DEF Queues
  <1> QED BY <1>2, <1>3, <1>4 DEF Step

LEMMA NextGood ==
  ASSUME ~WriteNeedsErase
  PROVE  TypeInv /\ NothingMisplaced /\ [Next]_vars => NothingMisplaced'
  <1> SUFFICES ASSUME TypeInv, NothingMisplaced, [Next]_vars
               PROVE  NothingMisplaced'
    OBVIOUS
  <1>0. \A n \in Node : NodeGood(n)
    BY DEF NothingMisplaced, NodeGood
  <1>1. ASSUME NEW n \in Node, GoodStep(n) PROVE NothingMisplaced'
    <2>1. ASSUME NEW m \in Node PROVE NodeGood(m)'
      <3>1. CASE m = n
        BY <1>1, <3>1 DEF GoodStep
      <3>2. CASE m # n
        <4>1. core'[m] = core[m] /\ cli'[m] = cli[m] /\ nv'[m] = nv[m]
          BY <1>1, <3>2 DEF GoodStep, CoreOthers, DataOthers
        <4> QED BY <1>0, <4>1, KeptGood DEF CoreKept, BytesKept
      <3> QED BY <3>1, <3>2
    <2> QED BY <2>1 DEF NothingMisplaced, NodeGood
  <1>2. CASE UNCHANGED vars
    BY <1>2 DEF vars, NothingMisplaced
  <1>3. ASSUME NEW n \in Node, Step(n) PROVE GoodStep(n)
    BY <1>0, <1>3, StepGood
  <1> QED BY <1>1, <1>2, <1>3 DEF Next, Step, Queues

\* The bytes a client received are in its slot, in its page buffer or known to
\* be lost, whatever the link, the flash and resets do, and a state past the
\* check of the image is entered only from the one before it
\* (s_client_process_chunk, s_client_validating_entry, lib_sm_run).
THEOREM BytesAccounted ==
  ASSUME ~WriteNeedsErase
  PROVE  Spec => []NothingMisplaced
  <1>1. TypeInv /\ NothingMisplaced /\ [Next]_vars => NothingMisplaced'
    BY NextGood
  <1> QED BY <1>1, InitTyped, NextTyped, InitGood, PTL DEF Spec

\* However many nodes, images, chunks, retries, lost messages, failed writes
\* and resets there are, a client asks for the reboot into, and activates, only
\* a slot that holds the whole image it accepted.
THEOREM IntactImage ==
  ASSUME ~WriteNeedsErase
  PROVE  Spec => []ActivatesOnlyIntactImage
  <1>1. NothingMisplaced => ActivatesOnlyIntactImage
    BY DEF NothingMisplaced, Stored, Intact, ActivatesOnlyIntactImage, Verified, InState
  <1> QED BY <1>1, BytesAccounted, PTL

-----------------------------------------------------------------------------
(* The trial of a new image *)

TrialNode(n) == OnTrial(core[n].st, core[n].pend, cli[n].img, nv[n])

\* Neither the image of the transfer nor what the node knows of its firmware.
VerdictKept(n) ==
  /\ cli'[n].img = cli[n].img /\ nv'[n].info = nv[n].info
  /\ nv'[n].fw = nv[n].fw /\ nv'[n].confirmed = nv[n].confirmed

LEMMA KeptTrial ==
  ASSUME NEW n, TrialNode(n), CoreKept(n), VerdictKept(n)
  PROVE  TrialNode(n)'
  BY DEF TrialNode, CoreKept, VerdictKept, OnTrial, Remembers

\* A run function asks for a state change that a node on trial does not make,
\* and for a state of the transfer only in one.
LEMMA RunTrial ==
  ASSUME NEW n, TrialNode(n), NEW s, CoreRuns(n, s), VerdictKept(n),
         \/ s \in {NoState, "ClientRebootDone"}
         \/ core[n].st \notin {"Init", "ClientRebootDone"}
         \/ nv[n].confirmed,
         s \in Fetching => core[n].st \in Fetching
  PROVE  TrialNode(n)'
  BY DEF TrialNode, CoreRuns, VerdictKept, OnTrial, Remembers, Fetching, NoState

LEMMA EnterTrial ==
  ASSUME NEW n, TrialNode(n), NEW s, NEW p, CoreEnters(n, s, p), VerdictKept(n),
         s \in Fetching \/ p \in Fetching =>
            core[n].st \in Fetching \/ core[n].pend \in Fetching,
         (s = "ClientRebootDone" /\ p = NoState) \/ nv[n].confirmed
  PROVE  TrialNode(n)'
  BY DEF TrialNode, CoreEnters, VerdictKept, OnTrial, Remembers, Fetching, NoState

\* Once the firmware is confirmed, any state outside the transfer is fine.
LEMMA ConfirmedTrial ==
  ASSUME NEW n, nv'[n].confirmed, core'[n].st \notin Fetching,
         core'[n].pend \notin Fetching
  PROVE  TrialNode(n)'
  BY DEF TrialNode, OnTrial

\* A state change to one that a node on trial does not enter is pending.
LEMMA PendingConfirmed ==
  ASSUME TypeInv, NEW n \in Node, TrialNode(n),
         core[n].pend \notin {NoState, "ClientRebootDone"}
  PROVE  nv[n].confirmed
  BY DEF TrialNode, OnTrial

LEMMA CliKeepsImage ==
  ASSUME TypeInv, NEW n \in Node, NEW h, NEW r, NEW t,
         \/ UNCHANGED cli
         \/ cli' = [cli EXCEPT ![n].tmr = t]
         \/ cli' = [cli EXCEPT ![n].retry = r, ![n].tmr = t]
         \/ cli' = [cli EXCEPT ![n].host = h]
         \/ cli' = [cli EXCEPT ![n].host = h, ![n].retry = r]
         \/ cli' = [cli EXCEPT ![n].host = h, ![n].retry = r, ![n].tmr = t]
         \/ cli' = [cli EXCEPT ![n] = FromScratch(cli[n], t)]
  PROVE  cli'[n].img = cli[n].img
  <1>1. cli \in [Node -> CliType] /\ cli[n] \in CliType
    BY DEF TypeInv, TypeOK
  <1>2. FromScratch(cli[n], t).img = cli[n].img
    BY <1>1 DEF FromScratch, CliType
  <1>3. CASE cli' = [cli EXCEPT ![n] = FromScratch(cli[n], t)]
    BY <1>1, <1>2, <1>3
  <1>4. CASE ~(cli' = [cli EXCEPT ![n] = FromScratch(cli[n], t)])
    BY <1>1, <1>4 DEF CliType
  <1> QED BY <1>3, <1>4

LEMMA CoreStepTrial ==
  ASSUME TypeInv, NEW n \in Node, NodeGood(n), TrialNode(n),
         InitRun(n) \/ IdleEntry(n) \/ ErrorEntry(n) \/ PassiveRun(n)
  PROVE  TrialNode(n)'
  <1>0. nv \in [Node -> NvType] /\ nv[n] \in NvType
    BY DEF TypeInv, TypeOK
  <1>1. CASE InitRun(n)
    <2>0. core[n].q # <<>> /\ core[n].cur = NoEvent /\ VerdictKept(n)
      BY <1>1 DEF InitRun, Receives, VerdictKept
    <2>1. \/ CoreRuns(n, NoState)
          \/ CoreRuns(n, "ClientRebootDone")
          \/ CoreRuns(n, "Idle") /\ ~nv[n].info.magic
      BY <1>1, <2>0, StepsRun DEF InitRun
    <2>2. ~nv[n].info.magic => nv[n].confirmed
      BY DEF TrialNode, OnTrial, Remembers
    <2> QED BY <2>0, <2>1, <2>2, RunTrial DEF Fetching, NoState
  <1>2. CASE IdleEntry(n)
    <2>1. CoreEnters(n, "Idle", NoState)
      BY <1>2, EnteredEnters DEF IdleEntry
    <2>2. nv[n].confirmed
      BY <1>2, PendingConfirmed DEF IdleEntry, Enters, NoState
    <2>3. nv'[n].confirmed = nv[n].confirmed
      BY <1>0, <1>2 DEF IdleEntry, NvType
    <2> QED BY <2>1, <2>2, <2>3, ConfirmedTrial DEF CoreEnters, Fetching, NoState
  <1>3. CASE ErrorEntry(n)
    <2>1. CoreEnters(n, "Error", NoState) \/ CoreEnters(n, "Error", "Idle")
      BY <1>3, EnteredEnters DEF ErrorEntry
    <2>2. nv[n].confirmed
      BY <1>3, PendingConfirmed DEF ErrorEntry, Enters, NoState
    <2>3. VerdictKept(n)
      BY <1>3 DEF ErrorEntry, VerdictKept
    <2> QED BY <2>1, <2>2, <2>3, EnterTrial DEF Fetching, NoState
  <1>4. CASE PassiveRun(n)
    <2>0. core[n].q # <<>> /\ core[n].cur = NoEvent /\ VerdictKept(n)
      BY <1>4 DEF PassiveRun, Receives, VerdictKept
    <2>1. CoreRuns(n, NoState)
      BY <1>4, <2>0, StepsRun DEF PassiveRun
    <2> QED BY <2>0, <2>1, RunTrial DEF Fetching, NoState
  <1> QED BY <1>1, <1>2, <1>3, <1>4

LEMMA QueueStepTrial ==
  ASSUME TypeInv, NEW n \in Node, TrialNode(n), Queues(n)
  PROVE  TrialNode(n)'
  <1>0. core \in [Node -> CoreType] /\ core[n] \in CoreType
    BY DEF TypeInv, TypeOK
  <1>1. CoreKept(n)
    <2>1. CASE SetInternal(n)
      BY <1>0, <2>1 DEF SetInternal, CoreType, CoreKept
    <2>2. CASE ~SetInternal(n)
      <3>1. \/ UNCHANGED core \/ \E q : core' = [core EXCEPT ![n].q = q]
            \/ \E t : TimerEvent(n, t)
        BY <2>2 DEF Queues, Application, Initiate, ChunkTimer, AckTimer,
                    UpdateTimer, HeartbeatTimer, Link, Deliver, Lose
      <3> QED BY <3>1, QueuedKeeps, TimedKeeps DEF CoreKept
    <2> QED BY <2>1, <2>2
  <1>2. UNCHANGED nv /\ \E t : UNCHANGED cli \/ cli' = [cli EXCEPT ![n].tmr = t]
    BY DEF Queues, Application, Initiate, SetInternal, ChunkTimer, AckTimer,
           UpdateTimer, HeartbeatTimer, Link, Deliver, Lose
  <1>3. VerdictKept(n)
    BY <1>2, CliKeepsImage DEF VerdictKept
  <1> QED BY <1>1, <1>3, KeptTrial

\* A node in a host state, or about to enter one, runs confirmed firmware.
LEMMA HostStepTrial ==
  ASSUME TypeInv, NEW n \in Node, NodeGood(n), TrialNode(n), HostThread(n)
  PROVE  TrialNode(n)'
  <1>1. UNCHANGED <<cli, nv>>
    BY DEF HostThread, BeginHostRun, IdleIgnores, ReqUpdateEntry, ReqUpdateAck,
           ReqUpdateTimeout, HostAborted, ReqUpdateIgnores, HostUpdateEntry,
           ServeChunk, ServeChunkFails, ServeNoMemory, ServeTimerFails,
           AllowReboot, ConfirmBoot, UpdateEnds, HostUpdateIgnores
  <1>2. VerdictKept(n)
    BY <1>1 DEF VerdictKept
  <1>3. CASE ReqUpdateEntry(n) \/ HostUpdateEntry(n)
    <2>1. \E s \in HostState : CoreEnters(n, s, NoState) /\ core[n].pend = s
      BY <1>3, EnteredEnters DEF ReqUpdateEntry, HostUpdateEntry, HostState, Enters
    <2>2. nv[n].confirmed
      BY <2>1, PendingConfirmed DEF HostState, NoState
    <2> QED BY <1>2, <2>1, <2>2, EnterTrial DEF HostState, Fetching, NoState
  <1>4. CASE ~(ReqUpdateEntry(n) \/ HostUpdateEntry(n))
    <2>1. /\ core[n].q # <<>> /\ core[n].cur = NoEvent
          /\ core[n].st \in HostState \cup {"Idle"}
      BY <1>4 DEF HostThread, BeginHostRun, IdleIgnores, ReqUpdateAck,
             ReqUpdateTimeout, HostAborted, ReqUpdateIgnores, ServeChunk,
             ServeChunkFails, ServeNoMemory, ServeTimerFails, AllowReboot,
             ConfirmBoot, UpdateEnds, HostUpdateIgnores, Receives, InState, HostState
    <2>2. nv[n].confirmed /\ core[n].pend = NoState
      BY <2>1 DEF TrialNode, OnTrial, HostState, NodeGood, Orderly
    <2>3. core'[n].st = core[n].st /\ core'[n].pend \notin Fetching
      <3>1. CASE BeginHostRun(n)
        <4> DEFINE a == After(n, "HostReqUpdate", 1, core[n].err)
        <4>1. core \in [Node -> CoreType] /\ core[n] \in CoreType
          BY DEF TypeInv, TypeOK
        <4>2. a[n].st = core[n].st /\ a[n].pend = "HostReqUpdate" /\ DOMAIN a = Node
          BY <4>1 DEF After, CoreType, NoState
        <4>3. core' = [a EXCEPT ![n].cb = Evt(n).upd, ![n].peer = Evt(n).client]
          BY <3>1 DEF BeginHostRun
        <4> HIDE DEF a
        <4>4. core'[n].st = a[n].st /\ core'[n].pend = a[n].pend
          BY <4>2, <4>3
        <4> QED BY <4>2, <4>4 DEF Fetching
      <3>2. CASE ~BeginHostRun(n)
        <4>1. \/ Stay(n) \/ GoTo(n, "HostUpdate") \/ GoTo(n, "Idle")
              \/ \E e : Fail(n, e) \/ core' = After(n, "Error", 2, e)
          BY <1>4, <3>2 DEF HostThread, IdleIgnores, ReqUpdateAck, HostFails,
               ReqUpdateTimeout, HostAborted, ReqUpdateIgnores, ServeChunk,
               ServeChunkFails, ServeNoMemory, ServeTimerFails, AllowReboot,
               ConfirmBoot, UpdateEnds, HostUpdateIgnores
        <4>2. \E s \in Harmless : CoreRuns(n, s)
          BY <2>1, <4>1, StepsRun, AfterRuns DEF Harmless
        <4> QED BY <2>2, <4>2 DEF CoreRuns, Harmless, Fetching, NoState
      <3> QED BY <3>1, <3>2
    <2> QED BY <1>1, <2>1, <2>2, <2>3, ConfirmedTrial DEF HostState, Fetching
  <1> QED BY <1>3, <1>4

\* A request: the record is written before Client Rx is entered.
LEMMA RequestTrial ==
  ASSUME TypeInv, NEW n \in Node, NodeGood(n), TrialNode(n),
         \/ RefuseSameVersion(n) \/ RefuseTooLarge(n) \/ RefuseFlash(n)
         \/ AcceptRequest(n)
  PROVE  TrialNode(n)'
  <1>0. /\ core[n].q # <<>> /\ core[n].cur = NoEvent /\ core[n].st = "Idle"
        /\ nv \in [Node -> NvType] /\ nv[n] \in NvType
        /\ cli \in [Node -> CliType] /\ cli[n] \in CliType
        /\ Evt(n).ev = "Start"
    BY DEF RefuseSameVersion, RefuseTooLarge, RefuseFlash, AcceptRequest,
           Receives, InState, TypeInv, TypeOK
  <1>1. nv[n].confirmed /\ core[n].pend = NoState
    BY <1>0 DEF TrialNode, OnTrial, NodeGood, Orderly
  <1>2. Evt(n).src \in Node
    BY <1>0, EvtTyped, EventFields DEF TypeInv
  <1>3. CASE RefuseSameVersion(n) \/ RefuseTooLarge(n) \/ RefuseFlash(n)
    <2>1. CoreRuns(n, NoState) \/ CoreRuns(n, "Error")
      BY <1>0, <1>3, StepsRun DEF RefuseSameVersion, RefuseTooLarge, RefuseFlash
    <2>2. UNCHANGED nv
      BY <1>3 DEF RefuseSameVersion, RefuseTooLarge, RefuseFlash
    <2> QED BY <1>0, <1>1, <2>1, <2>2, ConfirmedTrial DEF CoreRuns, Fetching, NoState
  <1>4. CASE AcceptRequest(n)
    <2>1. CoreRuns(n, "ClientReceiving")
      BY <1>0, <1>4, StepsRun DEF AcceptRequest
    <2>2. cli'[n].img = Evt(n).img
      BY <1>0, <1>4 DEF AcceptRequest, CliType
    <2> DEFINE i == [magic |-> TRUE, host |-> Evt(n).src, sha |-> Evt(n).img.sha]
    <2>3. nv' = [nv EXCEPT ![n].flash = BlankSlot, ![n].info = i]
      BY <1>4 DEF AcceptRequest
    <2> HIDE DEF i
    <2>4. nv'[n].info = i /\ nv'[n].confirmed = nv[n].confirmed
      BY <1>0, <2>3 DEF NvType
    <2>5. Remembers(i, Evt(n).img)
      BY <1>2 DEF i, Remembers
    <2> QED BY <1>0, <1>1, <2>2, <2>4, <2>5 DEF TrialNode, OnTrial
  <1> QED BY <1>3, <1>4

LEMMA ReceivingTrial ==
  ASSUME TypeInv, NEW n \in Node, NodeGood(n), TrialNode(n),
         \/ ReceivingEntry(n) \/ ReceivingTimerFails(n) \/ ReceivingTimeout(n)
         \/ Resync(n) \/ HostIsAlive(n) \/ ReceivingIgnores(n)
  PROVE  TrialNode(n)'
  <1>1. UNCHANGED nv /\ \E r, t :
          \/ UNCHANGED cli
          \/ cli' = [cli EXCEPT ![n].tmr = t]
          \/ cli' = [cli EXCEPT ![n].retry = r, ![n].tmr = t]
          \/ cli' = [cli EXCEPT ![n] = FromScratch(cli[n], t)]
    BY DEF ReceivingEntry, ReceivingTimerFails, ReceivingTimeout, Resync,
           HostIsAlive, ReceivingIgnores
  <1>2. VerdictKept(n)
    BY <1>1, CliKeepsImage, ZenonT(30) DEF VerdictKept
  <1>3. CASE ReceivingEntry(n)
    <2>1. CoreEnters(n, "ClientReceiving", NoState) /\ core[n].pend = "ClientReceiving"
      BY <1>3, EnteredEnters DEF ReceivingEntry, Enters
    <2>2. nv[n].confirmed
      BY <2>1, PendingConfirmed DEF NoState
    <2> QED BY <1>2, <2>1, <2>2, EnterTrial DEF Fetching, NoState
  <1>4. CASE ~ReceivingEntry(n)
    <2>1. core[n].q # <<>> /\ core[n].st = "ClientReceiving"
      BY <1>4 DEF ReceivingTimerFails, ReceivingTimeout, Resync, HostIsAlive,
                  ReceivingIgnores, Receives, InState
    <2>2. CoreRuns(n, NoState) \/ CoreRuns(n, "Error")
      BY <1>4, <2>1, StepsRun DEF ReceivingTimerFails, ReceivingTimeout, Resync,
                  HostIsAlive, ReceivingIgnores
    <2> QED BY <1>2, <2>1, <2>2, RunTrial DEF Fetching, NoState
  <1> QED BY <1>3, <1>4

LEMMA ChunkTrial ==
  ASSUME TypeInv, NEW n \in Node, NodeGood(n), TrialNode(n),
         ReceiveChunk(n) \/ ReceiveLastChunk(n)
  PROVE  TrialNode(n)'
  <1>0. core[n].q # <<>> /\ core[n].st = "ClientReceiving"
    BY DEF ReceiveChunk, ReceiveLastChunk, Receives, InState
  <1>1. /\ cli \in [Node -> CliType] /\ nv \in [Node -> NvType]
        /\ cli[n] \in CliType /\ nv[n] \in NvType
    BY DEF TypeInv, TypeOK
  <1>2. \E rcvd, page, off, chunk, t, slot :
          /\ cli' = [cli EXCEPT ![n] =
                [cli[n] EXCEPT !.rcvd = rcvd, !.page = page, !.off = off,
                               !.chunk = chunk, !.retry = 0, !.tmr = t]]
          /\ nv' = [nv EXCEPT ![n].flash = slot]
    <2>1. CASE ReceiveChunk(n)
      <3>1. PICK p, t : 
              /\ cli' = [cli EXCEPT ![n] =
                    [cli[n] EXCEPT !.rcvd = @ \o Evt(n).data, !.page = p.page,
                              !.off = p.off, !.chunk = @ + 1, !.retry = 0, !.tmr = t]]
              /\ nv' = [nv EXCEPT ![n].flash = p.slot]
        BY <2>1 DEF ReceiveChunk
      <3> QED BY <3>1
    <2>2. CASE ReceiveLastChunk(n)
      <3>1. PICK p, f : 
              /\ cli' = [cli EXCEPT ![n] =
                    [cli[n] EXCEPT !.rcvd = @ \o Evt(n).data, !.page = p.page,
                              !.off = f.off, !.chunk = @ + 1, !.retry = 0, !.tmr = FALSE]]
              /\ nv' = [nv EXCEPT ![n].flash = f.slot]
        BY <2>2 DEF ReceiveLastChunk
      <3> QED BY <3>1
    <2> QED BY <2>1, <2>2
  <1>3. VerdictKept(n)
    <2>1. PICK rcvd, page, off, chunk, t, slot :
          /\ cli' = [cli EXCEPT ![n] =
                [cli[n] EXCEPT !.rcvd = rcvd, !.page = page, !.off = off,
                               !.chunk = chunk, !.retry = 0, !.tmr = t]]
          /\ nv' = [nv EXCEPT ![n].flash = slot]
      BY <1>2
    <2> DEFINE x == [cli[n] EXCEPT !.rcvd = rcvd, !.page = page, !.off = off,
                               !.chunk = chunk, !.retry = 0, !.tmr = t]
    <2>2. x.img = cli[n].img
      BY <1>1 DEF CliType
    <2>3. cli' = [cli EXCEPT ![n] = x]
      BY <2>1
    <2> HIDE DEF x
    <2>4. cli'[n].img = cli[n].img
      BY <1>1, <2>2, <2>3
    <2>5. nv'[n].info = nv[n].info /\ nv'[n].fw = nv[n].fw
          /\ nv'[n].confirmed = nv[n].confirmed
      BY <1>1, <2>1 DEF NvType
    <2> QED BY <2>4, <2>5 DEF VerdictKept
  <1>4. \E s \in {NoState, "Error", "ClientValidating"} : CoreRuns(n, s)
    <2>1. \E s \in {NoState, "Error", "ClientValidating"} :
             \E k, e : core' = After(n, s, k, e)
      <3>1. ASSUME ReceiveChunk(n)
            PROVE  \E p, t : core' = IF p.ok /\ t THEN After(n, NoState, 0, core[n].err)
                       ELSE After(n, "Error", IF p.ok \/ t THEN 1 ELSE 2,
                                  IF t THEN "BmFrame" ELSE "Aborted")
        BY <3>1 DEF ReceiveChunk
      <3>2. ASSUME ReceiveLastChunk(n)
            PROVE  \E p, f :
                      core' = After(n, IF f.ok THEN "ClientValidating" ELSE "Error",
                               IF p.ok THEN 1 ELSE 2,
                               IF p.ok /\ f.ok THEN core[n].err ELSE "BmFrame")
        BY <3>2 DEF ReceiveLastChunk
      <3> QED BY <3>1, <3>2
    <2> QED BY <1>0, <2>1, AfterRuns
  <1> QED BY <1>0, <1>3, <1>4, RunTrial DEF Fetching, NoState

\* The boot loader runs what the slot holds: the image the client accepted.
LEMMA SlotIsImage ==
  ASSUME NEW r \in NvType, NEW img \in Image, Intact(img, r.flash), NEW i \in Slot(r)
  PROVE  i.sha = img.sha
  <1>1. /\ r.flash \in SlotType /\ i \in Image /\ i.size <= SlotSize
        /\ SubSeq(r.flash, 1, i.size) = Content(i)
    BY DEF NvType, SlotType, Slot
  <1>2. i.size \in Nat \ {0} /\ img.size \in Nat \ {0} /\ SlotSize \in Nat
    BY <1>1, CoreAssumption
  <1>3. r.flash[1] = <<img.id, 1>>
    <2>1. 1 \in 1..img.size
      BY <1>2
    <2>2. Content(img)[1] = <<img.id, 1>>
      BY <2>1 DEF Content
    <2> QED BY <2>1, <2>2 DEF Intact
  <1>4. SubSeq(r.flash, 1, i.size)[1] = r.flash[1]
    <2>1. r.flash \in Seq(Unit \cup {Erased, Corrupt}) /\ Len(r.flash) = SlotSize
      BY <1>1, <1>2 DEF SlotType
    <2> QED BY <1>1, <1>2, <2>1
  <1>5. Content(i)[1] = <<i.id, 1>>
    BY <1>2 DEF Content
  <1>6. i.id = img.id
    <2>1. <<i.id, 1>> = <<img.id, 1>>
      BY <1>1, <1>3, <1>4, <1>5
    <2> QED BY <2>1
  <1> QED BY <1>1, <1>6, CoreAssumption

LEMMA RebootTrial ==
  ASSUME TypeInv, NEW n \in Node, NodeGood(n), TrialNode(n),
         \/ ValidatingEntry(n) \/ RebootReqEntry(n) \/ RebootReqRun(n)
         \/ ActivatingEntry(n)
  PROVE  TrialNode(n)'
  <1>0. /\ nv \in [Node -> NvType] /\ nv[n] \in NvType
        /\ cli[n] \in CliType /\ cli[n].img \in Image
    BY DEF TypeInv, TypeOK, CliType
  <1>1. ASSUME ValidatingEntry(n) \/ RebootReqEntry(n) \/ RebootReqRun(n)
        PROVE  VerdictKept(n)
    <2>1. UNCHANGED nv /\ \E r, t :
          \/ UNCHANGED cli
          \/ cli' = [cli EXCEPT ![n].tmr = t]
          \/ cli' = [cli EXCEPT ![n].retry = r, ![n].tmr = t]
      BY <1>1 DEF ValidatingEntry, RebootReqEntry, RebootReqRun
    <2> QED BY <2>1, CliKeepsImage, ZenonT(30) DEF VerdictKept
  <1>2. CASE ValidatingEntry(n)
    <2>1. /\ core[n].pend = "ClientValidating"
          /\ \/ CoreEnters(n, "ClientValidating", "ClientRebootReq")
             \/ CoreEnters(n, "ClientValidating", "Error")
      BY <1>2, EnteredEnters DEF ValidatingEntry, Enters
    <2>2. nv[n].confirmed
      BY <2>1, PendingConfirmed DEF NoState
    <2> QED BY <1>1, <1>2, <2>1, <2>2, EnterTrial DEF Fetching, NoState
  <1>3. CASE RebootReqEntry(n)
    <2>1. /\ core[n].pend = "ClientRebootReq"
          /\ CoreEnters(n, "ClientRebootReq", NoState)
      BY <1>3, EnteredEnters DEF RebootReqEntry, Enters
    <2>2. nv[n].confirmed
      BY <2>1, PendingConfirmed DEF NoState
    <2> QED BY <1>1, <1>3, <2>1, <2>2, EnterTrial DEF Fetching, NoState
  <1>4. CASE RebootReqRun(n)
    <2>1. core[n].q # <<>> /\ core[n].st = "ClientRebootReq"
      BY <1>4 DEF RebootReqRun, Receives, InState
    <2>2. \E s \in {NoState, "Error", "ClientActivating"} : CoreRuns(n, s)
      BY <1>4, <2>1, StepsRun DEF RebootReqRun
    <2> QED BY <1>1, <1>4, <2>1, <2>2, RunTrial DEF Fetching, NoState
  <1>5. CASE ActivatingEntry(n)
    <2>1. /\ core[n].pend = "ClientActivating" /\ nv' = [nv EXCEPT ![n] = Swapped(nv[n])]
          /\ CoreEnters(n, "Init", NoState)
      BY <1>5, ResetEnters DEF ActivatingEntry, Enters
    <2>2. /\ nv[n].confirmed /\ Remembers(nv[n].info, cli[n].img)
          /\ Intact(cli[n].img, nv[n].flash)
      BY <2>1, PendingConfirmed
         DEF TrialNode, OnTrial, Fetching, NoState, NodeGood, Stored
    <2>3. nv'[n] = Swapped(nv[n])
      BY <1>0, <2>1
    <2>4. CASE Slot(nv[n]) = {}
      BY <2>1, <2>2, <2>3, <2>4, ConfirmedTrial DEF Swapped, CoreEnters, Fetching, NoState
    <2>5. CASE Slot(nv[n]) # {}
      <3> DEFINE i == CHOOSE i \in Slot(nv[n]) : TRUE
      <3>1. i \in Slot(nv[n])
        BY <2>5
      <3>2. i.sha = cli[n].img.sha
        BY <1>0, <2>2, <3>1, SlotIsImage
      <3>3. Swapped(nv[n]) = [nv[n] EXCEPT !.fw = i, !.old = nv[n].fw, !.confirmed = FALSE]
        BY <2>5 DEF Swapped
      <3> HIDE DEF i
      <3>4. nv'[n].fw = i /\ nv'[n].info = nv[n].info
        BY <1>0, <2>3, <3>3 DEF NvType
      <3>5. Remembers(nv'[n].info, nv'[n].fw)
        BY <2>2, <3>2, <3>4 DEF Remembers
      <3> QED BY <2>1, <3>5 DEF TrialNode, OnTrial, CoreEnters, Fetching, NoState
    <2> QED BY <2>4, <2>5
  <1> QED BY <1>2, <1>3, <1>4, <1>5

\* Any reset of a node on trial goes back to the firmware before.
LEMMA ResetTrial ==
  ASSUME TypeInv, NEW n \in Node, RamReset(n), NEW i,
         nv' = [nv EXCEPT ![n] = [AfterReset(nv[n]) EXCEPT !.info = i]]
  PROVE  TrialNode(n)'
  <1>0. nv \in [Node -> NvType] /\ nv[n] \in NvType
    BY DEF TypeInv, TypeOK
  <1> DEFINE a == AfterReset(nv[n])
  <1>1. a.confirmed
    BY <1>0 DEF AfterReset, Reverted, NvType
  <1>2. a \in [{"info", "fw", "old", "confirmed", "flash", "confirmCfg"} -> {a[f] : f \in {"info", "fw", "old", "confirmed", "flash", "confirmCfg"}}]
    BY <1>0 DEF AfterReset, Reverted, NvType
  <1> HIDE DEF a
  <1>3. [a EXCEPT !.info = i].confirmed
    BY <1>1, <1>2
  <1>4. nv'[n].confirmed
    BY <1>0, <1>3 DEF a
  <1>5. CoreEnters(n, "Init", NoState)
    BY ResetEnters
  <1> QED BY <1>4, <1>5, ConfirmedTrial DEF CoreEnters, Fetching, NoState

LEMMA UpdateDoneTrial ==
  ASSUME TypeInv, NEW n \in Node, NodeGood(n), TrialNode(n),
         \/ UpdateDoneEntry(n) \/ ForcedConfirm(n) \/ WrongVersion(n)
         \/ Confirmed(n) \/ ConfirmTimeout(n) \/ ConfirmAborted(n)
         \/ UpdateDoneIgnores(n)
  PROVE  TrialNode(n)'
  <1>0. nv \in [Node -> NvType] /\ nv[n] \in NvType
    BY DEF TypeInv, TypeOK
  <1>1. CASE UpdateDoneEntry(n)
    <2>1. CoreEnters(n, "ClientRebootDone", NoState)
      BY <1>1, EnteredEnters DEF UpdateDoneEntry
    <2>2. UNCHANGED nv /\ \E t :
             cli' = [cli EXCEPT ![n].host = nv[n].info.host, ![n].retry = 0, ![n].tmr = t]
      BY <1>1 DEF UpdateDoneEntry
    <2>3. cli'[n].img = cli[n].img
      <3> cli \in [Node -> CliType] /\ cli[n] \in CliType
        BY DEF TypeInv, TypeOK
      <3> QED BY <2>2 DEF CliType
    <2>4. VerdictKept(n)
      BY <2>2, <2>3 DEF VerdictKept
    <2> QED BY <2>1, <2>4, EnterTrial DEF Fetching, NoState
  <1>2. CASE ForcedConfirm(n)
    <2>1. CoreEnters(n, "Init", NoState) \/ CoreEnters(n, "ClientRebootDone", NoState)
      BY <1>2, ResetEnters, EnteredEnters DEF ForcedConfirm
    <2>2. PICK saved : nv' = [nv EXCEPT ![n].info = NoInfo, ![n].confirmed = TRUE,
                                        ![n].confirmCfg = saved]
      BY <1>2 DEF ForcedConfirm
    <2>3. nv'[n].confirmed
      BY <1>0, <2>2 DEF NvType
    <2> QED BY <2>1, <2>3, ConfirmedTrial DEF CoreEnters, Fetching, NoState
  <1>3. CASE WrongVersion(n)
    BY <1>3, ResetTrial DEF WrongVersion
  <1>4. CASE ConfirmAborted(n)
    BY <1>4, ResetTrial DEF ConfirmAborted
  <1>5. CASE Confirmed(n)
    <2>1. core[n].q # <<>> /\ core[n].st = "ClientRebootDone"
      BY <1>5 DEF Confirmed, Receives, InState
    <2>2. CoreRuns(n, "Idle")
      BY <1>5, <2>1, StepsRun DEF Confirmed
    <2>3. nv'[n].confirmed
      BY <1>0, <1>5 DEF Confirmed, NvType
    <2> QED BY <2>1, <2>2, <2>3, ConfirmedTrial DEF CoreRuns, Fetching, NoState
  <1>6. CASE ConfirmTimeout(n) \/ UpdateDoneIgnores(n)
    <2>1. core[n].q # <<>>
      BY <1>6 DEF ConfirmTimeout, UpdateDoneIgnores, Receives
    <2>2. CoreRuns(n, NoState)
      BY <1>6, <2>1, StepsRun DEF ConfirmTimeout, UpdateDoneIgnores
    <2>3. UNCHANGED nv /\ \E r, t : \/ UNCHANGED cli
                                    \/ cli' = [cli EXCEPT ![n].retry = r, ![n].tmr = t]
      BY <1>6 DEF ConfirmTimeout, UpdateDoneIgnores
    <2>4. VerdictKept(n)
      BY <2>3, CliKeepsImage, ZenonT(30) DEF VerdictKept
    <2> QED BY <2>2, <2>4, RunTrial DEF Fetching, NoState
  <1> QED BY <1>1, <1>2, <1>3, <1>4, <1>5, <1>6

LEMMA StepTrial ==
  ASSUME TypeInv, NEW n \in Node, NodeGood(n), TrialNode(n), Step(n)
  PROVE  TrialNode(n)'
  <1>1. ASSUME ClientThread(n) PROVE TrialNode(n)'
    BY <1>1, RequestTrial, ReceivingTrial, ChunkTrial, RebootTrial, UpdateDoneTrial
       DEF ClientThread
  <1>2. ASSUME Thread(n) PROVE TrialNode(n)'
    BY <1>1, <1>2, CoreStepTrial, HostStepTrial DEF Thread
  <1>3. ASSUME Reset(n) PROVE TrialNode(n)'
    BY <1>3, ResetTrial DEF Reset
  <1>4. ASSUME Queues(n) PROVE TrialNode(n)'
    BY <1>4, QueueStepTrial
  <1> QED BY <1>2, <1>3, <1>4 DEF Step

LEMMA NextTrial ==
  ASSUME ~WriteNeedsErase
  PROVE  TypeInv /\ NothingMisplaced /\ TrialInv /\ [Next]_vars => TrialInv'
  <1> SUFFICES ASSUME TypeInv, NothingMisplaced, TrialInv, [Next]_vars
               PROVE  TrialInv'
    OBVIOUS
  <1>0. \A n \in Node : NodeGood(n) /\ TrialNode(n)
    BY DEF NothingMisplaced, NodeGood, TrialInv, TrialNode
  <1>1. ASSUME NEW n \in Node, Step(n) PROVE TrialInv'
    <2>1. GoodStep(n) /\ TrialNode(n)'
      BY <1>0, <1>1, StepGood, StepTrial
    <2>2. ASSUME NEW m \in Node PROVE TrialNode(m)'
      <3>1. CASE m = n
        BY <2>1, <3>1
      <3>2. CASE m # n
        <4>1. core'[m] = core[m] /\ cli'[m] = cli[m] /\ nv'[m] = nv[m]
          BY <2>1, <3>2 DEF GoodStep, CoreOthers, DataOthers
        <4> QED BY <1>0, <4>1, KeptTrial DEF CoreKept, VerdictKept
      <3> QED BY <3>1, <3>2
    <2> QED BY <2>2 DEF TrialInv, TrialNode
  <1>2. CASE UNCHANGED vars
    BY <1>2 DEF vars, TrialInv
  <1> QED BY <1>1, <1>2 DEF Next, Step, Queues

LEMMA InitTrial == Init => TrialInv
  BY DEF Init, BootCore, TrialInv, OnTrial, Fetching, NoState

\* A node runs an unconfirmed image only from the reboot into it until the
\* host's word, its own timeout or a reset, and knows meanwhile the host to ask
\* and that it runs what that host offered (s_client_update_done_entry and
\* _run, s_init_run, the noinit record), whatever is lost, repeated or reset.
THEOREM TrialEnds ==
  ASSUME ~WriteNeedsErase
  PROVE  Spec => []TrialEndsWithVerdict
  <1>1. TypeInv /\ NothingMisplaced /\ [Next]_vars => NothingMisplaced'
    BY NextGood
  <1>2. TypeInv /\ NothingMisplaced /\ TrialInv /\ [Next]_vars => TrialInv'
    BY NextTrial
  <1>3. TrialInv => TrialEndsWithVerdict
    BY DEF TrialInv, OnTrial, Remembers, TrialEndsWithVerdict
  <1> QED BY <1>1, <1>2, <1>3, InitTyped, NextTyped, InitGood, InitTrial, PTL DEF Spec

-----------------------------------------------------------------------------
(* The application is told once *)

HostSide(n) == \E c \in Node : <<n, c>> \in Pairs
HostOnly == {"Init", "Idle", "Error"} \cup HostState

\* f is upd: update u was accepted on node n and its caller was not told yet.
Untold(f, u, n) ==
  u \in Update /\ f[u].st = "accepted" /\ f[u].host = n /\ f[u].cbs = 0

\* What may be in the event queue q of node n.
FineEvent(f, n, e) ==
  /\ HostSide(n) => e.ev # "Start"
  /\ e.ev = "BeginHost" => <<n, e.client>> \in Pairs /\ Untold(f, e.upd, n)
FineQueue(f, n, q) ==
  /\ \A k \in 1..Len(q) : FineEvent(f, n, q[k])
  /\ \A j, k \in 1..Len(q) :
        j # k /\ q[j].ev = "BeginHost" /\ q[k].ev = "BeginHost"
        => q[j].upd # q[k].upd
Apart(q, u) == \A k \in 1..Len(q) : q[k].ev = "BeginHost" => q[k].upd # u

\* The update that node n is host of has not been reported, ...
Serving(c) ==
  (c.st \in HostState /\ c.pend # "Idle") \/ c.pend = "HostReqUpdate"
Owes(f, n, c, h) ==
  Serving(c) => Untold(f, c.cb, n) /\ h.cb = c.cb /\ Apart(c.q, c.cb)

\* ... and a node is host or client: the other role's states and callback
\* stay as they were at the start.
Role(n, c, h, magic) ==
  IF HostSide(n)
  THEN /\ c.st \in HostOnly /\ c.pend \in HostOnly \cup {NoState}
       /\ c.pend \in {"Error", "HostUpdate"} => c.st \in HostState
       /\ c.st \in HostState /\ c.cur = NoEvent => c.pend = NoState
       /\ ~magic
       /\ h.client # NoNode => <<n, h.client>> \in Pairs
       /\ c.pend = "HostReqUpdate" => <<n, c.cur.client>> \in Pairs
  ELSE /\ c.st \notin HostState /\ c.pend \notin HostState
       /\ c.cb = NoUpdate /\ h.cb = NoUpdate

NodeOnce(f, n, c, h, magic) ==
  FineQueue(f, n, c.q) /\ Owes(f, n, c, h) /\ Role(n, c, h, magic)

NoStart(l) == \A k \in 1..Len(l) : l[k].ev # "Start"
NetFine(l) == \A s, d \in Node : HostSide(d) => NoStart(l[s][d])
Counted(f) == \E k \in 0..MaxUpdates : {u \in Update : f[u].st # "free"} = 1..k

OnceInv ==
  /\ \A n \in Node : NodeOnce(upd, n, core[n], hst[n], nv[n].info.magic)
  /\ NetFine(net)
  /\ Counted(upd)
  /\ ReportedOnce

\* Queues
LEMMA TailFine ==
  ASSUME NEW f, NEW n, NEW q \in Queue, q # <<>>, FineQueue(f, n, q)
  PROVE  /\ FineQueue(f, n, Tail(q)) /\ FineEvent(f, n, Head(q))
         /\ \A u : Apart(q, u) => Apart(Tail(q), u)
         /\ Head(q).ev = "BeginHost" => Apart(Tail(q), Head(q).upd)
  <1>1. q \in Seq(Event) /\ Len(q) \in Nat /\ Len(q) > 0
    BY EmptySeq, LenProperties DEF Queue
  <1>2. /\ Len(Tail(q)) = Len(q) - 1 /\ Head(q) = q[1]
        /\ \A k \in 1..Len(Tail(q)) : Tail(q)[k] = q[k + 1]
    BY <1>1, HeadTailProperties
  <1> DEFINE t == Tail(q)
  <1> HIDE DEF t
  <1>3. /\ \A k \in 1..Len(t) : k + 1 \in 1..Len(q) /\ t[k] = q[k + 1] /\ k + 1 # 1
        /\ 1 \in 1..Len(q)
    BY <1>1, <1>2 DEF t
  <1>4. \A j, k \in 1..Len(t) : j # k => j + 1 # k + 1
    BY <1>1, <1>2 DEF t
  <1>5. FineQueue(f, n, t)
    BY <1>3, <1>4, SMTT(90) DEF FineQueue
  <1>6. FineEvent(f, n, Head(q)) /\ (Head(q).ev = "BeginHost" => Apart(t, Head(q).upd))
    BY <1>2, <1>3 DEF FineQueue, Apart
  <1>7. \A u : Apart(q, u) => Apart(t, u)
    BY <1>3 DEF Apart
  <1> QED BY <1>5, <1>6, <1>7 DEF t

LEMMA AppendFine ==
  ASSUME NEW f, NEW n, NEW q \in Seq(Event), NEW e \in Event, FineQueue(f, n, q),
         FineEvent(f, n, e), e.ev = "BeginHost" => Apart(q, e.upd)
  PROVE  /\ FineQueue(f, n, Append(q, e))
         /\ \A u : Apart(q, u) /\ (e.ev = "BeginHost" => e.upd # u)
                   => Apart(Append(q, e), u)
  <1> DEFINE a == Append(q, e)
  <1>1. /\ Len(q) \in Nat /\ Len(a) = Len(q) + 1 /\ a[Len(q) + 1] = e
        /\ \A k \in 1..Len(q) : a[k] = q[k]
    BY AppendProperties, LenProperties
  <1> HIDE DEF a
  <1>2. \A k \in 1..Len(a) : k \in 1..Len(q) \/ k = Len(q) + 1
    BY <1>1
  <1>3. FineQueue(f, n, a)
    <2>1. \A k \in 1..Len(a) : FineEvent(f, n, a[k])
      BY <1>1, <1>2 DEF FineQueue
    <2>2. ASSUME NEW j \in 1..Len(a), NEW k \in 1..Len(a), j # k,
                 a[j].ev = "BeginHost", a[k].ev = "BeginHost"
          PROVE  a[j].upd # a[k].upd
      <3>1. CASE j \in 1..Len(q) /\ k \in 1..Len(q)
        BY <1>1, <2>2, <3>1 DEF FineQueue
      <3>2. CASE j = Len(q) + 1 /\ k \in 1..Len(q)
        BY <1>1, <2>2, <3>2 DEF Apart
      <3>3. CASE k = Len(q) + 1 /\ j \in 1..Len(q)
        BY <1>1, <2>2, <3>3 DEF Apart
      <3> QED BY <1>2, <2>2, <3>1, <3>2, <3>3
    <2> QED BY <2>1, <2>2 DEF FineQueue
  <1>4. ASSUME NEW u, Apart(q, u), e.ev = "BeginHost" => e.upd # u
        PROVE  Apart(a, u)
    BY <1>1, <1>2, <1>4 DEF Apart
  <1> QED BY <1>3, <1>4 DEF a

LEMMA PushFine ==
  ASSUME NEW f, NEW n, NEW q \in Queue, NEW e \in Event, FineQueue(f, n, q),
         FineEvent(f, n, e), e.ev # "BeginHost"
  PROVE  /\ FineQueue(f, n, Push(q, e))
         /\ \A u : Apart(q, u) => Apart(Push(q, e), u)
  BY AppendFine DEF Push, Queue

LEMMA LocalFine ==
  ASSUME NEW f, NEW n, NEW t \in {"None", "InitSuccess", "ChunkTimeout", "AckTimeout", "Abort"}
  PROVE  FineEvent(f, n, Local(t)) /\ Local(t).ev # "BeginHost" /\ Local(t).ev # "Start"
  BY DEF FineEvent, Local

LEMMA PushNopsFine ==
  ASSUME NEW f, NEW n, NEW q \in Queue, NEW k \in 0..2, FineQueue(f, n, q)
  PROVE  /\ FineQueue(f, n, PushNops(q, k))
         /\ \A u : Apart(q, u) => Apart(PushNops(q, k), u)
  <1>1. FineEvent(f, n, Nop) /\ Nop.ev # "BeginHost" /\ Nop \in Event
    BY LocalFine, NopTyped DEF Nop
  <1>2. Push(q, Nop) \in Queue
    BY <1>1, PushTyped
  <1> QED BY <1>1, <1>2, PushFine DEF PushNops

\* A queue that node n may have after one of its steps, f being upd.
QueueKeeps(n, q) ==
  FineQueue(upd, n, q) /\ \A u : Apart(core[n].q, u) => Apart(q, u)

LEMMA AfterKeeps ==
  ASSUME TypeInv, NEW n \in Node, core[n].q # <<>>, NEW s, NEW k \in 0..2, NEW e,
         FineQueue(upd, n, core[n].q), core' = After(n, s, k, e)
  PROVE  /\ QueueKeeps(n, core'[n].q) /\ core'[n].cb = core[n].cb
         /\ CoreRuns(n, s) /\ CoreOthers(n)
  <1>1. core \in [Node -> CoreType] /\ core[n] \in CoreType /\ core[n].q \in Queue
    BY DEF TypeInv, TypeOK, CoreType
  <1> DEFINE q == PushNops(Tail(core[n].q), k)
  <1>2. core'[n].q = q /\ core'[n].cb = core[n].cb
    BY <1>1 DEF After, CoreType
  <1>3. Tail(core[n].q) \in Queue
    BY <1>1, PopTyped
  <1>4. FineQueue(upd, n, q) /\ \A u : Apart(core[n].q, u) => Apart(q, u)
    BY <1>1, <1>3, TailFine, PushNopsFine
  <1> HIDE DEF q
  <1> QED BY <1>2, <1>4, AfterRuns DEF QueueKeeps

LEMMA RunKeeps ==
  ASSUME TypeInv, NEW n \in Node, core[n].q # <<>>, FineQueue(upd, n, core[n].q)
  PROVE  /\ Stay(n) => /\ QueueKeeps(n, core'[n].q) /\ core'[n].cb = core[n].cb
                       /\ CoreRuns(n, NoState) /\ CoreOthers(n)
         /\ \A s : GoTo(n, s) => /\ QueueKeeps(n, core'[n].q)
                                 /\ core'[n].cb = core[n].cb
                                 /\ CoreRuns(n, s) /\ CoreOthers(n)
         /\ \A e : Fail(n, e) => /\ QueueKeeps(n, core'[n].q)
                                 /\ core'[n].cb = core[n].cb
                                 /\ CoreRuns(n, "Error") /\ CoreOthers(n)
  <1>0. 0 \in 0..2 /\ 1 \in 0..2
    OBVIOUS
  <1>1. ASSUME Stay(n)
        PROVE  /\ QueueKeeps(n, core'[n].q) /\ core'[n].cb = core[n].cb
               /\ CoreRuns(n, NoState) /\ CoreOthers(n)
    BY <1>0, <1>1, AfterKeeps DEF Stay
  <1>2. ASSUME NEW s, GoTo(n, s)
        PROVE  /\ QueueKeeps(n, core'[n].q) /\ core'[n].cb = core[n].cb
               /\ CoreRuns(n, s) /\ CoreOthers(n)
    BY <1>0, <1>2, AfterKeeps DEF GoTo
  <1>3. ASSUME NEW e, Fail(n, e)
        PROVE  /\ QueueKeeps(n, core'[n].q) /\ core'[n].cb = core[n].cb
               /\ CoreRuns(n, "Error") /\ CoreOthers(n)
    BY <1>0, <1>3, AfterKeeps DEF Fail
  <1> QED BY <1>1, <1>2, <1>3

LEMMA EnterKeeps ==
  ASSUME TypeInv, NEW n \in Node, NEW s, NEW p, NEW e, Entered(n, s, p, e),
         FineQueue(upd, n, core[n].q)
  PROVE  /\ QueueKeeps(n, core'[n].q) /\ core'[n].cb = core[n].cb
         /\ CoreEnters(n, s, p) /\ CoreOthers(n)
  <1>1. core \in [Node -> CoreType] /\ core[n] \in CoreType /\ core[n].q \in Queue
    BY DEF TypeInv, TypeOK, CoreType
  <1> DEFINE q == IF p = NoState THEN core[n].q ELSE Push(core[n].q, Nop)
  <1>2. core'[n].q = q /\ core'[n].cb = core[n].cb
    BY <1>1 DEF Entered, CoreType
  <1>3. FineEvent(upd, n, Nop) /\ Nop.ev # "BeginHost" /\ Nop \in Event
    BY LocalFine, NopTyped DEF Nop
  <1>4. FineQueue(upd, n, q) /\ \A u : Apart(core[n].q, u) => Apart(q, u)
    BY <1>1, <1>3, PushFine
  <1> HIDE DEF q
  <1> QED BY <1>2, <1>4, EnteredEnters DEF QueueKeeps

\* The network
LEMMA AddToFine ==
  ASSUME NEW l \in Seq(Message), NEW m \in Message, NoStart(l), m.ev # "Start"
  PROVE  NoStart(AddTo(l, m))
  <1> DEFINE a == Append(l, m)
  <1>1. /\ Len(l) \in Nat /\ Len(a) = Len(l) + 1 /\ a[Len(l) + 1] = m
        /\ \A k \in 1..Len(l) : a[k] = l[k]
    BY AppendProperties, LenProperties
  <1> HIDE DEF a
  <1>2. \A k \in 1..Len(a) : k \in 1..Len(l) \/ k = Len(l) + 1
    BY <1>1
  <1>3. NoStart(a)
    BY <1>1, <1>2 DEF NoStart
  <1> QED BY <1>3 DEF a, AddTo

LEMMA SendFine ==
  ASSUME TypeOK, NetFine(net), NEW n \in Node, NEW d \in Node \cup {NoNode},
         NEW m \in Message, Send(n, d, m), m.ev = "Start" => ~HostSide(d)
  PROVE  NetFine(net')
  <1>1. CASE d = NoNode
    BY <1>1 DEF Send, NetFine
  <1>2. CASE d \in Node
    <2>0. net \in [Node -> [Node -> Seq(Message)]] /\ d # NoNode
      BY <1>2, CoreAssumption DEF TypeOK
    <2>1. /\ net'[n][d] = AddTo(net[n][d], m)
          /\ \A s, t \in Node : s # n \/ t # d => net'[s][t] = net[s][t]
      BY <1>2, <2>0 DEF Send
    <2>2. HostSide(d) => NoStart(net'[n][d])
      BY <1>2, <2>0, <2>1, AddToFine DEF NetFine
    <2> QED BY <2>1, <2>2 DEF NetFine
  <1> QED BY <1>1, <1>2

LEMMA Send2Fine ==
  ASSUME TypeOK, NetFine(net), NEW n \in Node, NEW d \in Node \cup {NoNode},
         NEW m1 \in Message, NEW m2 \in Message, Send2(n, d, m1, m2),
         m1.ev # "Start", m2.ev # "Start"
  PROVE  NetFine(net')
  <1>0. net \in [Node -> [Node -> Seq(Message)]]
    BY DEF TypeOK
  <1>1. CASE d = NoNode
    <2>1. d \notin Node
      BY <1>1, CoreAssumption
    <2>2. \A s, t \in Node : net'[s][t] = net[s][t]
      BY <1>0, <2>1 DEF Send2
    <2> QED BY <2>2 DEF NetFine
  <1>2. CASE d \in Node
    <2>1. /\ net'[n][d] = AddTo(AddTo(net[n][d], m1), m2)
          /\ \A s, t \in Node : s # n \/ t # d => net'[s][t] = net[s][t]
      BY <1>0, <1>2 DEF Send2
    <2>2. net[n][d] \in Seq(Message) /\ AddTo(net[n][d], m1) \in Seq(Message)
      BY <1>0, <1>2, AddToTyped
    <2>3. HostSide(d) => NoStart(net'[n][d])
      BY <1>2, <2>1, <2>2, AddToFine DEF NetFine
    <2> QED BY <2>1, <2>3 DEF NetFine
  <1> QED BY <1>1, <1>2

\* What a client sends is never a request.
LEMMA ClientNetFine ==
  ASSUME TypeInv, NEW n \in Node, ClientThread(n), NetFine(net)
  PROVE  NetFine(net')
  <1>0. TypeOK /\ cli[n].host \in Node \cup {NoNode} /\ cli[n].chunk \in Nat
        /\ nv[n].info.host \in Node \cup {NoNode}
    BY CliFields DEF TypeInv, TypeOK, NvType, Info
  <1>1. core[n].q # <<>> /\ Evt(n).ev = "Start" => Evt(n).src \in Node \cup {NoNode}
    BY <1>0, EvtTyped, EventFields
  <1>2. ASSUME NEW d \in Node \cup {NoNode}, NEW m \in Message, Send(n, d, m),
               m.ev # "Start"
        PROVE  NetFine(net')
    BY <1>0, <1>2, SendFine
  <1>3. /\ \A k \in Nat : ChunkReq(n, k) \in Message /\ ChunkReq(n, k).ev # "Start"
        /\ \A t \in {"Ack", "End", "Abort"}, b \in BOOLEAN, e \in Err :
              Result(t, n, b, e) \in Message /\ Result(t, n, b, e).ev # "Start"
        /\ \A t \in {"Heartbeat", "RebootReq", "Reboot", "BootComplete"} :
              Plain(t, n) \in Message /\ Plain(t, n).ev # "Start"
    BY MessagesTyped DEF ChunkReq, Result, Plain
  <1>4. {"SameVer", "TooLarge", "FlashAccess", "None", "Aborted", "BadCrc",
         "MismatchLen", "WrongVer", "ConfirmationAbort"} \subseteq Err
        /\ TRUE \in BOOLEAN /\ FALSE \in BOOLEAN /\ 0 \in Nat
        /\ cli[n].chunk + 1 \in Nat
    BY <1>0 DEF Err
  <1>5. CASE UNCHANGED net
    BY <1>5
  <1>6. CASE \/ RefuseSameVersion(n) \/ RefuseTooLarge(n) \/ RefuseFlash(n)
             \/ AcceptRequest(n)
    <2>1. \E b \in BOOLEAN, e \in Err : Send(n, Evt(n).src, Result("Ack", n, b, e))
      BY <1>4, <1>6 DEF RefuseSameVersion, RefuseTooLarge, RefuseFlash, AcceptRequest
    <2>2. Evt(n).src \in Node \cup {NoNode}
      BY <1>1, <1>6 DEF RefuseSameVersion, RefuseTooLarge, RefuseFlash, AcceptRequest,
                        Receives
    <2> QED BY <1>2, <1>3, <2>1, <2>2
  <1>7. CASE ReceivingEntry(n) \/ ReceiveChunk(n)
    <2>1. \E k \in Nat : Send(n, Host(n), ChunkReq(n, k))
      BY <1>4, <1>7 DEF ReceivingEntry, ReceiveChunk
    <2> QED BY <1>0, <1>2, <1>3, <2>1 DEF Host
  <1>8. CASE ReceivingTimeout(n)
    <2>1. \/ \E k \in Nat : Send(n, Host(n), ChunkReq(n, k))
          \/ Send(n, Host(n), Result("Abort", n, FALSE, "Aborted"))
      BY <1>0, <1>8 DEF ReceivingTimeout
    <2> QED BY <1>0, <1>2, <1>3, <1>4, <2>1 DEF Host
  <1>9. CASE Resync(n)
    <2>1. Send2(n, Host(n), Result("Ack", n, TRUE, "None"), ChunkReq(n, 0))
      BY <1>9 DEF Resync
    <2> DEFINE m1 == Result("Ack", n, TRUE, "None")
               m2 == ChunkReq(n, 0)
    <2>2. /\ m1 \in Message /\ m1.ev # "Start" /\ m2 \in Message /\ m2.ev # "Start"
          /\ Host(n) \in Node \cup {NoNode}
      BY <1>0, <1>3, <1>4 DEF Host
    <2> HIDE DEF m1, m2
    <2> QED BY <1>0, <2>1, <2>2, Send2Fine DEF m1, m2
  <1>10. CASE ValidatingEntry(n) \/ RebootReqEntry(n) \/ RebootReqRun(n)
    <2>1. \/ UNCHANGED net
          \/ \E e \in Err : Send(n, Host(n), Result("End", n, FALSE, e))
          \/ Send(n, Host(n), Result("Abort", n, FALSE, "Aborted"))
          \/ Send(n, Host(n), Plain("RebootReq", n))
      BY <1>4, <1>10 DEF ValidatingEntry, RebootReqEntry, RebootReqRun
    <2> QED BY <1>0, <1>2, <1>3, <1>4, <1>5, <2>1 DEF Host
  <1>11. CASE \/ UpdateDoneEntry(n) \/ WrongVersion(n) \/ Confirmed(n)
              \/ ConfirmTimeout(n) \/ ConfirmAborted(n)
    <2>1. \/ Send(n, nv[n].info.host, Plain("BootComplete", n))
          \/ Send(n, nv[n].info.host, Result("End", n, FALSE, "WrongVer"))
          \/ Send(n, nv[n].info.host, Result("End", n, TRUE, "None"))
          \/ Send(n, Host(n), Result("Abort", n, FALSE, "ConfirmationAbort"))
      BY <1>11 DEF UpdateDoneEntry, WrongVersion, Confirmed, ConfirmTimeout,
                   ConfirmAborted, AskConfirmation
    <2> QED BY <1>0, <1>2, <1>3, <1>4, <2>1 DEF Host
  <1>12. CASE \/ ReceivingTimerFails(n) \/ ReceiveLastChunk(n) \/ HostIsAlive(n)
              \/ ReceivingIgnores(n) \/ ActivatingEntry(n) \/ ForcedConfirm(n)
              \/ UpdateDoneIgnores(n)
    BY <1>5, <1>12 DEF ReceivingTimerFails, ReceiveLastChunk, HostIsAlive,
       ReceivingIgnores, ActivatingEntry, ForcedConfirm, UpdateDoneIgnores
  <1> QED BY <1>6, <1>7, <1>8, <1>9, <1>10, <1>11, <1>12 DEF ClientThread

\* A node that is only host takes no step of a client.
LEMMA HostIsNoClient ==
  ASSUME TypeInv, NEW n \in Node, HostSide(n),
         NodeOnce(upd, n, core[n], hst[n], nv[n].info.magic)
  PROVE  ~ClientThread(n)
  <1>1. core[n].st \notin ClientState /\ core[n].pend \notin ClientState
    BY DEF NodeOnce, Role, HostOnly, HostState, ClientState
  <1>2. core[n].q # <<>> => Evt(n).ev # "Start"
    <2>1. core[n].q \in Queue
      BY CoreFields DEF TypeInv
    <2> QED BY <2>1, TailFine DEF NodeOnce, FineEvent, Evt
  <1>3. \A s \in ClientState : ~Receives(n, s) /\ ~Enters(n, s)
    BY <1>1 DEF Receives, Enters, InState
  <1>4. ~(Receives(n, "Idle") /\ Evt(n).ev = "Start")
    BY <1>2 DEF Receives
  <1>5. ClientState = {"ClientReceiving", "ClientValidating", "ClientRebootReq",
                       "ClientRebootDone", "ClientActivating"}
    BY DEF ClientState
  <1> QED BY <1>3, <1>4, <1>5
         DEF ClientThread, RefuseSameVersion, RefuseTooLarge, RefuseFlash,
             AcceptRequest, ReceivingEntry, ReceivingTimerFails, ReceiveChunk,
             ReceiveLastChunk, ReceivingTimeout, Resync, HostIsAlive,
             ReceivingIgnores, ValidatingEntry, RebootReqEntry, RebootReqRun,
             ActivatingEntry, UpdateDoneEntry, ForcedConfirm, WrongVersion,
             Confirmed, ConfirmTimeout, ConfirmAborted, UpdateDoneIgnores

ClientPend == {NoState, "Idle", "Error"} \cup ClientState

\* A client's step runs, enters a state of a client, or resets.
LEMMA ClientShape ==
  ASSUME TypeInv, NEW n \in Node, ClientThread(n)
  PROVE  \/ RamReset(n)
         \/ /\ UNCHANGED hst
            /\ \/ /\ core[n].q # <<>>
                  /\ \E s \in ClientPend, k \in 0..2 : \E e : core' = After(n, s, k, e)
               \/ \E s \in ClientState, p \in ClientPend : \E e : Entered(n, s, p, e)
  <1>0. 0 \in 0..2 /\ 1 \in 0..2 /\ 2 \in 0..2
    OBVIOUS
  <1>1. NoState \in ClientPend /\ "Idle" \in ClientPend /\ "Error" \in ClientPend
        /\ ClientState \subseteq ClientPend
        /\ ClientState = {"ClientReceiving", "ClientValidating", "ClientRebootReq",
                       "ClientRebootDone", "ClientActivating"}
    BY DEF ClientPend, ClientState
  <1> DEFINE R == /\ core[n].q # <<>>
                  /\ \E s \in ClientPend, k \in 0..2 : \E e : core' = After(n, s, k, e)
  <1>2. /\ core[n].q # <<>> /\ Stay(n) => R
        /\ \A s \in ClientPend : core[n].q # <<>> /\ GoTo(n, s) => R
        /\ \A e : core[n].q # <<>> /\ Fail(n, e) => R
    BY <1>0, <1>1 DEF Stay, GoTo, Fail
  <1>3. ASSUME \/ RefuseSameVersion(n) \/ RefuseTooLarge(n) \/ RefuseFlash(n)
               \/ AcceptRequest(n) \/ ReceivingTimerFails(n)
               \/ ReceivingTimeout(n) \/ Resync(n) \/ HostIsAlive(n)
               \/ ReceivingIgnores(n) \/ RebootReqRun(n) \/ Confirmed(n)
               \/ ConfirmTimeout(n) \/ UpdateDoneIgnores(n)
        PROVE  R /\ UNCHANGED hst
    <2> HIDE DEF R
    <2> QED BY <1>1, <1>2, <1>3 DEF RefuseSameVersion, RefuseTooLarge, RefuseFlash,
             AcceptRequest, ReceivingTimerFails, ReceivingTimeout, Resync, HostIsAlive,
             ReceivingIgnores, RebootReqRun, Confirmed, ConfirmTimeout,
             UpdateDoneIgnores, Receives
  <1>4. ASSUME ReceiveChunk(n) \/ ReceiveLastChunk(n)
        PROVE  R /\ UNCHANGED hst
    <2>1. core[n].q # <<>> /\ UNCHANGED hst
      BY <1>4 DEF ReceiveChunk, ReceiveLastChunk, Receives
    <2>2. CASE ReceiveChunk(n)
      <3>1. \E s \in {NoState, "Error"}, k \in {0, 1, 2} : \E e :
               core' = After(n, s, k, e)
        BY <2>2 DEF ReceiveChunk
      <3> QED BY <1>0, <1>1, <2>1, <3>1
    <2>3. CASE ReceiveLastChunk(n)
      <3>1. \E s \in {"ClientValidating", "Error"}, k \in {1, 2} : \E e :
               core' = After(n, s, k, e)
        BY <2>3 DEF ReceiveLastChunk
      <3> QED BY <1>0, <1>1, <2>1, <3>1
    <2> QED BY <1>4, <2>2, <2>3
  <1>5. ASSUME \/ ReceivingEntry(n) \/ ValidatingEntry(n) \/ RebootReqEntry(n)
               \/ UpdateDoneEntry(n)
        PROVE  /\ UNCHANGED hst
               /\ \E s \in ClientState, p \in ClientPend : \E e : Entered(n, s, p, e)
    BY <1>1, <1>5 DEF ReceivingEntry, ValidatingEntry, RebootReqEntry, UpdateDoneEntry
  <1>6. ASSUME \/ ActivatingEntry(n) \/ ForcedConfirm(n) \/ WrongVersion(n)
               \/ ConfirmAborted(n)
        PROVE  \/ RamReset(n)
               \/ /\ UNCHANGED hst
                  /\ \E s \in ClientState, p \in ClientPend : \E e : Entered(n, s, p, e)
    BY <1>1, <1>6 DEF ActivatingEntry, ForcedConfirm, WrongVersion, ConfirmAborted
  <1> QED BY <1>3, <1>4, <1>5, <1>6 DEF ClientThread

-----------------------------------------------------------------------------
(* One step of node n *)

NodeTold(n) == NodeOnce(upd, n, core[n], hst[n], nv[n].info.magic)

OnceStep(n) ==
  /\ NodeOnce(upd', n, core'[n], hst'[n], nv'[n].info.magic)
  /\ CoreOthers(n)
  /\ \A m \in Node \ {n} : hst'[m] = hst[m] /\ nv'[m].info = nv[m].info
  /\ NetFine(net')
  /\ \A u \in Update : upd[u].st # "free" /\ upd[u].host # n => upd'[u] = upd[u]
  /\ Counted(upd') /\ ReportedOnce'

RestTold == NetFine(net) /\ Counted(upd) /\ ReportedOnce

HostKept(n) == hst'[n].client = hst[n].client /\ hst'[n].cb = hst[n].cb
RestKept(n) ==
  \A m \in Node \ {n} : hst'[m] = hst[m] /\ nv'[m].info = nv[m].info

LEMMA BootOnce ==
  ASSUME NEW f, NEW n, NEW magic, HostSide(n) => ~magic
  PROVE  NodeOnce(f, n, BootCore, BootHst, magic)
  <1> DEFINE q == <<Local("InitSuccess")>>
  <1>1. Len(q) = 1 /\ q[1] = Local("InitSuccess")
    OBVIOUS
  <1>2. FineEvent(f, n, Local("InitSuccess")) /\ Local("InitSuccess").ev # "BeginHost"
    BY LocalFine
  <1>3. BootCore.q = q /\ BootCore.st = "Init" /\ BootCore.pend = NoState
        /\ BootCore.cb = NoUpdate /\ BootHst.cb = NoUpdate /\ BootHst.client = NoNode
    BY DEF BootCore, BootHst
  <1> HIDE DEF q
  <1>4. FineQueue(f, n, q)
    BY <1>1, <1>2 DEF FineQueue
  <1>5. Owes(f, n, BootCore, BootHst)
    BY <1>3 DEF Owes, Serving, HostState
  <1>6. Role(n, BootCore, BootHst, magic)
    BY <1>3 DEF Role, HostOnly, HostState
  <1> QED BY <1>3, <1>4, <1>5, <1>6 DEF NodeOnce

\* A run function that asks for nothing, for Idle, for Error or for Host Update.
LEMMA RunOnce ==
  ASSUME TypeInv, NEW n \in Node, NodeTold(n), core[n].cur = NoEvent,
         NEW s \in {NoState, "Idle", "Error", "HostUpdate"}, CoreRuns(n, s),
         QueueKeeps(n, core'[n].q), core'[n].cb = core[n].cb, HostKept(n),
         nv'[n].info = nv[n].info, UNCHANGED upd,
         s \in {"Error", "HostUpdate"} => core[n].st \in HostState
  PROVE  NodeOnce(upd', n, core'[n], hst'[n], nv'[n].info.magic)
  <1>1. core[n].pend # "HostReqUpdate"
    BY DEF TypeInv, RequestKept, BeginEvent, NoEvent, Local
  <1>2. FineQueue(upd', n, core'[n].q)
    BY DEF QueueKeeps
  <1>3. Owes(upd', n, core'[n], hst'[n])
    <2> SUFFICES ASSUME Serving(core'[n])
                 PROVE  /\ Untold(upd, core[n].cb, n) /\ hst[n].cb = core[n].cb
                        /\ Apart(core'[n].q, core[n].cb)
      BY DEF Owes, HostKept
    <2>1. core[n].st \in HostState
      BY <1>1 DEF Serving, CoreRuns
    <2>2. HostSide(n)
      BY <2>1 DEF NodeTold, NodeOnce, Role
    <2>3. core[n].pend = NoState
      BY <2>1, <2>2 DEF NodeTold, NodeOnce, Role
    <2>4. Serving(core[n])
      BY <2>1, <2>3 DEF Serving
    <2> QED BY <2>4 DEF NodeTold, NodeOnce, Owes, QueueKeeps
  <1>4. Role(n, core'[n], hst'[n], nv'[n].info.magic)
    <2>1. CASE HostSide(n)
      BY <1>1, <2>1 DEF NodeTold, NodeOnce, Role, CoreRuns, HostKept, HostOnly, HostState
    <2>2. CASE ~HostSide(n)
      BY <1>1, <2>2 DEF NodeTold, NodeOnce, Role, CoreRuns, HostKept, HostState
    <2> QED BY <2>1, <2>2
  <1> QED BY <1>2, <1>3, <1>4 DEF NodeOnce

\* The callback is called for an update whose caller was not told.
LEMMA ReportOnce ==
  ASSUME TypeOK, RestTold, NEW n \in Node, NEW u, Untold(upd, u, n),
         NEW b \in BOOLEAN, Report(u, b)
  PROVE  /\ \A v \in Update \ {u} : upd'[v] = upd[v]
         /\ \A v \in Update : upd[v].st # "free" /\ upd[v].host # n => upd'[v] = upd[v]
         /\ Counted(upd') /\ ReportedOnce'
         /\ \A q : FineQueue(upd, n, q) /\ Apart(q, u) => FineQueue(upd', n, q)
  <1>0. upd \in [Update -> UpdType] /\ u \in Update /\ u # NoUpdate /\ upd[u].cbs = 0
        /\ upd[u] \in UpdType
    <2>1. upd \in [Update -> UpdType] /\ u \in Update /\ upd[u].cbs = 0
      BY DEF TypeOK, Untold
    <2>2. u # NoUpdate
      BY <2>1, CoreAssumption DEF Update
    <2> QED BY <2>1, <2>2
  <1>1. \A v \in Update \ {u} : upd'[v] = upd[v]
    BY <1>0 DEF Report
  <1>2. upd'[u].st = upd[u].st /\ upd'[u].host = upd[u].host /\ upd'[u].cbs = 1
    BY <1>0 DEF Report, UpdType
  <1>3. {v \in Update : upd'[v].st # "free"} = {v \in Update : upd[v].st # "free"}
    BY <1>1, <1>2
  <1>4. Counted(upd')
    BY <1>3 DEF RestTold, Counted
  <1>5. ReportedOnce'
    <2>1. \A v \in Update : upd'[v].cbs <= 1
      BY <1>1, <1>2 DEF RestTold, ReportedOnce
    <2> QED BY <2>1 DEF ReportedOnce
  <1>6. ASSUME NEW q, FineQueue(upd, n, q), Apart(q, u)
        PROVE  FineQueue(upd', n, q)
    <2>1. ASSUME NEW k \in 1..Len(q) PROVE FineEvent(upd', n, q[k])
      <3>1. q[k].ev = "BeginHost" => q[k].upd \in Update \ {u}
        BY <1>6 DEF FineQueue, FineEvent, Untold, Apart
      <3> QED BY <1>1, <1>6, <3>1 DEF FineQueue, FineEvent, Untold
    <2> QED BY <1>6, <2>1 DEF FineQueue
  <1>7. \A v \in Update : upd[v].st # "free" /\ upd[v].host # n => upd'[v] = upd[v]
    BY <1>1 DEF Untold
  <1> QED BY <1>1, <1>4, <1>5, <1>6, <1>7

LEMMA ClientOnce ==
  ASSUME TypeInv, NEW n \in Node, NodeTold(n), RestTold, ClientThread(n)
  PROVE  OnceStep(n)
  <1>0. /\ core \in [Node -> CoreType] /\ hst \in [Node -> HstType]
        /\ nv \in [Node -> NvType] /\ ~HostSide(n)
    BY HostIsNoClient DEF TypeInv, TypeOK, NodeTold
  <1>1. UNCHANGED upd
    BY DEF ClientThread, RefuseSameVersion, RefuseTooLarge, RefuseFlash,
       AcceptRequest, ReceivingEntry, ReceivingTimerFails, ReceiveChunk,
       ReceiveLastChunk, ReceivingTimeout, Resync, HostIsAlive,
       ReceivingIgnores, ValidatingEntry, RebootReqEntry, RebootReqRun,
       ActivatingEntry, UpdateDoneEntry, ForcedConfirm, WrongVersion,
       Confirmed, ConfirmTimeout, ConfirmAborted, UpdateDoneIgnores
  <1>2. \A m \in Node \ {n} : nv'[m] = nv[m]
    <2>1. CASE UNCHANGED nv
      BY <2>1
    <2>2. CASE AcceptRequest(n) \/ ReceiveChunk(n) \/ ReceiveLastChunk(n)
      BY <1>0, <2>2 DEF AcceptRequest, ReceiveChunk, ReceiveLastChunk
    <2>3. CASE \/ ActivatingEntry(n) \/ ForcedConfirm(n) \/ WrongVersion(n)
               \/ Confirmed(n) \/ ConfirmAborted(n)
      BY <1>0, <2>3 DEF ActivatingEntry, ForcedConfirm, WrongVersion, Confirmed,
                        ConfirmAborted
    <2> QED BY <2>1, <2>2, <2>3
       DEF ClientThread, RefuseSameVersion, RefuseTooLarge, RefuseFlash,
       ReceivingEntry, ReceivingTimerFails, ReceivingTimeout, Resync, HostIsAlive,
       ReceivingIgnores, ValidatingEntry, RebootReqEntry, RebootReqRun,
       UpdateDoneEntry, ConfirmTimeout, UpdateDoneIgnores
  <1>3. NetFine(net')
    BY ClientNetFine DEF RestTold
  <1>4. CASE RamReset(n)
    <2>1. core'[n] = BootCore /\ hst'[n] = BootHst
      BY <1>0, <1>4 DEF RamReset
    <2>2. CoreOthers(n) /\ \A m \in Node \ {n} : hst'[m] = hst[m]
      BY <1>0, <1>4 DEF RamReset, CoreOthers
    <2>3. NodeOnce(upd', n, core'[n], hst'[n], nv'[n].info.magic)
      BY <1>0, <2>1, BootOnce
    <2> QED BY <1>1, <1>2, <1>3, <2>2, <2>3 DEF OnceStep, RestTold, ReportedOnce
  <1>5. CASE /\ UNCHANGED hst
             /\ \/ /\ core[n].q # <<>>
                   /\ \E s \in ClientPend, k \in 0..2 : \E e : core' = After(n, s, k, e)
                \/ \E s \in ClientState, p \in ClientPend : \E e : Entered(n, s, p, e)
    <2>1. FineQueue(upd, n, core[n].q) /\ core[n].st \notin HostState
          /\ core[n].pend \notin HostState
          /\ core[n].cb = NoUpdate /\ hst[n].cb = NoUpdate
      BY <1>0 DEF NodeTold, NodeOnce, Role
    <2>2. /\ QueueKeeps(n, core'[n].q) /\ core'[n].cb = core[n].cb /\ CoreOthers(n)
          /\ \/ \E s \in ClientPend : CoreRuns(n, s)
             \/ \E s \in ClientState, p \in ClientPend : CoreEnters(n, s, p)
      BY <1>5, <2>1, AfterKeeps, EnterKeeps
    <2>3. core'[n].st \notin HostState /\ core'[n].pend \notin HostState
      BY <2>1, <2>2 DEF CoreRuns, CoreEnters, ClientPend, ClientState, HostState
    <2>4. NodeOnce(upd', n, core'[n], hst'[n], nv'[n].info.magic)
      BY <1>0, <1>1, <1>5, <2>1, <2>2, <2>3
         DEF NodeOnce, Role, Owes, Serving, QueueKeeps, HostState
    <2> QED BY <1>1, <1>2, <1>3, <1>5, <2>2, <2>4 DEF OnceStep, RestTold, ReportedOnce
  <1> QED BY <1>4, <1>5, ClientShape

LEMMA ResetOnce ==
  ASSUME TypeInv, NEW n \in Node, NodeTold(n), RestTold, Reset(n)
  PROVE  OnceStep(n)
  <1>0. /\ core \in [Node -> CoreType] /\ hst \in [Node -> HstType]
        /\ nv \in [Node -> NvType] /\ nv[n] \in NvType
    BY DEF TypeInv, TypeOK
  <1>1. core'[n] = BootCore /\ hst'[n] = BootHst /\ CoreOthers(n)
        /\ (\A m \in Node \ {n} : hst'[m] = hst[m]) /\ UNCHANGED <<net, upd>>
    BY <1>0 DEF Reset, RamReset, CoreOthers
  <1>2. PICK i \in {nv[n].info, NoInfo} :
           nv' = [nv EXCEPT ![n] = [AfterReset(nv[n]) EXCEPT !.info = i]]
    BY DEF Reset
  <1>3. AfterReset(nv[n]) \in NvType
    BY <1>0, NvTyped
  <1>4. nv'[n].info = i /\ \A m \in Node \ {n} : nv'[m] = nv[m]
    BY <1>0, <1>2, <1>3 DEF NvType
  <1>5. HostSide(n) => ~nv'[n].info.magic
    BY <1>4 DEF NodeTold, NodeOnce, Role, NoInfo
  <1>6. NodeOnce(upd', n, core'[n], hst'[n], nv'[n].info.magic)
    BY <1>1, <1>5, BootOnce
  <1> QED BY <1>1, <1>4, <1>6 DEF OnceStep, RestTold, ReportedOnce

LEMMA CoreStepOnce ==
  ASSUME TypeInv, NEW n \in Node, NodeTold(n), RestTold,
         InitRun(n) \/ IdleEntry(n) \/ ErrorEntry(n) \/ PassiveRun(n)
  PROVE  OnceStep(n)
  <1>0. /\ core \in [Node -> CoreType] /\ hst \in [Node -> HstType]
        /\ nv \in [Node -> NvType] /\ hst[n] \in HstType /\ TypeOK
        /\ FineQueue(upd, n, core[n].q)
    BY DEF TypeInv, TypeOK, NodeTold, NodeOnce
  <1>1. CASE InitRun(n)
    <2>1. core[n].q # <<>> /\ core[n].cur = NoEvent /\ core[n].st = "Init"
          /\ UNCHANGED <<hst, nv, net, upd>>
      BY <1>1 DEF InitRun, Receives, InState
    <2>2. CASE GoTo(n, "Idle") \/ Stay(n)
      <3>1. /\ QueueKeeps(n, core'[n].q) /\ core'[n].cb = core[n].cb /\ CoreOthers(n)
            /\ \E s \in {NoState, "Idle"} : CoreRuns(n, s)
        BY <1>0, <2>1, <2>2, RunKeeps
      <3>2. NodeOnce(upd', n, core'[n], hst'[n], nv'[n].info.magic)
        BY <2>1, <3>1, RunOnce DEF HostKept
      <3> QED BY <2>1, <3>1, <3>2 DEF OnceStep, RestTold, ReportedOnce
    <2>3. CASE GoTo(n, "ClientRebootDone") /\ nv[n].info.magic
      <3>1. ~HostSide(n)
        BY <2>3 DEF NodeTold, NodeOnce, Role
      <3>2. /\ QueueKeeps(n, core'[n].q) /\ core'[n].cb = core[n].cb /\ CoreOthers(n)
            /\ CoreRuns(n, "ClientRebootDone")
        BY <1>0, <2>1, <2>3, RunKeeps
      <3>3. NodeOnce(upd', n, core'[n], hst'[n], nv'[n].info.magic)
        BY <2>1, <3>1, <3>2
           DEF NodeTold, NodeOnce, Role, Owes, Serving, QueueKeeps, CoreRuns, HostState
      <3> QED BY <2>1, <3>2, <3>3 DEF OnceStep, RestTold, ReportedOnce
    <2> QED BY <1>1, <2>2, <2>3 DEF InitRun
  <1>2. CASE PassiveRun(n)
    <2>1. core[n].q # <<>> /\ core[n].cur = NoEvent
          /\ UNCHANGED <<hst, nv, net, upd>> /\ Stay(n)
      BY <1>2 DEF PassiveRun, Receives
    <2>2. /\ QueueKeeps(n, core'[n].q) /\ core'[n].cb = core[n].cb /\ CoreOthers(n)
          /\ CoreRuns(n, NoState)
      BY <1>0, <2>1, RunKeeps
    <2>3. NodeOnce(upd', n, core'[n], hst'[n], nv'[n].info.magic)
      BY <2>1, <2>2, RunOnce DEF HostKept
    <2> QED BY <2>1, <2>2, <2>3 DEF OnceStep, RestTold, ReportedOnce
  <1>3. ASSUME NEW b \in BOOLEAN, hst' = [hst EXCEPT ![n].dataq = b]
        PROVE  HostKept(n) /\ \A m \in Node \ {n} : hst'[m] = hst[m]
    BY <1>0, <1>3 DEF HostKept, HstType
  <1>4. CASE IdleEntry(n)
    <2>1. UNCHANGED <<net, upd>> /\ nv' = [nv EXCEPT ![n].info = NoInfo]
          /\ Entered(n, "Idle", NoState, core[n].err)
      BY <1>4 DEF IdleEntry
    <2>2. HostKept(n) /\ \A m \in Node \ {n} : hst'[m] = hst[m]
      BY <1>3, <1>4 DEF IdleEntry
    <2>3. /\ QueueKeeps(n, core'[n].q) /\ core'[n].cb = core[n].cb /\ CoreOthers(n)
          /\ CoreEnters(n, "Idle", NoState)
      BY <1>0, <2>1, EnterKeeps
    <2>4. nv'[n].info = NoInfo /\ \A m \in Node \ {n} : nv'[m] = nv[m]
      BY <1>0, <2>1 DEF NvType
    <2>5. FineQueue(upd', n, core'[n].q) /\ Owes(upd', n, core'[n], hst'[n])
      BY <2>1, <2>3 DEF QueueKeeps, Owes, Serving, CoreEnters, HostState
    <2>6. Role(n, core'[n], hst'[n], nv'[n].info.magic)
      BY <2>2, <2>3, <2>4 DEF Role, NodeTold, NodeOnce, HostKept, CoreEnters, NoInfo,
                              HostOnly, HostState
    <2> QED BY <2>1, <2>2, <2>3, <2>4, <2>5, <2>6
           DEF OnceStep, NodeOnce, RestTold, ReportedOnce
  <1>5. CASE ErrorEntry(n)
    <2>1. UNCHANGED <<net, nv>> /\ Report(core[n].cb, FALSE) /\ core[n].pend = "Error"
          /\ \E p \in {NoState, "Idle"} : Entered(n, "Error", p, core[n].err)
      BY <1>5 DEF ErrorEntry, Enters
    <2>2. HostKept(n) /\ \A m \in Node \ {n} : hst'[m] = hst[m]
      BY <1>3, <1>5 DEF ErrorEntry
    <2>3. /\ QueueKeeps(n, core'[n].q) /\ core'[n].cb = core[n].cb /\ CoreOthers(n)
          /\ \E p \in {NoState, "Idle"} : CoreEnters(n, "Error", p)
      BY <1>0, <2>1, EnterKeeps
    <2>4. Owes(upd', n, core'[n], hst'[n])
      BY <2>3 DEF Owes, Serving, CoreEnters, HostState
    <2>5. Role(n, core'[n], hst'[n], nv'[n].info.magic)
      BY <2>1, <2>2, <2>3 DEF Role, NodeTold, NodeOnce, HostKept, CoreEnters,
                              HostOnly, HostState
    <2>6. CASE HostSide(n)
      <3>1. Untold(upd, core[n].cb, n) /\ Apart(core[n].q, core[n].cb)
        BY <2>1, <2>6 DEF NodeTold, NodeOnce, Role, Owes, Serving
      <3>2. FineQueue(upd, n, core'[n].q) /\ Apart(core'[n].q, core[n].cb)
        BY <2>3, <3>1 DEF QueueKeeps
      <3>3. /\ FineQueue(upd', n, core'[n].q) /\ Counted(upd') /\ ReportedOnce'
            /\ \A v \in Update : upd[v].st # "free" /\ upd[v].host # n
                                 => upd'[v] = upd[v]
        BY <1>0, <2>1, <3>1, <3>2, ReportOnce
      <3> QED BY <2>1, <2>2, <2>3, <2>4, <2>5, <3>3 DEF OnceStep, NodeOnce, RestTold
    <2>7. CASE ~HostSide(n)
      <3>1. core[n].cb = NoUpdate
        BY <2>7 DEF NodeTold, NodeOnce, Role
      <3>2. UNCHANGED upd
        BY <2>1, <3>1 DEF Report
      <3> QED BY <2>1, <2>2, <2>3, <2>4, <2>5, <3>2
             DEF OnceStep, NodeOnce, RestTold, QueueKeeps, ReportedOnce
    <2> QED BY <2>6, <2>7
  <1> QED BY <1>1, <1>2, <1>4, <1>5

LEMMA ClientsAreNoHosts ==
  ASSUME RolesApart, NEW n, NEW c, <<n, c>> \in Pairs
  PROVE  ~HostSide(c)
  <1> SUFFICES ASSUME NEW d \in Node, <<c, d>> \in Pairs PROVE FALSE
    BY DEF HostSide
  <1>1. <<c, d>>[1] = c /\ <<n, c>>[2] = c
    OBVIOUS
  <1> QED BY <1>1 DEF RolesApart

LEMMA StopTimersKeep ==
  ASSUME NEW g \in HstType, NEW h \in StopTimers(g)
  PROVE  h \in HstType /\ h.client = g.client /\ h.cb = g.cb
  BY DEF StopTimers, HstType

\* What the steps of a host do to the context of the host.
LEMMA HostContext ==
  ASSUME TypeInv, NEW n \in Node, HostThread(n)
  PROVE  /\ \A m \in Node \ {n} : hst'[m] = hst[m]
         /\ ~(BeginHostRun(n) \/ ReqUpdateEntry(n)) => HostKept(n)
  <1>0. hst \in [Node -> HstType] /\ hst[n] \in HstType /\ hst[n].rem \in Nat
        /\ hst[n].retry \in Nat
    BY DEF TypeInv, TypeOK, HstType
  <1>1. ASSUME NEW h, h.client = hst[n].client, h.cb = hst[n].cb,
               hst' = [hst EXCEPT ![n] = h]
        PROVE  HostKept(n) /\ \A m \in Node \ {n} : hst'[m] = hst[m]
    BY <1>0, <1>1 DEF HostKept
  <1>2. ASSUME NEW g, g \in HstType, g.client = hst[n].client, g.cb = hst[n].cb,
               \E h \in StopTimers(g) : hst' = [hst EXCEPT ![n] = h]
        PROVE  HostKept(n) /\ \A m \in Node \ {n} : hst'[m] = hst[m]
    BY <1>1, <1>2, StopTimersKeep
  <1>3. ASSUME \/ UNCHANGED hst
               \/ hst' = [hst EXCEPT ![n].ackTmr = FALSE]
               \/ hst' = [hst EXCEPT ![n].updTmr = FALSE]
               \/ hst' = [hst EXCEPT ![n].hbTmr = FALSE]
               \/ \E h \in StopTimers(hst[n]) : hst' = [hst EXCEPT ![n] = h]
        PROVE  HostKept(n) /\ \A m \in Node \ {n} : hst'[m] = hst[m]
    <2>1. CASE \E h \in StopTimers(hst[n]) : hst' = [hst EXCEPT ![n] = h]
      BY <1>0, <1>2, <2>1
    <2>2. CASE UNCHANGED hst
      BY <2>2 DEF HostKept
    <2> QED BY <1>0, <1>3, <2>1, <2>2 DEF HostKept, HstType
  <1>4. CASE \/ IdleIgnores(n) \/ HostAborted(n) \/ ReqUpdateIgnores(n)
             \/ ServeNoMemory(n) \/ ServeTimerFails(n) \/ AllowReboot(n)
             \/ ConfirmBoot(n) \/ UpdateEnds(n) \/ HostUpdateIgnores(n)
    BY <1>3, <1>4 DEF IdleIgnores, HostAborted, ReqUpdateIgnores, ServeNoMemory,
       ServeTimerFails, AllowReboot, ConfirmBoot, UpdateEnds, HostUpdateIgnores,
       HostFails
  <1>5. CASE ReqUpdateAck(n)
    <2> DEFINE g == [hst[n] EXCEPT !.ackTmr = FALSE]
    <2>1. g \in HstType /\ g.client = hst[n].client /\ g.cb = hst[n].cb
      BY <1>0 DEF HstType
    <2>2. \/ \E h \in StopTimers(hst[n]) : hst' = [hst EXCEPT ![n] = h]
          \/ hst' = [hst EXCEPT ![n].ackTmr = FALSE]
          \/ \E h \in StopTimers(g) : hst' = [hst EXCEPT ![n] = h]
      BY <1>5 DEF ReqUpdateAck, HostFails
    <2> HIDE DEF g
    <2> QED BY <1>2, <1>3, <2>1, <2>2
  <1>6. CASE ReqUpdateTimeout(n)
    <2> DEFINE g == [hst[n] EXCEPT !.retry = hst[n].retry + 1]
    <2>1. g \in HstType /\ g.client = hst[n].client /\ g.cb = hst[n].cb
      BY <1>0 DEF HstType
    <2>2. \/ \E h \in StopTimers(g) : hst' = [hst EXCEPT ![n] = h]
          \/ hst' = [hst EXCEPT ![n] = [g EXCEPT !.ackTmr = TRUE]]
      BY <1>6 DEF ReqUpdateTimeout
    <2> HIDE DEF g
    <2>3. [g EXCEPT !.ackTmr = TRUE].client = g.client
          /\ [g EXCEPT !.ackTmr = TRUE].cb = g.cb
      BY <2>1 DEF HstType
    <2> QED BY <1>1, <1>2, <2>1, <2>2, <2>3
  <1>7. CASE HostUpdateEntry(n)
    <2>1. PICK h \in StartUpdateTimer(hst[n]) : hst' = [hst EXCEPT ![n] = h]
      BY <1>7 DEF HostUpdateEntry
    <2>2. h.client = hst[n].client /\ h.cb = hst[n].cb
      BY <1>0 DEF StartUpdateTimer, HstType
    <2> QED BY <1>1, <2>1, <2>2
  <1>8. CASE ServeChunk(n)
    <2>1. PICK got, stopped :
             LET g == [hst[n] EXCEPT !.rem = @ - got, !.hbTmr = ~stopped]
             IN  \/ hst' = [hst EXCEPT ![n] = g]
                 \/ \E s \in StopTimers(g) : hst' = [hst EXCEPT ![n] = s]
      BY <1>8 DEF ServeChunk
    <2> DEFINE g == [hst[n] EXCEPT !.rem = @ - got, !.hbTmr = ~stopped]
    <2>2. g.client = hst[n].client /\ g.cb = hst[n].cb
      BY <1>0 DEF HstType
    <2>3. ASSUME NEW s \in StopTimers(g) PROVE s.client = g.client /\ s.cb = g.cb
      BY <1>0, <2>3 DEF StopTimers, HstType
    <2> QED BY <1>1, <2>1, <2>2, <2>3
  <1>9. CASE ServeChunkFails(n)
    <2> DEFINE g == [hst[n] EXCEPT !.hbTmr = TRUE]
    <2>1. g \in HstType /\ g.client = hst[n].client /\ g.cb = hst[n].cb
      BY <1>0 DEF HstType
    <2>2. PICK s \in StopTimers(g) :
             \/ hst' = [hst EXCEPT ![n] = [s EXCEPT !.hbTmr = FALSE]]
             \/ \E t \in StopTimers(s) : hst' = [hst EXCEPT ![n] = t]
      BY <1>9 DEF ServeChunkFails
    <2> HIDE DEF g
    <2>3. s \in HstType /\ s.client = hst[n].client /\ s.cb = hst[n].cb
      BY <2>1, StopTimersKeep
    <2>4. [s EXCEPT !.hbTmr = FALSE].client = s.client
          /\ [s EXCEPT !.hbTmr = FALSE].cb = s.cb
      BY <2>3 DEF HstType
    <2> QED BY <1>1, <1>2, <2>2, <2>3, <2>4
  <1>10. CASE BeginHostRun(n) \/ ReqUpdateEntry(n)
    BY <1>0, <1>10 DEF BeginHostRun, ReqUpdateEntry
  <1> QED BY <1>4, <1>5, <1>6, <1>7, <1>8, <1>9, <1>10 DEF HostThread

\* A host sends requests to the clients of its own updates only.
LEMMA HostNetFine ==
  ASSUME RolesApart, TypeInv, NEW n \in Node, NodeTold(n), NetFine(net), HostThread(n)
  PROVE  NetFine(net')
  <1>0. TypeOK /\ hst[n].client \in Node \cup {NoNode} /\ hst[n].img \in Image
    BY HstFields DEF TypeInv
  <1>1. CASE UNCHANGED net
    BY <1>1
  <1>2. CASE ReqUpdateEntry(n)
    <2>1. core[n].pend = "HostReqUpdate" /\ core[n].cur \in BeginEvent
          /\ core[n].cur.client \in Node /\ core[n].cur.img \in Image
      BY <1>2 DEF ReqUpdateEntry, Enters, TypeInv, RequestKept, BeginEvent
    <2>2. <<n, core[n].cur.client>> \in Pairs
      BY <2>1 DEF NodeTold, NodeOnce, Role, HostState
    <2>3. ~HostSide(core[n].cur.client)
      BY <2>2, ClientsAreNoHosts
    <2>4. Start(n, core[n].cur.img) \in Message
      BY <2>1, MessagesTyped
    <2>5. Send(n, core[n].cur.client, Start(n, core[n].cur.img))
      BY <1>2 DEF ReqUpdateEntry
    <2> QED BY <1>0, <2>1, <2>3, <2>4, <2>5, SendFine
  <1>3. CASE ReqUpdateTimeout(n)
    <2>1. HostSide(n)
      BY <1>3 DEF ReqUpdateTimeout, Receives, InState, NodeTold, NodeOnce, Role, HostState
    <2>2. hst[n].client # NoNode => ~HostSide(hst[n].client)
      BY <2>1, ClientsAreNoHosts DEF NodeTold, NodeOnce, Role
    <2>3. HostSide(NoNode) = FALSE
      <3>1. ASSUME HostSide(NoNode) PROVE FALSE
        BY <3>1, CoreAssumption DEF HostSide
      <3> QED BY <3>1
    <2>4. \E i \in Image : UNCHANGED net \/ Send(n, hst[n].client, Start(n, i))
      <3>1. [hst[n] EXCEPT !.retry = hst[n].retry + 1].img = hst[n].img
        BY <1>0 DEF TypeOK, HstType
      <3> QED BY <1>0, <1>3, <3>1 DEF ReqUpdateTimeout, Client
    <2>5. \A i \in Image : Start(n, i) \in Message
      BY MessagesTyped
    <2>6. ~HostSide(hst[n].client)
      BY <2>2, <2>3
    <2> QED BY <1>0, <1>1, <2>4, <2>5, <2>6, SendFine
  <1>4. CASE ServeChunk(n)
    <2> DEFINE h == hst[n]
               len == PayloadLen(h)
               M(got) == Chunk(n, Padded(NextBytes(h, got), len))
    <2>1. PICK got \in ReadLen(n, len) :
             \/ Send2(n, Client(n), Plain("Heartbeat", n), M(got))
             \/ Send(n, Client(n), M(got))
      BY <1>4 DEF ServeChunk
    <2>2. GoodHost(h) /\ h.rem \in Nat /\ h.img.size \in Nat /\ h.rem <= h.img.size
      BY HstFields DEF GoodHost
    <2>3. len \in Nat /\ len <= h.rem
      BY <2>2, CoreAssumption DEF PayloadLen, Smaller
    <2>4. got \in Nat /\ got <= h.rem
      <3> HIDE DEF len, h
      <3> QED BY <2>2, <2>3 DEF ReadLen
    <2>5. Padded(NextBytes(h, got), len) \in Seq(Unit)
      <3> HIDE DEF h, len
      <3> QED BY <2>2, <2>3, <2>4, PaddedTyped
    <2>6. /\ M(got) \in Message /\ Plain("Heartbeat", n) \in Message
          /\ M(got).ev # "Start" /\ Plain("Heartbeat", n).ev # "Start"
      BY <2>5, MessagesTyped DEF Plain, Chunk
    <2> HIDE DEF M
    <2> QED BY <1>0, <2>1, <2>6, SendFine, Send2Fine DEF Client
  <1>5. CASE AllowReboot(n) \/ ConfirmBoot(n)
    <2>1. /\ Plain("Reboot", n) \in Message /\ Plain("Reboot", n).ev # "Start"
          /\ Result("End", n, TRUE, "None") \in Message
          /\ Result("End", n, TRUE, "None").ev # "Start"
      BY MessagesTyped DEF Plain, Result, Err
    <2>2. \/ Send(n, hst[n].client, Plain("Reboot", n))
          \/ Send(n, hst[n].client, Result("End", n, TRUE, "None"))
      BY <1>5 DEF AllowReboot, ConfirmBoot, Client
    <2> QED BY <1>0, <2>1, <2>2, SendFine
  <1> QED BY <1>1, <1>2, <1>3, <1>4, <1>5 DEF HostThread, BeginHostRun, IdleIgnores,
             ReqUpdateAck, HostAborted, ReqUpdateIgnores, HostUpdateEntry,
             ServeChunkFails, ServeNoMemory, ServeTimerFails, UpdateEnds,
             HostUpdateIgnores

LEMMA HostOnce ==
  ASSUME RolesApart, TypeInv, NEW n \in Node, NodeTold(n), RestTold, HostThread(n)
  PROVE  OnceStep(n)
  <1>0. /\ core \in [Node -> CoreType] /\ hst \in [Node -> HstType]
        /\ core[n] \in CoreType /\ hst[n] \in HstType /\ TypeOK
        /\ FineQueue(upd, n, core[n].q) /\ core[n].q \in Queue
    BY DEF TypeInv, TypeOK, NodeTold, NodeOnce, CoreType
  <1>1. UNCHANGED nv /\ (~UpdateEnds(n) => UNCHANGED upd)
    BY DEF HostThread, BeginHostRun, IdleIgnores, ReqUpdateEntry, ReqUpdateAck,
           ReqUpdateTimeout, HostAborted, ReqUpdateIgnores, HostUpdateEntry,
           ServeChunk, ServeChunkFails, ServeNoMemory, ServeTimerFails,
           AllowReboot, ConfirmBoot, UpdateEnds, HostUpdateIgnores
  <1>2. NetFine(net') /\ \A m \in Node \ {n} : hst'[m] = hst[m]
    BY HostNetFine, HostContext DEF RestTold
  <1>3. ASSUME UNCHANGED upd, CoreOthers(n),
               NodeOnce(upd', n, core'[n], hst'[n], nv'[n].info.magic)
        PROVE  OnceStep(n)
    BY <1>1, <1>2, <1>3 DEF OnceStep, RestTold, ReportedOnce
  <1>4. CASE BeginHostRun(n)
    <2> DEFINE a == After(n, "HostReqUpdate", 1, core[n].err)
               q == PushNops(Tail(core[n].q), 1)
               e == Evt(n)
    <2>0. core[n].q # <<>> /\ core[n].cur = NoEvent /\ core[n].st = "Idle"
          /\ e.ev = "BeginHost" /\ e # NoEvent
      BY <1>0, <1>4, EvtTyped, EventFields DEF BeginHostRun, Receives, InState
    <2>1. /\ a[n].st = core[n].st /\ a[n].pend = "HostReqUpdate"
          /\ a[n].cur = e /\ a[n].q = q /\ DOMAIN a = Node
          /\ DOMAIN a[n] = DOMAIN core[n]
          /\ \A m \in Node \ {n} : a[m] = core[m]
      BY <1>0, <2>0 DEF After, CoreType
    <2>2. core' = [a EXCEPT ![n].cb = e.upd, ![n].peer = e.client]
      BY <1>4 DEF BeginHostRun
    <2>3. /\ core'[n].st = "Idle" /\ core'[n].pend = "HostReqUpdate"
          /\ core'[n].cur = e /\ core'[n].q = q /\ core'[n].cb = e.upd
          /\ \A m \in Node \ {n} : core'[m] = core[m]
      <3> HIDE DEF a, q, e
      <3>1. "cb" \in DOMAIN a[n]
        BY <1>0, <2>1 DEF CoreType
      <3> QED BY <2>0, <2>1, <2>2, <3>1
    <2>4. hst'[n].cb = e.upd /\ hst'[n].client = hst[n].client
      BY <1>0, <1>4 DEF BeginHostRun, HstType
    <2>5. FineEvent(upd, n, e) /\ FineQueue(upd, n, Tail(core[n].q))
          /\ Apart(Tail(core[n].q), e.upd) /\ Tail(core[n].q) \in Queue
      BY <1>0, <2>0, TailFine, PopTyped DEF Evt
    <2>6. FineQueue(upd, n, q) /\ Apart(q, e.upd)
      <3>1. 1 \in 0..2
        OBVIOUS
      <3> QED BY <2>5, <3>1, PushNopsFine
    <2>7. <<n, e.client>> \in Pairs /\ Untold(upd, e.upd, n)
      BY <2>0, <2>5 DEF FineEvent
    <2>8. HostSide(n)
      <3>1. e.client \in Node
        BY <2>7, CoreAssumption
      <3> QED BY <2>7, <3>1 DEF HostSide
    <2> HIDE DEF a, q, e
    <2>9. UNCHANGED upd
      BY <1>4 DEF BeginHostRun
    <2>10. Owes(upd', n, core'[n], hst'[n])
      BY <2>3, <2>4, <2>6, <2>7, <2>9 DEF Owes
    <2>11. Role(n, core'[n], hst'[n], nv'[n].info.magic)
      BY <1>1, <2>3, <2>4, <2>7, <2>8
         DEF NodeTold, NodeOnce, Role, HostOnly, HostState
    <2> QED BY <1>3, <2>3, <2>6, <2>9, <2>10, <2>11 DEF NodeOnce, CoreOthers
  <1>5. CASE ReqUpdateEntry(n)
    <2>1. /\ core[n].pend = "HostReqUpdate"
          /\ Entered(n, "HostReqUpdate", NoState, core[n].err)
          /\ hst'[n].client = core[n].cur.client /\ hst'[n].cb = hst[n].cb
      BY <1>0, <1>5 DEF ReqUpdateEntry, Enters, HstType
    <2>2. /\ QueueKeeps(n, core'[n].q) /\ core'[n].cb = core[n].cb /\ CoreOthers(n)
          /\ CoreEnters(n, "HostReqUpdate", NoState)
      BY <1>0, <2>1, EnterKeeps
    <2>3. UNCHANGED upd
      BY <1>5 DEF ReqUpdateEntry
    <2>4. HostSide(n) /\ Serving(core[n])
      BY <2>1 DEF NodeTold, NodeOnce, Role, Serving, HostState
    <2>5. Owes(upd', n, core'[n], hst'[n])
      BY <2>1, <2>2, <2>3, <2>4 DEF NodeTold, NodeOnce, Owes, QueueKeeps
    <2>6. Role(n, core'[n], hst'[n], nv'[n].info.magic)
      BY <1>1, <2>1, <2>2, <2>4 DEF NodeTold, NodeOnce, Role, CoreEnters, HostOnly,
                                    HostState
    <2> QED BY <1>3, <2>2, <2>3, <2>5, <2>6 DEF NodeOnce, QueueKeeps
  <1>6. CASE HostUpdateEntry(n)
    <2>1. /\ core[n].pend = "HostUpdate"
          /\ Entered(n, "HostUpdate", NoState, core[n].err)
      BY <1>6 DEF HostUpdateEntry, Enters
    <2>2. /\ QueueKeeps(n, core'[n].q) /\ core'[n].cb = core[n].cb /\ CoreOthers(n)
          /\ CoreEnters(n, "HostUpdate", NoState)
      BY <1>0, <2>1, EnterKeeps
    <2>3. UNCHANGED upd
      BY <1>6 DEF HostUpdateEntry
    <2>4. HostKept(n)
      <3>1. ~BeginHostRun(n) /\ ~ReqUpdateEntry(n)
        BY <2>1, <1>6 DEF BeginHostRun, ReqUpdateEntry, Enters, Receives, HostUpdateEntry
      <3> QED BY <3>1, HostContext
    <2>5. HostSide(n) /\ Serving(core[n])
      <3>1. HostSide(n)
        BY <2>1 DEF NodeTold, NodeOnce, Role, HostState
      <3> QED BY <2>1, <3>1 DEF NodeTold, NodeOnce, Role, Serving, HostState
    <2>6. Owes(upd', n, core'[n], hst'[n])
      BY <2>2, <2>3, <2>4, <2>5 DEF NodeTold, NodeOnce, Owes, QueueKeeps, HostKept
    <2>7. Role(n, core'[n], hst'[n], nv'[n].info.magic)
      BY <1>1, <2>2, <2>4, <2>5 DEF NodeTold, NodeOnce, Role, CoreEnters, HostOnly,
                                    HostState, HostKept
    <2> QED BY <1>3, <2>2, <2>3, <2>6, <2>7 DEF NodeOnce, QueueKeeps
  <1>7. CASE UpdateEnds(n) /\ ~UNCHANGED upd
    <2>1. /\ core[n].q # <<>> /\ core[n].cur = NoEvent /\ core[n].st = "HostUpdate"
          /\ Evt(n).ev = "End" /\ GoTo(n, "Idle") /\ Report(hst[n].cb, Evt(n).ok)
          /\ hst' = [hst EXCEPT ![n].updTmr = FALSE]
      BY <1>7 DEF UpdateEnds, Receives, InState
    <2>2. Evt(n).ok \in BOOLEAN
      BY <1>0, <2>1, EvtTyped, EventFields
    <2>3. HostKept(n)
      BY <1>0, <2>1 DEF HostKept, HstType
    <2>4. HostSide(n) /\ Serving(core[n])
      <3>1. HostSide(n)
        BY <2>1 DEF NodeTold, NodeOnce, Role, HostState
      <3> QED BY <2>1, <3>1 DEF NodeTold, NodeOnce, Role, Serving, HostState
    <2>5. /\ QueueKeeps(n, core'[n].q) /\ core'[n].cb = core[n].cb /\ CoreOthers(n)
          /\ CoreRuns(n, "Idle")
      BY <1>0, <2>1, RunKeeps
    <2>6. /\ Untold(upd, core[n].cb, n) /\ hst[n].cb = core[n].cb
          /\ FineQueue(upd, n, core'[n].q) /\ Apart(core'[n].q, core[n].cb)
      BY <2>4, <2>5 DEF NodeTold, NodeOnce, Owes, QueueKeeps
    <2>7. /\ FineQueue(upd', n, core'[n].q) /\ Counted(upd') /\ ReportedOnce'
          /\ \A v \in Update : upd[v].st # "free" /\ upd[v].host # n => upd'[v] = upd[v]
      BY <1>0, <2>1, <2>2, <2>6, ReportOnce
    <2>8. Owes(upd', n, core'[n], hst'[n])
      BY <2>1, <2>5 DEF Owes, Serving, CoreRuns
    <2>9. Role(n, core'[n], hst'[n], nv'[n].info.magic)
      BY <1>1, <2>1, <2>3, <2>4, <2>5 DEF NodeTold, NodeOnce, Role, CoreRuns, HostOnly,
                                          HostState, HostKept
    <2> QED BY <1>1, <1>2, <2>5, <2>7, <2>8, <2>9 DEF OnceStep, NodeOnce
  <1>8. CASE /\ ~(BeginHostRun(n) \/ ReqUpdateEntry(n) \/ HostUpdateEntry(n))
             /\ UNCHANGED upd
    <2>1. HostKept(n)
      BY <1>8, HostContext
    <2>2. CASE IdleIgnores(n)
      <3>1. core[n].q # <<>> /\ core[n].cur = NoEvent /\ Stay(n)
        BY <2>2 DEF IdleIgnores, Receives
      <3>2. /\ QueueKeeps(n, core'[n].q) /\ core'[n].cb = core[n].cb /\ CoreOthers(n)
            /\ CoreRuns(n, NoState)
        BY <1>0, <3>1, RunKeeps
      <3>3. NodeOnce(upd', n, core'[n], hst'[n], nv'[n].info.magic)
        BY <1>1, <1>8, <2>1, <3>1, <3>2, RunOnce
      <3> QED BY <1>3, <1>8, <3>2, <3>3
    <2>3. CASE ~IdleIgnores(n)
      <3>1. core[n].q # <<>> /\ core[n].cur = NoEvent /\ core[n].st \in HostState
        BY <1>8, <2>3 DEF HostThread, ReqUpdateAck,
             ReqUpdateTimeout, HostAborted, ReqUpdateIgnores, ServeChunk,
             ServeChunkFails, ServeNoMemory, ServeTimerFails, AllowReboot,
             ConfirmBoot, UpdateEnds, HostUpdateIgnores, Receives, InState, HostState
      <3>2. \/ Stay(n) \/ GoTo(n, "HostUpdate") \/ GoTo(n, "Idle")
            \/ \E e : Fail(n, e) \/ core' = After(n, "Error", 2, e)
        BY <1>8, <2>3 DEF HostThread, ReqUpdateAck, HostFails,
             ReqUpdateTimeout, HostAborted, ReqUpdateIgnores, ServeChunk,
             ServeChunkFails, ServeNoMemory, ServeTimerFails, AllowReboot,
             ConfirmBoot, UpdateEnds, HostUpdateIgnores
      <3>3. /\ QueueKeeps(n, core'[n].q) /\ core'[n].cb = core[n].cb /\ CoreOthers(n)
            /\ \E s \in {NoState, "Idle", "Error", "HostUpdate"} : CoreRuns(n, s)
        <4>1. 2 \in 0..2
          OBVIOUS
        <4> QED BY <1>0, <3>1, <3>2, <4>1, RunKeeps, AfterKeeps
      <3>4. NodeOnce(upd', n, core'[n], hst'[n], nv'[n].info.magic)
        BY <1>1, <1>8, <2>1, <3>1, <3>3, RunOnce
      <3> QED BY <1>3, <1>8, <3>3, <3>4
    <2> QED BY <2>2, <2>3
  <1> QED BY <1>1, <1>4, <1>5, <1>6, <1>7, <1>8

\* An event is queued for node n and nothing else changes that matters here.
LEMMA QueueOnce ==
  ASSUME TypeInv, NEW n \in Node, NodeTold(n), RestTold,
         NEW e \in Event, FineEvent(upd, n, e), e.ev # "BeginHost",
         CoreKept(n), CoreOthers(n), core'[n].q = Push(core[n].q, e),
         core'[n].cb = core[n].cb, HostKept(n), RestKept(n), nv'[n].info = nv[n].info, NetFine(net'),
         UNCHANGED upd
  PROVE  OnceStep(n)
  <1>0. core \in [Node -> CoreType] /\ core[n] \in CoreType /\ core[n].q \in Queue
        /\ FineQueue(upd, n, core[n].q)
    BY DEF TypeInv, TypeOK, CoreType, NodeTold, NodeOnce
  <1> DEFINE q == Push(core[n].q, e)
  <1>1. FineQueue(upd, n, q) /\ \A u : Apart(core[n].q, u) => Apart(q, u)
    BY <1>0, PushFine
  <1>2. CoreKept(n) /\ CoreOthers(n) /\ core'[n].q = q /\ core'[n].cb = core[n].cb
    OBVIOUS
  <1> HIDE DEF q
  <1>3. Owes(upd', n, core'[n], hst'[n])
    BY <1>1, <1>2 DEF NodeTold, NodeOnce, Owes, Serving, CoreKept, HostKept
  <1>4. Role(n, core'[n], hst'[n], nv'[n].info.magic)
    BY <1>2 DEF NodeTold, NodeOnce, Role, CoreKept, HostKept
  <1> QED BY <1>1, <1>2, <1>3, <1>4
         DEF OnceStep, NodeOnce, RestKept, RestTold, ReportedOnce

\* The event threads and timers of a node, with no event.
LEMMA QuietOnce ==
  ASSUME TypeInv, NEW n \in Node, NodeTold(n), RestTold, CoreKept(n), CoreOthers(n),
         core'[n].q = core[n].q, core'[n].cb = core[n].cb,
         HostKept(n), RestKept(n), nv'[n].info = nv[n].info, NetFine(net'),
         UNCHANGED upd
  PROVE  OnceStep(n)
  <1>1. NodeOnce(upd', n, core'[n], hst'[n], nv'[n].info.magic)
    BY DEF NodeTold, NodeOnce, Owes, Serving, Role, CoreKept, HostKept
  <1> QED BY <1>1 DEF OnceStep, RestKept, RestTold, ReportedOnce

LEMMA TimerOnce ==
  ASSUME TypeInv, NEW n \in Node, NodeTold(n), RestTold,
         ChunkTimer(n) \/ AckTimer(n) \/ UpdateTimer(n) \/ HeartbeatTimer(n)
  PROVE  OnceStep(n)
  <1>0. hst \in [Node -> HstType] /\ hst[n] \in HstType /\ TypeOK
        /\ hst[n].client \in Node \cup {NoNode}
    BY HstFields DEF TypeInv, TypeOK
  <1>1. \A t \in {"ChunkTimeout", "AckTimeout", "Abort"} :
           /\ Local(t) \in Event /\ FineEvent(upd, n, Local(t))
           /\ Local(t).ev # "BeginHost"
    BY LocalTyped, LocalFine
  <1>2. CASE ChunkTimer(n) \/ AckTimer(n) \/ UpdateTimer(n)
    <2>1. /\ \E t \in {"ChunkTimeout", "AckTimeout", "Abort"} : TimerEvent(n, t)
          /\ UNCHANGED <<nv, net, upd>>
      BY <1>2 DEF ChunkTimer, AckTimer, UpdateTimer
    <2>2. HostKept(n) /\ RestKept(n)
      BY <1>0, <1>2 DEF ChunkTimer, AckTimer, UpdateTimer, HostKept, RestKept, HstType
    <2> QED BY <1>1, <2>1, <2>2, TimedKeeps, QueueOnce DEF RestTold
  <1>3. CASE HeartbeatTimer(n)
    <2>1. Plain("Heartbeat", n) \in Message /\ Plain("Heartbeat", n).ev # "Start"
      BY MessagesTyped DEF Plain
    <2>2. NetFine(net')
      BY <1>0, <1>3, <2>1, SendFine DEF HeartbeatTimer, Client, RestTold
    <2>3. UNCHANGED <<core, hst, nv, upd>>
      BY <1>3 DEF HeartbeatTimer
    <2> QED BY <2>2, <2>3, QuietOnce DEF CoreKept, CoreOthers, HostKept, RestKept
  <1> QED BY <1>2, <1>3

LEMMA LinkOnce ==
  ASSUME TypeInv, NEW s \in Node, NEW n \in Node, NodeTold(n), RestTold, Link(s, n)
  PROVE  OnceStep(n)
  <1> DEFINE l == net[s][n]
             m == Head(l)
  <1>0. net \in [Node -> [Node -> Seq(Message)]] /\ l \in Seq(Message) /\ l # <<>>
    BY DEF TypeInv, TypeOK, Link, Deliver, Lose
  <1>1. /\ m \in Message /\ m = l[1] /\ Len(l) \in Nat /\ Len(l) > 0
        /\ Tail(l) \in Seq(Message) /\ Len(Tail(l)) = Len(l) - 1
        /\ \A k \in 1..Len(Tail(l)) : Tail(l)[k] = l[k + 1]
    BY <1>0, HeadTailProperties, EmptySeq, LenProperties
  <1>2. NoStart(l) => NoStart(Tail(l)) /\ m.ev # "Start"
    <2>1. 1 \in 1..Len(l) /\ \A k \in 1..Len(Tail(l)) : k + 1 \in 1..Len(l)
      BY <1>1
    <2> HIDE DEF l, m
    <2> QED BY <1>1, <2>1 DEF NoStart
  <1>3. /\ net'[s][n] = Tail(l) /\ UNCHANGED <<hst, nv, upd>>
        /\ \A t, d \in Node : t # s \/ d # n => net'[t][d] = net[t][d]
    <2>1. /\ net' = [net EXCEPT ![s] = [net[s] EXCEPT ![n] = Tail(l)]]
          /\ UNCHANGED <<hst, nv, upd>>
      BY DEF Link, Deliver, Lose
    <2> HIDE DEF l
    <2> QED BY <1>0, <2>1
  <1>4. NetFine(net')
    <2> HIDE DEF l, m
    <2> QED BY <1>2, <1>3 DEF NetFine, RestTold, l
  <1>5. HostKept(n) /\ RestKept(n)
    BY <1>3 DEF HostKept, RestKept
  <1>6. CASE UNCHANGED core
    BY <1>3, <1>4, <1>5, <1>6, QuietOnce DEF CoreKept, CoreOthers
  <1>7. CASE core' = [core EXCEPT ![n].q = Push(core[n].q, m)]
    <2>1. m \in Event /\ m.ev # "BeginHost"
      BY <1>1 DEF Event, Message
    <2>2. HostSide(n) => m.ev # "Start"
      BY <1>2 DEF RestTold, NetFine
    <2>3. FineEvent(upd, n, m)
      BY <2>1, <2>2 DEF FineEvent
    <2> HIDE DEF m, l
    <2>4. core \in [Node -> CoreType] /\ core[n] \in CoreType
      BY DEF TypeInv, TypeOK
    <2>5. CoreKept(n) /\ CoreOthers(n)
      BY <1>7, QueuedKeeps
    <2>6. core'[n].q = Push(core[n].q, m) /\ core'[n].cb = core[n].cb
      BY <1>7, <2>4 DEF CoreType
    <2> QED BY <1>3, <1>4, <1>5, <2>1, <2>3, <2>5, <2>6, QueueOnce
  <1>8. UNCHANGED core \/ core' = [core EXCEPT ![n].q = Push(core[n].q, m)]
    BY DEF Link, Deliver, Lose
  <1> QED BY <1>6, <1>7, <1>8

\* bm_dfu_initiate_update makes a new update, whose caller is told nothing or,
\* when it is refused, that it is.
LEMMA InitiateOnce ==
  ASSUME TypeInv, NEW n \in Node, NodeTold(n), RestTold, NEW c \in Node, NEW i \in Offered,
         NEW b \in Internal, <<n, c>> \in Pairs, Initiate(n, c, i, b)
  PROVE  OnceStep(n)
  <1>0. /\ core \in [Node -> CoreType] /\ core[n] \in CoreType /\ core[n].q \in Queue
        /\ upd \in [Update -> UpdType] /\ i \in Image
        /\ FineQueue(upd, n, core[n].q) /\ MaxUpdates \in Nat
    BY CoreAssumption DEF TypeInv, TypeOK, CoreType, NodeTold, NodeOnce
  <1>1. PICK k \in 0..MaxUpdates : Started = 1..k
    BY DEF RestTold, Counted, Started
  <1> DEFINE u == NextUpdate
  <1>2. u = k + 1 /\ u \in Update /\ u \notin Started
    <2>1. Cardinality(1..k) = k
      <3>1. 1 \in Int /\ k \in Int /\ k >= 0
        BY <1>0, <1>1
      <3> QED BY <3>1, FS_Interval
    <2>2. u = k + 1 /\ u \in Update
      BY <1>1, <2>1 DEF Initiate, NextUpdate
    <2> QED BY <1>0, <1>1, <2>2
  <1>3. UNCHANGED <<hst, nv, net>>
    BY DEF Initiate
  <1>4. PICK s \in {"accepted", "refused"}, cbs \in {0, 1} :
           /\ Call(u, n, i, c, s, cbs)
           /\ \/ UNCHANGED core
              \/ /\ core' = [core EXCEPT ![n].q =
                                Append(core[n].q, BeginHost(n, u, i, c))]
                 /\ Len(core[n].q) < QueueLen /\ s = "accepted" /\ cbs = 0
    BY DEF Initiate
  <1> HIDE DEF u
  <1>5. /\ upd'[u] = [st |-> s, host |-> n, img |-> i, client |-> c, cbs |-> cbs,
                      ok |-> FALSE]
        /\ \A v \in Update \ {u} : upd'[v] = upd[v]
    BY <1>0, <1>2, <1>4 DEF Call
  <1>6. upd'[u].st = s /\ upd'[u].host = n /\ upd'[u].cbs = cbs /\ s # "free"
    BY <1>4, <1>5
  <1>7. upd[u].st = "free"
    BY <1>2 DEF Started
  <1>8. \A v \in Update : upd[v].st # "free" => upd'[v] = upd[v]
    BY <1>5, <1>7
  <1>9. Counted(upd')
    <2>1. {v \in Update : upd'[v].st # "free"} = Started \cup {u}
      BY <1>2, <1>5, <1>6, <1>7 DEF Started
    <2>2. Started \cup {u} = 1..(k + 1) /\ k + 1 \in 0..MaxUpdates
      <3>1. k + 1 \in 1..MaxUpdates
        BY <1>2 DEF Update
      <3> QED BY <1>1, <1>2, <3>1
    <2> QED BY <2>1, <2>2 DEF Counted
  <1>10. ReportedOnce'
    <2>1. \A v \in Update : upd'[v].cbs <= 1
      BY <1>5, <1>6 DEF RestTold, ReportedOnce
    <2> QED BY <2>1 DEF ReportedOnce
  <1>11. \A v : Untold(upd, v, n) => Untold(upd', v, n) /\ v # u
    BY <1>7, <1>8 DEF Untold
  <1>12. FineQueue(upd', n, core[n].q) /\ Apart(core[n].q, u)
    BY <1>0, <1>11 DEF FineQueue, FineEvent, Apart
  <1>13. \A v \in Update : upd[v].st # "free" /\ upd[v].host # n => upd'[v] = upd[v]
    BY <1>8
  <1>14. CASE UNCHANGED core
    <2>1. NodeOnce(upd', n, core'[n], hst'[n], nv'[n].info.magic)
      BY <1>3, <1>11, <1>12, <1>14 DEF NodeTold, NodeOnce, Owes
    <2> QED BY <1>3, <1>9, <1>10, <1>13, <1>14, <2>1
           DEF OnceStep, CoreOthers, RestTold
  <1>15. CASE /\ core' = [core EXCEPT ![n].q = Append(core[n].q, BeginHost(n, u, i, c))]
              /\ s = "accepted" /\ cbs = 0
    <2> DEFINE e == BeginHost(n, u, i, c)
               q == Append(core[n].q, e)
    <2>1. e \in Event /\ e.ev = "BeginHost" /\ e.upd = u /\ e.client = c
      BY <1>0, <1>2 DEF BeginHost, BeginEvent, Event
    <2>2. FineEvent(upd', n, e)
      <3> HIDE DEF e
      <3> QED BY <1>2, <1>6, <1>15, <2>1 DEF FineEvent, Untold
    <2>3. FineQueue(upd', n, q)
          /\ \A v : Apart(core[n].q, v) /\ v # u => Apart(q, v)
      <3>1. core[n].q \in Seq(Event)
        BY <1>0 DEF Queue
      <3> HIDE DEF e
      <3> QED BY <1>12, <2>1, <2>2, <3>1, AppendFine
    <2> HIDE DEF e, q
    <2>4. /\ CoreKept(n) /\ CoreOthers(n) /\ core'[n].q = q
          /\ core'[n].cb = core[n].cb
      BY <1>0, <1>15 DEF CoreKept, CoreOthers, CoreType, q, e
    <2>5. Owes(upd', n, core'[n], hst'[n])
      BY <1>3, <1>11, <2>3, <2>4 DEF NodeTold, NodeOnce, Owes, Serving, CoreKept
    <2>6. Role(n, core'[n], hst'[n], nv'[n].info.magic)
      BY <1>3, <2>4 DEF NodeTold, NodeOnce, Role, CoreKept
    <2> QED BY <1>3, <1>9, <1>10, <1>13, <2>3, <2>4, <2>5, <2>6
           DEF OnceStep, NodeOnce, RestTold
  <1> QED BY <1>4, <1>14, <1>15

LEMMA ApplicationOnce ==
  ASSUME TypeInv, NEW n \in Node, NodeTold(n), RestTold, Application(n)
  PROVE  OnceStep(n)
  <1>1. CASE SetInternal(n)
    <2>1. /\ CoreKept(n) /\ CoreOthers(n) /\ core'[n].q = core[n].q
          /\ core'[n].cb = core[n].cb /\ UNCHANGED <<hst, nv, net, upd>>
      BY <1>1 DEF SetInternal, TypeInv, TypeOK, CoreType, CoreKept, CoreOthers
    <2> QED BY <2>1, QuietOnce DEF HostKept, RestKept, RestTold
  <1> QED BY <1>1, InitiateOnce DEF Application

LEMMA StepOnce ==
  ASSUME RolesApart, TypeInv, NEW n \in Node, NodeTold(n), RestTold, Step(n)
  PROVE  OnceStep(n)
  <1>1. ASSUME Thread(n) PROVE OnceStep(n)
    BY <1>1, CoreStepOnce, ClientOnce, HostOnce DEF Thread
  <1>2. ASSUME Queues(n) PROVE OnceStep(n)
    BY <1>2, ApplicationOnce, TimerOnce, LinkOnce DEF Queues
  <1> QED BY <1>1, <1>2, ResetOnce DEF Step

LEMMA InitOnce == Init => OnceInv
  <1> SUFFICES ASSUME Init PROVE OnceInv
    OBVIOUS
  <1>1. ASSUME NEW n \in Node PROVE NodeOnce(upd, n, core[n], hst[n], nv[n].info.magic)
    <2>1. core[n] = BootCore /\ hst[n] = BootHst /\ ~nv[n].info.magic
      BY DEF Init, NoInfo
    <2> QED BY <2>1, BootOnce
  <1>2. NetFine(net)
    BY DEF Init, NetFine, NoStart
  <1>3. (\A u \in Update : upd[u].st = "free" /\ upd[u].cbs = 0)
    BY DEF Init
  <1>4. Counted(upd)
    <2>1. {u \in Update : upd[u].st # "free"} = 1..0 /\ 0 \in 0..MaxUpdates
      BY <1>3, CoreAssumption
    <2> QED BY <2>1 DEF Counted
  <1>5. ReportedOnce
    BY <1>3 DEF ReportedOnce
  <1> QED BY <1>1, <1>2, <1>4, <1>5 DEF OnceInv

LEMMA NextOnce ==
  ASSUME RolesApart
  PROVE  TypeInv /\ OnceInv /\ [Next]_vars => OnceInv'
  <1> SUFFICES ASSUME TypeInv, OnceInv, [Next]_vars PROVE OnceInv'
    OBVIOUS
  <1>0. RestTold /\ \A n \in Node : NodeTold(n)
    BY DEF OnceInv, RestTold, NodeTold
  <1>1. ASSUME NEW n \in Node, OnceStep(n) PROVE OnceInv'
    <2>1. ASSUME NEW m \in Node
          PROVE  NodeOnce(upd', m, core'[m], hst'[m], nv'[m].info.magic)
      <3>1. CASE m = n
        BY <1>1, <3>1 DEF OnceStep
      <3>2. CASE m # n
        <4>1. core'[m] = core[m] /\ hst'[m] = hst[m] /\ nv'[m].info = nv[m].info
          BY <1>1, <3>2 DEF OnceStep, CoreOthers
        <4>2. \A u : Untold(upd, u, m) => Untold(upd', u, m)
          BY <1>1, <3>2 DEF OnceStep, Untold
        <4>3. NodeOnce(upd, m, core[m], hst[m], nv[m].info.magic)
          BY <1>0 DEF NodeTold
        <4>4. FineQueue(upd', m, core[m].q) /\ Owes(upd', m, core[m], hst[m])
          BY <4>2, <4>3 DEF NodeOnce, FineQueue, FineEvent, Owes
        <4> QED BY <4>1, <4>3, <4>4 DEF NodeOnce
      <3> QED BY <3>1, <3>2
    <2>2. NetFine(net') /\ Counted(upd') /\ ReportedOnce'
      BY <1>1 DEF OnceStep
    <2> QED BY <2>1, <2>2 DEF OnceInv
  <1>2. CASE UNCHANGED vars
    BY <1>2 DEF vars, OnceInv, ReportedOnce
  <1>3. ASSUME NEW n \in Node, Step(n) PROVE OnceStep(n)
    BY <1>0, <1>3, StepOnce
  <1> QED BY <1>1, <1>2, <1>3 DEF Next, Step, Queues

\* The caller of bm_dfu_initiate_update hears of its update once at most,
\* however many updates it asks for one after the other, whatever the links,
\* timers, flash and resets do, as long as no node both updates and is updated
\* (the finish callback of the last update is kept, and s_error_entry calls it
\* for an error of either role).
THEOREM ToldOnce ==
  ASSUME RolesApart
  PROVE  Spec => []ReportedOnce
  <1>1. OnceInv => ReportedOnce
    BY DEF OnceInv
  <1>2. TypeInv /\ OnceInv /\ [Next]_vars => OnceInv'
    BY NextOnce
  <1> QED BY <1>1, <1>2, InitTyped, NextTyped, InitOnce, PTL DEF Spec

=============================================================================
