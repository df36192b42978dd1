------------------------------ MODULE AdinSpi ------------------------------
(***************************************************************************)
(* The data path of the ADIN2111 driver: frames are put into the transmit  *)
(* ring of adi_mac.c, cut into the chunks of an SPI transfer by            *)
(* adi_spi_oa.c, and put together again from the chunks the chip returns.  *)
(* The chip is modelled from how the driver uses it.                       *)
(*                                                                         *)
(* The unit of data is the word of four bytes: a chunk has Chunk words, a  *)
(* frame on its way to a port at least MinFrame, one received at least one *)
(* more, its checksum.  The i-th word of frame f is <<f, i>>.  Offsets in  *)
(* headers and footers (SWO, EBO) count words from 0.  Time stamps and the *)
(* checksum on the host are off (DRIVER_CONFIG of bm_adin2111.c).          *)
(***************************************************************************)
EXTENDS Naturals, Sequences, FiniteSets, FiniteSetsExt, SequencesExt, TLC

CONSTANTS
    QueueLen,        \* TX_QUEUE_NUM_ENTRIES
    RxBufs,          \* RX_QUEUE_NUM_ENTRIES
    Chunk,           \* words in a chunk
    MinFrame,        \* MIN_FRAME_SIZE
    RxWords,         \* words a receive buffer has room for
    MaxChunks,       \* oaMaxChunkCount
    Credits,         \* chunks the transmit memory of the chip holds
    ToSend,          \* <<size, port>> of frames to send, port 0 for both
    ToArrive,        \* <<size, port, damaged>> of frames that arrive
    Ons,             \* sets of ports that may be enabled
    Level,           \* does an interrupt wait while the driver is busy?
    Noise,           \* may a footer be damaged?
    MaxFrame, MaxStatus             \* bounds: frames sent or arrived, status events

AdinSpiAssumption ==
    /\ {QueueLen, RxBufs, Chunk, MaxChunks, Credits} \subseteq Nat \ {0}
    /\ MinFrame + 1 >= Chunk
    /\ \A t \in ToSend : t[1] \in Nat \ {0} /\ t[2] \in 0..2
    /\ \A t \in ToArrive : t[1] > MinFrame /\ t[1] <= RxWords /\ t[2] \in {1, 2}
    /\ Ons \subseteq SUBSET {1, 2} /\ {Level, Noise} \subseteq BOOLEAN
    /\ {MaxFrame, MaxStatus} \subseteq Nat

VARIABLES
    dev,             \* adi_mac_Device_t: see Init
    chip,            \* the chip: its memories, and what it made of the chunks
    on,              \* portEnabled
    sent, arrived,   \* every frame put into the ring, every frame that arrived
    statuses

vars == <<dev, chip, on, sent, arrived, statuses>>

Raw   == QueueLen + 1
Blank == <<0, 0>>
NoBuf == [size |-> 1, port |-> 1, refs |-> 0]

\* Words from + 1 .. from + n of frame f.
Words(f, from, n) == [i \in 1..n |-> <<f, from + i>>]

Init ==
    /\ dev = [buf |-> <<>>,                                \* descriptors of buffers to send
              ent |-> [i \in 0..QueueLen |-> 0],           \* txQueue.pEntries, 0 is NULL
              head |-> 0, tail |-> 0,
              cur |-> 0, off |-> 0,                        \* oaTxCurBufIdx, -ByteOffset
              rxq |-> <<>>, data |-> <<>>, flag |-> "none", \* pRxQueue, pRxBuf, oaValidFlag
              txc |-> Credits, rca |-> 0,                  \* what the last footer said
              state |-> "ready", chunks |-> <<>>, foot |-> <<>>, exst |-> FALSE,
              got |-> <<>>]                                \* frames given to L2
    /\ chip = [free |-> Credits, words |-> <<>>, port |-> 1, wire |-> <<>>, over |-> FALSE,
               rxc |-> <<>>, int |-> FALSE, exst |-> FALSE]
    /\ on \in Ons
    /\ sent = <<>> /\ arrived = <<>> /\ statuses = 0

----------------------------------------------------------------------------
(* The transmit ring.                                                      *)

queueCount(d)   == (d.head + Raw - d.tail) % Raw
queueIsFull(d)  == queueCount(d) = QueueLen
queueIsEmpty(d) == d.head = d.tail
queueAdd(d)     == [d EXCEPT !.head = (@ + 1) % Raw]
queueRemove(d)  == [d EXCEPT !.tail = (@ + 1) % Raw]

Desc(d, i) == IF d.ent[i] = 0 THEN NoBuf ELSE d.buf[d.ent[i]]

\* The positions from the current one to the head.  The loop of oaSpiProcess tests at its
\* end: with nothing left before the head it goes once round the ring.
Ahead(d) ==
    LET n == (d.head + Raw - d.cur) % Raw
    IN  {(d.cur + j) % Raw : j \in 0..((IF n = 0 THEN Raw ELSE n) - 1)}

----------------------------------------------------------------------------
(* Chunks to send.                                                         *)

Idle(norx) == [dv |-> FALSE, norx |-> norx, sv |-> FALSE, swo |-> 0, vs |-> 1, ev |-> FALSE,
               ebo |-> 0, words |-> [i \in 1..Chunk |-> Blank]]

\* Where the next frame starts in a chunk whose first `take` words end another: one word
\* later if it would end in this chunk too.
StartWord(take, size) == IF size + take <= Chunk THEN take + 1 ELSE take

\* How much of that frame the chunk has.
Begun(swo) == Chunk - swo

\* The port in the header.  Only a frame that opens a chunk has its own there.
Vs(d) == IF d.off = 0 THEN Desc(d, d.cur).port ELSE 1

\* A chunk that carries on with the current frame and, when that ends and the chunk has
\* no start in it yet, begins the next one.
Loaded(d, norx) ==
    LET f == d.ent[d.cur]   left == Desc(d, d.cur).size - d.off
        take   == IF left > Chunk THEN Chunk ELSE left
        ends   == take = left   first == d.off = 0
        cur    == IF ends THEN (d.cur + 1) % Raw ELSE d.cur
        second == take < Chunk /\ cur # d.head /\ ~first
        swo    == StartWord(take, Desc(d, cur).size)
    IN  [d EXCEPT
            !.cur = cur,
            !.off = IF second THEN Begun(swo) ELSE IF ends THEN 0 ELSE @ + take,
            !.chunks = Append(@,
                [dv |-> TRUE, norx |-> norx, sv |-> first \/ second,
                 swo |-> IF second THEN swo ELSE 0,
                 vs |-> Vs(d),
                 ev |-> ends, ebo |-> IF ends THEN take - 1 ELSE 0,
                 words |-> [i \in 1..Chunk |->
                     IF i <= take THEN <<f, d.off + i>>
                     ELSE IF second /\ i > swo THEN <<d.ent[cur], i - swo>> ELSE Blank]])]

oaCreateNextChunk(d, txEn) ==
    IF txEn /\ (queueIsFull(d) \/ d.cur # d.head)
    THEN Loaded(d, d.rxq = <<>>)
    ELSE [d EXCEPT !.chunks = Append(@, Idle(d.rxq = <<>>))]

Least(a, b) == IF a < b THEN a ELSE b

\* As many chunks as there is data and credit for, and as there are chunks to read.
TxChunksNoCredit(d) ==
    LET total == MapThenSumSet(LAMBDA i : Desc(d, i).size, Ahead(d)) - d.off
    IN  IF queueIsEmpty(d) THEN 0 ELSE (total + Chunk - 1) \div Chunk
TxChunks(d) ==
    LET total == MapThenSumSet(LAMBDA i : Desc(d, i).size, Ahead(d)) - d.off
    IN  IF queueIsEmpty(d) THEN 0 ELSE Least((total + Chunk - 1) \div Chunk, d.txc)

oaSpiProcess(d) ==
    LET tx == TxChunks(d)
        n  == Least(IF d.rca > tx THEN d.rca ELSE tx, MaxChunks)
    IN  FoldLeft(LAMBDA e, k : oaCreateNextChunk(e, k <= tx),
                 [d EXCEPT !.chunks = <<>>, !.foot = <<>>], [k \in 1..n |-> k])

Ready(d) == [d EXCEPT !.state = "ready", !.chunks = <<>>, !.foot = <<>>]

\* DATA_START: a transfer, or back to rest with the interrupt enabled.
Start(d) ==
    LET e == oaSpiProcess(d)
    IN  IF e.chunks = <<>> THEN Ready(e) ELSE [e EXCEPT !.state = "data_end"]

----------------------------------------------------------------------------
(* Sending.                                                                *)

MAC_ProcessTxQueue(d) == IF ~queueIsEmpty(d) /\ d.state = "ready" THEN Start(d) ELSE d

Accepted(d, b) == d.buf[b].size >= MinFrame /\ ~queueIsFull(d)

MAC_SubmitTxBuffer(d, b) ==
    MAC_ProcessTxQueue(IF Accepted(d, b) THEN queueAdd([d EXCEPT !.ent[d.head] = b]) ELSE d)

SubmitTo(d, b, p) == MAC_SubmitTxBuffer([d EXCEPT !.buf[b].port = p], b)
Free(d, b)        == [d EXCEPT !.buf[b].refs = 0]

\* adin2111_SubmitTxBuffer to both ports (port 0): two entries with one descriptor, of
\* which the driver also keeps the port.
Flood(d, b) ==
    LET both == [d EXCEPT !.buf[b].refs = IF on = {1, 2} THEN 2 ELSE 1]
        one  == IF 1 \in on THEN SubmitTo(both, b, 1) ELSE both
        two  == IF 2 \in on THEN SubmitTo(one, b, 2) ELSE one
    IN  IF QueueLen - queueCount(d) < 2 THEN Free(d, b)
        ELSE IF on # {} /\ ~Accepted(d, b) THEN Free(MAC_ProcessTxQueue(both), b)
        ELSE two


adin2111_SubmitTxBuffer(d, b, port) ==
    IF port = 0 THEN Flood(d, b)
    ELSE IF Accepted(d, b) THEN SubmitTo(d, b, port) ELSE Free(SubmitTo(d, b, port), b)

\* The entries that d has and dev has not, as frames to expect on the wire.
Added(d, b, port) ==
    LET n     == queueCount(d) - queueCount(dev)
        lone  == queueIsEmpty(dev) /\ dev.state = "ready" /\ dev.txc > 0
        ports == IF port # 0 THEN <<port>> ELSE SetToSortSeq(on, <)
    IN  [i \in 1..n |-> [id |-> b, size |-> d.buf[b].size, port |-> ports[i],
                         lone |-> lone /\ i = 1]]

\* adin2111_netdevice_send, with a copy of the caller's data.
Send(size, port) ==
    LET b == Len(dev.buf) + 1
        d == [dev EXCEPT !.buf = Append(@, [size |-> size, port |-> 1, refs |-> 1])]
        e == adin2111_SubmitTxBuffer(d, b, port)
    IN  /\ b + Len(arrived) <= MaxFrame
        /\ dev' = e
        /\ sent' = sent \o Added(e, b, port)
        /\ UNCHANGED <<chip, on, arrived, statuses>>

\* A buffer to receive into: the loop in adin2111_netdevice_enable.
SubmitRx ==
    /\ Len(dev.rxq) < RxBufs
    /\ LET d == [dev EXCEPT !.rxq = Append(@, 1)]
       IN  dev' = IF d.state = "ready" THEN Start(d) ELSE d
    /\ UNCHANGED <<chip, on, sent, arrived, statuses>>

----------------------------------------------------------------------------
(* The end of a transfer.                                                  *)

\* The callback of the buffer gives the frame to L2 and queues the buffer again.
receive_callback(d, words, ovf) ==
    [d EXCEPT !.got = Append(@, [words |-> words, port |-> d.rxq[1], ovf |-> ovf]),
              !.rxq = Append(Tail(@), d.rxq[1]), !.data = <<>>]

WithoutFcs(w) == SubSeq(w, 1, Len(w) - 1)

Single(r) == r.sv /\ r.ev /\ r.ebo >= r.swo

\* A footer with EV: the frame under way ends in this chunk.
RxEnd(d, r) ==
    IF ~r.ev \/ (~r.fd /\ Single(r)) THEN d
    ELSE IF r.fd THEN [d EXCEPT !.data = <<>>]
    ELSE IF d.flag # "start" THEN [d EXCEPT !.data = <<>>, !.flag = "end"]
    ELSE IF Len(d.data) + r.ebo + 1 > RxWords
    THEN [receive_callback(d, <<>>, TRUE) EXCEPT !.flag = "end"]
    ELSE [receive_callback(d, WithoutFcs(d.data \o SubSeq(r.words, 1, r.ebo + 1)), FALSE)
             EXCEPT !.flag = "end"]

\* A footer with SV: a frame starts, and may also end, in this chunk.
RxStart(d, r) ==
    LET e == [d EXCEPT !.rxq[1] = r.vs, !.data = SubSeq(r.words, r.swo + 1, Chunk)]
    IN  IF d.rxq = <<>> THEN d
        ELSE IF Single(r)
        THEN [receive_callback(e, WithoutFcs(SubSeq(r.words, r.swo + 1, r.ebo + 1)), FALSE)
                 EXCEPT !.flag = "end"]
        ELSE [e EXCEPT !.flag = "start"]

\* Neither: all of the chunk belongs to the frame under way.
RxMiddle(d, r) ==
    IF r.ev \/ d.flag # "start" THEN d
    ELSE IF Len(d.data) + Chunk > RxWords THEN receive_callback(d, <<>>, TRUE)
    ELSE [d EXCEPT !.data = @ \o r.words]

RxChunk(d, r) ==
    LET e == RxEnd(d, r)
    IN  IF ~r.dv THEN d ELSE IF r.sv THEN RxStart(e, r) ELSE RxMiddle(e, r)

\* A chunk that was sent with EV: the oldest entry is done, and its buffer freed by
\* tx_complete with its last reference.
TxEnd(d) ==
    LET b == d.ent[d.tail]
    IN  IF b = 0 THEN queueRemove(d)
        ELSE [queueRemove(d) EXCEPT !.buf[b].refs = IF @ = 0 THEN 0 ELSE @ - 1]

\* One chunk of a transfer.  One whose footer is damaged is ignored altogether.
ChunkEnd(d, k) ==
    LET r == d.foot[k]
        e == RxChunk([d EXCEPT !.txc = r.txc, !.rca = r.rca, !.exst = @ \/ r.exst], r)
    IN  IF d.chunks[k].ev THEN TxEnd(e) ELSE e

\* Is there reason for another transfer?
MoreToRead(d) == d.rxq # <<>> /\ d.rca > 0
More(d) == (~queueIsEmpty(d) /\ d.txc > 0) \/ (d.rxq # <<>> /\ d.rca > 0)

\* DATA_END: every chunk, then the status registers, the next transfer or rest.
DataEnd ==
    /\ dev.state = "data_end" /\ dev.foot # <<>>
    /\ \E lost \in IF Noise THEN SUBSET DOMAIN dev.foot ELSE {{}} :
       \E resync \in {FALSE, Len(dev.foot) \in lost} :
          LET d == FoldLeft(LAMBDA e, k : IF k \in lost THEN e ELSE ChunkEnd(e, k),
                            dev, [k \in DOMAIN dev.foot |-> k])
              e == [d EXCEPT !.exst = FALSE, !.foot = <<>>, !.chunks = <<>>]
          IN  dev' = IF d.exst \/ resync THEN [e EXCEPT !.state = "read_status"]
                     ELSE IF More(e) THEN oaSpiProcess(e) ELSE Ready(e)
    /\ UNCHANGED <<chip, on, sent, arrived, statuses>>

\* The interrupt handler, when the driver is at rest: one chunk that asks for no data.
oaIrqHandler ==
    /\ chip.int /\ dev.state = "ready"
    /\ dev' = [dev EXCEPT !.state = "data_end", !.chunks = <<Idle(TRUE)>>, !.foot = <<>>]
    /\ UNCHANGED <<chip, on, sent, arrived, statuses>>

\* The status registers have been read (AdinLink has what is done with them) and are
\* written back to clear them, then the state machine is at DATA_START.
ReadStatus ==
    /\ dev.state = "read_status"
    /\ dev' = [dev EXCEPT !.state = "data_start"]
    /\ chip' = [chip EXCEPT !.exst = FALSE]
    /\ UNCHANGED <<on, sent, arrived, statuses>>

DataStart ==
    /\ dev.state = "data_start"
    /\ dev' = Start(dev)
    /\ UNCHANGED <<chip, on, sent, arrived, statuses>>

----------------------------------------------------------------------------
(* The chip.                                                               *)

\* A chunk that came over SPI: an end, then a start, or all of it in the frame under way.
ChipTx(x, c) ==
    LET done  == x.words \o SubSeq(c.words, 1, c.ebo + 1)
        y     == IF c.ev /\ ~Single(c)
                 THEN [x EXCEPT !.wire = Append(@, [words |-> done, port |-> x.port])] ELSE x
        begun == [y EXCEPT !.words = SubSeq(c.words, c.swo + 1, Chunk), !.port = c.vs]
        z     == IF Single(c)
                 THEN [x EXCEPT !.wire = Append(@, [words |-> SubSeq(c.words, 1, c.ebo + 1),
                                                    port |-> c.vs])]
                 ELSE IF c.sv THEN begun
                 ELSE IF c.ev THEN [y EXCEPT !.words = <<>>]
                 ELSE [x EXCEPT !.words = @ \o c.words]
    IN  IF ~c.dv THEN x
        ELSE IF x.free = 0 THEN [x EXCEPT !.over = TRUE] ELSE [z EXCEPT !.free = @ - 1]

\* One chunk each way.  The footer tells the credit and the chunks that remain.
Exchange(s, c) ==
    LET x == ChipTx(s.chip, c)
        gives == ~c.norx /\ x.rxc # <<>>
        y == IF gives THEN [x EXCEPT !.rxc = Tail(@)] ELSE x
        r == IF gives THEN x.rxc[1] ELSE [Idle(FALSE) EXCEPT !.vs = 1] @@ [fd |-> FALSE]
    IN  [chip |-> y,
         foot |-> Append(s.foot, r @@ [txc |-> y.free, rca |-> Len(y.rxc), exst |-> y.exst])]

Transfer ==
    /\ dev.state = "data_end" /\ dev.foot = <<>>
    /\ LET s == FoldLeft(Exchange, [chip |-> [chip EXCEPT !.int = FALSE], foot |-> <<>>],
                         dev.chunks)
       IN  chip' = s.chip /\ dev' = [dev EXCEPT !.foot = s.foot]
    /\ UNCHANGED <<on, sent, arrived, statuses>>

\* An interrupt that comes while the driver is busy waits only if it is level-sensitive.
Raised == Level \/ dev.state = "ready"

\* The chunks of a frame whose first word is at `at` of the first chunk.
Cut(f, p, size, fd, at) ==
    LET last == (at + size - 1) \div Chunk
    IN  [k \in 1..(last + 1) |->
            [dv |-> TRUE, norx |-> FALSE, sv |-> k = 1, swo |-> IF k = 1 THEN at ELSE 0,
             vs |-> p, ev |-> k = last + 1, fd |-> k = last + 1 /\ fd,
             ebo |-> IF k = last + 1 THEN (at + size - 1) % Chunk ELSE 0,
             words |-> [i \in 1..Chunk |->
                 LET w == (k - 1) * Chunk + i - at
                 IN  IF w \in 1..size THEN <<f, w>> ELSE Blank]]]

\* The end of one frame and the start of the next in one chunk.
Joined(c, e) ==
    [c EXCEPT !.sv = TRUE, !.swo = e.swo, !.vs = e.vs,
              !.words = [i \in 1..Chunk |-> IF i > e.swo THEN e.words[i] ELSE @[i]]]

\* A frame arrives at a port.  It may start in the chunk the last one ends in.
Arrive(size, p, fd) ==
    LET f == Len(arrived) + 1
        n == Len(chip.rxc)
    IN  /\ f + Len(dev.buf) <= MaxFrame
        /\ \E join \in BOOLEAN :
             /\ join => /\ n > 0 /\ ~chip.rxc[n].sv
                        /\ chip.rxc[n].ebo + 1 < Chunk /\ chip.rxc[n].ebo + 1 + size > Chunk
             /\ LET at  == IF join THEN chip.rxc[n].ebo + 1 ELSE 0
                    new == Cut(f, p, size, fd, at)
                    rxc == IF join
                           THEN [chip.rxc EXCEPT ![n] = Joined(@, new[1])] \o Tail(new)
                           ELSE chip.rxc \o new
                IN  chip' = [chip EXCEPT !.rxc = rxc, !.int = @ \/ (n = 0 /\ Raised)]
        /\ arrived' = Append(arrived, [size |-> size, port |-> p, fd |-> fd])
        /\ UNCHANGED <<dev, on, sent, statuses>>

\* A chunk of the transmit memory has gone out.
Drain ==
    /\ chip.free < Credits
    /\ chip' = [chip EXCEPT !.free = @ + 1, !.int = @ \/ (chip.free = 0 /\ Raised)]
    /\ UNCHANGED <<dev, on, sent, arrived, statuses>>

\* Something to report in the status registers.
Status ==
    /\ statuses < MaxStatus /\ ~chip.exst
    /\ statuses' = statuses + 1
    /\ chip' = [chip EXCEPT !.exst = TRUE, !.int = @ \/ Raised]
    /\ UNCHANGED <<dev, on, sent, arrived>>

----------------------------------------------------------------------------
Works ==
    SubmitRx \/ Transfer \/ DataEnd \/ oaIrqHandler \/ ReadStatus \/ DataStart \/ Drain

Next ==
    \/ \E t \in ToSend : Send(t[1], t[2])
    \/ \E t \in ToArrive : Arrive(t[1], t[2], t[3])
    \/ Status \/ Works

CanWork ==
    \/ Len(dev.rxq) < RxBufs \/ dev.state # "ready" \/ chip.int \/ chip.free < Credits
DidWork == UNCHANGED <<sent, arrived, statuses>> /\ Len(dev'.buf) = Len(dev.buf)

\* Transfers end, the chip empties its memory, the interrupt pin is served and the loop in
\* adin2111_netdevice_enable goes on: while one of these can happen, one does.  This is
\* weak fairness of Works, with ENABLED Works and the steps of Works written out.
Spec == Init /\ [][Next]_vars /\ ([]<>~CanWork \/ []<><<DidWork>>_vars)

----------------------------------------------------------------------------
(* Properties.                                                             *)

TypeOK ==
    /\ dev.ent \in [0..QueueLen -> 0..Len(dev.buf)]
    /\ {dev.head, dev.tail, dev.cur} \subseteq 0..QueueLen
    /\ \A b \in DOMAIN dev.buf :
          /\ dev.buf[b].refs \in 0..2 /\ dev.buf[b].port \in {1, 2}
    /\ Len(dev.rxq) <= RxBufs /\ Len(dev.data) <= RxWords
    /\ dev.flag \in {"none", "start", "end"}
    /\ dev.state \in {"ready", "data_start", "data_end", "read_status"}
    /\ Len(dev.chunks) <= MaxChunks /\ Len(dev.foot) <= Len(dev.chunks)
    /\ dev.txc \in 0..Credits /\ chip.free \in 0..Credits /\ on \in Ons

\* Positions of the ring that hold a frame.
Queued == {(dev.tail + j) % Raw : j \in 0..(queueCount(dev) - 1)}

\* A buffer has as many references as the ring has entries for it: none that is still to
\* be sent has been freed (adi_spi_oa.c, the end of a transmitted frame), and none that is
\* not is kept (refCount of adin2111_SubmitTxBuffer).
RefsMatch ==
    \A b \in DOMAIN dev.buf : dev.buf[b].refs = Cardinality({i \in Queued : dev.ent[i] = b})

\* What the chip puts together from the chunks is what was queued: every frame whole, in
\* order and once (oaCreateNextChunk, with two frames in a chunk and a full ring).
TxIntact ==
    /\ Len(chip.wire) <= Len(sent)
    /\ \A i \in DOMAIN chip.wire :
          chip.wire[i].words = Words(sent[i].id, 0, sent[i].size)

\* No chunk of data is sent that the chip has no memory for (oaSpiProcess caps by TXC).
NoTxOverflow == ~chip.over

\* What is given to L2 is what arrived undamaged, whole, without its checksum, in order,
\* once and with its port (the end of a transfer in oaStateMachine).
RxIntact ==
    LET good == SelectSeq([i \in DOMAIN arrived |-> arrived[i] @@ [id |-> i]],
                          LAMBDA a : ~a.fd)
    IN  /\ Len(dev.got) <= Len(good)
        /\ \A i \in DOMAIN dev.got :
              /\ dev.got[i].words = Words(good[i].id, 0, good[i].size - 1)
              /\ dev.got[i].port = good[i].port

\* A frame that was queued with nothing before it leaves by its port.
LonePort ==
    \A i \in DOMAIN chip.wire : sent[i].lone => chip.wire[i].port = sent[i].port

\* Every frame leaves by the port it was sent to.  This does not hold: see the README.
RightPort ==
    \A i \in DOMAIN chip.wire : chip.wire[i].port = sent[i].port

\* Every frame that was queued goes out, whatever memory the chip had when it was: once
\* there are no more, none is left behind.
QueuedIsSent == (Len(sent) > 0) ~> (Len(chip.wire) = Len(sent))

\* Every undamaged frame that arrives is given to L2.
ArrivedIsGiven ==
    (Len(arrived) > 0) ~> (Len(dev.got) = Cardinality({k \in DOMAIN arrived : ~arrived[k].fd}))
=============================================================================
