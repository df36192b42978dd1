------------------------------ MODULE AdinRegs ------------------------------
(***************************************************************************)
(* Register accesses of the ADIN2111 driver.  A register of a PHY is read  *)
(* or written through two MDIO registers of the MAC: its address goes into *)
(* the first, the operation into the second, which is then polled          *)
(* (MAC_PhyRead, MAC_PhyWrite and the interrupt chain of oaStateMachine).  *)
(* All of it shares one SPI bus with the frames.  A task that wants the    *)
(* bus turns the interrupt off, says so in pendingCtrl and waits.          *)
(*                                                                         *)
(* The link layer's task handles interrupts, sends frames and asks for     *)
(* links; the timer's task renegotiates; a task of the application         *)
(* switches ports.  Nothing in the driver keeps them apart.  The bus is    *)
(* asynchronous: the end of a transfer of frames comes as an interrupt.    *)
(***************************************************************************)
EXTENDS Naturals, Sequences

CONSTANTS
    Task,            \* the tasks that use the driver: "l2", "timer", "app"
    Together,        \* may one use it while another does?
    MaxPoll,         \* ADI_MAC_MDIO_MAX_RETRIES
    MaxOp,           \* bound: operations of the tasks and frames
    MaxEvent,        \* bound: events of the PHYs
    Fails,           \* may an access fail, or time out waiting for the bus?
    Preempt          \* may an interrupt fall between the first two lines of PHY_Read?

AdinRegsAssumption ==
    Task \subseteq {"l2", "timer", "app"} /\ {MaxPoll, MaxOp, MaxEvent} \subseteq Nat
    /\ {Together, Fails, Preempt} \subseteq BOOLEAN

VARIABLES
    irq,             \* the interrupt of the pin is enabled
    pendingCtrl,     \* a task waits for the bus
    spi,             \* spiState with state: what the bus does
    mdio,            \* the MDIO registers: address, register operated on, done, data
    pin,             \* the chip asks for attention: the status of a PHY is not read yet
    event,           \* the interrupt was posted to the link layer's queue
    task,            \* task[t]: where t is
    ops, events,
    overlap, wrong   \* history: two transfers at once; a value of the wrong register

chip == <<mdio, pin, events>>
hist == <<overlap, wrong>>
vars == <<irq, pendingCtrl, spi, chip, event, task, ops, hist>>

Idle == [pc |-> "idle"]

Init ==
    /\ irq = TRUE /\ pendingCtrl = FALSE /\ spi = "ready"
    /\ mdio = [addr |-> "none", reg |-> "none", done |-> TRUE, data |-> "none"]
    /\ pin = FALSE /\ event = FALSE
    /\ task = [t \in Task |-> Idle]
    /\ ops = 0 /\ events = 0 /\ overlap = FALSE /\ wrong = FALSE

----------------------------------------------------------------------------
(* What the tasks do with the registers of a PHY.                          *)

PHY_GetLinkStatus    == {[kind |-> "read", reg |-> "AN_STATUS"]}
PHY_GetAnStatus      == {[kind |-> "read", reg |-> "AN_STATUS"],
                         [kind |-> "read", reg |-> "AN_STATUS_EXTRA"]}
PHY_Renegotiate      == {[kind |-> "write", reg |-> "AN_CONTROL"]}
setSoftwarePowerdown == {[kind |-> "write", reg |-> "CRSM_SFT_PD_CNTRL"],
                         [kind |-> "read", reg |-> "CRSM_STAT"]}

\* bm_l2_netif_enable_disable_port runs on the thread of its caller.
Uses(t) == CASE t = "l2"    -> PHY_GetLinkStatus
             [] t = "timer" -> PHY_GetAnStatus \cup PHY_Renegotiate
             [] t = "app"   -> setSoftwarePowerdown

Turn(t) == Together \/ \A u \in Task \ {t} : task[u] = Idle

\* The accesses of MAC_PhyRead and MAC_PhyWrite to registers of the MAC.
MAC_PhyRead  == <<"addr", "start", "poll", "data">>
MAC_PhyWrite == <<"addr", "start", "poll">>
Accesses(op) == IF op.kind = "read" THEN MAC_PhyRead ELSE MAC_PhyWrite

\* PHY_Read and PHY_Write: the interrupt is looked at, then turned off.
PhyBegins(t, op) ==
    /\ task[t] = Idle /\ Turn(t) /\ ops < MaxOp /\ ops' = ops + 1
    /\ task' = [task EXCEPT ![t] = [pc |-> "off", op |-> op, k |-> 1, phyBackup |-> irq,
                                    backup |-> FALSE, polls |-> 0]]
    /\ UNCHANGED <<irq, pendingCtrl, spi, chip, event, hist>>

PhyOff(t) ==
    /\ task[t].pc = "off"
    /\ irq' = FALSE
    /\ task' = [task EXCEPT ![t].pc = "enter"]
    /\ UNCHANGED <<pendingCtrl, spi, chip, event, ops, hist>>

\* MAC_ReadRegister and MAC_WriteRegister.  The interrupt is to be turned on again if it was
\* on, or if a transfer runs, whose end will leave it off for us.
BackupIsIrq == irq
Backup == IF spi # "ready" THEN TRUE ELSE irq

Enter(t) ==
    /\ task[t].pc = "enter"
    /\ task' = [task EXCEPT ![t].pc = "wait", ![t].backup = Backup]
    /\ irq' = FALSE /\ pendingCtrl' = TRUE
    /\ UNCHANGED <<spi, chip, event, ops, hist>>

BusIsMine == spi = "ready"

Wait(t) ==
    /\ task[t].pc = "wait" /\ BusIsMine
    /\ task' = [task EXCEPT ![t].pc = "go"]
    /\ UNCHANGED <<irq, pendingCtrl, spi, chip, event, ops, hist>>

\* What is left to do after an access: the next one, or PHY_Read returns.
Left(on) == irq' = (irq \/ on) /\ pendingCtrl' = FALSE

Ends(t) ==
    /\ Left(task[t].backup \/ task[t].phyBackup)
    /\ task' = [task EXCEPT ![t] = Idle]

Continues(t, k, polls) ==
    /\ Left(task[t].backup)
    /\ task' = [task EXCEPT ![t].pc = "enter", ![t].k = k, ![t].polls = polls]

TimesOut(t) ==
    /\ Fails /\ task[t].pc = "wait" /\ spi # "ready"
    /\ Ends(t)
    /\ UNCHANGED <<spi, chip, event, ops, hist>>

\* waitMdioReady: may the poll be repeated?
PollsOn(n) == n < MaxPoll

PollDone == mdio.done

\* The access: CONTROL_START and CONTROL_END, with what the chip makes of it.
Access(t) ==
    LET o    == task[t].op
        step == Accesses(o)[task[t].k]
    IN  /\ task[t].pc = "go"
        /\ overlap' = (overlap \/ spi # "ready")
        /\ mdio' = CASE step = "addr"  -> [mdio EXCEPT !.addr = o.reg]
                     [] step = "start" -> [mdio EXCEPT !.reg = mdio.addr, !.done = FALSE]
                     [] OTHER          -> mdio
        /\ wrong' = (wrong \/ (step = "data" /\ mdio.data # o.reg))
        /\ IF step = "poll" /\ ~PollDone
           THEN IF PollsOn(task[t].polls) THEN Continues(t, task[t].k, task[t].polls + 1)
                ELSE Ends(t)
           ELSE IF task[t].k = Len(Accesses(o)) THEN Ends(t)
           ELSE Continues(t, task[t].k + 1, task[t].polls)
        /\ UNCHANGED <<spi, pin, events, event, ops>>

\* The header that comes back is not the one that was sent.
AccessFails(t) ==
    /\ Fails /\ task[t].pc = "go"
    /\ overlap' = (overlap \/ spi # "ready")
    /\ Ends(t)
    /\ UNCHANGED <<spi, chip, event, ops, wrong>>

----------------------------------------------------------------------------
(* Frames and interrupts.                                                  *)

\* MAC_ProcessTxQueue, on the link layer's task.
SendFrame ==
    /\ "l2" \in Task /\ task["l2"] = Idle /\ Turn("l2") /\ spi = "ready" /\ ops < MaxOp
    /\ ops' = ops + 1
    /\ irq' = FALSE /\ spi' = "data"
    /\ UNCHANGED <<pendingCtrl, chip, event, task, hist>>

\* The pin: bm_l2_handle_device_interrupt posts an event ...
Interrupt ==
    /\ pin /\ irq /\ ~event
    /\ event' = TRUE
    /\ UNCHANGED <<irq, pendingCtrl, spi, chip, task, ops, hist>>

\* ... for which the link layer calls oaIrqHandler: if the bus is busy, its footers tell all.
oaIrqHandler ==
    /\ event /\ event' = FALSE
    /\ "l2" \in Task => task["l2"] = Idle
    /\ Turn("l2")
    /\ IF spi = "ready" THEN spi' = "data" /\ irq' = FALSE ELSE UNCHANGED <<spi, irq>>
    /\ UNCHANGED <<pendingCtrl, chip, task, ops, hist>>

\* The state machine is done: the bus is free, and the interrupt is left to who waits.
BusReady == spi' = "ready" /\ irq' = (irq \/ ~pendingCtrl)

Exst == pin

\* DATA_END: with EXST in a footer STATUS0 and STATUS1 are read, which leads to the PHY.
DataEnd ==
    /\ spi = "data"
    /\ IF Exst THEN spi' = "phyStart" /\ UNCHANGED irq ELSE BusReady
    /\ UNCHANGED <<pendingCtrl, chip, event, task, ops, hist>>

oaPhyRegReadStart ==
    /\ spi = "phyStart" /\ spi' = "phyStep"
    /\ mdio' = [mdio EXCEPT !.addr = "IRQ_STATUS"]
    /\ UNCHANGED <<irq, pendingCtrl, pin, events, event, task, ops, hist>>

oaPhyRegReadStep ==
    /\ spi = "phyStep" /\ spi' = "phyPoll"
    /\ mdio' = [mdio EXCEPT !.reg = mdio.addr, !.done = FALSE]
    /\ UNCHANGED <<irq, pendingCtrl, pin, events, event, task, ops, hist>>

\* The status of the PHY, which reading clears; oaSpiIntHandle clears that of the MAC.
ReadPhyRegister ==
    /\ spi = "phyPoll" /\ mdio.done
    /\ wrong' = (wrong \/ mdio.data # "IRQ_STATUS")
    /\ pin' = (pin /\ mdio.data # "IRQ_STATUS")
    /\ BusReady
    /\ UNCHANGED <<pendingCtrl, mdio, events, event, task, ops, overlap>>

----------------------------------------------------------------------------
(* The chip.                                                               *)

MdioDone ==
    /\ ~mdio.done
    /\ mdio' = [mdio EXCEPT !.done = TRUE, !.data = mdio.reg]
    /\ UNCHANGED <<irq, pendingCtrl, spi, pin, events, event, task, ops, hist>>

PhyEvent ==
    /\ events < MaxEvent /\ events' = events + 1
    /\ pin' = TRUE
    /\ UNCHANGED <<irq, pendingCtrl, spi, mdio, event, task, ops, hist>>

----------------------------------------------------------------------------
TaskStep(t) == PhyOff(t) \/ Enter(t) \/ Wait(t) \/ Access(t)

\* The bus and its interrupts, which PHY_Read may be too quick for.
Bus == DataEnd \/ oaPhyRegReadStart \/ oaPhyRegReadStep \/ ReadPhyRegister

Next ==
    \/ \E t \in Task : \/ \E op \in Uses(t) : PhyBegins(t, op)
                       \/ TaskStep(t) \/ TimesOut(t) \/ AccessFails(t)
    \/ SendFrame \/ Interrupt \/ oaIrqHandler
    \/ (Preempt \/ \A t \in Task : task[t].pc # "off") /\ Bus
    \/ MdioDone \/ PhyEvent

\* Tasks run, transfers end, and the chip operates its registers.
Fairness ==
    /\ \A t \in Task : WF_vars(TaskStep(t))
    /\ WF_vars(Interrupt) /\ WF_vars(oaIrqHandler) /\ WF_vars(Bus) /\ WF_vars(MdioDone)

Spec == Init /\ [][Next]_vars /\ Fairness

----------------------------------------------------------------------------
(* Properties.                                                             *)

TypeOK ==
    /\ {irq, pendingCtrl, pin, event, overlap, wrong} \subseteq BOOLEAN
    /\ spi \in {"ready", "data", "phyStart", "phyStep", "phyPoll"}
    /\ \A t \in Task : \/ task[t] = Idle
                       \/ /\ task[t].pc \in {"off", "enter", "wait", "go"}
                          /\ task[t].polls <= MaxPoll
                          /\ task[t].k \in DOMAIN Accesses(task[t].op)
    /\ ops <= MaxOp /\ events <= MaxEvent

\* A value read from a PHY is that of the register that was asked for, although the MDIO
\* registers are shared with the interrupt chain (MAC_PhyRead, oaPhyRegReadStart).
ReadIsOfAsked == ~wrong

\* No transfer starts while another runs (the wait for spiState in MAC_ReadRegister and
\* MAC_WriteRegister).
NoOverlap == ~overlap

\* When nobody uses the driver the interrupt is on: each of the places that turn it off
\* leaves somebody to turn it on again (the backups, and pendingCtrl).
IrqBack == (spi = "ready" /\ ~event /\ \A t \in Task : task[t] = Idle) => irq

\* What a PHY has to say is read in the end.
PinIsServed == pin ~> ~pin

\* Register accesses against the interrupt: a value read from a PHY is that
\* of the register asked for although the MDIO registers are shared, no
\* transfer starts while another runs, and when nobody uses the driver the
\* interrupt is on.
AccessesAreApart == TypeOK /\ ReadIsOfAsked /\ NoOverlap /\ IrqBack

----------------------------------------------------------------------------
(* Why accesses are apart: an inductive invariant, when one task at a time  *)
(* uses the driver.                                                         *)

Op  == PHY_GetLinkStatus \cup PHY_GetAnStatus \cup PHY_Renegotiate \cup setSoftwarePowerdown
Reg == {"IRQ_STATUS", "none"} \cup {op.reg : op \in Op}
Busy ==
    [pc : {"off", "enter", "wait", "go"}, op : Op, k : 1..4, phyBackup : BOOLEAN,
     backup : BOOLEAN, polls : 0..MaxPoll]

\* The chain of the interrupt has the MDIO registers for itself.
ChainRight ==
    /\ spi = "phyStep" => mdio.addr = "IRQ_STATUS"
    /\ spi = "phyPoll" => mdio.reg = "IRQ_STATUS" /\ (mdio.done => mdio.data = "IRQ_STATUS")

\* Whoever turned the interrupt off remembers it: the task, in one of its backups, or else the
\* transfer that runs, as long as the task has not said that it waits.
BackupRight(b) ==
    /\ pendingCtrl <=> b.pc \in {"wait", "go"}
    /\ b.pc = "off" => irq = b.phyBackup /\ (b.phyBackup \/ spi # "ready")
    /\ b.pc = "enter" => b.phyBackup \/ spi # "ready" \/ irq
    /\ b.pc \in {"wait", "go"} => b.phyBackup \/ b.backup

\* A task that has begun with the MDIO registers has the bus until it ends, and finds in
\* them what it put there.
MdioRight(b) ==
    /\ b.pc = "off" => b.k = 1
    /\ b.pc = "go" \/ b.k > 1 => spi = "ready"
    /\ b.k \in DOMAIN Accesses(b.op)
    /\ b.k = 2 => mdio.addr = b.op.reg
    /\ b.k = 3 => mdio.reg = b.op.reg /\ (mdio.done => mdio.data = b.op.reg)
    /\ b.k = 4 => mdio.done /\ mdio.data = b.op.reg

RegsInv ==
    /\ {irq, pendingCtrl, pin, event} \subseteq BOOLEAN
    /\ spi \in {"ready", "data", "phyStart", "phyStep", "phyPoll"}
    /\ mdio \in [addr : Reg, reg : Reg, done : BOOLEAN, data : Reg]
    /\ task \in [Task -> {Idle} \cup Busy]
    /\ ops \in 0..MaxOp /\ events \in 0..MaxEvent
    /\ overlap = FALSE /\ wrong = FALSE
    /\ ChainRight
    /\ \A t, u \in Task : t = u \/ task[t] = Idle \/ task[u] = Idle
    /\ (\A t \in Task : task[t] = Idle) => ~pendingCtrl /\ (spi = "ready" => irq)
    /\ \A t \in Task : task[t] # Idle => BackupRight(task[t]) /\ MdioRight(task[t])

-----------------------------------------------------------------------------
(* Beside the registers: the bring-up of the device and the way of a link    *)
(* change to L2, the rest of the driver's control path.  The two share no    *)
(* state; what AdinLink promises is named here, for both together.           *)

CONSTANTS MayFail, ReadFails, Others, Garbled, Blocks, MaxFlip, MaxCall      \* AdinLink

VARIABLES
    power, host, conf, phy, link, an, stat, chain, thread, LINK_CHANGE, l2_told, flips, calls

K == INSTANCE AdinLink WITH told <- l2_told

linkvars ==
    <<power, host, conf, phy, link, an, stat, chain, thread, LINK_CHANGE, l2_told, flips, calls>>

\* The bring-up of the ADIN2111, any of its steps failing:
\* adin2111_netdevice_enable says BmOK only of a device of which everything
\* works, when there is nothing to handle L2 has been told what each link is
\* (or will be at the next interrupt, of a change read as a frame was sent), and the driver knows which ports are powered.
LinksAreTold ==
    /\ K!TypeOK
    /\ K!EnabledWorks
    /\ K!ToldAtRest
    /\ K!PortsAgree
=============================================================================
