------------------------------ MODULE AdinLink ------------------------------
(***************************************************************************)
(* The control path of the ADIN2111 driver: bring-up and power-down of the *)
(* device and its two ports (bm_adin2111.c, adin2111.c, adi_mac.c and      *)
(* adi_phy.c), and the way of a link change from the interrupt registers   *)
(* of a PHY to the link_change callback of the link layer (adi_spi_oa.c).  *)
(*                                                                         *)
(* A register access that fails is modelled where the code goes on from    *)
(* it: the bring-up is a sequence of steps and any one may be the last.    *)
(* The thread of the link layer sends frames and handles interrupts, one   *)
(* register of the chip at a time; the device and its ports are switched,  *)
(* and renegotiated, by other threads, between any two of those steps (but *)
(* in one step: AdinRegs has the accesses of one register).  The chip is   *)
(* modelled from how the driver uses it.                                   *)
(***************************************************************************)
EXTENDS Naturals, Sequences, FiniteSets, SequencesExt

CONSTANTS
    MayFail,         \* steps of the bring-up that may fail
    ReadFails,       \* may the link status be unreadable?
    Others,          \* may a PHY have another event to report at the same time?
    Garbled,         \* may the chip answer a read of a PHY with another header?
    Blocks,          \* does HAL_SpiReadWrite return when the transfer has ended?
    MaxFlip,         \* bound: changes of links and other events
    MaxCall          \* bound: calls of enable, disable, enable_port and disable_port

Port == {1, 2}

AdinLinkAssumption ==
    {ReadFails, Others, Garbled, Blocks} \subseteq BOOLEAN /\ {MaxFlip, MaxCall} \subseteq Nat

VARIABLES
    power,           \* the chip has power
    host,            \* the driver: see Init
    conf,            \* what the chip has been told since its reset
    phy,             \* ports that are out of software powerdown
    link,            \* ports whose link is up
    an,              \* the outcome of each port's last negotiation
    stat,            \* events latched in the interrupt registers of each PHY
    chain,           \* the reads of oaStateMachine, when a footer said EXST
    thread,          \* where the link layer's thread is in adin2111_handle_interrupt
    LINK_CHANGE,     \* held: device_handle is set; mask: port_mask
    told,            \* ports L2 was told are up, since the device was enabled
    flips, calls

chipvars == <<power, conf, phy, link, an, stat>>
vars     == <<chipvars, host, chain, thread, LINK_CHANGE, told, flips, calls>>

Nothing == [p \in Port |-> {}]
AtRest  == [pc |-> "idle", todo |-> {}, got |-> Nothing]
Away    == [pc |-> "idle", next |-> 1]

\* host.hook: the interrupt pin has a handler; irq: it is enabled; listen: the callback for
\* link changes is registered; ports: portEnabled; ok: the last enable succeeded.
Init ==
    /\ power = FALSE /\ conf = {} /\ phy = {} /\ link = {} /\ stat = Nothing
    /\ an = [p \in Port |-> "none"]
    /\ host = [hook |-> FALSE, irq |-> FALSE, listen |-> FALSE, ports |-> {}, ok |-> FALSE]
    /\ chain = AtRest /\ thread = Away /\ LINK_CHANGE = [held |-> FALSE, mask |-> {}]
    /\ told = {} /\ flips = 0 /\ calls = 0

----------------------------------------------------------------------------
(* Bringing the device up.                                                 *)

\* The steps of each function, in order: register accesses, and what else may fail.  A step
\* of a PHY names its port, the others have port 0.
Of(p, steps) == [i \in DOMAIN steps |-> <<steps[i], p>>]

checkIdentity(p)   == Of(p, <<"identity">>)
phyStaticConfig(p) == Of(p, <<"static">>)
PHY_AnEnable(p)    == Of(p, <<"an">>)

phyInit(p) ==
    checkIdentity(p) \o Of(p, <<"powerdown", "mask", "clear">>) \o phyStaticConfig(p)
        \o PHY_AnEnable(p)

PHY_Init(p) == phyInit(p)

macInit == Of(0, <<"imask0", "imask1", "hook", "status", "crc">>)

waitDeviceReady == Of(0, <<"id", "resetc">>)
MAC_Reset       == Of(0, <<"reset">>) \o waitDeviceReady \o macInit
MAC_Init        == Of(0, <<"memory">>) \o MAC_Reset
configureTsPins == Of(0, <<"pins">>)

adin2111_Init ==
    MAC_Init \o Of(0, <<"config2", "phy2up">>) \o PHY_Init(1) \o PHY_Init(2)
        \o <<<<"unmask", 1>>, <<"unmask", 2>>>> \o configureTsPins

\* For the event of a link change.
adin2111_RegisterCallback == <<<<"link", 1>>, <<"link", 2>>>>
MAC_SyncConfig            == Of(0, <<"sync">>)
adin2111_EnablePort(p)    == Of(p, <<"up">>)

Program ==
    adin2111_Init \o adin2111_RegisterCallback \o Of(0, <<"rx">>) \o MAC_SyncConfig
        \o adin2111_EnablePort(1) \o adin2111_EnablePort(2)

\* Steps whose result is not looked at: those of macInit by MAC_Reset, the pins.
Unchecked == Range(macInit \o configureTsPins)

\* The steps that were carried out when step k failed (0 when none did).  The rest of macInit
\* is given up, but for the first step, whose result the second overwrites.
Skipped(k) ==
    IF Program[k] \in {<<"imask0", 0>>, <<"pins", 0>>} THEN {Program[k]}
    ELSE {Program[i] : i \in k..Len(Program)} \cap Unchecked

Carried(k) ==
    IF k = 0 THEN Range(Program)
    ELSE IF Program[k] \in Unchecked THEN Range(Program) \ Skipped(k)
    ELSE {Program[i] : i \in 1..(k - 1)}

\* Where the chip and the driver are after these steps.  The ports are forgotten after
\* MAC_Init; the handler of the pin is kept in bm_adin2111.c.
Settings ==
    {<<"imask0", 0>>, <<"imask1", 0>>, <<"crc", 0>>, <<"config2", 0>>, <<"unmask", 1>>,
     <<"unmask", 2>>, <<"link", 1>>, <<"link", 2>>, <<"sync", 0>>}

After(h, steps) ==
    [hook   |-> h.hook \/ <<"hook", 0>> \in steps,
     irq    |-> <<"sync", 0>> \in steps,
     listen |-> <<"link", 2>> \in steps,
     ports  |-> IF <<"resetc", 0>> \in steps THEN {p \in Port : <<"up", p>> \in steps}
                ELSE h.ports,
     ok     |-> <<"up", 2>> \in steps]

\* adin2111_netdevice_enable, which takes the power away again when it fails.
enable ==
    /\ calls < MaxCall /\ ~power
    /\ \E k \in {0} \cup {i \in DOMAIN Program : Program[i][1] \in MayFail} :
         LET steps == Carried(k)
         IN  /\ host' = After(host, steps)
             /\ power' = (<<"up", 2>> \in steps)
             /\ conf' = IF power' THEN steps \cap Settings ELSE {}
             /\ phy' = IF power' THEN Port ELSE {}
    /\ link' = {} /\ stat' = Nothing /\ told' = {} /\ an' = [p \in Port |-> "none"]
    /\ calls' = calls + 1
    /\ UNCHANGED <<chain, thread, LINK_CHANGE, flips>>

SetPort(ports, p, up) == IF up THEN ports \cup {p} ELSE ports \ {p}

\* Ports of which the link goes when the PHY of p is powered down: port 2 needs port 1.
Served(p) == IF p = 1 THEN Port ELSE {p}

Drop(ports) ==
    /\ link' = link \ ports
    /\ stat' = [q \in Port |-> IF q \in ports \cap link THEN stat[q] \cup {"link"} ELSE stat[q]]
    /\ an' = [q \in Port |-> IF q \in ports THEN "none" ELSE an[q]]

\* setSoftwarePowerdown, then portEnabled.  The register may not be written ("write"), or
\* be written and the PHY not be seen to follow ("poll").
SwitchPort(p, up) ==
    /\ calls < MaxCall /\ power
    /\ \E r \in {"ok"} \cup (MayFail \cap {"write", "poll"}) :
         /\ phy' = IF r = "write" THEN phy ELSE IF up THEN phy \cup {p} ELSE phy \ {p}
         /\ host' = IF r = "ok" THEN [host EXCEPT !.ports = SetPort(@, p, up)] ELSE host
    /\ Drop(IF p \in phy' THEN {} ELSE Served(p))
    /\ calls' = calls + 1
    /\ UNCHANGED <<power, conf, chain, thread, LINK_CHANGE, told, flips>>

\* adin2111_netdevice_disable: port 1, then port 2, then the power, unless a port fails.
disable ==
    /\ calls < MaxCall /\ power
    /\ \E done \in {Port, {1}, {}} :
         /\ done = Port \/ "disable" \in MayFail
         /\ host' = [host EXCEPT !.ports = @ \ done, !.ok = @ /\ done # Port]
         /\ power' = (done # Port)
         /\ phy' = phy \ done
         /\ conf' = IF power' THEN conf ELSE {}
         /\ IF ~power' THEN link' = {} /\ stat' = Nothing /\ an' = [p \in Port |-> "none"]
            ELSE Drop(IF done = {} THEN {} ELSE Port)
    /\ calls' = calls + 1
    /\ UNCHANGED <<chain, thread, LINK_CHANGE, told, flips>>

----------------------------------------------------------------------------
(* The chip.                                                               *)

Alive(p) == p \in phy /\ (p = 1 \/ 1 \in phy)

\* The links come and go; a change is latched, perhaps with another event of the PHY (a
\* hardware error or reset).  A negotiation ends, well or not.
LinkFlip(p) ==
    /\ power /\ Alive(p) /\ flips < MaxFlip /\ an[p] # "fault"
    /\ IF p \in link THEN link' = link \ {p} /\ an' = [an EXCEPT ![p] = "none"]
                     ELSE link' = link \cup {p} /\ an' = [an EXCEPT ![p] = "good"]
    /\ \E other \in IF Others THEN {{}, {"other"}} ELSE {{}} :
         stat' = [stat EXCEPT ![p] = @ \cup {"link"} \cup other]
    /\ flips' = flips + 1
    /\ UNCHANGED <<power, host, conf, phy, chain, thread, LINK_CHANGE, told, calls>>

Fault(p) ==
    /\ power /\ Alive(p) /\ an[p] = "none" /\ p \notin link
    /\ an' = [an EXCEPT ![p] = "fault"]
    /\ UNCHANGED <<power, host, conf, phy, link, stat, chain, thread, LINK_CHANGE, told,
                   flips, calls>>

\* What the masks of the PHY and of the MAC let through.
Shown(p)    == {e \in stat[p] : e = "link" => <<"link", p>> \in conf}
PhyInt(p)   == <<"unmask", p>> \in conf /\ Shown(p) # {}
Pin         == power /\ <<"sync", 0>> \in conf /\ \E p \in Port : PhyInt(p)

----------------------------------------------------------------------------
(* An interrupt.                                                           *)

\* A transfer whose footers say EXST: STATUS0 and STATUS1 say the PHYs to ask.
Starts ==
    chain' = IF Pin THEN [AtRest EXCEPT !.pc = "crsm", !.todo = {p \in Port : PhyInt(p)}]
                    ELSE chain

Ready == thread.pc = "idle" /\ chain.pc = "idle"

\* adin2111_handle_interrupt, for a PHY or for a frame that arrived: oaIrqHandler transfers.
\* The interrupt is off while a transfer runs.
handle_interrupt(frame) ==
    /\ Ready /\ power /\ host.irq /\ host.hook /\ <<"sync", 0>> \in conf
    /\ Pin \/ frame
    /\ Starts
    /\ thread' = [thread EXCEPT !.pc = "transfer"]
    /\ UNCHANGED <<chipvars, host, LINK_CHANGE, told, flips, calls>>

\* MAC_ProcessTxQueue: the transfer of a frame that is sent reads the same footers, and
\* nobody looks at LINK_CHANGE when it has ended.
SendFrame ==
    /\ Ready /\ host.ports # {} /\ Pin
    /\ Starts
    /\ UNCHANGED <<chipvars, host, thread, LINK_CHANGE, told, flips, calls>>

Asked == CHOOSE p \in chain.todo : \A q \in chain.todo : p <= q

\* How the read of a register may go: the header that comes back is wrong, of a read that the
\* chip has not done, or has.
Echo == IF Garbled THEN {"right", "not done", "done"} ELSE {"right"}

Cleared(echo, e) == IF echo = "not done" THEN stat ELSE [stat EXCEPT ![Asked] = @ \ {e}]

\* Straight to oaSpiIntHandle with what has been read.
GivenUp == [chain EXCEPT !.pc = "int", !.todo = {}]

\* CRSM_IRQ_STATUS of a PHY, cleared as it is read.
ReadCrsm ==
    /\ chain.pc = "crsm"
    /\ \E echo \in Echo :
         /\ chain' = IF echo # "right" THEN GivenUp
                     ELSE [chain EXCEPT !.pc = "subsys", !.got[Asked] = stat[Asked] \cap {"other"}]
         /\ stat' = Cleared(echo, "other")
    /\ UNCHANGED <<power, conf, phy, link, an, host, thread, LINK_CHANGE, told, flips, calls>>

\* PHY_SUBSYS_IRQ_STATUS of the same, then on to the other PHY or to oaSpiIntHandle.
SubsysNext(rest) == IF rest = {} THEN "int" ELSE "crsm"

ReadSubsys ==
    LET rest == chain.todo \ {Asked}
    IN  /\ chain.pc = "subsys"
        /\ \E echo \in Echo :
             /\ chain' = IF echo # "right" THEN GivenUp
                         ELSE [chain EXCEPT !.pc = SubsysNext(rest), !.todo = rest,
                                 !.got[Asked] = @ \cup
                                     (IF host.listen THEN stat[Asked] \cap {"link"} ELSE {})]
             /\ stat' = Cleared(echo, "link")
        /\ UNCHANGED <<power, conf, phy, link, an, host, thread, LINK_CHANGE, told, flips, calls>>

\* link_change_callback_: the ports whose registers say a link change and nothing else.
ChangedFirst(got) == IF got[1] = {"link"} THEN {1} ELSE {p \in Port : got[p] = {"link"}}
Changed(got) == {p \in Port : got[p] = {"link"}}

\* oaSpiIntHandle.  The mask of ports is never cleared.
IntHandle ==
    /\ chain.pc = "int"
    /\ LET new == Changed(chain.got)
       IN  LINK_CHANGE' = [held |-> LINK_CHANGE.held \/ new # {}, mask |-> LINK_CHANGE.mask \cup new]
    /\ chain' = AtRest
    /\ UNCHANGED <<chipvars, host, thread, told, flips, calls>>

\* oaIrqHandler returns: is there a change to report?
Returns ==
    /\ thread.pc = "transfer" /\ (Blocks => chain.pc = "idle")
    /\ thread' = IF LINK_CHANGE.held THEN [pc |-> "report", next |-> 1] ELSE Away
    /\ UNCHANGED <<chipvars, host, chain, LINK_CHANGE, told, flips, calls>>

\* The status of each port in the mask is read and given to L2; the read waits for the bus.
\* PHY_GetLinkStatus reads a second time what is latched as down.
Told(p, ok) == IF ~ok THEN told ELSE IF p \in link THEN told \cup {p} ELSE told \ {p}

Report ==
    LET p == thread.next
    IN  /\ thread.pc = "report"
        /\ p \in LINK_CHANGE.mask => chain.pc = "idle"
        /\ \E ok \in {TRUE, ~ReadFails} :
             told' = IF p \in LINK_CHANGE.mask THEN Told(p, ok) ELSE told
        /\ thread' = IF p = 1 THEN [thread EXCEPT !.next = 2] ELSE Away
        /\ LINK_CHANGE' = IF p = 1 THEN LINK_CHANGE ELSE [LINK_CHANGE EXCEPT !.held = FALSE]
        /\ UNCHANGED <<chipvars, host, chain, flips, calls>>

----------------------------------------------------------------------------
\* adin2111_netdevice_renegotiate: a negotiation that is complete without a leader is
\* started again.
renegotiate(p) ==
    /\ power /\ an[p] = "fault"
    /\ an' = [an EXCEPT ![p] = "none"]
    /\ UNCHANGED <<power, host, conf, phy, link, stat, chain, thread, LINK_CHANGE, told,
                   flips, calls>>

----------------------------------------------------------------------------
Chain    == ReadCrsm \/ ReadSubsys \/ IntHandle
Handling == handle_interrupt(FALSE) \/ Returns \/ Report

Next ==
    \/ enable \/ disable
    \/ \E p \in Port :
         \/ SwitchPort(p, TRUE) \/ SwitchPort(p, FALSE) \/ LinkFlip(p) \/ Fault(p)
         \/ renegotiate(p)
    \/ Handling \/ handle_interrupt(TRUE) \/ SendFrame \/ Chain

\* The L2 thread handles the interrupts of the PHYs, and transfers end.  No frame has to
\* arrive or to be sent.
Spec == Init /\ [][Next]_vars /\ WF_vars(Handling) /\ WF_vars(Chain)

----------------------------------------------------------------------------
(* Properties.                                                             *)

TypeOK ==
    /\ power \in BOOLEAN /\ conf \subseteq Settings
    /\ {phy, link, told, host.ports, chain.todo, LINK_CHANGE.mask} \subseteq SUBSET Port
    /\ an \in [Port -> {"none", "fault", "good"}]
    /\ stat \in [Port -> SUBSET {"link", "other"}]
    /\ chain.got \in [Port -> SUBSET {"link", "other"}]
    /\ chain.pc \in {"idle", "crsm", "subsys", "int"}
    /\ (chain.pc \in {"crsm", "subsys"}) = (chain.todo # {})
    /\ thread.pc \in {"idle", "transfer", "report"} /\ thread.next \in Port
    /\ LINK_CHANGE.held \in BOOLEAN
    /\ {host.hook, host.irq, host.listen, host.ok} \subseteq BOOLEAN

\* adin2111_netdevice_enable says BmOK only of a device of which everything works: the pin
\* has a handler and is enabled, every register is set and both ports are enabled.
EnabledWorks ==
    host.ok => host.hook /\ host.irq /\ host.listen /\ power /\ conf = Settings

\* When there is nothing to handle, L2 has been told of each port what its link is, in
\* whatever order changes and reads of the registers came, or LINK_CHANGE remembers that the
\* port is to be told at the next interrupt: the change was read in the transfer of a frame
\* that was sent (link_change_callback_ and adin2111_handle_interrupt).
Remembered(p) == LINK_CHANGE.held /\ p \in LINK_CHANGE.mask

ToldAtRest ==
    (host.ok /\ Ready /\ ~Pin) =>
        \A p \in Port : Remembered(p) \/ (p \in told <=> p \in link)

\* No port is powered that the driver takes for disabled, and while the device has its
\* power none the other way round (portEnabled, which decides where a frame is sent).
PortsAgree == power => host.ports = phy

\* A change is told in the end, once links are still, or remembered if it was read in the
\* transfer of a frame that was sent.
ChangeIsTold ==
    (host.ok /\ told # link) ~> (~host.ok \/ told = link \/ (Ready /\ LINK_CHANGE.held))
=============================================================================
