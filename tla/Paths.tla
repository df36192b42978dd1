------------------------------- MODULE Paths --------------------------------
(***************************************************************************)
(* What is above and below layer 2 on the way of a message: the datagrams   *)
(* of the middleware, and in the ADIN2111 driver the table of forwarded     *)
(* addresses and the filter of addresses.  The three share no state: what   *)
(* each promises is said here, for their composition.                       *)
(***************************************************************************)
EXTENDS Integers, Sequences, FiniteSets

CONSTANTS
    Address, Size, MaxAge,                                          \* AdinForward
    NumEntries, MaskMax, TsBase, Rule, Mask, Careful, MayFail,      \* AdinFilter
    UdpStack, UdpBuffer, NetQueueLen, HandlerLen, L2Port, Fails, Retries, SamePort  \* Datagrams

VARIABLES
    dynamicTable, replaceLoc, lastPort, silent,
    reg, active, rules, result,
    started, pcbs, apps, mavlink, udp_ref, data, net_queue, task, sender, cb_queue,
    ticking

F == INSTANCE AdinForward WITH table <- dynamicTable
R == INSTANCE AdinFilter WITH asked <- rules
D == INSTANCE Datagrams WITH
        Stack <- UdpStack, Buffer <- UdpBuffer, QueueLen <- NetQueueLen, ref <- udp_ref

forwardvars == <<dynamicTable, replaceLoc, lastPort, silent>>
filtervars == <<reg, active, rules, result>>
udpvars == <<started, pcbs, apps, mavlink, udp_ref, data, net_queue, task, sender, cb_queue,
       ticking>>

PathsAssumption ==
    F!AdinForwardAssumption /\ R!AdinFilterAssumption /\ D!DatagramsAssumption

\* The ADIN2111: an address has one live entry in the forwarding table at
\* most, frames for it go to the port it was last heard on or to both, and it
\* is forgotten when it is silent for the age of the table and a tick; the
\* registers of the filter hold the rules and masks of the entries in use and
\* no other rule is in force.
AddressesAreTrue ==
    /\ F!TypeOK
    /\ F!OneEntryEach
    /\ F!SentWhereHeard
    /\ F!SilentIsForgotten
    /\ R!TypeOK
    /\ R!FiltersAsked

\* Datagrams between UDP, the middleware thread and those who send: a buffer
\* has as many references as it has holders and goes to the stack with one, a
\* datagram is given to the application of the port it was sent to, an
\* application that was added is bound to its port, and frames for MAVLink
\* are passed on by every port that is up but not back.
DatagramsAreRight ==
    /\ D!TypeOK
    /\ D!RefsMatch
    /\ D!SentAlone
    /\ D!GivenToAddressed
    /\ D!AddedIsBound
    /\ D!RoutedOn
=============================================================================
