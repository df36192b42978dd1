----------------------------- MODULE MCNetwork ------------------------------
(***************************************************************************)
(* The exchanges between nodes, each over values of its constants that TLC *)
(* can exhaust, most of them in the cfg file. One of them runs, which says *)
(* which; the others rest where they begin. The neighbor table runs twice: *)
(* with two ports, and with one port, restarts and requests for            *)
(* information; resources and pings, which share nothing, run apart.       *)
(***************************************************************************)
EXTENDS Bcmp, Network

Cables == {<<1, 2>>, <<2, 3>>}

Bytes == [ab |-> 2, c |-> 1]
Names == {<<"ab", "ab">>, <<"c", "c">>}
Ids == <<1, 2>>

VARIABLES
    which,      \* the component that runs
    dead, tables, evt_queue, topology, index, in_progress, callback, SENT_REQUEST,
    INSERT_BEFORE, RETRY_COUNT, TARGET_NODE_ID, NEIGHBOR_TIMER, NEIGHBOR_REQUEST_CB,
    requesting, replies, started, results, failed

T == INSTANCE Topology WITH
        Node <- 1..4, Root <- 2, Link <- {{1, 2}, {2, 3}, {3, 4}}, Deads <- {{}, {4}},
        Unplugged <- FALSE, Retries <- 3, QueueLen <- 5, MaxStart <- 3, MemFails <- TRUE,
        TxFails <- FALSE, TimerFails <- {"start"}, Quick <- FALSE, Late <- FALSE, queue <- evt_queue
bcmpvars == <<message_count, sequence_list, queue, taking, store, rtc, asked, answers>>
topovars == <<dead, tables, evt_queue, topology, index, in_progress, callback, SENT_REQUEST,
        INSERT_BEFORE, RETRY_COUNT, TARGET_NODE_ID, NEIGHBOR_TIMER, NEIGHBOR_REQUEST_CB,
        requesting, replies, started, results, failed>>
ASSUME
    /\ BcmpAssumption
    /\ T!TopologyAssumption
    /\ NetworkAssumption

\* Where a component that does not run stays.
BcmpRests == Init
TopoRests == T!Init /\ dead = {} /\ tables = <<<<2>>, <<1, 3>>, <<2, 4>>, <<3>>>>
DiscRests == D!Init
PortsRests == N!Init

MCInit ==
    \/ /\ which = "bcmp" /\ Init
       /\ TopoRests /\ DiscRests /\ PortsRests
    \/ /\ which = "topo" /\ T!Init
       /\ BcmpRests /\ DiscRests /\ PortsRests
    \/ /\ which \in {"disc", "ping"} /\ D!Init
       /\ BcmpRests /\ TopoRests /\ PortsRests
    \/ /\ which \in {"ports", "info"} /\ N!Init
       /\ BcmpRests /\ TopoRests /\ DiscRests

MCNext ==
    /\ UNCHANGED which
    /\ \/ /\ which = "bcmp" /\ Next
          /\ UNCHANGED <<topovars, discvars, portsvars>>
       \/ /\ which = "topo" /\ T!Next
          /\ UNCHANGED <<bcmpvars, discvars, portsvars>>
       \/ /\ which = "disc" /\ D!Next /\ D!pinging' = D!pinging
          /\ UNCHANGED <<bcmpvars, topovars, portsvars>>
       \/ /\ which = "ping" /\ D!Next /\ D!asking' = D!asking
          /\ UNCHANGED <<bcmpvars, topovars, portsvars>>
       \/ /\ which = "ports" /\ N!Next
          /\ restarted' = restarted /\ INFO_REQUEST_LIST' = INFO_REQUEST_LIST
          /\ UNCHANGED <<bcmpvars, topovars, discvars>>
       \/ /\ which = "info" /\ N!Next /\ \A x \in Peer : place'[x] \in {0, 1}
          /\ UNCHANGED <<bcmpvars, topovars, discvars>>

mcvars == <<which, bcmpvars, topovars, discvars, portsvars>>

\* The fairness of each component's own specification, while it runs.
MCFairness ==
    /\ \A n \in 1..3 : WF_bcmpvars(which = "bcmp" /\ (Receive(n) \/ Take(n)))
    /\ \A n \in 1..3 : WF_bcmpvars(which = "bcmp" /\ Timer(n))
    /\ WF_topovars(which = "topo" /\ T!Thread)
    /\ WF_topovars(which = "topo" /\ T!Answers)
    /\ WF_topovars(which = "topo" /\ T!TimerFires)
    /\ WF_discvars(which = "disc" /\ (D!TakeRequest \/ D!PutTogether \/ D!SendAnswer(TRUE)))
    /\ WF_discvars(which = "disc" /\ D!Asked)
    /\ WF_discvars(which = "disc" /\ D!AnswerArrives)
    /\ WF_portsvars(which \in {"ports", "info"} /\ N!Tick)
    /\ WF_portsvars(which \in {"ports", "info"} /\ N!bcmp_check_neighbors)
    /\ WF_portsvars(which \in {"ports", "info"} /\ (N!WalkStep \/ N!WalkEnd))

MCSpec == MCInit /\ [][MCNext]_mcvars /\ MCFairness

\* A callback for a topology is called once, whether it was laid out, given
\* up or turned away, and unless memory, a timer or the network failed
\* what it is given has every node that can be reached, once, next to the nodes it is
\* cabled to.
TopologyIsWhole == which = "topo" => (T!TypeOK /\ T!WholeInOrder /\ T!CalledOnce)

\* Whoever waits is answered in the end: a BCMP request by its reply or its
\* timeout, whoever starts a topology, a resource request that went out; and
\* a neighbor that is unplugged for good is noticed to be gone for good.
EveryoneAnswered ==
    /\ WaitingIsAnswered
    /\ T!StartIsAnswered
    /\ D!AskedIsServed
    /\ N!GoneIsNoticed

\* Messages are not passed around for ever, and when every caller for a
\* topology was answered no event comes back and no timer is left to fire.
NetworkComesToRest ==
    /\ ComesToRest
    /\ T!ComesToRest
=============================================================================
