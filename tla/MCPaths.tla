------------------------------ MODULE MCPaths -------------------------------
(***************************************************************************)
(* What decides who gets a message: the subscriptions to topics, the       *)
(* datagrams of the middleware, layer 2 and, in the driver below it, the   *)
(* table of forwarded addresses and the filter of addresses, each over     *)
(* values of its constants that TLC can exhaust. One of them runs, which   *)
(* says which; the others rest where they begin.                           *)
(***************************************************************************)
EXTENDS L2, Paths

VARIABLES
    which,      \* the component that runs
    next, sub, table, sub_thread, asked, queue, walk, msgs, fault, harm

P == INSTANCE PubSub WITH
        Thread <- {"app"}, Callback <- {"c1", "c2"}, SubTopic <- {<<"a">>, <<"*">>},
        PubTopic <- {<<"a">>, <<"b">>}, MaxElems <- 2, MaxCbs <- 2, MaxMsgs <- 2,
        QueueLen <- 1, MayFail <- TRUE, UnsubRaces <- TRUE,
        thread <- sub_thread

\* Layer 2 without frames, where somebody listens to the links, they change
\* more often, and timers are refused.
K == INSTANCE L2 WITH Sums <- {}, Listens <- TRUE, MaxChange <- 3, MaxRefused <- 2

topicsvars == <<next, sub, table, sub_thread, asked, queue, walk, msgs, fault, harm>>
l2vars == <<ref, frame, evt_queue, held, bcmp_queue, wire, running, in_irq, enabled, timers,
      refused, astray, listening, told, changing, replay, changes>>

ASSUME
    /\ P!PubSubAssumption
    /\ L2Assumption /\ K!L2Assumption
    /\ PathsAssumption

\* Where a component that does not run stays.
TopicsRests == P!Init
L2Rests == Init
ForwardRests == F!Init /\ \A i \in DOMAIN dynamicTable : dynamicTable[i].mac = "a"
FilterRests == R!Init
UdpRests == D!Init

MCInit ==
    \/ /\ which = "topics" /\ P!Init
       /\ L2Rests /\ ForwardRests /\ FilterRests /\ UdpRests
    \/ /\ which \in {"l2", "links"} /\ Init
       /\ TopicsRests /\ ForwardRests /\ FilterRests /\ UdpRests
    \/ /\ which = "forward" /\ F!Init
       /\ TopicsRests /\ L2Rests /\ FilterRests /\ UdpRests
    \/ /\ which = "filter" /\ R!Init
       /\ TopicsRests /\ L2Rests /\ ForwardRests /\ UdpRests
    \/ /\ which = "udp" /\ D!Init
       /\ TopicsRests /\ L2Rests /\ ForwardRests /\ FilterRests

MCNext ==
    /\ UNCHANGED which
    /\ \/ /\ which = "topics" /\ P!Next
          /\ UNCHANGED <<l2vars, forwardvars, filtervars, udpvars>>
       \/ /\ which = "l2" /\ Next
          /\ UNCHANGED <<topicsvars, forwardvars, filtervars, udpvars>>
       \/ /\ which = "links" /\ K!Next
          /\ UNCHANGED <<topicsvars, forwardvars, filtervars, udpvars>>
       \/ /\ which = "forward" /\ F!Next
          /\ UNCHANGED <<topicsvars, l2vars, filtervars, udpvars>>
       \/ /\ which = "filter" /\ R!Next
          /\ UNCHANGED <<topicsvars, l2vars, forwardvars, udpvars>>
       \/ /\ which = "udp" /\ D!Next
          /\ UNCHANGED <<topicsvars, l2vars, forwardvars, filtervars>>

mcvars == <<which, topicsvars, l2vars, forwardvars, filtervars, udpvars>>

MCSpec == MCInit /\ [][MCNext]_mcvars

\* However bm_sub, bm_unsub and the walk of the middleware thread interleave
\* and whatever allocation fails: what bm_sub accepted is in the list until
\* bm_unsub takes it out, and no pointer that is NULL, freed or not set is
\* followed but after the four events that harm names.
SubscriptionsHold == which = "topics" => (P!NoBadPointer /\ P!AskedIsListed)

\* The middleware thread calls every callback that was subscribed when the
\* message was taken and still is when the walk ends.
EveryoneCalled == P!EveryoneCalled
=============================================================================
