------------------------------ MODULE Network -------------------------------
(***************************************************************************)
(* What a node learns of the others, beside the replies of Bcmp: its        *)
(* neighbors and their information, the resources of a node that was asked, *)
(* and whose ping an echo is for.  The two components share no state: what  *)
(* each promises is said here, for their composition.                       *)
(***************************************************************************)
EXTENDS Naturals, Sequences, FiniteSets

CONSTANTS
    Resource, Size, StartsWith, Pinger, Low, Payload, MaxAsked, MaxPing, Overtakes,
    AnswerFails,                                                            \* Discovery
    Peer, Port, Short, MaxUp, MaxInfo, Wraps, Moves, LateCallback, WalkBreaks   \* Neighbors

VARIABLES
    LIST, refused, job, requests, resource_answers, RESOURCE_REQUEST_LIST, sending,
    resource_asked, served, EXPECTED_PAYLOAD, echoes, pings, wrong,
    place, up, restarted, NEIGHBORS, NUM_NEIGHBORS, registered, view, spurious,
    INFO_REQUEST_LIST, misinformed, walk

D == INSTANCE Discovery WITH
        MaxReq <- MaxAsked, TxFails <- AnswerFails, answers <- resource_answers,
        asked <- resource_asked
N == INSTANCE Neighbors WITH Preempt <- WalkBreaks

discvars == <<LIST, refused, job, requests, resource_answers, RESOURCE_REQUEST_LIST, sending,
        resource_asked, served, EXPECTED_PAYLOAD, echoes, pings, wrong>>
portsvars == <<place, up, restarted, NEIGHBORS, NUM_NEIGHBORS, registered, view, spurious,
         INFO_REQUEST_LIST, misinformed, walk>>

NetworkAssumption == D!DiscoveryAssumption /\ N!NeighborsAssumption

\* What is written into a resource reply fills the buffer it was allocated
\* for, up to what was added meanwhile, and calls a callback once; a resource refused as known is listed; the
\* echo of a ping is not taken for that of another node's.
ResourcesAreTrue ==
    /\ D!TypeOK
    /\ D!AnswerFits
    /\ D!ServedOnce
    /\ D!RefusedIsListed
    /\ D!EchoIsMine

\* No port has two neighbors and no neighbor two entries, the application was
\* last told of each what the table says, the number handed out is the length
\* of the table and no freed entry is met; only a node that restarted is
\* taken for restarted, and a callback gets the information of the node it
\* asked about.
NeighborsAreTrue ==
    /\ N!TypeOK
    /\ N!OneEntryEach
    /\ N!AppKnows
    /\ N!CountIsTrue
    /\ N!RestartIsReal
    /\ N!InfoIsOfAsked
=============================================================================
