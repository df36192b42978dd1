----------------------------- MODULE MCRequests -----------------------------
(***************************************************************************)
(* Services and the requests for them, twice over values of the constants  *)
(* that TLC can exhaust: two threads of two nodes request one service      *)
(* while nothing fails, and one thread requests two while memory, locks,   *)
(* transmission and nodes fail.  For the run svc_prefix the first instance *)
(* has one thread, and names of which one begins the other.                *)
(***************************************************************************)
EXTENDS Services

Homes == [t1 |-> "n1", t2 |-> "n2"]
Names == {<<"a">>}

Alone == [t1 |-> "n1"]
PrefixNames == {<<"a">>, <<"a", "b">>}

VARIABLES
    which       \* the instance that runs, "calm" or "rough"

F == INSTANCE Services WITH
        Thread <- {"t1"}, Home <- [t1 |-> "n1"],
        Service <- {<<"a">>, <<"b">>}, IdSpace <- 5, MaxCalls <- 1, MaxList <- 2,
        MaxResets <- 1, MayFail <- TRUE, PromptSend <- TRUE

ASSUME
    /\ ServicesAssumption
    /\ F!ServicesAssumption

MCInit ==
    \/ which = "calm" /\ Init
    \/ which = "rough" /\ F!Init

MCNext ==
    /\ UNCHANGED which
    /\ \/ which = "calm" /\ Next
       \/ which = "rough" /\ F!Next

mcvars == <<which, vars>>

\* The fairness of Services, for the instance in which nothing fails.
MCFairness ==
    /\ \A n \in Node : WF_vars(which = "calm" /\ \E r \in requests[n] : TimeOut(n, r))
    /\ \A n \in Node : WF_vars(which = "calm" /\ Expire(n))

MCSpec == MCInit /\ [][MCNext]_mcvars /\ MCFairness

\* "If the request times out, the service request handler will invoke the
\* callback with a fail": a request that was sent is answered one way or the
\* other.
CallersAreAnswered == which = "calm" => EveryRequestAnswered
=============================================================================
