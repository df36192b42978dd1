----------------------------- MODULE Discovery -----------------------------
(****************************************************************************)
(* Two ways to learn of other nodes: the resource tables of                 *)
(* bcmp/resource_discovery.c, and the echoes of bcmp/ping.c.                *)
(*                                                                          *)
(* One node, the owner, has the tables: its threads add resources while its *)
(* BCMP thread puts together the answer to a request.  Another node asks    *)
(* for the tables, and every node of Pinger sends pings.  Messages are      *)
(* multicast: everybody hears every one.                                    *)
(****************************************************************************)
EXTENDS Naturals, Sequences, SequencesExt, FiniteSets

CONSTANTS
    Resource, Size,      \* names of topics, and the bytes of an entry
    StartsWith,          \* pairs <<r, s>>: r is s, or s begins with r
    Pinger,
    Low,                 \* Low[n]: the 16 bits of the id of n that a ping carries
    Payload,             \* contents of a ping; 0 is none
    MaxReq, MaxPing,     \* bounds
    Overtakes,           \* may an answer come before its request is in the list?
    TxFails

DiscoveryAssumption ==
    /\ Size \in [Resource -> Nat \ {0}]
    /\ StartsWith \subseteq Resource \X Resource
    /\ \A r \in Resource : <<r, r>> \in StartsWith
    /\ Low \in [Pinger -> Nat] /\ 0 \in Payload
    /\ MaxReq \in Nat /\ MaxPing \in Nat /\ {Overtakes, TxFails} \subseteq BOOLEAN

Kind == {"pub", "sub"}

VARIABLES
    LIST,                \* PUB_LIST and SUB_LIST
    refused,             \* resources whose addition was answered "is there already"
    job,                 \* the answer the BCMP thread of the owner puts together
    requests,            \* requests under way to the owner
    answers,             \* answers under way
    RESOURCE_REQUEST_LIST,
    sending,             \* a request is sent, but not yet in the list
    asked, served,       \* requests made, and how often their callbacks were called
    EXPECTED_PAYLOAD,    \* of each pinger
    echoes,              \* pings and echoes under way
    pings,               \* pings sent
    wrong                \* an echo was accepted of a ping another node sent

tables == <<LIST, refused>>
asking == <<requests, answers, RESOURCE_REQUEST_LIST, sending, asked, served>>
pinging == <<EXPECTED_PAYLOAD, echoes, pings, wrong>>
vars == <<tables, job, asking, pinging>>

\* The size and the offset of an answer, the entries in it, and (a history
\* variable) the bytes of the resources added between the two passes.
Idle == [at |-> "idle", len |-> 0, offset |-> 0, num |-> 0, late |-> 0]

Init ==
    /\ LIST = [k \in Kind |-> <<>>] /\ refused = {} /\ job = Idle
    /\ requests = 0 /\ answers = 0 /\ RESOURCE_REQUEST_LIST = <<>> /\ sending = 0
    /\ asked = 0 /\ served = [i \in 1..MaxReq |-> 0]
    /\ EXPECTED_PAYLOAD = [n \in Pinger |-> 0] /\ echoes = {} /\ pings = 0 /\ wrong = FALSE

-----------------------------------------------------------------------------
(* The tables of the owner *)

\* bcmp_resource_discovery_find_resource_priv: memcmp over the length of r.
Found(k, r) == \E i \in DOMAIN LIST[k] : <<r, LIST[k][i]>> \in StartsWith

\* The size of list k is computed, and its contents are not written yet.
Sized(k) == job.at \in IF k = "pub" THEN {"sub", "fillpub"} ELSE {"fillpub", "fillsub"}

\* bcmp_resource_discovery_add_resource, in the lock of the list, by any thread
\* and at any time.
AddResource(k, r) ==
    /\ IF Found(k, r)
       THEN refused' = refused \cup {<<k, r>>} /\ UNCHANGED <<LIST, job>>
       ELSE /\ LIST' = [LIST EXCEPT ![k] = Append(@, r)]
            /\ job' = IF Sized(k) THEN [job EXCEPT !.late = @ + Size[r]] ELSE job
            /\ UNCHANGED refused
    /\ UNCHANGED <<asking, pinging>>

Bytes(k) == LET S[i \in 0..Len(LIST[k])] == IF i = 0 THEN 0 ELSE S[i - 1] + Size[LIST[k][i]]
            IN  S[Len(LIST[k])]

\* bcmp_process_resource_discovery_request, and with a local caller
\* bcmp_resource_discovery_get_local_resources: the size of one list after the
\* other, then their contents, each in the lock of its list.
ComputeSize(k) == job' = [job EXCEPT !.len = @ + Bytes(k), !.at = IF k = "pub" THEN "sub" ELSE "fillpub"]

Populate(k) ==
    job' = [job EXCEPT !.offset = @ + Bytes(k), !.num = @ + Len(LIST[k]),
                       !.at = IF k = "pub" THEN "fillsub" ELSE "send"]

TakeRequest ==
    /\ job.at = "idle" /\ requests > 0
    /\ requests' = requests - 1
    /\ job' = [Idle EXCEPT !.at = "pub"]
    /\ UNCHANGED <<tables, answers, RESOURCE_REQUEST_LIST, sending, asked, served, pinging>>

PutTogether ==
    /\ \/ job.at \in Kind /\ ComputeSize(job.at)
       \/ job.at = "fillpub" /\ Populate("pub")
       \/ job.at = "fillsub" /\ Populate("sub")
    /\ UNCHANGED <<tables, asking, pinging>>

SendAnswer(sent) ==
    /\ job.at = "send" /\ (sent \/ TxFails)
    /\ answers' = IF sent THEN answers + 1 ELSE answers
    /\ job' = Idle
    /\ UNCHANGED <<tables, requests, RESOURCE_REQUEST_LIST, sending, asked, served, pinging>>

-----------------------------------------------------------------------------
(* The node that asks *)

\* bcmp_resource_discovery_send_request: the request goes out first and is put
\* into the list after that.
Ask(sent) ==
    /\ sending = 0 /\ asked < MaxReq /\ (sent \/ TxFails)
    /\ asked' = asked + 1
    /\ requests' = IF sent THEN requests + 1 ELSE requests
    /\ sending' = IF sent THEN asked + 1 ELSE 0
    /\ UNCHANGED <<tables, job, answers, RESOURCE_REQUEST_LIST, served, pinging>>

Asked ==
    /\ sending > 0 /\ sending' = 0
    /\ RESOURCE_REQUEST_LIST' = Append(RESOURCE_REQUEST_LIST, sending)
    /\ UNCHANGED <<tables, job, requests, answers, asked, served, pinging>>

\* Mutation of AnswerArrives: the request stays in the list.
AnswerArrivesKeeps ==
    /\ answers > 0 /\ (Overtakes \/ sending = 0)
    /\ answers' = answers - 1
    /\ served' = IF RESOURCE_REQUEST_LIST = <<>> THEN served
                 ELSE [served EXCEPT ![Head(RESOURCE_REQUEST_LIST)] = @ + 1]
    /\ UNCHANGED <<tables, job, requests, RESOURCE_REQUEST_LIST, sending, asked, pinging>>

\* bcmp_process_resource_discovery_reply serves the oldest request and removes it.
AnswerArrives ==
    /\ answers > 0 /\ (Overtakes \/ sending = 0)
    /\ answers' = answers - 1
    /\ IF RESOURCE_REQUEST_LIST = <<>> THEN UNCHANGED <<RESOURCE_REQUEST_LIST, served>>
       ELSE /\ served' = [served EXCEPT ![Head(RESOURCE_REQUEST_LIST)] = @ + 1]
            /\ RESOURCE_REQUEST_LIST' = Tail(RESOURCE_REQUEST_LIST)
    /\ UNCHANGED <<tables, job, requests, sending, asked, pinging>>

-----------------------------------------------------------------------------
(* Pings *)

\* bcmp_send_ping_request: what is expected is what was sent last.
Ping(n, p) ==
    /\ pings < MaxPing /\ pings' = pings + 1
    /\ EXPECTED_PAYLOAD' = [EXPECTED_PAYLOAD EXCEPT ![n] = p]
    /\ echoes' = echoes \cup {[id |-> Low[n], payload |-> p, of |-> n]}
    /\ UNCHANGED <<tables, job, asking, wrong>>

\* bcmp_process_ping_reply: the identifier of the sender and the payload.
Accepts(n, e) == EXPECTED_PAYLOAD[n] = e.payload /\ Low[n] = e.id

\* The echo (bcmp_process_ping_request, bcmp_send_ping_reply) reaches everybody.
Echo(e) ==
    /\ e \in echoes /\ echoes' = echoes \ {e}
    /\ wrong' = (wrong \/ \E n \in Pinger : n # e.of /\ Accepts(n, e))
    /\ UNCHANGED <<tables, job, asking, EXPECTED_PAYLOAD, pings>>

Next ==
    \/ \E k \in Kind, r \in Resource : AddResource(k, r)
    \/ TakeRequest \/ PutTogether \/ Asked \/ AnswerArrives
    \/ \E sent \in BOOLEAN : Ask(sent) \/ SendAnswer(sent)
    \/ \E n \in Pinger, p \in Payload : Ping(n, p)
    \/ \E e \in echoes : Echo(e)

\* The threads run and what is sent arrives.
Spec == Init /\ [][Next]_vars
             /\ WF_vars(TakeRequest \/ PutTogether \/ SendAnswer(TRUE))
             /\ WF_vars(Asked) /\ WF_vars(AnswerArrives)

-----------------------------------------------------------------------------
(* Properties *)

TypeOK ==
    /\ LIST \in [Kind -> Seq(Resource)]
    /\ job.at \in Kind \cup {"idle", "fillpub", "fillsub", "send"}
    /\ served \in [1..MaxReq -> Nat] /\ EXPECTED_PAYLOAD \in [Pinger -> Payload]

\* What is written into the answer is as long as the buffer it was allocated
\* for, but for the resources that were added after their list was counted: no
\* byte of it is left as it was found, and it overflows by nothing else.
AnswerFits ==
    /\ job.offset <= job.len + job.late
    /\ job.at = "send" => job.offset = job.len + job.late

\* A callback is called once for a request.
ServedOnce == \A i \in 1..MaxReq : served[i] <= 1

\* "Is there already" is said of resources that are in the table.
RefusedIsListed == \A x \in refused : \E i \in DOMAIN LIST[x[1]] : LIST[x[1]][i] = x[2]

\* The echo of a ping is not taken for that of another node's ping.
EchoIsMine == ~wrong

\* A request that went out is served in the end, by the answer to it or to a later one.
AskedIsServed ==
    \A i \in 1..MaxReq : sending = i ~> i \in DOMAIN served /\ served[i] > 0

=============================================================================
