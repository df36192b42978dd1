----------------------------- MODULE Neighbors -----------------------------
(***************************************************************************)
(* The neighbor table of a node: bcmp/neighbors.c, with the heartbeats     *)
(* that fill it (heartbeat.c, and the timer and thread of bcmp.c), the     *)
(* requests for device information they cause (info.c), and the discovery  *)
(* callback by which the application learns who is there.                  *)
(*                                                                         *)
(* The other nodes, their cables and the messages between them are the     *)
(* environment.  The BCMP thread owns the table; the topology thread walks *)
(* through it too (bcmp_get_neighbors), and nothing locks it.              *)
(***************************************************************************)
EXTENDS Naturals, Sequences, SequencesExt

CONSTANTS
    Peer, Port,
    Short,           \* Short[x]: the 32 bits of the id of x that lists of requests keep
    MaxUp,           \* bound: uptimes
    MaxInfo,         \* requests for information there is memory for
    Wraps,           \* does the uptime in a heartbeat wrap around?
    Moves,           \* may a peer be plugged into another port than before?
    LateCallback,    \* may the application register when a neighbor has gone already?
    Preempt          \* may the BCMP thread run while the topology thread walks?

NeighborsAssumption ==
    /\ 0 \notin Peer \cup Port
    /\ Short \in [Peer -> Nat] /\ MaxUp \in Nat /\ MaxInfo \in Nat
    /\ {Wraps, Moves, LateCallback, Preempt} \subseteq BOOLEAN

VARIABLES
    place,           \* place[x]: the port peer x is plugged into, or Nowhere
    up,              \* up[x]: its uptime, in heartbeat periods
    restarted,       \* restarted[x]: it has restarted since its last heartbeat
    NEIGHBORS,       \* the table
    NUM_NEIGHBORS,
    registered,      \* NEIGHBOR_DISCOVERY_CB is set
    view,            \* view[x]: what the callback was last told of x
    spurious,        \* a neighbor was taken for restarted that was not
    INFO_REQUEST_LIST,
    misinformed,     \* a callback was given the information of another node than it asked for
    walk             \* the walk of the topology thread

vars == <<place, up, restarted, NEIGHBORS, NUM_NEIGHBORS, registered, view, spurious,
          INFO_REQUEST_LIST, misinformed, walk>>

table == <<NEIGHBORS, NUM_NEIGHBORS>>
info  == <<INFO_REQUEST_LIST, misinformed>>
world == <<place, up, restarted>>

Nowhere == 0            \* no port, and the end of the table
All     == 0            \* the id of no node: a request to all, or no callback
NoWalk  == [busy |-> FALSE]

Init ==
    /\ place = [x \in Peer |-> Nowhere] /\ up = [x \in Peer |-> 0]
    /\ restarted = [x \in Peer |-> FALSE]
    /\ NEIGHBORS = <<>> /\ NUM_NEIGHBORS = 0
    /\ registered = FALSE
    /\ view = [x \in Peer |-> "unknown"] /\ spurious = FALSE
    /\ INFO_REQUEST_LIST = <<>> /\ misinformed = FALSE
    /\ walk = NoWalk

\* bcmp_find_neighbor
Places(x) == {i \in DOMAIN NEIGHBORS : NEIGHBORS[i].id = x}
Known(x)  == Places(x) # {}
Online(x) == \E i \in Places(x) : NEIGHBORS[i].online

\* Unless the walk may be preempted, nothing happens between its steps: neither
\* in the BCMP thread nor, as the walk does not look, in the world.  Time goes on.
BcmpRuns == Preempt \/ ~walk.busy

-----------------------------------------------------------------------------
(* The world around the node *)

\* A cable is plugged in, or pulled out.
Plug(x, p) ==
    /\ BcmpRuns /\ place[x] = Nowhere /\ \A y \in Peer : place[y] # p
    /\ Moves \/ \A i \in Places(x) : NEIGHBORS[i].port = p
    /\ place' = [place EXCEPT ![x] = p]
    /\ UNCHANGED <<up, restarted, table, registered, view, spurious, info, walk>>

Pull(x) ==
    /\ BcmpRuns /\ place[x] # Nowhere
    /\ place' = [place EXCEPT ![x] = Nowhere]
    /\ UNCHANGED <<up, restarted, table, registered, view, spurious, info, walk>>

\* A peer restarts: it has been up for longer when it is heard of again only
\* if it was heard of at the very start before.
Restart(x) ==
    /\ BcmpRuns /\ up[x] > 0
    /\ up' = [up EXCEPT ![x] = 0] /\ restarted' = [restarted EXCEPT ![x] = TRUE]
    /\ UNCHANGED <<place, table, registered, view, spurious, info, walk>>

\* A heartbeat period goes by.  bcmp_send_heartbeat multiplies 32 bits of
\* milliseconds by 1000: the uptime wraps after 72 minutes.
Tick ==
    /\ up' = [x \in Peer |-> IF up[x] < MaxUp THEN up[x] + 1 ELSE IF Wraps THEN 0 ELSE MaxUp]
    /\ NEIGHBORS' = [i \in DOMAIN NEIGHBORS |->
                        [NEIGHBORS[i] EXCEPT !.age = IF @ < 2 THEN @ + 1 ELSE @]]
    /\ UNCHANGED <<place, restarted, NUM_NEIGHBORS, registered, view, spurious, info, walk>>

-----------------------------------------------------------------------------
(* Requests for device information *)

\* The list after bcmp_request_info.  A request that cannot be sent is taken
\* out again by its id, which finds the oldest one with this id.
WithoutFirst(list, target) ==
    LET s == {i \in DOMAIN list : list[i].id = target}
    IN  IF s = {} THEN list ELSE RemoveAt(list, CHOOSE i \in s : \A j \in s : i <= j)

ShortOf(x) == IF x = All THEN All ELSE Short[x]

ListRequest(list, target, cb, sent) ==
    IF sent THEN Append(list, [id |-> ShortOf(target), cb |-> cb])
    ELSE WithoutFirst(Append(list, [id |-> ShortOf(target), cb |-> cb]), ShortOf(target))

\* Without memory for the list nothing is sent.
bcmp_request_info(target, cb, sent) ==
    /\ INFO_REQUEST_LIST' = IF Len(INFO_REQUEST_LIST) < MaxInfo
                            THEN ListRequest(INFO_REQUEST_LIST, target, cb, sent)
                            ELSE INFO_REQUEST_LIST
    /\ UNCHANGED misinformed

\* The application asks for the information of x, with a callback.
AppAsks(x, sent) ==
    /\ BcmpRuns
    /\ bcmp_request_info(x, x, sent)
    /\ UNCHANGED <<world, table, registered, view, spurious, walk>>

\* The oldest request for the information of x.
Requests(x) == {i \in DOMAIN INFO_REQUEST_LIST : INFO_REQUEST_LIST[i].id = Short[x]}
Oldest(x)   == INFO_REQUEST_LIST[CHOOSE i \in Requests(x) : \A j \in Requests(x) : i <= j]

Served(x) ==
    IF Requests(x) = {} THEN [found |-> FALSE] ELSE [found |-> TRUE, cb |-> Oldest(x).cb]

\* x sends its information, asked for by this node or, as answers go to
\* everybody, by another one: bcmp_process_info_request, bcmp_send_info.
SendsInfo(x) == place[x] # Nowhere

populate_neighbor_info(x) ==
    [i \in DOMAIN NEIGHBORS |-> IF NEIGHBORS[i].id = x THEN [NEIGHBORS[i] EXCEPT !.info = TRUE]
                                ELSE NEIGHBORS[i]]

\* The information of x arrives: bcmp_process_info_reply.  The oldest request with
\* this id is served, by its callback or by noting the information in the table.
InfoReply(x) ==
    /\ BcmpRuns /\ SendsInfo(x)
    /\ LET r == Served(x)
       IN  /\ r.found
           /\ misinformed' = (misinformed \/ r.cb \notin {x, All})
           /\ NEIGHBORS' = IF r.cb = All THEN populate_neighbor_info(x) ELSE NEIGHBORS
    /\ INFO_REQUEST_LIST' = WithoutFirst(INFO_REQUEST_LIST, Short[x])
    /\ UNCHANGED <<world, NUM_NEIGHBORS, registered, view, spurious, walk>>

-----------------------------------------------------------------------------
(* Heartbeats *)

\* bcmp_neighbor_invoke_discovery_cb
Told(x, what) == IF registered THEN [view EXCEPT ![x] = what] ELSE view

\* The loop of bcmp_add_neighbor over the entries: those of port p are removed,
\* and the loop goes on behind the entry that follows a removed one.
Turn(before, e, p) ==
    LET gone == e.port = p /\ ~before.gone
    IN  [gone |-> gone, kept |-> IF gone THEN before.kept ELSE Append(before.kept, e)]

\* The table without the entries of port p.
Cleared(list, p) ==
    LET pass[i \in 0..Len(list)] == IF i = 0 THEN [gone |-> FALSE, kept |-> <<>>]
                                    ELSE Turn(pass[i - 1], list[i], p)
    IN  pass[Len(list)].kept

\* A new entry is put behind the others.
bcmp_add_neighbor(x, p) ==
    Append(Cleared(NEIGHBORS, p), [id |-> x, port |-> p, online |-> FALSE, age |-> 0,
                                   boot |-> 0, info |-> FALSE])

\* An entry that is there keeps its port.
bcmp_update_neighbor(x, p) == IF Known(x) THEN NEIGHBORS ELSE bcmp_add_neighbor(x, p)

neighbor_reset(x, boot) == up[x] < boot

\* A heartbeat of x arrives: bcmp_process_heartbeat.  A peer that is not in
\* the table takes the place of whoever was there at its port, and is asked for
\* its information.  One whose uptime has gone back is asked again, under the
\* id of the information it gave: none yet stands for everybody.
Heartbeat(x, sent) ==
    LET p == place[x]
        first == ~Known(x)
        list == bcmp_update_neighbor(x, p)
        i == CHOOSE j \in DOMAIN list : list[j].id = x
        reset == neighbor_reset(x, list[i].boot)
    IN  /\ BcmpRuns /\ p # Nowhere
        /\ view' = IF first \/ ~list[i].online \/ reset THEN Told(x, "up") ELSE view
        /\ spurious' = (spurious \/ (reset /\ ~restarted[x]))
        /\ IF first THEN bcmp_request_info(x, All, sent)
           ELSE IF reset THEN bcmp_request_info(IF list[i].info THEN x ELSE All, All, sent)
           ELSE sent /\ UNCHANGED info
        /\ NEIGHBORS' = [list EXCEPT ![i] = [@ EXCEPT !.online = TRUE, !.boot = up[x], !.age = 0]]
        /\ restarted' = [restarted EXCEPT ![x] = FALSE]
        /\ walk' = IF walk.busy /\ walk.at \notin {list[j].id : j \in DOMAIN list}
                   THEN [walk EXCEPT !.fault = walk.at # Nowhere] ELSE walk
        /\ UNCHANGED <<place, up, NUM_NEIGHBORS, registered>>

\* neighbor_check: not heard of for two periods.
Stale(e) == e.online /\ e.age >= 2

\* Mutation of Checked: a neighbor goes offline without a word.
CheckedSilently(list, v) == v

\* The view of the application after neighbor_check of every entry, and the list.
Checked(list, v) ==
    [x \in Peer |-> IF registered /\ \E i \in DOMAIN list : list[i].id = x /\ Stale(list[i])
                    THEN "down" ELSE v[x]]

AllChecked(list) ==
    [i \in DOMAIN list |-> IF Stale(list[i]) THEN [list[i] EXCEPT !.online = FALSE] ELSE list[i]]

\* The heartbeat event of the BCMP thread: bcmp_check_neighbors, then the
\* node's own heartbeat goes out.
bcmp_check_neighbors ==
    /\ BcmpRuns
    /\ view' = Checked(NEIGHBORS, view)
    /\ NEIGHBORS' = AllChecked(NEIGHBORS)
    /\ NUM_NEIGHBORS' = Len(NEIGHBORS)
    /\ UNCHANGED <<world, registered, spurious, info, walk>>

\* bcmp_neighbor_register_discovery_callback: the application is told of every
\* entry of the table.
Register ==
    /\ ~registered /\ ~walk.busy
    /\ LateCallback \/ \A x \in Peer : Known(x) => Online(x)
    /\ registered' = TRUE
    /\ view' = [x \in Peer |-> IF Known(x) THEN "up" ELSE view[x]]
    /\ UNCHANGED <<world, table, spurious, info, walk>>

-----------------------------------------------------------------------------
(* The topology thread: bcmp_get_neighbors, one entry after the other *)

WalkBegin ==
    /\ ~walk.busy
    /\ NUM_NEIGHBORS' = 0
    /\ walk' = [busy |-> TRUE, fault |-> FALSE,
                at |-> IF NEIGHBORS = <<>> THEN Nowhere ELSE NEIGHBORS[1].id]
    /\ UNCHANGED <<world, NEIGHBORS, registered, view, spurious, info>>

\* The callback is called for the entry, which is counted.
WalkStep ==
    /\ walk.busy /\ ~walk.fault /\ walk.at # Nowhere
    /\ LET i == CHOOSE j \in Places(walk.at) : TRUE
           e == <<NEIGHBORS[i]>>
       IN  /\ view' = Checked(e, view)
           /\ NEIGHBORS' = [NEIGHBORS EXCEPT ![i] = AllChecked(e)[1]]
           /\ walk' = [walk EXCEPT !.at = IF i = Len(NEIGHBORS) THEN Nowhere ELSE NEIGHBORS[i + 1].id]
    /\ NUM_NEIGHBORS' = NUM_NEIGHBORS + 1
    /\ UNCHANGED <<world, registered, spurious, info>>

\* The count is handed out with the table.
WalkEnd ==
    /\ walk.busy /\ ~walk.fault /\ walk.at = Nowhere
    /\ walk' = NoWalk
    /\ UNCHANGED <<world, table, registered, view, spurious, info>>

Next ==
    \/ \E x \in Peer : \/ \E p \in Port : Plug(x, p)
                       \/ Pull(x) \/ Restart(x) \/ InfoReply(x)
                       \/ \E sent \in BOOLEAN : AppAsks(x, sent) \/ Heartbeat(x, sent)
    \/ Tick \/ bcmp_check_neighbors \/ Register
    \/ WalkBegin \/ WalkStep \/ WalkEnd

\* Time goes on, the heartbeat timer fires, and threads are scheduled.
Spec == Init /\ [][Next]_vars
             /\ WF_vars(Tick) /\ WF_vars(bcmp_check_neighbors) /\ WF_vars(WalkStep \/ WalkEnd)

-----------------------------------------------------------------------------
(* Properties *)

TypeOK ==
    /\ place \in [Peer -> Port \cup {Nowhere}] /\ up \in [Peer -> 0..MaxUp]
    /\ \A i \in DOMAIN NEIGHBORS : /\ NEIGHBORS[i].id \in Peer /\ NEIGHBORS[i].port \in Port
                                   /\ NEIGHBORS[i].age \in 0..2
    /\ NUM_NEIGHBORS \in Nat
    /\ view \in [Peer -> {"unknown", "up", "down"}]
    /\ Len(INFO_REQUEST_LIST) <= MaxInfo

\* No port has two neighbors, and no neighbor two entries: the loop that makes
\* room for a new one misses nobody.
OneEntryEach ==
    \A i, j \in DOMAIN NEIGHBORS :
        NEIGHBORS[i].id = NEIGHBORS[j].id \/ NEIGHBORS[i].port = NEIGHBORS[j].port => i = j

\* Of a node in the table the application has last been told that it is up if
\* and only if it is online there.
AppKnows ==
    registered /\ ~walk.busy => \A x \in Peer : Known(x) => (view[x] = "up" <=> Online(x))

\* The application is told of every neighbor that goes: "Register a callback to
\* run whenever a neighbor is discovered / drops" (neighbors.c).
DropIsTold == registered => \A x \in Peer : view[x] = "up" => Known(x)

\* An entry that is online has the port its neighbor was last heard of at.
PortIsTrue ==
    \A i \in DOMAIN NEIGHBORS : NEIGHBORS[i].online /\ place[NEIGHBORS[i].id] # Nowhere
        => NEIGHBORS[i].port = place[NEIGHBORS[i].id] \/ NEIGHBORS[i].age > 0

\* A neighbor is taken for restarted only if it was: "Neighbor restarted, let's
\* get additional info" (heartbeat.c).
RestartIsReal == ~spurious

\* A callback is given the information of the node it asked about.
InfoIsOfAsked == ~misinformed

\* The number of neighbors handed out with the table is the length of it, and
\* the walk meets no entry that has been freed.
CountIsTrue ==
    /\ walk.busy => ~walk.fault
    /\ walk.busy /\ walk.at = Nowhere => NUM_NEIGHBORS = Len(NEIGHBORS)

\* A neighbor that is unplugged for good is noticed to be gone for good.
GoneIsNoticed == \A x \in Peer : <>[](place[x] = Nowhere) => <>[]~Online(x)

=============================================================================
