---------------------------- MODULE NetworkProofs ---------------------------
(***************************************************************************)
(* Proofs about what a node learns of the others: the callback of a request *)
(* is given the reply to that request, once (packet.c, bcmp.c, config.c);   *)
(* resource replies and pings (resource_discovery.c, ping.c); the table of  *)
(* neighbors and their information (neighbors.c, heartbeat.c, info.c).      *)
(*                                                                         *)
(* RepliesInv(R) follows the numbers that the requester R gives: every      *)
(* message in any queue that carries a number was made by R's counter or    *)
(* repeats it, and where it is the number of a request that still waits it  *)
(* belongs to that request.  A list of requests in increasing order that    *)
(* were not answered does the rest.                                         *)
(*                                                                         *)
(* DiscoveryInv and NeighborsInv are described where they are defined.      *)
(***************************************************************************)
EXTENDS Bcmp, Network, SequenceTheorems, FiniteSetTheorems, WellFoundedInduction, TLAPS

-----------------------------------------------------------------------------
(* The types of messages *)

LEMMA Types ==
    /\ Config = {"ConfigGet", "ConfigSet", "ConfigStatus", "ConfigDelete", "ConfigClear",
                 "ConfigCommit"}
    /\ Time = {"TimeRequest", "TimeSet"}
BY DEF Config, Time, bcmp_config_init, time_init

LEMMA Packets ==
    /\ Packet("ConfigGet") = [sequenced |-> TRUE, reply |-> "ConfigValue"]
    /\ Packet("ConfigSet") = [sequenced |-> TRUE, reply |-> "ConfigValue"]
    /\ Packet("ConfigStatus") = [sequenced |-> TRUE, reply |-> "ConfigStatusResponse"]
    /\ Packet("ConfigDelete") = [sequenced |-> TRUE, reply |-> "ConfigDeleteResponse"]
    /\ Packet("ConfigClear") = [sequenced |-> TRUE, reply |-> "ConfigClearResponse"]
    /\ Packet("ConfigCommit") = [sequenced |-> FALSE, reply |-> None]
    /\ Packet("TimeRequest") = [sequenced |-> FALSE, reply |-> "TimeResponse"]
    /\ Packet("TimeSet") = [sequenced |-> FALSE, reply |-> "TimeResponse"]
BY Types DEF Packet, bcmp_config_init, time_init, bcmp_config_get, bcmp_config_set,
    bcmp_config_status_request, bcmp_config_del_key, bcmp_config_clear_partition,
    bcmp_config_commit, bcmp_time_get_time, bcmp_time_set_time, bcmp_config_send_value,
    bcmp_config_status_response, bcmp_config_send_del_key_response,
    bcmp_send_clear_response_message, bcmp_time_send_response

LEMMA Replies ==
    /\ SequencedReply = {"ConfigValue", "ConfigStatusResponse", "ConfigDeleteResponse",
                         "ConfigClearResponse"}
    /\ Numbered = {"ConfigGet", "ConfigSet", "ConfigStatus", "ConfigDelete", "ConfigClear"}
                    \cup SequencedReply
<1>1. \A t \in Config : bcmp_config_init[t] = Packet(t)
    BY DEF Packet
<1>2. SequencedReply = {"ConfigValue", "ConfigStatusResponse", "ConfigDeleteResponse",
                        "ConfigClearResponse"}
    BY <1>1, Types, Packets DEF SequencedReply, None
<1>3. Numbered = {"ConfigGet", "ConfigSet", "ConfigStatus", "ConfigDelete", "ConfigClear"}
                    \cup SequencedReply
    BY Types, Packets DEF Numbered, Request
<1> QED
    BY <1>2, <1>3

-----------------------------------------------------------------------------
(* Messages on their way *)

LEMMA MsgFields ==
    ASSUME NEW m \in Msg
    PROVE  /\ m = [type |-> m.type, seq |-> m.seq, source |-> m.source, target |-> m.target,
                   val |-> m.val, req |-> m.req, via |-> m.via]
           /\ m.type \in Request \cup SequencedReply \cup {bcmp_time_send_response}
           /\ m.seq \in Nat /\ m.source \in Node /\ m.target \in Node \cup {0}
           /\ m.val \in Value \cup {None} /\ m.req \in Nat \ {0} /\ m.via \in Node
BY DEF Msg

\* Which node a message comes from does not matter.
LEMMA ViaFine ==
    ASSUME NEW R, NEW m, NEW count, NEW last, NEW l, Fine(R, m, count, last, l), NEW n \in Node
    PROVE  Fine(R, [m EXCEPT !.via = n], count, last, l)
<1>1. m \in Msg
    BY DEF Fine
<1>2. PICK k : k = [m EXCEPT !.via = n]
    OBVIOUS
<1>3. k \in Msg /\ k.type = m.type /\ k.seq = m.seq /\ k.source = m.source /\ k.target = m.target
      /\ k.val = m.val /\ k.req = m.req
    BY <1>1, <1>2 DEF Msg
<1>4. Fine(R, k, count, last, l)
    BY <1>3 DEF Fine
<1> QED
    BY <1>2, <1>4

LEMMA IntoFine ==
    ASSUME BcmpAssumption, NEW R, NEW q, NEW t, NEW count, NEW last, NEW l,
           AllFine(R, q, t, count, last, l),
           NEW m, Fine(R, m, count, last, l), NEW n \in Node, NEW to
    PROVE  AllFine(R, Into(q, n, m, to), t, count, last, l)
<1>1. PICK k : k = [m EXCEPT !.via = n]
    OBVIOUS
<1>2. Fine(R, k, count, last, l) /\ k \in Msg
    <2>1. Fine(R, k, count, last, l)
        BY <1>1, ViaFine
    <2> QED
        BY <2>1 DEF Fine
<1>3. PICK p : p = Into(q, n, m, to)
    OBVIOUS
<1>4. p = [x \in Node |-> IF x \in to /\ Len(q[x]) < QueueLen THEN Append(q[x], k) ELSE q[x]]
    BY <1>1, <1>3 DEF Into
<1>5. ASSUME NEW x \in Node
      PROVE  /\ p[x] \in Seq(Msg) /\ Len(p[x]) <= QueueLen
             /\ \A i \in DOMAIN p[x] : Fine(R, p[x][i], count, last, l)
    <2>1. q[x] \in Seq(Msg) /\ Len(q[x]) <= QueueLen
          /\ \A i \in DOMAIN q[x] : Fine(R, q[x][i], count, last, l)
        BY DEF AllFine
    <2>2. CASE x \in to /\ Len(q[x]) < QueueLen
        <3>1. p[x] = Append(q[x], k)
            BY <1>4, <2>2
        <3>2. PICK s \in Seq(Msg) : s = q[x]
            BY <2>1
        <3>3. Append(s, k) \in Seq(Msg) /\ Len(Append(s, k)) = Len(s) + 1 /\ Len(s) \in Nat
              /\ \A i \in DOMAIN Append(s, k) : (i \in DOMAIN s /\ Append(s, k)[i] = s[i])
                                                \/ Append(s, k)[i] = k
            BY <1>2
        <3> QED
            BY <1>2, <2>1, <2>2, <3>1, <3>2, <3>3 DEF BcmpAssumption
    <2>3. CASE ~(x \in to /\ Len(q[x]) < QueueLen)
        BY <1>4, <2>1, <2>3
    <2> QED
        BY <2>2, <2>3
<1>6. p \in [Node -> Seq(Msg)]
    BY <1>4, <1>5
<1>7. AllFine(R, p, t, count, last, l)
    BY <1>5, <1>6 DEF AllFine
<1> QED
    BY <1>3, <1>7

LEMMA RestFine ==
    ASSUME BcmpAssumption, NEW R, NEW q, NEW t, NEW count, NEW last, NEW l,
           AllFine(R, q, t, count, last, l), NEW n \in Node, q[n] # <<>>
    PROVE  /\ AllFine(R, [q EXCEPT ![n] = Tail(@)], t, count, last, l)
           /\ Fine(R, Head(q[n]), count, last, l)
<1>1. q \in [Node -> Seq(Msg)] /\ \A x \in Node : Len(q[x]) <= QueueLen
    BY DEF AllFine
<1>2. PICK s \in Seq(Msg) : s = q[n]
    BY <1>1
<1>3. /\ Tail(s) \in Seq(Msg) /\ Len(Tail(s)) = Len(s) - 1 /\ Len(s) \in Nat
      /\ \A i \in DOMAIN Tail(s) : i + 1 \in DOMAIN s /\ Tail(s)[i] = s[i + 1]
      /\ 1 \in DOMAIN s /\ Head(s) = s[1]
    BY <1>2
<1>4. \A i \in DOMAIN s : Fine(R, s[i], count, last, l)
    BY <1>2 DEF AllFine
<1>5. PICK p : p = [q EXCEPT ![n] = Tail(@)]
    OBVIOUS
<1>6. p \in [Node -> Seq(Msg)] /\ \A x \in Node : p[x] = IF x = n THEN Tail(s) ELSE q[x]
    BY <1>1, <1>2, <1>3, <1>5
<1>7. \A x \in Node : Len(p[x]) <= QueueLen
    BY <1>1, <1>2, <1>3, <1>6 DEF BcmpAssumption
<1>8. \A x \in Node : \A i \in DOMAIN p[x] : Fine(R, p[x][i], count, last, l)
    BY <1>3, <1>4, <1>6, ZenonT(30) DEF AllFine
<1>9. AllFine(R, p, t, count, last, l)
    BY <1>6, <1>7, <1>8 DEF AllFine
<1> QED
    BY <1>2, <1>3, <1>4, <1>5, <1>9

LEMMA EmptiedFine ==
    ASSUME BcmpAssumption, NEW R, NEW q, NEW t, NEW count, NEW last, NEW l,
           AllFine(R, q, t, count, last, l), NEW n \in Node
    PROVE  AllFine(R, [q EXCEPT ![n] = <<>>], t, count, last, l)
<1>1. PICK p : p = [q EXCEPT ![n] = <<>>]
    OBVIOUS
<1>2. p \in [Node -> Seq(Msg)] /\ \A x \in Node : p[x] = IF x = n THEN <<>> ELSE q[x]
    BY <1>1 DEF AllFine
<1>3. \A x \in Node : Len(p[x]) <= QueueLen
    BY <1>2 DEF AllFine, BcmpAssumption
<1>4. AllFine(R, p, t, count, last, l)
    BY <1>2, <1>3 DEF AllFine
<1> QED
    BY <1>1, <1>4

\* A message goes on being fine as numbers are given, and as requests that had
\* no reply yet are recorded or taken out of the list.
LEMMA FineLater ==
    ASSUME NEW R, NEW m, NEW c \in Nat, NEW k \in Nat, NEW l, Fine(R, m, c, k, l),
           NEW c2 \in Nat, NEW k2 \in Nat, NEW l2, c <= c2, k <= k2,
           \A i \in DOMAIN l2 : l2[i].seq = c \/ \E j \in DOMAIN l : l2[i] = l[j]
    PROVE  Fine(R, m, c2, k2, l2)
<1>1. m \in Msg /\ m.seq \in Nat /\ m.req \in Nat
    BY MsgFields DEF Fine
<1> QED
    BY <1>1 DEF Fine

LEMMA AllFineLater ==
    ASSUME NEW R, NEW q, NEW t, NEW c \in Nat, NEW k \in Nat, NEW l, AllFine(R, q, t, c, k, l),
           NEW c2 \in Nat, NEW k2 \in Nat, NEW l2, c <= c2, k <= k2,
           \A i \in DOMAIN l2 : l2[i].seq = c \/ \E j \in DOMAIN l : l2[i] = l[j]
    PROVE  AllFine(R, q, t, c2, k2, l2)
<1>1. \A m : Fine(R, m, c, k, l) => Fine(R, m, c2, k2, l2)
    BY FineLater
<1> QED
    BY <1>1 DEF AllFine

-----------------------------------------------------------------------------
(* The list of requests that wait *)

LEMMA ElemFacts ==
    ASSUME NEW l \in Seq(Elem), NEW i \in DOMAIN l
    PROVE  i \in Int /\ l[i] \in Elem /\ l[i].seq \in Nat /\ l[i].req \in Nat /\ l[i].cb \in BOOLEAN
<1>1. i \in Int /\ l[i] \in Elem
    OBVIOUS
<1> QED
    BY <1>1 DEF Elem

LEMMA ListNumbersDiffer ==
    ASSUME NEW l \in Seq(Elem), NEW c, NEW g, ListRight(l, c, g)
    PROVE  \A i, j \in DOMAIN l : l[i].seq = l[j].seq => i = j
<1>1. \A i \in DOMAIN l : i \in Int /\ l[i].seq \in Nat
    BY ElemFacts
<1> QED
    BY <1>1 DEF ListRight

\* A request that is not recorded, and one that is.
LEMMA ListLater ==
    ASSUME NEW l \in Seq(Elem), NEW c \in Nat, NEW g \in Seq(Seq(Nat)), ListRight(l, c, g),
           NEW c2 \in Nat, c <= c2
    PROVE  ListRight(l, c2, Append(g, <<>>))
<1>1. PICK h : h = Append(g, <<>>)
    OBVIOUS
<1>2. \A r \in DOMAIN g : r \in DOMAIN h /\ h[r] = g[r]
    BY <1>1
<1>3. \A i \in DOMAIN l : l[i].seq \in Nat
    BY ElemFacts
<1>4. ListRight(l, c2, h)
    BY <1>2, <1>3, SMTT(30) DEF ListRight
<1> QED
    BY <1>1, <1>4

LEMMA ListRecorded ==
    ASSUME NEW l \in Seq(Elem), NEW c \in Nat, NEW g \in Seq(Seq(Nat)), ListRight(l, c, g),
           NEW e \in Elem, e.seq = c, e.req = Len(g) + 1
    PROVE  ListRight(Append(l, e), c + 1, Append(g, <<>>))
<1>1. PICK h : h = Append(g, <<>>)
    OBVIOUS
<1>2. PICK n \in Nat : n = Len(g)
    OBVIOUS
<1>3. /\ DOMAIN g = 1..n /\ DOMAIN h = 1..(n + 1) /\ h[n + 1] = <<>>
      /\ \A r \in DOMAIN g : h[r] = g[r]
    BY <1>1, <1>2
<1>4. PICK k : k = Append(l, e)
    OBVIOUS
<1>5. PICK z \in Nat : z = Len(l)
    OBVIOUS
<1>6. DOMAIN l = 1..z /\ DOMAIN k = 1..(z + 1) /\ k[z + 1] = e /\ \A i \in 1..z : k[i] = l[i]
    BY <1>4, <1>5
<1>7. \A i \in 1..z : l[i].seq \in Nat /\ l[i].req \in Nat
    BY <1>6, ElemFacts
<1>8. ASSUME NEW i \in DOMAIN k
      PROVE  k[i].seq < c + 1 /\ k[i].req \in DOMAIN h /\ h[k[i].req] = <<>>
    <2>1. CASE i = z + 1
        BY <1>2, <1>3, <1>6, <2>1
    <2>2. CASE i # z + 1
        <3>1. i \in 1..z
            BY <1>6, <2>2
        <3> QED
            BY <1>3, <1>6, <1>7, <3>1, SMTT(60) DEF ListRight
    <2> QED
        BY <2>1, <2>2
<1>9. ASSUME NEW i \in DOMAIN k, NEW j \in DOMAIN k, i < j
      PROVE  k[i].seq < k[j].seq /\ k[i].req < k[j].req
    <2>1. i \in 1..z /\ l[i].seq < c /\ l[i].req \in 1..n
        BY <1>3, <1>6, <1>9 DEF ListRight
    <2>2. CASE j = z + 1
        BY <1>2, <1>6, <1>7, <2>1, <2>2
    <2>3. CASE j # z + 1
        <3>0. j \in 1..(z + 1)
            BY <1>6, <1>9
        <3>1. j \in 1..z
            BY <2>3, <3>0
        <3> QED
            BY <1>6, <1>9, <2>1, <3>1 DEF ListRight
    <2> QED
        BY <2>2, <2>3
<1>10. ListRight(k, c + 1, h)
    BY <1>8, <1>9 DEF ListRight
<1> QED
    BY <1>1, <1>4, <1>10

\* A list l2 with some of the requests of l, in their order.
IsPart(l2, l, f) ==
    /\ l2 \in Seq(Elem) /\ f \in [DOMAIN l2 -> DOMAIN l]
    /\ \A x \in DOMAIN l2 : l2[x] = l[f[x]]
    /\ \A x, y \in DOMAIN l2 : x < y => f[x] < f[y]

LEMMA ListPart ==
    ASSUME NEW l, NEW l2, NEW f, NEW c, NEW g, ListRight(l, c, g), IsPart(l2, l, f)
    PROVE  /\ ListRight(l2, c, g)
           /\ \A i \in DOMAIN l2 : \E j \in DOMAIN l : l2[i] = l[j]
<1>1. \A x \in DOMAIN l2 : f[x] \in DOMAIN l /\ l2[x] = l[f[x]]
    BY DEF IsPart
<1>2. \A x \in DOMAIN l2 : l2[x].seq < c /\ l2[x].req \in DOMAIN g /\ g[l2[x].req] = <<>>
    BY <1>1 DEF ListRight
<1>3. \A x, y \in DOMAIN l2 : x < y => l2[x].seq < l2[y].seq /\ l2[x].req < l2[y].req
    BY <1>1 DEF IsPart, ListRight
<1> QED
    BY <1>1, <1>2, <1>3 DEF ListRight

LEMMA RemovedIsPart ==
    ASSUME NEW l \in Seq(Elem), NEW i \in DOMAIN l
    PROVE  \E f : IsPart(RemoveAt(l, i), l, f) /\ \A x \in DOMAIN RemoveAt(l, i) : f[x] # i
<1>1. PICK n \in Nat : n = Len(l)
    OBVIOUS
<1>2. DOMAIN l = 1..n /\ i \in 1..n
    BY <1>1
<1>3. PICK a, b : a = SubSeq(l, 1, i - 1) /\ b = SubSeq(l, i + 1, n)
    OBVIOUS
<1>4. /\ a \in Seq(Elem) /\ Len(a) = i - 1 /\ \A x \in 1..(i - 1) : a[x] = l[x]
      /\ b \in Seq(Elem) /\ Len(b) = n - i /\ \A x \in 1..(n - i) : b[x] = l[x + i]
    <2>1. /\ SubSeq(l, 1, i - 1) \in Seq(Elem) /\ Len(SubSeq(l, 1, i - 1)) = i - 1
          /\ \A x \in 1..(i - 1) : SubSeq(l, 1, i - 1)[x] = l[x]
        BY <1>1, <1>2
    <2>2. SubSeq(l, i + 1, n) \in Seq(Elem)
        BY <1>1, <1>2
    <2>3. Len(SubSeq(l, i + 1, n)) = n - i
        BY <1>1, <1>2
    <2>4. \A x \in 1..(n - i) : SubSeq(l, i + 1, n)[x] = l[x + i]
        BY <1>1, <1>2
    <2> QED
        BY <1>3, <2>1, <2>2, <2>3, <2>4
<1>5. PICK k : k = RemoveAt(l, i)
    OBVIOUS
<1>6. k = a \o b
    BY <1>1, <1>3, <1>5 DEF RemoveAt
<1>7. /\ k \in Seq(Elem) /\ DOMAIN k = 1..(n - 1)
      /\ \A x \in 1..(n - 1) : k[x] = IF x < i THEN a[x] ELSE b[x - (i - 1)]
    BY <1>2, <1>4, <1>6, ConcatProperties, SMTT(30)
<1> DEFINE f == [x \in 1..(n - 1) |-> IF x < i THEN x ELSE x + 1]
<1>8. f \in [DOMAIN k -> DOMAIN l] /\ \A x \in DOMAIN k : f[x] # i
    BY <1>2, <1>7
<1>9. \A x \in DOMAIN k : k[x] = l[f[x]]
    <2>1. ASSUME NEW x \in 1..(n - 1), x < i PROVE k[x] = l[f[x]]
        BY <1>2, <1>4, <1>7, <2>1
    <2>2. ASSUME NEW x \in 1..(n - 1), ~(x < i) PROVE k[x] = l[f[x]]
        <3>1. x - (i - 1) \in 1..(n - i) /\ (x - (i - 1)) + i = x + 1
            BY <1>2, <2>2
        <3>2. b[x - (i - 1)] = l[x + 1]
            BY <1>4, <3>1
        <3> QED
            BY <1>7, <2>2, <3>2
    <2> QED
        BY <1>7, <2>1, <2>2
<1>10. \A x, y \in DOMAIN k : x < y => f[x] < f[y]
    BY <1>2, <1>7
<1>11. IsPart(k, l, f)
    BY <1>7, <1>8, <1>9, <1>10 DEF IsPart
<1> QED
    BY <1>5, <1>8, <1>11

LEMMA DroppedIsPart ==
    ASSUME NEW l \in Seq(Elem), NEW k \in 1..Len(l)
    PROVE  \E f : /\ IsPart(SubSeq(l, k + 1, Len(l)), l, f)
                  /\ \A x \in DOMAIN SubSeq(l, k + 1, Len(l)) : f[x] > k
<1>1. PICK n \in Nat : n = Len(l)
    OBVIOUS
<1>2. PICK b : b = SubSeq(l, k + 1, n)
    OBVIOUS
<1>3. /\ b \in Seq(Elem) /\ DOMAIN b = 1..(n - k) /\ \A x \in 1..(n - k) : b[x] = l[x + k]
      /\ DOMAIN l = 1..n /\ k \in 1..n
    BY <1>1, <1>2, SubSeqProperties
<1> DEFINE f == [x \in 1..(n - k) |-> x + k]
<1>4. IsPart(b, l, f) /\ \A x \in DOMAIN b : f[x] > k
    BY <1>3 DEF IsPart
<1> QED
    BY <1>1, <1>2, <1>4

-----------------------------------------------------------------------------
(* Handlers *)

\* A handler keeps a value and a time, and only requests are answered.
LEMMA HandledRight ==
    ASSUME NEW R, NEW m, NEW count, NEW last, NEW l, Fine(R, m, count, last, l),
           m.type # "ConfigCommit", NEW n \in Node,
           store \in [Node -> Value \cup {None}], rtc \in [Node -> Value \cup {None}]
    PROVE  /\ Handled(n, m).store \in Value \cup {None}
           /\ Handled(n, m).rtc \in Value \cup {None}
           /\ Handled(n, m).reply # NoReply =>
                 Handled(n, m).reply \in Value \cup {None} /\ m.type \in Request
<1>1. m.type \in Request => m.val \in Value
    BY DEF Fine
<1>2. PICK s \in Value \cup {None} : s = store[n]
    OBVIOUS
<1>3. PICK c \in Value \cup {None} : c = rtc[n]
    OBVIOUS
<1>4. PICK k : k = Keeps(n)
    OBVIOUS
<1>5. k = [store |-> s, rtc |-> c, reply |-> NoReply]
    BY <1>2, <1>3, <1>4 DEF Keeps
<1>6. Request = {"ConfigGet", "ConfigSet", "ConfigStatus", "ConfigDelete", "ConfigClear",
                 "ConfigCommit", "TimeRequest", "TimeSet"}
    BY Types DEF Request
<1> USE DEF bcmp_config_send_del_key_response, bcmp_send_clear_response_message
<1>7. CASE m.type = "ConfigGet"
    <2>1. Handled(n, m) = bcmp_config_process_config_get_msg(n, m)
        BY <1>7 DEF Handled
    <2>2. Handled(n, m) = [k EXCEPT !.reply = IF s = None THEN NoReply ELSE s]
        BY <1>2, <1>4, <2>1 DEF bcmp_config_process_config_get_msg
    <2> QED
        BY <1>1, <1>5, <1>6, <1>7, <2>2
<1>8. CASE m.type = "ConfigSet"
    <2>1. Handled(n, m) = bcmp_config_process_config_set_msg(n, m)
        BY <1>8 DEF Handled
    <2>2. Handled(n, m) = [k EXCEPT !.store = m.val, !.reply = m.val]
        BY <1>4, <2>1 DEF bcmp_config_process_config_set_msg
    <2> QED
        BY <1>1, <1>5, <1>6, <1>8, <2>2
<1>9. CASE m.type = "ConfigStatus"
    <2>1. Handled(n, m) = bcmp_config_process_status_request_msg(n, m)
        BY <1>9 DEF Handled
    <2>2. Handled(n, m) = [k EXCEPT !.reply = None]
        BY <1>4, <2>1 DEF bcmp_config_process_status_request_msg
    <2> QED
        BY <1>1, <1>5, <1>6, <1>9, <2>2
<1>10. CASE m.type \in {"ConfigDelete", "ConfigClear"}
    <2>1. Handled(n, m) \in {bcmp_process_del_request_message(n, m), bcmp_process_clear_request_message(n, m)}
        BY <1>6, <1>10 DEF Handled
    <2>2. Handled(n, m) = [k EXCEPT !.store = None, !.reply = None]
        BY <1>4, <2>1 DEF bcmp_process_del_request_message, bcmp_process_clear_request_message
    <2> QED
        BY <1>1, <1>5, <1>6, <1>10, <2>2
<1>11. CASE m.type = "TimeRequest"
    <2>1. Handled(n, m) = bcmp_time_process_time_request_msg(n, m)
        BY <1>11 DEF Handled
    <2>2. Handled(n, m) = [k EXCEPT !.reply = IF c = None \/ m.target # n THEN NoReply ELSE c]
        BY <1>3, <1>4, <2>1 DEF bcmp_time_process_time_request_msg
    <2> QED
        BY <1>1, <1>5, <1>6, <1>11, <2>2
<1>12. CASE m.type = "TimeSet"
    <2>1. Handled(n, m) = bcmp_time_process_time_set_msg(n, m)
        BY <1>12 DEF Handled
    <2>2. Handled(n, m) = [k EXCEPT !.rtc = m.val, !.reply = m.val]
        BY <1>4, <2>1 DEF bcmp_time_process_time_set_msg
    <2> QED
        BY <1>1, <1>5, <1>6, <1>12, <2>2
<1>13. CASE m.type \notin Request
    <2>1. Handled(n, m) \in {bcmp_process_value_message(n, m), bcmp_process_del_response_message(n, m), bcmp_process_clear_response_message(n, m)}
        BY <1>6, <1>13 DEF Handled
    <2>2. Handled(n, m) = k
        BY <1>4, <2>1 DEF bcmp_process_value_message, bcmp_process_del_response_message, bcmp_process_clear_response_message
    <2> QED
        BY <1>1, <1>5, <1>6, <1>13, <2>2
<1> QED
    BY <1>6, <1>7, <1>8, <1>9, <1>10, <1>11, <1>12, <1>13

LEMMA SmallMod ==
    ASSUME NEW s \in Nat, NEW w \in Nat, s < w
    PROVE  s % w = s
OBVIOUS

\* A reply has the number of its request, as long as 16 bits hold it.
LEMMA ReplyFine ==
    ASSUME BcmpAssumption, NEW R \in Node, NEW m, NEW count \in Nat, NEW last, NEW l,
           Fine(R, m, count, last, l),
           m.type \in Request, m.type # "ConfigCommit", count <= ReplySeqs,
           NEW n \in Node, NEW v \in Value \cup {None}
    PROVE  Fine(R, Reply(n, m, v), count, last, l)
<1>1. m \in Msg /\ m.seq \in Nat /\ m.req \in Nat \ {0} /\ m.source = R
    BY MsgFields DEF Fine
<1>2. PICK k : k = Reply(n, m, v)
    OBVIOUS
<1>3. m.type \in {"ConfigGet", "ConfigSet", "ConfigStatus", "ConfigDelete", "ConfigClear",
                  "TimeRequest", "TimeSet"}
    BY Types DEF Request
<1>4. PICK p : p = Packet(m.type)
    OBVIOUS
<1>5. \/ /\ m.type \in Numbered /\ p.sequenced = TRUE /\ p.reply \in SequencedReply
      \/ /\ m.type \notin Numbered /\ p.sequenced = FALSE /\ p.reply = bcmp_time_send_response
    BY <1>3, <1>4, Packets, Replies DEF bcmp_time_send_response
<1>6. PICK s : s = ReplySeq(n, m)
    OBVIOUS
<1>7. k = [type |-> p.reply, seq |-> s, source |-> n, target |-> R, val |-> v, req |-> m.req,
           via |-> n]
    BY <1>1, <1>2, <1>4, <1>6 DEF Reply
<1>8. p.reply \notin Request
    BY <1>5, Types, Replies DEF Request, bcmp_time_send_response
<1>9. s \in Nat /\ (m.type \in Numbered => s = m.seq)
    <2>1. CASE m.type \in Numbered
        <3>1. m.seq < count
            BY <2>1 DEF Fine
        <3>2. m.seq < ReplySeqs /\ ReplySeqs \in Nat
            BY <1>1, <3>1 DEF BcmpAssumption
        <3>3. m.seq % ReplySeqs = m.seq
            BY <1>1, <3>2, SmallMod
        <3>4. s = m.seq % ReplySeqs
            BY <1>4, <1>5, <1>6, <2>1 DEF ReplySeq
        <3> QED
            BY <1>1, <3>3, <3>4
    <2>2. CASE m.type \notin Numbered
        BY <1>4, <1>5, <1>6, <2>2 DEF ReplySeq
    <2> QED
        BY <2>1, <2>2
<1>10. p.reply \in SequencedReply \cup {bcmp_time_send_response}
       /\ (p.reply \in Numbered => m.type \in Numbered)
    BY <1>5, Replies DEF bcmp_time_send_response
<1>11. k \in Msg
    BY <1>1, <1>7, <1>9, <1>10 DEF Msg
<1>12. k.type = p.reply /\ k.seq = s /\ k.target = R /\ k.req = m.req
    BY <1>7
<1>13. Fine(R, k, count, last, l)
    BY <1>8, <1>9, <1>10, <1>11, <1>12 DEF Fine
<1> QED
    BY <1>2, <1>13

-----------------------------------------------------------------------------
(* Steps *)

LEMMA RepliesInit ==
    ASSUME BcmpAssumption, NEW R, OnlyRequester(R), Init
    PROVE  RepliesInv(R)
<1>1. TypeInv
    BY DEF BcmpAssumption, Init, TypeInv, Taking
<1>2. AllFine(R, queue, taking, message_count[R], Len(asked), sequence_list[R])
    BY DEF BcmpAssumption, Init, AllFine, Idle
<1>3. R \in Node
    BY DEF OnlyRequester
<1> QED
    BY <1>1, <1>2, <1>3 DEF Init, RepliesInv, ListRight, TakingRight, AnswersRight, Idle

\* What is sent to the neighbors or passed on, from queues that are fine.
LEMMA TxFine ==
    ASSUME BcmpAssumption, NEW R, NEW q, NEW t, NEW count, NEW last, NEW l,
           AllFine(R, q, t, count, last, l),
           NEW m, Fine(R, m, count, last, l), NEW n \in Node,
           bcmp_tx(q, n, m) \/ bcmp_ll_forward(q, n, m)
    PROVE  AllFine(R, queue', t, count, last, l)
<1>1. PICK to : queue' = Into(q, n, m, to)
    BY DEF bcmp_tx, bcmp_ll_forward
<1>2. AllFine(R, Into(q, n, m, to), t, count, last, l)
    BY IntoFine
<1> QED
    BY <1>1, <1>2

\* The state of the requester does not change in most steps.
LEMMA Elsewhere ==
    ASSUME NEW R, R \in Node, RepliesInv(R),
           AllFine(R, queue', taking, message_count[R], Len(asked), sequence_list[R]),
           store' \in [Node -> Value \cup {None}], rtc' \in [Node -> Value \cup {None}],
           UNCHANGED <<message_count, sequence_list, taking, asked, answers>>
    PROVE  RepliesInv(R)'
<1>1. TypeInv'
    BY DEF RepliesInv, TypeInv
<1> QED
    BY <1>1 DEF RepliesInv

LEMMA ProcessKeeps ==
    ASSUME BcmpAssumption, NEW R, OnlyRequester(R), MaxReq <= ReplySeqs, RepliesInv(R),
           NEW n \in Node, queue[n] # <<>>, Process(n, Head(queue[n]), Rest(n)),
           UNCHANGED <<asked, answers>>
    PROVE  RepliesInv(R)'
<1>1. PICK m : m = Head(queue[n])
    OBVIOUS
<1>2. PICK c \in Nat : c = message_count[R]
    BY DEF OnlyRequester, RepliesInv, TypeInv
<1>3. PICK l : l = sequence_list[R]
    OBVIOUS
<1>4. PICK k \in Nat : k = Len(asked)
    BY DEF RepliesInv, TypeInv
<1>5. AllFine(R, queue, taking, c, k, l)
    BY <1>2, <1>3, <1>4 DEF RepliesInv
<1>6. AllFine(R, Rest(n), taking, c, k, l) /\ Fine(R, m, c, k, l)
    <2>1. /\ AllFine(R, [queue EXCEPT ![n] = Tail(@)], taking, c, k, l)
          /\ Fine(R, Head(queue[n]), c, k, l)
        BY <1>5, RestFine
    <2> QED
        BY <1>1, <2>1 DEF Rest
<1>7. R \in Node /\ c <= ReplySeqs
    BY <1>2, <1>4 DEF OnlyRequester, RepliesInv, TypeInv, BcmpAssumption
<1>8. store \in [Node -> Value \cup {None}] /\ rtc \in [Node -> Value \cup {None}]
    BY DEF RepliesInv, TypeInv
<1>9. CASE ShouldForward(n, m)
    <2>1. /\ bcmp_ll_forward(Rest(n), n, m)
          /\ UNCHANGED <<message_count, sequence_list, taking, store, rtc>>
        BY <1>1, <1>9 DEF Process
    <2>2. PICK q : q = Rest(n)
        OBVIOUS
    <2>3. AllFine(R, queue', taking, c, k, l)
        BY <1>6, <2>1, <2>2, TxFine
    <2> QED
        BY <1>2, <1>3, <1>4, <1>7, <1>8, <2>1, <2>3, Elsewhere
<1>10. CASE ~ShouldForward(n, m) /\ m.type = "ConfigCommit"
    <2>1. bcmp_config_process_commit_msg(n, Rest(n))
        BY <1>1, <1>10 DEF Process
    <2>2. m.target = n
        BY <1>10, Types DEF ShouldForward, bcmp_time_send_response
    <2>3. m.type \in Request
        BY <1>10, Types DEF Request
    <2>4. n # R
        BY <1>6, <2>2, <2>3 DEF Fine, OnlyRequester
    <2>5. PICK q : q = Rest(n)
        OBVIOUS
    <2>6. AllFine(R, queue', taking, c, k, l)
        <3>1. AllFine(R, [q EXCEPT ![n] = <<>>], taking, c, k, l)
            BY <1>6, <2>5, EmptiedFine
        <3> QED
            BY <2>1, <2>5, <3>1 DEF bcmp_config_process_commit_msg
    <2>7. /\ message_count' = [message_count EXCEPT ![n] = 0]
          /\ sequence_list' = [sequence_list EXCEPT ![n] = <<>>]
          /\ rtc' = [rtc EXCEPT ![n] = None] /\ UNCHANGED <<taking, store>>
        BY <2>1 DEF bcmp_config_process_commit_msg
    <2>8. TypeInv'
        <3>1. message_count' \in [Node -> Nat] /\ sequence_list' \in [Node -> Seq(Elem)]
            BY <2>7 DEF RepliesInv, TypeInv
        <3>2. rtc' \in [Node -> Value \cup {None}]
            BY <1>8, <2>7
        <3> QED
            BY <2>7, <3>1, <3>2 DEF RepliesInv, TypeInv
    <2>9. message_count'[R] = c /\ sequence_list'[R] = l
        BY <1>2, <1>3, <1>7, <2>4, <2>7 DEF RepliesInv, TypeInv
    <2>10. \A x \in Node \ {R} : sequence_list'[x] = <<>> /\ taking'[x] = Idle
        BY <2>7 DEF RepliesInv, TypeInv
    <2> QED
        BY <1>2, <1>3, <1>4, <2>6, <2>7, <2>8, <2>9, <2>10 DEF RepliesInv
<1>11. CASE ~ShouldForward(n, m) /\ m.type # "ConfigCommit"
    <2>1. PICK h : h = Handled(n, m)
        OBVIOUS
    <2>2. /\ store' = [store EXCEPT ![n] = h.store] /\ rtc' = [rtc EXCEPT ![n] = h.rtc]
          /\ IF h.reply = NoReply THEN queue' = Rest(n) ELSE bcmp_tx(Rest(n), n, Reply(n, m, h.reply))
          /\ UNCHANGED <<message_count, sequence_list, taking>>
        BY <1>1, <1>11, <2>1 DEF Process
    <2>3. /\ h.store \in Value \cup {None} /\ h.rtc \in Value \cup {None}
          /\ h.reply # NoReply => h.reply \in Value \cup {None} /\ m.type \in Request
        BY <1>6, <1>8, <1>11, <2>1, HandledRight
    <2>4. store' \in [Node -> Value \cup {None}] /\ rtc' \in [Node -> Value \cup {None}]
        BY <1>8, <2>2, <2>3
    <2>5. AllFine(R, queue', taking, c, k, l)
        <3>1. CASE h.reply = NoReply
            BY <1>6, <2>2, <3>1
        <3>2. CASE h.reply # NoReply
            <4>1. PICK v \in Value \cup {None} : v = h.reply
                BY <2>3, <3>2
            <4>2. PICK p : p = Reply(n, m, v)
                OBVIOUS
            <4>3. Fine(R, p, c, k, l)
                BY <1>6, <1>7, <1>11, <2>3, <3>2, <4>2, ReplyFine
            <4>4. PICK q : q = Rest(n)
                OBVIOUS
            <4>5. AllFine(R, q, taking, c, k, l) /\ bcmp_tx(q, n, p)
                BY <1>6, <2>2, <3>2, <4>1, <4>2, <4>4
            <4> QED
                BY <4>3, <4>5, TxFine
        <3> QED
            BY <3>1, <3>2
    <2> QED
        BY <1>2, <1>3, <1>4, <1>7, <2>2, <2>4, <2>5, Elsewhere
<1> QED
    BY <1>9, <1>10, <1>11

LEMMA IdleFine ==
    ASSUME NEW R, NEW q, NEW t, NEW count, NEW last, NEW l, AllFine(R, q, t, count, last, l),
           t \in [Node -> Taking], NEW n \in Node
    PROVE  AllFine(R, q, [t EXCEPT ![n] = Idle], count, last, l)
<1>1. PICK u : u = [t EXCEPT ![n] = Idle]
    OBVIOUS
<1>2. \A x \in Node : u[x] = IF x = n THEN Idle ELSE t[x]
    BY <1>1
<1>3. ~Idle.busy
    BY DEF Idle
<1>4. AllFine(R, q, u, count, last, l)
    BY <1>2, <1>3 DEF AllFine
<1> QED
    BY <1>1, <1>4

\* Of the requests that wait, the one with the number is taken out.
LEMMA UnlistedIs ==
    ASSUME NEW R, RepliesInv(R), R \in Node, NEW i \in DOMAIN sequence_list[R]
    PROVE  Unlisted(R, sequence_list[R][i].seq) = RemoveAt(sequence_list[R], i)
<1>1. PICK l \in Seq(Elem) : l = sequence_list[R]
    BY DEF RepliesInv, TypeInv
<1>2. \A x, y \in DOMAIN l : l[x].seq = l[y].seq => x = y
    BY <1>1, ListNumbersDiffer DEF RepliesInv
<1>3. i \in DOMAIN l /\ i \in Int
    BY <1>1
<1>4. PICK z : z = l[i].seq
    OBVIOUS
<1>5. PICK s : s = {x \in DOMAIN l : l[x].seq = z}
    OBVIOUS
<1>6. s = {i} /\ s # {}
    BY <1>2, <1>3, <1>4, <1>5
<1>7. (CHOOSE x \in s : \A y \in s : x <= y) = i
    BY <1>3, <1>6
<1>8. Unlisted(R, z) = RemoveAt(l, CHOOSE x \in s : \A y \in s : x <= y)
    BY <1>1, <1>5, <1>6 DEF Unlisted
<1> QED
    BY <1>1, <1>4, <1>7, <1>8

\* What a busy BCMP thread has in its hands: only R is ever busy.
LEMMA BusyIs ==
    ASSUME BcmpAssumption, NEW R, OnlyRequester(R), RepliesInv(R), NEW n \in Node, taking[n].busy
    PROVE  /\ n = R
           /\ \E i \in DOMAIN sequence_list[R] : /\ taking[R].elem = sequence_list[R][i]
                                                /\ taking[R].msg.seq = sequence_list[R][i].seq
                                                /\ taking[R].msg.req = sequence_list[R][i].req
           /\ Fine(R, taking[R].msg, message_count[R], Len(asked), sequence_list[R])
<1>1. ~Idle.busy
    BY DEF Idle
<1>2. n = R
    BY <1>1 DEF RepliesInv
<1>3. Fine(R, taking[R].msg, message_count[R], Len(asked), sequence_list[R])
    BY <1>2 DEF RepliesInv, AllFine
<1>4. PICK i \in DOMAIN sequence_list[R] : taking[R].elem = sequence_list[R][i]
    BY <1>2 DEF RepliesInv, TakingRight
<1>5. taking[R].msg.type \in SequencedReply /\ taking[R].msg.seq = taking[R].elem.seq
    BY <1>2 DEF RepliesInv, TakingRight
<1>6. taking[R].msg.type \in Numbered
    BY <1>5 DEF Numbered
<1>7. taking[R].msg.req = sequence_list[R][i].req
    BY <1>3, <1>4, <1>5, <1>6 DEF Fine
<1> QED
    BY <1>2, <1>3, <1>4, <1>5, <1>7

\* R drops request i from its list, and answers only what it drops.
LEMMA DropKeeps ==
    ASSUME BcmpAssumption, NEW R, OnlyRequester(R), RepliesInv(R),
           NEW l2, NEW f, IsPart(l2, sequence_list[R], f),
           sequence_list' = [sequence_list EXCEPT ![R] = l2],
           taking' = [taking EXCEPT ![R] = Idle],
           AllFine(R, queue', taking, message_count[R], Len(asked), sequence_list[R]),
           answers' \in Seq(Seq(Nat)), DOMAIN answers' = DOMAIN answers,
           \A r \in DOMAIN answers : answers'[r] # answers[r] =>
               /\ answers'[r] \in {<<r>>, <<Expired>>}
               /\ \A x \in DOMAIN l2 : l2[x].req # r,
           UNCHANGED <<message_count, store, rtc, asked>>
    PROVE  RepliesInv(R)'
<1>1. R \in Node /\ l2 \in Seq(Elem)
    BY DEF OnlyRequester, IsPart
<1>2. sequence_list'[R] = l2 /\ sequence_list' \in [Node -> Seq(Elem)]
      /\ \A n \in Node \ {R} : sequence_list'[n] = sequence_list[n]
    BY <1>1 DEF RepliesInv, TypeInv
<1>3. taking'[R] = Idle /\ taking' \in [Node -> Taking]
      /\ \A n \in Node \ {R} : taking'[n] = taking[n]
    <2>1. taking \in [Node -> Taking] /\ Idle \in Taking
        BY DEF RepliesInv, TypeInv, Taking
    <2> QED
        BY <1>1, <2>1
<1>4. \A n \in Node \ {R} : sequence_list'[n] = <<>> /\ taking'[n] = Idle
    BY <1>2, <1>3 DEF RepliesInv
<1>5. /\ ListRight(l2, message_count[R], answers')
      /\ \A i \in DOMAIN l2 : \E j \in DOMAIN sequence_list[R] : l2[i] = sequence_list[R][j]
    <2>1. PICK l, g, h : l = sequence_list[R] /\ g = answers /\ h = answers'
        OBVIOUS
    <2>2. PICK c : c = message_count[R]
        OBVIOUS
    <2>3. ListRight(l, c, g) /\ IsPart(l2, l, f) /\ DOMAIN h = DOMAIN g
        BY <2>1, <2>2 DEF RepliesInv
    <2>4. \A x \in DOMAIN l2 : h[l2[x].req] = g[l2[x].req]
        <3>1. ASSUME NEW x \in DOMAIN l2 PROVE l2[x].req \in DOMAIN g
            BY <2>3 DEF ListRight, IsPart
        <3> QED
            BY <2>1, <3>1
    <2>5. /\ ListRight(l2, c, h)
          /\ \A i \in DOMAIN l2 : \E j \in DOMAIN l : l2[i] = l[j]
        <3>1. /\ ListRight(l2, c, g)
              /\ \A i \in DOMAIN l2 : \E j \in DOMAIN l : l2[i] = l[j]
            BY <2>3, ListPart
        <3> QED
            BY <2>3, <2>4, <3>1 DEF ListRight
    <2> QED
        BY <2>1, <2>2, <2>5
<1>6. AllFine(R, queue', taking', message_count[R], Len(asked), l2)
    <2>1. PICK c \in Nat : c = message_count[R]
        BY <1>1 DEF RepliesInv, TypeInv
    <2>2. PICK k \in Nat : k = Len(asked)
        BY DEF RepliesInv, TypeInv
    <2>3. PICK q, l, t : q = queue' /\ l = sequence_list[R] /\ t = taking
        OBVIOUS
    <2>4. AllFine(R, q, t, c, k, l) /\ c <= c /\ k <= k
        BY <2>1, <2>2, <2>3
    <2>5. \A i \in DOMAIN l2 : l2[i].seq = c \/ \E j \in DOMAIN l : l2[i] = l[j]
        BY <1>5, <2>3
    <2>6. AllFine(R, q, t, c, k, l2)
        BY <2>4, <2>5, AllFineLater
    <2>7. t \in [Node -> Taking]
        BY <2>3 DEF RepliesInv, TypeInv
    <2>8. AllFine(R, q, [t EXCEPT ![R] = Idle], c, k, l2)
        BY <1>1, <2>6, <2>7, IdleFine
    <2> QED
        BY <2>1, <2>2, <2>3, <2>8
<1>7. AnswersRight(answers')
    BY DEF RepliesInv, AnswersRight
<1>8. TypeInv'
    <2>1. Len(answers') = Len(answers)
        BY DEF RepliesInv, TypeInv
    <2> QED
        BY <1>2, <1>3, <2>1 DEF RepliesInv, TypeInv
<1>9. TakingRight(taking'[R], sequence_list'[R])
    BY <1>3 DEF TakingRight, Idle
<1> QED
    BY <1>2, <1>4, <1>5, <1>6, <1>7, <1>8, <1>9 DEF RepliesInv

LEMMA TakeKeeps ==
    ASSUME BcmpAssumption, NEW R, OnlyRequester(R), RepliesInv(R), NEW n \in Node, Take(n)
    PROVE  RepliesInv(R)'
<1>1. taking[n].busy
    BY DEF Take
<1>2. n = R /\ R \in Node
    BY <1>1, BusyIs
<1>3. Fine(R, taking[R].msg, message_count[R], Len(asked), sequence_list[R])
    BY <1>1, BusyIs
<1>4. PICK i \in DOMAIN sequence_list[R] : /\ taking[R].elem = sequence_list[R][i]
                                           /\ taking[R].msg.seq = sequence_list[R][i].seq
                                           /\ taking[R].msg.req = sequence_list[R][i].req
    BY <1>1, BusyIs
<1>5. PICK l \in Seq(Elem) : l = sequence_list[R]
    BY <1>2 DEF RepliesInv, TypeInv
<1>6. PICK e \in Elem : e = l[i]
    BY <1>4, <1>5
<1>7. PICK l2 : l2 = RemoveAt(l, i)
    OBVIOUS
<1>8. Unlisted(R, taking[R].msg.seq) = l2
    BY <1>2, <1>4, <1>5, <1>7, UnlistedIs
<1>9. PICK f : IsPart(l2, l, f) /\ \A x \in DOMAIN l2 : f[x] # i
    BY <1>4, <1>5, <1>7, RemovedIsPart
<1>10. sequence_list' = [sequence_list EXCEPT ![R] = l2] /\ taking' = [taking EXCEPT ![R] = Idle]
       /\ UNCHANGED <<message_count, store, rtc, asked>>
    BY <1>2, <1>8 DEF Take
<1>11. AllFine(R, queue, taking, message_count[R], Len(asked), sequence_list[R])
    BY DEF RepliesInv
<1>12. ListRight(l, message_count[R], answers) /\ answers \in Seq(Seq(Nat))
    BY <1>5 DEF RepliesInv, TypeInv
<1>13. CASE e.cb
    <2>1. answers' = [answers EXCEPT ![e.req] = Append(@, e.req)] /\ UNCHANGED queue
        BY <1>2, <1>4, <1>5, <1>6, <1>13 DEF Take
    <2>2. e.req \in DOMAIN answers /\ answers[e.req] = <<>> /\ e.req \in Nat
        BY <1>4, <1>5, <1>6, <1>12 DEF ListRight, Elem
    <2>3. answers' = [answers EXCEPT ![e.req] = <<e.req>>]
        BY <2>1, <2>2
    <2>4. answers' \in Seq(Seq(Nat)) /\ DOMAIN answers' = DOMAIN answers
        BY <1>12, <2>2, <2>3
    <2>5. \A r \in DOMAIN answers : answers'[r] = IF r = e.req THEN <<r>> ELSE answers[r]
        BY <2>2, <2>3
    <2>6. \A x \in DOMAIN l2 : l2[x].req # e.req
        <3>1. ASSUME NEW x \in DOMAIN l2 PROVE l2[x].req # e.req
            <4>1. f[x] \in DOMAIN l /\ l2[x] = l[f[x]] /\ f[x] # i
                BY <1>9 DEF IsPart
            <4>2. f[x] \in Int /\ i \in Int /\ i \in DOMAIN l /\ l[f[x]].req \in Nat /\ l[i].req \in Nat
                BY <1>4, <1>5, <4>1, ElemFacts
            <4>3. f[x] < i \/ i < f[x]
                BY <4>1, <4>2
            <4>4. l[f[x]].req < l[i].req \/ l[i].req < l[f[x]].req
                BY <1>12, <4>1, <4>2, <4>3 DEF ListRight
            <4> QED
                BY <1>6, <4>1, <4>2, <4>4
        <3> QED
            BY <3>1
    <2>7. IsPart(l2, sequence_list[R], f)
        BY <1>5, <1>9
    <2>8. AllFine(R, queue', taking, message_count[R], Len(asked), sequence_list[R])
        BY <1>11, <2>1
    <2>9. \A r \in DOMAIN answers : answers'[r] # answers[r] =>
               /\ answers'[r] \in {<<r>>, <<Expired>>}
               /\ \A x \in DOMAIN l2 : l2[x].req # r
        BY <2>5, <2>6
    <2> QED
        BY <1>10, <2>4, <2>7, <2>8, <2>9, DropKeeps
<1>14. CASE ~e.cb
    <2>1. PICK m : m = taking[R].msg
        OBVIOUS
    <2>2. /\ IF ShouldForward(R, m) THEN bcmp_ll_forward(queue, R, m) ELSE UNCHANGED queue
          /\ UNCHANGED answers
        BY <1>2, <1>4, <1>5, <1>6, <1>14, <2>1 DEF Take
    <2>3. AllFine(R, queue', taking, message_count[R], Len(asked), sequence_list[R])
        <3>1. CASE ShouldForward(R, m)
            BY <1>2, <1>3, <1>11, <2>1, <2>2, <3>1, TxFine
        <3>2. CASE ~ShouldForward(R, m)
            BY <1>11, <2>2, <3>2
        <3> QED
            BY <3>1, <3>2
    <2>4. IsPart(l2, sequence_list[R], f)
        BY <1>5, <1>9
    <2>5. answers' \in Seq(Seq(Nat)) /\ answers' = answers
        BY <1>12, <2>2
    <2>6. \A r \in DOMAIN answers : answers'[r] # answers[r] =>
               /\ answers'[r] \in {<<r>>, <<Expired>>}
               /\ \A x \in DOMAIN l2 : l2[x].req # r
        BY <2>5
    <2> QED
        BY <1>10, <2>3, <2>4, <2>5, <2>6, DropKeeps
<1> QED
    BY <1>13, <1>14

LEMMA TakeTimesOutKeeps ==
    ASSUME BcmpAssumption, NEW R, OnlyRequester(R), RepliesInv(R), NEW n \in Node, TakeTimesOut(n)
    PROVE  RepliesInv(R)'
<1>1. taking[n].busy
    BY DEF TakeTimesOut
<1>2. n = R /\ R \in Node
    BY <1>1, BusyIs
<1>3. Fine(R, taking[R].msg, message_count[R], Len(asked), sequence_list[R])
    BY <1>1, BusyIs
<1>4. PICK m : m = taking[R].msg
    OBVIOUS
<1>5. /\ IF ShouldForward(R, m) THEN bcmp_ll_forward(queue, R, m) ELSE UNCHANGED queue
      /\ taking' = [taking EXCEPT ![R] = Idle]
      /\ UNCHANGED <<message_count, sequence_list, store, rtc, asked, answers>>
    BY <1>2, <1>4 DEF TakeTimesOut
<1>6. AllFine(R, queue, taking, message_count[R], Len(asked), sequence_list[R])
    BY DEF RepliesInv
<1>7. AllFine(R, queue', taking, message_count[R], Len(asked), sequence_list[R])
    <2>1. CASE ShouldForward(R, m)
        BY <1>2, <1>3, <1>4, <1>5, <1>6, <2>1, TxFine
    <2>2. CASE ~ShouldForward(R, m)
        BY <1>5, <1>6, <2>2
    <2> QED
        BY <2>1, <2>2
<1>8. PICK l \in Seq(Elem) : l = sequence_list[R]
    BY <1>2 DEF RepliesInv, TypeInv
<1>9. PICK f : f = [x \in DOMAIN l |-> x]
    OBVIOUS
<1>10. IsPart(l, sequence_list[R], f)
    BY <1>8, <1>9 DEF IsPart
<1>11. sequence_list' = [sequence_list EXCEPT ![R] = l]
    BY <1>2, <1>5, <1>8 DEF RepliesInv, TypeInv
<1>12. answers' \in Seq(Seq(Nat)) /\ answers' = answers
    BY <1>5 DEF RepliesInv, TypeInv
<1>13. \A r \in DOMAIN answers : answers'[r] # answers[r] =>
            /\ answers'[r] \in {<<r>>, <<Expired>>}
            /\ \A x \in DOMAIN l : l[x].req # r
    BY <1>12
<1> QED
    BY <1>5, <1>7, <1>10, <1>11, <1>12, <1>13, DropKeeps

LEMMA TimerKeeps ==
    ASSUME BcmpAssumption, NEW R, OnlyRequester(R), ~Preempt, RepliesInv(R), NEW n \in Node, Timer(n)
    PROVE  RepliesInv(R)'
<1>1. PICK k \in 1..Len(sequence_list[n]) : ExpireFirst(n, k)
    BY DEF Timer
<1>2. n = R
    <2>1. CASE n # R
        <3>1. sequence_list[n] = <<>>
            BY <2>1 DEF RepliesInv
        <3> QED
            BY <1>1, <3>1
    <2> QED
        BY <2>1
<1>3. PICK l \in Seq(Elem) : l = sequence_list[R]
    BY <1>2 DEF RepliesInv, TypeInv
<1>4. PICK l2 : l2 = SubSeq(l, k + 1, Len(l))
    OBVIOUS
<1>5. k \in 1..Len(l)
    BY <1>1, <1>2, <1>3
<1>6. PICK f : IsPart(l2, l, f) /\ \A x \in DOMAIN l2 : f[x] > k
    BY <1>4, <1>5, DroppedIsPart
<1>7. sequence_list' = [sequence_list EXCEPT ![R] = l2] /\ ~taking[R].busy
      /\ UNCHANGED <<message_count, queue, taking, store, rtc, asked>>
    BY <1>1, <1>2, <1>3, <1>4 DEF Timer, ExpireFirst
<1>8. taking' = [taking EXCEPT ![R] = Idle]
    <2>1. taking \in [Node -> Taking]
        BY DEF RepliesInv, TypeInv
    <2>2. taking[R] = Idle
        BY <1>2, <1>7, <2>1 DEF Taking
    <2> QED
        BY <1>7, <2>1, <2>2
<1>9. AllFine(R, queue', taking, message_count[R], Len(asked), sequence_list[R])
    BY <1>7 DEF RepliesInv
<1>10. PICK g \in Seq(Seq(Nat)) : g = answers
    BY DEF RepliesInv, TypeInv
<1>11. ListRight(l, message_count[R], g)
    BY <1>3, <1>10 DEF RepliesInv
<1>12. answers' = [r \in DOMAIN g |-> IF \E i \in 1..k : l[i].req = r /\ l[i].cb
                                      THEN Append(g[r], Expired) ELSE g[r]]
    BY <1>1, <1>2, <1>3, <1>10 DEF ExpireFirst
<1>13. ASSUME NEW r \in DOMAIN g, \E i \in 1..k : l[i].req = r /\ l[i].cb
       PROVE  g[r] = <<>> /\ \A x \in DOMAIN l2 : l2[x].req # r
    <2>1. PICK i \in 1..k : l[i].req = r /\ l[i].cb
        BY <1>13
    <2>2. i \in DOMAIN l /\ i \in Int
        BY <1>5
    <2>3. g[r] = <<>>
        BY <1>11, <2>1, <2>2 DEF ListRight
    <2>4. ASSUME NEW x \in DOMAIN l2 PROVE l2[x].req # r
        <3>1. f[x] \in DOMAIN l /\ l2[x] = l[f[x]] /\ f[x] > k
            BY <1>6 DEF IsPart
        <3>2. f[x] \in Int /\ l[f[x]].req \in Nat /\ l[i].req \in Nat
            BY <2>2, <3>1, ElemFacts
        <3>3. i < f[x]
            BY <1>5, <3>1, <3>2
        <3>4. l[i].req < l[f[x]].req
            BY <1>11, <2>2, <3>1, <3>3 DEF ListRight
        <3> QED
            BY <2>1, <3>1, <3>2, <3>4
    <2> QED
        BY <2>3, <2>4
<1>14. ASSUME NEW r \in DOMAIN g
       PROVE  /\ answers'[r] \in Seq(Nat)
              /\ answers'[r] # g[r] => /\ answers'[r] = <<Expired>>
                                       /\ \A x \in DOMAIN l2 : l2[x].req # r
    <2>1. CASE \E i \in 1..k : l[i].req = r /\ l[i].cb
        <3>1. answers'[r] = Append(g[r], Expired)
            BY <1>12, <2>1
        <3>2. Append(<<>>, Expired) = <<Expired>> /\ <<Expired>> \in Seq(Nat)
            BY DEF Expired
        <3> QED
            BY <1>13, <2>1, <3>1, <3>2
    <2>2. CASE ~\E i \in 1..k : l[i].req = r /\ l[i].cb
        BY <1>12, <2>2
    <2> QED
        BY <2>1, <2>2
<1>15. answers' \in Seq(Seq(Nat)) /\ DOMAIN answers' = DOMAIN g
    <2>1. PICK z \in Nat : z = Len(g)
        OBVIOUS
    <2>2. PICK h : h = answers'
        OBVIOUS
    <2>3. DOMAIN g = 1..z
        BY <2>1
    <2>4. DOMAIN h = 1..z
        BY <1>12, <2>2, <2>3
    <2>5. h \in [1..z -> Seq(Nat)]
        BY <1>12, <1>14, <2>2, <2>3
    <2>6. h \in Seq(Seq(Nat))
        BY <2>5
    <2> QED
        BY <2>2, <2>3, <2>4, <2>6
<1>16. IsPart(l2, sequence_list[R], f)
    BY <1>3, <1>6
<1>17. \A r \in DOMAIN answers : answers'[r] # answers[r] =>
            /\ answers'[r] \in {<<r>>, <<Expired>>}
            /\ \A x \in DOMAIN l2 : l2[x].req # r
    BY <1>10, <1>14
<1> QED
    BY <1>7, <1>8, <1>9, <1>10, <1>15, <1>16, <1>17, DropKeeps

LEMMA AskKeeps ==
    ASSUME BcmpAssumption, NEW R, OnlyRequester(R), RepliesInv(R),
           NEW n \in Requester, NEW t \in Request, NEW target \in Target, NEW v \in Value,
           NEW cb \in BOOLEAN, NEW recorded \in BOOLEAN, NEW sent \in BOOLEAN,
           Ask(n, t, target, v, cb, recorded, sent)
    PROVE  RepliesInv(R)'
<1>1. n = R /\ R \in Node
    BY DEF OnlyRequester
<1>2. PICK c \in Nat : c = message_count[R]
    BY <1>1 DEF RepliesInv, TypeInv
<1>3. PICK k \in Nat : k = Len(asked)
    BY DEF RepliesInv, TypeInv
<1>4. PICK l \in Seq(Elem) : l = sequence_list[R]
    BY <1>1 DEF RepliesInv, TypeInv
<1>5. PICK g \in Seq(Seq(Nat)) : g = answers
    BY DEF RepliesInv, TypeInv
<1>6. /\ AllFine(R, queue, taking, c, k, l) /\ ListRight(l, c, g) /\ Len(g) = k /\ c <= k
      /\ TakingRight(taking[R], l)
    BY <1>2, <1>3, <1>4, <1>5 DEF RepliesInv, TypeInv
<1>7. PICK m : m = [type |-> t, seq |-> IF Packet(t).sequenced THEN c ELSE 0, source |-> R,
                    target |-> target, val |-> v, req |-> k + 1, via |-> R]
    OBVIOUS
<1>8. /\ k + 1 <= MaxReq
      /\ asked' = Append(asked, [node |-> R, type |-> t, cb |-> cb])
      /\ answers' = Append(answers, <<>>)
      /\ serialize(R, t, k + 1, cb, recorded)
      /\ IF sent THEN bcmp_tx(queue, R, m) ELSE UNCHANGED queue
      /\ UNCHANGED <<taking, store, rtc>>
    BY <1>1, <1>2, <1>3, <1>7 DEF Ask
<1>9. PICK e : e = [seq |-> c, req |-> k + 1, cb |-> cb]
    OBVIOUS
<1>10. e \in Elem /\ e.seq = c /\ e.req = k + 1
    BY <1>9 DEF Elem
<1>11. PICK c2 : c2 = IF Packet(t).sequenced THEN c + 1 ELSE c
    OBVIOUS
<1>12. PICK l2 : l2 = IF Packet(t).sequenced /\ recorded THEN Append(l, e) ELSE l
    OBVIOUS
<1>13. /\ message_count' \in [Node -> Nat] /\ message_count'[R] = c2
       /\ c2 \in Nat /\ c <= c2 /\ c2 <= k + 1
    BY <1>1, <1>2, <1>6, <1>8, <1>11 DEF serialize, RepliesInv, TypeInv
<1>14. l2 \in Seq(Elem)
    BY <1>10, <1>12
<1>15. /\ sequence_list' \in [Node -> Seq(Elem)] /\ sequence_list'[R] = l2
       /\ \A x \in Node \ {R} : sequence_list'[x] = <<>>
    <2>1. sequence_list \in [Node -> Seq(Elem)] /\ \A x \in Node \ {R} : sequence_list[x] = <<>>
        BY DEF RepliesInv, TypeInv
    <2>2. sequence_list' = IF Packet(t).sequenced /\ recorded
                           THEN [sequence_list EXCEPT ![R] = Append(l, e)] ELSE sequence_list
        BY <1>2, <1>4, <1>8, <1>9 DEF serialize
    <2>3. sequence_list' = [sequence_list EXCEPT ![R] = l2]
        BY <1>1, <1>4, <1>12, <2>1, <2>2
    <2> QED
        BY <1>1, <1>14, <2>1, <2>3
<1>16. ListRight(l2, c2, Append(g, <<>>))
    <2>1. CASE Packet(t).sequenced /\ recorded
        <3>1. ListRight(Append(l, e), c + 1, Append(g, <<>>))
            BY <1>6, <1>10, ListRecorded
        <3> QED
            BY <1>11, <1>12, <2>1, <3>1
    <2>2. CASE ~(Packet(t).sequenced /\ recorded)
        <3>1. ListRight(l, c2, Append(g, <<>>))
            BY <1>6, <1>13, ListLater
        <3> QED
            BY <1>12, <2>2, <3>1
    <2> QED
        BY <2>1, <2>2
<1>17. \A i \in DOMAIN l2 : l2[i].seq = c \/ \E j \in DOMAIN l : l2[i] = l[j]
    <2>1. CASE Packet(t).sequenced /\ recorded
        <3>1. \A i \in DOMAIN Append(l, e) : Append(l, e)[i] = e \/ (i \in DOMAIN l /\ Append(l, e)[i] = l[i])
            OBVIOUS
        <3> QED
            BY <1>10, <1>12, <2>1, <3>1
    <2>2. CASE ~(Packet(t).sequenced /\ recorded)
        BY <1>12, <2>2
    <2> QED
        BY <2>1, <2>2
<1>18. AllFine(R, queue, taking, c2, k + 1, l2)
    <2>1. PICK k2 \in Nat : k2 = k + 1
        OBVIOUS
    <2>2. k <= k2
        BY <2>1
    <2>3. AllFine(R, queue, taking, c2, k2, l2)
        BY <1>6, <1>13, <1>17, <2>2, AllFineLater
    <2> QED
        BY <2>1, <2>3
<1>19. Fine(R, m, c2, k + 1, l2)
    <2>1. m \in Msg
        <3>1. target \in Node \cup {0} /\ k + 1 \in Nat \ {0}
            BY DEF BcmpAssumption
        <3> QED
            BY <1>1, <1>7, <3>1 DEF Msg
    <2>2. m.type = t /\ m.source = R /\ m.target = target /\ m.val = v /\ m.req = k + 1
        BY <1>7
    <2>3. t \in Numbered => Packet(t).sequenced
        BY Replies, Packets, Types DEF Request
    <2>4. ASSUME Packet(t).sequenced
          PROVE  m.seq < c2 /\ \A i \in DOMAIN l2 : m.seq = l2[i].seq => m.req = l2[i].req
        <3>1. m.seq = c /\ c2 = c + 1
            BY <1>7, <1>11, <2>4
        <3>2. \A i \in DOMAIN l : l[i].seq < c /\ l[i].seq \in Nat
            BY <1>6, ElemFacts DEF ListRight
        <3>3. ASSUME NEW i \in DOMAIN l2, l2[i].seq = c PROVE l2[i].req = k + 1
            <4>1. CASE recorded
                <5>1. Append(l, e)[i] = e \/ (i \in DOMAIN l /\ Append(l, e)[i] = l[i])
                    BY <1>12, <2>4, <3>3, <4>1
                <5>2. l2 = Append(l, e)
                    BY <1>12, <2>4, <4>1
                <5> QED
                    BY <1>10, <3>2, <3>3, <5>1, <5>2
            <4>2. CASE ~recorded
                BY <1>12, <3>2, <3>3, <4>2
            <4> QED
                BY <4>1, <4>2
        <3> QED
            BY <2>2, <3>1, <3>3
    <2> QED
        BY <2>1, <2>2, <2>3, <2>4 DEF Fine
<1>20. AllFine(R, queue', taking, c2, k + 1, l2)
    <2>1. CASE sent
        <3>1. bcmp_tx(queue, R, m)
            BY <1>8, <2>1
        <3> QED
            BY <1>1, <1>18, <1>19, <3>1, TxFine
    <2>2. CASE ~sent
        BY <1>8, <1>18, <2>2
    <2> QED
        BY <2>1, <2>2
<1>21. /\ asked' \in Seq([node : Node, type : Request, cb : BOOLEAN]) /\ Len(asked') = k + 1
       /\ answers' \in Seq(Seq(Nat)) /\ Len(answers') = k + 1
    <2>1. asked \in Seq([node : Node, type : Request, cb : BOOLEAN])
          /\ [node |-> R, type |-> t, cb |-> cb] \in [node : Node, type : Request, cb : BOOLEAN]
        BY <1>1 DEF RepliesInv, TypeInv
    <2>2. asked' \in Seq([node : Node, type : Request, cb : BOOLEAN]) /\ Len(asked') = k + 1
        BY <1>3, <1>8, <2>1, AppendProperties
    <2>3. <<>> \in Seq(Nat)
        OBVIOUS
    <2>4. answers' \in Seq(Seq(Nat)) /\ Len(answers') = k + 1
        BY <1>5, <1>6, <1>8, <2>3, AppendProperties
    <2> QED
        BY <2>2, <2>4
<1>22. TypeInv'
    BY <1>8, <1>13, <1>15, <1>21 DEF RepliesInv, TypeInv
<1>23. TakingRight(taking'[R], l2)
    <2>1. \A i \in DOMAIN l : i \in DOMAIN l2 /\ l2[i] = l[i]
        BY <1>12
    <2>2. taking' = taking
        BY <1>8
    <2> QED
        BY <1>6, <2>1, <2>2 DEF TakingRight
<1>24. AnswersRight(answers')
    <2>1. AnswersRight(g)
        BY <1>5 DEF RepliesInv
    <2>2. PICK h : h = answers'
        OBVIOUS
    <2>3. \A r \in DOMAIN h : h[r] = <<>> \/ (r \in DOMAIN g /\ h[r] = g[r])
        BY <1>5, <1>8, <2>2
    <2>4. AnswersRight(h)
        BY <2>1, <2>3 DEF AnswersRight
    <2> QED
        BY <2>2, <2>4
<1>25. \A x \in Node \ {R} : sequence_list'[x] = <<>> /\ taking'[x] = Idle
    BY <1>8, <1>15 DEF RepliesInv
<1>26. AllFine(R, queue', taking', message_count'[R], Len(asked'), sequence_list'[R])
    BY <1>8, <1>13, <1>15, <1>20, <1>21
<1>27. ListRight(sequence_list'[R], message_count'[R], answers')
    BY <1>5, <1>8, <1>13, <1>15, <1>16
<1> QED
    BY <1>13, <1>15, <1>21, <1>22, <1>23, <1>24, <1>25, <1>26, <1>27 DEF RepliesInv

\* A reply that R waits for: its BCMP thread holds the message and the request.
LEMMA MatchKeeps ==
    ASSUME BcmpAssumption, NEW R, OnlyRequester(R), RepliesInv(R), queue[R] # <<>>,
           NEW i \in DOMAIN sequence_list[R],
           Head(queue[R]).type \in SequencedReply, sequence_list[R][i].seq = Head(queue[R]).seq,
           taking' = [taking EXCEPT ![R] = [busy |-> TRUE, msg |-> Head(queue[R]),
                                            elem |-> sequence_list[R][i]]],
           queue' = Rest(R),
           UNCHANGED <<message_count, sequence_list, store, rtc, asked, answers>>
    PROVE  RepliesInv(R)'
<1>1. R \in Node
    BY DEF OnlyRequester
<1>2. PICK m : m = Head(queue[R])
    OBVIOUS
<1>3. PICK l \in Seq(Elem) : l = sequence_list[R]
    BY <1>1 DEF RepliesInv, TypeInv
<1>4. PICK c, k : c = message_count[R] /\ k = Len(asked)
    OBVIOUS
<1>5. AllFine(R, queue, taking, c, k, l)
    BY <1>3, <1>4 DEF RepliesInv
<1>6. AllFine(R, queue', taking, c, k, l) /\ Fine(R, m, c, k, l)
    <2>1. /\ AllFine(R, [queue EXCEPT ![R] = Tail(@)], taking, c, k, l)
          /\ Fine(R, Head(queue[R]), c, k, l)
        BY <1>1, <1>5, RestFine
    <2> QED
        BY <1>2, <2>1 DEF Rest
<1>7. PICK u : u = [busy |-> TRUE, msg |-> m, elem |-> l[i]]
    OBVIOUS
<1>8. u \in Taking /\ u.busy = TRUE /\ u.msg = m /\ u.elem = l[i]
    <2>1. m \in Msg
        BY <1>6 DEF Fine
    <2>2. l[i] \in Elem
        BY <1>3
    <2> QED
        BY <1>7, <2>1, <2>2 DEF Taking
<1>9. /\ taking' \in [Node -> Taking] /\ taking'[R] = u
      /\ \A x \in Node \ {R} : taking'[x] = taking[x]
    <2>1. taking \in [Node -> Taking] /\ taking' = [taking EXCEPT ![R] = u]
        BY <1>2, <1>3, <1>7 DEF RepliesInv, TypeInv
    <2> QED
        BY <1>1, <1>8, <2>1
<1>10. AllFine(R, queue', taking', c, k, l)
    <2>1. \A x \in Node : taking'[x].busy => Fine(R, taking'[x].msg, c, k, l)
        <3>1. ASSUME NEW x \in Node, taking'[x].busy PROVE Fine(R, taking'[x].msg, c, k, l)
            <4>1. CASE x = R
                BY <1>6, <1>8, <1>9, <4>1
            <4>2. CASE x # R
                BY <1>6, <1>9, <3>1, <4>2 DEF AllFine
            <4> QED
                BY <4>1, <4>2
        <3> QED
            BY <3>1
    <2> QED
        BY <1>6, <2>1 DEF AllFine
<1>11. TakingRight(taking'[R], l)
    <2>1. i \in DOMAIN l /\ m.type \in SequencedReply /\ m.seq = l[i].seq
        BY <1>2, <1>3
    <2> QED
        BY <1>8, <1>9, <2>1 DEF TakingRight
<1>12. \A x \in Node \ {R} : sequence_list'[x] = <<>> /\ taking'[x] = Idle
    BY <1>9 DEF RepliesInv
<1>13. TypeInv'
    BY <1>9 DEF RepliesInv, TypeInv
<1> QED
    BY <1>3, <1>4, <1>10, <1>11, <1>12, <1>13 DEF RepliesInv

LEMMA ReceiveKeeps ==
    ASSUME BcmpAssumption, NEW R, OnlyRequester(R), MaxReq <= ReplySeqs, RepliesInv(R),
           NEW n \in Node, Receive(n)
    PROVE  RepliesInv(R)'
<1>1. queue[n] # <<>> /\ UNCHANGED <<asked, answers>>
    BY DEF Receive
<1>2. PICK m : m = Head(queue[n])
    OBVIOUS
<1>3. CASE m.type \in SequencedReply /\ Matches(n, m) # {}
    <2>1. PICK s : s = Matches(n, m)
        OBVIOUS
    <2>2. s \subseteq DOMAIN sequence_list[n] /\ s # {}
          /\ \A i \in s : sequence_list[n][i].seq = m.seq
        BY <1>3, <2>1 DEF Matches
    <2>3. n = R
        <3>1. CASE n # R
            <4>1. sequence_list[n] = <<>>
                BY <3>1 DEF RepliesInv
            <4> QED
                BY <2>2, <4>1
        <3> QED
            BY <3>1
    <2>4. PICK l \in Seq(Elem) : l = sequence_list[R]
        BY <2>3 DEF RepliesInv, TypeInv
    <2>5. PICK i : i = CHOOSE x \in s : \A y \in s : x <= y
        OBVIOUS
    <2>6. i \in s
        <3>1. \A x, y \in DOMAIN l : l[x].seq = l[y].seq => x = y
            BY <2>4, ListNumbersDiffer DEF RepliesInv
        <3>2. \A x \in s : x \in DOMAIN l /\ l[x].seq = m.seq /\ x \in Int
            BY <2>2, <2>3, <2>4
        <3>3. \A x, y \in s : x <= y
            BY <3>1, <3>2
        <3> QED
            BY <2>2, <2>5, <3>3
    <2>7. /\ taking' = [taking EXCEPT ![R] = [busy |-> TRUE, msg |-> m, elem |-> sequence_list[R][i]]]
          /\ queue' = Rest(R)
          /\ UNCHANGED <<message_count, sequence_list, store, rtc>>
        BY <1>2, <1>3, <2>1, <2>3, <2>5 DEF Receive
    <2>8. i \in DOMAIN sequence_list[R] /\ sequence_list[R][i].seq = m.seq
        BY <2>2, <2>3, <2>6
    <2> QED
        BY <1>1, <1>2, <1>3, <2>3, <2>7, <2>8, MatchKeeps
<1>4. CASE ~(m.type \in SequencedReply /\ Matches(n, m) # {})
    <2>1. Process(n, Head(queue[n]), Rest(n))
        BY <1>2, <1>4 DEF Receive
    <2> QED
        BY <1>1, <2>1, ProcessKeeps
<1> QED
    BY <1>3, <1>4

LEMMA RepliesStep ==
    ASSUME BcmpAssumption, NEW R, OnlyRequester(R), ~Preempt, MaxReq <= ReplySeqs,
           RepliesInv(R), [Next]_vars
    PROVE  RepliesInv(R)'
<1> DEFINE AnyAsk ==
    \E n \in Requester, t \in Request, target \in Target, v \in Value, cb \in BOOLEAN :
        \E recorded \in IF AddFails THEN BOOLEAN ELSE {TRUE},
           sent \in IF TxFails THEN BOOLEAN ELSE {TRUE} :
            /\ Packet(t).sequenced \/ ~cb
            /\ Ask(n, t, target, v, cb, recorded, sent)
<1> DEFINE AnyOther == \E n \in Node : Receive(n) \/ Take(n) \/ TakeTimesOut(n) \/ Timer(n)
<1>1. CASE AnyAsk
    <2>1. PICK n \in Requester, t \in Request, target \in Target, v \in Value, cb \in BOOLEAN :
            \E recorded \in IF AddFails THEN BOOLEAN ELSE {TRUE},
               sent \in IF TxFails THEN BOOLEAN ELSE {TRUE} :
                /\ Packet(t).sequenced \/ ~cb
                /\ Ask(n, t, target, v, cb, recorded, sent)
        BY <1>1, Zenon
    <2>2. PICK recorded \in IF AddFails THEN BOOLEAN ELSE {TRUE},
               sent \in IF TxFails THEN BOOLEAN ELSE {TRUE} :
                Ask(n, t, target, v, cb, recorded, sent)
        BY <2>1, Zenon
    <2>3. recorded \in BOOLEAN /\ sent \in BOOLEAN
        OBVIOUS
    <2> QED
        BY <2>2, <2>3, AskKeeps
<1>2. CASE AnyOther
    <2>1. PICK n \in Node : Receive(n) \/ Take(n) \/ TakeTimesOut(n) \/ Timer(n)
        BY <1>2
    <2> QED
        BY <2>1, ReceiveKeeps, TakeKeeps, TakeTimesOutKeeps, TimerKeeps
<1>3. CASE UNCHANGED vars
    BY <1>3 DEF vars, RepliesInv, TypeInv
<1>4. AnyAsk \/ AnyOther \/ UNCHANGED vars
    BY Zenon DEF Next
<1> QED
    BY <1>1, <1>2, <1>3, <1>4

LEMMA RepliesInvImplies ==
    ASSUME BcmpAssumption, NEW R, OnlyRequester(R), RepliesInv(R)
    PROVE  RepliesAreMine
<1>1. R \in Node /\ \A n \in Node \ {R} : sequence_list[n] = <<>> /\ taking[n] = Idle
    BY DEF RepliesInv, OnlyRequester
<1>2. PICK l \in Seq(Elem) : l = sequence_list[R]
    BY <1>1 DEF RepliesInv, TypeInv
<1>3. ListRight(l, message_count[R], answers)
    BY <1>2 DEF RepliesInv
<1>4. TypeOK
    <2>1. DOMAIN answers = DOMAIN asked
        BY DEF RepliesInv, TypeInv
    <2>2. ASSUME NEW n \in Node, NEW i \in DOMAIN sequence_list[n]
          PROVE  sequence_list[n][i].req \in DOMAIN asked
        <3>1. n = R
            BY <1>1, <2>2
        <3> QED
            BY <1>2, <1>3, <2>1, <2>2, <3>1 DEF ListRight
    <2>3. \A n \in Node : Len(queue[n]) <= QueueLen
        BY DEF RepliesInv, AllFine
    <2>4. \A n \in Node : taking[n].busy \in BOOLEAN
        <3>1. ASSUME NEW t \in Taking PROVE t.busy \in BOOLEAN
            <4>1. CASE t = Idle
                BY <4>1 DEF Idle
            <4>2. CASE t # Idle
                BY <4>2 DEF Taking
            <4> QED
                BY <4>1, <4>2
        <3> QED
            BY <3>1 DEF RepliesInv, TypeInv
    <2> QED
        BY <2>2, <2>3, <2>4 DEF RepliesInv, TypeInv, TypeOK
<1>5. NumbersDiffer
    <2>1. \A i, j \in DOMAIN l : l[i].seq = l[j].seq => i = j
        BY <1>3, ListNumbersDiffer
    <2> QED
        BY <1>1, <1>2, <2>1 DEF NumbersDiffer
<1>6. AnsweredOnce
    <2>1. ASSUME NEW r \in DOMAIN answers PROVE Len(answers[r]) <= 1
        <3>1. answers[r] \in {<<>>, <<r>>, <<Expired>>}
            BY DEF RepliesInv, AnswersRight
        <3>2. Len(<<>>) = 0 /\ Len(<<r>>) = 1 /\ Len(<<Expired>>) = 1
            OBVIOUS
        <3>3. Len(answers[r]) \in {0, 1}
            BY <3>1, <3>2, Zenon
        <3>4. \A z \in {0, 1} : z <= 1
            OBVIOUS
        <3> QED
            BY <3>3, <3>4, Zenon
    <2> QED
        BY <2>1 DEF AnsweredOnce
<1>7. AnswerIsMine
    <2>1. ASSUME NEW r \in DOMAIN answers PROVE Range(answers[r]) \subseteq {r, Expired}
        <3>1. answers[r] \in {<<>>, <<r>>, <<Expired>>}
            BY DEF RepliesInv, AnswersRight
        <3> QED
            BY <3>1 DEF Range
    <2> QED
        BY <2>1 DEF AnswerIsMine
<1> QED
    BY <1>4, <1>5, <1>6, <1>7 DEF RepliesAreMine

-----------------------------------------------------------------------------

\* Every callback that packet.c keeps in its list is called at most once, by
\* process_received_message or by sequence_list_timer_callback, and with the
\* reply to its own request or with NULL; no two requests wait under one
\* number.  So it is on any network, whatever is lost, queued or passed on,
\* when one node makes the requests (replies are told apart by their number
\* alone), is not restarted by a commit of its own, the timer does not run
\* between the two halves of process_received_message, and the numbers fit
\* the 16 bits in which config.c returns them.
THEOREM RepliesMine ==
    ASSUME BcmpAssumption, NEW R, OnlyRequester(R), ~Preempt, MaxReq <= ReplySeqs
    PROVE  Spec => []RepliesAreMine
<1>1. Init => RepliesInv(R)
    BY RepliesInit
<1>2. RepliesInv(R) /\ [Next]_vars => RepliesInv(R)'
    BY RepliesStep
<1>3. RepliesInv(R) => RepliesAreMine
    BY RepliesInvImplies
<1> QED
    BY <1>1, <1>2, <1>3, PTL DEF Spec

-----------------------------------------------------------------------------
(* Least counterexamples, and the sizes of the entries of a list *)

LEMMA LeastNumber ==
  ASSUME NEW K \in SUBSET Nat, K # {}
  PROVE  \E k \in K : \A j \in K : k <= j
  <1>1. PICK k \in K : \A j \in K : ~(<<j, k>> \in OpToRel(<, Nat))
    BY NatLessThanWellFounded, WFMin
  <1>2. ASSUME NEW j \in K PROVE k <= j
    <2>1. j \in Nat /\ k \in Nat
      OBVIOUS
    <2>2. j < k => <<j, k>> \in OpToRel(<, Nat)
      BY <2>1 DEF OpToRel
    <2>3. ~(j < k)
      BY <1>1, <2>2, Zenon
    <2> QED BY <2>1, <2>3
  <1> QED BY <1>2

\* The sums of the sizes of the first entries of a list.
IsSum(S, l) == S = [i \in 0..Len(l) |-> IF i = 0 THEN 0 ELSE S[i - 1] + Size[l[i]]]

SumOf(l) == LET S == CHOOSE S : IsSum(S, l) IN S[Len(l)]

LEMMA BytesIs ==
  ASSUME NEW k
  PROVE D!Bytes(k) = SumOf(LIST[k])
  BY DEF D!Bytes, SumOf, IsSum

LEMMA BytesAre ==
  ASSUME NEW k
  PROVE D!Bytes(k)' = SumOf(LIST'[k])
  BY DEF D!Bytes, SumOf, IsSum

LEMMA SumsExist ==
  ASSUME Size \in [Resource -> Nat \ {0}], NEW l \in Seq(Resource), NEW n \in Nat, n <= Len(l)
  PROVE  \E S \in [0..n -> Nat] : S[0] = 0 /\ \A i \in 1..n : S[i] = S[i - 1] + Size[l[i]]
  <1> DEFINE Has(m) == \E S \in [0..m -> Nat] :
                          S[0] = 0 /\ \A i \in 1..m : S[i] = S[i - 1] + Size[l[i]]
             Bad == {m \in Nat : m <= Len(l) /\ ~Has(m)}
  <1>1. SUFFICES ASSUME Bad # {} PROVE FALSE
    OBVIOUS
  <1>2. PICK m \in Bad : \A j \in Bad : m <= j
    <2>1. Bad \in SUBSET Nat
      OBVIOUS
    <2> QED BY <1>1, <2>1, LeastNumber
  <1>3. m # 0
    <2>1. Has(0)
      <3> DEFINE S == [i \in 0..0 |-> 0]
      <3>1. S \in [0..0 -> Nat] /\ S[0] = 0 /\ \A i \in 1..0 : S[i] = S[i - 1] + Size[l[i]]
        OBVIOUS
      <3> QED BY <3>1
    <2> QED BY <2>1
  <1>4. m - 1 \in Nat /\ m - 1 <= Len(l) /\ Has(m - 1)
    <2>1. m \in Nat /\ m <= Len(l) /\ Len(l) \in Nat
      BY <1>2
    <2>2. m - 1 \in Nat /\ m - 1 <= Len(l) /\ ~(m <= m - 1)
      BY <2>1, <1>3
    <2>3. m - 1 \notin Bad
      BY <1>2, <2>2
    <2> HIDE DEF Has
    <2> QED BY <2>2, <2>3
  <1>5. PICK S \in [0..(m - 1) -> Nat] :
            S[0] = 0 /\ \A i \in 1..(m - 1) : S[i] = S[i - 1] + Size[l[i]]
    BY <1>4
  <1> DEFINE U == [i \in 0..m |-> IF i = m THEN S[m - 1] + Size[l[m]] ELSE S[i]]
  <1>6. Size[l[m]] \in Nat
    BY <1>2, <1>3
  <1>7. U \in [0..m -> Nat]
    BY <1>3, <1>4, <1>6
  <1>8. U[0] = 0
    BY <1>3, <1>5
  <1>9. ASSUME NEW i \in 1..m PROVE U[i] = U[i - 1] + Size[l[i]]
    <2>1. CASE i = m
      BY <2>1, <1>3, <1>4
    <2>2. CASE i # m
      BY <2>2, <1>3, <1>4, <1>5
    <2> QED BY <2>1, <2>2
  <1>10. Has(m)
    BY <1>7, <1>8, <1>9
  <1> QED BY <1>2, <1>10

\* The sums are what their equations say.
LEMMA SumIs ==
  ASSUME Size \in [Resource -> Nat \ {0}], NEW l \in Seq(Resource), NEW U \in [0..Len(l) -> Nat],
         U[0] = 0, \A i \in 1..Len(l) : U[i] = U[i - 1] + Size[l[i]]
  PROVE  SumOf(l) = U[Len(l)]
  <1>1. Len(l) \in Nat
    OBVIOUS
  <1>2. IsSum(U, l)
    BY <1>1 DEF IsSum
  <1> DEFINE S == CHOOSE S : IsSum(S, l)
  <1>3. IsSum(S, l)
    BY <1>2
  <1> HIDE DEF S
  <1>4. S[0] = 0 /\ \A i \in 1..Len(l) : S[i] = S[i - 1] + Size[l[i]]
    <2>2. ASSUME NEW i \in 0..Len(l)
          PROVE  S[i] = IF i = 0 THEN 0 ELSE S[i - 1] + Size[l[i]]
      <3> DEFINE G == [j \in 0..Len(l) |-> IF j = 0 THEN 0 ELSE S[j - 1] + Size[l[j]]]
      <3>1. S = G
        BY <1>3 DEF IsSum
      <3>2. G[i] = IF i = 0 THEN 0 ELSE S[i - 1] + Size[l[i]]
        OBVIOUS
      <3> HIDE DEF G
      <3> QED BY <3>1, <3>2
    <2> QED BY <1>1, <2>2
  <1> DEFINE Bad == {i \in 0..Len(l) : S[i] # U[i]}
  <1>5. Bad = {}
    <2>1. SUFFICES ASSUME Bad # {} PROVE FALSE
      OBVIOUS
    <2>2. Bad \in SUBSET Nat
      OBVIOUS
    <2>3. PICK i \in Bad : \A j \in Bad : i <= j
      BY <2>1, <2>2, LeastNumber
    <2>4. i # 0
      BY <1>4
    <2>5. i - 1 \in 0..Len(l) /\ S[i - 1] = U[i - 1]
      BY <2>3, <2>4
    <2>6. S[i] = S[i - 1] + Size[l[i]] /\ U[i] = U[i - 1] + Size[l[i]]
      BY <2>3, <2>4, <1>4
    <2> QED BY <2>3, <2>5, <2>6
  <1>6. S[Len(l)] = U[Len(l)]
    BY <1>1, <1>5
  <1> QED BY <1>6 DEF SumOf, S

LEMMA SumsOfAll ==
  ASSUME Size \in [Resource -> Nat \ {0}], NEW l \in Seq(Resource)
  PROVE  \E U \in [0..Len(l) -> Nat] :
            U[0] = 0 /\ \A i \in 1..Len(l) : U[i] = U[i - 1] + Size[l[i]]
  <1> DEFINE n == Len(l)
  <1>1. n \in Nat /\ n <= Len(l)
    OBVIOUS
  <1> HIDE DEF n
  <1>2. \E U \in [0..n -> Nat] : U[0] = 0 /\ \A i \in 1..n : U[i] = U[i - 1] + Size[l[i]]
    BY <1>1, SumsExist
  <1> QED BY <1>2 DEF n

LEMMA SumIsNat ==
  ASSUME Size \in [Resource -> Nat \ {0}], NEW l \in Seq(Resource)
  PROVE  SumOf(l) \in Nat
  <1>1. PICK U \in [0..Len(l) -> Nat] :
            U[0] = 0 /\ \A i \in 1..Len(l) : U[i] = U[i - 1] + Size[l[i]]
    BY SumsOfAll
  <1>2. SumOf(l) = U[Len(l)] /\ Len(l) \in 0..Len(l)
    BY <1>1, SumIs
  <1> QED BY <1>2

\* An entry more is its size more.
LEMMA SumAppend ==
  ASSUME Size \in [Resource -> Nat \ {0}], NEW l \in Seq(Resource), NEW r \in Resource
  PROVE  SumOf(Append(l, r)) = SumOf(l) + Size[r]
  <1> DEFINE l2 == Append(l, r)
             n == Len(l)
  <1>1. /\ l2 \in Seq(Resource) /\ n \in Nat /\ Len(l2) = n + 1
        /\ l2[n + 1] = r /\ \A i \in 1..n : l2[i] = l[i]
    OBVIOUS
  <1> HIDE DEF l2
  <1>2. PICK U \in [0..Len(l2) -> Nat] :
            U[0] = 0 /\ \A i \in 1..Len(l2) : U[i] = U[i - 1] + Size[l2[i]]
    BY <1>1, SumsOfAll
  <1>3. SumOf(l2) = U[n + 1]
    BY <1>1, <1>2, SumIs
  <1>4. U[n + 1] = U[n] + Size[r]
    <2>1. n + 1 \in 1..Len(l2) /\ (n + 1) - 1 = n
      BY <1>1
    <2> QED BY <1>1, <1>2, <2>1
  <1> DEFINE V == [i \in 0..n |-> U[i]]
  <1>5. /\ V \in [0..n -> Nat] /\ V[0] = 0 /\ V[n] = U[n]
        /\ \A i \in 1..n : V[i] = V[i - 1] + Size[l[i]]
    BY <1>1, <1>2
  <1> HIDE DEF V
  <1>6. SumOf(l) = V[n]
    BY <1>5, SumIs
  <1> QED BY <1>3, <1>4, <1>5, <1>6 DEF l2

-----------------------------------------------------------------------------
(* Resources and pings *)

Jobs == [at : {"pub", "sub", "idle", "fillpub", "fillsub", "send"},
         len : Nat, offset : Nat, num : Nat, late : Nat]

\* What was counted and written so far of an answer, and what the lists, of bp
\* and bs bytes, still add to it.
JobRight(j, bp, bs) ==
    /\ j \in Jobs
    /\ j.at \in {"idle", "pub"} => j.len = 0 /\ j.offset = 0 /\ j.late = 0
    /\ j.at = "sub" => j.len + j.late = bp /\ j.offset = 0
    /\ j.at = "fillpub" => j.len + j.late = bp + bs /\ j.offset = 0
    /\ j.at = "fillsub" => j.len + j.late = j.offset + bs
    /\ j.at = "send" => j.len + j.late = j.offset

\* Every resource's name begins with its own only, and no two pingers have an
\* identifier in common.
NamesApart == \A r, s \in Resource : <<r, s>> \in StartsWith => r = s
IdsApart == \A m, n \in Pinger : Low[m] = Low[n] => m = n

\* What was refused is in its list.
ListsRight(lists, ref) ==
    /\ lists \in [{"pub", "sub"} -> Seq(Resource)]
    /\ ref \subseteq {"pub", "sub"} \X Resource
    /\ NamesApart => \A x \in ref : \E i \in DOMAIN lists[x[1]] : lists[x[1]][i] = x[2]

\* Requests that wait have different numbers and were not served.
AskedRight(list, now, n, s) ==
    /\ list \in Seq(1..MaxAsked) /\ now \in 0..MaxAsked /\ n \in 0..MaxAsked
    /\ s \in [1..MaxAsked -> Nat]
    /\ now <= n
    /\ \A i \in DOMAIN list : list[i] <= n /\ list[i] # now /\ s[list[i]] = 0
    /\ \A i, j \in DOMAIN list : list[i] = list[j] => i = j
    /\ \A r \in 1..MaxAsked : s[r] <= 1 /\ (r > n \/ r = now => s[r] = 0)

\* An echo carries the identifier of the node whose ping it answers.
EchoesRight(expected, es) ==
    /\ expected \in [Pinger -> Payload]
    /\ \A e \in es : e.of \in Pinger /\ e.id = Low[e.of]

ListsInv == ListsRight(LIST, refused) /\ JobRight(job, D!Bytes("pub"), D!Bytes("sub"))
AskedInv == AskedRight(RESOURCE_REQUEST_LIST, sending, resource_asked, served)
PingInv == EchoesRight(EXPECTED_PAYLOAD, echoes) /\ (IdsApart => ~wrong)

DiscoveryInv == ListsInv /\ AskedInv /\ PingInv

LEMMA BytesNat ==
  ASSUME D!DiscoveryAssumption, ListsRight(LIST, refused)
  PROVE  D!Bytes("pub") \in Nat /\ D!Bytes("sub") \in Nat
  BY BytesIs, SumIsNat DEF D!DiscoveryAssumption, ListsRight

LEMMA ListsInit ==
  ASSUME D!DiscoveryAssumption, D!Init
  PROVE  DiscoveryInv
  <1>1. ListsRight(LIST, refused)
    BY DEF D!Init, D!Kind, ListsRight
  <1>2. JobRight(job, D!Bytes("pub"), D!Bytes("sub"))
    BY DEF D!Init, D!Idle, JobRight, Jobs
  <1>3. AskedInv
    BY DEF D!Init, D!DiscoveryAssumption, AskedInv, AskedRight
  <1>4. PingInv
    BY DEF D!Init, D!DiscoveryAssumption, PingInv, EchoesRight
  <1> QED BY <1>1, <1>2, <1>3, <1>4 DEF DiscoveryInv, ListsInv

LEMMA ListsStay ==
  ASSUME ListsInv, UNCHANGED <<LIST, refused, job>>
  PROVE  ListsInv'
  BY DEF ListsInv, ListsRight, JobRight, Jobs, D!Bytes

LEMMA BothMore ==
  \A u, v, w, x, y \in Nat : u + v = w + x => u + (v + y) = w + (x + y)
  OBVIOUS

\* A resource is added while an answer is put together: by what b is its list
\* longer, and by as much the answer, when its list was counted and not written.
LEMMA JobLate ==
  ASSUME NEW j, NEW bp \in Nat, NEW bs \in Nat, JobRight(j, bp, bs), NEW b \in Nat
  PROVE  /\ j.at \in {"sub", "fillpub"} => JobRight([j EXCEPT !.late = @ + b], bp + b, bs)
         /\ j.at \notin {"sub", "fillpub"} => JobRight(j, bp + b, bs)
         /\ j.at \in {"fillpub", "fillsub"} => JobRight([j EXCEPT !.late = @ + b], bp, bs + b)
         /\ j.at \notin {"fillpub", "fillsub"} => JobRight(j, bp, bs + b)
  <1> DEFINE j2 == [j EXCEPT !.late = @ + b]
  <1>1. j \in Jobs /\ j.len \in Nat /\ j.offset \in Nat /\ j.late \in Nat
    BY DEF JobRight, Jobs
  <1>2. /\ j2 \in Jobs /\ j2.at = j.at /\ j2.len = j.len /\ j2.offset = j.offset
        /\ j2.late = j.late + b
    BY <1>1 DEF Jobs
  <1> HIDE DEF j2
  <1>3. ASSUME j.at \in {"sub", "fillpub"} PROVE JobRight(j2, bp + b, bs)
    BY <1>1, <1>2, <1>3 DEF JobRight
  <1>4. ASSUME j.at \notin {"sub", "fillpub"} PROVE JobRight(j, bp + b, bs)
    BY <1>1, <1>4 DEF JobRight
  <1>5. ASSUME j.at \in {"fillpub", "fillsub"} PROVE JobRight(j2, bp, bs + b)
    <2>1. CASE j.at = "fillpub"
      <3>1. j.len + j.late = bp + bs /\ j.offset = 0
        BY <2>1 DEF JobRight
      <3>2. j.len + (j.late + b) = bp + (bs + b)
        BY <1>1, <3>1
      <3> QED BY <1>2, <2>1, <3>1, <3>2 DEF JobRight
    <2>2. CASE j.at = "fillsub"
      <3>1. j.len + j.late = j.offset + bs
        BY <2>2 DEF JobRight
      <3>2. j.len + (j.late + b) = j.offset + (bs + b)
        BY ONLY <1>1, <3>1, bs \in Nat, b \in Nat, BothMore
      <3>3. j2 \in Jobs /\ j2.at = "fillsub" /\ j2.len + j2.late = j2.offset + (bs + b)
        BY <1>2, <2>2, <3>2
      <3> QED BY ONLY <3>3 DEF JobRight
    <2> QED BY <1>5, <2>1, <2>2
  <1>6. ASSUME j.at \notin {"fillpub", "fillsub"} PROVE JobRight(j, bp, bs + b)
    BY <1>1, <1>6 DEF JobRight
  <1> QED BY <1>3, <1>4, <1>5, <1>6 DEF j2

LEMMA ListsAdd ==
  ASSUME D!DiscoveryAssumption, ListsInv, NEW k \in D!Kind, NEW r \in Resource,
         D!AddResource(k, r)
  PROVE  ListsInv'
  <1>0. k \in {"pub", "sub"}
    BY DEF D!Kind
  <1>1. CASE D!Found(k, r)
    <2>1. LIST' = LIST /\ refused' = refused \cup {<<k, r>>} /\ job' = job
      BY <1>1 DEF D!AddResource
    <2>2. ASSUME NamesApart
          PROVE  \A x \in refused' : \E i \in DOMAIN LIST[x[1]] : LIST[x[1]][i] = x[2]
      <3>1. PICK i \in DOMAIN LIST[k] : <<r, LIST[k][i]>> \in StartsWith
        BY <1>1 DEF D!Found
      <3>2. LIST[k][i] = r
        BY <1>0, <2>2, <3>1 DEF NamesApart, ListsInv, ListsRight
      <3> QED BY <1>0, <2>1, <2>2, <3>1, <3>2 DEF ListsInv, ListsRight
    <2>3. ListsRight(LIST', refused')
      BY <1>0, <2>1, <2>2 DEF ListsInv, ListsRight
    <2>4. D!Bytes("pub")' = D!Bytes("pub") /\ D!Bytes("sub")' = D!Bytes("sub")
      BY <2>1 DEF D!Bytes
    <2> QED BY <2>1, <2>3, <2>4 DEF ListsInv
  <1>2. CASE ~D!Found(k, r)
    <2>1. /\ refused' = refused /\ LIST' = [LIST EXCEPT ![k] = Append(@, r)]
          /\ job' = IF D!Sized(k) THEN [job EXCEPT !.late = @ + Size[r]] ELSE job
      BY <1>2 DEF D!AddResource
    <2>2. LIST' \in [{"pub", "sub"} -> Seq(Resource)]
      BY <1>0, <2>1 DEF ListsInv, ListsRight
    <2>3. ASSUME NamesApart, NEW x \in refused'
          PROVE  \E i \in DOMAIN LIST'[x[1]] : LIST'[x[1]][i] = x[2]
      <3>1. x \in refused /\ x[1] \in {"pub", "sub"}
        BY <2>1, <2>3 DEF ListsInv, ListsRight
      <3>2. PICK i \in DOMAIN LIST[x[1]] : LIST[x[1]][i] = x[2]
        BY <2>3, <3>1 DEF ListsInv, ListsRight
      <3>3. LIST[x[1]] \in Seq(Resource)
        BY <3>1 DEF ListsInv, ListsRight
      <3>4. CASE x[1] = k
        <4>1. LIST'[x[1]] = Append(LIST[x[1]], r)
          BY <1>0, <3>4, <2>1 DEF ListsInv, ListsRight
        <4>2. i \in DOMAIN Append(LIST[x[1]], r) /\ Append(LIST[x[1]], r)[i] = LIST[x[1]][i]
          BY <3>2, <3>3
        <4> QED BY <3>2, <4>1, <4>2
      <3>5. CASE x[1] # k
        BY <3>5, <3>1, <3>2, <2>1 DEF ListsInv, ListsRight
      <3> QED BY <3>4, <3>5
    <2>4. ListsRight(LIST', refused')
      BY <2>1, <2>2, <2>3 DEF ListsInv, ListsRight
    <2>5. D!Bytes("pub") \in Nat /\ D!Bytes("sub") \in Nat /\ Size[r] \in Nat
      BY BytesNat DEF ListsInv, D!DiscoveryAssumption
    <2>6. \A q \in {"pub", "sub"} : D!Bytes(q) = SumOf(LIST[q]) /\ D!Bytes(q)' = SumOf(LIST'[q])
      BY BytesIs, BytesAre
    <2>7. SumOf(Append(LIST[k], r)) = SumOf(LIST[k]) + Size[r]
      BY <1>0, SumAppend DEF ListsInv, ListsRight, D!DiscoveryAssumption
    <2>8. CASE k = "pub"
      <3>1. LIST'["pub"] = Append(LIST["pub"], r) /\ LIST'["sub"] = LIST["sub"]
        BY <2>1, <2>8 DEF ListsInv, ListsRight
      <3>2. D!Bytes("pub")' = D!Bytes("pub") + Size[r] /\ D!Bytes("sub")' = D!Bytes("sub")
        BY <2>6, <2>7, <2>8, <3>1
      <3>3. JobRight(job', D!Bytes("pub") + Size[r], D!Bytes("sub"))
        BY <2>1, <2>5, <2>8, JobLate DEF ListsInv, D!Sized
      <3> QED BY <2>4, <3>2, <3>3 DEF ListsInv
    <2>9. CASE k = "sub"
      <3>1. LIST'["sub"] = Append(LIST["sub"], r) /\ LIST'["pub"] = LIST["pub"]
        BY <2>1, <2>9 DEF ListsInv, ListsRight
      <3>2. D!Bytes("sub")' = D!Bytes("sub") + Size[r] /\ D!Bytes("pub")' = D!Bytes("pub")
        BY <2>6, <2>7, <2>9, <3>1
      <3>3. JobRight(job', D!Bytes("pub"), D!Bytes("sub") + Size[r])
        BY <2>1, <2>5, <2>9, JobLate DEF ListsInv, D!Sized
      <3> QED BY <2>4, <3>2, <3>3 DEF ListsInv
    <2> QED BY <1>0, <2>8, <2>9
  <1> QED BY <1>1, <1>2

LEMMA AskedFacts ==
  ASSUME NEW l, NEW now, NEW n, NEW s, AskedRight(l, now, n, s)
  PROVE  /\ Len(l) \in Nat /\ DOMAIN l = 1..Len(l)
         /\ \A i \in 1..Len(l) : l[i] \in 1..MaxAsked
         /\ \A i \in 1..Len(l) : l[i] <= n /\ l[i] # now /\ s[l[i]] = 0
         /\ \A i, j \in 1..Len(l) : l[i] = l[j] => i = j
  <1>1. l \in Seq(1..MaxAsked)
    BY DEF AskedRight
  <1>2. Len(l) \in Nat /\ DOMAIN l = 1..Len(l)
    BY <1>1
  <1>3. \A i \in 1..Len(l) : l[i] \in 1..MaxAsked
    <2> DEFINE Number == 1..MaxAsked
    <2>1. l \in Seq(Number)
      BY <1>1
    <2> HIDE DEF Number
    <2>2. \A i \in 1..Len(l) : l[i] \in Number
      BY <2>1
    <2> QED BY <2>2 DEF Number
  <1>4. /\ \A i \in DOMAIN l : l[i] <= n /\ l[i] # now /\ s[l[i]] = 0
        /\ \A i, j \in DOMAIN l : l[i] = l[j] => i = j
    BY DEF AskedRight
  <1>5. ASSUME NEW D0, D0 = DOMAIN l
        PROVE  /\ \A i \in D0 : l[i] <= n /\ l[i] # now /\ s[l[i]] = 0
               /\ \A i, j \in D0 : l[i] = l[j] => i = j
    BY ONLY <1>4, <1>5, Zenon
  <1> QED BY <1>2, <1>3, <1>5

LEMMA AskedMade ==
  ASSUME MaxAsked \in Nat, NEW l, NEW n, NEW s, AskedRight(l, 0, n, s), n < MaxAsked,
         NEW now \in {0, n + 1}
  PROVE  AskedRight(l, now, n + 1, s)
  <1>1. /\ l \in Seq(1..MaxAsked) /\ n \in 0..MaxAsked /\ s \in [1..MaxAsked -> Nat]
        /\ \A r \in 1..MaxAsked : s[r] <= 1 /\ (r > n => s[r] = 0)
    BY DEF AskedRight
  <1>2. now \in 0..MaxAsked /\ n + 1 \in 0..MaxAsked /\ now <= n + 1
    BY <1>1
  <1>3. /\ DOMAIN l = 1..Len(l) /\ \A i \in 1..Len(l) : l[i] \in 1..MaxAsked
        /\ \A i \in 1..Len(l) : l[i] <= n /\ s[l[i]] = 0
        /\ \A i, j \in 1..Len(l) : l[i] = l[j] => i = j
    BY AskedFacts
  <1>4. ASSUME NEW i \in DOMAIN l PROVE l[i] <= n + 1 /\ l[i] # now /\ s[l[i]] = 0
    <2>1. l[i] \in 1..MaxAsked /\ l[i] <= n /\ s[l[i]] = 0
      BY <1>3
    <2>2. l[i] <= n + 1 /\ l[i] # 0 /\ l[i] # n + 1
      BY <1>1, <2>1
    <2> QED BY <2>1, <2>2
  <1>5. ASSUME NEW r \in 1..MaxAsked PROVE r > n + 1 \/ r = now => s[r] = 0
    <2>1. r > n + 1 \/ r = now => r > n
      BY <1>1
    <2> QED BY <1>1, <2>1
  <1>6. \A i, j \in DOMAIN l : l[i] = l[j] => i = j
    BY DEF AskedRight
  <1> QED BY <1>1, <1>2, <1>4, <1>5, <1>6 DEF AskedRight

LEMMA AskedListed ==
  ASSUME MaxAsked \in Nat, NEW l, NEW now, NEW n, NEW s, AskedRight(l, now, n, s), now > 0
  PROVE  AskedRight(Append(l, now), 0, n, s)
  <1> DEFINE l2 == Append(l, now)
             m == Len(l)
  <1>1. /\ l \in Seq(1..MaxAsked) /\ now \in 1..MaxAsked /\ n \in 0..MaxAsked /\ now <= n
        /\ s \in [1..MaxAsked -> Nat] /\ s[now] = 0
    BY DEF AskedRight
  <1>2. /\ m \in Nat /\ DOMAIN l = 1..m
        /\ \A i \in 1..m : l[i] \in 1..MaxAsked
        /\ \A i \in 1..m : l[i] <= n /\ l[i] # now /\ s[l[i]] = 0
        /\ \A i, j \in 1..m : l[i] = l[j] => i = j
    BY AskedFacts
  <1>3. /\ l2 \in Seq(1..MaxAsked) /\ DOMAIN l2 = 1..(m + 1)
        /\ l2[m + 1] = now /\ \A i \in 1..m : l2[i] = l[i]
    BY <1>1
  <1> HIDE DEF l2, m
  <1>4. \A i \in DOMAIN l2 : i = m + 1 \/ i \in 1..m
    BY <1>2, <1>3
  <1>5. ASSUME NEW i \in DOMAIN l2 PROVE l2[i] <= n /\ l2[i] # 0 /\ s[l2[i]] = 0
    <2>1. CASE i = m + 1
      BY <2>1, <1>1, <1>3
    <2>2. CASE i \in 1..m
      BY <2>2, <1>2, <1>3
    <2> QED BY <2>1, <2>2, <1>4
  <1>6. ASSUME NEW i \in DOMAIN l2, NEW j \in DOMAIN l2, l2[i] = l2[j] PROVE i = j
    <2>1. CASE i = m + 1 /\ j = m + 1
      BY <2>1
    <2>2. CASE i \in 1..m /\ j \in 1..m
      BY <2>2, <1>2, <1>3, <1>6
    <2>3. CASE i = m + 1 /\ j \in 1..m
      BY <2>3, <1>2, <1>3, <1>6
    <2>4. CASE i \in 1..m /\ j = m + 1
      BY <2>4, <1>2, <1>3, <1>6
    <2> QED BY <2>1, <2>2, <2>3, <2>4, <1>4
  <1>7. \A r \in 1..MaxAsked : s[r] <= 1 /\ (r > n \/ r = 0 => s[r] = 0)
    BY DEF AskedRight
  <1>8. 0 \in 0..MaxAsked /\ 0 <= n
    BY <1>1
  <1>9. AskedRight(l2, 0, n, s)
    BY <1>1, <1>3, <1>5, <1>6, <1>7, <1>8 DEF AskedRight
  <1> QED BY <1>9 DEF l2

LEMMA AskedServed ==
  ASSUME MaxAsked \in Nat, NEW l, NEW now, NEW n, NEW s, AskedRight(l, now, n, s), l # <<>>
  PROVE  AskedRight(Tail(l), now, n, [s EXCEPT ![Head(l)] = @ + 1])
  <1> DEFINE h == Head(l)
             t == Tail(l)
             m == Len(l)
             s2 == [s EXCEPT ![h] = @ + 1]
  <1>1. /\ l \in Seq(1..MaxAsked) /\ now \in 0..MaxAsked /\ n \in 0..MaxAsked /\ now <= n
        /\ s \in [1..MaxAsked -> Nat]
    BY DEF AskedRight
  <1>0. m > 0
    BY <1>1
  <1>2. /\ m \in Nat /\ m > 0 /\ DOMAIN l = 1..m
        /\ \A i \in 1..m : l[i] \in 1..MaxAsked
        /\ \A i \in 1..m : l[i] <= n /\ l[i] # now /\ s[l[i]] = 0
        /\ \A i, j \in 1..m : l[i] = l[j] => i = j
    BY <1>0, AskedFacts
  <1>3. /\ t \in Seq(1..MaxAsked) /\ DOMAIN t = 1..(m - 1) /\ h = l[1]
        /\ \A i \in 1..(m - 1) : t[i] = l[i + 1]
    BY <1>1
  <1> HIDE DEF h, t, m
  <1>4. h \in 1..MaxAsked /\ h <= n /\ h # now /\ s[h] = 0
    BY <1>2, <1>3
  <1>5. /\ s2 \in [1..MaxAsked -> Nat] /\ s2[h] = 1
        /\ \A r \in 1..MaxAsked : r # h => s2[r] = s[r]
    BY <1>1, <1>4
  <1> HIDE DEF s2
  <1>6. \A r \in 1..MaxAsked : s[r] <= 1 /\ (r > n \/ r = now => s[r] = 0)
    BY DEF AskedRight
  <1>7. ASSUME NEW r \in 1..MaxAsked PROVE s2[r] <= 1 /\ (r > n \/ r = now => s2[r] = 0)
    <2>1. CASE r = h
      <3>1. ~(r > n)
        BY <2>1, <1>1, <1>4
      <3> QED BY <3>1, <2>1, <1>4, <1>5
    <2>2. CASE r # h
      BY <2>2, <1>5, <1>6
    <2> QED BY <2>1, <2>2
  <1>8. ASSUME NEW i \in DOMAIN t PROVE t[i] <= n /\ t[i] # now /\ s2[t[i]] = 0
    <2>1. i + 1 \in 1..m /\ 1 \in 1..m /\ i + 1 # 1 /\ t[i] = l[i + 1]
      BY <1>2, <1>3, SMTT(60)
    <2>2. t[i] # h
      BY <2>1, <1>2, <1>3
    <2>3. t[i] \in 1..MaxAsked /\ t[i] <= n /\ t[i] # now /\ s[t[i]] = 0
      BY <2>1, <1>2
    <2> QED BY <2>2, <2>3, <1>5
  <1>9. ASSUME NEW i \in DOMAIN t, NEW j \in DOMAIN t, t[i] = t[j] PROVE i = j
    <2>1. /\ i \in Nat /\ j \in Nat /\ i + 1 \in 1..m /\ j + 1 \in 1..m
          /\ l[i + 1] = l[j + 1]
      <3>1. i \in 1..(m - 1) /\ j \in 1..(m - 1)
        BY <1>3
      <3>2. i + 1 \in 1..m /\ j + 1 \in 1..m /\ i \in Nat /\ j \in Nat
        BY <1>2, <3>1
      <3>3. l[i + 1] = l[j + 1]
        BY <1>3, <1>9, <3>1
      <3> QED BY <3>2, <3>3
    <2>2. i + 1 = j + 1
      BY <2>1, <1>2
    <2> QED BY <2>1, <2>2
  <1>10. AskedRight(t, now, n, s2)
    BY <1>1, <1>3, <1>5, <1>7, <1>8, <1>9 DEF AskedRight
  <1> QED BY <1>10 DEF s2, t, h

\* The four steps of an answer: j2 is the job after the step.
LEMMA JobFilled ==
  ASSUME NEW j, NEW bp \in Nat, NEW bs \in Nat, JobRight(j, bp, bs), NEW n \in Nat
  PROVE  /\ j.at = "pub" => JobRight([j EXCEPT !.len = @ + bp, !.at = "sub"], bp, bs)
         /\ j.at = "sub" => JobRight([j EXCEPT !.len = @ + bs, !.at = "fillpub"], bp, bs)
         /\ j.at = "fillpub" =>
               JobRight([j EXCEPT !.offset = @ + bp, !.num = @ + n, !.at = "fillsub"], bp, bs)
         /\ j.at = "fillsub" =>
               JobRight([j EXCEPT !.offset = @ + bs, !.num = @ + n, !.at = "send"], bp, bs)
  <1> DEFINE Ats == {"pub", "sub", "idle", "fillpub", "fillsub", "send"}
             Fields == [at : Ats, len : Nat, offset : Nat, num : Nat, late : Nat]
  <1>1. /\ j \in Fields /\ Jobs = Fields
        /\ j.len \in Nat /\ j.offset \in Nat /\ j.num \in Nat /\ j.late \in Nat
        /\ j.at = "pub" => j.len = 0 /\ j.offset = 0 /\ j.late = 0
        /\ j.at = "sub" => j.len + j.late = bp /\ j.offset = 0
        /\ j.at = "fillpub" => j.len + j.late = bp + bs /\ j.offset = 0
        /\ j.at = "fillsub" => j.len + j.late = j.offset + bs
    BY DEF JobRight, Jobs
  <1>2. ASSUME j.at = "pub"
        PROVE  JobRight([j EXCEPT !.len = @ + bp, !.at = "sub"], bp, bs)
    <2> DEFINE j2 == [j EXCEPT !.len = @ + bp, !.at = "sub"]
    <2>1. j.len + bp \in Nat /\ "sub" \in Ats
      BY <1>1
    <2>2. /\ j2 \in Fields /\ j2.late = j.late
          /\ j2.at = "sub" /\ j2.len = j.len + bp /\ j2.offset = j.offset
      <3> HIDE DEF Ats
      <3> QED BY <1>1, <2>1
    <2> HIDE DEF j2
    <2>3. JobRight(j2, bp, bs)
      BY <1>1, <1>2, <2>2 DEF JobRight
    <2> QED BY <2>3 DEF j2
  <1>3. ASSUME j.at = "sub"
        PROVE  JobRight([j EXCEPT !.len = @ + bs, !.at = "fillpub"], bp, bs)
    <2> DEFINE j2 == [j EXCEPT !.len = @ + bs, !.at = "fillpub"]
    <2>1. j.len + bs \in Nat /\ "fillpub" \in Ats
      BY <1>1
    <2>2. /\ j2 \in Fields /\ j2.late = j.late
          /\ j2.at = "fillpub" /\ j2.len = j.len + bs /\ j2.offset = j.offset
      <3> HIDE DEF Ats
      <3> QED BY <1>1, <2>1
    <2> HIDE DEF j2
    <2>3. JobRight(j2, bp, bs)
      BY <1>1, <1>3, <2>2 DEF JobRight
    <2> QED BY <2>3 DEF j2
  <1>4. ASSUME j.at = "fillpub"
        PROVE  JobRight([j EXCEPT !.offset = @ + bp, !.num = @ + n, !.at = "fillsub"], bp, bs)
    <2> DEFINE j2 == [j EXCEPT !.offset = @ + bp, !.num = @ + n, !.at = "fillsub"]
    <2>1. j.offset + bp \in Nat /\ j.num + n \in Nat /\ "fillsub" \in Ats
      BY <1>1
    <2>2. /\ j2 \in Fields /\ j2.late = j.late
          /\ j2.at = "fillsub" /\ j2.len = j.len /\ j2.offset = j.offset + bp
      <3> HIDE DEF Ats
      <3> QED BY <1>1, <2>1
    <2> HIDE DEF j2
    <2>3. JobRight(j2, bp, bs)
      BY <1>1, <1>4, <2>2 DEF JobRight
    <2> QED BY <2>3 DEF j2
  <1>5. ASSUME j.at = "fillsub"
        PROVE  JobRight([j EXCEPT !.offset = @ + bs, !.num = @ + n, !.at = "send"], bp, bs)
    <2> DEFINE j2 == [j EXCEPT !.offset = @ + bs, !.num = @ + n, !.at = "send"]
    <2>1. j.offset + bs \in Nat /\ j.num + n \in Nat /\ "send" \in Ats
      BY <1>1
    <2>2. /\ j2 \in Fields /\ j2.late = j.late
          /\ j2.at = "send" /\ j2.len = j.len /\ j2.offset = j.offset + bs
      <3> HIDE DEF Ats
      <3> QED BY <1>1, <2>1
    <2> HIDE DEF j2
    <2>3. JobRight(j2, bp, bs)
      BY <1>1, <1>5, <2>2 DEF JobRight
    <2> QED BY <2>3 DEF j2
  <1> QED BY <1>2, <1>3, <1>4, <1>5

\* The answer is put together: the step leaves the lists alone.
LEMMA JobMoves ==
  ASSUME D!DiscoveryAssumption, ListsInv, UNCHANGED <<LIST, refused>>,
         \/ D!TakeRequest
         \/ D!PutTogether
         \/ \E sent \in BOOLEAN : D!SendAnswer(sent)
  PROVE  ListsInv'
  <1> DEFINE bp == D!Bytes("pub")
             bs == D!Bytes("sub")
  <1>1. bp' = bp /\ bs' = bs
    BY DEF D!Bytes
  <1>2. bp \in Nat /\ bs \in Nat
    BY BytesNat DEF ListsInv
  <1>3. Len(LIST["pub"]) \in Nat /\ Len(LIST["sub"]) \in Nat
    BY DEF ListsInv, ListsRight
  <1>4. JobRight(job, bp, bs)
    BY DEF ListsInv
  <1>5. ListsRight(LIST', refused')
    BY DEF ListsInv, ListsRight
  <1> HIDE DEF bp, bs
  <1>6. JobRight(job', bp, bs)
    <2>1. CASE D!TakeRequest
      BY <2>1 DEF D!TakeRequest, D!Idle, JobRight, Jobs
    <2>2. CASE \E sent \in BOOLEAN : D!SendAnswer(sent)
      BY <2>2 DEF D!SendAnswer, D!Idle, JobRight, Jobs
    <2>3. CASE job.at = "pub" /\ D!ComputeSize("pub")
      <3>1. job' = [job EXCEPT !.len = @ + bp, !.at = "sub"]
        BY <2>3 DEF D!ComputeSize, bp
      <3> QED BY <2>3, <3>1, <1>2, <1>4, JobFilled
    <2>4. CASE job.at = "sub" /\ D!ComputeSize("sub")
      <3>1. job' = [job EXCEPT !.len = @ + bs, !.at = "fillpub"]
        BY <2>4 DEF D!ComputeSize, bs
      <3> QED BY <2>4, <3>1, <1>2, <1>4, JobFilled
    <2>5. CASE job.at = "fillpub" /\ D!Populate("pub")
      <3> DEFINE n == Len(LIST["pub"])
      <3>1. job' = [job EXCEPT !.offset = @ + bp, !.num = @ + n, !.at = "fillsub"]
        BY <2>5 DEF D!Populate, bp
      <3>2. n \in Nat
        BY <1>3
      <3> HIDE DEF n
      <3> QED BY <2>5, <3>1, <3>2, <1>2, <1>4, JobFilled
    <2>6. CASE job.at = "fillsub" /\ D!Populate("sub")
      <3> DEFINE n == Len(LIST["sub"])
      <3>1. job' = [job EXCEPT !.offset = @ + bs, !.num = @ + n, !.at = "send"]
        BY <2>6 DEF D!Populate, bs
      <3>2. n \in Nat
        BY <1>3
      <3> HIDE DEF n
      <3> QED BY <2>6, <3>1, <3>2, <1>2, <1>4, JobFilled
    <2>7. CASE D!PutTogether
      BY <2>7, <2>3, <2>4, <2>5, <2>6 DEF D!PutTogether, D!Kind
    <2> QED BY <2>1, <2>2, <2>7
  <1> QED BY <1>1, <1>5, <1>6 DEF ListsInv, bp, bs

LEMMA ListsStep ==
  ASSUME D!DiscoveryAssumption, ListsInv, [D!Next]_D!vars
  PROVE  ListsInv'
  <1>1. CASE UNCHANGED D!vars
    BY <1>1, ListsStay DEF D!vars, D!tables
  <1>2. CASE \E k \in D!Kind, r \in Resource : D!AddResource(k, r)
    BY <1>2, ListsAdd
  <1>3. CASE D!TakeRequest
    BY <1>3, JobMoves DEF D!TakeRequest, D!tables
  <1>4. CASE D!PutTogether
    BY <1>4, JobMoves DEF D!PutTogether, D!tables
  <1>5. CASE \E sent \in BOOLEAN : D!SendAnswer(sent)
    BY <1>5, JobMoves DEF D!SendAnswer, D!tables
  <1>6. CASE D!Asked
    BY <1>6, ListsStay DEF D!Asked, D!tables
  <1>7. CASE D!AnswerArrives
    BY <1>7, ListsStay DEF D!AnswerArrives, D!tables
  <1>8. CASE \E sent \in BOOLEAN : D!Ask(sent)
    BY <1>8, ListsStay DEF D!Ask, D!tables
  <1>9. CASE \E n \in Pinger, p \in Payload : D!Ping(n, p)
    BY <1>9, ListsStay DEF D!Ping, D!tables
  <1>10. CASE \E e \in echoes : D!Echo(e)
    BY <1>10, ListsStay DEF D!Echo, D!tables
  <1> QED BY <1>1, <1>2, <1>3, <1>4, <1>5, <1>6, <1>7, <1>8, <1>9, <1>10 DEF D!Next

LEMMA AskedStep ==
  ASSUME D!DiscoveryAssumption, AskedInv, [D!Next]_D!vars
  PROVE  AskedInv'
  <1>0. MaxAsked \in Nat /\ AskedRight(RESOURCE_REQUEST_LIST, sending, resource_asked, served)
    BY DEF AskedInv, D!DiscoveryAssumption
  <1>1. CASE UNCHANGED <<RESOURCE_REQUEST_LIST, sending, resource_asked, served>>
    BY <1>1 DEF AskedInv
  <1>2. CASE \E sent \in BOOLEAN : D!Ask(sent)
    <2>1. /\ RESOURCE_REQUEST_LIST' = RESOURCE_REQUEST_LIST /\ served' = served
          /\ resource_asked' = resource_asked + 1 /\ resource_asked < MaxAsked /\ sending = 0
          /\ sending' \in {0, resource_asked + 1}
      BY <1>2 DEF D!Ask
    <2> QED BY <2>1, <1>0, AskedMade DEF AskedInv
  <1>3. CASE D!Asked
    <2>1. /\ RESOURCE_REQUEST_LIST' = Append(RESOURCE_REQUEST_LIST, sending) /\ sending' = 0
          /\ sending > 0 /\ resource_asked' = resource_asked /\ served' = served
      BY <1>3 DEF D!Asked
    <2> QED BY <2>1, <1>0, AskedListed DEF AskedInv
  <1>4. CASE D!AnswerArrives
    <2>1. CASE RESOURCE_REQUEST_LIST = <<>>
      BY <2>1, <1>1, <1>4 DEF D!AnswerArrives
    <2>2. CASE RESOURCE_REQUEST_LIST # <<>>
      <3>1. /\ RESOURCE_REQUEST_LIST' = Tail(RESOURCE_REQUEST_LIST)
            /\ served' = [served EXCEPT ![Head(RESOURCE_REQUEST_LIST)] = @ + 1]
            /\ sending' = sending /\ resource_asked' = resource_asked
        BY <1>4, <2>2 DEF D!AnswerArrives
      <3> QED BY <2>2, <3>1, <1>0, AskedServed DEF AskedInv
    <2> QED BY <2>1, <2>2
  <1>5. CASE UNCHANGED D!vars
    BY <1>5, <1>1 DEF D!vars, D!asking
  <1>6. CASE \E k \in D!Kind, r \in Resource : D!AddResource(k, r)
    BY <1>6, <1>1 DEF D!AddResource, D!asking
  <1>7. CASE D!TakeRequest
    BY <1>7, <1>1 DEF D!TakeRequest
  <1>8. CASE D!PutTogether
    BY <1>8, <1>1 DEF D!PutTogether, D!asking
  <1>9. CASE \E sent \in BOOLEAN : D!SendAnswer(sent)
    BY <1>9, <1>1 DEF D!SendAnswer
  <1>10. CASE \E n \in Pinger, p \in Payload : D!Ping(n, p)
    BY <1>10, <1>1 DEF D!Ping, D!asking
  <1>11. CASE \E e \in echoes : D!Echo(e)
    BY <1>11, <1>1 DEF D!Echo, D!asking
  <1> QED BY <1>2, <1>3, <1>4, <1>5, <1>6, <1>7, <1>8, <1>9, <1>10, <1>11 DEF D!Next

LEMMA PingStep ==
  ASSUME D!DiscoveryAssumption, PingInv, [D!Next]_D!vars
  PROVE  PingInv'
  <1>1. CASE UNCHANGED <<EXPECTED_PAYLOAD, echoes, wrong>>
    BY <1>1 DEF PingInv, EchoesRight
  <1>2. CASE \E n \in Pinger, p \in Payload : D!Ping(n, p)
    <2>1. PICK n \in Pinger, p \in Payload : D!Ping(n, p)
      BY <1>2
    <2> DEFINE e0 == [id |-> Low[n], payload |-> p, of |-> n]
    <2>2. e0.of = n /\ e0.id = Low[n]
      OBVIOUS
    <2>3. echoes' = echoes \cup {e0} /\ wrong' = wrong
          /\ EXPECTED_PAYLOAD' = [EXPECTED_PAYLOAD EXCEPT ![n] = p]
      BY <2>1 DEF D!Ping
    <2> HIDE DEF e0
    <2> QED BY <2>2, <2>3 DEF PingInv, EchoesRight
  <1>3. CASE \E e \in echoes : D!Echo(e)
    <2>1. PICK e \in echoes : D!Echo(e)
      BY <1>3
    <2>2. e.of \in Pinger /\ e.id = Low[e.of]
      BY DEF PingInv, EchoesRight
    <2>3. IdsApart => ~\E n \in Pinger : n # e.of /\ D!Accepts(n, e)
      BY <2>2 DEF IdsApart, D!Accepts
    <2> QED BY <2>1, <2>3 DEF D!Echo, PingInv, EchoesRight
  <1>4. CASE UNCHANGED D!vars
    BY <1>4, <1>1 DEF D!vars, D!pinging
  <1>5. CASE \E k \in D!Kind, r \in Resource : D!AddResource(k, r)
    BY <1>5, <1>1 DEF D!AddResource, D!pinging
  <1>6. CASE D!TakeRequest
    BY <1>6, <1>1 DEF D!TakeRequest, D!pinging
  <1>7. CASE D!PutTogether
    BY <1>7, <1>1 DEF D!PutTogether, D!pinging
  <1>8. CASE \E sent \in BOOLEAN : D!SendAnswer(sent)
    BY <1>8, <1>1 DEF D!SendAnswer, D!pinging
  <1>9. CASE D!Asked
    BY <1>9, <1>1 DEF D!Asked, D!pinging
  <1>10. CASE D!AnswerArrives
    BY <1>10, <1>1 DEF D!AnswerArrives, D!pinging
  <1>11. CASE \E sent \in BOOLEAN : D!Ask(sent)
    BY <1>11, <1>1 DEF D!Ask, D!pinging
  <1> QED BY <1>2, <1>3, <1>4, <1>5, <1>6, <1>7, <1>8, <1>9, <1>10, <1>11 DEF D!Next

\* What needs no assumption about names.
ListsServed == D!TypeOK /\ D!AnswerFits /\ D!ServedOnce

LEMMA DiscoveryImplies ==
  ASSUME D!DiscoveryAssumption, DiscoveryInv
  PROVE  ListsServed /\ (NamesApart /\ IdsApart => ResourcesAreTrue)
  <1>1. D!Bytes("pub") \in Nat /\ D!Bytes("sub") \in Nat
    BY BytesNat DEF DiscoveryInv, ListsInv
  <1>2. D!TypeOK
    BY DEF D!TypeOK, D!Kind, DiscoveryInv, ListsInv, ListsRight, JobRight, Jobs, AskedInv,
           AskedRight, PingInv, EchoesRight
  <1>3. D!AnswerFits
    <2>1. JobRight(job, D!Bytes("pub"), D!Bytes("sub")) /\ job \in Jobs
      BY DEF DiscoveryInv, ListsInv, JobRight
    <2>2. /\ job.len \in Nat /\ job.offset \in Nat /\ job.late \in Nat
          /\ job.at \in {"pub", "sub", "idle", "fillpub", "fillsub", "send"}
      BY <2>1 DEF Jobs
    <2> QED BY <1>1, <2>1, <2>2 DEF D!AnswerFits, JobRight
  <1>4. D!ServedOnce
    BY DEF D!ServedOnce, DiscoveryInv, AskedInv, AskedRight
  <1>5. NamesApart => D!RefusedIsListed
    BY DEF D!RefusedIsListed, DiscoveryInv, ListsInv, ListsRight
  <1>6. IdsApart => D!EchoIsMine
    BY DEF D!EchoIsMine, DiscoveryInv, PingInv
  <1> QED BY <1>2, <1>3, <1>4, <1>5, <1>6 DEF ResourcesAreTrue, ListsServed

\* Resource discovery and pings (resource_discovery.c, ping.c), for any number
\* of resources, requests and pingers, whether or not sending fails and
\* answers overtake their requests, and whatever is added to the tables at any
\* time: what is written into a resource reply fills the buffer
\* bcmp_process_resource_discovery_request has allocated for it, and goes
\* beyond it by the resources added between its two passes and by nothing
\* else, and no callback is called twice.  Where no name begins another and no
\* two pingers share the bits a ping carries, a resource refused as known is
\* listed too, and a ping is not answered by the echo of another node's.
THEOREM ResourcesTrue ==
  ASSUME D!DiscoveryAssumption
  PROVE  /\ D!Spec => [](D!TypeOK /\ D!AnswerFits /\ D!ServedOnce)
         /\ NamesApart /\ IdsApart => (D!Spec => []ResourcesAreTrue)
  <1>1. D!Init => DiscoveryInv
    BY ListsInit
  <1>2. DiscoveryInv /\ [D!Next]_D!vars => DiscoveryInv'
    BY ListsStep, AskedStep, PingStep DEF DiscoveryInv
  <1>3. D!Spec => [](D!TypeOK /\ D!AnswerFits /\ D!ServedOnce)
    <2>1. DiscoveryInv => D!TypeOK /\ D!AnswerFits /\ D!ServedOnce
      BY DiscoveryImplies DEF ListsServed
    <2> QED BY <1>1, <1>2, <2>1, PTL DEF D!Spec
  <1>4. ASSUME NamesApart, IdsApart
        PROVE  D!Spec => []ResourcesAreTrue
    <2>1. DiscoveryInv => ResourcesAreTrue
      BY <1>4, DiscoveryImplies
    <2> QED BY <1>1, <1>2, <2>1, PTL DEF D!Spec
  <1> QED BY <1>3, <1>4

-----------------------------------------------------------------------------
(* The neighbor table *)

Entry == [id : Peer, port : Port, online : BOOLEAN, age : 0..2, boot : 0..MaxUp, info : BOOLEAN]

\* No node and no port twice.
TableRight(t) ==
    /\ t \in Seq(Entry)
    /\ \A i, j \in 1..Len(t) : t[i].id = t[j].id \/ t[i].port = t[j].port => i = j

\* The loop that makes room at port p, after the first i entries: what was kept
\* are entries of other ports, each once.
PassRight(pass, i, t, p) ==
    /\ pass.kept \in Seq(Entry)
    /\ pass.gone => i > 0 /\ t[i].port = p
    /\ \A a \in 1..Len(pass.kept) : \E k \in 1..i : pass.kept[a] = t[k] /\ t[k].port # p
    /\ \A a, b \in 1..Len(pass.kept) : pass.kept[a] = pass.kept[b] => a = b

LEMMA PassTurn ==
  ASSUME NEW t, TableRight(t), NEW p, NEW i \in 1..Len(t), NEW before,
         PassRight(before, i - 1, t, p)
  PROVE  PassRight(N!Turn(before, t[i], p), i, t, p)
  <1> DEFINE gone == t[i].port = p /\ ~before.gone
             k2 == IF gone THEN before.kept ELSE Append(before.kept, t[i])
  <1>1. N!Turn(before, t[i], p) = [gone |-> gone, kept |-> k2]
    BY DEF N!Turn
  <1>2. t \in Seq(Entry) /\ t[i] \in Entry /\ Len(t) \in Nat /\ i \in Nat
    BY DEF TableRight
  <1>3. CASE t[i].port = p
    <2>1. ~before.gone
      <3>1. ASSUME before.gone PROVE FALSE
        <4>1. i - 1 > 0 /\ t[i - 1].port = p
          BY <3>1 DEF PassRight
        <4>2. i - 1 \in 1..Len(t) /\ i - 1 # i
          BY <1>2, <4>1
        <4> QED BY <4>1, <4>2, <1>3 DEF TableRight
      <3> QED BY <3>1
    <2>2. gone /\ k2 = before.kept
      BY <1>3, <2>1
    <2> HIDE DEF gone, k2
    <2>3. \A k \in 1..(i - 1) : k \in 1..i
      BY <1>2
    <2> QED BY <1>1, <1>2, <1>3, <2>2, <2>3 DEF PassRight
  <1>4. CASE t[i].port # p
    <2>1. ~gone /\ k2 = Append(before.kept, t[i])
      BY <1>4
    <2> DEFINE kept == before.kept
               m == Len(kept)
    <2>2. kept \in Seq(Entry)
      BY DEF PassRight
    <2>3. /\ m \in Nat /\ k2 \in Seq(Entry) /\ Len(k2) = m + 1 /\ k2[m + 1] = t[i]
          /\ \A a \in 1..m : k2[a] = kept[a]
      BY <1>2, <2>1, <2>2
    <2>4. \A a \in 1..m : \E k \in 1..(i - 1) : kept[a] = t[k] /\ t[k].port # p
      BY DEF PassRight
    <2>5. \A a, b \in 1..m : kept[a] = kept[b] => a = b
      BY DEF PassRight
    <2> HIDE DEF gone, k2, kept, m
    <2>6. ASSUME NEW a \in 1..m PROVE k2[a] # t[i] /\ \E k \in 1..i : k2[a] = t[k] /\ t[k].port # p
      <3>1. PICK k \in 1..(i - 1) : kept[a] = t[k] /\ t[k].port # p
        BY <2>4
      <3>2. k \in 1..i /\ k \in 1..Len(t) /\ k # i
        BY <1>2
      <3>3. t[k] # t[i]
        BY <3>2 DEF TableRight
      <3> QED BY <2>3, <3>1, <3>2, <3>3
    <2>7. \A a \in 1..(m + 1) : a \in 1..m \/ a = m + 1
      BY <2>3
    <2>8. ASSUME NEW a \in 1..(m + 1) PROVE \E k \in 1..i : k2[a] = t[k] /\ t[k].port # p
      <3>1. CASE a \in 1..m
        BY <3>1, <2>6
      <3>2. CASE a = m + 1
        <4>1. i \in 1..i
          BY <1>2
        <4> QED BY <3>2, <2>3, <1>4, <4>1
      <3> QED BY <3>1, <3>2, <2>7
    <2>9. ASSUME NEW a \in 1..(m + 1), NEW b \in 1..(m + 1), k2[a] = k2[b] PROVE a = b
      <3>1. CASE a \in 1..m /\ b \in 1..m
        BY <3>1, <2>3, <2>5, <2>9
      <3>2. CASE a \in 1..m /\ b = m + 1
        BY <3>2, <2>3, <2>6, <2>9
      <3>3. CASE a = m + 1 /\ b \in 1..m
        BY <3>3, <2>3, <2>6, <2>9
      <3> QED BY <3>1, <3>2, <3>3, <2>7
    <2> DEFINE pass == N!Turn(before, t[i], p)
    <2>10. pass.kept = k2 /\ ~pass.gone
      BY <1>1, <2>1
    <2> HIDE DEF pass
    <2>11. PassRight(pass, i, t, p)
      BY <2>3, <2>8, <2>9, <2>10 DEF PassRight
    <2> QED BY <2>11 DEF pass
  <1> QED BY <1>3, <1>4

Empty == [gone |-> FALSE, kept |-> <<>>]

IsPass(f, t, p) ==
    f = [i \in 0..Len(t) |-> IF i = 0 THEN [gone |-> FALSE, kept |-> <<>>]
                             ELSE N!Turn(f[i - 1], t[i], p)]

\* The first n turns of it.
Passes(f, t, p, n) ==
    /\ f = [i \in 0..n |-> f[i]] /\ f[0] = Empty
    /\ \A i \in 1..n : f[i] = N!Turn(f[i - 1], t[i], p)

LEMMA PassesExist ==
  ASSUME NEW t, Len(t) \in Nat, NEW p, NEW n \in Nat, n <= Len(t)
  PROVE  \E f : Passes(f, t, p, n)
  <1> DEFINE Has(m) == \E f : Passes(f, t, p, m)
             Bad == {m \in Nat : m <= Len(t) /\ ~Has(m)}
  <1>1. SUFFICES ASSUME Bad # {} PROVE FALSE
    OBVIOUS
  <1>2. PICK m \in Bad : \A j \in Bad : m <= j
    <2>1. Bad \in SUBSET Nat
      OBVIOUS
    <2> QED BY <1>1, <2>1, LeastNumber
  <1>3. m # 0
    <2>1. Has(0)
      <3> DEFINE f == [i \in 0..0 |-> Empty]
      <3>1. /\ f = [i \in 0..0 |-> f[i]] /\ f[0] = Empty
            /\ \A i \in 1..0 : f[i] = N!Turn(f[i - 1], t[i], p)
        OBVIOUS
      <3> QED BY <3>1 DEF Passes
    <2> QED BY <2>1
  <1>4. m - 1 \in Nat /\ m - 1 <= Len(t) /\ Has(m - 1)
    <2>1. m \in Nat /\ m <= Len(t)
      BY <1>2
    <2>2. m - 1 \in Nat /\ m - 1 <= Len(t) /\ ~(m <= m - 1)
      BY <2>1, <1>3
    <2>3. m - 1 \notin Bad
      BY <1>2, <2>2
    <2> HIDE DEF Has
    <2> QED BY <2>2, <2>3
  <1>5. PICK f : /\ f = [i \in 0..(m - 1) |-> f[i]] /\ f[0] = Empty
                 /\ \A i \in 1..(m - 1) : f[i] = N!Turn(f[i - 1], t[i], p)
    BY <1>4 DEF Passes
  <1> DEFINE g == [i \in 0..m |-> IF i = m THEN N!Turn(f[m - 1], t[m], p) ELSE f[i]]
  <1>6. g = [i \in 0..m |-> g[i]]
    OBVIOUS
  <1>7. g[0] = Empty
    BY <1>3, <1>4, <1>5
  <1>8. ASSUME NEW i \in 1..m PROVE g[i] = N!Turn(g[i - 1], t[i], p)
    <2>1. CASE i = m
      <3>1. g[m] = N!Turn(f[m - 1], t[m], p) /\ g[m - 1] = f[m - 1]
        BY <1>3, <1>4
      <3> QED BY <2>1, <3>1
    <2>2. CASE i # m
      <3>1. i \in 1..(m - 1) /\ g[i] = f[i] /\ g[i - 1] = f[i - 1]
        BY <2>2, <1>3, <1>4
      <3> QED BY <3>1, <1>5
    <2> QED BY <2>1, <2>2
  <1>9. Has(m)
    BY <1>6, <1>7, <1>8 DEF Passes
  <1> QED BY <1>2, <1>9

LEMMA ClearedIs ==
  ASSUME NEW t, TableRight(t), NEW p
  PROVE  /\ TableRight(N!Cleared(t, p))
         /\ \A a \in 1..Len(N!Cleared(t, p)) :
                \E k \in 1..Len(t) : N!Cleared(t, p)[a] = t[k] /\ t[k].port # p
  <1> DEFINE n == Len(t)
  <1>1. n \in Nat /\ n <= Len(t) /\ Len(t) \in Nat /\ t \in Seq(Entry)
    BY DEF TableRight
  <1> HIDE DEF n
  <1>2. PICK g : /\ g = [i \in 0..n |-> g[i]] /\ g[0] = Empty
                 /\ \A i \in 1..n : g[i] = N!Turn(g[i - 1], t[i], p)
    <2>1. \E g : Passes(g, t, p, n)
      BY <1>1, PassesExist
    <2> QED BY <2>1 DEF Passes
  <1>3. IsPass(g, t, p)
    <2> DEFINE h == [i \in 0..n |-> IF i = 0 THEN [gone |-> FALSE, kept |-> <<>>]
                                   ELSE N!Turn(g[i - 1], t[i], p)]
    <2>1. ASSUME NEW i \in 0..n PROVE g[i] = h[i]
      <3>1. CASE i = 0
        BY <3>1, <1>2 DEF Empty
      <3>2. CASE i # 0
        <4>1. i \in 1..n
          BY <3>2, <1>1
        <4> QED BY <3>2, <4>1, <1>2
      <3> QED BY <3>1, <3>2
    <2>2. g = h
      BY <1>2, <2>1
    <2> QED BY <2>2 DEF IsPass, n
  <1> DEFINE f == CHOOSE f : IsPass(f, t, p)
  <1>4. IsPass(f, t, p)
    BY <1>3
  <1>5. N!Cleared(t, p) = f[n].kept
    BY DEF N!Cleared, IsPass, n
  <1> HIDE DEF f
  <1>6. ASSUME NEW i \in 0..n
        PROVE  f[i] = IF i = 0 THEN Empty ELSE N!Turn(f[i - 1], t[i], p)
    <2> DEFINE h == [j \in 0..Len(t) |-> IF j = 0 THEN [gone |-> FALSE, kept |-> <<>>]
                                         ELSE N!Turn(f[j - 1], t[j], p)]
    <2>1. f = h
      BY <1>4 DEF IsPass
    <2>2. h[i] = IF i = 0 THEN Empty ELSE N!Turn(f[i - 1], t[i], p)
      BY DEF Empty, n
    <2> HIDE DEF h
    <2> QED BY <2>1, <2>2
  <1> DEFINE Bad == {i \in 0..n : ~PassRight(f[i], i, t, p)}
  <1>7. Bad = {}
    <2>1. SUFFICES ASSUME Bad # {} PROVE FALSE
      OBVIOUS
    <2>2. Bad \in SUBSET Nat
      OBVIOUS
    <2>3. PICK i \in Bad : \A j \in Bad : i <= j
      BY <2>1, <2>2, LeastNumber
    <2>4. i # 0
      <3>1. ASSUME i = 0 PROVE FALSE
        <4>1. f[0] = Empty
          BY <1>1, <1>6
        <4>2. PassRight(Empty, 0, t, p)
          BY DEF PassRight, Empty
        <4> QED BY <4>1, <4>2, <3>1, <2>3
      <3> QED BY <3>1
    <2>5. i - 1 \in 0..n /\ i \in 1..n /\ ~(i <= i - 1)
      BY <2>4, <1>1
    <2>6. PassRight(f[i - 1], i - 1, t, p)
      BY <2>3, <2>5
    <2>7. PassRight(N!Turn(f[i - 1], t[i], p), i, t, p)
      BY <2>5, <2>6, PassTurn DEF n
    <2>8. f[i] = N!Turn(f[i - 1], t[i], p)
      BY <2>4, <1>6
    <2> QED BY <2>3, <2>7, <2>8
  <1> DEFINE c == f[n].kept
  <1>8. PassRight(f[n], n, t, p)
    BY <1>1, <1>7
  <1>9. /\ c \in Seq(Entry)
        /\ \A a \in 1..Len(c) : \E k \in 1..n : c[a] = t[k] /\ t[k].port # p
        /\ \A a, b \in 1..Len(c) : c[a] = c[b] => a = b
    BY <1>8 DEF PassRight
  <1> HIDE DEF c
  <1>10. ASSUME NEW a \in 1..Len(c), NEW b \in 1..Len(c),
                c[a].id = c[b].id \/ c[a].port = c[b].port
         PROVE  a = b
    <2>1. PICK k \in 1..n : c[a] = t[k]
      BY <1>9
    <2>2. PICK m \in 1..n : c[b] = t[m]
      BY <1>9
    <2>3. k = m
      BY <2>1, <2>2, <1>10 DEF TableRight, n
    <2> QED BY <2>1, <2>2, <2>3, <1>9
  <1>11. TableRight(c)
    BY <1>9, <1>10 DEF TableRight
  <1> QED BY <1>5, <1>9, <1>11 DEF c, n

-----------------------------------------------------------------------------
(* The invariant of the neighbor table *)

\* A request for information: a callback waits for the information of the node
\* whose id was listed.
InfoRequest == {r \in [id : Nat, cb : Peer \cup {0}] : r.cb = 0 \/ r.id = Short[r.cb]}

WorldRight(pl, u, r) ==
    /\ pl \in [Peer -> Port \cup {0}] /\ u \in [Peer -> 0..MaxUp] /\ r \in [Peer -> BOOLEAN]

\* Only a node that restarted has been up for less than its entry says.
BootsRight(t, u, r) == \A i \in 1..Len(t) : r[t[i].id] \/ t[i].boot <= u[t[i].id]

\* A registered callback was told of every entry what it says.
ViewRight(t, reg, v) ==
    /\ v \in [Peer -> {"unknown", "up", "down"}] /\ reg \in BOOLEAN
    /\ reg => \A i \in 1..Len(t) : v[t[i].id] = "up" <=> t[i].online

RequestsRight(l) == l \in Seq(InfoRequest) /\ Len(l) <= MaxInfo

\* A walk has counted n entries and is at the next one.
WalkRight(w, t, n) ==
    /\ n \in Nat /\ w.busy \in BOOLEAN
    /\ w.busy => /\ w \in [busy : {TRUE}, fault : {FALSE}, at : Peer \cup {0}]
                 /\ \/ w.at = 0 /\ n = Len(t)
                    \/ n < Len(t) /\ w.at = t[n + 1].id

NeighborsInv ==
    /\ WorldRight(place, up, restarted)
    /\ TableRight(NEIGHBORS)
    /\ BootsRight(NEIGHBORS, up, restarted)
    /\ ViewRight(NEIGHBORS, registered, view)
    /\ RequestsRight(INFO_REQUEST_LIST)
    /\ WalkRight(walk, NEIGHBORS, NUM_NEIGHBORS)
    /\ spurious = FALSE /\ misinformed = FALSE

\* Uptimes do not wrap, no two peers have the 32 bits in common that lists of
\* requests keep, the application registers while every neighbor is there, and
\* the walk of the topology thread is not interrupted.
Settled ==
    /\ ~Wraps /\ ~LateCallback /\ ~WalkBreaks
    /\ \A x, y \in Peer : Short[x] = Short[y] => x = y

\* The entries of a table.
LEMMA EntryOf ==
  ASSUME NEW t, TableRight(t), NEW i \in 1..Len(t)
  PROVE  /\ t[i] \in Entry /\ t[i].id \in Peer /\ t[i].port \in Port /\ t[i].online \in BOOLEAN
         /\ t[i].age \in 0..2 /\ t[i].boot \in 0..MaxUp /\ t[i].info \in BOOLEAN
  <1>1. t[i] \in Entry
    BY DEF TableRight
  <1> QED BY <1>1 DEF Entry

LEMMA TableIs ==
  ASSUME NEW t, TableRight(t)
  PROVE  /\ t \in Seq(Entry) /\ Len(t) \in Nat /\ DOMAIN t = 1..Len(t)
         /\ \A i, j \in 1..Len(t) : t[i].id = t[j].id \/ t[i].port = t[j].port => i = j
  BY DEF TableRight

\* A table whose entries keep their nodes and ports.
LEMMA Relabelled ==
  ASSUME NEW t, TableRight(t), NEW t2, t2 = [i \in 1..Len(t) |-> t2[i]],
         \A i \in 1..Len(t) : t2[i] \in Entry /\ t2[i].id = t[i].id /\ t2[i].port = t[i].port
  PROVE  TableRight(t2) /\ Len(t2) = Len(t)
  <1>1. Len(t) \in Nat
    BY TableIs
  <1> DEFINE n == Len(t)
  <1> HIDE DEF n
  <1>2. t2 \in [1..n -> Entry]
    BY DEF n
  <1>3. t2 \in Seq(Entry) /\ Len(t2) = n
    BY <1>1, <1>2 DEF n
  <1>4. ASSUME NEW i \in 1..n, NEW j \in 1..n, t2[i].id = t2[j].id \/ t2[i].port = t2[j].port
        PROVE  i = j
    BY <1>4, TableIs DEF n
  <1> QED BY <1>3, <1>4 DEF TableRight, n

LEMMA NeighborsInit ==
  ASSUME N!NeighborsAssumption, N!Init
  PROVE  NeighborsInv
  <1>1. WorldRight(place, up, restarted)
    BY DEF N!Init, N!Nowhere, N!NeighborsAssumption, WorldRight
  <1>2. TableRight(NEIGHBORS) /\ Len(NEIGHBORS) = 0
    BY DEF N!Init, TableRight
  <1>3. BootsRight(NEIGHBORS, up, restarted)
    BY <1>2 DEF BootsRight
  <1>4. ViewRight(NEIGHBORS, registered, view)
    BY <1>2 DEF N!Init, ViewRight
  <1>5. RequestsRight(INFO_REQUEST_LIST)
    BY DEF N!Init, N!NeighborsAssumption, RequestsRight
  <1>6. WalkRight(walk, NEIGHBORS, NUM_NEIGHBORS)
    BY DEF N!Init, N!NoWalk, WalkRight
  <1> QED BY <1>1, <1>2, <1>3, <1>4, <1>5, <1>6 DEF NeighborsInv, N!Init

LEMMA Runs ==
  ASSUME Settled, N!BcmpRuns, NeighborsInv
  PROVE  walk.busy = FALSE
  BY DEF Settled, N!BcmpRuns, NeighborsInv, WalkRight

\* Cables, and peers that restart.
LEMMA PlugKeeps ==
  ASSUME N!NeighborsAssumption, NeighborsInv, NEW x \in Peer,
         (\E p \in Port : N!Plug(x, p)) \/ N!Pull(x)
  PROVE  NeighborsInv'
  <1>1. place' \in [Peer -> Port \cup {0}]
    BY DEF N!Plug, N!Pull, N!Nowhere, NeighborsInv, WorldRight
  <1>2. UNCHANGED <<up, restarted, NEIGHBORS, NUM_NEIGHBORS, registered, view, spurious,
                    INFO_REQUEST_LIST, misinformed, walk>>
    BY DEF N!Plug, N!Pull, N!table, N!info
  <1> QED BY <1>1, <1>2 DEF NeighborsInv, WorldRight

LEMMA RestartKeeps ==
  ASSUME N!NeighborsAssumption, NeighborsInv, NEW x \in Peer, N!Restart(x)
  PROVE  NeighborsInv'
  <1>1. /\ up' = [up EXCEPT ![x] = 0] /\ restarted' = [restarted EXCEPT ![x] = TRUE]
        /\ UNCHANGED <<place, NEIGHBORS, NUM_NEIGHBORS, registered, view, spurious,
                       INFO_REQUEST_LIST, misinformed, walk>>
    BY DEF N!Restart, N!table, N!info
  <1>2. WorldRight(place', up', restarted')
    BY <1>1 DEF NeighborsInv, WorldRight, N!NeighborsAssumption
  <1>3. ASSUME NEW i \in 1..Len(NEIGHBORS)
        PROVE  restarted'[NEIGHBORS[i].id] \/ NEIGHBORS[i].boot <= up'[NEIGHBORS[i].id]
    <2>1. NEIGHBORS[i].id \in Peer
      BY EntryOf DEF NeighborsInv
    <2>2. restarted[NEIGHBORS[i].id] \/ NEIGHBORS[i].boot <= up[NEIGHBORS[i].id]
      BY DEF NeighborsInv, BootsRight
    <2>3. restarted \in [Peer -> BOOLEAN] /\ up \in [Peer -> 0..MaxUp]
      BY DEF NeighborsInv, WorldRight
    <2>4. CASE NEIGHBORS[i].id = x
      BY <1>1, <2>1, <2>3, <2>4
    <2>5. CASE NEIGHBORS[i].id # x
      BY <1>1, <2>1, <2>2, <2>3, <2>5
    <2> QED BY <2>4, <2>5
  <1>4. BootsRight(NEIGHBORS', up', restarted')
    BY <1>1, <1>3 DEF BootsRight
  <1> QED BY <1>1, <1>2, <1>4 DEF NeighborsInv

LEMMA EntryAged ==
  ASSUME NEW P, NEW Q, NEW B, NEW U, NEW e \in [id : P, port : Q, online : B, age : 0..2, boot : U, info : B],
         NEW a \in 0..2, NEW c, c = [e EXCEPT !.age = a]
  PROVE  /\ c \in [id : P, port : Q, online : B, age : 0..2, boot : U, info : B]
         /\ c.id = e.id /\ c.port = e.port /\ c.online = e.online /\ c.boot = e.boot
  OBVIOUS

LEMMA TickKeeps ==
  ASSUME N!NeighborsAssumption, Settled, NeighborsInv, N!Tick
  PROVE  NeighborsInv'
  <1> DEFINE t == NEIGHBORS
             n == Len(t)
             Older(e) == [e EXCEPT !.age = IF @ < 2 THEN @ + 1 ELSE @]
  <1>0. TableRight(t) /\ n \in Nat /\ DOMAIN t = 1..n
    BY TableIs DEF NeighborsInv
  <1>1. /\ up' = [x \in Peer |-> IF up[x] < MaxUp THEN up[x] + 1 ELSE MaxUp]
        /\ NEIGHBORS' = [i \in 1..n |-> Older(t[i])]
        /\ UNCHANGED <<place, restarted, NUM_NEIGHBORS, registered, view, spurious,
                       INFO_REQUEST_LIST, misinformed, walk>>
    BY <1>0 DEF N!Tick, N!info, Settled
  <1>2. ASSUME NEW i \in 1..n
        PROVE  /\ NEIGHBORS'[i] \in Entry /\ NEIGHBORS'[i].id = t[i].id
               /\ NEIGHBORS'[i].port = t[i].port /\ NEIGHBORS'[i].online = t[i].online
               /\ NEIGHBORS'[i].boot = t[i].boot
    <2>1. NEIGHBORS'[i] = Older(t[i])
      BY <1>1
    <2>2. t[i] \in Entry /\ t[i].age \in 0..2
      BY <1>0, EntryOf
    <2>3. (IF t[i].age < 2 THEN t[i].age + 1 ELSE t[i].age) \in 0..2
      BY <2>2
    <2> QED BY <2>1, <2>2, <2>3, EntryAged DEF Entry
  <1>3. TableRight(NEIGHBORS') /\ Len(NEIGHBORS') = n
    <2>1. NEIGHBORS' = [i \in 1..n |-> NEIGHBORS'[i]]
      BY <1>1
    <2> HIDE DEF t
    <2> QED BY <2>1, <1>0, <1>2, Relabelled
  <1>4. ASSUME NEW x \in Peer PROVE up[x] \in 0..MaxUp /\ up'[x] \in 0..MaxUp /\ up[x] <= up'[x]
    <2>1. up[x] \in 0..MaxUp /\ MaxUp \in Nat
      BY DEF NeighborsInv, WorldRight, N!NeighborsAssumption
    <2>2. up'[x] = IF up[x] < MaxUp THEN up[x] + 1 ELSE MaxUp
      BY <1>1
    <2> QED BY <2>1, <2>2
  <1>5. WorldRight(place', up', restarted')
    <2>1. up' \in [Peer -> 0..MaxUp]
      <3>1. up' = [x \in Peer |-> up'[x]]
        BY <1>1
      <3> QED BY <3>1, <1>4
    <2> QED BY <2>1, <1>1 DEF NeighborsInv, WorldRight
  <1>6. BootsRight(NEIGHBORS', up', restarted')
    <2>1. ASSUME NEW i \in 1..n
          PROVE  restarted[t[i].id] \/ t[i].boot <= up'[t[i].id]
      <3>1. t[i].id \in Peer /\ t[i].boot \in 0..MaxUp /\ MaxUp \in Nat
        BY <1>0, EntryOf DEF N!NeighborsAssumption
      <3>2. restarted[t[i].id] \/ t[i].boot <= up[t[i].id]
        BY DEF NeighborsInv, BootsRight
      <3> QED BY <3>1, <3>2, <1>4
    <2> QED BY <2>1, <1>1, <1>2, <1>3 DEF BootsRight
  <1>7. ViewRight(NEIGHBORS', registered', view')
    <2>1. ViewRight(t, registered, view)
      BY DEF NeighborsInv
    <2> HIDE DEF t
    <2> QED BY <2>1, <1>1, <1>2, <1>3 DEF ViewRight
  <1>8. WalkRight(walk', NEIGHBORS', NUM_NEIGHBORS')
    <2>1. WalkRight(walk, t, NUM_NEIGHBORS)
      BY DEF NeighborsInv
    <2>2. NUM_NEIGHBORS \in Nat /\ NUM_NEIGHBORS < n => NUM_NEIGHBORS + 1 \in 1..n
      BY <1>0
    <2> HIDE DEF t
    <2> QED BY <2>1, <2>2, <1>0, <1>1, <1>2, <1>3 DEF WalkRight
  <1> QED BY <1>1, <1>3, <1>5, <1>6, <1>7, <1>8 DEF NeighborsInv

-----------------------------------------------------------------------------
(* Requests for information *)

LEMMA RemovedIs ==
  ASSUME NEW S, NEW q \in Seq(S), NEW i \in 1..Len(q)
  PROVE  N!RemoveAt(q, i) \in Seq(S) /\ Len(N!RemoveAt(q, i)) = Len(q) - 1
  <1> DEFINE a == SubSeq(q, 1, i - 1)
             b == SubSeq(q, i + 1, Len(q))
  <1>1. a \in Seq(S) /\ Len(a) = i - 1
    OBVIOUS
  <1>2. b \in Seq(S) /\ Len(b) = Len(q) - i
    OBVIOUS
  <1>3. N!RemoveAt(q, i) = a \o b
    BY DEF N!RemoveAt
  <1>4. Len(q) \in Nat /\ i \in Nat
    OBVIOUS
  <1> HIDE DEF a, b
  <1>5. a \o b \in Seq(S) /\ Len(a \o b) = Len(a) + Len(b)
    BY <1>1, <1>2
  <1>6. Len(a) + Len(b) = Len(q) - 1
    BY <1>1, <1>2, <1>4
  <1> QED BY <1>3, <1>5, <1>6

LEMMA WithoutFirstIs ==
  ASSUME NEW l \in Seq(InfoRequest), NEW target
  PROVE  /\ N!WithoutFirst(l, target) \in Seq(InfoRequest)
         /\ Len(N!WithoutFirst(l, target)) <= Len(l)
         /\ (\E i \in 1..Len(l) : l[i].id = target)
                => Len(N!WithoutFirst(l, target)) = Len(l) - 1
  <1> DEFINE s == {i \in DOMAIN l : l[i].id = target}
             k == CHOOSE i \in s : \A j \in s : i <= j
  <1>1. N!WithoutFirst(l, target) = IF s = {} THEN l ELSE N!RemoveAt(l, k)
    BY DEF N!WithoutFirst
  <1>2. DOMAIN l = 1..Len(l) /\ Len(l) \in Nat
    OBVIOUS
  <1>3. CASE s = {}
    <2>1. N!WithoutFirst(l, target) = l /\ ~\E i \in 1..Len(l) : l[i].id = target
      BY <1>1, <1>2, <1>3
    <2>2. Len(l) <= Len(l)
      BY <1>2
    <2> QED BY <2>1, <2>2, Zenon
  <1>4. CASE s # {}
    <2>1. s \in SUBSET Nat
      BY <1>2
    <2>2. k \in s
      BY <1>4, <2>1, LeastNumber
    <2>3. k \in 1..Len(l)
      BY <1>2, <2>2
    <2> HIDE DEF k, s
    <2> DEFINE w == N!RemoveAt(l, k)
    <2>4. w \in Seq(InfoRequest) /\ Len(w) = Len(l) - 1
      BY <2>3, RemovedIs
    <2>5. N!WithoutFirst(l, target) = w
      BY <1>1, <1>4
    <2> HIDE DEF w
    <2>6. Len(w) <= Len(l)
      BY <1>2, <2>4
    <2> QED BY <2>4, <2>5, <2>6, Zenon
  <1> QED BY <1>3, <1>4

\* bcmp_request_info for the information of a node, or of all of them: the
\* callback, if there is one, is for that node.
LEMMA RequestListed ==
  ASSUME N!NeighborsAssumption, NEW l, RequestsRight(l), NEW target \in Peer \cup {0},
         NEW cb \in {target, 0}, NEW sent
  PROVE  RequestsRight(IF Len(l) < MaxInfo THEN N!ListRequest(l, target, cb, sent) ELSE l)
  <1> DEFINE r == [id |-> N!ShortOf(target), cb |-> cb]
             l2 == Append(l, r)
  <1>1. l \in Seq(InfoRequest) /\ Len(l) \in Nat /\ Len(l) <= MaxInfo /\ MaxInfo \in Nat
    BY DEF RequestsRight, N!NeighborsAssumption
  <1>2. N!ShortOf(target) \in Nat /\ (target # 0 => N!ShortOf(target) = Short[target])
    BY DEF N!ShortOf, N!All, N!NeighborsAssumption
  <1>3. r \in InfoRequest
    BY <1>2 DEF InfoRequest
  <1>4. r.id = N!ShortOf(target)
    OBVIOUS
  <1> HIDE DEF r
  <1>5. l2 \in Seq(InfoRequest) /\ Len(l2) = Len(l) + 1 /\ l2[Len(l) + 1] = r
    BY <1>1, <1>3
  <1>6. Len(l) + 1 \in 1..Len(l2)
    BY <1>1, <1>5
  <1>7. N!ListRequest(l, target, cb, sent) =
            IF sent THEN l2 ELSE N!WithoutFirst(l2, N!ShortOf(target))
    BY DEF N!ListRequest, r
  <1> HIDE DEF l2
  <1>8. /\ N!WithoutFirst(l2, N!ShortOf(target)) \in Seq(InfoRequest)
        /\ Len(N!WithoutFirst(l2, N!ShortOf(target))) = Len(l2) - 1
    BY <1>4, <1>5, <1>6, WithoutFirstIs
  <1>9. CASE Len(l) < MaxInfo
    <2>1. Len(l) + 1 <= MaxInfo /\ Len(l) + 1 - 1 <= MaxInfo
      BY <1>1, <1>9
    <2> QED BY <1>5, <1>7, <1>8, <1>9, <2>1 DEF RequestsRight
  <1>10. CASE ~(Len(l) < MaxInfo)
    BY <1>10
  <1> QED BY <1>9, <1>10

LEMMA AppAsksKeeps ==
  ASSUME N!NeighborsAssumption, NeighborsInv, NEW x \in Peer, NEW sent \in BOOLEAN,
         N!AppAsks(x, sent)
  PROVE  NeighborsInv'
  <1>1. /\ INFO_REQUEST_LIST' = IF Len(INFO_REQUEST_LIST) < MaxInfo
                                THEN N!ListRequest(INFO_REQUEST_LIST, x, x, sent)
                                ELSE INFO_REQUEST_LIST
        /\ UNCHANGED <<place, up, restarted, NEIGHBORS, NUM_NEIGHBORS, registered, view, spurious,
                       misinformed, walk>>
    BY DEF N!AppAsks, N!bcmp_request_info, N!table, N!world
  <1>2. RequestsRight(INFO_REQUEST_LIST')
    BY <1>1, RequestListed DEF NeighborsInv
  <1> QED BY <1>1, <1>2 DEF NeighborsInv

LEMMA EntryInformed ==
  ASSUME NEW P, NEW Q, NEW B, NEW U, NEW e \in [id : P, port : Q, online : B, age : 0..2, boot : U, info : B],
         NEW a \in B, NEW c, c = [e EXCEPT !.info = a]
  PROVE  /\ c \in [id : P, port : Q, online : B, age : 0..2, boot : U, info : B]
         /\ c.id = e.id /\ c.port = e.port /\ c.online = e.online /\ c.boot = e.boot
  OBVIOUS

\* A table whose entries keep all but the age and the information.
LEMMA EntriesStay ==
  ASSUME NeighborsInv, NEIGHBORS' = [i \in 1..Len(NEIGHBORS) |-> NEIGHBORS'[i]],
         \A i \in 1..Len(NEIGHBORS) :
            /\ NEIGHBORS'[i] \in Entry /\ NEIGHBORS'[i].id = NEIGHBORS[i].id
            /\ NEIGHBORS'[i].port = NEIGHBORS[i].port
            /\ NEIGHBORS'[i].online = NEIGHBORS[i].online
            /\ NEIGHBORS'[i].boot = NEIGHBORS[i].boot,
         UNCHANGED <<up, restarted, NUM_NEIGHBORS, registered, view, walk>>
  PROVE  /\ TableRight(NEIGHBORS') /\ BootsRight(NEIGHBORS', up', restarted')
         /\ ViewRight(NEIGHBORS', registered', view')
         /\ WalkRight(walk', NEIGHBORS', NUM_NEIGHBORS')
  <1> DEFINE t == NEIGHBORS
             t2 == NEIGHBORS'
             n == Len(t)
  <1>0. TableRight(t) /\ n \in Nat
    BY TableIs DEF NeighborsInv
  <1>1. TableRight(t2) /\ Len(t2) = n
    BY <1>0, Relabelled
  <1>2. BootsRight(t2, up', restarted')
    BY <1>1 DEF NeighborsInv, BootsRight
  <1>3. ViewRight(t2, registered', view')
    <2>1. ViewRight(t, registered, view)
      BY DEF NeighborsInv
    <2>2. \A i \in 1..n : t2[i].id = t[i].id /\ t2[i].online = t[i].online
      OBVIOUS
    <2> HIDE DEF t, t2
    <2> QED BY <2>1, <2>2, <1>1 DEF ViewRight
  <1>4. WalkRight(walk', t2, NUM_NEIGHBORS')
    <2>1. WalkRight(walk, t, NUM_NEIGHBORS)
      BY DEF NeighborsInv
    <2>2. NUM_NEIGHBORS \in Nat /\ NUM_NEIGHBORS < n => NUM_NEIGHBORS + 1 \in 1..n
      BY <1>0
    <2>3. \A i \in 1..n : t2[i].id = t[i].id
      OBVIOUS
    <2> HIDE DEF t, t2
    <2> QED BY <2>1, <2>2, <2>3, <1>0, <1>1 DEF WalkRight
  <1> QED BY <1>1, <1>2, <1>3, <1>4

LEMMA InfoReplyKeeps ==
  ASSUME N!NeighborsAssumption, Settled, NeighborsInv, NEW x \in Peer, N!InfoReply(x)
  PROVE  NeighborsInv'
  <1> DEFINE l == INFO_REQUEST_LIST
             t == NEIGHBORS
             s == N!Requests(x)
             k == CHOOSE i \in s : \A j \in s : i <= j
  <1>1. /\ l \in Seq(InfoRequest) /\ Len(l) \in Nat /\ Len(l) <= MaxInfo /\ MaxInfo \in Nat
        /\ DOMAIN l = 1..Len(l)
    BY DEF NeighborsInv, RequestsRight, N!NeighborsAssumption
  <1>2. s # {} /\ N!Served(x) = [found |-> TRUE, cb |-> l[k].cb]
    <2>1. N!Served(x).found
      BY DEF N!InfoReply
    <2>2. s # {}
      BY <2>1 DEF N!Served
    <2> QED BY <2>2 DEF N!Served, N!Oldest
  <1>3. s \in SUBSET Nat
    BY <1>1 DEF N!Requests
  <1>4. k \in s
    BY <1>2, <1>3, LeastNumber
  <1> HIDE DEF k
  <1>5. k \in 1..Len(l) /\ l[k].id = Short[x]
    BY <1>1, <1>4 DEF N!Requests
  <1>6. l[k] \in InfoRequest
    BY <1>1, <1>5
  <1>7. l[k].cb \in {x, 0}
    BY <1>5, <1>6 DEF InfoRequest, Settled
  <1>8. /\ misinformed' = (misinformed \/ l[k].cb \notin {x, 0})
        /\ NEIGHBORS' = IF l[k].cb = 0 THEN N!populate_neighbor_info(x) ELSE NEIGHBORS
        /\ INFO_REQUEST_LIST' = N!WithoutFirst(l, Short[x])
        /\ UNCHANGED <<place, up, restarted, NUM_NEIGHBORS, registered, view, spurious, walk>>
    BY <1>2 DEF N!InfoReply, N!All, N!world
  <1>9. misinformed' = FALSE
    BY <1>7, <1>8 DEF NeighborsInv
  <1>10. RequestsRight(INFO_REQUEST_LIST')
    <2>1. /\ N!WithoutFirst(l, Short[x]) \in Seq(InfoRequest)
          /\ Len(N!WithoutFirst(l, Short[x])) <= Len(l)
      BY <1>1, WithoutFirstIs
    <2>2. Len(N!WithoutFirst(l, Short[x])) \in Nat
      BY <2>1
    <2> QED BY <1>1, <1>8, <2>1, <2>2 DEF RequestsRight
  <1>11. TableRight(t) /\ Len(t) \in Nat /\ DOMAIN t = 1..Len(t)
    BY TableIs DEF NeighborsInv
  <1>12. CASE l[k].cb = 0
    <2>1. NEIGHBORS' = [i \in 1..Len(t) |-> IF t[i].id = x THEN [t[i] EXCEPT !.info = TRUE]
                                            ELSE t[i]]
      BY <1>8, <1>11, <1>12 DEF N!populate_neighbor_info
    <2>2. ASSUME NEW i \in 1..Len(t)
          PROVE  /\ NEIGHBORS'[i] \in Entry /\ NEIGHBORS'[i].id = t[i].id
                 /\ NEIGHBORS'[i].port = t[i].port /\ NEIGHBORS'[i].online = t[i].online
                 /\ NEIGHBORS'[i].boot = t[i].boot
      <3>1. NEIGHBORS'[i] = IF t[i].id = x THEN [t[i] EXCEPT !.info = TRUE] ELSE t[i]
        BY <2>1
      <3>2. t[i] \in Entry
        BY <1>11, EntryOf
      <3>3. CASE t[i].id = x
        BY <3>1, <3>2, <3>3, EntryInformed DEF Entry
      <3>4. CASE t[i].id # x
        BY <3>1, <3>2, <3>4
      <3> QED BY <3>3, <3>4
    <2>3. NEIGHBORS' = [i \in 1..Len(t) |-> NEIGHBORS'[i]]
      BY <2>1
    <2>4. /\ TableRight(NEIGHBORS') /\ BootsRight(NEIGHBORS', up', restarted')
          /\ ViewRight(NEIGHBORS', registered', view')
          /\ WalkRight(walk', NEIGHBORS', NUM_NEIGHBORS')
      BY <1>8, <2>2, <2>3, EntriesStay
    <2> QED BY <1>8, <1>9, <1>10, <2>4 DEF NeighborsInv
  <1>13. CASE l[k].cb # 0
    BY <1>8, <1>9, <1>10, <1>13 DEF NeighborsInv
  <1> QED BY <1>12, <1>13

-----------------------------------------------------------------------------
(* Neighbors that were not heard of *)

\* neighbor_check of an entry.
Looked(e) == IF N!Stale(e) THEN [e EXCEPT !.online = FALSE] ELSE e

LEMMA EntryOffline ==
  ASSUME NEW P, NEW Q, NEW U, NEW A,
         NEW e \in [id : P, port : Q, online : BOOLEAN, age : A, boot : U, info : BOOLEAN],
         NEW c, c = [e EXCEPT !.online = FALSE]
  PROVE  /\ c \in [id : P, port : Q, online : BOOLEAN, age : A, boot : U, info : BOOLEAN]
         /\ c.id = e.id /\ c.port = e.port /\ c.online = FALSE /\ c.boot = e.boot
  OBVIOUS

LEMMA LookedIs ==
  ASSUME NEW e \in Entry
  PROVE  /\ Looked(e) \in Entry /\ Looked(e).id = e.id /\ Looked(e).port = e.port
         /\ Looked(e).boot = e.boot
         /\ N!Stale(e) => Looked(e).online = FALSE
         /\ ~N!Stale(e) => Looked(e) = e
  <1>1. CASE N!Stale(e)
    <2>1. Looked(e) = [e EXCEPT !.online = FALSE]
      BY <1>1 DEF Looked
    <2> QED BY <1>1, <2>1, EntryOffline DEF Entry
  <1>2. CASE ~N!Stale(e)
    BY <1>2 DEF Looked
  <1> QED BY <1>1, <1>2

LookedTable(t, C) == [i \in 1..Len(t) |-> IF i \in C THEN Looked(t[i]) ELSE t[i]]
LookedView(t, C, reg, v) ==
    [x \in Peer |-> IF reg /\ \E i \in C : t[i].id = x /\ N!Stale(t[i]) THEN "down" ELSE v[x]]

\* The entries of C are looked at: a stale one goes offline, and the
\* application is told.
LEMMA LookedRight ==
  ASSUME NEW t, TableRight(t), NEW u, NEW r, BootsRight(t, u, r), NEW reg, NEW v,
         ViewRight(t, reg, v), NEW C \in SUBSET (1..Len(t)),
         NEW t2, t2 = LookedTable(t, C), NEW v2, v2 = LookedView(t, C, reg, v)
  PROVE  /\ TableRight(t2) /\ BootsRight(t2, u, r) /\ ViewRight(t2, reg, v2)
         /\ Len(t2) = Len(t) /\ \A i \in 1..Len(t) : t2[i].id = t[i].id
  <1> DEFINE n == Len(t)
  <1>0. n \in Nat
    BY TableIs
  <1>1. ASSUME NEW i \in 1..n
        PROVE  /\ t2[i] \in Entry /\ t2[i].id = t[i].id /\ t2[i].port = t[i].port
               /\ t2[i].boot = t[i].boot
               /\ i \in C /\ N!Stale(t[i]) => t2[i].online = FALSE
               /\ ~(i \in C /\ N!Stale(t[i])) => t2[i] = t[i]
    <2>1. t[i] \in Entry
      BY EntryOf
    <2>2. t2[i] = IF i \in C THEN Looked(t[i]) ELSE t[i]
      BY DEF LookedTable
    <2> QED BY <2>1, <2>2, LookedIs
  <1>2. t2 = [i \in 1..n |-> t2[i]]
    BY DEF LookedTable
  <1>3. TableRight(t2) /\ Len(t2) = n
    BY <1>1, <1>2, Relabelled
  <1>4. BootsRight(t2, u, r)
    BY <1>1, <1>3 DEF BootsRight
  <1>5. v2 \in [Peer -> {"unknown", "up", "down"}]
    BY DEF ViewRight, LookedView
  <1>6. ASSUME reg, NEW i \in 1..n PROVE v2[t2[i].id] = "up" <=> t2[i].online
    <2>1. t[i].id \in Peer /\ t2[i].id = t[i].id
      BY <1>1, EntryOf
    <2>2. v[t[i].id] = "up" <=> t[i].online
      BY <1>6 DEF ViewRight
    <2>3. CASE i \in C /\ N!Stale(t[i])
      <3>1. v2[t[i].id] = "down"
        BY <1>6, <2>1, <2>3 DEF LookedView
      <3> QED BY <2>1, <2>3, <3>1, <1>1
    <2>4. CASE ~(i \in C /\ N!Stale(t[i]))
      <3>1. ASSUME NEW j \in C, t[j].id = t[i].id, N!Stale(t[j]) PROVE FALSE
        <4>1. j = i
          BY <3>1, TableIs
        <4> QED BY <3>1, <4>1, <2>4
      <3>2. v2[t[i].id] = v[t[i].id]
        BY <2>1, <3>1 DEF LookedView
      <3> QED BY <2>1, <2>2, <2>4, <3>2, <1>1
    <2> QED BY <2>3, <2>4
  <1>7. ViewRight(t2, reg, v2)
    BY <1>3, <1>5, <1>6 DEF ViewRight
  <1> QED BY <1>1, <1>3, <1>4, <1>7

LEMMA CheckKeeps ==
  ASSUME N!NeighborsAssumption, Settled, NeighborsInv, N!bcmp_check_neighbors
  PROVE  NeighborsInv'
  <1> DEFINE t == NEIGHBORS
             C == 1..Len(t)
  <1>1. TableRight(t) /\ Len(t) \in Nat /\ DOMAIN t = C
    BY TableIs DEF NeighborsInv
  <1>2. /\ NEIGHBORS' = LookedTable(t, C) /\ view' = LookedView(t, C, registered, view)
        /\ NUM_NEIGHBORS' = Len(t)
        /\ UNCHANGED <<place, up, restarted, registered, spurious, INFO_REQUEST_LIST,
                       misinformed, walk>>
    BY <1>1 DEF N!bcmp_check_neighbors, N!Checked, N!AllChecked, Looked, LookedTable, LookedView,
        N!world, N!info
  <1>3. /\ BootsRight(t, up, restarted) /\ ViewRight(t, registered, view)
    BY DEF NeighborsInv
  <1>4. /\ TableRight(NEIGHBORS') /\ BootsRight(NEIGHBORS', up, restarted)
        /\ ViewRight(NEIGHBORS', registered, view')
    <2>1. C \in SUBSET (1..Len(t))
      OBVIOUS
    <2> HIDE DEF t, C
    <2> QED BY <1>1, <1>2, <1>3, <2>1, LookedRight
  <1>5. walk.busy = FALSE
    BY Runs DEF N!bcmp_check_neighbors
  <1>6. WalkRight(walk', NEIGHBORS', NUM_NEIGHBORS')
    BY <1>1, <1>2, <1>5 DEF WalkRight
  <1> QED BY <1>2, <1>4, <1>6 DEF NeighborsInv

LEMMA RegisterKeeps ==
  ASSUME N!NeighborsAssumption, Settled, NeighborsInv, N!Register
  PROVE  NeighborsInv'
  <1> DEFINE t == NEIGHBORS
  <1>1. TableRight(t) /\ Len(t) \in Nat /\ DOMAIN t = 1..Len(t)
    BY TableIs DEF NeighborsInv
  <1>2. /\ registered' = TRUE
        /\ view' = [x \in Peer |-> IF N!Known(x) THEN "up" ELSE view[x]]
        /\ \A x \in Peer : N!Known(x) => N!Online(x)
        /\ UNCHANGED <<place, up, restarted, NEIGHBORS, NUM_NEIGHBORS, spurious, INFO_REQUEST_LIST,
                       misinformed, walk>>
    BY DEF N!Register, N!world, N!table, N!info, Settled
  <1>3. ASSUME NEW i \in 1..Len(t) PROVE view'[t[i].id] = "up" /\ t[i].online
    <2>1. t[i].id \in Peer
      BY <1>1, EntryOf
    <2>2. N!Known(t[i].id)
      BY <1>1 DEF N!Known, N!Places
    <2>3. PICK j \in 1..Len(t) : t[j].id = t[i].id /\ t[j].online
      BY <1>1, <1>2, <2>1, <2>2 DEF N!Online, N!Places
    <2>4. j = i
      BY <1>1, <2>3, TableIs
    <2> QED BY <1>2, <2>1, <2>2, <2>3, <2>4
  <1>4. view' \in [Peer -> {"unknown", "up", "down"}]
    BY <1>2 DEF NeighborsInv, ViewRight
  <1>5. ViewRight(NEIGHBORS', registered', view')
    BY <1>2, <1>3, <1>4 DEF ViewRight
  <1> QED BY <1>2, <1>5 DEF NeighborsInv

-----------------------------------------------------------------------------
(* The walk of the topology thread *)

LEMMA WalkBeginKeeps ==
  ASSUME N!NeighborsAssumption, NeighborsInv, N!WalkBegin
  PROVE  NeighborsInv'
  <1> DEFINE t == NEIGHBORS
  <1>1. TableRight(t) /\ Len(t) \in Nat /\ t \in Seq(Entry)
    BY TableIs DEF NeighborsInv
  <1>2. /\ NUM_NEIGHBORS' = 0
        /\ walk' = [busy |-> TRUE, fault |-> FALSE, at |-> IF t = <<>> THEN 0 ELSE t[1].id]
        /\ UNCHANGED <<place, up, restarted, NEIGHBORS, registered, view, spurious,
                       INFO_REQUEST_LIST, misinformed>>
    BY DEF N!WalkBegin, N!world, N!info, N!Nowhere
  <1>3. t = <<>> => Len(t) = 0
    OBVIOUS
  <1>4. t # <<>> => 0 < Len(t)
    BY <1>1
  <1>5. WalkRight(walk', NEIGHBORS', NUM_NEIGHBORS')
    <2>1. walk'.busy = TRUE /\ walk'.fault = FALSE
          /\ walk'.at = IF t = <<>> THEN 0 ELSE t[1].id
      BY <1>2
    <2>2. walk' \in [busy : {TRUE}, fault : {FALSE}, at : Peer \cup {0}]
      <3>1. (IF t = <<>> THEN 0 ELSE t[1].id) \in Peer \cup {0}
        <4>1. CASE t = <<>>
          BY <4>1
        <4>2. CASE t # <<>>
          <5>1. 1 \in 1..Len(t)
            BY <1>1, <1>4, <4>2
          <5> QED BY <5>1, <1>1, <4>2, EntryOf
        <4> QED BY <4>1, <4>2
      <3> HIDE DEF t
      <3> QED BY <1>2, <3>1
    <2>3. t[0 + 1] = t[1]
      OBVIOUS
    <2> HIDE DEF t
    <2>4. NEIGHBORS' = t
      BY <1>2 DEF t
    <2> QED BY <2>1, <2>2, <2>3, <2>4, <1>2, <1>3, <1>4 DEF WalkRight
  <1> QED BY <1>2, <1>5 DEF NeighborsInv

LEMMA WalkStepKeeps ==
  ASSUME N!NeighborsAssumption, NeighborsInv, N!WalkStep
  PROVE  NeighborsInv'
  <1> DEFINE t == NEIGHBORS
             n == NUM_NEIGHBORS
             i == CHOOSE j \in N!Places(walk.at) : TRUE
             e == <<t[i]>>
  <1>1. TableRight(t) /\ Len(t) \in Nat /\ DOMAIN t = 1..Len(t) /\ t \in Seq(Entry)
    BY TableIs DEF NeighborsInv
  <1>2. /\ walk.busy = TRUE /\ n \in Nat /\ n < Len(t) /\ walk.at = t[n + 1].id
        /\ walk \in [busy : {TRUE}, fault : {FALSE}, at : Peer \cup {0}]
    BY DEF N!WalkStep, N!Nowhere, NeighborsInv, WalkRight
  <1>3. n + 1 \in 1..Len(t)
    BY <1>1, <1>2
  <1>4. i = n + 1
    <2>1. N!Places(walk.at) = {n + 1}
      <3>1. n + 1 \in N!Places(walk.at)
        BY <1>1, <1>2, <1>3 DEF N!Places
      <3>2. ASSUME NEW j \in N!Places(walk.at) PROVE j = n + 1
        <4>1. j \in 1..Len(t) /\ t[j].id = t[n + 1].id
          BY <1>1, <1>2 DEF N!Places
        <4> QED BY <1>1, <1>3, <4>1, TableIs
      <3> QED BY <3>1, <3>2
    <2> QED BY <2>1
  <1>5. /\ view' = N!Checked(e, view)
        /\ NEIGHBORS' = [t EXCEPT ![i] = N!AllChecked(e)[1]]
        /\ walk' = [walk EXCEPT !.at = IF i = Len(t) THEN 0 ELSE t[i + 1].id]
        /\ NUM_NEIGHBORS' = n + 1
        /\ UNCHANGED <<place, up, restarted, registered, spurious, INFO_REQUEST_LIST, misinformed>>
    BY DEF N!WalkStep, N!Nowhere, N!world, N!info
  <1> HIDE DEF i
  <1>6. N!AllChecked(e)[1] = Looked(t[i])
    <2>1. DOMAIN e = {1} /\ e[1] = t[i]
      OBVIOUS
    <2>2. N!AllChecked(e)[1] = IF N!Stale(e[1]) THEN [e[1] EXCEPT !.online = FALSE] ELSE e[1]
      <3> HIDE DEF e
      <3> QED BY <2>1 DEF N!AllChecked
    <2> HIDE DEF e, t
    <2> QED BY <2>1, <2>2 DEF Looked
  <1>7. N!Checked(e, view) = LookedView(t, {i}, registered, view)
    <2>1. DOMAIN e = {1} /\ e[1] = t[i]
      OBVIOUS
    <2>2. \A x : (\E j \in DOMAIN e : e[j].id = x /\ N!Stale(e[j]))
                    <=> \E j \in {i} : t[j].id = x /\ N!Stale(t[j])
      BY <2>1
    <2> HIDE DEF e
    <2> QED BY <2>2 DEF N!Checked, LookedView
  <1>8. NEIGHBORS' = LookedTable(t, {i})
    BY <1>1, <1>5, <1>6 DEF LookedTable
  <1>9. /\ BootsRight(t, up, restarted) /\ ViewRight(t, registered, view)
    BY DEF NeighborsInv
  <1>10. {i} \in SUBSET (1..Len(t))
    BY <1>3, <1>4
  <1>11. /\ TableRight(NEIGHBORS') /\ BootsRight(NEIGHBORS', up, restarted)
         /\ ViewRight(NEIGHBORS', registered, view')
         /\ Len(NEIGHBORS') = Len(t) /\ \A j \in 1..Len(t) : NEIGHBORS'[j].id = t[j].id
    <2> DEFINE C == {i}
    <2> HIDE DEF t, C
    <2>1. /\ NEIGHBORS' = LookedTable(t, C) /\ view' = LookedView(t, C, registered, view)
          /\ C \in SUBSET (1..Len(t))
      BY <1>5, <1>7, <1>8, <1>10 DEF C
    <2> QED BY <1>1, <1>9, <2>1, LookedRight
  <1>12. \E k \in Nat : k = Len(t) /\ n \in Nat /\ n < k
    <2> HIDE DEF t, n
    <2> QED BY <1>1, <1>2
  <1>13. WalkRight(walk', NEIGHBORS', NUM_NEIGHBORS')
    <2> DEFINE a == IF i = Len(t) THEN 0 ELSE t[i + 1].id
    <2>1. walk' = [walk EXCEPT !.at = a]
      BY <1>5
    <2>0. a \in Peer \cup {0}
      <3>1. CASE i = Len(t)
        BY <3>1
      <3>2. CASE i # Len(t)
        <4>1. i + 1 \in 1..Len(t)
          BY <1>12, <1>4, <3>2
        <4> QED BY <1>1, <3>2, <4>1, EntryOf
      <3> QED BY <3>1, <3>2
    <2>2. /\ walk'.busy = TRUE /\ walk'.at = a
          /\ walk' \in [busy : {TRUE}, fault : {FALSE}, at : Peer \cup {0}]
      <3> HIDE DEF a
      <3> QED BY <2>0, <2>1, <1>2
    <2>3. CASE i = Len(t)
      BY <2>2, <2>3, <1>1, <1>2, <1>4, <1>5, <1>11 DEF WalkRight
    <2>4. CASE i # Len(t)
      <3>1. n + 1 \in Nat /\ n + 1 < Len(t) /\ (n + 1) + 1 \in 1..Len(t)
        BY <1>12, <1>4, <2>4
      <3>2. NEIGHBORS'[(n + 1) + 1].id = t[(n + 1) + 1].id
        BY <1>11, <3>1
      <3> HIDE DEF t
      <3> QED BY <2>2, <2>4, <1>4, <1>5, <1>11, <3>1, <3>2 DEF WalkRight
    <2> QED BY <2>3, <2>4
  <1> QED BY <1>5, <1>11, <1>13 DEF NeighborsInv

LEMMA WalkEndKeeps ==
  ASSUME N!NeighborsAssumption, NeighborsInv, N!WalkEnd
  PROVE  NeighborsInv'
  <1>1. /\ walk' = [busy |-> FALSE]
        /\ UNCHANGED <<place, up, restarted, NEIGHBORS, NUM_NEIGHBORS, registered, view, spurious,
                       INFO_REQUEST_LIST, misinformed>>
    BY DEF N!WalkEnd, N!NoWalk, N!world, N!table, N!info
  <1>2. WalkRight(walk', NEIGHBORS', NUM_NEIGHBORS')
    BY <1>1 DEF NeighborsInv, WalkRight
  <1> QED BY <1>1, <1>2 DEF NeighborsInv

-----------------------------------------------------------------------------
(* A heartbeat *)

\* The table in which the entry of x is looked for, p being the port x is at:
\* it has x, and otherwise entries that were there, which are of other nodes.
LEMMA UpdatedIs ==
  ASSUME N!NeighborsAssumption, NEW x \in Peer, NEW p \in Port, TableRight(NEIGHBORS)
  PROVE  LET list == N!bcmp_update_neighbor(x, p)
         IN  /\ TableRight(list)
             /\ \E i \in 1..Len(list) :
                    /\ list[i].id = x
                    /\ \/ N!Known(x) /\ list = NEIGHBORS
                       \/ ~N!Known(x) /\ list[i].boot = 0 /\ list[i].online = FALSE
             /\ \A a \in 1..Len(list) : list[a].id # x =>
                    \E k \in 1..Len(NEIGHBORS) : list[a] = NEIGHBORS[k]
  <1> DEFINE t == NEIGHBORS
  <1>0. Len(t) \in Nat /\ DOMAIN t = 1..Len(t)
    BY TableIs
  <1>1. CASE N!Known(x)
    <2>1. N!bcmp_update_neighbor(x, p) = t
      BY <1>1 DEF N!bcmp_update_neighbor
    <2>2. PICK i \in 1..Len(t) : t[i].id = x
      BY <1>0, <1>1 DEF N!Known, N!Places
    <2> QED BY <1>1, <2>1, <2>2
  <1>2. CASE ~N!Known(x)
    <2> DEFINE c == N!Cleared(t, p)
               e == [id |-> x, port |-> p, online |-> FALSE, age |-> 0, boot |-> 0, info |-> FALSE]
               l == Append(c, e)
               m == Len(c)
    <2>1. N!bcmp_update_neighbor(x, p) = l
      BY <1>2 DEF N!bcmp_update_neighbor, N!bcmp_add_neighbor
    <2>2. e \in Entry
      BY DEF Entry, N!NeighborsAssumption
    <2>3. e.id = x /\ e.port = p /\ e.boot = 0 /\ e.online = FALSE
      OBVIOUS
    <2>4. TableRight(c) /\ \A a \in 1..m : \E k \in 1..Len(t) : c[a] = t[k] /\ t[k].port # p
      BY ClearedIs
    <2>5. c \in Seq(Entry) /\ m \in Nat
      BY <2>4, TableIs
    <2> HIDE DEF c, e
    <2>6. /\ l \in Seq(Entry) /\ Len(l) = m + 1 /\ l[m + 1] = e /\ \A a \in 1..m : l[a] = c[a]
      BY <2>2, <2>5
    <2> HIDE DEF l, m
    <2>7. \A a \in 1..(m + 1) : a \in 1..m \/ a = m + 1
      BY <2>5
    <2>8. ASSUME NEW a \in 1..m
          PROVE  /\ \E k \in 1..Len(t) : l[a] = t[k]
                 /\ l[a].id # x /\ l[a].port # p
      <3>1. PICK k \in 1..Len(t) : c[a] = t[k] /\ t[k].port # p
        BY <2>4
      <3>2. t[k].id # x
        BY <1>0, <1>2 DEF N!Known, N!Places
      <3> QED BY <3>1, <3>2, <2>6
    <2>9. ASSUME NEW a \in 1..(m + 1), NEW b \in 1..(m + 1),
                 l[a].id = l[b].id \/ l[a].port = l[b].port
          PROVE  a = b
      <3>1. CASE a \in 1..m /\ b \in 1..m
        <4>1. c[a].id = c[b].id \/ c[a].port = c[b].port
          BY <3>1, <2>6, <2>9
        <4> QED BY <3>1, <4>1, <2>4, TableIs DEF m
      <3>2. CASE a \in 1..m /\ b = m + 1
        BY <3>2, <2>3, <2>6, <2>8, <2>9
      <3>3. CASE a = m + 1 /\ b \in 1..m
        BY <3>3, <2>3, <2>6, <2>8, <2>9
      <3> QED BY <3>1, <3>2, <3>3, <2>7
    <2>10. TableRight(l)
      BY <2>6, <2>9 DEF TableRight
    <2>11. m + 1 \in 1..Len(l) /\ l[m + 1].id = x /\ l[m + 1].boot = 0 /\ l[m + 1].online = FALSE
      BY <2>3, <2>5, <2>6
    <2>12. ASSUME NEW a \in 1..Len(l), l[a].id # x PROVE \E k \in 1..Len(t) : l[a] = t[k]
      <3>1. a # m + 1
        BY <2>11, <2>12
      <3>2. a \in 1..m
        BY <3>1, <2>6, <2>7
      <3> QED BY <3>2, <2>8
    <2> HIDE DEF t
    <2> QED BY <1>2, <2>1, <2>10, <2>11, <2>12 DEF t
  <1> QED BY <1>1, <1>2

LEMMA EntryHeard ==
  ASSUME NEW P, NEW Q, NEW U, NEW B, NEW A, NEW e \in [id : P, port : Q, online : B, age : A, boot : U, info : B],
         NEW u \in U, NEW b \in B, NEW a \in A, NEW c, c = [e EXCEPT !.online = b, !.boot = u, !.age = a]
  PROVE  /\ c \in [id : P, port : Q, online : B, age : A, boot : U, info : B]
         /\ c.id = e.id /\ c.port = e.port /\ c.online = b /\ c.boot = u
  OBVIOUS

LEMMA HeartbeatKeeps ==
  ASSUME N!NeighborsAssumption, Settled, NeighborsInv, NEW x \in Peer, NEW sent \in BOOLEAN,
         N!Heartbeat(x, sent)
  PROVE  NeighborsInv'
  <1> DEFINE t == NEIGHBORS
             p == place[x]
             list == N!bcmp_update_neighbor(x, p)
             i == CHOOSE j \in DOMAIN list : list[j].id = x
             first == ~N!Known(x)
             reset == up[x] < list[i].boot
             heard == [list[i] EXCEPT !.online = TRUE, !.boot = up[x], !.age = 0]
  <1>0. /\ TableRight(t) /\ BootsRight(t, up, restarted) /\ ViewRight(t, registered, view)
        /\ RequestsRight(INFO_REQUEST_LIST) /\ WorldRight(place, up, restarted)
    BY DEF NeighborsInv
  <1>1. walk.busy = FALSE
    BY Runs DEF N!Heartbeat
  <1>2. p \in Port
    BY <1>0 DEF N!Heartbeat, N!Nowhere, WorldRight
  <1>3. up[x] \in 0..MaxUp /\ restarted \in [Peer -> BOOLEAN] /\ MaxUp \in Nat
    BY <1>0 DEF WorldRight, N!NeighborsAssumption
  <1>4. /\ view' = IF first \/ ~list[i].online \/ reset THEN N!Told(x, "up") ELSE view
        /\ spurious' = (spurious \/ (reset /\ ~restarted[x]))
        /\ NEIGHBORS' = [list EXCEPT ![i] = heard]
        /\ restarted' = [restarted EXCEPT ![x] = FALSE]
        /\ UNCHANGED <<place, up, NUM_NEIGHBORS, registered>>
    BY DEF N!Heartbeat, N!neighbor_reset
  <1>5. walk' = walk
    BY <1>1 DEF N!Heartbeat
  <1>6. misinformed' = FALSE /\ RequestsRight(INFO_REQUEST_LIST')
    <2> DEFINE l == INFO_REQUEST_LIST
    <2>1. \/ N!bcmp_request_info(x, N!All, sent)
          \/ N!bcmp_request_info(IF list[i].info THEN x ELSE N!All, N!All, sent)
          \/ UNCHANGED <<INFO_REQUEST_LIST, misinformed>>
      BY DEF N!Heartbeat, N!info
    <2>2. misinformed' = misinformed
      BY <2>1 DEF N!bcmp_request_info
    <2>3. \/ l' = l
          \/ l' = IF Len(l) < MaxInfo THEN N!ListRequest(l, x, 0, sent) ELSE l
          \/ l' = IF Len(l) < MaxInfo THEN N!ListRequest(l, 0, 0, sent) ELSE l
      BY <2>1 DEF N!bcmp_request_info, N!All
    <2>4. /\ RequestsRight(IF Len(l) < MaxInfo THEN N!ListRequest(l, x, 0, sent) ELSE l)
          /\ RequestsRight(IF Len(l) < MaxInfo THEN N!ListRequest(l, 0, 0, sent) ELSE l)
      BY <1>0, RequestListed
    <2> QED BY <1>0, <2>2, <2>3, <2>4 DEF NeighborsInv
  <1>7. /\ TableRight(list)
        /\ \E j \in 1..Len(list) :
                /\ list[j].id = x
                /\ \/ N!Known(x) /\ list = t
                   \/ ~N!Known(x) /\ list[j].boot = 0 /\ list[j].online = FALSE
        /\ \A a \in 1..Len(list) : list[a].id # x => \E k \in 1..Len(t) : list[a] = t[k]
    BY <1>0, <1>2, UpdatedIs
  <1> HIDE DEF list, p, first
  <1> DEFINE n == Len(list)
  <1>8. n \in Nat /\ DOMAIN list = 1..n
    BY <1>7, TableIs
  <1>9. i \in 1..n /\ list[i].id = x
    BY <1>7, <1>8
  <1>10. \A j \in 1..n : list[j].id = x => j = i
    BY <1>7, <1>9, TableIs
  <1> HIDE DEF i
  <1>11. \/ ~first /\ list = t
         \/ first /\ list[i].boot = 0 /\ list[i].online = FALSE
    BY <1>7, <1>10 DEF first
  <1>12. list[i] \in Entry /\ list[i].boot \in 0..MaxUp
    BY <1>7, <1>9, EntryOf
  <1>13. heard \in Entry /\ heard.id = x /\ heard.port = list[i].port /\ heard.online = TRUE
         /\ heard.boot = up[x]
    <2>1. 0 \in 0..2 /\ TRUE \in BOOLEAN
      OBVIOUS
    <2>2. /\ heard \in Entry /\ heard.id = list[i].id /\ heard.port = list[i].port
          /\ heard.online = TRUE /\ heard.boot = up[x]
      BY <1>3, <1>12, <2>1, EntryHeard DEF Entry
    <2> QED BY <2>2, <1>9
  <1> HIDE DEF heard
  <1>14. NEIGHBORS' = [j \in 1..n |-> IF j = i THEN heard ELSE list[j]]
    BY <1>4, <1>8, <1>9
  <1>15. ASSUME NEW j \in 1..n
         PROVE  /\ NEIGHBORS'[j] \in Entry /\ NEIGHBORS'[j].id = list[j].id
                /\ NEIGHBORS'[j].port = list[j].port
    <2>1. NEIGHBORS'[j] = IF j = i THEN heard ELSE list[j]
      BY <1>14
    <2>2. list[j] \in Entry
      BY <1>7, EntryOf
    <2> QED BY <2>1, <2>2, <1>9, <1>13
  <1>16. TableRight(NEIGHBORS') /\ Len(NEIGHBORS') = n
    <2>1. NEIGHBORS' = [j \in 1..n |-> NEIGHBORS'[j]]
      BY <1>14
    <2> QED BY <1>7, <1>15, <2>1, Relabelled
  <1>17. NEIGHBORS'[i] = heard
    BY <1>9, <1>14
  <1>18. ASSUME NEW j \in 1..n, j # i
         PROVE  \E k \in 1..Len(t) : NEIGHBORS'[j] = t[k] /\ t[k].id # x /\ t[k].id \in Peer
    <2>1. NEIGHBORS'[j] = list[j] /\ list[j].id # x
      BY <1>10, <1>14, <1>18
    <2>2. PICK k \in 1..Len(t) : list[j] = t[k]
      BY <1>7, <2>1
    <2>3. t[k].id \in Peer
      BY <1>0, EntryOf
    <2> QED BY <2>1, <2>2, <2>3
  <1>19. ~(reset /\ ~restarted[x])
    <2>1. CASE first
      <3>1. list[i].boot = 0
        BY <1>11, <2>1
      <3> QED BY <3>1, <1>3
    <2>2. CASE ~first
      <3>1. list = t /\ i \in 1..Len(t) /\ t[i].id = x
        BY <1>9, <1>11, <2>2
      <3>2. restarted[x] \/ t[i].boot <= up[x]
        BY <1>0, <3>1 DEF BootsRight
      <3>3. t[i].boot \in 0..MaxUp
        BY <1>12, <3>1
      <3> QED BY <1>3, <3>1, <3>2, <3>3
    <2> QED BY <2>1, <2>2
  <1>20. spurious' = FALSE
    BY <1>4, <1>19 DEF NeighborsInv
  <1>21. BootsRight(NEIGHBORS', up', restarted')
    <2>1. ASSUME NEW j \in 1..n
          PROVE  restarted'[NEIGHBORS'[j].id] \/ NEIGHBORS'[j].boot <= up[NEIGHBORS'[j].id]
      <3>1. CASE j = i
        BY <3>1, <1>3, <1>13, <1>17
      <3>2. CASE j # i
        <4>1. PICK k \in 1..Len(t) : NEIGHBORS'[j] = t[k] /\ t[k].id # x /\ t[k].id \in Peer
          BY <3>2, <1>18
        <4>2. restarted[t[k].id] \/ t[k].boot <= up[t[k].id]
          BY <1>0 DEF BootsRight
        <4>3. restarted'[t[k].id] = restarted[t[k].id]
          BY <1>3, <1>4, <4>1
        <4> QED BY <4>1, <4>2, <4>3
      <3> QED BY <3>1, <3>2
    <2> QED BY <2>1, <1>4, <1>16 DEF BootsRight
  <1>22. /\ view' \in [Peer -> {"unknown", "up", "down"}]
         /\ \A y \in Peer : y # x => view'[y] = view[y]
    BY <1>0, <1>4 DEF N!Told, ViewRight
  <1>23. ASSUME registered PROVE view'[x] = "up"
    <2>1. CASE first \/ ~list[i].online \/ reset
      <3>1. view' = [view EXCEPT ![x] = "up"]
        BY <1>4, <1>23, <2>1 DEF N!Told
      <3> QED BY <3>1, <1>0 DEF ViewRight
    <2>2. CASE ~(first \/ ~list[i].online \/ reset)
      <3>1. list = t /\ i \in 1..Len(t) /\ t[i].id = x /\ t[i].online
        BY <1>9, <1>11, <2>2
      <3>2. view[x] = "up"
        BY <1>0, <1>23, <3>1 DEF ViewRight
      <3> QED BY <3>2, <1>4, <2>2
    <2> QED BY <2>1, <2>2
  <1>24. ViewRight(NEIGHBORS', registered', view')
    <2>1. ASSUME registered, NEW j \in 1..n
          PROVE  view'[NEIGHBORS'[j].id] = "up" <=> NEIGHBORS'[j].online
      <3>1. CASE j = i
        BY <3>1, <2>1, <1>13, <1>17, <1>23
      <3>2. CASE j # i
        <4>1. PICK k \in 1..Len(t) : NEIGHBORS'[j] = t[k] /\ t[k].id # x /\ t[k].id \in Peer
          BY <3>2, <1>18
        <4>2. view[t[k].id] = "up" <=> t[k].online
          BY <1>0, <2>1 DEF ViewRight
        <4> QED BY <4>1, <4>2, <1>22
      <3> QED BY <3>1, <3>2
    <2>2. registered' = registered /\ registered \in BOOLEAN
      BY <1>0, <1>4 DEF ViewRight
    <2> QED BY <2>1, <2>2, <1>16, <1>22 DEF ViewRight
  <1>25. WalkRight(walk', NEIGHBORS', NUM_NEIGHBORS')
    BY <1>1, <1>4, <1>5 DEF NeighborsInv, WalkRight
  <1>26. WorldRight(place', up', restarted')
    BY <1>0, <1>4 DEF WorldRight
  <1> QED BY <1>6, <1>16, <1>20, <1>21, <1>24, <1>25, <1>26 DEF NeighborsInv

-----------------------------------------------------------------------------
(* The theorem *)

LEMMA NeighborsStep ==
  ASSUME N!NeighborsAssumption, Settled, NeighborsInv, [N!Next]_N!vars
  PROVE  NeighborsInv'
  <1>1. CASE UNCHANGED N!vars
    BY <1>1 DEF N!vars, NeighborsInv
  <1>2. CASE \E x \in Peer : (\E p \in Port : N!Plug(x, p)) \/ N!Pull(x)
    BY <1>2, PlugKeeps
  <1>3. CASE \E x \in Peer : N!Restart(x)
    BY <1>3, RestartKeeps
  <1>4. CASE \E x \in Peer : N!InfoReply(x)
    BY <1>4, InfoReplyKeeps
  <1>5. CASE \E x \in Peer : \E sent \in BOOLEAN : N!AppAsks(x, sent)
    BY <1>5, AppAsksKeeps
  <1>6. CASE \E x \in Peer : \E sent \in BOOLEAN : N!Heartbeat(x, sent)
    BY <1>6, HeartbeatKeeps
  <1>7. CASE N!Tick
    BY <1>7, TickKeeps
  <1>8. CASE N!bcmp_check_neighbors
    BY <1>8, CheckKeeps
  <1>9. CASE N!Register
    BY <1>9, RegisterKeeps
  <1>10. CASE N!WalkBegin
    BY <1>10, WalkBeginKeeps
  <1>11. CASE N!WalkStep
    BY <1>11, WalkStepKeeps
  <1>12. CASE N!WalkEnd
    BY <1>12, WalkEndKeeps
  <1> QED BY <1>1, <1>2, <1>3, <1>4, <1>5, <1>6, <1>7, <1>8, <1>9, <1>10, <1>11, <1>12 DEF N!Next

LEMMA NeighborsImplies ==
  ASSUME N!NeighborsAssumption, NeighborsInv
  PROVE  NeighborsAreTrue
  <1> DEFINE t == NEIGHBORS
  <1>1. TableRight(t) /\ Len(t) \in Nat /\ DOMAIN t = 1..Len(t)
    BY TableIs DEF NeighborsInv
  <1>2. N!TypeOK
    <2>1. \A i \in 1..Len(t) : t[i].id \in Peer /\ t[i].port \in Port /\ t[i].age \in 0..2
      BY <1>1, EntryOf
    <2> QED BY <1>1, <2>1 DEF N!TypeOK, N!Nowhere, NeighborsInv, WorldRight, ViewRight, WalkRight,
                              RequestsRight
  <1>3. N!OneEntryEach
    BY <1>1, TableIs DEF N!OneEntryEach
  <1>4. N!AppKnows
    <2>1. ASSUME registered, NEW x \in Peer, N!Known(x)
          PROVE  view[x] = "up" <=> N!Online(x)
      <3>1. PICK i \in 1..Len(t) : t[i].id = x
        BY <1>1, <2>1 DEF N!Known, N!Places
      <3>2. view[x] = "up" <=> t[i].online
        BY <2>1, <3>1 DEF NeighborsInv, ViewRight
      <3>3. ASSUME NEW j \in N!Places(x) PROVE j = i
        <4>1. j \in 1..Len(t) /\ t[j].id = t[i].id
          BY <1>1, <3>1 DEF N!Places
        <4> QED BY <1>1, <4>1, TableIs
      <3>4. i \in N!Places(x)
        BY <1>1, <3>1 DEF N!Places
      <3> QED BY <3>2, <3>3, <3>4 DEF N!Online
    <2> QED BY <2>1 DEF N!AppKnows
  <1>5. N!CountIsTrue
    <2>1. WalkRight(walk, t, NUM_NEIGHBORS)
      BY DEF NeighborsInv
    <2>2. ASSUME walk.busy PROVE ~walk.fault
      BY <2>1, <2>2 DEF WalkRight
    <2>3. ASSUME walk.busy, walk.at = 0 PROVE NUM_NEIGHBORS = Len(t)
      <3>1. ASSUME NUM_NEIGHBORS < Len(t), walk.at = t[NUM_NEIGHBORS + 1].id PROVE FALSE
        <4>1. NUM_NEIGHBORS + 1 \in 1..Len(t)
          <5>1. NUM_NEIGHBORS \in Nat
            BY <2>1 DEF WalkRight
          <5>2. Len(t) \in Nat
            BY <1>1
          <5> HIDE DEF t
          <5> QED BY <3>1, <5>1, <5>2
        <4>2. t[NUM_NEIGHBORS + 1].id \in Peer
          BY <1>1, <4>1, EntryOf
        <4> QED BY <2>3, <3>1, <4>2 DEF N!NeighborsAssumption
      <3> QED BY <2>1, <2>3, <3>1 DEF WalkRight
    <2> QED BY <2>2, <2>3 DEF N!CountIsTrue, N!Nowhere
  <1>6. N!RestartIsReal /\ N!InfoIsOfAsked
    BY DEF N!RestartIsReal, N!InfoIsOfAsked, NeighborsInv
  <1> QED BY <1>2, <1>3, <1>4, <1>5, <1>6 DEF NeighborsAreTrue

\* The neighbor table (neighbors.c, heartbeat.c, info.c), for any number of
\* peers and ports and whatever is plugged, moved, restarted and asked: no port
\* has two neighbors and no neighbor two entries, the discovery callback was
\* last told of each what the table says, the number that bcmp_get_neighbors
\* hands out is the length of the table, only a node that restarted is taken
\* for restarted, and a callback is given the information of the node it asked
\* about.  Settled says what the code takes for granted.
THEOREM NeighborsTrue ==
  ASSUME N!NeighborsAssumption, Settled
  PROVE  N!Spec => []NeighborsAreTrue
  <1>1. N!Init => NeighborsInv
    BY NeighborsInit
  <1>2. NeighborsInv /\ [N!Next]_N!vars => NeighborsInv'
    BY NeighborsStep
  <1>3. NeighborsInv => NeighborsAreTrue
    BY NeighborsImplies
  <1> QED BY <1>1, <1>2, <1>3, PTL DEF N!Spec

=============================================================================
