--------------------------- MODULE ServicesProofs ---------------------------
(***************************************************************************)
(* Services proved: the types, that a request is answered once however     *)
(* many nodes, threads, calls, failures and resets there are, and, where   *)
(* the code can promise it, that the answer is the one to that request and *)
(* that what is registered is served.                                      *)
(***************************************************************************)
EXTENDS Services, FiniteSetTheorems, SequenceTheorems, WellFoundedInduction, TLAPS

-----------------------------------------------------------------------------
(* Types *)

ThreadType == [pc : {"idle", "count", "add", "sub", "send"},
               svc : Service \cup {<<>>}, id : Id, call : Call \cup {NoCall}]
AnswerType == [call : Call \cup {NoCall}, svc : Service \cup {<<>>}]
CallType == [st : {"free", "made", "sent", "refused", "gone"},
             node : Node, svc : Service \cup {<<>>}, due : BOOLEAN, cbs : 0..2,
             ok : BOOLEAN, answer : AnswerType]

LEMMA Oracle == OK \subseteq BOOLEAN
  BY DEF OK

LEMMA IdleTyped ==
  ASSUME ServicesAssumption PROVE IdleThread \in ThreadType /\ 0 \in Id
  BY DEF ServicesAssumption, IdleThread, ThreadType, Id, NoCall

LEMMA NoAnswerTyped == NoAnswer \in AnswerType
  BY DEF NoAnswer, AnswerType

LEMMA TypeFields ==
  ASSUME TypeInv
  PROVE  /\ services \in [Node -> Seq(Service)]
         /\ registered \in [Node -> SUBSET Service]
         /\ subs \in [Node -> SUBSET Topic]
         /\ requests \in [Node -> SUBSET [id : Id, call : Call]]
         /\ count \in [Node -> Id]
         /\ thread \in [Thread -> ThreadType]
         /\ call \in [Call -> CallType]
         /\ inbox \in [Node -> SUBSET Message]
         /\ resets \in 0..MaxResets
  BY DEF TypeInv, TypeOK, ThreadType, CallType, AnswerType

LEMMA FromFields ==
  ASSUME /\ services \in [Node -> Seq(Service)]
         /\ registered \in [Node -> SUBSET Service]
         /\ subs \in [Node -> SUBSET Topic]
         /\ requests \in [Node -> SUBSET [id : Id, call : Call]]
         /\ count \in [Node -> Id]
         /\ thread \in [Thread -> ThreadType]
         /\ call \in [Call -> CallType]
         /\ inbox \in [Node -> SUBSET Message]
         /\ resets \in 0..MaxResets,
         ThreadsBusy
  PROVE  TypeInv
  BY DEF TypeInv, TypeOK, ThreadType, CallType, AnswerType

LEMMA InitTyped ==
  ASSUME ServicesAssumption PROVE Init => TypeInv
  <1> SUFFICES ASSUME Init PROVE TypeInv
    OBVIOUS
  <1>1. thread \in [Thread -> ThreadType] /\ ThreadsBusy
    BY IdleTyped DEF Init, ThreadsBusy, InRequest, IdleThread
  <1>2. (CHOOSE n \in Node : TRUE) \in Node
    BY DEF ServicesAssumption
  <1>3. call \in [Call -> CallType]
    BY <1>2, NoAnswerTyped DEF Init, CallType
  <1>4. count \in [Node -> Id]
    BY IdleTyped DEF Init
  <1>5. resets \in 0..MaxResets
    BY DEF Init, ServicesAssumption
  <1>6. /\ services \in [Node -> Seq(Service)]
        /\ registered \in [Node -> SUBSET Service]
        /\ subs \in [Node -> SUBSET Topic]
        /\ requests \in [Node -> SUBSET [id : Id, call : Call]]
        /\ inbox \in [Node -> SUBSET Message]
    BY DEF Init
  <1> QED BY <1>1, <1>3, <1>4, <1>5, <1>6, FromFields

\* A step of one of the variables of a node, of a thread or of a call.
LEMMA RemoveAtTyped ==
  ASSUME NEW S, NEW q \in Seq(S), NEW i \in 1..Len(q)
  PROVE  /\ RemoveAt(q, i) \in Seq(S)
         /\ Len(RemoveAt(q, i)) = Len(q) - 1
         /\ \A j \in 1..Len(q) - 1 : RemoveAt(q, i)[j] = IF j < i THEN q[j] ELSE q[j + 1]
  <1> DEFINE a == SubSeq(q, 1, i - 1)
             b == SubSeq(q, i + 1, Len(q))
  <1>1. a \in Seq(S) /\ Len(a) = i - 1 /\ \A j \in 1..i - 1 : a[j] = q[j]
    OBVIOUS
  <1>2. b \in Seq(S) /\ Len(b) = Len(q) - i /\ \A j \in 1..Len(q) - i : b[j] = q[i + j]
    OBVIOUS
  <1>3. RemoveAt(q, i) = a \o b
    BY DEF RemoveAt
  <1> HIDE DEF a, b
  <1>4. a \o b \in Seq(S) /\ Len(a \o b) = Len(q) - 1
    <2>1. a \o b \in Seq(S)
      BY <1>1, <1>2
    <2>2. Len(a \o b) = Len(a) + Len(b)
      BY <1>1, <1>2, ConcatProperties
    <2> QED BY <1>1, <1>2, <2>1, <2>2
  <1>5. ASSUME NEW j \in 1..Len(q) - 1
        PROVE  (a \o b)[j] = IF j < i THEN q[j] ELSE q[j + 1]
    <2>1. CASE j < i
      BY <1>1, <1>2, <2>1
    <2>2. CASE ~(j < i)
      <3>1. (a \o b)[j] = b[j - (i - 1)] /\ j - (i - 1) \in 1..Len(q) - i
        BY <1>1, <1>2, <2>2
      <3> QED BY <1>2, <2>2, <3>1
    <2> QED BY <2>1, <2>2
  <1> QED BY <1>3, <1>4, <1>5

LEMMA LeastExists ==
  ASSUME NEW K \in SUBSET Nat, K # {}
  PROVE  First(K) \in K /\ \A j \in K : First(K) <= j
  <1>1. PICK k \in K : \A j \in K : ~(<<j, k>> \in OpToRel(<, Nat))
    BY NatLessThanWellFounded, WFMin
  <1>2. ASSUME NEW j \in K PROVE k <= j
    <2>1. j \in Nat /\ k \in Nat
      OBVIOUS
    <2>2. j < k => <<j, k>> \in OpToRel(<, Nat)
      BY <2>1 DEF OpToRel
    <2>3. ~(j < k)
      BY <1>1, <2>2, Zenon
    <2> QED BY <2>1, <2>3
  <1> QED BY <1>2 DEF First

LEMMA RemovedTyped ==
  ASSUME TypeInv, NEW n \in Node, NEW s
  PROVE  Removed(n, s) \in Seq(Service)
  <1>1. services[n] \in Seq(Service)
    BY TypeFields
  <1>2. Removable(n, s) \in SUBSET (1..Len(services[n]))
    BY <1>1 DEF Removable
  <1>3. CASE Removable(n, s) = {}
    BY <1>1, <1>3 DEF Removed
  <1>4. CASE Removable(n, s) # {}
    <2>1. First(Removable(n, s)) \in 1..Len(services[n])
      BY <1>2, <1>4, LeastExists
    <2> QED BY <1>1, <1>4, <2>1, RemoveAtTyped DEF Removed
  <1> QED BY <1>3, <1>4

LEMMA SubTyped ==
  ASSUME TypeInv, NEW n \in Node, NEW t \in Topic, NEW r \in SubResult(n, t)
  PROVE  /\ r.ok \in BOOLEAN
         /\ r.subs = subs[n] \cup {t} \/ (~r.ok /\ r.subs = subs[n])
         /\ r.subs \in SUBSET Topic
  <1>1. \/ r = [ok |-> TRUE, subs |-> subs[n] \cup {t}]
        \/ r = [ok |-> FALSE, subs |-> subs[n] \cup {t}]
        \/ r = [ok |-> FALSE, subs |-> subs[n]]
    BY DEF SubResult
  <1>2. subs[n] \in SUBSET Topic
    BY TypeFields
  <1>3. /\ r.ok \in BOOLEAN
        /\ r.subs = subs[n] \cup {t} \/ (~r.ok /\ r.subs = subs[n])
    <2>1. CASE r = [ok |-> TRUE, subs |-> subs[n] \cup {t}]
      BY <2>1
    <2>2. CASE r = [ok |-> FALSE, subs |-> subs[n] \cup {t}]
      BY <2>2
    <2>3. CASE r = [ok |-> FALSE, subs |-> subs[n]]
      BY <2>3
    <2> QED BY <1>1, <2>1, <2>2, <2>3
  <1> QED BY <1>2, <1>3

LEMMA TopicTyped ==
  ASSUME NEW s \in Service PROVE ReqTopic(s) \in Topic /\ RepTopic(s) \in Topic
  BY DEF ReqTopic, RepTopic, Topic

LEMMA PublishedTyped ==
  ASSUME NEW box \in [Node -> SUBSET Message], NEW n, NEW m \in Message, NEW a, NEW b
  PROVE  Published(box, n, m, a, b) \in [Node -> SUBSET Message]
  BY DEF Published

\* The registry changes services, registered and subs only.
LEMMA RegistryTyped ==
  ASSUME TypeInv, NEW n \in Node, NEW s \in Service, Register(n, s) \/ Unregister(n, s)
  PROVE  TypeInv'
  <1>1. UNCHANGED <<requests, count, thread, call, inbox, resets>>
    BY DEF Register, Unregister
  <1>2. ThreadsBusy'
    BY <1>1 DEF TypeInv, ThreadsBusy, InRequest
  <1>3. services' \in [Node -> Seq(Service)]
    <2>1. CASE Register(n, s)
      BY <2>1, TypeFields DEF Register
    <2>2. CASE Unregister(n, s)
      BY <2>2, TypeFields, RemovedTyped DEF Unregister
    <2> QED BY <2>1, <2>2
  <1>4. registered' \in [Node -> SUBSET Service]
    <2>1. CASE Register(n, s)
      <3>1. registered' = [registered EXCEPT ![n] = @ \cup {s}] \/ registered' = registered
        BY <2>1, TypeFields DEF Register
      <3> QED BY <3>1, TypeFields
    <2>2. CASE Unregister(n, s)
      BY <2>2, TypeFields DEF Unregister
    <2> QED BY <2>1, <2>2
  <1>5. subs' \in [Node -> SUBSET Topic]
    <2>1. CASE Register(n, s)
      <3>1. PICK r \in SubResult(n, ReqTopic(s)) : subs' = [subs EXCEPT ![n] = r.subs]
        BY <2>1 DEF Register
      <3> QED BY <3>1, TypeFields, SubTyped, TopicTyped
    <2>2. CASE Unregister(n, s)
      BY <2>2, TypeFields DEF Unregister
    <2> QED BY <2>1, <2>2
  <1> QED BY <1>1, <1>2, <1>3, <1>4, <1>5, TypeFields DEF TypeInv, TypeOK


LEMMA ThreadFields ==
  ASSUME TypeInv, NEW t \in Thread
  PROVE  /\ thread[t] \in ThreadType
         /\ thread[t].pc \in {"idle", "count", "add", "sub", "send"}
         /\ thread[t].id \in Id
         /\ thread[t].pc # "idle" => thread[t].svc \in Service
         /\ InRequest(t) => thread[t].call \in Call
  <1>1. thread[t] \in ThreadType
    BY TypeFields
  <1> QED BY <1>1 DEF TypeInv, ThreadsBusy, ThreadType

LEMMA CallFields ==
  ASSUME TypeInv, NEW u \in Call
  PROVE  /\ call[u] \in CallType
         /\ call[u].st \in {"free", "made", "sent", "refused", "gone"}
         /\ call[u].node \in Node /\ call[u].svc \in Service \cup {<<>>}
         /\ call[u].due \in BOOLEAN /\ call[u].cbs \in 0..2 /\ call[u].ok \in BOOLEAN
  <1>1. call[u] \in CallType
    BY TypeFields
  <1> QED BY <1>1 DEF CallType

\* What Returns leaves: the thread is idle, and its call has an outcome.
Outcome(b) == IF b THEN "sent" ELSE "refused"
LEMMA Returned ==
  ASSUME ServicesAssumption, TypeInv, NEW t \in Thread, InRequest(t),
         NEW b \in BOOLEAN, Returns(t, b)
  PROVE  /\ thread' \in [Thread -> ThreadType] /\ call' \in [Call -> CallType]
         /\ thread'[t] = IdleThread
         /\ \A s \in Thread \ {t} : thread'[s] = thread[s]
         /\ call'[thread[t].call] = [call[thread[t].call] EXCEPT !.st = Outcome(b)]
         /\ \A u \in Call \ {thread[t].call} : call'[u] = call[u]
         /\ ThreadsBusy'
  <1>1. thread \in [Thread -> ThreadType] /\ call \in [Call -> CallType]
        /\ thread[t].call \in Call
    BY TypeFields, ThreadFields
  <1>2. thread' = [thread EXCEPT ![t] = IdleThread]
    BY DEF Returns
  <1> DEFINE v == thread[t].call
             c == [call[v] EXCEPT !.st = Outcome(b)]
  <1>3. call' = [call EXCEPT ![v] = c]
    BY <1>1 DEF Returns, Outcome
  <1>4. c \in CallType
    BY <1>1 DEF CallType, Outcome
  <1>5. v \in Call /\ c = [call[v] EXCEPT !.st = Outcome(b)]
    BY <1>1
  <1> HIDE DEF c, v
  <1>6. call' \in [Call -> CallType] /\ call'[v] = c
        /\ \A u \in Call \ {v} : call'[u] = call[u]
    BY <1>1, <1>3, <1>4, <1>5
  <1>7. thread' \in [Thread -> ThreadType] /\ thread'[t] = IdleThread
        /\ \A s \in Thread \ {t} : thread'[s] = thread[s]
    BY <1>1, <1>2, IdleTyped
  <1>8. ThreadsBusy'
    BY <1>7 DEF TypeInv, ThreadsBusy, InRequest, IdleThread
  <1> QED BY <1>5, <1>6, <1>7, <1>8 DEF v

LEMMA CreateTyped ==
  ASSUME ServicesAssumption, TypeInv, NEW t \in Thread, NEW s \in Service,
         CreateNode(t, s)
  PROVE  TypeInv'
  <1> DEFINE w == [pc |-> "count", svc |-> s, id |-> count[Home[t]], call |-> NoCall]
  <1>1. thread' = [thread EXCEPT ![t] = w]
        /\ UNCHANGED <<services, registered, subs, requests, count, call, inbox, resets>>
    BY DEF CreateNode
  <1>2. w \in ThreadType /\ w.pc = "count" /\ w.svc \in Service
    BY TypeFields DEF ThreadType, ServicesAssumption
  <1> HIDE DEF w
  <1>3. thread' \in [Thread -> ThreadType] /\ thread'[t] = w
        /\ \A z \in Thread \ {t} : thread'[z] = thread[z]
    BY <1>1, <1>2, TypeFields
  <1>4. ThreadsBusy'
    BY <1>2, <1>3 DEF TypeInv, ThreadsBusy, InRequest
  <1> QED BY <1>1, <1>3, <1>4, TypeFields
      DEF TypeInv, TypeOK, ThreadType, CallType, AnswerType

\* The fields of a thread that goes on to the next step.
LEMMA Gone ==
  ASSUME TypeInv, NEW t \in Thread, NEW pc \in {"idle", "count", "add", "sub", "send"},
         Goes(t, pc)
  PROVE  /\ thread' \in [Thread -> ThreadType]
         /\ thread'[t] = [thread[t] EXCEPT !.pc = pc]
         /\ \A z \in Thread \ {t} : thread'[z] = thread[z]
  <1> DEFINE w == [thread[t] EXCEPT !.pc = pc]
  <1>1. thread \in [Thread -> ThreadType]
    BY TypeFields
  <1>2. thread' = [thread EXCEPT ![t] = w]
    BY <1>1 DEF Goes
  <1>3. w \in ThreadType
    BY <1>1 DEF ThreadType
  <1> HIDE DEF w
  <1>4. thread' \in [Thread -> ThreadType] /\ thread'[t] = w
        /\ \A z \in Thread \ {t} : thread'[z] = thread[z]
    BY <1>1, <1>2, <1>3
  <1> QED BY <1>4 DEF w

LEMMA CountUpTyped ==
  ASSUME ServicesAssumption, TypeInv, NEW t \in Thread, CountUp(t)
  PROVE  TypeInv'
  <1>1. /\ thread[t].pc = "count" /\ Goes(t, "add")
        /\ count' = [count EXCEPT ![Home[t]] = (thread[t].id + 1) % IdSpace]
        /\ UNCHANGED <<services, registered, subs, requests, call, inbox, resets>>
    BY DEF CountUp, At
  <1>2. (thread[t].id + 1) % IdSpace \in Id
    BY ThreadFields DEF Id, ServicesAssumption
  <1>3. count' \in [Node -> Id]
    BY <1>1, <1>2, TypeFields
  <1>4. thread[t].svc \in Service /\ thread[t] \in ThreadType
    BY <1>1, ThreadFields
  <1>5. thread'[t].pc = "add" /\ thread'[t].svc \in Service
    BY <1>1, <1>4, Gone, ZenonT(30) DEF ThreadType
  <1>6. ThreadsBusy'
    BY <1>1, <1>5, Gone, ZenonT(30) DEF TypeInv, ThreadsBusy, InRequest
  <1>7. thread' \in [Thread -> ThreadType]
    BY <1>1, Gone
  <1> QED BY <1>1, <1>3, <1>6, <1>7, TypeFields
      DEF TypeInv, TypeOK, ThreadType, CallType, AnswerType

\* What AddRequest leaves: a new call and, if the table could be locked, its
\* request.
NewCall(t, locked) ==
  [call[NextCall] EXCEPT !.st = IF locked THEN "made" ELSE "refused",
                         !.node = Home[t], !.svc = thread[t].svc]
NewRequest(t) == [id |-> thread[t].id, call |-> NextCall]
InTable(t) == [thread[t] EXCEPT !.pc = "sub", !.call = NextCall]

LEMMA Added ==
  ASSUME ServicesAssumption, TypeInv, NEW t \in Thread, AddRequest(t)
  PROVE  /\ thread[t].pc = "add" /\ NextCall \in Call
         /\ \E locked \in BOOLEAN :
              /\ call' = [call EXCEPT ![NextCall] = NewCall(t, locked)]
              /\ requests' = IF locked
                             THEN [requests EXCEPT ![Home[t]] = @ \cup {NewRequest(t)}]
                             ELSE requests
              /\ thread' = [thread EXCEPT ![t] = IF locked THEN InTable(t) ELSE IdleThread]
         /\ UNCHANGED <<services, registered, subs, count, inbox, resets>>
  <1>1. call \in [Call -> CallType] /\ thread \in [Thread -> ThreadType]
    BY TypeFields
  <1>2. NextCall \in Call /\ thread[t].pc = "add"
        /\ UNCHANGED <<services, registered, subs, count, inbox, resets>>
    BY DEF AddRequest, At
  <1>3. PICK locked \in OK :
          /\ call' = [call EXCEPT ![NextCall].st = IF locked THEN "made" ELSE "refused",
                                  ![NextCall].node = Home[t],
                                  ![NextCall].svc = thread[t].svc]
          /\ IF locked
             THEN /\ requests' = [requests EXCEPT ![Home[t]] =
                                     @ \cup {[id |-> thread[t].id, call |-> NextCall]}]
                  /\ thread' = [thread EXCEPT ![t].pc = "sub", ![t].call = NextCall]
             ELSE /\ thread' = [thread EXCEPT ![t] = IdleThread]
                  /\ UNCHANGED requests
    BY DEF AddRequest
  <1>4. locked \in BOOLEAN
    BY Oracle
  <1>5. call' = [call EXCEPT ![NextCall] = NewCall(t, locked)]
    BY <1>1, <1>2, <1>3 DEF NewCall
  <1>6. thread' = [thread EXCEPT ![t] = IF locked THEN InTable(t) ELSE IdleThread]
    <2>1. CASE locked
      BY <1>1, <1>3, <2>1 DEF InTable
    <2>2. CASE ~locked
      BY <1>1, <1>3, <2>2
    <2> QED BY <2>1, <2>2
  <1>7. requests' = IF locked
                    THEN [requests EXCEPT ![Home[t]] = @ \cup {NewRequest(t)}]
                    ELSE requests
    <2>1. CASE locked
      BY <1>1, <1>3, <2>1 DEF NewRequest
    <2>2. CASE ~locked
      BY <1>1, <1>3, <2>2
    <2> QED BY <2>1, <2>2
  <1> QED BY <1>2, <1>4, <1>5, <1>6, <1>7

LEMMA NewTyped ==
  ASSUME ServicesAssumption, TypeInv, NEW t \in Thread, thread[t].pc = "add",
         NextCall \in Call, NEW locked \in BOOLEAN
  PROVE  /\ NewCall(t, locked) \in CallType
         /\ NewRequest(t) \in [id : Id, call : Call]
         /\ InTable(t) \in ThreadType
         /\ InTable(t).pc = "sub" /\ InTable(t).call = NextCall
         /\ InTable(t).svc = thread[t].svc /\ InTable(t).id = thread[t].id
  <1>1. call[NextCall] \in CallType /\ thread[t] \in ThreadType /\ Home[t] \in Node
    BY TypeFields DEF ServicesAssumption
  <1>2. thread[t].svc \in Service \cup {<<>>} /\ thread[t].id \in Id
    BY <1>1 DEF ThreadType
  <1>3. NewCall(t, locked) \in CallType
    BY <1>1, <1>2 DEF NewCall, CallType
  <1>4. NewRequest(t) \in [id : Id, call : Call]
    BY <1>2 DEF NewRequest
  <1>5. InTable(t) \in ThreadType
         /\ InTable(t).pc = "sub" /\ InTable(t).call = NextCall
         /\ InTable(t).svc = thread[t].svc /\ InTable(t).id = thread[t].id
    BY <1>1 DEF InTable, ThreadType
  <1> QED BY <1>3, <1>4, <1>5

LEMMA AddTyped ==
  ASSUME ServicesAssumption, TypeInv, NEW t \in Thread, AddRequest(t)
  PROVE  TypeInv'
  <1>1. PICK locked \in BOOLEAN :
          /\ call' = [call EXCEPT ![NextCall] = NewCall(t, locked)]
          /\ requests' = IF locked
                         THEN [requests EXCEPT ![Home[t]] = @ \cup {NewRequest(t)}]
                         ELSE requests
          /\ thread' = [thread EXCEPT ![t] = IF locked THEN InTable(t) ELSE IdleThread]
    BY Added
  <1>2. thread[t].pc = "add" /\ NextCall \in Call
        /\ UNCHANGED <<services, registered, subs, count, inbox, resets>>
    BY Added
  <1>3. call' \in [Call -> CallType]
    BY <1>1, <1>2, NewTyped, TypeFields
  <1>4. requests' \in [Node -> SUBSET [id : Id, call : Call]]
    BY <1>1, <1>2, NewTyped, TypeFields
  <1> DEFINE w == IF locked THEN InTable(t) ELSE IdleThread
  <1>5. w \in ThreadType /\ (w.pc # "idle" => w.svc \in Service /\ w.call \in Call)
    <2>1. CASE locked
      BY <1>2, <2>1, NewTyped, ThreadFields
    <2>2. CASE ~locked
      BY <2>2, IdleTyped DEF IdleThread
    <2> QED BY <2>1, <2>2
  <1>6. thread' = [thread EXCEPT ![t] = w]
    BY <1>1
  <1> HIDE DEF w
  <1>7. thread' \in [Thread -> ThreadType] /\ thread'[t] = w
        /\ \A z \in Thread \ {t} : thread'[z] = thread[z]
    BY <1>5, <1>6, TypeFields
  <1>8. ThreadsBusy'
    BY <1>5, <1>7 DEF TypeInv, ThreadsBusy, InRequest
  <1> QED BY <1>2, <1>3, <1>4, <1>7, <1>8, TypeFields
      DEF TypeInv, TypeOK, ThreadType, CallType, AnswerType

LEMMA SubToReplyTyped ==
  ASSUME ServicesAssumption, TypeInv, NEW t \in Thread, SubToReply(t)
  PROVE  TypeInv'
  <1>1. thread[t].pc = "sub" /\ InRequest(t)
        /\ UNCHANGED <<services, registered, requests, count, inbox, resets>>
    BY DEF SubToReply, At, InRequest
  <1>2. PICK r \in SubResult(Home[t], RepTopic(thread[t].svc)) :
          /\ subs' = [subs EXCEPT ![Home[t]] = r.subs]
          /\ IF r.ok THEN Goes(t, "send") /\ UNCHANGED call ELSE Returns(t, FALSE)
    BY DEF SubToReply
  <1>3. thread[t].svc \in Service /\ thread[t].call \in Call /\ Home[t] \in Node
        /\ thread[t] \in ThreadType
    BY <1>1, ThreadFields DEF ServicesAssumption
  <1>4. subs' \in [Node -> SUBSET Topic]
    BY <1>2, <1>3, SubTyped, TopicTyped, TypeFields
  <1>5. thread' \in [Thread -> ThreadType] /\ call' \in [Call -> CallType] /\ ThreadsBusy'
    <2>1. CASE r.ok
      <3>1. Goes(t, "send") /\ call' = call
        BY <1>2, <2>1
      <3>2. thread'[t].pc = "send" /\ thread'[t].svc \in Service /\ thread'[t].call \in Call
        BY <1>3, <3>1, Gone, ZenonT(30) DEF ThreadType
      <3>3. ThreadsBusy'
        BY <3>1, <3>2, Gone DEF TypeInv, ThreadsBusy, InRequest
      <3> QED BY <3>1, <3>3, Gone, TypeFields
    <2>2. CASE ~r.ok
      <3>1. Returns(t, FALSE)
        BY <1>2, <2>2
      <3> QED BY <1>1, <3>1, Returned
    <2> QED BY <2>1, <2>2
  <1> QED BY <1>1, <1>4, <1>5, TypeFields
      DEF TypeInv, TypeOK, ThreadType, CallType, AnswerType

LEMMA SendRequestTyped ==
  ASSUME ServicesAssumption, TypeInv, NEW t \in Thread, SendRequest(t)
  PROVE  TypeInv'
  <1>1. thread[t].pc = "send" /\ InRequest(t)
        /\ UNCHANGED <<services, registered, subs, requests, count, resets>>
    BY DEF SendRequest, At, InRequest
  <1>2. PICK i \in IdRead(t), buffer \in OK, sent \in OK :
          /\ inbox' = IF buffer
                      THEN Published(inbox, Home[t],
                                     Request(thread[t].svc, Home[t], i, thread[t].call),
                                     ReqTopic(thread[t].svc) \in subs[Home[t]], sent)
                      ELSE inbox
          /\ Returns(t, buffer /\ sent)
    BY DEF SendRequest
  <1>3. thread[t].svc \in Service /\ thread[t].call \in Call /\ Home[t] \in Node
        /\ i \in Id
    BY <1>1, ThreadFields DEF ServicesAssumption, IdRead
  <1>4. Request(thread[t].svc, Home[t], i, thread[t].call) \in Message
    BY <1>3 DEF Request, Message
  <1>5. inbox' \in [Node -> SUBSET Message]
    BY <1>2, <1>4, PublishedTyped, TypeFields
  <1>6. PICK b \in BOOLEAN : Returns(t, b)
    BY <1>2
  <1>7. thread' \in [Thread -> ThreadType] /\ call' \in [Call -> CallType] /\ ThreadsBusy'
    BY <1>1, <1>6, Returned
  <1> QED BY <1>1, <1>5, <1>7, TypeFields
      DEF TypeInv, TypeOK, ThreadType, CallType, AnswerType

LEMMA OldestIsOne ==
  ASSUME NEW R \in SUBSET [id : Id, call : Call], R # {}
  PROVE  Oldest(R) \in R
  <1> DEFINE K == {r.call : r \in R}
  <1>1. K \in SUBSET Nat /\ K # {}
    BY DEF Call
  <1>2. PICK r \in R : r.call = First(K)
    BY <1>1, LeastExists
  <1>3. \A q \in R : r.call <= q.call
    BY <1>1, <1>2, LeastExists
  <1> QED BY <1>3 DEF Oldest

\* The request a reply is for.
LEMMA ExpectedIsOne ==
  ASSUME TypeInv, NEW n \in Node, NEW m, Expected(n, m) # {}
  PROVE  /\ Oldest(Expected(n, m)) \in requests[n]
         /\ Oldest(Expected(n, m)).call \in Call
         /\ Oldest(Expected(n, m)).id = m.id /\ m.node = n
  <1>1. requests[n] \in SUBSET [id : Id, call : Call]
    BY TypeFields
  <1>2. Expected(n, m) \in SUBSET [id : Id, call : Call]
    BY <1>1 DEF Expected
  <1>3. Oldest(Expected(n, m)) \in Expected(n, m)
    BY <1>2, OldestIsOne
  <1> QED BY <1>1, <1>3 DEF Expected

LEMMA CallBackTyped ==
  ASSUME TypeInv, NEW u \in Call, NEW ok \in BOOLEAN, NEW a \in AnswerType
  PROVE  /\ CallBack(u, ok, a) \in CallType
         /\ CallBack(u, ok, a).cbs = IF call[u].cbs < 2 THEN call[u].cbs + 1 ELSE call[u].cbs
         /\ CallBack(u, ok, a).ok = ok /\ CallBack(u, ok, a).answer = a
         /\ CallBack(u, ok, a).st = call[u].st /\ CallBack(u, ok, a).node = call[u].node
         /\ CallBack(u, ok, a).svc = call[u].svc /\ CallBack(u, ok, a).due = call[u].due
  <1> DEFINE k == IF call[u].cbs < 2 THEN call[u].cbs + 1 ELSE call[u].cbs
  <1>1. call[u] \in CallType
    BY CallFields
  <1>2. CallBack(u, ok, a) = [call[u] EXCEPT !.cbs = k, !.ok = ok, !.answer = a]
    BY DEF CallBack
  <1>3. k \in 0..2
    BY CallFields
  <1> HIDE DEF k
  <1>4. CallBack(u, ok, a) \in CallType /\ CallBack(u, ok, a).cbs = k
        /\ CallBack(u, ok, a).ok = ok /\ CallBack(u, ok, a).answer = a
        /\ CallBack(u, ok, a).st = call[u].st /\ CallBack(u, ok, a).node = call[u].node
        /\ CallBack(u, ok, a).svc = call[u].svc /\ CallBack(u, ok, a).due = call[u].due
    BY <1>1, <1>2, <1>3 DEF CallType
  <1> QED BY <1>4 DEF k

LEMMA MiddlewareTyped ==
  ASSUME ServicesAssumption, TypeInv, NEW n \in Node, Middleware(n)
  PROVE  TypeInv'
  <1>0. inbox \in [Node -> SUBSET Message]
    BY TypeFields
  <1>1. PICK m \in inbox[n] : Drop(n, m) \/ ServeRequest(n, m) \/ TakeReply(n, m)
    BY DEF Middleware
  <1>2. m \in Message /\ [inbox EXCEPT ![n] = @ \ {m}] \in [Node -> SUBSET Message]
    BY <1>0
  <1>3. UNCHANGED <<services, registered, subs, count, thread, resets>>
    BY <1>1 DEF Drop, ServeRequest, TakeReply
  <1>4. inbox' \in [Node -> SUBSET Message]
    <2>1. CASE ServeRequest(n, m)
      <3>1. services[n][First(Candidates(n, m.svc))] = m.svc
        BY <2>1 DEF ServeRequest, Serves
      <3>2. Reply(m, m.svc) \in Message
        BY <1>2 DEF Reply, Message
      <3>3. PICK sent \in OK :
              inbox' = Published([inbox EXCEPT ![n] = @ \ {m}], n, Reply(m, m.svc),
                                 RepTopic(m.svc) \in subs[n], sent)
        BY <2>1, <3>1 DEF ServeRequest
      <3> QED BY <1>2, <3>2, <3>3, PublishedTyped
    <2> QED BY <1>1, <1>2, <2>1 DEF Drop, TakeReply
  <1>5. call' \in [Call -> CallType] /\ requests' \in [Node -> SUBSET [id : Id, call : Call]]
    <2>1. CASE TakeReply(n, m)
      <3> DEFINE r == Oldest(Expected(n, m))
                 a == [call |-> m.call, svc |-> m.svc]
                 c == CallBack(r.call, TRUE, a)
      <3>1. call' = [call EXCEPT ![r.call] = c] /\ requests' = [requests EXCEPT ![n] = @ \ {r}]
        BY <2>1 DEF TakeReply
      <3>2. r.call \in Call
        BY <2>1, ExpectedIsOne DEF TakeReply
      <3>3. a \in AnswerType
        BY <1>2 DEF Message, AnswerType
      <3>4. c \in CallType
        BY <3>2, <3>3, CallBackTyped
      <3> HIDE DEF c, r
      <3> QED BY <3>1, <3>2, <3>4, TypeFields
    <2>2. CASE ~TakeReply(n, m)
      BY <1>1, <2>2, TypeFields DEF Drop, ServeRequest
    <2> QED BY <2>1, <2>2
  <1>6. ThreadsBusy'
    BY <1>3 DEF TypeInv, ThreadsBusy, InRequest
  <1> QED BY <1>3, <1>4, <1>5, <1>6, TypeFields
      DEF TypeInv, TypeOK, ThreadType, CallType, AnswerType

LEMMA TimeOutTyped ==
  ASSUME TypeInv, NEW n \in Node, NEW r \in requests[n], TimeOut(n, r)
  PROVE  TypeInv'
  <1>1. r.call \in Call /\ call \in [Call -> CallType]
    BY TypeFields
  <1>2. call' = [call EXCEPT ![r.call] = [call[r.call] EXCEPT !.due = TRUE]]
        /\ UNCHANGED <<services, registered, subs, requests, count, thread, inbox, resets>>
    BY <1>1 DEF TimeOut
  <1>3. [call[r.call] EXCEPT !.due = TRUE] \in CallType
    BY <1>1 DEF CallType
  <1>4. call' \in [Call -> CallType]
    BY <1>1, <1>2, <1>3
  <1>5. ThreadsBusy'
    BY <1>2 DEF TypeInv, ThreadsBusy, InRequest
  <1> QED BY <1>2, <1>4, <1>5, TypeFields
      DEF TypeInv, TypeOK, ThreadType, CallType, AnswerType

LEMMA ExpireTyped ==
  ASSUME TypeInv, NEW n \in Node, Expire(n)
  PROVE  TypeInv'
  <1>1. \A u \in Call : CallBack(u, FALSE, NoAnswer) \in CallType /\ call[u] \in CallType
    BY NoAnswerTyped, CallBackTyped, TypeFields
  <1>2. call' \in [Call -> CallType]
    BY <1>1 DEF Expire
  <1>3. requests' \in [Node -> SUBSET [id : Id, call : Call]]
        /\ UNCHANGED <<services, registered, subs, count, thread, inbox, resets>>
    BY TypeFields DEF Expire
  <1>4. ThreadsBusy'
    BY <1>3 DEF TypeInv, ThreadsBusy, InRequest
  <1> QED BY <1>2, <1>3, <1>4, TypeFields
      DEF TypeInv, TypeOK, ThreadType, CallType, AnswerType

LEMMA ResetTyped ==
  ASSUME ServicesAssumption, TypeInv, NEW n \in Node, Reset(n)
  PROVE  TypeInv'
  <1>1. \A u \in Call : call[u] \in CallType /\ [call[u] EXCEPT !.st = "gone"] \in CallType
    BY TypeFields, ZenonT(30) DEF CallType
  <1>2. call' \in [Call -> CallType]
    BY <1>1 DEF Reset
  <1>3. thread' \in [Thread -> ThreadType]
    BY TypeFields, IdleTyped DEF Reset
  <1>4. ThreadsBusy'
    <2>1. ASSUME NEW t \in Thread PROVE thread'[t] \in {thread[t], IdleThread}
      BY DEF Reset
    <2> QED BY <2>1 DEF TypeInv, ThreadsBusy, InRequest, IdleThread
  <1>5. /\ services' \in [Node -> Seq(Service)]
        /\ registered' \in [Node -> SUBSET Service]
        /\ subs' \in [Node -> SUBSET Topic]
        /\ requests' \in [Node -> SUBSET [id : Id, call : Call]]
        /\ count' \in [Node -> Id]
        /\ inbox' \in [Node -> SUBSET Message]
    BY TypeFields, IdleTyped DEF Reset
  <1>6. resets' \in 0..MaxResets
    BY TypeFields DEF Reset, ServicesAssumption
  <1> QED BY <1>2, <1>3, <1>4, <1>5, <1>6
      DEF TypeInv, TypeOK, ThreadType, CallType, AnswerType

LEMMA NextTyped ==
  ASSUME ServicesAssumption PROVE TypeInv /\ [Next]_vars => TypeInv'
  <1> SUFFICES ASSUME TypeInv, [Next]_vars PROVE TypeInv'
    OBVIOUS
  <1>1. CASE UNCHANGED vars
    BY <1>1 DEF vars, TypeInv, TypeOK, ThreadsBusy, InRequest
  <1>2. ASSUME NEW t \in Thread, Application(t) PROVE TypeInv'
    BY <1>2, CreateTyped, CountUpTyped, AddTyped, SubToReplyTyped, SendRequestTyped
       DEF Application
  <1>3. ASSUME NEW n \in Node, NEW s \in Service, Register(n, s) \/ Unregister(n, s)
        PROVE  TypeInv'
    BY <1>3, RegistryTyped
  <1>4. ASSUME NEW n \in Node, Middleware(n) \/ Expire(n) \/ Reset(n) PROVE TypeInv'
    BY <1>4, MiddlewareTyped, ExpireTyped, ResetTyped
  <1>5. ASSUME NEW n \in Node, NEW r \in requests[n], TimeOut(n, r) PROVE TypeInv'
    BY <1>5, TimeOutTyped
  <1> QED BY <1>1, <1>2, <1>3, <1>4, <1>5 DEF Next

\* Every variable has its type, for any nodes, threads, services and bounds.
THEOREM TypeCorrect ==
  ASSUME ServicesAssumption PROVE Spec => []TypeOK
  <1>1. Init => TypeInv
    BY InitTyped
  <1>2. TypeInv /\ [Next]_vars => TypeInv'
    BY NextTyped
  <1>3. TypeInv => TypeOK
    BY DEF TypeInv
  <1> QED BY <1>1, <1>2, <1>3, PTL DEF Spec

-----------------------------------------------------------------------------
(* A request is answered once *)

\* The steps that add no request: some requests may go, and a call whose
\* request goes may be called back.
Fewer ==
  /\ \A n \in Node : requests'[n] \subseteq requests[n]
  /\ \A u \in Call : call'[u].st = "free" <=> call[u].st = "free"
  /\ \A u \in Call : \/ call'[u].cbs = call[u].cbs
                     \/ /\ call[u].cbs = 0 /\ call'[u].cbs = 1 /\ call[u].st # "free"
                        /\ \A n \in Node : \A r \in requests'[n] : r.call # u
  /\ \A t \in Thread : InRequest(t)' => InRequest(t) /\ thread'[t].call = thread[t].call

LEMMA FewerOnce ==
  ASSUME TypeInv, TypeInv', OnceInv, Fewer
  PROVE  OnceInv'
  <1>1. \A n \in Node : requests[n] \in SUBSET [id : Id, call : Call]
    BY TypeFields
  <1>2. \A u \in Call : call[u].cbs \in 0..2
    BY CallFields
  <1>3. CallsInOrder'
    BY DEF OnceInv, CallsInOrder, Fewer
  <1>D. DOMAIN call = Call /\ DOMAIN call' = Call
    BY DEF TypeInv, TypeOK
  <1>4. AnsweredOnce'
    BY <1>2, <1>D DEF OnceInv, AnsweredOnce, Fewer
  <1>5. \A n \in Node : \A r \in requests'[n] :
          call'[r.call].st # "free" /\ call'[r.call].cbs = 0
    BY <1>1 DEF OnceInv, WaitingOnce, Fewer
  <1>6. \A n, m \in Node : \A r \in requests'[n], q \in requests'[m] :
          r.call = q.call => n = m /\ r = q
    BY DEF OnceInv, WaitingOnce, Fewer
  <1>7. \A u \in Call : call'[u].st = "free" => call'[u].cbs = 0
    BY DEF OnceInv, WaitingOnce, Fewer
  <1>8. ASSUME NEW t \in Thread, InRequest(t)' PROVE call'[thread'[t].call].st # "free"
    <2>1. InRequest(t) /\ thread'[t].call = thread[t].call /\ thread[t].call \in Call
      BY <1>8, ThreadFields DEF Fewer
    <2> QED BY <2>1 DEF OnceInv, WaitingOnce, Fewer
  <1> QED BY <1>3, <1>4, <1>5, <1>6, <1>7, <1>8 DEF OnceInv, WaitingOnce

\* The numbers of the calls made so far.
LEMMA StartedCounted ==
  ASSUME TypeInv, ServicesAssumption, CallsInOrder
  PROVE  /\ Started = 1..Cardinality(Started)
         /\ Cardinality(Started) \in 0..MaxCalls
         /\ NextCall \in Call => call[NextCall].st = "free"
  <1>1. PICK k \in 0..MaxCalls : \A u \in Call : call[u].st # "free" <=> u <= k
    BY DEF CallsInOrder
  <1>2. Started = 1..k
    BY <1>1 DEF Started, Call, ServicesAssumption
  <1>3. Cardinality(Started) = k
    BY <1>2, FS_Interval
  <1> QED BY <1>1, <1>2, <1>3 DEF NextCall, ServicesAssumption

LEMMA ReturnsFewer ==
  ASSUME ServicesAssumption, TypeInv, OnceInv, NEW t \in Thread, InRequest(t),
         NEW b \in BOOLEAN, Returns(t, b), UNCHANGED requests
  PROVE  Fewer
  <1>1. thread[t].call \in Call /\ call[thread[t].call].st # "free"
    BY ThreadFields DEF OnceInv, WaitingOnce
  <1>2. call[thread[t].call] \in CallType
    BY <1>1, CallFields
  <1>3. call'[thread[t].call].st = Outcome(b)
        /\ call'[thread[t].call].cbs = call[thread[t].call].cbs
    <2>1. call'[thread[t].call] = [call[thread[t].call] EXCEPT !.st = Outcome(b)]
      BY Returned
    <2> QED BY <1>2, <2>1 DEF CallType
  <1>4. \A u \in Call : /\ call'[u].st = "free" <=> call[u].st = "free"
                        /\ call'[u].cbs = call[u].cbs
    BY <1>1, <1>3, Returned DEF Outcome
  <1>5. thread'[t].pc = "idle" /\ \A s \in Thread \ {t} : thread'[s] = thread[s]
    <2>1. thread'[t] = IdleThread /\ \A s \in Thread \ {t} : thread'[s] = thread[s]
      BY Returned
    <2> QED BY <2>1 DEF IdleThread
  <1>6. \A s \in Thread : InRequest(s)' => InRequest(s) /\ thread'[s].call = thread[s].call
    BY <1>5 DEF InRequest
  <1> QED BY <1>4, <1>6 DEF Fewer

LEMMA QuietFewer ==
  ASSUME TypeInv, UNCHANGED <<requests, call>>,
         \A t \in Thread : InRequest(t)' => InRequest(t) /\ thread'[t].call = thread[t].call
  PROVE  Fewer
  BY DEF Fewer

LEMMA TakeReplyFewer ==
  ASSUME TypeInv, OnceInv, NEW n \in Node, NEW m \in inbox[n], TakeReply(n, m)
  PROVE  Fewer
  <1> DEFINE r == Oldest(Expected(n, m))
             a == [call |-> m.call, svc |-> m.svc]
             c == CallBack(r.call, TRUE, a)
  <1>1. /\ call' = [call EXCEPT ![r.call] = c]
        /\ requests' = [requests EXCEPT ![n] = @ \ {r}]
        /\ thread' = thread
    BY DEF TakeReply
  <1>2. r.call \in Call /\ r \in requests[n]
    BY ExpectedIsOne DEF TakeReply
  <1>3. a \in AnswerType
    BY TypeFields DEF Message, AnswerType
  <1>4. call[r.call].cbs = 0 /\ call[r.call].st # "free"
    BY <1>2 DEF OnceInv, WaitingOnce
  <1>5. c.st = call[r.call].st /\ c.cbs = 1
    <2>1. /\ c.cbs = IF call[r.call].cbs < 2 THEN call[r.call].cbs + 1 ELSE call[r.call].cbs
          /\ c.st = call[r.call].st
      BY <1>2, <1>3, CallBackTyped
    <2> HIDE DEF c, r
    <2> QED BY <1>4, <2>1
  <1> HIDE DEF c, r
  <1>6. \A u \in Call : call'[u] = IF u = r.call THEN c ELSE call[u]
    BY <1>1, <1>2, TypeFields
  <1>7. \A k \in Node : requests'[k] = IF k = n THEN requests[k] \ {r} ELSE requests[k]
    BY <1>1, TypeFields
  <1>8. \A k \in Node : \A q \in requests'[k] : q.call # r.call
    <2>1. ASSUME NEW k \in Node, NEW q \in requests'[k], q.call = r.call PROVE FALSE
      <3>1. q \in requests[k] /\ (k = n => q # r)
        BY <1>7
      <3> QED BY <1>2, <2>1, <3>1 DEF OnceInv, WaitingOnce
    <2> QED BY <2>1
  <1>9. \A u \in Call : /\ call'[u].st = "free" <=> call[u].st = "free"
                        /\ \/ call'[u].cbs = call[u].cbs
                           \/ /\ call[u].cbs = 0 /\ call'[u].cbs = 1 /\ call[u].st # "free"
                              /\ u = r.call
    BY <1>4, <1>5, <1>6
  <1> QED BY <1>1, <1>7, <1>8, <1>9 DEF Fewer, InRequest

LEMMA ExpireFewer ==
  ASSUME TypeInv, OnceInv, NEW n \in Node, Expire(n)
  PROVE  Fewer
  <1>1. /\ requests' = [requests EXCEPT ![n] = @ \ Due(n)]
        /\ thread' = thread
        /\ \A u \in Call : call'[u] = IF \E r \in Due(n) : r.call = u
                                      THEN CallBack(u, FALSE, NoAnswer) ELSE call[u]
    BY DEF Expire
  <1>2. \A k \in Node : requests'[k] = IF k = n THEN requests[k] \ Due(n) ELSE requests[k]
    BY <1>1, TypeFields
  <1>3. ASSUME NEW u \in Call, \E r \in Due(n) : r.call = u
        PROVE  /\ call[u].cbs = 0 /\ call'[u].cbs = 1 /\ call[u].st # "free"
               /\ call'[u].st = call[u].st
               /\ \A k \in Node : \A q \in requests'[k] : q.call # u
    <2>1. PICK r \in Due(n) : r.call = u
      BY <1>3
    <2>2. r \in requests[n]
      BY DEF Due
    <2>3. call[u].cbs = 0 /\ call[u].st # "free"
      BY <2>1, <2>2 DEF OnceInv, WaitingOnce
    <2>4. call'[u].cbs = 1 /\ call'[u].st = call[u].st
      <3> DEFINE c == CallBack(u, FALSE, NoAnswer)
      <3>1. /\ c.cbs = IF call[u].cbs < 2 THEN call[u].cbs + 1 ELSE call[u].cbs
            /\ c.st = call[u].st
        BY CallBackTyped, NoAnswerTyped
      <3>2. call'[u] = c
        BY <1>1, <2>1
      <3> HIDE DEF c
      <3> QED BY <2>3, <3>1, <3>2
    <2>5. \A k \in Node : \A q \in requests'[k] : q.call # u
      <3>1. ASSUME NEW k \in Node, NEW q \in requests'[k], q.call = u PROVE FALSE
        <4>1. q \in requests[k] /\ (k = n => q # r)
          BY <1>2
        <4> QED BY <2>1, <2>2, <3>1, <4>1 DEF OnceInv, WaitingOnce
      <3> QED BY <3>1
    <2> QED BY <2>3, <2>4, <2>5
  <1>4. \A u \in Call : (\E r \in Due(n) : r.call = u) \/ call'[u] = call[u]
    BY <1>1
  <1>5. \A k \in Node : requests'[k] \subseteq requests[k]
    BY <1>2
  <1> QED BY <1>1, <1>3, <1>4, <1>5 DEF Fewer, InRequest

LEMMA ResetFewer ==
  ASSUME TypeInv, NEW n \in Node, Reset(n)
  PROVE  Fewer
  <1>1. /\ requests' = [requests EXCEPT ![n] = {}]
        /\ \A u \in Call : call'[u] = IF call[u].node = n /\ call[u].st # "free"
                                      THEN [call[u] EXCEPT !.st = "gone"] ELSE call[u]
        /\ \A t \in Thread : thread'[t] = IF Home[t] = n THEN IdleThread ELSE thread[t]
    BY DEF Reset
  <1>2. \A u \in Call : /\ call'[u].st = "free" <=> call[u].st = "free"
                        /\ call'[u].cbs = call[u].cbs
    <2>1. ASSUME NEW u \in Call, call[u].st # "free"
          PROVE  LET c == [call[u] EXCEPT !.st = "gone"]
                 IN  c.st # "free" /\ c.cbs = call[u].cbs
      BY CallFields DEF CallType
    <2> QED BY <1>1, <2>1
  <1>3. \A k \in Node : requests'[k] \subseteq requests[k]
    BY <1>1, TypeFields
  <1>4. \A t \in Thread : InRequest(t)' => InRequest(t) /\ thread'[t].call = thread[t].call
    BY <1>1 DEF InRequest, IdleThread
  <1> QED BY <1>2, <1>3, <1>4 DEF Fewer

LEMMA TimeOutFewer ==
  ASSUME TypeInv, NEW n \in Node, NEW r \in requests[n], TimeOut(n, r)
  PROVE  Fewer
  <1>1. r.call \in Call /\ call \in [Call -> CallType]
    BY TypeFields
  <1>2. call' = [call EXCEPT ![r.call] = [call[r.call] EXCEPT !.due = TRUE]]
        /\ requests' = requests /\ thread' = thread
    BY <1>1 DEF TimeOut
  <1>3. call[r.call] \in CallType
    BY <1>1
  <1> DEFINE c == [call[r.call] EXCEPT !.due = TRUE]
  <1>4. c.st = call[r.call].st /\ c.cbs = call[r.call].cbs
    BY <1>3 DEF CallType
  <1>5. call' = [call EXCEPT ![r.call] = c]
    BY <1>2
  <1> HIDE DEF c
  <1>6. \A u \in Call : call'[u].st = call[u].st /\ call'[u].cbs = call[u].cbs
    BY <1>1, <1>4, <1>5
  <1> QED BY <1>2, <1>6 DEF Fewer, InRequest

\* AddRequest takes the next number, which no request, thread or answer has.
LEMMA AddOnce ==
  ASSUME ServicesAssumption, TypeInv, TypeInv', OnceInv, NEW t \in Thread, AddRequest(t)
  PROVE  OnceInv'
  <1> DEFINE v == NextCall
             n == Home[t]
             q == NewRequest(t)
  <1>1. PICK locked \in BOOLEAN :
          /\ call' = [call EXCEPT ![v] = NewCall(t, locked)]
          /\ requests' = IF locked THEN [requests EXCEPT ![n] = @ \cup {q}] ELSE requests
          /\ thread' = [thread EXCEPT ![t] = IF locked THEN InTable(t) ELSE IdleThread]
    BY Added
  <1>2. thread[t].pc = "add" /\ v \in Call /\ n \in Node
    BY Added DEF ServicesAssumption
  <1>3. call[v].st = "free" /\ Cardinality(Started) \in Nat /\ v = Cardinality(Started) + 1
        /\ Started = 1..Cardinality(Started)
    BY <1>2, StartedCounted DEF OnceInv, NextCall
  <1>4. call[v].cbs = 0
    BY <1>2, <1>3 DEF OnceInv, WaitingOnce
  <1> DEFINE c == NewCall(t, locked)
  <1>5. c.st # "free" /\ c.cbs = 0
    <2>1. call[v] \in CallType
      BY <1>2, CallFields
    <2> QED BY <1>4, <2>1 DEF NewCall, CallType
  <1>6. q.call = v
    BY DEF NewRequest
  <1>7. InTable(t).call = v
    BY <1>2, NewTyped
  <1> HIDE DEF v, q, c
  <1>8. \A u \in Call : call'[u] = IF u = v THEN c ELSE call[u]
    BY <1>1, <1>2, TypeFields DEF c
  <1>9. \A k \in Node : /\ requests[k] \subseteq [id : Id, call : Call]
                        /\ \A r \in requests'[k] : r \in requests[k] \/ (r = q /\ k = n)
    BY <1>1, <1>2, TypeFields
  <1>10. \A k \in Node : \A r \in requests[k] : r.call # v
    BY <1>2, <1>3 DEF OnceInv, WaitingOnce
  <1>11. CallsInOrder'
    <2>1. \A u \in Call : call[u].st # "free" <=> u <= Cardinality(Started)
      <3>1. \A u \in Call : call[u].st # "free" <=> u \in Started
        BY DEF Started
      <3> QED BY <1>3, <3>1 DEF Call
    <2>2. \A u \in Call : call'[u].st # "free" <=> u <= v
      BY <1>3, <1>5, <1>8, <2>1 DEF Call
    <2> QED BY <1>2, <2>2 DEF CallsInOrder, Call
  <1>D. DOMAIN call = Call /\ DOMAIN call' = Call
    BY DEF TypeInv, TypeOK
  <1>12. AnsweredOnce'
    BY <1>5, <1>8, <1>D DEF OnceInv, AnsweredOnce
  <1>13. \A k \in Node : \A r \in requests'[k] :
           call'[r.call].st # "free" /\ call'[r.call].cbs = 0
    BY <1>2, <1>5, <1>6, <1>8, <1>9 DEF OnceInv, WaitingOnce
  <1>14. \A k, m \in Node : \A r \in requests'[k], p \in requests'[m] :
           r.call = p.call => k = m /\ r = p
    BY <1>6, <1>9, <1>10 DEF OnceInv, WaitingOnce
  <1>15. \A u \in Call : call'[u].st = "free" => call'[u].cbs = 0
    BY <1>5, <1>8 DEF OnceInv, WaitingOnce
  <1>16. ASSUME NEW s \in Thread, InRequest(s)' PROVE call'[thread'[s].call].st # "free"
    <2>1. CASE s = t
      <3>1. thread'[t] = IF locked THEN InTable(t) ELSE IdleThread
        BY <1>1, TypeFields
      <3>2. CASE locked
        BY <1>2, <1>5, <1>7, <1>8, <2>1, <3>1, <3>2
      <3>3. CASE ~locked
        BY <1>16, <2>1, <3>1, <3>3 DEF InRequest, IdleThread
      <3> QED BY <3>2, <3>3
    <2>2. CASE s # t
      <3>1. thread'[s] = thread[s]
        BY <1>1, <2>2, TypeFields
      <3>2. InRequest(s)
        BY <1>16, <3>1 DEF InRequest
      <3>3. thread[s].call \in Call /\ call[thread[s].call].st # "free"
        BY <3>2, ThreadFields DEF OnceInv, WaitingOnce
      <3> QED BY <1>5, <1>8, <3>1, <3>3
    <2> QED BY <2>1, <2>2
  <1> QED BY <1>11, <1>12, <1>13, <1>14, <1>15, <1>16 DEF OnceInv, WaitingOnce

LEMMA InitOnce ==
  ASSUME ServicesAssumption PROVE Init => OnceInv
  <1> SUFFICES ASSUME Init PROVE OnceInv
    OBVIOUS
  <1>1. \A u \in Call : call[u].st = "free" /\ call[u].cbs = 0
    BY DEF Init
  <1>2. CallsInOrder
    BY <1>1 DEF CallsInOrder, Call, ServicesAssumption
  <1>3. \A n \in Node : requests[n] = {}
    BY DEF Init
  <1>4. \A t \in Thread : ~InRequest(t)
    BY DEF Init, InRequest, IdleThread
  <1>5. DOMAIN call = Call
    BY DEF Init
  <1> QED BY <1>1, <1>2, <1>3, <1>4, <1>5 DEF OnceInv, WaitingOnce, AnsweredOnce

LEMMA ApplicationOnce ==
  ASSUME ServicesAssumption, TypeInv, TypeInv', OnceInv, NEW t \in Thread, Application(t)
  PROVE  OnceInv'
  <1>1. CASE \E s \in Service : CreateNode(t, s)
    <2>1. PICK s \in Service : CreateNode(t, s)
      BY <1>1
    <2>2. UNCHANGED <<requests, call>> /\ thread'[t].pc = "count"
          /\ \A z \in Thread \ {t} : thread'[z] = thread[z]
      BY <2>1, TypeFields DEF CreateNode
    <2> QED BY <2>2, QuietFewer, FewerOnce DEF InRequest
  <1>2. CASE CountUp(t)
    <2>1. Goes(t, "add") /\ UNCHANGED <<requests, call>> /\ thread[t] \in ThreadType
      BY <1>2, ThreadFields DEF CountUp
    <2>2. thread'[t].pc = "add" /\ \A z \in Thread \ {t} : thread'[z] = thread[z]
      BY <2>1, Gone DEF ThreadType
    <2> QED BY <2>1, <2>2, QuietFewer, FewerOnce DEF InRequest
  <1>3. CASE AddRequest(t)
    BY <1>3, AddOnce
  <1>4. CASE SubToReply(t)
    <2>1. InRequest(t) /\ UNCHANGED requests
      BY <1>4 DEF SubToReply, At, InRequest
    <2>2. CASE Returns(t, FALSE)
      BY <2>1, <2>2, ReturnsFewer, FewerOnce
    <2>3. CASE Goes(t, "send") /\ UNCHANGED call
      <3>1. thread'[t] = [thread[t] EXCEPT !.pc = "send"]
            /\ \A z \in Thread \ {t} : thread'[z] = thread[z]
        BY <2>3, Gone
      <3>2. thread'[t].call = thread[t].call
        BY <3>1, ThreadFields DEF ThreadType
      <3> QED BY <2>1, <2>3, <3>1, <3>2, QuietFewer, FewerOnce DEF InRequest
    <2> QED BY <1>4, <2>2, <2>3 DEF SubToReply
  <1>5. CASE SendRequest(t)
    <2>1. InRequest(t) /\ UNCHANGED requests
      BY <1>5 DEF SendRequest, At, InRequest
    <2>2. PICK b \in BOOLEAN : Returns(t, b)
      BY <1>5 DEF SendRequest
    <2> QED BY <2>1, <2>2, ReturnsFewer, FewerOnce
  <1> QED BY <1>1, <1>2, <1>3, <1>4, <1>5 DEF Application

LEMMA NextOnce ==
  ASSUME ServicesAssumption PROVE TypeInv /\ TypeInv' /\ OnceInv /\ [Next]_vars => OnceInv'
  <1> SUFFICES ASSUME TypeInv, TypeInv', OnceInv, [Next]_vars PROVE OnceInv'
    OBVIOUS
  <1>1. CASE UNCHANGED vars
    BY <1>1, QuietFewer, FewerOnce DEF vars, InRequest
  <1>2. ASSUME NEW t \in Thread, Application(t) PROVE OnceInv'
    BY <1>2, ApplicationOnce
  <1>3. ASSUME NEW n \in Node, NEW s \in Service, Register(n, s) \/ Unregister(n, s)
        PROVE  OnceInv'
    <2>1. UNCHANGED <<requests, call, thread>>
      BY <1>3 DEF Register, Unregister
    <2> QED BY <2>1, QuietFewer, FewerOnce DEF InRequest
  <1>4. ASSUME NEW n \in Node, Middleware(n) PROVE OnceInv'
    <2>1. PICK m \in inbox[n] : Drop(n, m) \/ ServeRequest(n, m) \/ TakeReply(n, m)
      BY <1>4 DEF Middleware
    <2>2. CASE TakeReply(n, m)
      BY <2>2, TakeReplyFewer, FewerOnce
    <2>3. CASE Drop(n, m) \/ ServeRequest(n, m)
      <3>1. UNCHANGED <<requests, call, thread>>
        BY <2>3 DEF Drop, ServeRequest
      <3> QED BY <3>1, QuietFewer, FewerOnce DEF InRequest
    <2> QED BY <2>1, <2>2, <2>3
  <1>5. ASSUME NEW n \in Node, Expire(n) \/ Reset(n) PROVE OnceInv'
    BY <1>5, ExpireFewer, ResetFewer, FewerOnce
  <1>6. ASSUME NEW n \in Node, NEW r \in requests[n], TimeOut(n, r) PROVE OnceInv'
    BY <1>6, TimeOutFewer, FewerOnce
  <1> QED BY <1>1, <1>2, <1>3, <1>4, <1>5, <1>6 DEF Next

\* However a reply and the expiry timer race, whatever fails, however many
\* nodes answer and restart, the callback of a request is called at most once
\* (_service_request_cb, _service_request_timer_expiry_cb).
THEOREM CalledOnce ==
  ASSUME ServicesAssumption PROVE Spec => []AnsweredOnce
  <1>1. Init => TypeInv /\ OnceInv
    BY InitTyped, InitOnce
  <1>2. TypeInv /\ OnceInv /\ [Next]_vars => (TypeInv /\ OnceInv)'
    BY NextTyped, NextOnce
  <1>3. OnceInv => AnsweredOnce
    BY DEF OnceInv
  <1> QED BY <1>1, <1>2, <1>3, PTL DEF Spec

-----------------------------------------------------------------------------
(* What is registered is served *)

LEMMA PrefixIsEqual ==
  ASSUME ServicesAssumption, NoPrefixes, TypeInv, NEW n \in Node, NEW s \in Service
  PROVE  /\ Removable(n, s) = {k \in DOMAIN services[n] : services[n][k] = s}
         /\ Candidates(n, s) = {k \in DOMAIN services[n] : services[n][k] = s}
         /\ DOMAIN services[n] \in SUBSET Nat
  <1>1. services[n] \in Seq(Service)
    BY TypeFields
  <1>2. DOMAIN services[n] \in SUBSET Nat
        /\ \A k \in DOMAIN services[n] : services[n][k] \in Service
    BY <1>1
  <1>3. IsPrefix(s, s)
    BY DEF IsPrefix, ServicesAssumption
  <1>4. \A z \in Service : (IsPrefix(z, s) <=> z = s) /\ (IsPrefix(s, z) <=> z = s)
    BY <1>3 DEF NoPrefixes
  <1> QED BY <1>2, <1>4 DEF Removable, Candidates

LEMMA ListedIsServed ==
  ASSUME ServicesAssumption, NoPrefixes, TypeInv, RegisteredIsListed
  PROVE  RegisteredIsServed
  <1> SUFFICES ASSUME NEW n \in Node, NEW s \in registered[n]
               PROVE  ReqTopic(s) \in subs[n] /\ Serves(n, s)
    BY DEF RegisteredIsServed
  <1>1. s \in Service
    BY TypeFields
  <1>2. ReqTopic(s) \in subs[n] /\ \E k \in DOMAIN services[n] : services[n][k] = s
    BY DEF RegisteredIsListed
  <1> DEFINE K == Candidates(n, s)
  <1>3. K \in SUBSET Nat /\ K # {} /\ \A k \in K : services[n][k] = s
    BY <1>1, <1>2, PrefixIsEqual
  <1>4. First(K) \in K
    BY <1>3, LeastExists
  <1> QED BY <1>2, <1>3, <1>4 DEF Serves

\* Only the element of the name goes.
LEMMA OthersStay ==
  ASSUME ServicesAssumption, NoPrefixes, TypeInv, NEW n \in Node, NEW s \in Service,
         NEW z \in Service, z # s,
         \E k \in DOMAIN services[n] : services[n][k] = z
  PROVE  \E k \in DOMAIN Removed(n, s) : Removed(n, s)[k] = z
  <1>1. services[n] \in Seq(Service)
    BY TypeFields
  <1>2. CASE Removable(n, s) = {}
    BY <1>2 DEF Removed
  <1>3. CASE Removable(n, s) # {}
    <2> DEFINE q == services[n]
               i == First(Removable(n, s))
    <2>1. i \in DOMAIN q /\ q[i] = s
      BY <1>3, LeastExists, PrefixIsEqual
    <2>2. Removed(n, s) = RemoveAt(q, i)
      BY <1>3 DEF Removed
    <2>3. PICK k \in DOMAIN q : q[k] = z
      OBVIOUS
    <2>4. k # i
      BY <2>1, <2>3
    <2>5. q \in Seq(Service) /\ i \in 1..Len(q) /\ k \in 1..Len(q)
      BY <1>1, <2>1
    <2> HIDE DEF q, i
    <2> DEFINE p == RemoveAt(q, i)
    <2>6. p \in Seq(Service) /\ Len(p) = Len(q) - 1
          /\ \A j \in 1..Len(q) - 1 : p[j] = IF j < i THEN q[j] ELSE q[j + 1]
      BY <2>5, RemoveAtTyped
    <2> HIDE DEF p
    <2>7. \E j \in 1..Len(q) - 1 : p[j] = z
      <3>1. CASE k < i
        BY <2>3, <2>5, <2>6, <3>1
      <3>2. CASE k > i
        <4>1. k - 1 \in 1..Len(q) - 1 /\ ~(k - 1 < i) /\ (k - 1) + 1 = k
          BY <2>5, <3>2
        <4>2. p[k - 1] = q[k]
          BY <2>6, <4>1
        <4> QED BY <2>3, <4>1, <4>2
      <3> QED BY <2>4, <2>5, <3>1, <3>2
    <2>8. DOMAIN p = 1..Len(q) - 1
      BY <2>5, <2>6
    <2> QED BY <2>2, <2>7, <2>8 DEF p
  <1> QED BY <1>2, <1>3

LEMMA RegistryListed ==
  ASSUME ServicesAssumption, NoPrefixes, TypeInv, RegisteredIsListed,
         NEW n \in Node, NEW s \in Service, Register(n, s) \/ Unregister(n, s)
  PROVE  RegisteredIsListed'
  <1>1. \A m \in Node \ {n} : /\ services'[m] = services[m] /\ subs'[m] = subs[m]
                              /\ registered'[m] = registered[m]
    <2>1. CASE Register(n, s)
      BY <2>1, TypeFields DEF Register
    <2>2. CASE Unregister(n, s)
      BY <2>2, TypeFields DEF Unregister
    <2> QED BY <2>1, <2>2
  <1>2. ASSUME NEW z \in registered'[n]
        PROVE  ReqTopic(z) \in subs'[n] /\ \E k \in DOMAIN services'[n] : services'[n][k] = z
    <2>1. CASE Register(n, s)
      <3>1. PICK r \in SubResult(n, ReqTopic(s)) :
              /\ subs' = [subs EXCEPT ![n] = r.subs]
              /\ registered' = [registered EXCEPT ![n] = IF r.ok THEN @ \cup {s} ELSE @]
        BY <2>1 DEF Register
      <3>2. services'[n] = Append(services[n], s) /\ services[n] \in Seq(Service)
        BY <2>1, TypeFields DEF Register
      <3>3. r.subs = subs[n] \cup {ReqTopic(s)} \/ (~r.ok /\ r.subs = subs[n])
        BY TopicTyped, SubTyped
      <3>4. subs'[n] = r.subs
            /\ registered'[n] = IF r.ok THEN registered[n] \cup {s} ELSE registered[n]
        BY <3>1, TypeFields
      <3>5. z \in registered[n] \/ (z = s /\ r.ok)
        BY <1>2, <3>4
      <3>6. CASE z \in registered[n]
        <4>1. ReqTopic(z) \in subs[n] /\ \E k \in DOMAIN services[n] : services[n][k] = z
          BY <3>6 DEF RegisteredIsListed
        <4>2. PICK k \in DOMAIN services[n] : services[n][k] = z
          BY <4>1
        <4>3. k \in DOMAIN services'[n] /\ services'[n][k] = z
          BY <3>2, <4>2
        <4> QED BY <3>3, <3>4, <4>1, <4>3
      <3>7. CASE z = s /\ r.ok
        <4>1. Len(services[n]) + 1 \in DOMAIN services'[n]
              /\ services'[n][Len(services[n]) + 1] = s
          BY <3>2
        <4> QED BY <3>3, <3>4, <3>7, <4>1
      <3> QED BY <3>5, <3>6, <3>7
    <2>2. CASE Unregister(n, s)
      <3>1. /\ subs'[n] = subs[n] \ {ReqTopic(s)}
            /\ services'[n] = Removed(n, s)
            /\ registered'[n] = registered[n] \ {s}
        BY <2>2, TypeFields DEF Unregister
      <3>2. z \in registered[n] /\ z # s /\ z \in Service
        BY <1>2, <3>1, TypeFields
      <3>3. ReqTopic(z) \in subs[n] /\ \E k \in DOMAIN services[n] : services[n][k] = z
        BY <3>2 DEF RegisteredIsListed
      <3>4. ReqTopic(z) # ReqTopic(s)
        BY <3>2 DEF ReqTopic
      <3>5. \E k \in DOMAIN Removed(n, s) : Removed(n, s)[k] = z
        BY <3>2, <3>3, OthersStay
      <3> QED BY <3>1, <3>3, <3>4, <3>5
    <2> QED BY <2>1, <2>2
  <1> QED BY <1>1, <1>2 DEF RegisteredIsListed

LEMMA NextListed ==
  ASSUME ServicesAssumption, NoPrefixes
  PROVE  TypeInv /\ RegisteredIsListed /\ [Next]_vars => RegisteredIsListed'
  <1> SUFFICES ASSUME TypeInv, RegisteredIsListed, [Next]_vars PROVE RegisteredIsListed'
    OBVIOUS
  <1> DEFINE Kept == \A n \in Node : /\ registered'[n] \subseteq registered[n]
                                     /\ services'[n] = services[n]
                                     /\ subs[n] \subseteq subs'[n]
  <1>1. ASSUME Kept PROVE RegisteredIsListed'
    BY <1>1 DEF RegisteredIsListed
  <1>2. CASE UNCHANGED vars
    BY <1>1, <1>2 DEF vars
  <1>3. ASSUME NEW t \in Thread, Application(t) PROVE RegisteredIsListed'
    <2>1. UNCHANGED <<services, registered>>
      BY <1>3 DEF Application, CreateNode, CountUp, AddRequest, SubToReply, SendRequest
    <2>2. CASE SubToReply(t)
      <3>1. PICK r \in SubResult(Home[t], RepTopic(thread[t].svc)) :
              subs' = [subs EXCEPT ![Home[t]] = r.subs]
        BY <2>2 DEF SubToReply
      <3>2. thread[t].svc \in Service /\ Home[t] \in Node
        BY <2>2, ThreadFields DEF SubToReply, At, ServicesAssumption
      <3>3. subs[Home[t]] \subseteq r.subs
        BY <3>2, SubTyped, TopicTyped
      <3>4. \A n \in Node : subs[n] \subseteq subs'[n]
        BY <3>1, <3>2, <3>3, TypeFields
      <3> QED BY <1>1, <2>1, <3>4
    <2>3. CASE ~SubToReply(t)
      <3>1. UNCHANGED subs
        BY <1>3, <2>3 DEF Application, CreateNode, CountUp, AddRequest, SendRequest
      <3> QED BY <1>1, <2>1, <3>1
    <2> QED BY <2>2, <2>3
  <1>4. ASSUME NEW n \in Node, NEW s \in Service, Register(n, s) \/ Unregister(n, s)
        PROVE  RegisteredIsListed'
    BY <1>4, RegistryListed
  <1>5. ASSUME NEW n \in Node,
               \/ Middleware(n) \/ Expire(n) \/ \E r \in requests[n] : TimeOut(n, r)
        PROVE  RegisteredIsListed'
    <2>1. UNCHANGED <<services, registered, subs>>
      BY <1>5 DEF Middleware, Drop, ServeRequest, TakeReply, Expire, TimeOut
    <2> QED BY <1>1, <2>1
  <1>6. ASSUME NEW n \in Node, Reset(n) PROVE RegisteredIsListed'
    <2>1. /\ registered' = [registered EXCEPT ![n] = {}]
          /\ services' = [services EXCEPT ![n] = <<>>]
          /\ subs' = [subs EXCEPT ![n] = {}]
      BY <1>6 DEF Reset
    <2>2. registered'[n] = {}
      BY <2>1, TypeFields
    <2>3. \A m \in Node \ {n} : /\ services'[m] = services[m] /\ subs'[m] = subs[m]
                                /\ registered'[m] = registered[m]
      BY <2>1, TypeFields
    <2> QED BY <2>2, <2>3 DEF RegisteredIsListed
  <1> QED BY <1>2, <1>3, <1>4, <1>5, <1>6 DEF Next

\* Where no service's name begins with another's, a service that was
\* registered and not unregistered is subscribed and a request for it finds its
\* handler, whatever else was registered, in whatever order, how often, and
\* whatever failed (bm_service_register, bm_service_unregister,
\* _service_request_received_cb).
THEOREM RegisteredServed ==
  ASSUME ServicesAssumption, NoPrefixes PROVE Spec => []RegisteredIsServed
  <1>1. Init => TypeInv /\ RegisteredIsListed
    BY InitTyped DEF Init, RegisteredIsListed
  <1>2. TypeInv /\ RegisteredIsListed /\ [Next]_vars => (TypeInv /\ RegisteredIsListed)'
    BY NextTyped, NextListed
  <1>3. TypeInv /\ RegisteredIsListed => RegisteredIsServed
    BY ListedIsServed
  <1> QED BY <1>1, <1>2, <1>3, PTL DEF Spec

-----------------------------------------------------------------------------
(* The answer is the one to that request *)

LEMMA ModSmall ==
  ASSUME NEW a \in Nat, NEW b \in Nat \ {0}, a < b
  PROVE  a % b = a
  OBVIOUS

\* The steps other than AddRequest: requests go, calls that were sent stay so,
\* threads keep what they hold, and what is answered is answered rightly.
SameMessage(m, p) == m.call = p.call /\ m.svc = p.svc /\ m.node = p.node /\ m.id = p.id
Known(m) == \E d \in Node : \E p \in inbox[d] : SameMessage(m, p)
CallsGoOn ==
  \A u \in Call :
    /\ call'[u].svc = call[u].svc
    /\ call[u].st \notin {"free", "made"} => call'[u].st \notin {"free", "made"}
    /\ call'[u].st \in {"free", "made"} => /\ call'[u].st = call[u].st
                                           /\ call'[u].due = call[u].due
    /\ call'[u].st = "free" => call'[u].ok = call[u].ok
    /\ call'[u].ok => \/ call[u].ok /\ call'[u].answer = call[u].answer
                      \/ call'[u].answer = [call |-> u, svc |-> call[u].svc]
ThreadsGoOn ==
  \A t \in Thread : InRequest(t)' =>
    /\ InRequest(t)
    /\ thread'[t].call = thread[t].call /\ thread'[t].svc = thread[t].svc
    /\ thread'[t].id = thread[t].id
    /\ call'[thread[t].call].st = "made"
    /\ [id |-> thread[t].id, call |-> thread[t].call] \in requests'[Home[t]]
GoesOn ==
  /\ \A n \in Node : requests'[n] \subseteq requests[n]
  /\ CallsGoOn /\ ThreadsGoOn
  /\ \A d \in Node : \A m \in inbox'[d] : Known(m) \/ MessageMeans(m)'
Means == \A d \in Node : \A m \in inbox[d] : MessageMeans(m)
Mine == HeldUntilSent /\ UniqueIds /\ SuccessIsMine /\ Means

LEMMA GoesOnMine ==
  ASSUME TypeInv, TypeInv', Mine, GoesOn
  PROVE  Mine'
  <1>1. UniqueIds'
    BY DEF Mine, UniqueIds, GoesOn
  <1>D. DOMAIN call = Call /\ DOMAIN call' = Call
    BY DEF TypeInv, TypeOK
  <1>2. SuccessIsMine'
    <2> SUFFICES ASSUME NEW u \in Call, call'[u].ok
                 PROVE  call'[u].answer = [call |-> u, svc |-> call'[u].svc]
      BY <1>D DEF SuccessIsMine
    <2>1. call[u].ok => call[u].answer = [call |-> u, svc |-> call[u].svc]
      BY <1>D DEF Mine, SuccessIsMine
    <2>2. call'[u].svc = call[u].svc
          /\ \/ call[u].ok /\ call'[u].answer = call[u].answer
             \/ call'[u].answer = [call |-> u, svc |-> call[u].svc]
      BY DEF GoesOn, CallsGoOn
    <2> QED BY <2>1, <2>2
  <1>3. Means'
    <2> SUFFICES ASSUME NEW d \in Node, NEW m \in inbox'[d], Known(m)
                 PROVE  MessageMeans(m)'
      BY DEF Means, GoesOn
    <2>0. PICK e \in Node : \E p \in inbox[e] : SameMessage(m, p)
      BY DEF Known
    <2>1. PICK p \in inbox[e] : SameMessage(m, p)
      BY <2>0
    <2>2. MessageMeans(p) /\ p.call \in Call /\ p.node \in Node
      BY TypeFields DEF Mine, Means, Message
    <2>3. /\ call[m.call].st \notin {"free", "made"} /\ m.svc = call[m.call].svc
          /\ \A r \in requests[m.node] : r.id = m.id => r.call = m.call
          /\ m.call \in Call /\ m.node \in Node
      BY <2>1, <2>2 DEF MessageMeans, SameMessage
    <2>4. /\ call'[m.call].st \notin {"free", "made"} /\ call'[m.call].svc = call[m.call].svc
          /\ requests'[m.node] \subseteq requests[m.node]
      BY <2>3 DEF GoesOn, CallsGoOn
    <2> QED BY <2>3, <2>4 DEF MessageMeans
  <1>4. HeldUntilSent'
    <2>1. ASSUME NEW t \in Thread, InRequest(t)'
          PROVE  /\ InRequest(t) /\ thread'[t].call = thread[t].call
                 /\ call'[thread'[t].call].st = "made"
                 /\ call'[thread'[t].call].svc = thread'[t].svc
                 /\ [id |-> thread'[t].id, call |-> thread'[t].call] \in requests'[Home[t]]
      <3>1. /\ InRequest(t)
            /\ thread'[t].call = thread[t].call /\ thread'[t].svc = thread[t].svc
            /\ thread'[t].id = thread[t].id
            /\ call'[thread[t].call].st = "made"
            /\ [id |-> thread[t].id, call |-> thread[t].call] \in requests'[Home[t]]
        BY <2>1 DEF GoesOn, ThreadsGoOn
      <3>2. thread[t].call \in Call
        BY <3>1, ThreadFields
      <3>3. call[thread[t].call].svc = thread[t].svc
        BY <3>1 DEF Mine, HeldUntilSent
      <3>4. call'[thread[t].call].svc = call[thread[t].call].svc
        BY <3>2 DEF GoesOn, CallsGoOn
      <3> QED BY <3>1, <3>3, <3>4
    <2>2. \A t, s \in Thread :
            InRequest(t)' /\ InRequest(s)' /\ thread'[t].call = thread'[s].call => t = s
      BY <2>1 DEF Mine, HeldUntilSent
    <2>3. \A u \in Call : /\ call'[u].st \in {"free", "made"} => ~call'[u].due
                          /\ call'[u].st = "free" => ~call'[u].ok
      BY DEF Mine, HeldUntilSent, GoesOn, CallsGoOn
    <2> QED BY <2>1, <2>2, <2>3 DEF HeldUntilSent
  <1> QED BY <1>1, <1>2, <1>3, <1>4 DEF Mine

\* ... and those among them that make no new call: ids stay as they are.
NoneStarts ==
  /\ \A u \in Call : call'[u].st = "free" <=> call[u].st = "free"
  /\ count' = count
  /\ \A t \in Thread : \/ thread'[t] = thread[t]
                       \/ {thread[t].pc, thread'[t].pc} \subseteq {"idle", "sub", "send"}
  /\ \A n \in Node : requests'[n] \subseteq requests[n]
  /\ \A d \in Node : \A m \in inbox'[d] :
        Known(m) \/ \E r \in requests[m.node] : m.id = r.id

LEMMA NoneStartsCounted ==
  ASSUME TypeInv, TypeInv', Counted, NoneStarts
  PROVE  Counted'
  <1>1. Started' = Started
    BY DEF Started, NoneStarts
  <1>2. Pending' = Pending
    BY DEF Pending, NoneStarts
  <1>3. PICK used \in [Node -> Nat] : IdsInOrder(used) /\ IdsBefore(used)
    BY DEF Counted
  <1>4. IdsInOrder(used)'
    <2> SUFFICES ASSUME NEW n \in Node
                 PROVE  /\ used[n] <= Cardinality(Started)
                        /\ \A r \in requests'[n] : r.id < used[n]
                        /\ \A t \in Thread : Home[t] = n =>
                             /\ thread'[t].pc # "add" => count'[n] = used[n] % IdSpace
                             /\ thread'[t].pc = "count" => thread'[t].id = count'[n]
                             /\ thread'[t].pc = "add" =>
                                  /\ thread'[t].id = used[n] % IdSpace
                                  /\ count'[n] = (thread'[t].id + 1) % IdSpace
      BY <1>1 DEF IdsInOrder
    <2>1. /\ used[n] <= Cardinality(Started)
          /\ \A r \in requests'[n] : r.id < used[n]
      BY <1>3 DEF IdsInOrder, NoneStarts
    <2>2. ASSUME NEW t \in Thread, Home[t] = n
          PROVE  /\ thread'[t].pc # "add" => count'[n] = used[n] % IdSpace
                 /\ thread'[t].pc = "count" => thread'[t].id = count'[n]
                 /\ thread'[t].pc = "add" =>
                      /\ thread'[t].id = used[n] % IdSpace
                      /\ count'[n] = (thread'[t].id + 1) % IdSpace
      <3>1. /\ thread[t].pc # "add" => count[n] = used[n] % IdSpace
            /\ thread[t].pc = "count" => thread[t].id = count[n]
            /\ thread[t].pc = "add" => /\ thread[t].id = used[n] % IdSpace
                                       /\ count[n] = (thread[t].id + 1) % IdSpace
        BY <1>3, <2>2 DEF IdsInOrder
      <3>2. count' = count
            /\ \/ thread'[t] = thread[t]
               \/ {thread[t].pc, thread'[t].pc} \subseteq {"idle", "sub", "send"}
        BY DEF NoneStarts
      <3> QED BY <3>1, <3>2
    <2> QED BY <2>1, <2>2
  <1>5. IdsBefore(used)'
    <2> SUFFICES ASSUME NEW d \in Node, NEW m \in inbox'[d] PROVE m.id < used[m.node]
      BY DEF IdsBefore
    <2>1. CASE Known(m)
      BY <1>3, <2>1 DEF Known, IdsBefore, SameMessage
    <2>2. CASE \E r \in requests[m.node] : m.id = r.id
      <3>1. m.node \in Node
        BY TypeFields DEF TypeInv, TypeOK, Message
      <3> QED BY <1>3, <2>2, <3>1 DEF IdsInOrder
    <2> QED BY <2>1, <2>2 DEF NoneStarts
  <1> QED BY <1>1, <1>2, <1>3, <1>4, <1>5 DEF Counted

LEMMA KnownOrNew ==
  ASSUME TypeInv, TypeInv', Mine, Counted, GoesOn, NoneStarts
  PROVE  Mine' /\ Counted'
  BY GoesOnMine, NoneStartsCounted

\* What a thread in bm_service_request holds.
LEMMA Held ==
  ASSUME TypeInv, Mine, NEW t \in Thread, InRequest(t)
  PROVE  /\ thread[t].call \in Call /\ call[thread[t].call].st = "made"
         /\ call[thread[t].call].svc = thread[t].svc
         /\ [id |-> thread[t].id, call |-> thread[t].call] \in requests[Home[t]]
         /\ \A s \in Thread : InRequest(s) /\ thread[s].call = thread[t].call => s = t
  BY ThreadFields DEF Mine, HeldUntilSent

\* Nothing but messages and the registry changes.
LEMMA InboxMine ==
  ASSUME TypeInv, TypeInv', Mine, Counted, UNCHANGED <<requests, call, thread, count>>,
         \A d \in Node : \A m \in inbox'[d] : Known(m)
  PROVE  Mine' /\ Counted'
  <1>1. CallsGoOn
    BY DEF CallsGoOn
  <1>2. ThreadsGoOn
    <2> SUFFICES ASSUME NEW t \in Thread, InRequest(t)'
                 PROVE  /\ InRequest(t) /\ call[thread[t].call].st = "made"
                        /\ [id |-> thread[t].id, call |-> thread[t].call]
                              \in requests[Home[t]]
      BY DEF ThreadsGoOn
    <2>1. InRequest(t)
      BY DEF InRequest
    <2> QED BY <2>1, Held
  <1>3. GoesOn
    BY <1>1, <1>2 DEF GoesOn
  <1>4. NoneStarts
    BY DEF NoneStarts
  <1> QED BY <1>3, <1>4, KnownOrNew

LEMMA SubSentMine ==
  ASSUME TypeInv, TypeInv', Mine, Counted, NEW t \in Thread, InRequest(t), Goes(t, "send"),
         UNCHANGED <<requests, call, count, inbox>>
  PROVE  Mine' /\ Counted'
  <1>1. /\ thread'[t].pc = "send" /\ thread'[t].call = thread[t].call
        /\ thread'[t].svc = thread[t].svc /\ thread'[t].id = thread[t].id
    <2>1. thread'[t] = [thread[t] EXCEPT !.pc = "send"]
      BY Gone
    <2> QED BY <2>1, ThreadFields DEF ThreadType
  <1>2. \A s \in Thread \ {t} : thread'[s] = thread[s]
    BY Gone
  <1>3. CallsGoOn
    BY DEF CallsGoOn
  <1>4. ThreadsGoOn
    <2> SUFFICES ASSUME NEW s \in Thread, InRequest(s)'
                 PROVE  /\ InRequest(s)
                        /\ thread'[s].call = thread[s].call /\ thread'[s].svc = thread[s].svc
                        /\ thread'[s].id = thread[s].id
                        /\ call[thread[s].call].st = "made"
                        /\ [id |-> thread[s].id, call |-> thread[s].call]
                              \in requests[Home[s]]
      BY DEF ThreadsGoOn
    <2>1. InRequest(s)
      BY <1>2 DEF InRequest
    <2> QED BY <1>1, <1>2, <2>1, Held
  <1>5. \A d \in Node : \A m \in inbox'[d] : Known(m)
    BY DEF Known, SameMessage
  <1>6. GoesOn
    BY <1>3, <1>4, <1>5 DEF GoesOn
  <1>7. NoneStarts
    BY <1>1, <1>2, <1>5 DEF NoneStarts, InRequest
  <1> QED BY <1>6, <1>7, KnownOrNew

LEMMA ReturnsGoesOn ==
  ASSUME ServicesAssumption, TypeInv, TypeInv', Mine, NEW t \in Thread, InRequest(t),
         NEW b \in BOOLEAN, Returns(t, b), UNCHANGED <<requests, count>>
  PROVE  /\ CallsGoOn /\ ThreadsGoOn
         /\ \A u \in Call : call'[u].st = "free" <=> call[u].st = "free"
         /\ \A s \in Thread : \/ thread'[s] = thread[s]
                              \/ {thread[s].pc, thread'[s].pc} \subseteq {"idle", "sub", "send"}
         /\ call'[thread[t].call].st \notin {"free", "made"}
         /\ call'[thread[t].call].svc = call[thread[t].call].svc
  <1> DEFINE v == thread[t].call
  <1>1. v \in Call /\ call[v].st = "made" /\ call[v] \in CallType
    BY Held, CallFields
  <1>2. call'[v] = [call[v] EXCEPT !.st = Outcome(b)]
        /\ \A u \in Call \ {v} : call'[u] = call[u]
    BY Returned
  <1>3. thread'[t] = IdleThread /\ \A s \in Thread \ {t} : thread'[s] = thread[s]
    BY Returned
  <1>4. /\ call'[v].st \in {"sent", "refused"} /\ call'[v].svc = call[v].svc
        /\ call'[v].ok = call[v].ok /\ call'[v].answer = call[v].answer
    BY <1>1, <1>2 DEF CallType, Outcome
  <1> HIDE DEF v
  <1>5. CallsGoOn
    BY <1>1, <1>2, <1>4 DEF CallsGoOn
  <1>6. ThreadsGoOn
    <2> SUFFICES ASSUME NEW s \in Thread, InRequest(s)'
                 PROVE  /\ InRequest(s)
                        /\ thread'[s].call = thread[s].call /\ thread'[s].svc = thread[s].svc
                        /\ thread'[s].id = thread[s].id
                        /\ call'[thread[s].call].st = "made"
                        /\ [id |-> thread[s].id, call |-> thread[s].call]
                              \in requests[Home[s]]
      BY DEF ThreadsGoOn
    <2>1. s # t
      BY <1>3 DEF InRequest, IdleThread
    <2>2. thread'[s] = thread[s] /\ InRequest(s)
      BY <1>3, <2>1 DEF InRequest
    <2>3. thread[s].call \in Call /\ thread[s].call # v
      BY <2>1, <2>2, Held DEF v
    <2> QED BY <1>2, <2>2, <2>3, Held
  <1>7. \A u \in Call : call'[u].st = "free" <=> call[u].st = "free"
    BY <1>1, <1>2, <1>4
  <1>8. \A s \in Thread : \/ thread'[s] = thread[s]
                          \/ {thread[s].pc, thread'[s].pc} \subseteq {"idle", "sub", "send"}
    BY <1>3 DEF InRequest, IdleThread
  <1> QED BY <1>4, <1>5, <1>6, <1>7, <1>8 DEF v

LEMMA SubToReplyMine ==
  ASSUME ServicesAssumption, TypeInv, TypeInv', Mine, Counted, NEW t \in Thread,
         SubToReply(t)
  PROVE  Mine' /\ Counted'
  <1>1. InRequest(t) /\ UNCHANGED <<requests, count, inbox>>
    BY DEF SubToReply, At, InRequest
  <1>2. CASE Goes(t, "send") /\ UNCHANGED call
    BY <1>1, <1>2, SubSentMine
  <1>3. CASE Returns(t, FALSE)
    <2>1. \A d \in Node : \A m \in inbox'[d] : Known(m)
      BY <1>1 DEF Known, SameMessage
    <2>2. /\ CallsGoOn /\ ThreadsGoOn
          /\ \A u \in Call : call'[u].st = "free" <=> call[u].st = "free"
          /\ \A s \in Thread :
               \/ thread'[s] = thread[s]
               \/ {thread[s].pc, thread'[s].pc} \subseteq {"idle", "sub", "send"}
      BY <1>1, <1>3, ReturnsGoesOn
    <2>3. GoesOn
      BY <1>1, <2>1, <2>2 DEF GoesOn
    <2>4. NoneStarts
      BY <1>1, <2>1, <2>2 DEF NoneStarts
    <2> QED BY <2>3, <2>4, KnownOrNew
  <1> QED BY <1>2, <1>3 DEF SubToReply

LEMMA SendRequestMine ==
  ASSUME ServicesAssumption, TypeInv, TypeInv', Mine, Counted, NEW t \in Thread,
         SendRequest(t)
  PROVE  Mine' /\ Counted'
  <1>1. InRequest(t) /\ UNCHANGED <<requests, count>>
    BY DEF SendRequest, At, InRequest
  <1> DEFINE n == Home[t]
             v == thread[t].call
  <1>2. /\ v \in Call /\ call[v].st = "made" /\ call[v].svc = thread[t].svc
        /\ [id |-> thread[t].id, call |-> v] \in requests[n]
    BY <1>1, Held
  <1>3. IdRead(t) = {thread[t].id}
    BY <1>2 DEF IdRead
  <1>0. PICK q : q = Request(thread[t].svc, n, thread[t].id, v)
    OBVIOUS
  <1>4. PICK buffer \in OK, sent \in OK :
          /\ inbox' = IF buffer THEN Published(inbox, n, q,
                                               ReqTopic(thread[t].svc) \in subs[n], sent)
                      ELSE inbox
          /\ Returns(t, buffer /\ sent)
    BY <1>0, <1>3 DEF SendRequest
  <1>5. PICK b \in BOOLEAN : Returns(t, b)
    BY <1>4
  <1>6. q.call = v /\ q.svc = thread[t].svc /\ q.node = n /\ q.id = thread[t].id /\ n \in Node
    BY <1>0 DEF Request, ServicesAssumption
  <1>7. /\ CallsGoOn /\ ThreadsGoOn
        /\ \A u \in Call : call'[u].st = "free" <=> call[u].st = "free"
        /\ \A s \in Thread :
             \/ thread'[s] = thread[s]
             \/ {thread[s].pc, thread'[s].pc} \subseteq {"idle", "sub", "send"}
        /\ call'[v].st \notin {"free", "made"} /\ call'[v].svc = call[v].svc
    BY <1>1, <1>5, ReturnsGoesOn
  <1> HIDE DEF v, n
  <1>8. \A d \in Node : \A m \in inbox'[d] : m = q \/ Known(m)
    <2> SUFFICES ASSUME NEW d \in Node, NEW m \in inbox'[d], m # q PROVE m \in inbox[d]
      BY DEF Known, SameMessage
    <2> QED BY <1>4, TypeFields DEF Published
  <1>9. MessageMeans(q)'
    <2>1. \A r \in requests[n] : r.id = q.id => r.call = q.call
      <3>1. ASSUME NEW r \in requests[n], r.id = q.id PROVE r.call = q.call
        <4>1. r = [id |-> thread[t].id, call |-> v]
          BY <1>2, <1>6, <3>1 DEF Mine, UniqueIds
        <4> QED BY <1>6, <4>1
      <3> QED BY <3>1
    <2> QED BY <1>1, <1>2, <1>6, <1>7, <2>1 DEF MessageMeans
  <1>10. GoesOn
    BY <1>1, <1>7, <1>8, <1>9 DEF GoesOn
  <1>11. NoneStarts
    <2>1. \E r \in requests[q.node] : q.id = r.id
      BY <1>2, <1>6
    <2> QED BY <1>1, <1>7, <1>8, <2>1 DEF NoneStarts
  <1> QED BY <1>10, <1>11, KnownOrNew

LEMMA MiddlewareMine ==
  ASSUME ServicesAssumption, TypeInv, TypeInv', Mine, Counted, NEW n \in Node, Middleware(n)
  PROVE  Mine' /\ Counted'
  <1>1. PICK m \in inbox[n] : Drop(n, m) \/ ServeRequest(n, m) \/ TakeReply(n, m)
    BY DEF Middleware
  <1>2. m \in Message /\ inbox \in [Node -> SUBSET Message]
    BY TypeFields
  <1>3. \A d \in Node : \A p \in inbox[d] : Known(p)
    BY DEF Known, SameMessage
  <1>4. ASSUME inbox' = [inbox EXCEPT ![n] = @ \ {m}]
        PROVE  \A d \in Node : \A p \in inbox'[d] : Known(p)
    BY <1>2, <1>3, <1>4
  <1>5. CASE Drop(n, m)
    BY <1>4, <1>5, InboxMine DEF Drop
  <1>6. CASE ServeRequest(n, m)
    <2>1. services[n][First(Candidates(n, m.svc))] = m.svc
          /\ UNCHANGED <<requests, call, thread, count>>
      BY <1>6 DEF ServeRequest, Serves
    <2>2. PICK sent \in OK :
            inbox' = Published([inbox EXCEPT ![n] = @ \ {m}], n, Reply(m, m.svc),
                               RepTopic(m.svc) \in subs[n], sent)
      BY <1>6, <2>1 DEF ServeRequest
    <2>3. SameMessage(Reply(m, m.svc), m)
      BY DEF SameMessage, Reply
    <2>4. \A d \in Node : \A p \in inbox'[d] : p = Reply(m, m.svc) \/ p \in inbox[d]
      BY <1>2, <2>2 DEF Published
    <2>5. \A d \in Node : \A p \in inbox'[d] : Known(p)
      BY <1>3, <2>3, <2>4 DEF Known
    <2> QED BY <2>1, <2>5, InboxMine
  <1>7. CASE TakeReply(n, m)
    <2> DEFINE r == Oldest(Expected(n, m))
               a == [call |-> m.call, svc |-> m.svc]
               c == CallBack(r.call, TRUE, a)
    <2>1. /\ call' = [call EXCEPT ![r.call] = c]
          /\ requests' = [requests EXCEPT ![n] = @ \ {r}]
          /\ inbox' = [inbox EXCEPT ![n] = @ \ {m}]
          /\ thread' = thread /\ count' = count
      BY <1>7 DEF TakeReply
    <2>2. r \in requests[n] /\ r.call \in Call /\ r.id = m.id /\ m.node = n
      BY <1>7, ExpectedIsOne DEF TakeReply
    <2>3. MessageMeans(m)
      BY DEF Mine, Means
    <2>4. /\ r.call = m.call /\ call[r.call].st \notin {"free", "made"}
          /\ m.svc = call[r.call].svc
      BY <2>2, <2>3 DEF MessageMeans
    <2>5. a \in AnswerType
      BY <1>2 DEF Message, AnswerType
    <2>6. /\ c.st = call[r.call].st /\ c.svc = call[r.call].svc
          /\ c.answer = [call |-> r.call, svc |-> call[r.call].svc]
      <3>1. c.st = call[r.call].st /\ c.svc = call[r.call].svc /\ c.answer = a
        BY <2>2, <2>5, CallBackTyped
      <3>2. a = [call |-> r.call, svc |-> call[r.call].svc]
        BY <2>4
      <3> HIDE DEF r, c, a
      <3> QED BY <3>1, <3>2
    <2> HIDE DEF r, c
    <2>7. \A u \in Call : call'[u] = IF u = r.call THEN c ELSE call[u]
      BY <2>1, <2>2, TypeFields
    <2>8. \A k \in Node : requests'[k] = IF k = n THEN requests[k] \ {r} ELSE requests[k]
      BY <2>1, TypeFields
    <2>9. CallsGoOn
      BY <2>4, <2>6, <2>7 DEF CallsGoOn
    <2>10. ThreadsGoOn
      <3> SUFFICES ASSUME NEW t \in Thread, InRequest(t)'
                   PROVE  /\ InRequest(t) /\ call'[thread[t].call].st = "made"
                          /\ [id |-> thread[t].id, call |-> thread[t].call]
                                \in requests'[Home[t]]
        BY <2>1 DEF ThreadsGoOn
      <3>1. InRequest(t) /\ Home[t] \in Node
        BY <2>1 DEF InRequest, ServicesAssumption
      <3>2. /\ thread[t].call \in Call /\ call[thread[t].call].st = "made"
            /\ [id |-> thread[t].id, call |-> thread[t].call] \in requests[Home[t]]
        BY <3>1, Held
      <3>3. thread[t].call # r.call
        BY <2>4, <3>2
      <3>4. [id |-> thread[t].id, call |-> thread[t].call] # r
        BY <3>3
      <3> QED BY <2>7, <2>8, <3>1, <3>2, <3>3, <3>4
    <2>11. GoesOn
      BY <1>4, <2>1, <2>8, <2>9, <2>10 DEF GoesOn
    <2>12. \A u \in Call : call'[u].st = call[u].st
      BY <2>6, <2>7
    <2>13. NoneStarts
      BY <1>4, <2>1, <2>8, <2>12 DEF NoneStarts
    <2> QED BY <2>11, <2>13, KnownOrNew
  <1> QED BY <1>1, <1>5, <1>6, <1>7

LEMMA TimeOutMine ==
  ASSUME OneAtATime, TypeInv, TypeInv', OnceInv, Mine, Counted,
         NEW n \in Node, NEW r \in requests[n], TimeOut(n, r)
  PROVE  Mine' /\ Counted'
  <1>1. r.call \in Call /\ call \in [Call -> CallType] /\ call[r.call] \in CallType
    BY TypeFields
  <1>2. call[r.call].st # "made"
    BY DEF TimeOut, OneAtATime
  <1>3. call' = [call EXCEPT ![r.call] = [call[r.call] EXCEPT !.due = TRUE]]
        /\ UNCHANGED <<requests, thread, count, inbox>>
    BY <1>1 DEF TimeOut
  <1> DEFINE c == [call[r.call] EXCEPT !.due = TRUE]
  <1>4. /\ c.st = call[r.call].st /\ c.svc = call[r.call].svc
        /\ c.ok = call[r.call].ok /\ c.answer = call[r.call].answer
    BY <1>1 DEF CallType
  <1>5. \A u \in Call : call'[u] = IF u = r.call THEN c ELSE call[u]
    BY <1>1, <1>3
  <1> HIDE DEF c
  <1>6. \A d \in Node : \A m \in inbox'[d] : Known(m)
    BY <1>3 DEF Known, SameMessage
  <1>7. ThreadsGoOn
    <2> SUFFICES ASSUME NEW t \in Thread, InRequest(t)'
                 PROVE  /\ InRequest(t) /\ call'[thread[t].call].st = "made"
                        /\ [id |-> thread[t].id, call |-> thread[t].call]
                              \in requests[Home[t]]
      BY <1>3 DEF ThreadsGoOn
    <2>1. InRequest(t)
      BY <1>3 DEF InRequest
    <2> QED BY <1>4, <1>5, <2>1, Held
  <1>8. \A u \in Call : call'[u].st = call[u].st
    BY <1>4, <1>5
  <1>9. NoneStarts
    BY <1>3, <1>6, <1>8 DEF NoneStarts
  <1>10. call[r.call].st # "free"
    BY DEF OnceInv, WaitingOnce
  <1>11. CallsGoOn
    BY <1>2, <1>4, <1>5, <1>10 DEF CallsGoOn
  <1>12. GoesOn
    BY <1>3, <1>6, <1>7, <1>11 DEF GoesOn
  <1> QED BY <1>9, <1>12, KnownOrNew

LEMMA ExpireMine ==
  ASSUME ServicesAssumption, TypeInv, TypeInv', Mine, Counted, NEW n \in Node, Expire(n)
  PROVE  Mine' /\ Counted'
  <1>1. /\ requests' = [requests EXCEPT ![n] = @ \ Due(n)]
        /\ UNCHANGED <<thread, count, inbox>>
        /\ \A u \in Call : call'[u] = IF \E r \in Due(n) : r.call = u
                                      THEN CallBack(u, FALSE, NoAnswer) ELSE call[u]
    BY DEF Expire
  <1>2. \A k \in Node : requests'[k] = IF k = n THEN requests[k] \ Due(n) ELSE requests[k]
    BY <1>1, TypeFields
  <1>3. ASSUME NEW u \in Call
        PROVE  /\ call'[u].st = call[u].st /\ call'[u].svc = call[u].svc
               /\ call'[u].due = call[u].due
               /\ \/ call'[u].ok = call[u].ok /\ call'[u].answer = call[u].answer
                  \/ ~call'[u].ok /\ call[u].st # "free"
    <2>1. CASE \E r \in Due(n) : r.call = u
      <3> DEFINE c == CallBack(u, FALSE, NoAnswer)
      <3>1. c.st = call[u].st /\ c.svc = call[u].svc /\ c.due = call[u].due /\ c.ok = FALSE
        BY CallBackTyped, NoAnswerTyped
      <3>2. call'[u] = c
        BY <1>1, <2>1
      <3>3. call[u].due
        BY <2>1 DEF Due
      <3>4. call[u].st # "free"
        BY <3>3 DEF Mine, HeldUntilSent
      <3> HIDE DEF c
      <3> QED BY <3>1, <3>2, <3>4
    <2>2. CASE ~\E r \in Due(n) : r.call = u
      BY <1>1, <2>2
    <2> QED BY <2>1, <2>2
  <1>4. CallsGoOn
    BY <1>3 DEF CallsGoOn
  <1>5. ThreadsGoOn
    <2> SUFFICES ASSUME NEW t \in Thread, InRequest(t)'
                 PROVE  /\ InRequest(t) /\ call'[thread[t].call].st = "made"
                        /\ [id |-> thread[t].id, call |-> thread[t].call]
                              \in requests'[Home[t]]
      BY <1>1 DEF ThreadsGoOn
    <2>1. InRequest(t) /\ Home[t] \in Node
      BY <1>1 DEF InRequest, ServicesAssumption
    <2>2. /\ thread[t].call \in Call /\ call[thread[t].call].st = "made"
          /\ [id |-> thread[t].id, call |-> thread[t].call] \in requests[Home[t]]
      BY <2>1, Held
    <2>3. ~call[thread[t].call].due
      BY <2>2 DEF Mine, HeldUntilSent
    <2>4. [id |-> thread[t].id, call |-> thread[t].call] \notin Due(n)
      BY <2>3 DEF Due
    <2> QED BY <1>2, <1>3, <2>1, <2>2, <2>4
  <1>6. \A d \in Node : \A m \in inbox'[d] : Known(m)
    BY <1>1 DEF Known, SameMessage
  <1>7. GoesOn
    BY <1>2, <1>4, <1>5, <1>6 DEF GoesOn
  <1>8. NoneStarts
    BY <1>1, <1>2, <1>3, <1>6 DEF NoneStarts
  <1> QED BY <1>7, <1>8, KnownOrNew

LEMMA Finite ==
  ASSUME ServicesAssumption, TypeInv, OnceInv
  PROVE  /\ IsFiniteSet(Started) /\ Cardinality(Started) \in Nat
         /\ IsFiniteSet(Pending) /\ Cardinality(Pending) \in Nat
  <1>1. Cardinality(Started) \in 0..MaxCalls /\ Started = 1..Cardinality(Started)
    BY StartedCounted DEF OnceInv
  <1>2. IsFiniteSet(Started)
    BY <1>1, FS_Interval
  <1>3. Pending \in SUBSET Thread /\ IsFiniteSet(Thread)
    BY DEF Pending, ServicesAssumption
  <1>4. IsFiniteSet(Pending)
    BY <1>3, FS_Subset
  <1> QED BY <1>1, <1>2, <1>4, FS_CardinalityType

\* A thread that is about to add a request has an id that was not used before.
LEMMA RoomForOne ==
  ASSUME ServicesAssumption, OneAtATime, TypeInv, OnceInv,
         Cardinality(Started) + Cardinality(Pending) <= MaxCalls,
         NEW used \in [Node -> Nat], IdsInOrder(used), NEW t \in Thread,
         thread[t].pc \in {"count", "add"}
  PROVE  used[Home[t]] < IdSpace /\ used[Home[t]] % IdSpace = used[Home[t]]
  <1>1. t \in Pending
    BY DEF Pending
  <1>2. Cardinality(Pending) # 0
    BY <1>1, Finite, FS_EmptySet
  <1>3. used[Home[t]] <= Cardinality(Started) /\ Home[t] \in Node
    BY DEF IdsInOrder, ServicesAssumption
  <1>4. used[Home[t]] < IdSpace /\ used[Home[t]] \in Nat /\ IdSpace \in Nat \ {0}
    BY <1>2, <1>3, Finite DEF OneAtATime, ServicesAssumption
  <1> QED BY <1>4, ModSmall

LEMMA CreateMine ==
  ASSUME ServicesAssumption, OneAtATime, TypeInv, TypeInv', OnceInv, Mine, Counted,
         NEW t \in Thread, NEW s \in Service, CreateNode(t, s)
  PROVE  Mine' /\ Counted'
  <1>1. /\ thread[t].pc = "idle"
        /\ Cardinality(Started) + Cardinality(Pending) < MaxCalls
        /\ UNCHANGED <<requests, count, call, inbox>>
        /\ thread' = [thread EXCEPT ![t] = [pc |-> "count", svc |-> s,
                                            id |-> count[Home[t]], call |-> NoCall]]
    BY DEF CreateNode, At
  <1>2. thread'[t].pc = "count" /\ thread'[t].id = count[Home[t]]
        /\ \A z \in Thread \ {t} : thread'[z] = thread[z]
    BY <1>1, TypeFields
  <1>3. \A z \in Thread : InRequest(z)' => InRequest(z) /\ thread'[z] = thread[z]
    BY <1>2 DEF InRequest
  <1>4. GoesOn
    <2>1. CallsGoOn
      BY <1>1 DEF CallsGoOn
    <2>2. ThreadsGoOn
      BY <1>1, <1>3, Held DEF ThreadsGoOn
    <2>3. \A d \in Node : \A m \in inbox'[d] : Known(m)
      BY <1>1 DEF Known, SameMessage
    <2> QED BY <1>1, <2>1, <2>2, <2>3 DEF GoesOn
  <1>5. Started' = Started /\ Pending' = Pending \cup {t} /\ t \notin Pending
    BY <1>1, <1>2 DEF Started, Pending
  <1>6. (Cardinality(Started) + Cardinality(Pending) <= MaxCalls)'
    <2>1. Cardinality(Pending \cup {t}) = Cardinality(Pending) + 1
      BY <1>5, Finite, FS_AddElement
    <2> QED BY <1>1, <1>5, <2>1, Finite DEF ServicesAssumption
  <1>7. PICK used \in [Node -> Nat] : IdsInOrder(used) /\ IdsBefore(used)
    BY DEF Counted
  <1>8. IdsInOrder(used)'
    <2>1. ASSUME NEW z \in Thread
          PROVE  LET n == Home[z]
                 IN  /\ thread'[z].pc # "add" => count[n] = used[n] % IdSpace
                     /\ thread'[z].pc = "count" => thread'[z].id = count[n]
                     /\ thread'[z].pc = "add" => /\ thread'[z].id = used[n] % IdSpace
                                                 /\ count[n] = (thread'[z].id + 1) % IdSpace
      <3>1. Home[z] \in Node
        BY DEF ServicesAssumption
      <3>2. CASE z = t
        BY <1>1, <1>2, <1>7, <3>1, <3>2 DEF IdsInOrder
      <3>3. CASE z # t
        <4>1. thread'[z] = thread[z]
          BY <1>2, <3>3
        <4> QED BY <1>7, <3>1, <4>1 DEF IdsInOrder
      <3> QED BY <3>2, <3>3
    <2> QED BY <1>1, <1>5, <1>7, <2>1 DEF IdsInOrder
  <1>9. IdsBefore(used)'
    BY <1>1, <1>7 DEF IdsBefore
  <1> QED BY <1>4, <1>6, <1>7, <1>8, <1>9, GoesOnMine DEF Counted

LEMMA CountUpMine ==
  ASSUME ServicesAssumption, OneAtATime, TypeInv, TypeInv', OnceInv, Mine, Counted,
         NEW t \in Thread, CountUp(t)
  PROVE  Mine' /\ Counted'
  <1>1. /\ thread[t].pc = "count" /\ Goes(t, "add")
        /\ UNCHANGED <<requests, call, inbox>>
        /\ count' = [count EXCEPT ![Home[t]] = (thread[t].id + 1) % IdSpace]
    BY DEF CountUp, At
  <1>2. thread'[t].pc = "add" /\ thread'[t].id = thread[t].id
        /\ \A z \in Thread \ {t} : thread'[z] = thread[z]
    <2>1. thread'[t] = [thread[t] EXCEPT !.pc = "add"]
          /\ \A z \in Thread \ {t} : thread'[z] = thread[z]
      BY <1>1, Gone
    <2> QED BY <2>1, ThreadFields DEF ThreadType
  <1>3. \A z \in Thread : InRequest(z)' => InRequest(z) /\ thread'[z] = thread[z]
    BY <1>2 DEF InRequest
  <1>4. GoesOn
    <2>1. CallsGoOn
      BY <1>1 DEF CallsGoOn
    <2>2. ThreadsGoOn
      BY <1>1, <1>3, Held DEF ThreadsGoOn
    <2>3. \A d \in Node : \A m \in inbox'[d] : Known(m)
      BY <1>1 DEF Known, SameMessage
    <2> QED BY <1>1, <2>1, <2>2, <2>3 DEF GoesOn
  <1>5. Started' = Started /\ Pending' = Pending
    BY <1>1, <1>2 DEF Started, Pending
  <1>6. (Cardinality(Started) + Cardinality(Pending) <= MaxCalls)'
    BY <1>5 DEF Counted
  <1>7. PICK used \in [Node -> Nat] : IdsInOrder(used) /\ IdsBefore(used)
    BY DEF Counted
  <1>8. IdsInOrder(used)'
    <2>1. ASSUME NEW z \in Thread
          PROVE  LET n == Home[z]
                 IN  /\ thread'[z].pc # "add" => count'[n] = used[n] % IdSpace
                     /\ thread'[z].pc = "count" => thread'[z].id = count'[n]
                     /\ thread'[z].pc = "add" => /\ thread'[z].id = used[n] % IdSpace
                                                 /\ count'[n] = (thread'[z].id + 1) % IdSpace
      <3>1. Home[z] \in Node
        BY DEF ServicesAssumption
      <3>2. CASE z = t
        <4>1. count'[Home[t]] = (thread[t].id + 1) % IdSpace
          BY <1>1, <3>1, <3>2, TypeFields
        <4>2. thread[t].id = used[Home[t]] % IdSpace
          BY <1>1, <1>7, <3>1, <3>2 DEF IdsInOrder
        <4> QED BY <1>2, <3>2, <4>1, <4>2
      <3>3. CASE z # t
        <4>1. thread'[z] = thread[z]
          BY <1>2, <3>3
        <4>2. Home[z] # Home[t]
          BY <3>3 DEF OneAtATime
        <4>3. count'[Home[z]] = count[Home[z]]
          BY <1>1, <3>1, <4>2, TypeFields
        <4> QED BY <1>7, <3>1, <4>1, <4>3 DEF IdsInOrder
      <3> QED BY <3>2, <3>3
    <2> QED BY <1>1, <1>5, <1>7, <2>1 DEF IdsInOrder
  <1>9. IdsBefore(used)'
    BY <1>1, <1>7 DEF IdsBefore
  <1> QED BY <1>4, <1>6, <1>7, <1>8, <1>9, GoesOnMine DEF Counted

\* AddRequest: the request gets an id that no request and no message of its
\* node has.
LEMMA AddMine ==
  ASSUME ServicesAssumption, OneAtATime, TypeInv, TypeInv', OnceInv, Mine, Counted,
         NEW t \in Thread, AddRequest(t)
  PROVE  Mine' /\ Counted'
  <1>1. PICK locked \in BOOLEAN :
          /\ call' = [call EXCEPT ![NextCall] = NewCall(t, locked)]
          /\ requests' = IF locked
                         THEN [requests EXCEPT ![Home[t]] = @ \cup {NewRequest(t)}]
                         ELSE requests
          /\ thread' = [thread EXCEPT ![t] = IF locked THEN InTable(t) ELSE IdleThread]
    BY Added
  <1>2. /\ thread[t].pc = "add" /\ NextCall \in Call /\ Home[t] \in Node
        /\ UNCHANGED <<count, inbox>>
    BY Added DEF ServicesAssumption
  <1>3. PICK v, n, q, c, w : /\ v = NextCall /\ n = Home[t] /\ q = NewRequest(t)
                             /\ c = NewCall(t, locked)
                             /\ w = IF locked THEN InTable(t) ELSE IdleThread
    OBVIOUS
  <1>4. v \in Call /\ n \in Node
    BY <1>2, <1>3
  <1>5. /\ call[v].st = "free" /\ ~call[v].due /\ ~call[v].ok
        /\ v = Cardinality(Started) + 1 /\ Started = 1..Cardinality(Started)
        /\ Cardinality(Started) \in Nat
    <2>1. call[v].st = "free"
      BY <1>2, <1>3, StartedCounted DEF OnceInv
    <2>2. Started = 1..Cardinality(Started) /\ Cardinality(Started) \in Nat
      BY StartedCounted DEF OnceInv
    <2> QED BY <1>3, <1>4, <2>1, <2>2 DEF Mine, HeldUntilSent, NextCall
  <1>6. /\ c.st = (IF locked THEN "made" ELSE "refused") /\ c.svc = thread[t].svc
        /\ c.due = call[v].due /\ c.ok = call[v].ok
    <2>1. call[v] \in CallType
      BY <1>4, CallFields
    <2> QED BY <1>3, <2>1 DEF NewCall, CallType
  <1>7. q = [id |-> thread[t].id, call |-> v]
    BY <1>3 DEF NewRequest
  <1>8. /\ locked => w.pc = "sub" /\ w.call = v /\ w.svc = thread[t].svc /\ w.id = thread[t].id
        /\ ~locked => w.pc = "idle"
    BY <1>2, <1>3, NewTyped DEF IdleThread
  <1>9. \A u \in Call : call'[u] = IF u = v THEN c ELSE call[u]
    BY <1>1, <1>3, <1>4, TypeFields
  <1>10. \A k \in Node : requests'[k] = IF locked /\ k = n THEN requests[k] \cup {q}
                                        ELSE requests[k]
    BY <1>1, <1>3, TypeFields
  <1>11. \A z \in Thread : thread'[z] = IF z = t THEN w ELSE thread[z]
    BY <1>1, <1>3, TypeFields
  <1>12. PICK used \in [Node -> Nat] : IdsInOrder(used) /\ IdsBefore(used)
    BY DEF Counted
  <1>13. thread[t].id = used[n] /\ count[n] = (used[n] + 1) % IdSpace
    <2>1. thread[t].id = used[n] % IdSpace /\ count[n] = (thread[t].id + 1) % IdSpace
      BY <1>2, <1>3, <1>4, <1>12 DEF IdsInOrder
    <2>2. used[n] % IdSpace = used[n]
      BY <1>2, <1>3, <1>12, RoomForOne DEF Counted
    <2> QED BY <2>1, <2>2
  <1>14. \A k \in Node : requests[k] \in SUBSET [id : Id, call : Call]
    BY TypeFields
  <1>15. (\A r \in requests[n] : r.id < used[n]) /\ used[n] \in Nat
    BY <1>4, <1>12 DEF IdsInOrder
  <1>16. UniqueIds'
    <2> SUFFICES ASSUME NEW k \in Node, NEW r \in requests'[k], NEW p \in requests'[k],
                        r.id = p.id
                 PROVE  r = p
      BY DEF UniqueIds
    <2>1. CASE locked /\ k = n
      <3>1. r \in requests[n] \cup {q} /\ p \in requests[n] \cup {q}
        BY <1>4, <1>10, <2>1
      <3>2. q.id = used[n]
        BY <1>7, <1>13
      <3>3. \A x \in requests[n] : x.id # used[n]
        BY <1>4, <1>14, <1>15 DEF Id, ServicesAssumption
      <3> QED BY <1>4, <3>1, <3>2, <3>3 DEF Mine, UniqueIds
    <2>2. CASE ~(locked /\ k = n)
      BY <1>10, <2>2 DEF Mine, UniqueIds
    <2> QED BY <2>1, <2>2
  <1>D. DOMAIN call = Call /\ DOMAIN call' = Call
    BY DEF TypeInv, TypeOK
  <1>17. SuccessIsMine'
    BY <1>5, <1>6, <1>9, <1>D DEF Mine, SuccessIsMine
  <1>18. Means'
    <2> SUFFICES ASSUME NEW d \in Node, NEW m \in inbox[d] PROVE MessageMeans(m)'
      BY <1>2 DEF Means
    <2>1. MessageMeans(m) /\ m.call \in Call /\ m.node \in Node
      BY TypeFields DEF Mine, Means, Message
    <2>2. m.call # v
      BY <1>5, <2>1 DEF MessageMeans
    <2>3. m.id < used[m.node] /\ m.id \in Id
      BY <1>12, TypeFields DEF IdsBefore, Message
    <2>4. ASSUME NEW r \in requests'[m.node], r.id = m.id PROVE r.call = m.call
      <3>1. CASE r \in requests[m.node]
        BY <2>1, <2>4, <3>1 DEF MessageMeans
      <3>2. CASE r = q /\ m.node = n
        BY <1>7, <1>13, <1>15, <2>3, <2>4, <3>2 DEF Id, ServicesAssumption
      <3> QED BY <1>10, <2>1, <3>1, <3>2
    <2> QED BY <1>9, <2>1, <2>2, <2>4 DEF MessageMeans
  <1>19. HeldUntilSent'
    <2>1. ASSUME NEW z \in Thread, InRequest(z)'
          PROVE  /\ call'[thread'[z].call].st = "made"
                 /\ call'[thread'[z].call].svc = thread'[z].svc
                 /\ [id |-> thread'[z].id, call |-> thread'[z].call] \in requests'[Home[z]]
                 /\ z = t => thread'[z].call = v
                 /\ z # t => InRequest(z) /\ thread'[z] = thread[z] /\ thread[z].call # v
      <3>1. CASE z = t
        <4>1. thread'[z] = w
          BY <1>11, <3>1
        <4>2. locked
          BY <1>8, <2>1, <4>1 DEF InRequest
        <4>3. q \in requests'[Home[z]]
          BY <1>3, <1>4, <1>10, <3>1, <4>2
        <4> QED BY <1>4, <1>6, <1>7, <1>8, <1>9, <3>1, <4>1, <4>2, <4>3
      <3>2. CASE z # t
        <4>1. thread'[z] = thread[z]
          BY <1>11, <3>2
        <4>2. InRequest(z)
          BY <2>1, <4>1 DEF InRequest
        <4>3. /\ thread[z].call \in Call /\ call[thread[z].call].st = "made"
              /\ call[thread[z].call].svc = thread[z].svc
              /\ [id |-> thread[z].id, call |-> thread[z].call] \in requests[Home[z]]
          BY <4>2, Held
        <4>4. thread[z].call # v
          BY <1>5, <4>3
        <4>5. requests[Home[z]] \subseteq requests'[Home[z]]
          BY <1>10 DEF ServicesAssumption
        <4> QED BY <1>9, <3>2, <4>1, <4>2, <4>3, <4>4, <4>5
      <3> QED BY <3>1, <3>2
    <2>2. ASSUME NEW x \in Thread, NEW z \in Thread, InRequest(x)', InRequest(z)',
                 thread'[x].call = thread'[z].call
          PROVE  x = z
      <3>1. CASE x = t \/ z = t
        BY <2>1, <2>2, <3>1
      <3>2. CASE x # t /\ z # t
        BY <2>1, <2>2, <3>2 DEF Mine, HeldUntilSent
      <3> QED BY <3>1, <3>2
    <2>3. \A u \in Call : /\ call'[u].st \in {"free", "made"} => ~call'[u].due
                          /\ call'[u].st = "free" => ~call'[u].ok
      BY <1>5, <1>6, <1>9 DEF Mine, HeldUntilSent
    <2> QED BY <2>1, <2>2, <2>3 DEF HeldUntilSent
  <1>20. Started' = Started \cup {v} /\ Cardinality(Started') = Cardinality(Started) + 1
    <2>1. Started' = Started \cup {v} /\ v \notin Started
      BY <1>4, <1>5, <1>6, <1>9 DEF Started
    <2> QED BY <2>1, Finite, FS_AddElement
  <1>21. (Cardinality(Started) + Cardinality(Pending) <= MaxCalls)'
    <2>1. Pending' = Pending \ {t} /\ t \in Pending
      BY <1>2, <1>8, <1>11 DEF Pending
    <2>2. Cardinality(Pending \ {t}) = Cardinality(Pending) - 1
      BY <2>1, Finite, FS_RemoveElement
    <2> QED BY <1>20, <2>1, <2>2, Finite DEF Counted
  <1> DEFINE more == [used EXCEPT ![n] = @ + 1]
  <1>22. more \in [Node -> Nat] /\ more[n] = used[n] + 1
         /\ \A k \in Node : k # n => more[k] = used[k]
    BY <1>4
  <1> HIDE DEF more
  <1>23. IdsInOrder(more)'
    <2>1. ASSUME NEW k \in Node PROVE more[k] <= Cardinality(Started')
      <3>1. used[k] <= Cardinality(Started)
        BY <1>12 DEF IdsInOrder
      <3> QED BY <1>5, <1>20, <1>22, <3>1
    <2>2. ASSUME NEW k \in Node, NEW r \in requests'[k] PROVE r.id < more[k]
      <3>1. CASE r \in requests[k]
        <4>1. r.id < used[k] /\ r.id \in Nat
          BY <1>12, <1>14, <3>1 DEF IdsInOrder, Id, ServicesAssumption
        <4> QED BY <1>22, <4>1
      <3>2. CASE r = q /\ k = n
        BY <1>7, <1>13, <1>15, <1>22, <3>2
      <3> QED BY <1>10, <2>2, <3>1, <3>2
    <2>3. ASSUME NEW z \in Thread
          PROVE  LET k == Home[z]
                 IN  /\ thread'[z].pc # "add" => count[k] = more[k] % IdSpace
                     /\ thread'[z].pc = "count" => thread'[z].id = count[k]
                     /\ thread'[z].pc = "add" => /\ thread'[z].id = more[k] % IdSpace
                                                 /\ count[k] = (thread'[z].id + 1) % IdSpace
      <3>1. Home[z] \in Node
        BY DEF ServicesAssumption
      <3>2. CASE z = t
        BY <1>3, <1>8, <1>11, <1>13, <1>22, <3>2
      <3>3. CASE z # t
        <4>1. thread'[z] = thread[z] /\ Home[z] # n
          BY <1>3, <1>11, <3>3 DEF OneAtATime
        <4>2. more[Home[z]] = used[Home[z]]
          BY <1>22, <3>1, <4>1
        <4> QED BY <1>12, <3>1, <4>1, <4>2 DEF IdsInOrder
      <3> QED BY <3>2, <3>3
    <2> QED BY <1>2, <2>1, <2>2, <2>3 DEF IdsInOrder
  <1>24. IdsBefore(more)'
    <2> SUFFICES ASSUME NEW d \in Node, NEW m \in inbox[d] PROVE m.id < more[m.node]
      BY <1>2 DEF IdsBefore
    <2>1. m.id < used[m.node] /\ m.id \in Nat /\ m.node \in Node
      BY <1>12, TypeFields DEF IdsBefore, Message, Id, ServicesAssumption
    <2> QED BY <1>15, <1>22, <2>1
  <1> QED BY <1>16, <1>17, <1>18, <1>19, <1>21, <1>22, <1>23, <1>24 DEF Mine, Counted

LEMMA InitMine ==
  ASSUME ServicesAssumption PROVE Init => Mine /\ Counted
  <1> SUFFICES ASSUME Init PROVE Mine /\ Counted
    OBVIOUS
  <1>1. \A u \in Call : call[u].st = "free" /\ ~call[u].due /\ ~call[u].ok
    BY DEF Init
  <1>2. \A n \in Node : requests[n] = {} /\ inbox[n] = {} /\ count[n] = 0
    BY DEF Init
  <1>3. \A t \in Thread : thread[t].pc = "idle" /\ ~InRequest(t)
    BY DEF Init, InRequest, IdleThread
  <1>D. DOMAIN call = Call
    BY DEF Init
  <1>4. Mine
    BY <1>1, <1>2, <1>3, <1>D DEF Mine, HeldUntilSent, UniqueIds, SuccessIsMine, Means
  <1>5. Started = {} /\ Pending = {}
    BY <1>1, <1>3 DEF Started, Pending
  <1>6. Cardinality(Started) + Cardinality(Pending) <= MaxCalls /\ Cardinality(Started) = 0
    BY <1>5, FS_EmptySet DEF ServicesAssumption
  <1> DEFINE none == [n \in Node |-> 0]
  <1>7. none \in [Node -> Nat] /\ \A n \in Node : none[n] = 0
    OBVIOUS
  <1> HIDE DEF none
  <1>8. 0 % IdSpace = 0
    BY DEF ServicesAssumption
  <1>9. IdsInOrder(none) /\ IdsBefore(none)
    BY <1>2, <1>3, <1>6, <1>7, <1>8 DEF IdsInOrder, IdsBefore, ServicesAssumption
  <1> QED BY <1>4, <1>6, <1>7, <1>9 DEF Counted

LEMMA NextMine ==
  ASSUME ServicesAssumption, OneAtATime
  PROVE  TypeInv /\ TypeInv' /\ OnceInv /\ MineInv /\ [Next]_vars => MineInv'
  <1>0. MineInv <=> Mine /\ Counted
    BY DEF MineInv, Mine, Means
  <1>00. MineInv' <=> Mine' /\ Counted'
    BY DEF MineInv, Mine, Means
  <1> SUFFICES ASSUME TypeInv, TypeInv', OnceInv, Mine, Counted, [Next]_vars
               PROVE  Mine' /\ Counted'
    BY <1>0, <1>00
  <1>1. \A d \in Node : \A p \in inbox[d] : Known(p)
    BY DEF Known, SameMessage
  <1>2. CASE UNCHANGED vars
    BY <1>1, <1>2, InboxMine DEF vars
  <1>3. ASSUME NEW t \in Thread, Application(t) PROVE Mine' /\ Counted'
    BY <1>3, CreateMine, CountUpMine, AddMine, SubToReplyMine, SendRequestMine
       DEF Application
  <1>4. ASSUME NEW n \in Node, NEW s \in Service, Register(n, s) \/ Unregister(n, s)
        PROVE  Mine' /\ Counted'
    BY <1>1, <1>4, InboxMine DEF Register, Unregister
  <1>5. ASSUME NEW n \in Node, Middleware(n) \/ Expire(n) PROVE Mine' /\ Counted'
    BY <1>5, MiddlewareMine, ExpireMine
  <1>6. ASSUME NEW n \in Node, NEW r \in requests[n], TimeOut(n, r) PROVE Mine' /\ Counted'
    BY <1>6, TimeOutMine
  <1>7. ASSUME NEW n \in Node, Reset(n) PROVE FALSE
    BY <1>7, TypeFields DEF Reset, OneAtATime
  <1> QED BY <1>2, <1>3, <1>4, <1>5, <1>6, <1>7 DEF Next

\* Where no node restarts, each has one thread that makes requests, and ids do
\* not run out: a callback that is told "success" gets the answer to its own
\* request from the service it asked, and outstanding requests have ids of
\* their own, whatever is lost, delayed, answered by several nodes or late
\* (_create_node, _service_request_cb, _service_request_send_request).
THEOREM AnsweredRightly ==
  ASSUME ServicesAssumption, OneAtATime PROVE Spec => []AnswerIsForMe
  <1>1. Init => TypeInv /\ OnceInv /\ MineInv
    BY InitTyped, InitOnce, InitMine DEF MineInv, Mine, Means
  <1>2. TypeInv /\ OnceInv /\ MineInv /\ [Next]_vars => (TypeInv /\ OnceInv /\ MineInv)'
    BY NextTyped, NextOnce, NextMine
  <1>3. MineInv => AnswerIsForMe
    BY DEF MineInv, AnswerIsForMe
  <1> QED BY <1>1, <1>2, <1>3, PTL DEF Spec

=============================================================================
