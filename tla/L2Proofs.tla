------------------------------ MODULE L2Proofs ------------------------------
(***************************************************************************)
(* Proofs about layer 2.  LinksKnown: the timers and the callback follow   *)
(* the ports.  FramesRight: references are counted, and frames leave with  *)
(* their own port and its checksum.                                        *)
(***************************************************************************)
EXTENDS L2, FiniteSetTheorems, SequenceTheorems, WellFoundedInduction, TLAPS

-----------------------------------------------------------------------------
(* The links *)

LEMMA NotNoChange ==
    ASSUME L2Assumption, NEW c \in Change
    PROVE  c # NoChange
BY DEF L2Assumption, Change, NoChange

LEMMA LinksInit ==
    ASSUME L2Assumption, Init
    PROVE  LinksInv
BY DEF Init, LinksInv, LinksAreKnown, RetriedIffDown, CallbackKnows

\* Ports that are down get a timer or are refused one.
LEMMA StartChecksDo ==
    ASSUME LinksInv, NEW ps \in SUBSET Ports, StartChecks(ps), enabled' \cap ps = {},
           enabled' \subseteq enabled
    PROVE  /\ timers' \subseteq Ports /\ refused' \subseteq Ports /\ astray' \in BOOLEAN
           /\ refused' \cap timers' = {} /\ refused' \cap enabled' = {}
           /\ ~astray' => ~astray /\ timers \subseteq timers' /\ timers' \subseteq timers \cup ps
                          /\ timers' \cup refused' = timers \cup refused \cup ps
<1>1. PICK got \in SUBSET (ps \ timers), lost \in BOOLEAN :
          /\ astray' = (astray \/ lost)
          /\ timers' = IF astray' THEN {} ELSE timers \cup got
          /\ refused' = IF astray' THEN {} ELSE (refused \cup ps) \ timers'
    BY DEF StartChecks
<1>2. astray \in BOOLEAN /\ timers \subseteq Ports /\ refused \subseteq Ports
      /\ refused \cap enabled = {} /\ refused \cap timers = {}
    BY DEF LinksInv
<1>3. CASE astray'
    BY <1>1, <1>2, <1>3
<1>4. CASE ~astray'
    <2>1. ~astray /\ timers' = timers \cup got /\ refused' = (refused \cup ps) \ timers'
        BY <1>1, <1>4
    <2> QED
        BY <1>1, <1>2, <1>4, <2>1
<1> QED
    BY <1>3, <1>4

\* A change that starts from the mask as it is keeps the invariant, whoever
\* makes it.
LEMMA LinkChangeKeeps ==
    ASSUME L2Assumption, LinksInv, running, NEW p \in Ports, NEW up \in BOOLEAN,
           link_change(enabled, p, up), UNCHANGED <<running, in_irq, listening, replay>>,
           (changing = NoChange /\ UNCHANGED changing) \/ changing' = NoChange,
           replay = NoReplay
    PROVE  LinksInv'
<1>1. enabled' = (IF up THEN enabled \cup {p} ELSE enabled \ {p}) /\ enabled' \subseteq Ports
      /\ told' \subseteq Ports
    BY DEF LinksInv, link_change
<1>2. /\ timers' \subseteq Ports /\ refused' \subseteq Ports /\ astray' \in BOOLEAN
      /\ refused' \cap timers' = {} /\ refused' \cap enabled' = {}
      /\ ~astray' => timers' = (Ports \ enabled') \ refused'
    <2>1. ~astray => timers = (Ports \ enabled) \ refused
        BY DEF LinksInv, LinksAreKnown, RetriedIffDown
    <2>2. CASE up
        <3>1. timers' = timers \ {p} /\ refused' = refused \ {p} /\ astray' = astray
            BY <2>2 DEF link_change, StopCheck
        <3> QED
            BY <1>1, <2>1, <2>2, <3>1 DEF LinksInv
    <2>3. CASE ~up
        <3>1. enabled' = enabled \ {p} /\ StartChecks({p})
            BY <1>1, <2>3 DEF link_change
        <3>2. /\ timers' \subseteq Ports /\ refused' \subseteq Ports /\ astray' \in BOOLEAN
              /\ refused' \cap timers' = {} /\ refused' \cap enabled' = {}
              /\ ~astray' => ~astray /\ timers \subseteq timers' /\ timers' \subseteq timers \cup {p}
                             /\ timers' \cup refused' = timers \cup refused \cup {p}
            BY <3>1, StartChecksDo
        <3>3. refused \cap enabled = {} /\ refused \subseteq Ports
            BY DEF LinksInv
        <3> QED
            BY <2>1, <3>1, <3>2, <3>3
    <2> QED
        BY <2>2, <2>3
<1>3. listening => told' = enabled'
    BY DEF LinksInv, LinksAreKnown, CallbackKnows, link_change
<1>4. ~listening => told' = {}
    BY DEF LinksInv, link_change
<1> QED
    BY <1>1, <1>2, <1>3, <1>4 DEF LinksInv, LinksAreKnown, RetriedIffDown, CallbackKnows

LEMMA LinksStep ==
    ASSUME L2Assumption, ~Preempt, LinksInv, [Next]_vars
    PROVE  LinksInv'
<1>1. CASE UNCHANGED <<running, in_irq, links>>
    BY <1>1 DEF LinksInv, LinksAreKnown, RetriedIffDown, CallbackKnows, links, checks
<1>2. CASE ThreadStarts
    <2>1. ~running /\ running' = TRUE /\ StartChecks(Ports) /\ enabled = {} /\ timers = {}
          /\ changing = NoChange /\ replay = NoReplay
          /\ UNCHANGED <<in_irq, enabled, told, listening, changing, replay>>
        BY <1>2 DEF ThreadStarts, L2Runs, Busy, LinksInv
    <2>2. /\ timers' \subseteq Ports /\ refused' \subseteq Ports /\ astray' \in BOOLEAN
          /\ refused' \cap timers' = {} /\ refused' \cap enabled' = {}
          /\ ~astray' => timers' \cup refused' = timers \cup refused \cup Ports
        BY <2>1, StartChecksDo
    <2>3. ~astray' => timers' = (Ports \ enabled') \ refused'
        BY <2>1, <2>2
    <2> QED
        BY <2>1, <2>2, <2>3 DEF LinksInv, LinksAreKnown, RetriedIffDown, CallbackKnows
<1>3. CASE IrqBegin \/ IrqEnd
    <2>1. in_irq' \in BOOLEAN /\ UNCHANGED <<running, links>> /\ (in_irq' => running)
        BY <1>3 DEF IrqBegin, IrqEnd, Event
    <2> QED
        BY <2>1 DEF links, checks, LinksInv, LinksAreKnown, RetriedIffDown, CallbackKnows
<1>4. ASSUME NEW p \in Ports, NEW up \in BOOLEAN, LinkChanges(p, up)
      PROVE  LinksInv'
    <2>1. changing = NoChange /\ replay = NoReplay /\ running /\ link_change(enabled, p, up)
          /\ UNCHANGED <<running, in_irq, listening, changing, replay>>
        BY <1>4 DEF LinkChanges, L2Runs, Busy, LinksInv, thread
    <2> QED
        BY <2>1, LinkChangeKeeps
<1>5. ASSUME NEW p \in Ports, NEW up \in BOOLEAN, PortBegin(p, up)
      PROVE  LinksInv'
    <2>1. changing' \in Change /\ changing'.old = enabled
        BY <1>5 DEF PortBegin, LinksInv, Change
    <2>2. /\ running /\ replay = NoReplay
          /\ UNCHANGED <<running, in_irq, enabled, timers, refused, astray, told, listening, replay>>
        BY <1>5 DEF PortBegin, Busy, thread, checks
    <2> QED
        BY <2>1, <2>2 DEF LinksInv, LinksAreKnown, RetriedIffDown, CallbackKnows
<1>6. CASE PortEnd
    <2>1. changing \in Change /\ running /\ changing.old = enabled /\ replay = NoReplay
        BY <1>6 DEF PortEnd, LinksInv
    <2>2. changing.port \in Ports /\ changing.up \in BOOLEAN
        BY <2>1 DEF Change
    <2>3. link_change(enabled, changing.port, changing.up) /\ changing' = NoChange
          /\ UNCHANGED <<running, in_irq, listening, replay>>
        BY <1>6, <2>1 DEF PortEnd, thread
    <2> QED
        BY <2>1, <2>2, <2>3, LinkChangeKeeps
<1>7. CASE Register
    <2>1. /\ ~listening /\ listening' = TRUE /\ changing = NoChange /\ told = {} /\ LookAt(1)
          /\ enabled \subseteq Ports
          /\ UNCHANGED <<running, in_irq, enabled, timers, refused, astray, told, changing>>
        BY <1>7 DEF Register, Busy, thread, checks, LinksInv
    <2>2. /\ {p \in enabled : p < 1} = {}
          /\ 1 \notin Ports => enabled = {}
        BY <2>1 DEF L2Assumption
    <2>3. /\ replay' # NoReplay => /\ replay' = [next |-> 1, up |-> 1 \in enabled] /\ 1 \in Ports
                                   /\ told = {p \in enabled : p < 1}
          /\ replay' = NoReplay => told = enabled
        BY <2>1, <2>2 DEF LookAt, NoReplay
    <2>4. replay' # NoReplay => replay'.next = 1
        BY <2>3
    <2> QED
        BY <2>1, <2>3, <2>4 DEF LinksInv, LinksAreKnown, RetriedIffDown, CallbackKnows
<1>10. CASE Replay
    <2>1. PICK n \in Ports : n = replay.next
        BY <1>10 DEF Replay, LinksInv
    <2>2. /\ listening /\ changing = NoChange /\ replay.up = (n \in enabled)
          /\ told = {p \in enabled : p < n} /\ enabled \subseteq Ports
          /\ told' = (IF replay.up THEN told \cup {n} ELSE told) /\ LookAt(n + 1)
          /\ UNCHANGED <<running, in_irq, enabled, timers, refused, astray, listening, changing>>
        BY <1>10, <2>1 DEF Replay, thread, checks, LinksInv
    <2>3. told' = {p \in enabled : p < n + 1}
        <3>1. \A p \in enabled : p < n + 1 <=> p < n \/ p = n
            BY <2>1, <2>2 DEF L2Assumption
        <3> QED
            BY <2>2, <3>1
    <2>4. n + 1 \notin Ports => told' = enabled
        <3>1. n + 1 \notin Ports => \A p \in Ports : p < n + 1
            BY <2>1 DEF L2Assumption
        <3> QED
            BY <2>2, <2>3, <3>1
    <2>5. /\ replay' # NoReplay => /\ replay' = [next |-> n + 1, up |-> n + 1 \in enabled]
                                   /\ n + 1 \in Ports
          /\ replay' = NoReplay => told' = enabled
        BY <2>2, <2>4 DEF LookAt, NoReplay, L2Assumption
    <2>6. replay' # NoReplay => replay'.next = n + 1
        BY <2>5
    <2>7. told' \subseteq Ports
        BY <2>2, <2>3
    <2> QED
        BY <2>2, <2>3, <2>5, <2>6, <2>7 DEF LinksInv, LinksAreKnown, RetriedIffDown, CallbackKnows
<1>8. ASSUME NEW proto \in Proto, NEW base \in Sums
      PROVE  /\ \A dst, p : Output(proto, dst, base, p) => UNCHANGED <<running, in_irq, links>>
             /\ \A dst, q, p : Receive(proto, dst, base, q, p) => UNCHANGED <<running, in_irq, links>>
    BY DEF Output, Receive, thread
<1>9. (\E b \in Buffer : CleanUp(b)) \/ BcmpHandles \/ Interrupt \/ ProcessTx \/ ProcessRx
         => UNCHANGED <<running, in_irq, links>>
    BY DEF CleanUp, BcmpHandles, Interrupt, ProcessTx, ProcessRx, thread
<1> QED
    BY <1>1, <1>2, <1>3, <1>4, <1>5, <1>6, <1>7, <1>8, <1>9, <1>10 DEF Next, vars, thread

\* Layer 2 (network/l2.c): a port is renegotiated as long as it is down and no
\* longer, unless there was no memory or no timer for it, and a callback for
\* link changes has been told of the ports as they are once they have been
\* replayed to it, whichever thread changes a port and however many ports there
\* are: as long as the L2 thread does not run in the middle of a change or of a
\* replay, and no timer that failed to start has left its item in the list.
THEOREM LinksKnown ==
    ASSUME L2Assumption, ~Preempt
    PROVE  Spec => []LinksAreKnown
<1>1. Init => LinksInv
    BY LinksInit
<1>2. LinksInv /\ [Next]_vars => LinksInv'
    BY LinksStep
<1>3. LinksInv => LinksAreKnown
    BY DEF LinksInv
<1> QED
    BY <1>1, <1>2, <1>3, PTL DEF Spec

-----------------------------------------------------------------------------
(* Checksums *)

LEMMA ModUnique ==
    ASSUME NEW B \in Nat \ {0}, NEW k \in Int, NEW r \in 0..(B - 1)
    PROVE  (B * k + r) % B = r
OBVIOUS

LEMMA ModFacts ==
    ASSUME NEW B \in Nat \ {0}, NEW x \in Int
    PROVE  /\ x % B \in 0..(B - 1)
           /\ \E k \in Int : x = B * k + (x % B)
<1>1. x % B \in 0..(B - 1)
    OBVIOUS
<1>2. x \div B \in Int /\ x = B * (x \div B) + (x % B)
    OBVIOUS
<1> QED
    BY <1>1, <1>2

\* What is added to a number of one byte and taken away again leaves it alone.
LEMMA AddedTakenAway ==
    ASSUME NEW B \in Nat \ {0}, NEW x \in 0..(B - 1), NEW p \in Nat
    PROVE  (((x + p) % B) - p) % B = x
<1>1. PICK y \in Int : y = x + p
    OBVIOUS
<1>2. /\ y % B \in 0..(B - 1)
      /\ \E k \in Int : y = B * k + (y % B)
    BY ModFacts
<1>3. PICK k \in Int : y = B * k + (y % B)
    BY <1>2
<1>4. PICK z \in Int : z = (y % B) - p
    <2>1. PICK r \in Int : r = y % B
        BY <1>2
    <2>2. r - p \in Int
        OBVIOUS
    <2> QED
        BY <2>1, <2>2
<1>5. PICK j \in Int : j = 0 - k
    OBVIOUS
<1>6. B * j = 0 - B * k
    BY <1>5
<1>7. B * k \in Int
    OBVIOUS
<1>8. z = B * j + x
    BY <1>1, <1>2, <1>3, <1>4, <1>6, <1>7
<1>9. (B * j + x) % B = x
    BY ModUnique
<1> QED
    BY <1>1, <1>4, <1>8, <1>9

\* The same of the first byte of a checksum of two.
LEMMA LowByteBack ==
    ASSUME NEW B \in Nat \ {0}, NEW s \in Nat, NEW p \in Nat
    PROVE  \E t \in Int : /\ t = (s - (s % B)) + (((s % B) + p) % B)
                          /\ (t - (t % B)) + (((t % B) - p) % B) = s
<1> DEFINE t == (s - (s % B)) + (((s % B) + p) % B)
<1>1. s % B \in 0..(B - 1) /\ \E k \in Int : s = B * k + (s % B)
    <2>1. PICK u \in Int : u = s
        OBVIOUS
    <2>2. /\ u % B \in 0..(B - 1)
          /\ \E k \in Int : u = B * k + (u % B)
        BY ModFacts
    <2> QED
        BY <2>1, <2>2
<1>2. PICK k \in Int : s = B * k + (s % B)
    BY <1>1
<1>3. PICK x \in 0..(B - 1) : x = s % B
    BY <1>1
<1>4. PICK y \in Int : y = x + p
    OBVIOUS
<1>5. y % B \in 0..(B - 1)
    BY ModFacts
<1>6. PICK z \in 0..(B - 1) : z = y % B
    BY <1>5
<1>7. B * k \in Int /\ t = B * k + z
    BY <1>2, <1>3, <1>4, <1>6
<1>8. t \in Int /\ t % B = z
    <2>1. (B * k + z) % B = z
        BY ModUnique
    <2> QED
        BY <1>7, <2>1
<1>9. (z - p) % B = x
    BY <1>4, <1>6, AddedTakenAway
<1>10. (t - (t % B)) + (((t % B) - p) % B) = s
    <2>1. PICK u \in Int : u = t
        BY <1>8
    <2> QED
        BY <1>2, <1>3, <1>7, <1>8, <1>9, <2>1
<1> QED
    BY <1>8, <1>10

LEMMA LowByteNoCarry ==
    ASSUME NEW B \in Nat \ {0}, NEW s \in 0..(B * B - 1), NEW p \in Nat, (s % B) + p < B
    PROVE  /\ (s - (s % B)) + (((s % B) + p) % B) = s + p
           /\ s + p < B * B
           /\ (s + p) % (B * B) = s + p
<1>1. s % B \in 0..(B - 1) /\ \E k \in Int : s = B * k + (s % B)
    <2>1. PICK u \in Int : u = s
        OBVIOUS
    <2>2. /\ u % B \in 0..(B - 1)
          /\ \E k \in Int : u = B * k + (u % B)
        BY ModFacts
    <2> QED
        BY <2>1, <2>2
<1>2. PICK k \in Int : s = B * k + (s % B)
    BY <1>1
<1>3. PICK x \in 0..(B - 1) : x = s % B
    BY <1>1
<1>4. PICK y \in 0..(B - 1) : y = x + p
    BY <1>3
<1>5. y % B = y
    <2>1. (B * 0 + y) % B = y
        BY ModUnique
    <2> QED
        BY <2>1
<1>6. (s - (s % B)) + (((s % B) + p) % B) = s + p
    BY <1>3, <1>4, <1>5
<1>7. s + p < B * B
    <2>1. k < B
        <3>1. SUFFICES ASSUME k >= B PROVE FALSE
            OBVIOUS
        <3>2. B * k >= B * B
            BY <3>1
        <3> QED
            BY <1>2, <1>3, <3>2
    <2>2. PICK j \in Nat : B = k + 1 + j
        BY <2>1
    <2>3. B * B = B * k + B + B * j
        BY <2>2
    <2>4. B * j >= 0 /\ B * j \in Int /\ B * k \in Int
        OBVIOUS
    <2> QED
        BY <1>2, <1>3, <1>4, <2>3, <2>4
<1>8. PICK C \in Nat \ {0} : C = B * B
    OBVIOUS
<1>9. (C * 0 + (s + p)) % C = s + p
    BY <1>7, <1>8, ModUnique
<1> QED
    BY <1>6, <1>7, <1>8, <1>9

-----------------------------------------------------------------------------
(* What bm_l2_process_tx_evt sends *)

LEMMA FrameFields ==
    ASSUME NEW f \in Frame
    PROVE  f = [proto |-> f.proto, dst |-> f.dst, ingress |-> f.ingress, egress |-> f.egress,
                base |-> f.base, sum |-> f.sum, came |-> f.came]
BY DEF Frame

\* A frame that a port was added to and taken from again is as it was.
LEMMA RevertedIsSame ==
    ASSUME L2Assumption, NEW f \in Frame, f.egress = {}, f.ingress = 0, NEW p \in Ports
    PROVE  Reverted(AddPort(f, p), p) = f
<1>1. PICK B \in Nat \ {0} : B = Byte
    BY DEF L2Assumption
<1>2. PICK C \in Nat \ {0} : C = Byte * Byte
    BY DEF L2Assumption
<1>3. p \in Nat
    BY DEF L2Assumption
<1>4. PICK s \in 0..(C - 1) : s = f.sum
    BY <1>2 DEF Frame
<1>5. CASE f.proto = "bcmp"
    <2>1. (((s + p) % C) - p) % C = s
        BY <1>3, AddedTakenAway
    <2>2. AddPort(f, p) = [f EXCEPT !.egress = @ \cup {p}, !.sum = (s + p) % C]
        BY <1>2, <1>4, <1>5 DEF AddPort
    <2>3. PICK t : t = (s + p) % C
        OBVIOUS
    <2>4. PICK g : g = AddPort(f, p)
        OBVIOUS
    <2>5. g = [proto |-> f.proto, dst |-> f.dst, ingress |-> f.ingress, egress |-> {p},
               base |-> f.base, sum |-> t, came |-> f.came]
        BY <2>2, <2>3, <2>4 DEF Frame
    <2>6. Reverted(g, p) = [g EXCEPT !.egress = {}, !.ingress = 0, !.sum = s]
        BY <1>2, <1>5, <2>1, <2>3, <2>5 DEF Reverted
    <2>7. Reverted(g, p) = [proto |-> f.proto, dst |-> f.dst, ingress |-> 0, egress |-> {},
                            base |-> f.base, sum |-> s, came |-> f.came]
        BY <2>5, <2>6
    <2> QED
        BY <1>4, <2>4, <2>7, FrameFields
<1>6. CASE f.proto # "bcmp"
    <2>0. PICK v \in Nat : v = s
        OBVIOUS
    <2>1. PICK t \in Int : /\ t = (v - (v % B)) + (((v % B) + p) % B)
                           /\ (t - (t % B)) + (((t % B) - p) % B) = v
        BY <1>3, LowByteBack
    <2>2. t = (s - (s % B)) + (((s % B) + p) % B) /\ (t - (t % B)) + (((t % B) - p) % B) = s
        BY <2>0, <2>1
    <2>4. PICK g : g = AddPort(f, p)
        OBVIOUS
    <2>5. g = [proto |-> f.proto, dst |-> f.dst, ingress |-> f.ingress, egress |-> {p},
               base |-> f.base, sum |-> t, came |-> f.came]
        <3>1. g = [f EXCEPT !.egress = @ \cup {p}, !.sum = t]
            BY <1>1, <1>4, <1>6, <2>2, <2>4 DEF AddPort
        <3> QED
            BY <3>1 DEF Frame
    <2>6. Reverted(g, p) = [g EXCEPT !.egress = {}, !.ingress = 0, !.sum = s]
        <3>1. g.proto # "bcmp" /\ g.sum = t
            BY <1>6, <2>5
        <3> QED
            BY <1>1, <2>2, <3>1 DEF Reverted
    <2>7. Reverted(g, p) = [proto |-> f.proto, dst |-> f.dst, ingress |-> 0, egress |-> {},
                            base |-> f.base, sum |-> s, came |-> f.came]
        BY <2>5, <2>6
    <2> QED
        BY <1>4, <2>4, <2>7, FrameFields
<1> QED
    BY <1>5, <1>6

LEMMA LeastExists ==
    ASSUME NEW K \in SUBSET Nat, K # {}
    PROVE  \E k \in K : \A j \in K : k <= j
<1>1. PICK k \in K : \A j \in K : ~(<<j, k>> \in OpToRel(<, Nat))
    BY NatLessThanWellFounded, WFMin
<1>2. ASSUME NEW j \in K PROVE k <= j
    <2>1. j \in Nat /\ k \in Nat
        OBVIOUS
    <2>2. j < k => <<j, k>> \in OpToRel(<, Nat)
        BY <2>1 DEF OpToRel
    <2>3. ~(j < k)
        BY <1>1, <2>2, Zenon
    <2> QED BY <2>1, <2>3
<1> QED BY <1>2

\* The loop over the ports sends the frame with each port added, whatever
\* ports it left by before.
LEMMA SentEach ==
    ASSUME L2Assumption, NEW f \in Frame, f.egress = {}, f.ingress = 0,
           NEW ports \in SUBSET Ports
    PROVE  SentLocal(f, ports) = {[port |-> p, of |-> AddPort(f, p)] : p \in ports}
<1> DEFINE N == Cardinality(Ports)
           After[p \in 0..N] ==
               IF p = 0 THEN f
               ELSE IF p \in ports THEN Reverted(AddPort(After[p - 1], p), p) ELSE After[p - 1]
           Good(h) == h = [p \in 0..N |->
               IF p = 0 THEN f
               ELSE IF p \in ports THEN Reverted(AddPort(h[p - 1], p), p) ELSE h[p - 1]]
<1>1. N \in Nat /\ Ports = 1..N
    BY DEF L2Assumption
<1>2. \A p \in ports : Reverted(AddPort(f, p), p) = f
    BY RevertedIsSame
<1>3. Good([p \in 0..N |-> f])
    <2> DEFINE g == [p \in 0..N |-> f]
    <2>1. ASSUME NEW p \in 0..N
          PROVE  f = IF p = 0 THEN f
                     ELSE IF p \in ports THEN Reverted(AddPort(g[p - 1], p), p) ELSE g[p - 1]
        <3>1. p # 0 => g[p - 1] = f
            BY <1>1
        <3> QED
            BY <1>2, <3>1
    <2> QED
        BY <2>1
<1>4. After = CHOOSE h : Good(h)
    BY DEF After
<1>5. Good(After)
    BY <1>3, <1>4
<1> HIDE DEF After, N
<1>6. \A p \in 0..N : After[p] = IF p = 0 THEN f
               ELSE IF p \in ports THEN Reverted(AddPort(After[p - 1], p), p) ELSE After[p - 1]
    BY <1>5
<1>7. \A p \in 0..N : After[p] = f
    <2> DEFINE K == {p \in 0..N : After[p] # f}
    <2>1. SUFFICES ASSUME K # {} PROVE FALSE
        OBVIOUS
    <2>2. K \in SUBSET Nat
        BY <1>1
    <2>3. PICK k \in K : \A j \in K : k <= j
        BY <2>1, <2>2, LeastExists
    <2>4. k \in 0..N /\ After[k] # f
        OBVIOUS
    <2>5. k # 0
        BY <1>1, <1>6, <2>4
    <2>6. k - 1 \in 0..N /\ ~(k <= k - 1)
        BY <1>1, <2>4, <2>5
    <2>7. After[k - 1] = f
        BY <2>3, <2>6
    <2> QED
        BY <1>2, <1>6, <2>4, <2>5, <2>7
<1>8. \A p \in ports : After[p - 1] = f
    <2>1. \A p \in ports : p - 1 \in 0..N
        BY <1>1
    <2> QED
        BY <1>7, <2>1
<1>9. SentLocal(f, ports) = {[port |-> p, of |-> AddPort(After[p - 1], p)] : p \in ports}
    BY DEF SentLocal, After, N
<1> QED
    BY <1>8, <1>9

\* What leaves by a port carries it and its checksum, and does not go back.
LEMMA SentRight ==
    ASSUME L2Assumption, NoCarry, NEW f, NEW ports \in SUBSET Ports, Ready(f, ports),
           NEW s \in Sent(f, ports)
    PROVE  /\ s.of.egress = IF s.of.dst = "global" THEN {} ELSE {s.port}
           /\ s.of.ingress = 0
           /\ s.of.came = 0 \/ s.of.dst = "global" =>
                  s.of.sum = IF s.of.dst = "global" THEN s.of.base ELSE RightSum(s.of.base, s.port)
           /\ s.of.dst = "global" => s.of.came # s.port
           /\ s.of.dst = "neighbors" => s.of.came = 0
<1>1. f \in Frame /\ f.ingress = 0 /\ f.egress = {}
      /\ (f.dst = "global" => f.came \notin ports) /\ (f.dst = "neighbors" => f.came = 0)
      /\ (f.came = 0 \/ f.dst = "global" => f.sum = f.base)
    BY DEF Ready
<1>2. CASE f.dst = "global"
    <2>1. PICK p \in ports : s = [port |-> p, of |-> f]
        BY <1>2 DEF Sent
    <2> QED
        BY <1>1, <1>2, <2>1
<1>3. CASE f.dst \in {"local", "neighbors"}
    <2>1. Sent(f, ports) = {[port |-> p, of |-> AddPort(f, p)] : p \in ports}
        BY <1>1, <1>3, SentEach DEF Sent
    <2>2. PICK p \in ports : s = [port |-> p, of |-> AddPort(f, p)]
        BY <2>1
    <2>3. PICK g : g = AddPort(f, p)
        OBVIOUS
    <2>4. /\ g.egress = {p} /\ g.ingress = 0 /\ g.dst = f.dst /\ g.came = f.came /\ g.base = f.base
          /\ g.sum = IF f.proto = "bcmp" THEN (f.sum + p) % (Byte * Byte)
                     ELSE (f.sum - (f.sum % Byte)) + (((f.sum % Byte) + p) % Byte)
        <3>1. PICK t : t = IF f.proto = "bcmp" THEN (f.sum + p) % (Byte * Byte)
                     ELSE (f.sum - (f.sum % Byte)) + (((f.sum % Byte) + p) % Byte)
            OBVIOUS
        <3>2. g = [f EXCEPT !.egress = @ \cup {p}, !.sum = t]
            BY <2>3, <3>1 DEF AddPort
        <3>3. f = [proto |-> f.proto, dst |-> f.dst, ingress |-> f.ingress, egress |-> f.egress,
                   base |-> f.base, sum |-> f.sum, came |-> f.came]
            BY <1>1, FrameFields
        <3>4. g.egress = {p} /\ g.ingress = 0 /\ g.dst = f.dst /\ g.came = f.came
              /\ g.base = f.base /\ g.sum = t
            BY <1>1, <3>2, <3>3
        <3> QED
            BY <3>1, <3>4
    <2>5. ASSUME f.came = 0 PROVE g.sum = RightSum(f.base, p)
        <3>1. PICK B \in Nat \ {0} : B = Byte
            BY DEF L2Assumption
        <3>2. PICK x \in 0..(B * B - 1) : x = f.base
            BY <1>1, <3>1 DEF Frame, L2Assumption
        <3>3. PICK n \in Nat : n = p
            BY DEF L2Assumption
        <3>4. (x % B) + n < B
            BY <1>1, <3>1, <3>2, <3>3 DEF Frame, NoCarry
        <3>5. /\ (x - (x % B)) + (((x % B) + n) % B) = x + n
              /\ x + n < B * B
              /\ (x + n) % (B * B) = x + n
            BY <3>4, LowByteNoCarry
        <3>6. g.sum = x + n
            BY <1>1, <2>4, <2>5, <3>1, <3>2, <3>3, <3>5
        <3> QED
            BY <3>1, <3>2, <3>3, <3>5, <3>6 DEF RightSum
    <2> QED
        BY <1>1, <1>3, <2>2, <2>3, <2>4, <2>5
<1>4. CASE f.dst \notin {"global", "local", "neighbors"}
    BY <1>4 DEF Sent
<1> QED
    BY <1>2, <1>3, <1>4

-----------------------------------------------------------------------------
(* Queues and their holders *)

LEMMA EvtFields ==
    ASSUME NEW e \in Evt
    PROVE  /\ e.type \in {"Irq", "Tx", "Rx"}
           /\ e.type # "Irq" => e.buf \in Buffer
           /\ e.type = "Tx" => e.ports \in SUBSET Ports
           /\ e.type = "Rx" => e.port \in Ports
BY DEF Evt

LEMMA QueuedAppend ==
    ASSUME NEW q \in Seq(Evt), NEW e \in Evt, e.type # "Irq", QueuedOnce(q), ~Queued(q, e.buf)
    PROVE  /\ QueuedOnce(Append(q, e))
           /\ \A b \in Buffer : Queued(Append(q, e), b) <=> Queued(q, b) \/ b = e.buf
<1>1. PICK r : r = Append(q, e)
    OBVIOUS
<1>2. /\ DOMAIN r = 1..(Len(q) + 1) /\ DOMAIN q = 1..Len(q) /\ Len(q) \in Nat
      /\ r[Len(q) + 1] = e /\ \A i \in 1..Len(q) : r[i] = q[i]
    BY <1>1
<1>3. QueuedOnce(r)
    BY <1>2 DEF QueuedOnce, Queued
<1>4. ASSUME NEW b \in Buffer PROVE Queued(r, b) <=> Queued(q, b) \/ b = e.buf
    BY <1>2 DEF Queued
<1> QED
    BY <1>1, <1>3, <1>4

LEMMA TailFacts ==
    ASSUME NEW S, NEW q \in Seq(S), q # <<>>
    PROVE  /\ Tail(q) \in Seq(S) /\ Len(Tail(q)) = Len(q) - 1 /\ Len(q) \in Nat \ {0}
           /\ DOMAIN q = 1..Len(q) /\ DOMAIN Tail(q) = 1..(Len(q) - 1)
           /\ q[1] = Head(q) /\ Head(q) \in S
           /\ \A i \in 1..(Len(q) - 1) : Tail(q)[i] = q[i + 1]
OBVIOUS

LEMMA QueuedTail ==
    ASSUME NEW q \in Seq(Evt), q # <<>>, QueuedOnce(q)
    PROVE  /\ QueuedOnce(Tail(q))
           /\ Head(q).type = "Irq" => \A b \in Buffer : Queued(Tail(q), b) <=> Queued(q, b)
           /\ Head(q).type # "Irq" =>
                 /\ Queued(q, Head(q).buf)
                 /\ \A b \in Buffer : Queued(Tail(q), b) <=> Queued(q, b) /\ b # Head(q).buf
<1>1. PICK r : r = Tail(q)
    OBVIOUS
<1>2. PICK e : e = Head(q)
    OBVIOUS
<1>3. PICK n \in Nat : n = Len(q)
    BY TailFacts
<1>4. /\ n \in Nat \ {0} /\ DOMAIN q = 1..n /\ DOMAIN r = 1..(n - 1) /\ q[1] = e
      /\ \A i \in 1..(n - 1) : r[i] = q[i + 1]
    BY <1>1, <1>2, <1>3, TailFacts
<1>5. QueuedOnce(r)
    <2>1. \A i \in DOMAIN r : i + 1 \in DOMAIN q /\ r[i] = q[i + 1] /\ i \in Int
        BY <1>4
    <2> QED
        BY <2>1 DEF QueuedOnce
<1>6. ASSUME NEW b \in Buffer, Queued(r, b)
      PROVE  Queued(q, b) /\ (e.type # "Irq" => b # e.buf)
    <2>1. PICK i \in DOMAIN r : r[i].type # "Irq" /\ r[i].buf = b
        BY <1>6 DEF Queued
    <2>2. i + 1 \in DOMAIN q /\ r[i] = q[i + 1] /\ 1 \in DOMAIN q /\ i + 1 # 1
        BY <1>4, <2>1
    <2> QED
        BY <1>4, <2>1, <2>2 DEF Queued, QueuedOnce
<1>7. ASSUME NEW b \in Buffer, Queued(q, b), e.type = "Irq" \/ b # e.buf
      PROVE  Queued(r, b)
    <2>1. PICK i \in DOMAIN q : q[i].type # "Irq" /\ q[i].buf = b
        BY <1>7 DEF Queued
    <2>2. i # 1
        BY <1>4, <1>7, <2>1
    <2>3. i - 1 \in DOMAIN r /\ r[i - 1] = q[i]
        BY <1>4, <2>1, <2>2
    <2> QED
        BY <2>1, <2>3 DEF Queued
<1>8. e.type # "Irq" => Queued(q, e.buf)
    BY <1>4 DEF Queued
<1> QED
    BY <1>1, <1>2, <1>5, <1>6, <1>7, <1>8

LEMMA QueuedIrq ==
    ASSUME NEW q \in Seq(Evt), NEW e \in Evt, e.type = "Irq", QueuedOnce(q)
    PROVE  /\ QueuedOnce(<<e>> \o q)
           /\ \A b \in Buffer : Queued(<<e>> \o q, b) <=> Queued(q, b)
<1>1. PICK r : r = <<e>> \o q
    OBVIOUS
<1>2. PICK n \in Nat : n = Len(q)
    OBVIOUS
<1>3. /\ DOMAIN r = 1..(n + 1) /\ DOMAIN q = 1..n /\ r[1] = e
      /\ \A i \in 1..n : r[i + 1] = q[i]
    BY <1>1, <1>2, ConcatProperties
<1>4. \A i \in DOMAIN r : i \in Int /\ (r[i].type # "Irq" => i - 1 \in DOMAIN q /\ q[i - 1] = r[i])
    BY <1>3
<1>5. QueuedOnce(r)
    BY <1>4 DEF QueuedOnce
<1>6. ASSUME NEW b \in Buffer PROVE Queued(r, b) <=> Queued(q, b)
    <2>1. \A i \in DOMAIN q : i + 1 \in DOMAIN r /\ r[i + 1] = q[i]
        BY <1>3
    <2> QED
        BY <1>4, <2>1 DEF Queued
<1> QED
    BY <1>1, <1>5, <1>6

LEMMA UpAppend ==
    ASSUME NEW u \in Seq(Buffer), NEW c \in Buffer, UpOnce(u), ~Up(u, c)
    PROVE  /\ UpOnce(Append(u, c))
           /\ \A b \in Buffer : Up(Append(u, c), b) <=> Up(u, b) \/ b = c
<1>1. PICK r : r = Append(u, c)
    OBVIOUS
<1>2. /\ DOMAIN r = 1..(Len(u) + 1) /\ DOMAIN u = 1..Len(u) /\ Len(u) \in Nat
      /\ r[Len(u) + 1] = c /\ \A i \in 1..Len(u) : r[i] = u[i]
    BY <1>1
<1>3. UpOnce(r)
    BY <1>2 DEF UpOnce, Up
<1>4. ASSUME NEW b \in Buffer PROVE Up(r, b) <=> Up(u, b) \/ b = c
    BY <1>2 DEF Up
<1> QED
    BY <1>1, <1>3, <1>4

LEMMA UpTail ==
    ASSUME NEW u \in Seq(Buffer), u # <<>>, UpOnce(u)
    PROVE  /\ UpOnce(Tail(u)) /\ Up(u, Head(u))
           /\ \A b \in Buffer : Up(Tail(u), b) <=> Up(u, b) /\ b # Head(u)
<1>1. PICK r : r = Tail(u)
    OBVIOUS
<1>2. PICK e : e = Head(u)
    OBVIOUS
<1>3. PICK n \in Nat : n = Len(u)
    BY TailFacts
<1>4. /\ n \in Nat \ {0} /\ DOMAIN u = 1..n /\ DOMAIN r = 1..(n - 1) /\ u[1] = e
      /\ \A i \in 1..(n - 1) : r[i] = u[i + 1]
    BY <1>1, <1>2, <1>3, TailFacts
<1>5. UpOnce(r)
    <2>1. \A i \in DOMAIN r : i + 1 \in DOMAIN u /\ r[i] = u[i + 1] /\ i \in Int
        BY <1>4
    <2> QED
        BY <2>1 DEF UpOnce
<1>6. ASSUME NEW b \in Buffer, Up(r, b)
      PROVE  Up(u, b) /\ b # e
    <2>1. PICK i \in DOMAIN r : r[i] = b
        BY <1>6 DEF Up
    <2>2. i + 1 \in DOMAIN u /\ r[i] = u[i + 1] /\ 1 \in DOMAIN u /\ i + 1 # 1
        BY <1>4, <2>1
    <2> QED
        BY <1>4, <2>1, <2>2 DEF Up, UpOnce
<1>7. ASSUME NEW b \in Buffer, Up(u, b), b # e
      PROVE  Up(r, b)
    <2>1. PICK i \in DOMAIN u : u[i] = b
        BY <1>7 DEF Up
    <2>2. i - 1 \in DOMAIN r /\ r[i - 1] = u[i]
        BY <1>4, <1>7, <2>1
    <2> QED
        BY <2>1, <2>2 DEF Up
<1>8. Up(u, e)
    BY <1>4 DEF Up
<1> QED
    BY <1>1, <1>2, <1>5, <1>6, <1>7, <1>8

\* The count of a buffer is 0 if nobody holds it, and never more than 2.
LEMMA CountIs ==
    ASSUME NEW q, NEW h, NEW u, NEW r, Holders(q, h, u, r), NEW b \in Buffer
    PROVE  /\ r[b] \in 0..2
           /\ r[b] <= 0 => ~Queued(q, b) /\ b \notin h /\ ~Up(u, b)
           /\ Queued(q, b) \/ b \in h \/ Up(u, b) => r[b] >= 1
BY DEF Holders, One

LEMMA HoldAppend ==
    ASSUME NEW q \in Seq(Evt), NEW h, NEW u, NEW r \in [Buffer -> Int], Holders(q, h, u, r),
           NEW e \in Evt, e.type # "Irq", r[e.buf] <= 0
    PROVE  Holders(Append(q, e), h, u, [r EXCEPT ![e.buf] = 1])
<1>1. e.buf \in Buffer
    BY EvtFields
<1>2. ~Queued(q, e.buf) /\ e.buf \notin h /\ ~Up(u, e.buf)
    BY <1>1, CountIs
<1>3. /\ QueuedOnce(Append(q, e))
      /\ \A b \in Buffer : Queued(Append(q, e), b) <=> Queued(q, b) \/ b = e.buf
    BY <1>2, QueuedAppend DEF Holders
<1> QED
    BY <1>1, <1>2, <1>3 DEF Holders, One

LEMMA HoldTail ==
    ASSUME NEW q \in Seq(Evt), NEW h, NEW u, NEW r \in [Buffer -> Int], Holders(q, h, u, r),
           q # <<>>, Head(q).type # "Irq"
    PROVE  Holders(Tail(q), h, u, [r EXCEPT ![Head(q).buf] = @ - 1])
<1>1. PICK b \in Buffer : b = Head(q).buf
    BY TailFacts, EvtFields
<1>2. /\ QueuedOnce(Tail(q)) /\ Queued(q, b)
      /\ \A c \in Buffer : Queued(Tail(q), c) <=> Queued(q, c) /\ c # b
    BY <1>1, QueuedTail DEF Holders
<1> QED
    BY <1>1, <1>2 DEF Holders, One

LEMMA HoldTailIrq ==
    ASSUME NEW q \in Seq(Evt), NEW h, NEW u, NEW r \in [Buffer -> Int], Holders(q, h, u, r),
           q # <<>>, Head(q).type = "Irq"
    PROVE  Holders(Tail(q), h, u, r)
<1>1. QueuedOnce(Tail(q)) /\ \A c \in Buffer : Queued(Tail(q), c) <=> Queued(q, c)
    BY QueuedTail DEF Holders
<1> QED
    BY <1>1 DEF Holders, One

LEMMA HoldIrq ==
    ASSUME NEW q \in Seq(Evt), NEW h, NEW u, NEW r \in [Buffer -> Int], Holders(q, h, u, r),
           NEW e \in Evt, e.type = "Irq"
    PROVE  Holders(<<e>> \o q, h, u, r)
<1>1. QueuedOnce(<<e>> \o q) /\ \A c \in Buffer : Queued(<<e>> \o q, c) <=> Queued(q, c)
    BY QueuedIrq DEF Holders
<1> QED
    BY <1>1 DEF Holders, One

LEMMA HoldSender ==
    ASSUME NEW q, NEW h, NEW u, NEW r \in [Buffer -> Int], Holders(q, h, u, r), NEW c \in Buffer
    PROVE  /\ c \notin h => Holders(q, h \cup {c}, u, [r EXCEPT ![c] = @ + 1])
           /\ c \in h => Holders(q, h \ {c}, u, [r EXCEPT ![c] = @ - 1])
BY DEF Holders, One

LEMMA HoldUp ==
    ASSUME NEW q, NEW h, NEW u \in Seq(Buffer), NEW r \in [Buffer -> Int], Holders(q, h, u, r),
           NEW c \in Buffer, ~Queued(q, c), ~Up(u, c)
    PROVE  Holders(q, h, Append(u, c), [r EXCEPT ![c] = @ + 1])
<1>1. UpOnce(Append(u, c)) /\ \A b \in Buffer : Up(Append(u, c), b) <=> Up(u, b) \/ b = c
    BY UpAppend DEF Holders
<1> QED
    BY <1>1 DEF Holders, One

LEMMA HoldUpTail ==
    ASSUME NEW q, NEW h, NEW u \in Seq(Buffer), NEW r \in [Buffer -> Int], Holders(q, h, u, r),
           u # <<>>
    PROVE  Holders(q, h, Tail(u), [r EXCEPT ![Head(u)] = @ - 1])
<1>1. PICK c \in Buffer : c = Head(u)
    BY TailFacts
<1>2. UpOnce(Tail(u)) /\ Up(u, c) /\ \A b \in Buffer : Up(Tail(u), b) <=> Up(u, b) /\ b # c
    BY <1>1, UpTail DEF Holders
<1> QED
    BY <1>1, <1>2 DEF Holders, One

-----------------------------------------------------------------------------
(* The frames of the events in the queue *)

LEMMA RightAppend ==
    ASSUME NEW q \in Seq(Evt), NEW fs, AllRight(q, fs), NEW e \in Evt, EventRight(e, fs)
    PROVE  AllRight(Append(q, e), fs)
<1>1. PICK r : r = Append(q, e)
    OBVIOUS
<1>2. DOMAIN r = 1..(Len(q) + 1) /\ DOMAIN q = 1..Len(q) /\ Len(q) \in Nat
      /\ r[Len(q) + 1] = e /\ \A i \in 1..Len(q) : r[i] = q[i]
    BY <1>1
<1>3. AllRight(r, fs)
    BY <1>2 DEF AllRight
<1> QED
    BY <1>1, <1>3

LEMMA RightTail ==
    ASSUME NEW q \in Seq(Evt), q # <<>>, NEW fs, AllRight(q, fs)
    PROVE  EventRight(Head(q), fs) /\ AllRight(Tail(q), fs)
<1>1. PICK r : r = Tail(q)
    OBVIOUS
<1>2. /\ DOMAIN q = 1..Len(q) /\ DOMAIN r = 1..(Len(q) - 1) /\ q[1] = Head(q)
      /\ Len(q) \in Nat \ {0} /\ \A i \in 1..(Len(q) - 1) : r[i] = q[i + 1]
    BY <1>1, TailFacts
<1>3. AllRight(r, fs)
    BY <1>2 DEF AllRight
<1>4. EventRight(q[1], fs)
    BY <1>2 DEF AllRight
<1> QED
    BY <1>1, <1>2, <1>3, <1>4

LEMMA RightIrq ==
    ASSUME NEW q \in Seq(Evt), NEW e \in Evt, e.type = "Irq", NEW fs, AllRight(q, fs)
    PROVE  AllRight(<<e>> \o q, fs)
<1>1. PICK r : r = <<e>> \o q
    OBVIOUS
<1>2. DOMAIN r = 1..(Len(q) + 1) /\ DOMAIN q = 1..Len(q) /\ r[1] = e /\ Len(q) \in Nat
      /\ \A i \in 1..Len(q) : r[i + 1] = q[i]
    BY <1>1, ConcatProperties
<1>3. EventRight(e, fs)
    BY DEF EventRight
<1>4. ASSUME NEW i \in DOMAIN r PROVE EventRight(r[i], fs)
    <2>1. i = 1 \/ (i - 1 \in DOMAIN q /\ r[i] = q[i - 1])
        BY <1>2
    <2> QED
        BY <1>2, <1>3, <2>1 DEF AllRight
<1> QED
    BY <1>1, <1>4 DEF AllRight

\* Only the frames of queued buffers count.
LEMMA RightElse ==
    ASSUME NEW q \in Seq(Evt), NEW fs, NEW gs, AllRight(q, fs),
           \A b \in Buffer : Queued(q, b) => gs[b] = fs[b]
    PROVE  AllRight(q, gs)
<1>1. ASSUME NEW i \in DOMAIN q PROVE EventRight(q[i], gs)
    <2>1. q[i] \in Evt /\ EventRight(q[i], fs)
        BY DEF AllRight
    <2>2. q[i].type # "Irq" => q[i].buf \in Buffer /\ Queued(q, q[i].buf)
        BY <2>1, EvtFields DEF Queued
    <2>3. q[i].type # "Irq" => gs[q[i].buf] = fs[q[i].buf]
        BY <2>2
    <2> QED
        BY <2>1, <2>3 DEF EventRight
<1> QED
    BY <1>1 DEF AllRight

LEMMA RightContents ==
    ASSUME NEW q \in Seq(Evt), NEW h, NEW u, NEW r, Holders(q, h, u, r),
           NEW fs \in [Buffer -> Frame \cup {NoFrame}], AllRight(q, fs)
    PROVE  /\ Contents(r, fs) \in [Buffer -> Frame \cup {NoFrame}]
           /\ AllRight(q, Contents(r, fs))
<1>1. Contents(r, fs) \in [Buffer -> Frame \cup {NoFrame}]
    BY DEF Contents
<1>2. ASSUME NEW b \in Buffer, Queued(q, b) PROVE Contents(r, fs)[b] = fs[b]
    <2>1. r[b] \in 0..2 /\ r[b] >= 1
        BY <1>2, CountIs
    <2> QED
        BY <2>1 DEF Contents
<1> QED
    BY <1>1, <1>2, RightElse

-----------------------------------------------------------------------------
(* Steps *)

LEMMA LinksTypedStep ==
    ASSUME L2Assumption, LinksTyped, [Next]_vars
    PROVE  LinksTyped'
<1>1. ASSUME NEW old \in SUBSET Ports, NEW p \in Ports, NEW up, link_change(old, p, up)
      PROVE  enabled' \subseteq Ports /\ timers' \subseteq Ports
    <2>1. timers \subseteq Ports /\ (StopCheck(p) \/ StartChecks({p}))
        BY <1>1 DEF link_change, LinksTyped
    <2>2. timers' \subseteq Ports
        BY <2>1 DEF StopCheck, StartChecks
    <2> QED
        BY <1>1, <2>2 DEF link_change
<1>2. CASE UNCHANGED <<enabled, timers, changing>>
    BY <1>2 DEF LinksTyped
<1>3. CASE ThreadStarts
    BY <1>3 DEF ThreadStarts, StartChecks, LinksTyped
<1>4. ASSUME NEW p \in Ports, NEW up \in BOOLEAN, LinkChanges(p, up)
      PROVE  LinksTyped'
    <2>1. link_change(enabled, p, up) /\ UNCHANGED changing
        BY <1>4 DEF LinkChanges
    <2> QED
        BY <1>1, <2>1 DEF LinksTyped
<1>5. ASSUME NEW p \in Ports, NEW up \in BOOLEAN, PortBegin(p, up)
      PROVE  LinksTyped'
    BY <1>5 DEF PortBegin, LinksTyped, Change, checks
<1>6. CASE PortEnd
    <2>1. changing \in Change /\ changing' = NoChange
          /\ link_change(changing.old, changing.port, changing.up)
        BY <1>6 DEF PortEnd, LinksTyped
    <2>2. changing.old \in SUBSET Ports /\ changing.port \in Ports
        BY <2>1 DEF Change
    <2> QED
        BY <1>1, <2>1, <2>2 DEF LinksTyped
<1>7. ASSUME NEW proto \in Proto, NEW base \in Sums
      PROVE  /\ \A dst, p : Output(proto, dst, base, p) => UNCHANGED links
             /\ \A dst, q, p : Receive(proto, dst, base, q, p) => UNCHANGED links
    BY DEF Output, Receive
<1>8. (\E b \in Buffer : CleanUp(b)) \/ BcmpHandles \/ Interrupt \/ ProcessTx \/ ProcessRx
        \/ IrqBegin \/ IrqEnd => UNCHANGED links
    BY DEF CleanUp, BcmpHandles, Interrupt, ProcessTx, ProcessRx, IrqBegin, IrqEnd
<1>9. Register \/ Replay => UNCHANGED <<enabled, timers, changing>>
    BY DEF Register, Replay, checks
<1> QED
    BY <1>2, <1>3, <1>4, <1>5, <1>6, <1>7, <1>8, <1>9 DEF Next, vars, links, checks

\* What a step has to show.
Kept ==
    /\ evt_queue' \in Seq(Evt) /\ Len(evt_queue') <= QueueLen
    /\ bcmp_queue' \in Seq(Buffer) /\ Len(bcmp_queue') <= BcmpLen
    /\ held' \subseteq Buffer /\ ref' \in [Buffer -> Int]
    /\ frame' \in [Buffer -> Frame \cup {NoFrame}]
    /\ Holders(evt_queue', held', bcmp_queue', ref')
    /\ AllRight(evt_queue', frame')

LEMMA FramesKept ==
    ASSUME L2Assumption, FramesInv, [Next]_vars, Kept, WireIsRight', NeverBack'
    PROVE  FramesInv'
<1>1. LinksTyped'
    BY LinksTypedStep DEF FramesInv, TypeInv
<1>2. ref' \in [Buffer -> 0..2]
    <2>1. \A b \in Buffer : ref'[b] \in 0..2
        BY CountIs DEF Kept
    <2> QED
        BY <2>1 DEF Kept
<1> QED
    BY <1>1, <1>2 DEF Kept, FramesInv, TypeInv, HoldersInv

LEMMA NewBufferUnused ==
    ASSUME FramesInv, Unused # {}
    PROVE  /\ NewBuffer \in Buffer /\ ref[NewBuffer] = 0
           /\ ~Queued(evt_queue, NewBuffer) /\ NewBuffer \notin held /\ ~Up(bcmp_queue, NewBuffer)
<1>1. NewBuffer \in Buffer /\ ref[NewBuffer] <= 0
    BY DEF Unused, NewBuffer
<1>2. Holders(evt_queue, held, bcmp_queue, ref)
    BY DEF FramesInv, HoldersInv
<1>3. ref[NewBuffer] \in 0..2
    BY <1>1, <1>2, CountIs
<1>4. ~Queued(evt_queue, NewBuffer) /\ NewBuffer \notin held /\ ~Up(bcmp_queue, NewBuffer)
    BY <1>1, <1>2, CountIs
<1> QED
    BY <1>1, <1>3, <1>4

LEMMA OutputKeeps ==
    ASSUME L2Assumption, Stack = "lwip" \/ ~Full, FramesInv,
           NEW proto \in Proto, NEW dst \in {"global", "local", "unicast"}, NEW base \in Sums,
           NEW p \in Ports \cup {0}, Output(proto, dst, base, p)
    PROVE  Kept
<1>1. PICK b : b = NewBuffer
    OBVIOUS
<1>2. b \in Buffer /\ ref[b] = 0 /\ ~Queued(evt_queue, b) /\ b \notin held /\ ~Up(bcmp_queue, b)
    BY <1>1, NewBufferUnused DEF Output
<1>3. PICK e : e = [type |-> "Tx", buf |-> b,
                    ports |-> (IF p \in Ports THEN {p} ELSE Ports) \cap enabled]
    OBVIOUS
<1>4. e \in Evt /\ e.type = "Tx" /\ e.buf = b /\ e.ports \subseteq Ports
    BY <1>2, <1>3 DEF Evt
<1>5. PICK fs : fs = [frame EXCEPT ![b] = Made(proto, dst, base)]
    OBVIOUS
<1>6. /\ evt_queue \in Seq(Evt) /\ Len(evt_queue) <= QueueLen
      /\ bcmp_queue \in Seq(Buffer) /\ Len(bcmp_queue) <= BcmpLen
      /\ held \subseteq Buffer /\ ref \in [Buffer -> Int]
      /\ frame \in [Buffer -> Frame \cup {NoFrame}]
      /\ Holders(evt_queue, held, bcmp_queue, ref) /\ AllRight(evt_queue, frame)
    BY DEF FramesInv, TypeInv, HoldersInv
<1>7. Made(proto, dst, base) \in Frame /\ Ready(Made(proto, dst, base), e.ports)
    <2>1. base \in 0..(Byte * Byte - 1) /\ 0 \notin Ports
        BY DEF L2Assumption
    <2>2. Made(proto, dst, base) \in Frame
        BY <2>1 DEF Made, Frame
    <2> QED
        BY <1>4, <2>1, <2>2 DEF Ready, Made
<1>8. fs \in [Buffer -> Frame \cup {NoFrame}] /\ fs[b] = Made(proto, dst, base)
      /\ AllRight(evt_queue, fs)
    <2>1. fs \in [Buffer -> Frame \cup {NoFrame}] /\ fs[b] = Made(proto, dst, base)
        BY <1>2, <1>5, <1>6, <1>7
    <2>2. \A c \in Buffer : Queued(evt_queue, c) => fs[c] = frame[c]
        BY <1>2, <1>5, <1>6
    <2> QED
        BY <1>6, <2>1, <2>2, RightElse
<1>9. held' = held \cup {b} /\ UNCHANGED bcmp_queue /\ frame' = Contents(ref', fs)
    BY <1>1, <1>5 DEF Output
<1>10. CASE HasRoom(evt_queue)
    <2>1. ref' = [ref EXCEPT ![b] = 2] /\ evt_queue' = Append(evt_queue, e)
        BY <1>1, <1>3, <1>10 DEF Output, Tx
    <2>2. PICK r : r = [ref EXCEPT ![e.buf] = 1]
        OBVIOUS
    <2>3. r \in [Buffer -> Int] /\ ref' = [r EXCEPT ![b] = @ + 1] /\ ref' \in [Buffer -> Int]
        BY <1>2, <1>4, <1>6, <2>1, <2>2
    <2>4. Holders(Append(evt_queue, e), held, bcmp_queue, r)
        <3>1. e.type # "Irq" /\ ref[e.buf] <= 0
            BY <1>2, <1>4
        <3>2. Holders(Append(evt_queue, e), held, bcmp_queue, [ref EXCEPT ![e.buf] = 1])
            BY <1>4, <1>6, <3>1, HoldAppend
        <3> QED
            BY <2>2, <3>2
    <2>5. Holders(evt_queue', held', bcmp_queue', ref')
        <3>1. Holders(Append(evt_queue, e), held \cup {b}, bcmp_queue, [r EXCEPT ![b] = @ + 1])
            BY <1>2, <2>3, <2>4, HoldSender
        <3> QED
            BY <1>9, <2>1, <2>3, <3>1
    <2>6. evt_queue' \in Seq(Evt) /\ Len(evt_queue') <= QueueLen
        BY <1>4, <1>6, <1>10, <2>1 DEF HasRoom, L2Assumption
    <2>7. EventRight(e, fs)
        BY <1>4, <1>7, <1>8 DEF EventRight
    <2>8. AllRight(evt_queue', fs)
        BY <1>4, <1>6, <1>8, <2>1, <2>7, RightAppend
    <2>9. frame' \in [Buffer -> Frame \cup {NoFrame}] /\ AllRight(evt_queue', frame')
        BY <1>8, <1>9, <2>5, <2>6, <2>8, RightContents
    <2> QED
        BY <1>2, <1>6, <1>9, <2>3, <2>5, <2>6, <2>9 DEF Kept
<1>11. CASE ~HasRoom(evt_queue)
    <2>1. ref' = [ref EXCEPT ![b] = @ + 1] /\ UNCHANGED evt_queue
        BY <1>1, <1>2, <1>6, <1>11 DEF Output, L2Assumption
    <2>2. Holders(evt_queue', held', bcmp_queue', ref')
        BY <1>2, <1>6, <1>9, <2>1, HoldSender
    <2>3. AllRight(evt_queue', fs) /\ evt_queue' \in Seq(Evt)
        BY <1>6, <1>8, <2>1
    <2>4. frame' \in [Buffer -> Frame \cup {NoFrame}] /\ AllRight(evt_queue', frame')
        BY <1>8, <1>9, <2>2, <2>3, RightContents
    <2>5. ref' \in [Buffer -> Int]
        BY <1>2, <1>6, <2>1
    <2> QED
        BY <1>2, <1>6, <1>9, <2>1, <2>2, <2>4, <2>5 DEF Kept
<1> QED
    BY <1>10, <1>11

LEMMA CleanUpKeeps ==
    ASSUME L2Assumption, FramesInv, NEW b \in Buffer, CleanUp(b)
    PROVE  Kept
<1>6. /\ evt_queue \in Seq(Evt) /\ Len(evt_queue) <= QueueLen
      /\ bcmp_queue \in Seq(Buffer) /\ Len(bcmp_queue) <= BcmpLen
      /\ held \subseteq Buffer /\ ref \in [Buffer -> Int]
      /\ frame \in [Buffer -> Frame \cup {NoFrame}]
      /\ Holders(evt_queue, held, bcmp_queue, ref) /\ AllRight(evt_queue, frame)
    BY DEF FramesInv, TypeInv, HoldersInv
<1>7. /\ held' = held \ {b} /\ ref' = [ref EXCEPT ![b] = @ - 1] /\ frame' = Contents(ref', frame)
      /\ UNCHANGED <<evt_queue, bcmp_queue>> /\ b \in held
    BY DEF CleanUp
<1>8. Holders(evt_queue', held', bcmp_queue', ref')
    BY <1>6, <1>7, HoldSender
<1>9. frame' \in [Buffer -> Frame \cup {NoFrame}] /\ AllRight(evt_queue', frame')
    BY <1>6, <1>7, <1>8, RightContents
<1>10. ref' \in [Buffer -> Int]
    BY <1>6, <1>7
<1>11. evt_queue' \in Seq(Evt) /\ Len(evt_queue') <= QueueLen
      /\ bcmp_queue' \in Seq(Buffer) /\ Len(bcmp_queue') <= BcmpLen
    BY <1>6, <1>7
<1>12. held' \subseteq Buffer
    BY <1>6, <1>7
<1> QED
    BY <1>8, <1>9, <1>10, <1>11, <1>12 DEF Kept

LEMMA BcmpHandlesKeeps ==
    ASSUME L2Assumption, FramesInv, BcmpHandles
    PROVE  Kept
<1>6. /\ evt_queue \in Seq(Evt) /\ Len(evt_queue) <= QueueLen
      /\ bcmp_queue \in Seq(Buffer) /\ Len(bcmp_queue) <= BcmpLen
      /\ held \subseteq Buffer /\ ref \in [Buffer -> Int]
      /\ frame \in [Buffer -> Frame \cup {NoFrame}]
      /\ Holders(evt_queue, held, bcmp_queue, ref) /\ AllRight(evt_queue, frame)
    BY DEF FramesInv, TypeInv, HoldersInv
<1>7. /\ bcmp_queue # <<>> /\ bcmp_queue' = Tail(bcmp_queue)
      /\ ref' = [ref EXCEPT ![Head(bcmp_queue)] = @ - 1] /\ frame' = Contents(ref', frame)
      /\ UNCHANGED <<evt_queue, held>>
    BY DEF BcmpHandles
<1>8. Holders(evt_queue', held', bcmp_queue', ref')
    BY <1>6, <1>7, HoldUpTail
<1>9. frame' \in [Buffer -> Frame \cup {NoFrame}] /\ AllRight(evt_queue', frame')
    BY <1>6, <1>7, <1>8, RightContents
<1>10. bcmp_queue' \in Seq(Buffer) /\ Len(bcmp_queue') <= BcmpLen /\ Head(bcmp_queue) \in Buffer
    BY <1>6, <1>7, TailFacts DEF L2Assumption
<1>11. ref' \in [Buffer -> Int]
    BY <1>6, <1>7, <1>10
<1>12. evt_queue' \in Seq(Evt) /\ Len(evt_queue') <= QueueLen /\ held' \subseteq Buffer
    BY <1>6, <1>7
<1> QED
    BY <1>8, <1>9, <1>10, <1>11, <1>12 DEF Kept

LEMMA InterruptKeeps ==
    ASSUME L2Assumption, FramesInv, Interrupt
    PROVE  Kept
<1>6. /\ evt_queue \in Seq(Evt) /\ Len(evt_queue) <= QueueLen
      /\ bcmp_queue \in Seq(Buffer) /\ Len(bcmp_queue) <= BcmpLen
      /\ held \subseteq Buffer /\ ref \in [Buffer -> Int]
      /\ frame \in [Buffer -> Frame \cup {NoFrame}]
      /\ Holders(evt_queue, held, bcmp_queue, ref) /\ AllRight(evt_queue, frame)
    BY DEF FramesInv, TypeInv, HoldersInv
<1>1. PICK e : e = [type |-> "Irq"]
    OBVIOUS
<1>2. e \in Evt /\ e.type = "Irq"
    BY <1>1 DEF Evt
<1>7. evt_queue' = <<e>> \o evt_queue /\ HasRoom(evt_queue)
      /\ UNCHANGED <<ref, frame, held, bcmp_queue>>
    BY <1>1 DEF Interrupt, buffers
<1>8. Holders(evt_queue', held', bcmp_queue', ref')
    BY <1>2, <1>6, <1>7, HoldIrq
<1>9. AllRight(evt_queue', frame')
    BY <1>2, <1>6, <1>7, RightIrq
<1>10. evt_queue' \in Seq(Evt) /\ Len(evt_queue') <= QueueLen
    <2>1. <<e>> \in Seq(Evt) /\ Len(<<e>>) = 1
        BY <1>2
    <2>2. <<e>> \o evt_queue \in Seq(Evt) /\ Len(<<e>> \o evt_queue) = 1 + Len(evt_queue)
        BY <1>6, <2>1, ConcatProperties
    <2> QED
        BY <1>6, <1>7, <2>2 DEF HasRoom, L2Assumption
<1> QED
    BY <1>6, <1>7, <1>8, <1>9, <1>10 DEF Kept

LEMMA ProcessTxKeeps ==
    ASSUME L2Assumption, NoCarry, FramesInv, ProcessTx
    PROVE  Kept /\ WireIsRight' /\ NeverBack'
<1>6. /\ evt_queue \in Seq(Evt) /\ Len(evt_queue) <= QueueLen
      /\ bcmp_queue \in Seq(Buffer) /\ Len(bcmp_queue) <= BcmpLen
      /\ held \subseteq Buffer /\ ref \in [Buffer -> Int]
      /\ frame \in [Buffer -> Frame \cup {NoFrame}]
      /\ Holders(evt_queue, held, bcmp_queue, ref) /\ AllRight(evt_queue, frame)
    BY DEF FramesInv, TypeInv, HoldersInv
<1>1. PICK e : e = Head(evt_queue)
    OBVIOUS
<1>2. evt_queue # <<>> /\ e.type = "Tx"
    BY <1>1 DEF ProcessTx, Event
<1>3. e \in Evt /\ e.buf \in Buffer /\ e.ports \in SUBSET Ports
    <2>1. e \in Evt
        BY <1>1, <1>2, <1>6, TailFacts
    <2> QED
        BY <1>2, <2>1, EvtFields
<1>4. EventRight(Head(evt_queue), frame) /\ AllRight(Tail(evt_queue), frame)
    BY <1>2, <1>6, RightTail
<1>5. Ready(frame[e.buf], e.ports)
    BY <1>1, <1>2, <1>4 DEF EventRight
<1>7. /\ wire' = Sent(frame[e.buf], e.ports)
      /\ ref' = [ref EXCEPT ![e.buf] = @ - 1] /\ frame' = Contents(ref', frame)
      /\ evt_queue' = Tail(evt_queue) /\ UNCHANGED <<held, bcmp_queue>>
    BY <1>1 DEF ProcessTx
<1>8. Holders(evt_queue', held', bcmp_queue', ref')
    <2>1. Holders(Tail(evt_queue), held, bcmp_queue, [ref EXCEPT ![Head(evt_queue).buf] = @ - 1])
        BY <1>1, <1>2, <1>6, HoldTail
    <2> QED
        BY <1>1, <1>7, <2>1
<1>9. evt_queue' \in Seq(Evt) /\ Len(evt_queue') <= QueueLen
    BY <1>2, <1>6, <1>7, TailFacts DEF L2Assumption
<1>10. frame' \in [Buffer -> Frame \cup {NoFrame}] /\ AllRight(evt_queue', frame')
    BY <1>4, <1>6, <1>7, <1>8, <1>9, RightContents
<1>11. ref' \in [Buffer -> Int]
    BY <1>3, <1>6, <1>7
<1>12. Kept
    BY <1>6, <1>7, <1>8, <1>9, <1>10, <1>11 DEF Kept
<1>13. PICK f : f = frame[e.buf]
    OBVIOUS
<1>14. ASSUME NEW s \in wire'
       PROVE  /\ s.of.egress = IF s.of.dst = "global" THEN {} ELSE {s.port}
              /\ s.of.ingress = 0
              /\ s.of.came = 0 \/ s.of.dst = "global" =>
                     s.of.sum = IF s.of.dst = "global" THEN s.of.base ELSE RightSum(s.of.base, s.port)
              /\ s.of.dst = "global" => s.of.came # s.port
              /\ s.of.dst = "neighbors" => s.of.came = 0
    <2>1. PICK ports \in SUBSET Ports : ports = e.ports
        BY <1>3
    <2>2. Ready(f, ports) /\ s \in Sent(f, ports)
        BY <1>5, <1>7, <1>13, <1>14, <2>1
    <2> QED
        BY <2>2, SentRight
<1>15. WireIsRight'
    BY <1>14 DEF WireIsRight
<1>16. NeverBack'
    BY <1>14 DEF NeverBack
<1> QED
    BY <1>12, <1>15, <1>16

LEMMA IrqBeginKeeps ==
    ASSUME L2Assumption, FramesInv, IrqBegin
    PROVE  Kept
<1>6. /\ evt_queue \in Seq(Evt) /\ Len(evt_queue) <= QueueLen
      /\ bcmp_queue \in Seq(Buffer) /\ Len(bcmp_queue) <= BcmpLen
      /\ held \subseteq Buffer /\ ref \in [Buffer -> Int]
      /\ frame \in [Buffer -> Frame \cup {NoFrame}]
      /\ Holders(evt_queue, held, bcmp_queue, ref) /\ AllRight(evt_queue, frame)
    BY DEF FramesInv, TypeInv, HoldersInv
<1>7. /\ evt_queue # <<>> /\ Head(evt_queue).type = "Irq" /\ evt_queue' = Tail(evt_queue)
      /\ UNCHANGED <<ref, frame, held, bcmp_queue>>
    BY DEF IrqBegin, Event, buffers
<1>8. Holders(evt_queue', held', bcmp_queue', ref')
    BY <1>6, <1>7, HoldTailIrq
<1>9. AllRight(evt_queue', frame')
    BY <1>6, <1>7, RightTail
<1>10. evt_queue' \in Seq(Evt) /\ Len(evt_queue') <= QueueLen
    BY <1>6, <1>7, TailFacts DEF L2Assumption
<1> QED
    BY <1>6, <1>7, <1>8, <1>9, <1>10 DEF Kept

LEMMA RestKeeps ==
    ASSUME FramesInv, UNCHANGED <<ref, frame, evt_queue, held, bcmp_queue>>
    PROVE  Kept
<1>1. ref \in [Buffer -> Int]
    BY DEF FramesInv, TypeInv
<1> QED
    BY <1>1 DEF FramesInv, TypeInv, HoldersInv, Kept

LEMMA ReceiveKeeps ==
    ASSUME L2Assumption, NoCarry, FramesInv,
           NEW proto \in Proto, NEW dst \in {"global", "local", "neighbors"}, NEW base \in Sums,
           NEW q \in Ports, NEW p \in Ports, Receive(proto, dst, base, q, p)
    PROVE  Kept
<1>6. /\ evt_queue \in Seq(Evt) /\ Len(evt_queue) <= QueueLen
      /\ bcmp_queue \in Seq(Buffer) /\ Len(bcmp_queue) <= BcmpLen
      /\ held \subseteq Buffer /\ ref \in [Buffer -> Int]
      /\ frame \in [Buffer -> Frame \cup {NoFrame}]
      /\ Holders(evt_queue, held, bcmp_queue, ref) /\ AllRight(evt_queue, frame)
    BY DEF FramesInv, TypeInv, HoldersInv
<1>7. UNCHANGED <<held, bcmp_queue>>
    BY DEF Receive
<1>8. CASE Unused # {} /\ HasRoom(evt_queue)
    <2>1. PICK b : b = NewBuffer
        OBVIOUS
    <2>2. b \in Buffer /\ ref[b] = 0 /\ ~Queued(evt_queue, b)
        BY <1>8, <2>1, NewBufferUnused
    <2>3. PICK e : e = [type |-> "Rx", buf |-> b, port |-> p]
        OBVIOUS
    <2>4. e \in Evt /\ e.type = "Rx" /\ e.buf = b /\ e.port = p
        BY <2>2, <2>3 DEF Evt
    <2>5. PICK f : f = Came(proto, dst, base, q, p)
        OBVIOUS
    <2>6. /\ ref' = [ref EXCEPT ![b] = 1] /\ frame' = [frame EXCEPT ![b] = f]
          /\ evt_queue' = Append(evt_queue, e)
        BY <1>8, <2>1, <2>3, <2>5 DEF Receive
    <2>7. f \in Frame /\ f.came = p /\ (f.dst = "global" => f.sum = f.base)
        <3>1. PICK B \in Nat \ {0} : B = Byte
            BY DEF L2Assumption
        <3>2. PICK x \in 0..(B * B - 1) : x = base
            BY <3>1 DEF L2Assumption
        <3>3. PICK n \in Nat : n = q
            BY DEF L2Assumption
        <3>4. (x % B) + n < B
            BY <3>1, <3>2, <3>3 DEF NoCarry
        <3>5. /\ (x - (x % B)) + (((x % B) + n) % B) = x + n
              /\ x + n < B * B
              /\ (x + n) % (B * B) = x + n
            BY <3>4, LowByteNoCarry
        <3>6. RightSum(base, q) \in 0..(Byte * Byte - 1) /\ base \in 0..(Byte * Byte - 1)
            BY <3>1, <3>2, <3>3, <3>5 DEF RightSum
        <3>7. PICK g : g = Made(proto, dst, base)
            OBVIOUS
        <3>8. g \in Frame /\ g.dst = dst /\ g.sum = g.base
            BY <3>6, <3>7 DEF Made, Frame
        <3>9. PICK m : m = [g EXCEPT !.came = p]
            OBVIOUS
        <3>10. m \in Frame /\ m.came = p /\ m.dst = dst /\ m.sum = m.base
            BY <3>8, <3>9 DEF Frame
        <3>11. PICK t : t = RightSum(base, q)
            OBVIOUS
        <3>12. f = IF dst = "global" THEN m ELSE [m EXCEPT !.egress = {q}, !.sum = t]
            BY <2>5, <3>7, <3>9, <3>11 DEF Came
        <3>13. CASE dst = "global"
            BY <3>10, <3>12, <3>13
        <3>14. CASE dst # "global"
            <4>1. f = [m EXCEPT !.egress = {q}, !.sum = t]
                BY <3>12, <3>14
            <4>2. f \in Frame /\ f.came = p /\ f.dst = dst
                BY <3>6, <3>10, <3>11, <4>1 DEF Frame
            <4> QED
                BY <3>14, <4>2
        <3> QED
            BY <3>13, <3>14
    <2>8. frame' \in [Buffer -> Frame \cup {NoFrame}] /\ frame'[b] = f /\ ref' \in [Buffer -> Int]
        BY <1>6, <2>2, <2>6, <2>7
    <2>9. AllRight(evt_queue, frame')
        <3>1. \A c \in Buffer : Queued(evt_queue, c) => frame'[c] = frame[c]
            BY <1>6, <2>2, <2>6
        <3> QED
            BY <1>6, <3>1, RightElse
    <2>10. EventRight(e, frame')
        BY <2>4, <2>7, <2>8 DEF EventRight, Arrived
    <2>11. AllRight(evt_queue', frame')
        BY <1>6, <2>4, <2>6, <2>9, <2>10, RightAppend
    <2>12. Holders(evt_queue', held', bcmp_queue', ref')
        <3>1. e.type # "Irq" /\ ref[e.buf] <= 0
            BY <2>2, <2>4
        <3>2. Holders(Append(evt_queue, e), held, bcmp_queue, [ref EXCEPT ![e.buf] = 1])
            BY <1>6, <2>4, <3>1, HoldAppend
        <3> QED
            BY <1>7, <2>4, <2>6, <3>2
    <2>13. evt_queue' \in Seq(Evt) /\ Len(evt_queue') <= QueueLen
        BY <1>6, <1>8, <2>4, <2>6 DEF HasRoom, L2Assumption
    <2> QED
        BY <1>6, <1>7, <2>8, <2>11, <2>12, <2>13 DEF Kept
<1>9. CASE ~(Unused # {} /\ HasRoom(evt_queue))
    <2>1. UNCHANGED <<ref, frame, evt_queue>>
        BY <1>9 DEF Receive, buffers
    <2> QED
        BY <1>7, <2>1, RestKeeps
<1> QED
    BY <1>8, <1>9

\* The queue without the event, with the copy of the frame if one is made;
\* what then becomes of the frame is up to Submit.
LEMMA ProcessRxKeeps ==
    ASSUME L2Assumption, FramesInv, ProcessRx
    PROVE  Kept
<1>6. /\ evt_queue \in Seq(Evt) /\ Len(evt_queue) <= QueueLen
      /\ bcmp_queue \in Seq(Buffer) /\ Len(bcmp_queue) <= BcmpLen
      /\ held \subseteq Buffer /\ ref \in [Buffer -> Int]
      /\ frame \in [Buffer -> Frame \cup {NoFrame}]
      /\ Holders(evt_queue, held, bcmp_queue, ref) /\ AllRight(evt_queue, frame)
    BY DEF FramesInv, TypeInv, HoldersInv
<1>1. PICK e : e = Head(evt_queue)
    OBVIOUS
<1>2. evt_queue # <<>> /\ e.type = "Rx"
    BY <1>1 DEF ProcessRx, Event
<1>3. e \in Evt /\ e.buf \in Buffer /\ e.port \in Ports
    <2>1. e \in Evt
        BY <1>1, <1>2, <1>6, TailFacts
    <2> QED
        BY <1>2, <2>1, EvtFields
<1>4. EventRight(Head(evt_queue), frame) /\ AllRight(Tail(evt_queue), frame)
    BY <1>2, <1>6, RightTail
<1>5. PICK rest : rest = Tail(evt_queue)
    OBVIOUS
<1>7. /\ rest \in Seq(Evt) /\ Len(rest) <= QueueLen /\ AllRight(rest, frame)
    BY <1>2, <1>4, <1>5, <1>6, TailFacts DEF L2Assumption
<1>8. PICK f : f = [frame[e.buf] EXCEPT !.ingress = e.port]
    OBVIOUS
<1>9. f \in Frame /\ f.came = e.port /\ (f.dst = "global" => f.sum = f.base)
    <2>1. PICK g : g = frame[e.buf]
        OBVIOUS
    <2>2. g \in Frame /\ g.came = e.port /\ (g.dst = "global" => g.sum = g.base)
        BY <1>1, <1>2, <1>4, <2>1 DEF EventRight, Arrived
    <2>3. f = [g EXCEPT !.ingress = e.port]
        BY <1>8, <2>1
    <2> QED
        BY <1>3, <2>2, <2>3 DEF Frame
<1>10. PICK c : c = NewBuffer
    OBVIOUS
<1>11. PICK b \in Buffer : b = e.buf
    BY <1>3
<1>12. PICK r : r = [ref EXCEPT ![b] = @ - 1]
    OBVIOUS
<1>13. Queued(evt_queue, b) /\ ~Queued(rest, b) /\ ~Up(bcmp_queue, b)
       /\ \A x \in Buffer : Queued(rest, x) => Queued(evt_queue, x)
    <2>1. QueuedOnce(evt_queue)
        BY <1>6 DEF Holders
    <2>2. Queued(evt_queue, b) /\ ~Queued(rest, b)
          /\ \A x \in Buffer : Queued(rest, x) => Queued(evt_queue, x)
        BY <1>1, <1>2, <1>5, <1>6, <1>11, <2>1, QueuedTail
    <2> QED
        BY <1>6, <2>2 DEF Holders
<1>14. Holders(rest, held, bcmp_queue, r) /\ r \in [Buffer -> Int]
    <2>1. Holders(Tail(evt_queue), held, bcmp_queue, [ref EXCEPT ![Head(evt_queue).buf] = @ - 1])
        BY <1>1, <1>2, <1>6, HoldTail
    <2> QED
        BY <1>1, <1>5, <1>6, <1>11, <1>12, <2>1
<1>15. PICK out \in Egress(f, e.port) :
            LET copy == out.ports # {} /\ Unused # {} /\ HasRoom(rest)
            IN  /\ evt_queue' = IF copy THEN Tx(rest, c, out.ports) ELSE rest
                /\ Submit(f, b, out.submit, IF copy THEN [ref EXCEPT ![c] = 1] ELSE ref)
                /\ frame' = Contents(ref', [x \in Buffer |-> IF copy /\ x = c THEN Copied(f)
                                                             ELSE IF x = b THEN f ELSE frame[x]])
    BY <1>1, <1>5, <1>8, <1>10, <1>11 DEF ProcessRx
<1>16. UNCHANGED held
    BY DEF ProcessRx
<1>17. /\ out.ports \subseteq Ports
       /\ f.dst = "global" => e.port \notin out.ports
       /\ f.dst = "neighbors" => out.ports = {}
    <2>1. CASE f.dst = "global"
        BY <1>15, <2>1 DEF Egress
    <2>2. CASE f.dst # "global" /\ Routes /\ f.dst # "neighbors"
        BY <1>15, <2>2 DEF Egress
    <2>3. CASE f.dst # "global" /\ ~(Routes /\ f.dst # "neighbors")
        BY <1>15, <2>3 DEF Egress
    <2> QED
        BY <2>1, <2>2, <2>3
<1>18. PICK refs, fs, q2 :
          /\ refs \in [Buffer -> Int] /\ Holders(q2, held, bcmp_queue, [refs EXCEPT ![b] = @ - 1])
          /\ ~Queued(q2, b) /\ evt_queue' = q2 /\ Submit(f, b, out.submit, refs)
          /\ frame' = Contents(ref', fs) /\ q2 \in Seq(Evt) /\ Len(q2) <= QueueLen
          /\ fs \in [Buffer -> Frame \cup {NoFrame}] /\ AllRight(q2, fs)
    <2>1. CASE out.ports # {} /\ Unused # {} /\ HasRoom(rest)
        <3>1. c \in Buffer /\ ref[c] = 0 /\ ~Queued(evt_queue, c) /\ c # b
            BY <1>10, <1>13, <2>1, NewBufferUnused
        <3>2. PICK t : t = [type |-> "Tx", buf |-> c, ports |-> out.ports \cap enabled]
            OBVIOUS
        <3>3. t \in Evt /\ t.type = "Tx" /\ t.buf = c /\ t.ports \subseteq Ports
              /\ (f.dst = "global" => e.port \notin t.ports) /\ f.dst # "neighbors"
            BY <1>17, <2>1, <3>1, <3>2 DEF Evt
        <3>4. PICK q2 : q2 = Append(rest, t)
            OBVIOUS
        <3>5. evt_queue' = q2 /\ q2 \in Seq(Evt) /\ Len(q2) <= QueueLen
            BY <1>7, <1>15, <2>1, <3>2, <3>3, <3>4 DEF Tx, HasRoom, L2Assumption
        <3>6. PICK refs : refs = [ref EXCEPT ![c] = 1]
            OBVIOUS
        <3>7. refs \in [Buffer -> Int] /\ [refs EXCEPT ![b] = @ - 1] = [r EXCEPT ![c] = 1]
            <4>1. refs \in [Buffer -> Int] /\ r \in [Buffer -> Int]
                BY <1>6, <1>14, <3>1, <3>6
            <4>2. PICK x, y : x = [refs EXCEPT ![b] = @ - 1] /\ y = [r EXCEPT ![c] = 1]
                OBVIOUS
            <4>3. x \in [Buffer -> Int] /\ y \in [Buffer -> Int]
                BY <3>1, <4>1, <4>2
            <4>4. \A z \in Buffer : x[z] = y[z]
                BY <1>6, <1>12, <3>1, <3>6, <4>1, <4>2
            <4> QED
                BY <4>1, <4>2, <4>3, <4>4
        <3>8. Holders(q2, held, bcmp_queue, [refs EXCEPT ![b] = @ - 1])
            <4>1. r[t.buf] <= 0 /\ t.type # "Irq"
                BY <1>6, <1>12, <3>1, <3>3
            <4>2. Holders(Append(rest, t), held, bcmp_queue, [r EXCEPT ![t.buf] = 1])
                BY <1>7, <1>14, <3>3, <4>1, HoldAppend
            <4> QED
                BY <3>3, <3>4, <3>7, <4>2
        <3>9. ~Queued(q2, b)
            <4>1. QueuedOnce(rest) /\ ~Queued(rest, t.buf) /\ t.type # "Irq"
                BY <1>13, <1>14, <3>1, <3>3 DEF Holders
            <4>2. \A x \in Buffer : Queued(Append(rest, t), x) <=> Queued(rest, x) \/ x = t.buf
                BY <1>7, <3>3, <4>1, QueuedAppend
            <4> QED
                BY <1>13, <3>1, <3>3, <3>4, <4>2
        <3>10. PICK fs : fs = [x \in Buffer |-> IF x = c THEN Copied(f)
                                               ELSE IF x = b THEN f ELSE frame[x]]
            OBVIOUS
        <3>11. frame' = Contents(ref', fs) /\ Submit(f, b, out.submit, refs)
            BY <1>15, <2>1, <3>6, <3>10
        <3>12. Copied(f) \in Frame /\ Ready(Copied(f), t.ports)
            <4>1. PICK g : g = Copied(f)
                OBVIOUS
            <4>2. g = [proto |-> f.proto, dst |-> f.dst, ingress |-> 0, egress |-> {},
                       base |-> f.base, sum |-> f.sum, came |-> f.came]
                BY <1>9, <4>1 DEF Copied, Frame
            <4>3. g \in Frame
                BY <1>9, <4>2 DEF Frame
            <4>4. g.ingress = 0 /\ g.egress = {} /\ g.came = e.port /\ g.dst = f.dst
                  /\ g.sum = f.sum /\ g.base = f.base
                BY <1>9, <4>2
            <4>5. e.port # 0
                BY <1>3 DEF L2Assumption
            <4> QED
                BY <1>9, <3>3, <4>1, <4>3, <4>4, <4>5 DEF Ready
        <3>13. fs \in [Buffer -> Frame \cup {NoFrame}] /\ fs[c] = Copied(f)
            BY <1>6, <1>9, <3>1, <3>10, <3>12
        <3>14. AllRight(rest, fs)
            <4>1. \A x \in Buffer : Queued(rest, x) => fs[x] = frame[x]
                BY <1>13, <3>1, <3>10
            <4> QED
                BY <1>7, <4>1, RightElse
        <3>15. EventRight(t, fs)
            BY <3>3, <3>12, <3>13 DEF EventRight
        <3>16. AllRight(q2, fs)
            BY <1>7, <3>3, <3>4, <3>14, <3>15, RightAppend
        <3> QED
            BY <3>5, <3>7, <3>8, <3>9, <3>11, <3>13, <3>16
    <2>2. CASE ~(out.ports # {} /\ Unused # {} /\ HasRoom(rest))
        <3>1. PICK fs : fs = [x \in Buffer |-> IF x = b THEN f ELSE frame[x]]
            OBVIOUS
        <3>2. evt_queue' = rest /\ Submit(f, b, out.submit, ref)
            BY <1>15, <2>2
        <3>3. frame' = Contents(ref', fs)
            BY <1>15, <2>2, <3>1
        <3>4. fs \in [Buffer -> Frame \cup {NoFrame}]
            BY <1>6, <1>9, <3>1
        <3>5. AllRight(rest, fs)
            <4>1. \A x \in Buffer : Queued(rest, x) => fs[x] = frame[x]
                BY <1>13, <3>1
            <4> QED
                BY <1>7, <4>1, RightElse
        <3> QED
            BY <1>6, <1>7, <1>12, <1>13, <1>14, <3>2, <3>3, <3>4, <3>5
    <2> QED
        BY <2>1, <2>2
<1>19. /\ bcmp_queue' \in Seq(Buffer) /\ Len(bcmp_queue') <= BcmpLen /\ ref' \in [Buffer -> Int]
       /\ Holders(q2, held, bcmp_queue', ref')
    <2>1. CASE out.submit /\ f.proto = "bcmp" /\ Len(bcmp_queue) < BcmpLen
        <3>1. bcmp_queue' = Append(bcmp_queue, b) /\ ref' = refs
            BY <1>18, <2>1 DEF Submit
        <3>2. PICK r2 : r2 = [refs EXCEPT ![b] = @ - 1]
            OBVIOUS
        <3>3. r2 \in [Buffer -> Int] /\ refs = [r2 EXCEPT ![b] = @ + 1]
            <4>1. refs \in [Buffer -> Int] /\ r2 \in [Buffer -> Int]
                BY <1>18, <3>2
            <4>2. PICK r3 : r3 = [r2 EXCEPT ![b] = @ + 1]
                OBVIOUS
            <4>3. r3 \in [Buffer -> Int] /\ \A x \in Buffer : r3[x] = refs[x]
                BY <3>2, <4>1, <4>2
            <4> QED
                BY <4>1, <4>2, <4>3
        <3>4. Holders(q2, held, Append(bcmp_queue, b), [r2 EXCEPT ![b] = @ + 1])
            BY <1>6, <1>13, <1>18, <3>2, <3>3, HoldUp
        <3>5. bcmp_queue' \in Seq(Buffer) /\ Len(bcmp_queue') <= BcmpLen
            BY <1>6, <2>1, <3>1 DEF L2Assumption
        <3> QED
            BY <1>18, <3>1, <3>3, <3>4, <3>5
    <2>2. CASE ~(out.submit /\ f.proto = "bcmp" /\ Len(bcmp_queue) < BcmpLen)
        <3>1. UNCHANGED bcmp_queue /\ ref' = [refs EXCEPT ![b] = @ - 1]
            BY <1>18, <2>2 DEF Submit
        <3>2. ref' \in [Buffer -> Int]
            BY <1>18, <3>1
        <3> QED
            BY <1>6, <1>18, <3>1, <3>2
    <2> QED
        BY <2>1, <2>2
<1>20. frame' \in [Buffer -> Frame \cup {NoFrame}] /\ AllRight(q2, frame')
    BY <1>18, <1>19, RightContents
<1> QED
    BY <1>6, <1>16, <1>18, <1>19, <1>20 DEF Kept

LEMMA FramesStep ==
    ASSUME L2Assumption, NoCarry, Stack = "lwip" \/ ~Full, FramesInv, [Next]_vars
    PROVE  FramesInv'
<1>1. ASSUME wire' = {} PROVE WireIsRight' /\ NeverBack'
    BY <1>1 DEF WireIsRight, NeverBack
<1>2. ASSUME NEW proto \in Proto, NEW base \in Sums
      PROVE  /\ \A dst \in {"global", "local", "unicast"}, p \in Ports \cup {0} :
                    Output(proto, dst, base, p) => Kept /\ wire' = {}
             /\ \A dst \in {"global", "local", "neighbors"}, q, p \in Ports :
                    Receive(proto, dst, base, q, p) => Kept /\ wire' = {}
    <2>1. \A dst \in {"global", "local", "unicast"}, p \in Ports \cup {0} :
              Output(proto, dst, base, p) => Kept
        BY OutputKeeps
    <2>2. \A dst \in {"global", "local", "neighbors"}, q, p \in Ports :
              Receive(proto, dst, base, q, p) => Kept
        BY ReceiveKeeps
    <2> QED
        BY <2>1, <2>2 DEF Output, Receive
<1>3. (\E b \in Buffer : CleanUp(b)) \/ BcmpHandles \/ Interrupt \/ IrqBegin \/ ProcessRx
          => Kept /\ wire' = {}
    <2>1. (\E b \in Buffer : CleanUp(b)) \/ BcmpHandles \/ Interrupt \/ IrqBegin \/ ProcessRx
              => Kept
        BY CleanUpKeeps, BcmpHandlesKeeps, InterruptKeeps, IrqBeginKeeps, ProcessRxKeeps
    <2> QED
        BY <2>1 DEF CleanUp, BcmpHandles, Interrupt, IrqBegin, ProcessRx
<1>4. ThreadStarts \/ IrqEnd \/ PortEnd \/ Register \/ Replay
        \/ (\E p \in Ports, up \in BOOLEAN : LinkChanges(p, up) \/ PortBegin(p, up))
          => UNCHANGED <<ref, frame, evt_queue, held, bcmp_queue>> /\ wire' = {}
    BY DEF ThreadStarts, IrqEnd, PortEnd, Register, Replay, LinkChanges, PortBegin, buffers
<1>5. UNCHANGED vars => UNCHANGED <<ref, frame, evt_queue, held, bcmp_queue>>
                        /\ WireIsRight' /\ NeverBack'
    BY DEF vars, buffers, FramesInv, WireIsRight, NeverBack
<1>6. UNCHANGED <<ref, frame, evt_queue, held, bcmp_queue>> => Kept
    BY RestKeeps
<1>7. ProcessTx => Kept /\ WireIsRight' /\ NeverBack'
    BY ProcessTxKeeps
<1>8. Kept /\ WireIsRight' /\ NeverBack'
    BY <1>1, <1>2, <1>3, <1>4, <1>5, <1>6, <1>7 DEF Next
<1> QED
    BY <1>8, FramesKept

LEMMA FramesInit ==
    ASSUME L2Assumption, Init
    PROVE  FramesInv
<1>1. TypeInv
    BY DEF L2Assumption, Init, TypeInv, LinksTyped
<1>2. HoldersInv
    BY DEF Init, HoldersInv, Holders, QueuedOnce, UpOnce, Queued, Up, One
<1> QED
    BY <1>1, <1>2 DEF Init, FramesInv, AllRight, WireIsRight, NeverBack

\* A buffer that is in a queue at most once is counted once.
LEMMA FramesInvRefs ==
    ASSUME FramesInv
    PROVE  RefsMatch
<1>1. ASSUME NEW b \in Buffer
      PROVE  Cardinality({i \in DOMAIN evt_queue : evt_queue[i].type # "Irq" /\ evt_queue[i].buf = b})
                 = One(Queued(evt_queue, b))
    <2> DEFINE S == {i \in DOMAIN evt_queue : evt_queue[i].type # "Irq" /\ evt_queue[i].buf = b}
    <2>1. \A i, j \in S : i = j
        BY DEF FramesInv, HoldersInv, Holders, QueuedOnce
    <2>2. S = {} \/ \E i \in S : S = {i}
        BY <2>1
    <2>3. Cardinality({}) = 0 /\ \A i : Cardinality({i}) = 1
        BY FS_EmptySet, FS_Singleton
    <2> QED
        BY <2>2, <2>3 DEF Queued, One
<1>2. ASSUME NEW b \in Buffer
      PROVE  Cardinality({i \in DOMAIN bcmp_queue : bcmp_queue[i] = b}) = One(Up(bcmp_queue, b))
    <2> DEFINE S == {i \in DOMAIN bcmp_queue : bcmp_queue[i] = b}
    <2>1. \A i, j \in S : i = j
        BY DEF FramesInv, HoldersInv, Holders, UpOnce
    <2>2. S = {} \/ \E i \in S : S = {i}
        BY <2>1
    <2>3. Cardinality({}) = 0 /\ \A i : Cardinality({i}) = 1
        BY FS_EmptySet, FS_Singleton
    <2> QED
        BY <2>2, <2>3 DEF Up, One
<1>3. \A b \in Buffer : ref[b] = One(Queued(evt_queue, b)) + One(b \in held) + One(Up(bcmp_queue, b))
    BY DEF FramesInv, HoldersInv, Holders
<1> QED
    BY <1>1, <1>2, <1>3 DEF RefsMatch, One

\* Layer 2 (network/l2.c, l2_policy.c): on every path a frame can take, queues
\* full and buffers used up included, a buffer has as many references as it
\* has holders; what leaves carries the port it leaves by and the checksum for
\* it, a frame to all nodes does not go back to the port it came by and one to
\* the neighbors is not sent on: for every number of ports,
\* buffers and places in the queues, where the stack takes back one reference
\* when a send fails (bm_lwip.c) and no checksum has a carry.
THEOREM FramesRight ==
    ASSUME L2Assumption, NoCarry, Stack = "lwip" \/ ~Full
    PROVE  Spec => []FramesAreRight
<1>1. Init => FramesInv
    BY FramesInit
<1>2. FramesInv /\ [Next]_vars => FramesInv'
    BY FramesStep
<1>3. FramesInv => FramesAreRight
    <2>1. FramesInv => RefsMatch
        BY FramesInvRefs
    <2>2. FramesInv => TypeOK
        BY DEF FramesInv, TypeInv, LinksTyped, TypeOK
    <2> QED
        BY <2>1, <2>2 DEF FramesInv, FramesAreRight
<1> QED
    BY <1>1, <1>2, <1>3, PTL DEF Spec

=============================================================================
